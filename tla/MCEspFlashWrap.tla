--------------------------- MODULE MCEspFlashWrap ---------------------------
(* A flash of 8 bytes in an address space of 16, and one length with which *)
(* the 32-bit sum of address and length wraps.                             *)
EXTENDS EspFlash

WrapAddrs == {0, 4}
WrapLens == {0, 2, 14}
WrapPayloads == Buffer(2)
=============================================================================
