SPECIFICATION Spec
CONSTANTS
    Nonces <- MCNonces
    Junk = 98
    State = 99
    NULL = NULL
INVARIANT NoinitPersists
