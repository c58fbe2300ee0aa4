\* A counter of two by four values, two ticks to the ms and an answer of one
\* bit, which wraps before the counter does.  3 ms are more ticks than the low
\* half counts.
SPECIFICATION Spec
CONSTANTS
    LoLimit = 2
    HiLimit = 4
    MsLimit = 2
    TicksPerMs = 2
    Guard = 2
    Delays = {0, 1, 3}
PROPERTIES
    TicksAreMonotonic
