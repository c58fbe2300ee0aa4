CONSTANTS
    Paths <- MCPaths
    Moves <- MCMoves
    Errors = {}
    PageLen = 2
    MaxChanges = 2
SPECIFICATION Spec
INVARIANTS
    PassOnlyAllowed
CHECK_DEADLOCK FALSE
