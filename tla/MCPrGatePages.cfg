CONSTANTS
    Paths <- MCPaths
    Moves = {}
    Errors = {"network"}
    PageLen = 2
    MaxChanges = 4
SPECIFICATION Spec
INVARIANTS
    PassOnlyAllowed
CHECK_DEADLOCK FALSE
