SPECIFICATION Spec

CONSTANTS
    c1 = c1
    c2 = c2
    Client <- MCClient
    Remote <- MCRemote
    Items  <- MCItems
    Plans  <- MCPlans
    Chunks    = 2
    MaxPolls  = 2

INVARIANTS
    ToolsInv
    ResultsAreReal
PROPERTIES
    CallsEnd

CHECK_DEADLOCK FALSE
