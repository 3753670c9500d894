SPECIFICATION BuildSpec
CONSTANTS
    a1 = a1  a2 = a2  s1 = s1  k1 = k1  k2 = k2  o1 = o1  o2 = o2
    Agent <- MCAgent
    Source <- MCSource
    Good <- MCGood
    Key <- MCKey
    Outcome <- MCOutcome
    MaxVersion = 3
    MaxFaults = 1
    MaxBuilds <- MCBuilds
    MaxEchoes = 2
    Window = 2
    History = 4
    MaxCalls = 5
    MaxGap = 2
INVARIANTS BuildInv ClosedLoopIsFresh GuardsTellTrue
CHECK_DEADLOCK FALSE
