SPECIFICATION FairSpec
CONSTANTS
    c1 = c1
    c2 = c2
    NoClient = NoClient
    Client <- MCClients
    Requests <- MCRequests
    Backlog = 2
    CtrlToken = TRUE
    RemoteGuest = FALSE
    MaxNow = 2
INVARIANTS PortInv NotRunAfterGiveUp
PROPERTIES EveryoneServed
CHECK_DEADLOCK FALSE
