CONSTANTS
    c1 = c1
    c2 = c2
    i1 = i1
    i2 = i2
    NoConn = NoConn
    NoReq = NoReq
    Conn <- MCConn2
    Id <- MCId2
    ClientKinds <- MCAllKinds
    MaxMiss = 2
    Backlog = 1
    LossyFin = TRUE
SPECIFICATION Spec
INVARIANT LinkInv
INVARIANT ShiftOnlyAfterSlip
INVARIANT QuietBetweenExchanges
SYMMETRY MCSym22
