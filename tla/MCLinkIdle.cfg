CONSTANTS
    c1 = c1
    c2 = c2
    i1 = i1
    i2 = i2
    NoConn = NoConn
    NoReq = NoReq
    Conn <- MCConn2
    Id <- MCId2
    ClientKinds <- MCFile
    MaxMiss = 2
    Backlog = 1
    LossyFin = TRUE
SPECIFICATION FairSpec
PROPERTY Rejoins
PROPERTY LoopComesRound
