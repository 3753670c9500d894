SPECIFICATION FairSpec
CONSTANTS
    p1 = p1
    p2 = p2
    g1 = g1
    NoOp = NoOp
    Puts <- MCPuts
    Gets <- MCGets
    DataLen <- MCData
    RsrcLen <- MCRsrc
    Window = 2
    MaxStale = 1
    Failures <- MCAllFailures
INVARIANTS OwnAnswers WrittenMeansWhole TransferInv
PROPERTIES TransfersEnd
