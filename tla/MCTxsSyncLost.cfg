SPECIFICATION FairSpec
CONSTANTS
    n1 = n1
    n2 = n2
    n3 = n3
    n4 = n4
    a = a
    b = b
    Nodes = {n1, n2}
    ConsensusList <- ListOfTwo
    Connected <- AllConnected
    Outside = {}
    Txs = {a, b}
    Unwanted <- NoneUnwanted
    PoolLimit <- LargePools
    forwardPercent = 25
    c_maxSendTransactions = 1
    Submissions <- SameNode
    Applies = {}
    MaxCalls = 2
    MaxLost = 0
PROPERTIES
    ReachesAll
CHECK_DEADLOCK FALSE
