SPECIFICATION FairSpec
CONSTANTS
    n1 = n1
    n2 = n2
    n3 = n3
    n4 = n4
    a = a
    b = b
    Nodes = {n1, n2, n3}
    ConsensusList <- ListOfThree
    Connected <- AllConnected
    Outside = {}
    Txs = {a}
    Unwanted <- NoneUnwanted
    PoolLimit <- LargePools
    forwardPercent = 25
    c_maxSendTransactions = 1
    Submissions <- OneSubmission
    Applies <- MCApplies
    MaxCalls = 2
    MaxLost = 1
INVARIANTS
    TypeOK
    NotMissedWhilePooled
PROPERTIES
    SpreadsByGossip
    ReceivedIsImported
    ReachesAll
CHECK_DEADLOCK FALSE
