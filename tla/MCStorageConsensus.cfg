SPECIFICATION Spec
CONSTANTS
    a = a
    b = b
    c = c
    n1 = n1
    n2 = n2
    r1 = r1
    r2 = r2
    g1 = g1
    e1 = e1
    e2 = e2
    Txs = {a, b}
    Nonces = {n1}
    NonceOf <- ConsensusNonceOf
    LimitOf <- ConsensusLimitOf
    BlockLimit = 2
    MaxBlock = 2
    MaxLag = 1
    Rpc = {r1}
    Gossip = {}
    Enforces = {e1, e2}
    CallTx <- ConsensusCallTx
    NoCallback = NoCallback
    NoTx = NoTx
    PoolLimit = 2
    Workers = 2
INVARIANTS
    TypeOK
    OneAnswer
    NeverSealsCommitted
PROPERTIES
    LeavesOnlyForCause
