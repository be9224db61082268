SPECIFICATION Spec
CONSTANTS
    a = a
    b = b
    c = c
    n1 = n1
    n2 = n2
    r1 = r1
    r2 = r2
    g1 = g1
    e1 = e1
    e2 = e2
    Txs = {a, b}
    Nonces = {n1}
    NonceOf <- ConsensusNonceOf
    LimitOf <- ConsensusLimitOf
    BlockLimit = 2
    MaxBlock = 1
    MaxLag = 1
    Rpc = {r1}
    Gossip = {g1}
    Enforces = {}
    CallTx <- TwiceCallTx
    NoCallback = NoCallback
    NoTx = NoTx
    PoolLimit = 2
    Workers = 2
PROPERTIES
    ImportedOnce
