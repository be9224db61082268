SPECIFICATION Spec
CONSTANTS
    a = a
    b = b
    c = c
    n1 = n1
    n2 = n2
    r1 = r1
    r2 = r2
    g1 = g1
    e1 = e1
    e2 = e2
    Txs = {a, b, c}
    Nonces = {n1, n2}
    NonceOf <- MCNonceOf
    LimitOf <- MCLimitOf
    BlockLimit = 2
    MaxBlock = 2
    MaxLag = 1
    Rpc = {r1, r2}
    Gossip = {g1}
    Enforces = {}
    CallTx <- SubmitCallTx
    NoCallback = NoCallback
    NoTx = NoTx
    PoolLimit = 1
    Workers = 2
INVARIANTS
    TypeOK
    OneAnswer
    NoSilentLoss
    PoolBound
    NonceNotLeaked
PROPERTIES
    KeepsPromise
