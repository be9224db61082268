SPECIFICATION Spec
CONSTANTS
    a = a
    b = b
    c = c
    n1 = n1
    n2 = n2
    Txs = {a, b, c}
    Nonces = {n1, n2}
    NonceOf <- MCNonceOf
    LimitOf <- MCLimitOf
    BlockLimit = 2
    MaxBlock = 2
    MaxLag = 2
    Checkers = {k1}
    NoTx = NoTx
    RestartFloor = 0
INVARIANTS
    NoReplay
