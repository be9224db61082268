SPECIFICATION FairSpec
CONSTANTS
    a = a
    b = b
    c = c
    n1 = n1
    n2 = n2
    p = p
    q = q
    Txs = {a, b, c}
    Nonces = {n1, n2}
    NonceOf <- MCNonceOf
    LimitOf <- MCLimitOf
    BlockLimit = 2
    MaxBlock = 1
    MaxLag = 1
    Proposals = {p, q}
    TxsIn <- MCTxsIn
    Unsealed = Unsealed
    NoBatch = NoBatch
    Forged = {c}
    Others = {b}
INVARIANTS
    TypeOK
    OneReply
    VerifiedIsPooled
    VerifiedIsFilled
    VerifiedIsSigned
PROPERTIES
    KeepsPromise
    EventuallyAnswered
CHECK_DEADLOCK FALSE
