SPECIFICATION FairSpec
CONSTANTS
    a = a
    b = b
    p = p
    q = q
    Txs = {a}
    Proposals = {q}
    TxsIn <- MCTxsIn
    NoBatch = NoBatch
    NoTx = NoTx
    Markers = {m1}
    Importers = {}
    Skippable = {}
    SizeMax = 2
    Workers = 1
PROPERTIES
    EventuallySealed
