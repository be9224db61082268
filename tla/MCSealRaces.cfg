SPECIFICATION Spec
CONSTANTS
    a = a
    b = b
    p = p
    q = q
    Txs = {a, b}
    Proposals = {p, q}
    TxsIn <- MCTxsIn
    NoBatch = NoBatch
    NoTx = NoTx
    Markers = {m1, m2}
    Importers = {i1, i2}
    Skippable = {a, b}
    SizeMax = 4
    Workers = 2
INVARIANTS
    TypeOK
    CountsWithoutClash
SYMMETRY Alike
