CONSTANTS
    Main = main
    Branches = {b1}
    Paths = {p1, p2}
    Versions = {v1}
    Deleted = Deleted
    Authors = {alice}
    MaxSeq = 3
    SeqNos <- MCSeqNos
    Txs = {t1, t2}
    NoTx = NoTx
    Purgers = {t1}
    Patches <- MCPatches
SPECIFICATION TxSpec
INVARIANTS TxSound
PROPERTY ImplementsBranchStore
