CONSTANTS
    Main = main
    Branches = {b1, b2}
    Paths = {p1, p2}
    Versions = {v1}
    Deleted = Deleted
    Authors = {alice}
    MaxSeq = 3
    SeqNos <- MCSeqNos
    Patches <- MCPatches
SYMMETRY Symmetry
SPECIFICATION Spec
INVARIANTS
    IInv
    TreeIsOverlay
    ChainLinear
PROPERTIES
    HeadIdentifiesTree
    HistoryPinned
    MergeLosesNothing
    RebaseKeepsChanges
