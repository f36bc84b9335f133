SPECIFICATION Spec
CONSTANTS
    m1 = m1
    m2 = m2
    b1 = b1
    b2 = b2
    NoObject = NoObject
    RegBlobs = {b1, b2}
    Manifests = {m1, m2}
    RegTags = {"latest"}
    Layers <- MCLayers
    Replicas = {r1, r2}
    Clients = {c1, c2}
    MaxRegFaults = 1
    MaxDeletes = 1
    Nobody = Nobody
    DocRepos = {ra, rb}
    BigContents = {big}
    Committers = {k1, k2}
    MaxDocs = 2
    MaxDocSeq = 2
    MaxDocFaults = 1
    Releases = {v1}
    NPaths = 2
    MaxReadSeq = 3
    PageSize = 1
    HistLimit = 2
    MaxCommitRange = 2
    MaxReadFaults = 1
    Lines = {l1, l2}
    MaxLines = 4
    MaxTokens = 5
CHECK_DEADLOCK FALSE
SYMMETRY ContentSymmetry
INVARIANTS
    PushedCanBePulled
    ContentKept
    ListingsSound
    DiffsSound
    FunctionsRight
