SPECIFICATION Spec
CONSTANTS
    j1 = j1
    j2 = j2
    A = A
    B = B
    build = build
    lib = lib
    site = site
    NoSecret = NoSecret
    NoJWT = NoJWT
    Names = {A, B}
    Values = {v1, v2}
    Writers = {w1}
    Jobs = {j1, j2}
    Authors = {"ann"}
    TriggerOf <- MCTriggerOf
    AuthorOf <- MCAuthorOf
    Config <- MCConfig
    MaxFaults = 1
    TokenJobs = {build}
    AllRepos = {lib, site}
    JobRepo <- MCJobRepo
    Declared <- MCDeclared
    Slots = {s1}
    Verifiers = {"api", "registry"}
    CacheTTL = 2
    TokenTTL = 1
    MaxKeys = 2
    MaxFetchFaults = 1
INVARIANTS
    SealedStaysReadable
    RevealSound
    TokenBounded
PROPERTIES
    VerifierLearnsKey
