CONSTANTS
    Branches = {b1}
    Clients = {c1}
    Worker = worker
    Keep = keep
    NotLoaded = notLoaded
    Policies <- MCStrict
    Evidence = {"review", "check", "proposal"}
    Faults = {"conflict"}
    MaxHead = 1
    MaxEvents = 1
SPECIFICATION FairSpec
PROPERTY AutoMergeAfterEvent
