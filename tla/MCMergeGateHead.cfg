CONSTANTS
    Branches = {b1}
    Clients = {c1}
    Worker = worker
    Keep = keep
    NotLoaded = notLoaded
    Policies <- MCReview
    Evidence = {"review"}
    Faults = {}
    MaxHead = 1
    MaxEvents = 1
SPECIFICATION Spec
INVARIANT GateAtMergedHead
