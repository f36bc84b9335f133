CONSTANTS
    Branches = {b1}
    Clients = {c1}
    Worker = worker
    Keep = keep
    NotLoaded = notLoaded
    Policies <- MCPolicies
    Evidence = {"review", "check"}
    Faults = {"load", "merge", "conflict", "cleanup", "emit"}
    MaxHead = 1
    MaxEvents = 1
SPECIFICATION Spec
INVARIANTS MergesGated StaleOnlyByRace
