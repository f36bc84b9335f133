CONSTANTS
    Pods = {p1, p2}
    Checks = {c1}
    Skips <- MCNoSkips
    Events = {e1}
    Wants <- MCWants
    Timers = {"schedule"}
    Nobody = nobody
    Orphan = orphan
    Faults = {"crash", "claim", "setup", "post", "complete", "insert", "lookup"}
    MaxJobs = 2
SYMMETRY Symmetry
SPECIFICATION Spec
INVARIANTS QueueConsistent AckedIsQueued ChecksSettle
PROPERTY FinishedStays
