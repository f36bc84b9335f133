CONSTANTS
    Pods = {p1, p2}
    Checks = {}
    Skips <- MCNoSkips
    Events = {e1}
    Wants <- MCWants
    Timers = {}
    Nobody = nobody
    Orphan = orphan
    Faults = {"crash", "claim", "complete", "insert", "lookup"}
    MaxJobs = 2
SPECIFICATION FairSpec
PROPERTY EveryJobFinishes
