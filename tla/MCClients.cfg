SPECIFICATION Spec
CONSTANTS
    Docs = {d, e}
    Contents = {x, y}
    Topics = {topic1}
    Gone = Gone
    Empty = Empty
    NoHash = NoHash
    NoBranch = NoBranch
    MaxLog = 4
    MaxEdits = 1
    MaxCommands = 3
    MaxOthers = 2
    MaxInterrupts = 1
    None = None
    TBranches = {b1, b2}
    TIssues = {i1, i2}
    MaxKeys = 5
CHECK_DEADLOCK FALSE
INVARIANTS
    EditsKept
    PullsSound
    ScreensSound
