SPECIFICATION FairSpec
CONSTANTS
    e1 = e1
    e2 = e2
    i1 = i1
    i2 = i2
    sse = sse
    admin = admin
    user = user
    LogEvents = {e1, e2}
    Events = {e1, e2}
    Instances = {i1, i2}
    Readers = {sse}
    Workers = {}
    HomeOf <- MCHomeOf
    SeatOf <- MCSeatOf
    Wants <- MCWants
    PollLimit = 1
    MaxLogFaults = 2
    Subs = {s1}
    Pollers = {p1, p2}
    Users = {admin}
    Admin = admin
    AnyRepo = any
    AllTypes = all
    EventRepo <- MCEventRepo
    EventType <- MCEventType
    CanRead <- MCCanRead
    Filters <- MCFilters
    BatchSize = 1
    MaxAttempts = 2
    MaxFaults = 1
CHECK_DEADLOCK FALSE
INVARIANTS
    StreamIsLog
    RowsAccountedFor
PROPERTIES
    LoggedReachesReaders
    ImplementsDelivery
    EveryRowSettles
