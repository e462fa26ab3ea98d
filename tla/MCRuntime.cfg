SPECIFICATION MCSpec
CONSTANTS
    e1 = e1
    e2 = e2
    Events = {e1, e2}
    Publishers = {p1, p2}
    Subscribers = {s1}
    Filters <- MCFilters
    Persistent = TRUE
    Capacity = 2
    MaxPublished = 4
    MaxFaults = 1
    NoEvent = NoEvent
    t1 = t1
    t2 = t2
    t3 = t3
    Tests = {t1, t2, t3}
    Suites <- MCSuites
    Limit = 2
    MinInterval = 2
    Executions = {x1, x2}
    Clients = {c1, c2}
    Total = 1
    MaxCalls = 4
    Collectors = {l1, l2}
    NoCollector = NoCollector
    Readers = {r1}
    MaxDataPoints = 2
    Retention = 0
    BaselinePeriod = 1
    MinSamples = 2
    MaxTime = 1
    MaxWork = 3
    Notifications <- MCNotifications
    NoName = "none"
    Debounce = 1
    MaxStarts = 2
    MaxChanges = 2
    MaxClock = 2
INVARIANTS
    RuntimeTypeOK
    SentIsStored
    OrderedDelivery
    NoSilentLoss
    ExecutesUnblocked
    DependenciesSeen
    BurstBound
    MonitorAgrees
    HistorySound
PROPERTIES
    RuntimeCallsEnd
\* Every service stops at its bound.
CHECK_DEADLOCK FALSE
