SPECIFICATION MCSpec
CONSTANTS
    Nodes = {n1, n2}
    Tasks = {k1, k2}
    Distributors = {d1}
    MaxLoad = 1
    MaxConcurrent <- MCMaxConcurrent
    NoNode = NoNode
    Transactions = {t1, t2}
    Publishers = {c1, c2}
    MaxEvents = 2
    Kinds = {"started", "other"}
    NoClient = NoClient
    Events <- MCEvents
    Subscribers = {}
    Filters = {}
    Persistent = TRUE
    Capacity = 1
    MaxPublished = 0
    MaxFaults = 1
    NoEvent = NoEvent
INVARIANTS
    EachTaskInOnePlace
    DispatchAccounting
    CommittedIsComplete
    PublishedInOrder
    UndoneOnce
    Compensated
PROPERTIES
    PendingDrains
    ImplementsPool
    FailedStaysUnpublished
    FailedEnds
\* Transactions and calls are bounded, and may all have ended.
CHECK_DEADLOCK FALSE
