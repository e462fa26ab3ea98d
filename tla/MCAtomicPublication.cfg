SPECIFICATION TxSpec
CONSTANTS
    Transactions = {t1}
    Publishers = {c1}
    MaxEvents = 2
    Kinds = {"started", "other"}
    NoClient = NoClient
    Events <- MCEvents
    Subscribers = {}
    Filters = {}
    Persistent = TRUE
    Capacity = 1
    MaxPublished = 0
    MaxFaults = 1
    NoEvent = NoEvent
INVARIANTS
    AtomicPublication
CHECK_DEADLOCK FALSE
