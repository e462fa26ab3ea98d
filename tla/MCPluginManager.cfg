SPECIFICATION PluginFairSpec
CONSTANTS
    p1 = p1
    p2 = p2
    p3 = p3
    Plugins = {p1, p2, p3}
    Files <- MCFiles
    FirstFiles <- MCFirstFiles
    Clients = {c1}
    Users = {u1}
    AutoLoad = TRUE
    MaxInstances = 2
    MaxCalls = 3
    MaxChanges = 1
INVARIANTS
    StatusMatchesInstance
    LostNeedsDisturbance
PROPERTIES
    LoadOrderSound
    CallsReturn
\* The calls are bounded.
CHECK_DEADLOCK FALSE
