SPECIFICATION ExecSpec
CONSTANTS
    Nodes = {n1}
    Tasks = {t1, t2}
    Distributors = {s1}
    Agents = {a1}
    AgentTasks = {t2}
    MaxLoad = 0
    MaxConcurrent <- MCMaxConcurrent
    MaxTests = 1
    NoNode = NoNode
INVARIANTS
    OkCoversOwnTasks
    DeadlockNeedsFailure
PROPERTIES
    ReturnsUnlessDeadlocked
\* A circle of processes waiting for one another is a state of the program.
CHECK_DEADLOCK FALSE
