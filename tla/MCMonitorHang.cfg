SPECIFICATION ExecSpec
CONSTANTS
    Nodes = {n1}
    Tasks = {t1}
    Distributors = {s1}
    Agents = {}
    AgentTasks = {}
    MaxLoad = 0
    MaxConcurrent <- MCMaxConcurrent
    MaxTests = 1
    NoNode = NoNode
PROPERTIES
    ExecuteReturns
CHECK_DEADLOCK FALSE
