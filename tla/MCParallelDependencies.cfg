SPECIFICATION StrategySpec
CONSTANTS
    t1 = t1
    t2 = t2
    t3 = t3
    Tests = {t1, t2, t3}
    Suites <- MCSuites
    Limit = 2
    MinInterval = 0
PROPERTIES
    DependenciesRespected
CHECK_DEADLOCK FALSE
