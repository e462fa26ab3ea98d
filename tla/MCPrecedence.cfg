SPECIFICATION MCSpec
CONSTANTS
    Paths = {base, local}
    base = base
    local = local
    Contents <- MCRivals
    Texts <- MCTexts
    Given = {}
    Overrides = {"unset"}
    Precedences = {1, 2}
    MaxBackups = 2
    MaxSteps = 4
    Ids = {t1}
    t1 = t1
    Callers = {c1}
    c1 = c1
    MaxEdits = 1
    MaxFaults = 0
    AlertRules <- MCRules
    Snapshots <- MCSnapshots
    Conditions <- MCConditions
    Loops = {l1, l2}
    Registered = {"console"}
    DefaultChannels = {"console"}
    MaxClock = 1
    MaxRuleChanges = 2
    MaxRounds = 3
    Recorders = {r1, r2}
    MaxRecords = 2
    Chains <- MCChains
    Plugins = {"basic", "jwt", "oauth2"}
    MaxAttempts = 2
    Debuggers = {d1, d2}
    DebugCases <- MCCases
    DebugBatches <- MCBatches
    DebugOptions <- MCDebugOptions
    Watchers = {"console"}
    MaxSessions = 2
    MaxRefused = 1
    Authors = {a1, a2}
    Templates <- MCTemplates
    Words <- MCTemplateWords
    Values <- MCValues
    MaxGiven = 2
    Workflows <- MCWorkflows
    MaxRuns = 2
    Executed <- MCExecuted
    Added <- MCAdded
    Filters <- MCResultFilters
    Sorts <- MCSorts
    MaxResults = 3
    MaxViews = 2
CHECK_DEADLOCK FALSE
INVARIANTS
    HigherPrecedenceOverrides
