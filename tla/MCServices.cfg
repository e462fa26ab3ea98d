SPECIFICATION MCSpec
CONSTANTS
    Paths = {base, local}
    base = base
    local = local
    Contents <- TheContents
    Texts <- TheTexts
    Given <- TheGiven
    Overrides = {"unset", "unparsable"}
    Precedences = {1}
    MaxBackups = 1
    MaxSteps = 4
    Ids = {t1}
    t1 = t1
    Callers = {c1, c2}
    c1 = c1
    c2 = c2
    MaxEdits = 3
    MaxFaults = 1
    AlertRules <- TheRules
    Snapshots <- TheSnapshots
    Conditions <- TheConditions
    Loops = {l1, l2}
    Registered = {"console"}
    DefaultChannels = {"console"}
    MaxClock = 1
    MaxRuleChanges = 2
    MaxRounds = 3
    Recorders = {r1, r2}
    MaxRecords = 2
    Chains <- TheChains
    Plugins = {"basic", "jwt", "oauth2"}
    MaxAttempts = 2
    Debuggers = {d1, d2}
    DebugCases <- TheCases
    DebugBatches <- TheBatches
    DebugOptions <- TheDebugOptions
    Watchers = {"console"}
    MaxSessions = 2
    MaxRefused = 1
    Authors = {a1, a2}
    Templates <- TheTemplates
    Words <- MCTemplateWords
    Values <- TheValues
    MaxGiven = 2
    Workflows <- TheWorkflows
    MaxRuns = 2
    Executed <- TheExecuted
    Added <- TheAdded
    Filters <- TheResultFilters
    Sorts <- TheSorts
    MaxResults = 3
    MaxViews = 2
CHECK_DEADLOCK FALSE
INVARIANTS
    ServicesTypeOK
    AlwaysValid
    StoreSettles
    AlertsTold
    SnapshotTrue
    ChainSound
    SessionsSound
    TemplatesSound
    WorkflowSound
    ResultsSound
    DocumentsRight
    SearchesRight
PROPERTIES
    HotReloadConverges
