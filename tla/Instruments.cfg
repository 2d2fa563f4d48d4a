CONSTANTS
    RouteOf <- Routes
    KindOf <- Kinds
    Routers = {1}
    Txs = {x1, x2}
    Plain = {x2}
    UserRules = {"rename"}
    ServerRules <- Rules
    MaxDepth = 2
    MaxSegments = 2
    MaxTraceSegments = 1
    MaxTime = 3
    Requests = {q1}
    Nested = {q3}
    TaskLimit = 1
    Promises = {pr1, pr2}
    FrameLimit = 2
    NamePaths <- SomePaths
    Configured <- ConfiguredRules
    ConfiguredReverse = FALSE
    SimplePatterns = {{"a"}}
    SimpleName = "z"
    SimpleLimit = 2
    Loads <- ServerLoads
    TermLoads <- SomeTerms
    MetricNames = {n1, counted}
    Counters = {counted}
    MetricValues = {1, 2}
    MaxValues = 2
    MaxClock = 2
    MetricSlots = {ms1, ms2}
    PromSegments <- SomePromSegments
    TxOf <- TxOfName
    NoSegment = NoSegment
    MaxPromises = 5
    MaxOthers = 4
    MaxWork = 6
    MaxMade = 1
    CallSpecs <- SomeCallSpecs
    ClientCount = 2
    Callers = {1}
    MaxCallSegs = 2
    MaxCallDepth = 3
    MaxPending = 2
    MaxMsgTxs = 2
    MaxQueued = 1
    MaxMsgDepth = 2
    AttributeKeys <- SomeKeys
    RuleSets <- SomeRules
    PolicyRule <- SomePolicyRule
    CacheLimit = 1
    CustomKeys = {k1, k2, k3}
    MaxCustom = 2
    MaxCustomCalls = 5
    MethodCount = 2
    MaxFunctions = 4
    Files <- SomeFiles
    ModuleNames <- SomeNames
    Requires <- SomeRequires
    ResolvedTo <- ResolvedIn
    Outcome <- OutcomeOf
    Handlers <- SomeHandlers
    MaxRuns = 2
    MaxLoads = 2
SPECIFICATION Spec
CHECK_DEADLOCK FALSE
INVARIANTS
    RoutesCorrect
    LivesCorrect
    SurroundingsCorrect
    ContextCorrect
    MetricsCorrect
    CallsCorrect
    MessagesCorrect
    LoadingCorrect
PROPERTIES
    DurationsAreFinal
