CONSTANTS
    Priorities = {1, 2}
    Limits = {0, 1}
    DefaultLimit = 2
    SplitThreshold = 2
    MaxEvents = 3
    MaxBatches = 2
    MaxAttempts = 4
    Targets = {1, 2}
    BackedOff <- BackOff
    Rolls = {0, 50, 99}
    MaxSeen = 6
    TraceNames = {a, b}
    TraceTimes = {1, 2, 3}
    Threshold = 2
    TopN = 1
    Guarantee = 2
    Patience = 2
    MaxSynthetics = 1
    TraceSlots = {s1, s2}
    Statements = {q1, q2, q3}
    QueryTimes = {1, 2}
    MaxSamples = 2
    Serverless = FALSE
    MaxQueries = 4
    Services = {"o1", "o2", "o3"}
    KeyOf <- Keys
    Excluding = {"o1"}
    PriorityRolls = {0}
    OutsideMessages <- FromOutside
    MaxMessages = 2
    EarlyServices = {"o3"}
    ErrorObjects = {e1, e2, e3}
    ExpectedErrors = {e2}
    IgnoredErrors = {}
    BlankErrors = {e3}
    MaxErrorTraces = 1
    MaxNoticed = 2
    Installations <- SomeInstallations
    PolicySets <- SomePolicies
    Replies <- SomeReplies
    MaxCodes = 4
    MaxUnderway = 1
    SegmentTrees <- Trees
    QueueSize = 1
    MaxSpans = 4
    MaxObserverRoom = 2
    MaxReconnects = 2
    MaxSpanRuns = 2
    MaxInvocations = 2
    MaxLambdaCalls = 3
    MetadataVendors = {"aws"}
    EnvironmentVendors = {"pcf"}
    Hosts <- SomeHosts
    MaxGathers = 2
    Refreshes = {r1, r2}
    Places <- SomePlaces
    Roots <- RootsOf
    Dropped = {"home"}
    Directories = {"d1", "d2", "d3"}
    Entries <- EntriesOf
    Readable <- CanRead
    Frameworks = {"express"}
    DispatcherCalls <- SomeDispatchers
    Calls = {"t1", "t2", "t3"}
    First = "t1"
    AppOf <- AppOfCall
    AccountOf <- AccountOfApp
    Trusts <- TrustsOf
    EncodingKey <- KeyOfApp
    NamesOf <- NamesOfCall
    PathHashLimit = 10
    RequestBound <- RequestsOfCall
    CalledFrom <- CallersOf
    LogLevels = {20, 30}
    MessageKinds = {"plain", "hostile", "unsayable"}
    MaxLogBuffer = 1
    MaxLogged = 2
    Exchanges = {x1}
    Payloads <- SomePayloads
    Restarts = {q1, q2}
    Tabs = {t1, t2}
    Names = {alice, bob, carol}
    Passwords = {pw}
    NoUser = NoUser
    StorageFails = TRUE
SPECIFICATION Spec
CHECK_DEADLOCK FALSE
INVARIANTS
    EventsCorrect
    SamplerCorrect
    SlowQueriesCorrect
    TraceContextCorrect
    ErrorsCorrect
    ConfigurationCorrect
    SpanStreamCorrect
    ServerlessCorrect
    HostFactsCorrect
    EnvironmentCorrect
    CrossApplicationCorrect
    LoggingCorrect
    RemoteCallsCorrect
    AccountsCorrect
PROPERTIES
    SlowTracesAreKept
    DecisionIsFinal
