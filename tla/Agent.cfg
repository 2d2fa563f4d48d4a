CONSTANTS
    Aggregators = {metrics, events}
    NoAgg = NoAgg
    Runs = {r1, r2}
    NoRun = NoRun
    ImmediateHarvest = TRUE
    HighSecurity = TRUE
    MaxCalls = 1
SPECIFICATION Spec
INVARIANTS
    AgentCorrect
PROPERTIES
    LoginsSucceed
    StartupEnds
CHECK_DEADLOCK FALSE
