CONSTANTS
    Aggregators = {metrics, events}
    NoAgg = NoAgg
    Runs = {r1, r2}
    NoRun = NoRun
    ImmediateHarvest = TRUE
    HighSecurity = FALSE
    MaxCalls = 2
SPECIFICATION Spec
INVARIANTS
    StoppedHasNoTimers
CHECK_DEADLOCK FALSE
