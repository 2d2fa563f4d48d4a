CONSTANTS
    Tabs = {t1}
    Names = {alice, bob}
    Passwords = {pw}
    NoUser = NoUser
    StorageFails = FALSE
    Impatient = TRUE
    MaxTimers = 2
    MaxHist = 3
    MaxId = 3
SPECIFICATION Spec
INVARIANTS
    TypeOK
    HomeIsLoggedIn
    NeverUnauthorised
    MemoryIsStored
    SpinnersHaveRequests
    ListIsCurrent
PROPERTIES
    ImplementsRegistry
