CONSTANTS
    Tabs = {t1}
    Names = {alice, bob}
    Passwords = {pw}
    NoUser = NoUser
    StorageFails = TRUE
    Impatient = TRUE
    MaxTimers = 2
    MaxHist = 2
    MaxId = 2
SPECIFICATION Spec
INVARIANTS
    ReadSpinnersHaveRequests
