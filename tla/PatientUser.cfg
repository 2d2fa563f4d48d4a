CONSTANTS
    Tabs = {t1}
    Names = {alice, bob}
    Passwords = {pw}
    NoUser = NoUser
    StorageFails = FALSE
    Impatient = FALSE
    MaxTimers = 2
    MaxHist = 3
    MaxId = 2
SPECIFICATION FairSpec
INVARIANTS
    NeverBlank
    StoredSessionIsLoggedIn
PROPERTIES
    SpinnersStop
