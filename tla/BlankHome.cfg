CONSTANTS
    Tabs = {t1, t2}
    Names = {alice}
    Passwords = {pw}
    NoUser = NoUser
    StorageFails = FALSE
    Impatient = FALSE
    MaxTimers = 1
    MaxHist = 3
    MaxId = 2
SPECIFICATION Spec
INVARIANTS
    NeverBlank
