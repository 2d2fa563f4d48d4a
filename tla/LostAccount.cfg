CONSTANTS
    Tabs = {t1, t2}
    Names = {alice, bob}
    Passwords = {pw}
    NoUser = NoUser
    StorageFails = FALSE
    Impatient = FALSE
    MaxTimers = 1
    MaxHist = 1
    MaxId = 2
SPECIFICATION Spec
PROPERTIES
    RegisteredStay
