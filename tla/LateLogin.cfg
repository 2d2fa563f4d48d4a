CONSTANTS
    Tabs = {t1}
    Names = {alice}
    Passwords = {pw}
    NoUser = NoUser
    StorageFails = FALSE
    Impatient = FALSE
    MaxTimers = 1
    MaxHist = 2
    MaxId = 1
SPECIFICATION Spec
PROPERTIES
    ResetLoginsAreDropped
