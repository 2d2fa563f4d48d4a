CONSTANTS
    Tabs = {t1, t2}
    Names = {alice}
    Passwords = {pw}
    NoUser = NoUser
    StorageFails = FALSE
    Impatient = FALSE
    MaxTimers = 1
    MaxHist = 2
    MaxId = 2
SPECIFICATION Spec
SYMMETRY TabSymmetry
PROPERTIES
    AlertsStayBehind
