CHECK_DEADLOCK FALSE
SPECIFICATION AdminFairSpec
CONSTANTS
    a1 = a1
    a2 = a2
    f1 = f1
    Offered <- AllSettings
    Install <- InstalledOn
    MaxEdits = 2
    CycleMod = 1
    Admins <- OneAdmin
    Faults <- OneFault
    MaxRestarts = 1
INVARIANTS
    SettingsSound
PROPERTIES
    HaltEmpties
