SPECIFICATION DeviceFairSpec
CONSTANTS
    Pollers = {p1}
    Callers = {c1}
    MaxOutages = 1
    MaxReconnects = 1
    MaxPauses = 0
    StaleAfter = 1
    MaxLosses = 1
INVARIANTS
    DeviceTypeOK
    RecoveriesMatchAlarms
PROPERTIES
    AlarmFollows
    HealthFollows
    OutageIsStale
