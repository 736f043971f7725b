SPECIFICATION FairSpec
CONSTANTS
    i1 = i1
    i2 = i2
    i3 = i3
    Order <- MCOrder
    Misconfigured = {i2}
    Callers = {c1}
    Unknown = unknown
    Nobody = nobody
    MaxFlips = 1
    MaxCommands = 2
INVARIANTS
    TypeOK
    RoutedAsAddressed
    ShutdownStopsAll
PROPERTIES
    SoundInstancesStart
CHECK_DEADLOCK FALSE
