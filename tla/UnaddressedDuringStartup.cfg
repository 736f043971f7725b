SPECIFICATION Spec
CONSTANTS
    i1 = i1
    i2 = i2
    i3 = i3
    Order <- MCOrder
    Misconfigured = {}
    Callers = {c1}
    Unknown = unknown
    Nobody = nobody
    MaxFlips = 0
    MaxCommands = 1
INVARIANTS
    UnaddressedIsRefused
CHECK_DEADLOCK FALSE
