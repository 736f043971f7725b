SPECIFICATION FairSpec
CONSTANTS
    Pollers = {p1}
    Callers = {c1}
    MaxOutages = 1
    MaxReconnects = 1
    MaxPauses = 0
PROPERTIES
    BackoffEnds
CHECK_DEADLOCK FALSE
