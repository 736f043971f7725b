SPECIFICATION FairSpec
CONSTANTS
    Pollers = {p1}
    Callers = {c1, c2}
    MaxOutages = 1
    MaxReconnects = 2
    MaxPauses = 1
INVARIANTS
    TypeOK
    ClientLostOnlyByReconnect
PROPERTIES
    LinkFollows
CHECK_DEADLOCK FALSE
