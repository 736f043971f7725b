SPECIFICATION FairSpec
CONSTANTS
    Keys = {k1}
    Pollers = {p1}
    Callers = {c1}
    MaxSamples = 3
    MaxPauses = 1
INVARIANTS
    TypeOK
    EachSampleOnce
    InOrderUntilStop
    StopDrains
PROPERTIES
    BatchLeaves
    ImplementsDelivery
CHECK_DEADLOCK FALSE
