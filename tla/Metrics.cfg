SPECIFICATION MetricsSpec
CONSTANTS
    Loop = loop
    Callers = {c1}
    Plans <- MCPlans
    Splits <- MCSplits
    MaxEntries = 1
    MaxReads = 2
    MaxEvents = 2
    MaxTicks = 1
INVARIANTS
    MetricsTypeOK
    CountsAddUp
    RowsBalance
CHECK_DEADLOCK FALSE
