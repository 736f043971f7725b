SPECIFICATION MCSpec
CONSTANTS
    setpoint = setpoint
    status = status
    flag = flag
    other = other
    Callers = {c1, c2}
    Signals = {setpoint, status, flag, other}
    Permitted = {setpoint, status, flag}
    ReadOnly = {status}
    BitSignals = {flag}
    Unknown = unknown
    Malformed = malformed
    Values = {0, 1, 2, 3, 9}
    Unencodable = {9}
    Absent = absent
    Writes <- MCWrites
    Reads <- MCReads
    FirstValue = 0
    MaxBatches = 2
    MaxLosses = 1
    Consoles = {s1}
    Keepalive = ka
    MaxReports = 3
    MaxFlips = 3
    MaxSwitches = 3
    Groups <- MCGroups
    Root = root
    Missing = missing
    Null = null
    Other = other_type
    Requests <- MCRequests
    PageDefault = 2
    PageMax = 3
    RefsDefault = 2
    RefsMax = 6
INVARIANTS
    MCTypeOK
    ReplyTellsWrites
    TrailTellsSlave
    ReadsTellSlave
    ReportIsWitnessed
    WalkIsComplete
    TreeAgreesWithWalk
CHECK_DEADLOCK FALSE
