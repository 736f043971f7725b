SPECIFICATION Spec
CONSTANTS
    g1 = g1
    a = a
    b = b
    Groups = {g1}
    Callers = {c1}
    Signals = {a}
    Owner <- OneSignalOwner
    Blocks <- OneSignalBlocks
    GroupOrder <- OneOrder
    Always = {}
    Band <- PlainBand
    Undecodable = {}
    Readings <- FewNumbers
    FirstReading <- FirstNumber
    MaxChanges = 2
    MaxOutages = 0
    MaxBrokerOutages = 0
    MaxPauses = 0
    MaxRepolls = 1
INVARIANTS
    LastIsPublished
