SPECIFICATION FairSpec
CONSTANTS
    g1 = g1
    a = a
    b = b
    Groups = {g1}
    Callers = {c1}
    Signals = {a, b}
    Owner <- OneOwner
    Blocks <- PairBlocks
    GroupOrder <- OneOrder
    Always = {g1}
    Band <- MixedBand
    Undecodable = {b}
    Readings <- FewNumbers
    FirstReading <- FirstNumber
    MaxChanges = 1
    MaxOutages = 1
    MaxBrokerOutages = 1
    MaxPauses = 0
    MaxRepolls = 1
PROPERTIES
    ConsumerSeesTruth
