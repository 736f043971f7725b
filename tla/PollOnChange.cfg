SPECIFICATION FairSpec
CONSTANTS
    g1 = g1
    a = a
    b = b
    Groups = {g1}
    Callers = {}
    Signals = {a, b}
    Owner <- OneOwner
    Blocks <- OneBlocks
    GroupOrder <- OneOrder
    Always = {}
    Band <- MixedBand
    Undecodable = {}
    Readings <- Numbers
    FirstReading <- FirstNumber
    MaxChanges = 2
    MaxOutages = 1
    MaxBrokerOutages = 0
    MaxPauses = 1
    MaxRepolls = 0
INVARIANTS
    TypeOK
    LastIsPublished
PROPERTIES
    BandRespected
    ConsumerFollows
    FailureIsSeen
    PauseSettles
