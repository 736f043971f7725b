SPECIFICATION Spec
CONSTANTS
    MaxRead <- MCMaxRead
    ByteBase = 2
    Layouts <- MCLayouts
    Gaps = {0, 1}
    Memories <- MCMemories
    Inputs <- MCInputs
    MaxWrites = 1
INVARIANTS
    PlanServesAll
    PlanWithinLimits
    FewestReads
    PollAgreesWithRead
    WrittenIsPolled
CHECK_DEADLOCK FALSE
