CONSTANTS
    first = first
    left = left
    right = right
    None = None
    Consumers <- MCConsumers
    Stage <- MCStage
    Readonly <- MCReadonly
    Size = 2
    MaxBatch = 2
    MaxSequence = 2
SPECIFICATION Spec
CHECK_DEADLOCK FALSE
SYMMETRY MCSymmetry
INVARIANTS
    ClaimedSlotsAreExclusive
    StagesHoldDistinctSlots
    PoisonHasACause
    DrainIsComplete
PROPERTIES
    ImplementsLog
    CursorExposesOnlyPublished
