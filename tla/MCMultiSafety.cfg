CONSTANTS
    handler = handler
    None = None
    p1 = p1
    p2 = p2
    Producers <- MCProducers
    Consumers <- MCConsumers
    Stage <- MCStage
    Readonly <- MCConsumers
    Size = 2
    Bitmap = TRUE
    Word = 2
    Methods <- MCMixed
    MaxBatch = 2
    MaxSequence = 2
SPECIFICATION Spec
CHECK_DEADLOCK FALSE
INVARIANTS
    HandlersSeeTheirEvent
    GatedClaimsAreExclusive
    FlagsTellPublished
    TerminalIsNotTransient
    DrainReachesItsTarget
