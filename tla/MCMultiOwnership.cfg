CONSTANTS
    handler = handler
    None = None
    p1 = p1
    p2 = p2
    Producers <- MCProducers
    Consumers <- MCConsumers
    Stage <- MCStage
    Readonly <- MCConsumers
    Size = 1
    Bitmap = FALSE
    Word = 1
    Methods <- MCBoth
    MaxBatch = 1
    MaxSequence = 2
SPECIFICATION Spec
CHECK_DEADLOCK FALSE
INVARIANT ExclusiveClaims
