CONSTANTS
    handler = handler
    None = None
    p1 = p1
    p2 = p2
    Producers <- MCProducers
    Consumers <- MCConsumers
    Stage <- MCStage
    Readonly <- MCConsumers
    Size = 1
    Bitmap = FALSE
    Word = 1
    Methods <- MCBlocking
    MaxBatch = 1
    MaxSequence = 1
SPECIFICATION FairSpec
CHECK_DEADLOCK FALSE
PROPERTIES
    StopsTerminate
    ImplementsLog
