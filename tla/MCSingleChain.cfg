CONSTANTS
    first = first
    second = second
    None = None
    Consumers <- MCConsumers
    Stage <- MCStage
    Readonly = {}
    Size = 1
    MaxBatch = 1
    MaxSequence = 2
SPECIFICATION FairSpec
CHECK_DEADLOCK FALSE
PROPERTIES
    ClaimsAreDecided
    PublishedIsHandled
    StopsTerminate
