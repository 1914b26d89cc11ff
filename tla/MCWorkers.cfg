SPECIFICATION MCSpec
CONSTANTS
    N = 2
    MaxSequence = 1
    Workers = {w1, w2}
    Size = 2
    LastWork = 2
INVARIANTS
    NoLostWakeup
    ClaimsAreExclusive
    CompletedIsHandled
    DrainedIsHandled
PROPERTIES
    PublishedIsConsumed
    StopsEnd
    BacklogIsCompleted
CHECK_DEADLOCK FALSE
