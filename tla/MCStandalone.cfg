SPECIFICATION MCSpec
CONSTANTS
    None = None
    Size = 2
    MaxSequence = 2
    Probers = {prober}
    Disruptors = {a, b}
    Threads = {t1, t2}
    Slots = 1
    LastClaim = 1
    MaxDepth = 2
    Nobody = Nobody
    LastPublished = 1
    Sizes = {2, 3}
    Cores = {0, 1}
    CoreCount = 1
    MaxConsumers = 3
    Unset = Unset
INVARIANTS
    BatchIsHeld
    CommittedIsTakenOnce
    HandledOnce
    LockHoldersDoNotWait
    AnswersAreTrue
    BuiltAsDeclared
PROPERTIES
    ElegantStops
    HaltEndsLoop
    WaitsReturn
CHECK_DEADLOCK FALSE
