CONSTANTS
    Lines <- MCLines
    Default <- MCDefault
    Modulus = 32
    Speeds = {1, 2}
    Latencies = {1, 2}
    Rates = {1, 4}
    Bad = Bad
    Unset = Unset
SPECIFICATION BenchmarksSpec
INVARIANTS
    RoundsAreExact
    StatisticsAreTrue
    TailOutcomeIsComplete
PROPERTIES
    BenchmarksEnd
CHECK_DEADLOCK FALSE
