CONSTANTS
    Lines <- MCPipelineLines
    Default <- MCDefault
    Modulus = 32
    Speeds = {1, 2}
    Latencies = {1, 2}
    Rates = {1, 4}
    Bad = Bad
    Unset = Unset
SPECIFICATION BenchmarksSpec
INVARIANTS
    PhasesAreValid
CHECK_DEADLOCK FALSE
