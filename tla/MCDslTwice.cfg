SPECIFICATION Spec
CONSTANTS
    Built <- MCTwice
    Size = 2
    MaxSequence = 1
    MaxStarts = 1
CHECK_DEADLOCK FALSE
INVARIANT WindowsAreExclusive
