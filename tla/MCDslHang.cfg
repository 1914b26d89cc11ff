SPECIFICATION FairSpec
CONSTANTS
    Built <- MCChain
    Size = 2
    MaxSequence = 1
    MaxStarts = 2
CHECK_DEADLOCK FALSE
PROPERTY CallsReturn
