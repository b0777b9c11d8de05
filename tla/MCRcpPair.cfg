CONSTANTS
    Bits = 4
    IntBits = 3
    Maps <- MCMaps
    Inner <- MCInner
    Starts <- MCStarts
    MaxSteps = 3
SPECIFICATION PairSpec
CHECK_DEADLOCK FALSE
INVARIANTS Covered SatisfiedIsTrue
