CONSTANTS
    ImmBits = 8
    PcBits = 3
    StackSize = 512
    Raws <- MCRaws
SPECIFICATION Spec
CHECK_DEADLOCK FALSE
INVARIANTS EachOnce DecodesBack RoundTrip JumpsNoted CallsFormed
