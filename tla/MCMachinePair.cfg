CONSTANTS
    Bits = 5
    IntBits = 4
    Maps <- MCMaps
    Inner <- MCInner
    ValueSize <- MCValueSize
    StackSize = 2
    Descriptor <- MCDescriptor
    Packets <- MCPackets
    Samples <- MCSamples
    Points <- MCPoints
    Instructions <- MCInstructions
    MaxSteps = 2
SPECIFICATION MachineSpec
CHECK_DEADLOCK FALSE
INVARIANTS TypeOK RegistersCovered  SatisfiedHolds
