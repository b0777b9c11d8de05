CONSTANTS
    Registers = {0, 1, 2, 6, 10}
    Bits = 16
    IntBits = 8
    Word = 2
    StackSize = 4
    PacketOff = 24
    BeforeData = 4
    ValueShift = 4
    KeyShift = 1
    Descriptor <- MCDescriptor
    Unknown = Unknown
    Maps <- MCMaps
    ValueSize <- MCValueSize
    KeySize <- MCKeySize
    Instructions <- MCInstructions
    Starts <- MCStarts
    Address = 64
    Samples = {0, 3}
    MaxSteps = 3
SPECIFICATION Spec
CHECK_DEADLOCK FALSE
INVARIANTS TypeOK Followed StackAgrees VerifiedIsSafe
