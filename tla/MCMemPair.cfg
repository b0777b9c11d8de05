CONSTANTS
    Size = 3
    Widths = {1, 2}
    Values = {"small", "big", "ptr", "other"}
    Nums = {"small", "big"}
    Wide = {"big", "ptr", "other"}
    Word = 2
    Narrow = "small"
    Stored <- MCStored
    OffsetSets <- MCOffsets
    WidthSets <- MCWidths
    MaxSteps = 4
SPECIFICATION Spec
CHECK_DEADLOCK FALSE
INVARIANTS TypeOK AssertsHold LoadCovers
