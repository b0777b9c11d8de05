CONSTANTS
    Size = 4
    Sizes = {1, 2, 4}
    Values = {u, v}
    States = {p, q}
    MaxElems = 3
    Indexes <- MCIndexes
    Ranges <- MCRanges
    MaxSteps = 4
SPECIFICATION Spec
SYMMETRY MCSymmetry
CHECK_DEADLOCK FALSE
INVARIANTS CellsApart SearchFinds LoadCovers
