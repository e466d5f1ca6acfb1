SPECIFICATION Spec
CONSTANTS
    Vars = {x, y}
    Keys <- MCKeys
    Lengths <- MCLengths
    Indexes <- MCIndexes
    MaxInsts = 2
    MaxCells = 2
    MaxPending = 1
    MaxText = 1
SYMMETRY Swap
INVARIANTS
    CountsAgree
    ElementsOwned
    RefersToItsElement
    HoldsWhatWasPut
CHECK_DEADLOCK FALSE
