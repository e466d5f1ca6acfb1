SPECIFICATION Spec
CONSTANTS
    Programs <- MCPrograms
    Valued <- MCValued
    Bounds <- MCBounds
    MaxOperands = 1
INVARIANTS
    NothingDangles
    NothingLeaks
    DispatchesToNearest
    ConstructedInOrder
CHECK_DEADLOCK FALSE
