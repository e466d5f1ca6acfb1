CONSTANTS
    Names     <- MCNames
    Define    <- MCDefine
    Numbers   = {"1"}
    Strings   = {"str"}
    Variables = {"@x", "@y"}
    Starts    <- MCStarts
    Pieces    <- MCPieces
    MaxPieces = 4
    PRMIDXLEN = 2
SPECIFICATION Spec
CHECK_DEADLOCK FALSE
INVARIANTS
    TranslatesAsWritten
    BracketsKept
    PlacesOfUses
    ColumnsNamed
