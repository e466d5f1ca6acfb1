SPECIFICATION Spec
CONSTANTS
    Messages <- MCMessages
    Logons <- MCLogons
    HISTLEN = 2
    MaxRecv = 2
    MaxCalls = 3
INVARIANTS
    RequestsWhole
    RepliesWhole
    CallsRecorded
    AveragesOfLastCalls
PROPERTIES
    EveryCallEnds
CHECK_DEADLOCK FALSE
