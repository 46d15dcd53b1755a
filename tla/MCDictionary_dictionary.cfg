SPECIFICATION FairSpec
CONSTANTS
    a = a
    b = b
    c = c
    NoKey = NoKey
    Keys <- MCKeys
    Values <- MCValues
    MaxItems = 5
INVARIANTS
    TypeOK
    CursorAlive
    CountersExact
    DestroyedAtOnce
    OneItemPerName
PROPERTIES
    ImplementsMap
    TraversalEnds
CHECK_DEADLOCK FALSE
