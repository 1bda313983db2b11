SPECIFICATION MCSpec
CONSTANTS
    Nothing = Nothing
    NoKey = NoKey
    NoCode = NoCode
    Null = Null
    k = k
    l = l
    Real = Real
    Abort = Abort
    Unsaved = Unsaved
    None = None
    Unborn = Unborn
    Gone = Gone
    a1 = a1
    a2 = a2
    h1 = h1
    h2 = h2
    NoPool = NoPool
    NoThread = NoThread
    NoPlace = NoPlace
    Unknown = Unknown
SYMMETRY Symmetric
INVARIANTS
    InsertsComeBackInOrder
    
    
    FlushesThatCanSucceedDo
    ScopesFollowTheirFutures
PROPERTIES
    WritesAreWhole
    AggregatesAreWhole
CHECK_DEADLOCK FALSE
