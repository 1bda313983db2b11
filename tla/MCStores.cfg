SPECIFICATION MCSpec
CONSTANTS
    k1 = k1
    k2 = k2
    k3 = k3
    t1 = t1
    t2 = t2
    v1 = v1
    v2 = v2
    o1 = o1
    o2 = o2
    row1 = row1
    row2 = row2
    w1 = w1
    r1 = r1
    Rows = {row1, row2}
    ModelOf <- OneModel
    Origins = {o1, o2}
    Baselines <- OneShared
    Tasks = {t1, t2}
    Forgotten = Forgotten
    NoEntry = NoEntry
    Capacity = 2
    ValuesOf <- SameValues
    Outside = {v1, v2}
    MaxSequence = 3
    MaxDepth <- SavepointBesideTask
    MaxSteps = 2
SYMMETRY Symmetric
INVARIANTS
    StoresAgree
    InSync
    RollbackRestores
PROPERTIES
    RoomIsMade
    NeverGuessed
CHECK_DEADLOCK FALSE
