SPECIFICATION Spec
CONSTANTS
    d1 = d1
    d2 = d2
    t1 = t1
    t2 = t2
    p1 = p1
    p2 = p2
    k1 = k1
    NoDatabase = NoDatabase
    NoEntry = NoEntry
    Databases = {d1, d2}
    Tables = {t1, t2}
    Relations <- TwoRelations
    Pools = {p1, p2}
    Keys = {k1}
    Readers = {r1}
    Writers = {w1}
    Home <- TwoPools
    KeyPool <- OneQuery
    KeyReads <- Attached
    AttachPools = {p1}
    HistoryLimit = 1
    MaxVersion = 1
    MaxSeq = 2
INVARIANT CacheIsCurrent
