SPECIFICATION MCSpec
CONSTANTS
    p1 = p1
    p2 = p2
    t1 = t1
    t2 = t2
    t3 = t3
    None = None
    NoSeed = NoSeed
    NoWork = NoWork
    Migrators = {t1, t2, t3}
    Mutexes = {1, 2, 3, 4}
    Processes = {p1, p2}
    Versions = {1, 2, 3}
    Registered <- TwoReleases
    ForeignKeysOff = {3}
    Backends = {"Postgres", "MySQL", "SQLite"}
    Operations <- AllOperations
    Ledgers <- Left
    MaxCalls <- OneCallEach
    MaxFaults = 1
INVARIANTS
    LedgerTellsSchema
    CallsDoWhatTheySay
    
    TablesAreAsDeclared
PROPERTIES
    StepsKeepTheSchema
    EveryCallReturns
    IsALock
CHECK_DEADLOCK FALSE
