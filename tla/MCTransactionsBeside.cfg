SPECIFICATION FairSpec
CONSTANTS
    r1 = r1
    s1 = s1
    s2 = s2
    NoScope = NoScope
    Scopes = {r1, s1, s2}
    Settings <- Beside
    MaxStatements = 1
INVARIANTS
    CommitsOnlyItsOwn
PROPERTY EveryScopeEnds
CHECK_DEADLOCK FALSE
