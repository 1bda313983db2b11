SPECIFICATION Spec
CONSTANTS
    r1 = r1
    s1 = s1
    s2 = s2
    NoScope = NoScope
    Scopes = {r1, s1, s2}
    Settings <- Sequential
    MaxStatements = 1
INVARIANTS
    
    CommitsItsOwn
    OkMeansCommitted
    
    
CHECK_DEADLOCK FALSE
