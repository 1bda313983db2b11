SPECIFICATION Spec
CONSTANTS
    Tasks = {t1, t2}
    Keys = {1, 2}
    Stored = {1}
    Initial = x
    Values = {x, y}
    Drafts = {y}
    MaxEntries = 2
    MaxPasses = 2
    MaxActs = 2
    MaxWorks = 2
    MaxFaults = 1
    New = New
    None = None
INVARIANTS
    ContextTellsTheTruth
    WorkGoesOn
PROPERTIES
    WishesStay
    FlushLeavesNothing
SYMMETRY TaskSymmetry
CHECK_DEADLOCK FALSE
