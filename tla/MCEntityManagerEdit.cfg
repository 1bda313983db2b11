SPECIFICATION Spec
CONSTANTS
    Tasks = {t1}
    Keys = {1, 2}
    Stored = {1}
    Initial = x
    Values = {x, y}
    Drafts = {y}
    MaxEntries = 3
    MaxPasses = 2
    MaxActs = 2
    MaxWorks = 1
    MaxFaults = 0
    New = New
    None = None
PROPERTY EditsMeanwhileStay
CHECK_DEADLOCK FALSE
