SPECIFICATION MCSpec
CONSTANTS
    None = None
    Null = Null
    NaN = NaN
    k = k
    l = l
    Nothing = Nothing
    MaxInteger = 8
    Targets <- BothPlaceholders
    Calls <- AnyCall
    MaxCalls = 3
INVARIANTS
    
    
    FragmentsComeTogether
    
    ReadsAgree
    EncryptedStaysOpaque
    EagerLoadsWhatLazyLoads
CHECK_DEADLOCK FALSE
