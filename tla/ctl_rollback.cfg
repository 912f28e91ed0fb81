SPECIFICATION Spec
CONSTANTS
    s1 = s1
    s2 = s2
    o1 = o1
    o2 = o2
    Name <- OneName
    Object = {o1}
    Data = {1, 2}
    BadData <- NoData
    None = None
    Specs <- OneObject
    Finalizers <- Always
    Rollback <- OneName
    SaveFails = FALSE
    SecretLate = FALSE
    MaxWrite = 4
    MaxFail = 0
    MaxCrash = 0
INVARIANT
    QuiescentMeansSynced
CHECK_DEADLOCK FALSE
