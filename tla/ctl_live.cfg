SPECIFICATION FairSpec
CONSTANTS
    s1 = s1
    s2 = s2
    o1 = o1
    o2 = o2
    Name <- OneName
    Object = {o1}
    Data = {1, 2, 3}
    BadData <- SomeBad
    None = None
    Specs <- OneObject
    Finalizers <- Always
    Rollback = {}
    SaveFails = TRUE
    SecretLate = TRUE
    MaxWrite = 4
    MaxFail = 2
    MaxCrash = 1
INVARIANT
    StatusTruthful
PROPERTY
    EventuallySynced
CHECK_DEADLOCK FALSE
