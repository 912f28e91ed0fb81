SPECIFICATION Spec
CONSTANTS
    s1 = s1
    s2 = s2
    o1 = o1
    o2 = o2
    Name <- TwoNames
    Object = {o1, o2}
    Data = {1, 2, 3}
    BadData <- SomeBad
    None = None
    Specs <- OwnObject
    Finalizers <- Always
    Rollback = {}
    SaveFails = FALSE
    SecretLate = FALSE
    MaxWrite = 4
    MaxFail = 1
    MaxCrash = 1
INVARIANTS
    TypeOK
    StatusTruthful
    QuiescentMeansSynced
PROPERTY
    DeleteRemovesObject
CHECK_DEADLOCK FALSE
