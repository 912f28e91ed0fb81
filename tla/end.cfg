SPECIFICATION Spec
CONSTANTS
    Image <- Tags
    Version <- Builds
    Tree <- Trees
    OddTrees <- OddNames
    Setups <- TwoSetups
    OddSetups <- ManySetups
    Process <- nginx
    None = None
    MaxBuild = 1
    MaxTamper = 1
    MaxFail = 1
INVARIANTS
    TypeOK
    SetupUnderstood
PROPERTIES
    AlarmJustified
    PassJustified
    EventuallyClean
CHECK_DEADLOCK FALSE
