SPECIFICATION Spec
CONSTANTS
    Image <- PortTags
    Version <- Builds
    Tree <- Trees
    OddTrees = {}
    Setups <- OneSetup
    OddSetups = {}
    Process <- nginx
    None = None
    MaxBuild = 1
    MaxTamper = 1
    MaxFail = 1
INVARIANT
    OwnSnapshot
CHECK_DEADLOCK FALSE
