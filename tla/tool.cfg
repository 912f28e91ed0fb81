SPECIFICATION FairSpec
CONSTANTS
    f1 = f1
    f2 = f2
    f3 = f3
    File = {f1, f2, f3}
    Content <- ThreeContents
    Absent = 0
    Pid <- TheTree
    Roots <- TwoDirs
    Worker = {w1, w2}
    FlakyFile <- Flaky1
    FlakyDir <- Second
    MayTimeOut = TRUE
    WriteErrors = TRUE
    Images <- ThreeImages
    MaxCall = 3
INVARIANTS
    TypeOK
    LinesTrue
    CompleteUnlessCutShort
    FileOnlyOnSuccess
PROPERTY
    ToolEnds
CHECK_DEADLOCK FALSE
