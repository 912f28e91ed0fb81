SPECIFICATION Spec
CONSTANTS
    f1 = f1
    f2 = f2
    f3 = f3
    c1 = c1
    c2 = c2
    absent = absent
    File <- ThreeFiles
    Content <- MCContent
    Absent = absent
    Snapshot <- TwoExpected
    Roots <- DisjointRoots
    Pid <- OnePid
    FirstPid <- OnePid
    Worker = {w1, w2}
    FlakyFile <- NoFlaky
    FlakyDir <- NoFlaky
    LoadErrors = TRUE
    MayCancel = FALSE
    MaxTouch = 1
    MaxProc = 0
INVARIANTS
    TypeOK
    MismatchJustified
    NewJustified
    DeletedJustified
    PassMeansMatched
    PassMeansNoExtra
PROPERTY
    VerdictSpec
SYMMETRY Workers
CHECK_DEADLOCK FALSE
