SPECIFICATION Spec
CONSTANTS
    f1 = f1
    f2 = f2
    f3 = f3
    c1 = c1
    c2 = c2
    absent = absent
    File <- TwoFiles
    Content <- MCContent
    Absent = absent
    Snapshot <- OneExpected
    Roots <- SharedRoots
    Pid <- TwoPids
    FirstPid <- OnePid
    Worker = {w1, w2}
    FlakyFile <- ExtraFlaky
    FlakyDir <- FirstDir
    LoadErrors = TRUE
    MayCancel = TRUE
    MaxTouch = 0
    MaxProc = 1
INVARIANTS
    PanicOnlyOnShutdown
    PassLeavesNothing
PROPERTY
    VerdictSpec
SYMMETRY Workers
CHECK_DEADLOCK FALSE
