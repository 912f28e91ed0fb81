SPECIFICATION Spec
CONSTANTS
    f1 = f1
    f2 = f2
    f3 = f3
    c1 = c1
    c2 = c2
    absent = absent
    File <- TwoFiles
    Content <- MCContent
    Absent = absent
    Snapshot <- OneExpected
    Roots <- SingleRoot
    Pid <- OnePid
    FirstPid <- OnePid
    Worker = {w1, w2}
    FlakyFile <- NoFlaky
    FlakyDir <- NoFlaky
    LoadErrors = FALSE
    MayCancel = TRUE
    MaxTouch = 0
    MaxProc = 0
INVARIANT
    NoPanic
CHECK_DEADLOCK FALSE
