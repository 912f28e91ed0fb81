SPECIFICATION FairSpec
CONSTANTS
    f1 = f1
    f2 = f2
    f3 = f3
    c1 = c1
    c2 = c2
    absent = absent
    File <- TwoFiles
    Content <- MCContent
    Absent = absent
    Snapshot <- OneExpected
    Roots <- SingleRoot
    Pid <- TwoPids
    FirstPid <- OnePid
    Worker = {w1}
    FlakyFile <- SomeFlaky
    FlakyDir <- NoFlaky
    LoadErrors = TRUE
    MayCancel = TRUE
    MaxTouch = 0
    MaxProc = 1
PROPERTIES
    CheckReturns
    WalkerEnds
    StrandedOnlyOnFullChannel
CHECK_DEADLOCK FALSE
