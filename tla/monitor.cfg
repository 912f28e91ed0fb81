SPECIFICATION FairSpec
CONSTANTS
    p1 = p1
    p2 = p2
    Proc = {p1, p2}
    Configs <- TwoConfigs
    NoProc = NoProc
    Unseen <- TheOther
    Repeated <- TheOther
INVARIANT
    TypeOK
PROPERTIES
    RestartIsAnnounced
    DifferencesEnd
    ChecksGoOn
    ShutdownEnds
CHECK_DEADLOCK FALSE
