SPECIFICATION FairSpec
CONSTANTS
    e1 = e1
    e2 = e2
    s1 = s1
    s2 = s2
    Nil = Nil
    Eips = {e1, e2}
    Svcs = {s1}
    Size <- OneEach
    Specs <- Automatic
    Compatible <- AllCompatible
    NsEips = {e1, e2}
    Priority <- E1First
    Default = Nil
    UserOps = {"createSvc"}
    MaxOps = 1
    MaxFaults = 0
    MaxLag = 2
    SyncedReads = {"eips", "svcs"}
PROPERTIES
    Settles
CHECK_DEADLOCK FALSE
