SPECIFICATION Spec
CONSTANTS
    e1 = e1
    e2 = e2
    s1 = s1
    s2 = s2
    Nil = Nil
    Eips = {e1}
    Svcs = {s1}
    Size <- OneEach
    Specs <- NamedPools
    Compatible <- AllCompatible
    NsEips = {}
    Priority <- E1First
    Default = Nil
    UserOps = {"createSvc", "editSvc", "deleteSvc"}
    MaxOps = 3
    MaxFaults = 0
    MaxLag = 2
    SyncedReads = {"eips", "svcs"}
INVARIANTS
    DeletedLeave
CHECK_DEADLOCK FALSE
