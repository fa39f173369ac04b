SPECIFICATION LiveSpec
CONSTANTS
    e1 = e1
    s1 = s1
    s2 = s2
    n1 = n1
    Nil = Nil
    Eips = {e1}
    Svcs = {s1, s2}
    Size <- TwoEach
    Specs <- NamedPool
    Compatible <- AllCompatible
    NsEips = {}
    Priority <- EqualPriority
    Default = Nil
    UserOps = {"createSvc", "editSvc", "deleteSvc", "createEip", "toggleEip", "deleteEip", "nodeChange"}
    MaxOps = 3
    MaxFaults = 1
    MaxLag = 1
    SyncedReads = {"eips", "svcs"}
PROPERTIES
    Settles
    EventuallyServed
    EventuallyAnnounced
CHECK_DEADLOCK FALSE
