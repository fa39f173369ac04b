SPECIFICATION SafeSpec
CONSTANTS
    e1 = e1
    e2 = e2
    s1 = s1
    s2 = s2
    Nil = Nil
    Eips = {e1}
    Svcs = {s1, s2}
    Size <- OneEach
    Specs <- PoolOrAddress
    Compatible <- AllCompatible
    NsEips = {}
    Priority <- EqualPriority
    Default = Nil
    UserOps = {"createSvc", "deleteSvc", "createEip", "deleteEip"}
    MaxOps = 3
    MaxFaults = 0
    MaxLag = 2
    SyncedReads = {}
INVARIANTS
    StatusTellsUse
    
    NoneForgotten
    LeftLetGo
PROPERTIES
    RecordsKept
    AutomaticIsExclusive
CHECK_DEADLOCK FALSE
