SPECIFICATION MCSpec
CONSTANTS
    Nil = Nil
    Nodes = {"n1", "n2"}
    Me = "n1"
    Eips = {"e"}
    Addrs = {"x", "y", "z"}
    PoolOf <- OnePool
    Ifaces = {"eth0"}
    Callers = {"eip", "svc"}
    NumIDs = 3
    Hash <- HashBySize
    MaxCalls = 4
    MaxFaults = 1
INVARIANTS
    OneInstance
    RouterIds
    
    ElectedAnswers
    
    GroupsJoined
    RoutesAsWanted
    ServerCurrent
    
    RetypedOneKind
PROPERTIES
    IsSpeaker
    MakeBeforeBreak
CHECK_DEADLOCK FALSE
