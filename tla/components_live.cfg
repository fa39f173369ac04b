SPECIFICATION LiveSpec
CONSTANTS
    Nil = Nil
    Nodes = {"n1", "n2"}
    Ext = {"n1"}
    Int = {"n1", "n2"}
    Ops = {"create", "delete", "remove", "pods"}
    MaxOps = 3
    MaxFaults = 1
INVARIANTS
    
    
    NoOrphan
PROPERTIES
    IsIdPool
    CallsReturn
    TakenOver
    
    EndsForOneCause
    StrayPeersGo
    Settles
    DeletionEnds
CHECK_DEADLOCK FALSE
