SPECIFICATION SafeSpec
CONSTANTS
    e1 = e1
    s1 = s1
    s2 = s2
    n1 = n1
    Nil = Nil
    Eips = {e1}
    Svcs = {s1, s2}
    Nodes = {n1}
    Size = 2
    Registered = {"bgp", "layer2", "vip"}
    Ops = {"record", "release", "create", "delete", "protocol", "restart"}
    MaxOps = 6
    MaxFaults = 0
    Prompt = {"known", "handled", "last"}
INVARIANTS
    UsedAnnounced
    AnnouncedUsed
    OneSpeaker
PROPERTIES
    
    EndsForCause
SYMMETRY Symmetry
CHECK_DEADLOCK FALSE
