SPECIFICATION Spec
CONSTANTS
    e1 = e1
    s1 = s1
    s2 = s2
    n1 = n1
    n2 = n2
    Nil = Nil
    Eips <- OneEip
    Svcs <- OneSvc
    Nodes <- TwoNodes
    Size = 1
    Registered <- AllProtocols
    Ops <- GoneOps
    MaxOps = 2
    MaxFaults = 0
    Prompt = {"known"}
SYMMETRY Symmetry
INVARIANT AnnouncedUsed
CHECK_DEADLOCK FALSE
