SPECIFICATION Spec
CONSTANTS
    MaxInt = 7
    Nil = Nil
    Names = {"e", "f"}
    Eips <- Submitted
    IPs <- AskedFor
    Requests = {1, 2}
    MaxStores = 3
INVARIANTS
    Disjoint
    OneDefault
    
