SPECIFICATION FairSpec
CONSTANTS
    Speakers = {"bgp", "layer2", "vip"}
    Layer2 = "layer2"
    Fails = {}
PROPERTY
    StopsOnSignal
CHECK_DEADLOCK FALSE
