--------------------------- MODULE MCSpeakerManager ---------------------------
(* Instances of SpeakerManager for TLC.                                    *)
EXTENDS SpeakerManager, TLC

CONSTANTS e1, s1, s2, n1, n2

OneEip == {e1}
OneSvc == {s1}
TwoNodes == {n1, n2}

AllProtocols == {"bgp", "layer2", "vip"}

\* Services and Nodes are told apart by nothing.
Symmetry == Permutations(Svcs) \cup Permutations(Nodes)

GoneOps == {"record", "delete"}
EndpointsOps == {"record", "endpoints"}
===============================================================================
