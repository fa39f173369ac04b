------------------------------- MODULE MCIpam --------------------------------
(***************************************************************************)
(* Instances of Ipam for TLC: one or two pools, one or two Services.       *)
(***************************************************************************)
EXTENDS Ipam

CONSTANTS e1, e2, s1, s2

OneEach == [e \in Eips |-> 1]
TwoEach == [e \in Eips |-> 2]

E1First == [e \in Eips |-> IF e = e1 THEN 0 ELSE 1]

AllCompatible == Svcs \X Eips

Wants(eip, ip) == [class |-> "lb", wantEip |-> eip, wantIP |-> ip]

\* Services that name a pool, that name nothing, that ask for an address.
NamedPools == {Wants(e, Nil) : e \in Eips}
Automatic == {Wants(Nil, Nil)}
AskedFor == {Wants(Nil, a) : a \in Addrs}
PoolsOrAddresses == NamedPools \cup AskedFor
==============================================================================
