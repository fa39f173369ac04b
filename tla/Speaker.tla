------------------------------- MODULE Speaker --------------------------------
(***************************************************************************)
(* What the speaker manager relies on when it calls a speaker              *)
(* (pkg/speaker/interface.go): a call is about one address and changes     *)
(* nothing of the others; one that fails has had its effect, or none, or   *)
(* has left the address without announcement; nothing changes by itself.   *)
(***************************************************************************)
CONSTANTS Addrs, Nodes, Callers

VARIABLES announced,  \* announced[a]: the nodes address a was last set to, {} for none
          waiting     \* the callers whose call has had its effect and has not returned

Init == announced = [a \in Addrs |-> {}] /\ waiting = {}

\* The call of c sets a to ns, and waits for the outside world.
Effect(c, a, ns) ==
    /\ c \notin waiting /\ waiting' = waiting \cup {c}
    /\ announced' = [announced EXCEPT ![a] = ns]

\* The call of c returns at once.
Fails(c, a, ns) ==
    /\ c \notin waiting /\ UNCHANGED waiting
    /\ announced' \in {announced, [announced EXCEPT ![a] = ns], [announced EXCEPT ![a] = {}]}

Returns(c) == c \in waiting /\ waiting' = waiting \ {c} /\ UNCHANGED announced

Next ==
    \E c \in Callers :
      \/ \E a \in Addrs, ns \in SUBSET Nodes : Effect(c, a, ns) \/ Fails(c, a, ns)
      \/ Returns(c)

Spec == Init /\ [][Next]_<<announced, waiting>>
===============================================================================
