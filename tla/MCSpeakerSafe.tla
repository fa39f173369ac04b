----------------------------- MODULE MCSpeakerSafe -----------------------------
(***************************************************************************)
(* Safety of SpeakerManager on two instances for TLC.  part says which of  *)
(* them a behaviour is about: what is announced at rest ("rest", whose     *)
(* constants are in the configuration), or why announcements end           *)
(* ("cause", with variables of its own).  The instance that part is not    *)
(* about stays in its initial state.                                       *)
(***************************************************************************)
EXTENDS SpeakerManager, TLC

CONSTANTS e1, s1, s2, n1

VARIABLES part, eips2, svcs2, nodes2, pools2, configured2, announced2, eipq2, svcq2, ew2, lw2, ops2, faults2

vars2 == <<eips2, svcs2, nodes2, pools2, configured2, announced2, eipq2, svcq2, ew2, lw2, ops2, faults2>>
safeVars == <<part, vars, vars2>>

\* One address that two Services share; all changes, and a call that fails.
Cause == INSTANCE SpeakerManager WITH Eips <- {e1}, Svcs <- {s1, s2}, Nodes <- {n1}, Size <- 1,
    Registered <- {"bgp", "layer2", "vip"},
    Ops <- {"record", "release", "create", "delete", "protocol", "ingress", "endpoints",
            "policy", "remove", "node", "member", "restart"},
    MaxOps <- 3, MaxFaults <- 1, Prompt <- {},
    eips <- eips2, svcs <- svcs2, nodes <- nodes2, pools <- pools2, configured <- configured2,
    announced <- announced2, eipq <- eipq2, svcq <- svcq2, ew <- ew2, lw <- lw2,
    ops <- ops2, faults <- faults2

\* The instance that part is not about starts in one of its states, whichever.
SafeInit ==
    /\ Init /\ Cause!Init
    /\ \/ part = "rest" /\ eips2[e1].protocol = "bgp" /\ \A s \in {s1, s2} : svcs2[s].eps = {n1} /\ ~svcs2[s].local
       \/ part = "cause" /\ eips[e1].protocol = "bgp"

SafeNext ==
    /\ UNCHANGED part
    /\ \/ part = "rest" /\ Next /\ UNCHANGED vars2
       \/ part = "cause" /\ Cause!Next /\ UNCHANGED vars

SafeSpec == SafeInit /\ [][SafeNext]_safeVars

\* In both instances the two Services are told apart by nothing.
Symmetry == Permutations({s1, s2})

\* delBalancer: the announcements of the second instance end for one of few causes.
EndsForCause == [][part = "cause" => Cause!Withdrawal]_safeVars
===============================================================================
