------------------------------ MODULE MCIpamSafe -------------------------------
(***************************************************************************)
(* Safety of Ipam on three instances for TLC.  part says which of them a   *)
(* behaviour is about: the two writers of an Eip with caches of any age    *)
(* ("writers", whose constants are in the configuration), the agreement of *)
(* pools and Services at rest ("agreement"), or Services that OpenELB has  *)
(* to let go ("letgo").  The latter two have variables of their own, and   *)
(* what part is not about stays in its initial state.                      *)
(***************************************************************************)
EXTENDS Ipam

CONSTANTS e1, e2, s1, s2

VARIABLES part, eips2, svcs2, lbq2, eipq2, lb2, ew2, held2, ops2, faults2

vars2 == <<eips2, svcs2, lbq2, eipq2, lb2, ew2, held2, ops2, faults2>>
safeVars == <<part, vars, vars2>>

Each(E) == [e \in E |-> 1]
E1First(E) == [e \in E |-> IF e = e1 THEN 0 ELSE 1]

Wants(class, eip, ip) == [class |-> class, wantEip |-> eip, wantIP |-> ip]

\* Writers: one address, for which two Services ask by pool or by address.
OneEach == Each(Eips)
PoolOrAddress == {Wants("lb", e1, Nil), Wants("lb", Nil, <<e1, 0>>)}
AllCompatible == Svcs \X Eips
EqualPriority == [e \in Eips |-> 0]

\* One address and two Services that name the pool; all edits, a crash or a lost reply.
Agreement == INSTANCE Ipam WITH Eips <- {e1}, Svcs <- {s1, s2}, Size <- Each({e1}),
    Specs <- {Wants("lb", e1, Nil)}, Compatible <- {s1, s2} \X {e1},
    NsEips <- {}, Priority <- E1First({e1}), Default <- Nil,
    UserOps <- {"createSvc", "editSvc", "deleteSvc", "createEip", "toggleEip", "deleteEip", "nodeChange"},
    MaxOps <- 3, MaxFaults <- 1, MaxLag <- 1, SyncedReads <- {"eips"},
    eips <- eips2, svcs <- svcs2, lbq <- lbq2, eipq <- eipq2, lb <- lb2, ew <- ew2,
    held <- held2, ops <- ops2, faults <- faults2

\* Two pools, one bound to the namespace and of the wrong family, one the default, and a
\* Service that turns away from OpenELB and back.
Leaving == INSTANCE Ipam WITH Eips <- {e1, e2}, Svcs <- {s2}, Size <- Each({e1, e2}),
    Specs <- {Wants("lb", Nil, Nil), Wants("other", Nil, Nil)}, Compatible <- {<<s2, e2>>},
    NsEips <- {e1}, Priority <- E1First({e1, e2}), Default <- e2,
    UserOps <- {"createSvc", "editSvc", "toggleEip", "nodeChange"},
    MaxOps <- 4, MaxFaults <- 0, MaxLag <- 2, SyncedReads <- {"eips"},
    eips <- eips2, svcs <- svcs2, lbq <- lbq2, eipq <- eipq2, lb <- lb2, ew <- ew2,
    held <- held2, ops <- ops2, faults <- faults2

SafeInit ==
    /\ part \in {"writers", "agreement", "letgo"}
    /\ Init /\ IF part = "letgo" THEN Leaving!Init ELSE Agreement!Init

SafeNext ==
    /\ UNCHANGED part
    /\ \/ part = "writers" /\ Next /\ UNCHANGED vars2
       \/ part = "agreement" /\ Agreement!Next /\ UNCHANGED vars
       \/ part = "letgo" /\ Leaving!Next /\ UNCHANGED vars

SafeSpec == SafeInit /\ [][SafeNext]_safeVars

------------------------------------------------------------------------------
(* The properties of the other two instances, under names of their own;    *)
(* those of the first are in Ipam.                                         *)

\* Reconcile of a Service: at rest a shown address is recorded in its pool, and a recorded
\* one is shown by its Service.
PoolsAgreeWithServices == part = "agreement" => Agreement!IngressRecorded /\ Agreement!RecordIsIngress

\* Reconcile of a Service: at rest no Service that names a pool is left without address.
NoneForgotten == part = "agreement" => Agreement!NobodyForgotten

\* Reconcile of a Service: at rest one that left OpenELB shows and holds nothing.
LeftLetGo == part = "letgo" => Leaving!LetGo
===============================================================================
