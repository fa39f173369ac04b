------------------------------ MODULE BgpRoutes ------------------------------
(***************************************************************************)
(* The routes of one node's BGP speaker (pkg/speaker/bgp/bgp/path.go).     *)
(* SetBalancer compares the paths GoBGP has for an address with the next   *)
(* hops of the nodes, adds what is missing, a path at a time, and then     *)
(* deletes what is too much.  Two controllers call the speaker, a third    *)
(* one restarts the server (HandleBgpGlobalConfig), and nothing keeps them *)
(* apart.                                                                  *)
(***************************************************************************)
EXTENDS Naturals

CONSTANTS Addrs, Nodes, Callers,
          Rack,       \* Rack[n]: label of node n, Nil if it has none
          Racks,      \* values b.rack may get from a BgpConf, Nil for none
          HopOf,      \* HopOf[n]: internal address of n, Nil if it has none
          PathId,     \* PathId[h]: fnv32a of h
          Nil,
          MaxSets, MaxStarts, MaxErrors    \* bounds

VARIABLES as,       \* the server has been started: response.Global.As # 0
          rack,     \* b.rack
          paths,    \* paths[a]: next hops of the paths to a in the global table
          op,       \* op[c]: what caller c is doing
          sets, starts, errors

vars == <<as, rack, paths, op, sets, starts, errors>>

\* alone: no other call has touched the address, and the server has not been restarted,
\* since the call began.
Idle == [kind |-> "idle", ip |-> Nil, want |-> {}, add |-> {}, del |-> {}, alone |-> TRUE]
Working(c) == op[c].kind # "idle"

\* GoBGP tells the local paths to a prefix apart by their identifiers.
SamePath(g, h) == PathId[g] = PathId[h]
AddPath(a, h) == paths' = [paths EXCEPT ![a] = {g \in @ : ~SamePath(g, h)} \cup {h}]
DeletePath(a, h) == paths' = [paths EXCEPT ![a] = {g \in @ : ~SamePath(g, h)}]

\* The call of c on a begins: it and other calls on a are no longer alone.
Begin(c, a, k, w, add, del) ==
    LET others == {d \in Callers \ {c} : op[d].ip = a}
    IN op' = [d \in Callers |->
                IF d = c THEN [kind |-> k, ip |-> a, want |-> w, add |-> add, del |-> del,
                               alone |-> others = {}]
                ELSE [op[d] EXCEPT !.alone = @ /\ d \notin others]]

Return(c) == op' = [op EXCEPT ![c] = Idle]

Fail(c) == errors < MaxErrors /\ errors' = errors + 1 /\ Return(c)

------------------------------------------------------------------------------
(* SetBalancer.                                                            *)

InRack(n) == rack = Nil \/ Rack[n] = rack
Hops(ns) == {HopOf[n] : n \in {m \in ns : InRack(m)}}

\* Mutant of SetBalancer: no path is found to be too much.
SetBalancer_NoDelete(c, a, ns) ==
    /\ ~Working(c) /\ sets < MaxSets /\ sets' = sets + 1
    /\ as /\ Nil \notin Hops(ns)
    /\ Begin(c, a, "set", Hops(ns), Hops(ns) \ paths[a], {})
    /\ UNCHANGED <<as, rack, paths, starts, errors>>

\* ready, getNodeNextHop and retriveRoutes; an error before anything is changed
\* is a call that does not begin.
SetBalancer(c, a, ns) ==
    /\ ~Working(c) /\ sets < MaxSets /\ sets' = sets + 1
    /\ as /\ Nil \notin Hops(ns)
    /\ Begin(c, a, "set", Hops(ns), Hops(ns) \ paths[a], paths[a] \ Hops(ns))
    /\ UNCHANGED <<as, rack, paths, starts, errors>>

\* addMultiRoutes: an error, or a server that has been stopped, ends the call.
AddRoute(c, h) ==
    /\ op[c].kind = "set" /\ h \in op[c].add
    /\ \/ /\ as /\ AddPath(op[c].ip, h) /\ op' = [op EXCEPT ![c].add = @ \ {h}]
          /\ UNCHANGED errors
       \/ Fail(c) /\ UNCHANGED paths
       \/ ~as /\ Return(c) /\ UNCHANGED <<paths, errors>>
    /\ UNCHANGED <<as, rack, sets, starts>>

\* Mutant of DeleteRoute: the old routes go before the new ones come.
DeleteRoute_First(c, h) ==
    /\ op[c].kind \in {"set", "del"} /\ h \in op[c].del
    /\ as /\ DeletePath(op[c].ip, h) /\ op' = [op EXCEPT ![c].del = @ \ {h}]
    /\ UNCHANGED <<as, rack, sets, starts, errors>>

\* deleteMultiRoutes, and the deletions of DelBalancer.
DeleteRoute(c, h) ==
    /\ op[c].kind \in {"set", "del"} /\ op[c].add = {} /\ h \in op[c].del
    /\ \/ /\ as /\ DeletePath(op[c].ip, h) /\ op' = [op EXCEPT ![c].del = @ \ {h}]
          /\ UNCHANGED errors
       \/ Fail(c) /\ UNCHANGED paths
       \/ ~as /\ Return(c) /\ UNCHANGED <<paths, errors>>
    /\ UNCHANGED <<as, rack, sets, starts>>

\* The call returns nil.
Done(c) ==
    /\ Working(c) /\ op[c].add = {} /\ op[c].del = {} /\ Return(c)
    /\ UNCHANGED <<as, rack, paths, sets, starts, errors>>

\* DelBalancer of a server that is not ready returns nil at once.
DelBalancer(c, a) ==
    /\ ~Working(c) /\ sets < MaxSets /\ sets' = sets + 1 /\ as
    /\ Begin(c, a, "del", {}, {}, paths[a])
    /\ UNCHANGED <<as, rack, paths, starts, errors>>

------------------------------------------------------------------------------
(* HandleBgpGlobalConfig: the server forgets its routes when it stops, also *)
(* when it is started again at once.                                       *)

StopBgp(on, r) ==
    /\ starts < MaxStarts /\ starts' = starts + 1
    /\ as' = on /\ rack' = r
    /\ paths' = [a \in Addrs |-> {}]
    /\ op' = [c \in Callers |-> IF Working(c) THEN [op[c] EXCEPT !.alone = FALSE] ELSE op[c]]
    /\ UNCHANGED <<sets, errors>>

\* A configuration that cannot be converted leaves the server alone, but b.rack is set.
Rejected(r) ==
    /\ starts < MaxStarts /\ starts' = starts + 1 /\ rack' = r
    /\ UNCHANGED <<as, paths, op, sets, errors>>

\* StartBgp may fail after StopBgp.
HandleBgpGlobalConfig(delete, r) ==
    \/ delete /\ StopBgp(FALSE, Nil)
    \/ ~delete /\ \E on \in BOOLEAN : StopBgp(on, r)
    \/ ~delete /\ Rejected(r)

------------------------------------------------------------------------------
Init ==
    /\ as = FALSE /\ rack = Nil /\ paths = [a \in Addrs |-> {}]
    /\ op = [c \in Callers |-> Idle] /\ sets = 0 /\ starts = 0 /\ errors = 0

Next ==
    \/ \E c \in Callers :
         \/ \E a \in Addrs : DelBalancer(c, a) \/ \E ns \in SUBSET Nodes : SetBalancer(c, a, ns)
         \/ \E n \in Nodes : AddRoute(c, HopOf[n]) \/ DeleteRoute(c, HopOf[n])
         \/ Done(c)
    \/ \E delete \in BOOLEAN, r \in Racks : HandleBgpGlobalConfig(delete, r)

Spec == Init /\ [][Next]_vars

------------------------------------------------------------------------------
(* Properties.                                                             *)

\* The identifiers of the next hops in use differ.
NoCollision == \A m, n \in Nodes : PathId[HopOf[m]] = PathId[HopOf[n]] => HopOf[m] = HopOf[n]

\* setBalancer: a call that returns nil, with no other on the address and no restart
\* meanwhile, leaves exactly the wanted paths.
RoutesAsWanted ==
    NoCollision => \A c \in Callers :
      (Working(c) /\ op[c].add = {} /\ op[c].del = {} /\ op[c].alone) => paths[op[c].ip] = op[c].want

\* setBalancer adds before it deletes: a change of the nodes never leaves an address that
\* had a route without one on the way, unless no node is left for it.
MakeBeforeBreak ==
    [][ \A c \in Callers :
          (op[c].kind = "set" /\ op[c].alone /\ op[c].want # {} /\ starts' = starts /\ NoCollision)
            => (paths[op[c].ip] # {} => paths'[op[c].ip] # {}) ]_vars
===============================================================================
