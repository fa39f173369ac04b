-------------------------------- MODULE Layer2 --------------------------------
(***************************************************************************)
(* The layer 2 speakers of several nodes (pkg/speaker/layer2/memberlist.go)*)
(* agree on nothing: each one elects, from its own list of members, the    *)
(* node that answers for an address, and answers if that is itself.  A     *)
(* change of the list makes the manager of the node set all addresses      *)
(* again (ResyncEIPSpeaker).                                               *)
(*                                                                         *)
(* Of the manager there is as much as decides when SetBalancer and         *)
(* DelBalancer are called: pools (known), and one worker that handles      *)
(* Eips and reloads, a call at a time.  memberlist is a library: its lists *)
(* follow the processes that run, with delay, and may be wrong for a time. *)
(***************************************************************************)
EXTENDS Integers

CONSTANTS Nodes, Addrs,
          Candidates,   \* the nodes the manager passes to SetBalancer
          Rank,         \* Rank[a][n]: sha256 of n#a, as a number
          Ops,          \* the kinds of changes in this instance: use, reuse, release,
                        \* crash, start, suspect
          MaxOps        \* bound: number of changes

\* A hash is a number.
ConstantsOK == \A a \in Addrs, n \in Nodes : Rank[a][n] \in Nat

\* sha256 tells the nodes apart.
NoCollision == \A a \in Addrs, m, n \in Nodes : Rank[a][m] = Rank[a][n] => m = n

VARIABLES used,       \* addresses the Eips have in use
          released,   \* addresses that were released before
          up,         \* nodes whose speaker runs
          members,    \* members[n]: Members() at node n
          eventCh,    \* nodes with events in the channel
          reload,     \* nodes whose manager has a reload to do
          known,      \* known[n]: addresses in use according to pools
          work,       \* work[n]: what the worker of n still has to do
          ip2mac,     \* ip2mac[n]: addresses n answers for
          ops

vars == <<used, released, up, members, eventCh, reload, known, work, ip2mac, ops>>

Idle == [busy |-> FALSE, del |-> {}, set |-> {}, known |-> {}]

\* The first of the sorted candidates that are members.
Winner(a, ns) == CHOOSE n \in ns : \A m \in ns : Rank[a][n] <= Rank[a][m]

------------------------------------------------------------------------------
(* The speaker.                                                            *)

\* Mutant of SetBalancer: it elects among all candidates.
SetBalancer_AnyNode(n, a) ==
    ip2mac' = IF Winner(a, Candidates) = n THEN [ip2mac EXCEPT ![n] = @ \cup {a}] ELSE ip2mac

\* Mutant of SetBalancer: the candidates are not sorted, and any of them is the first.
SetBalancer_Unsorted(n, a) ==
    \E w \in Candidates \cap members[n] :
      ip2mac' = IF w = n THEN [ip2mac EXCEPT ![n] = @ \cup {a}] ELSE ip2mac

\* A node that loses changes nothing, even if it answered for a before.
SetBalancer(n, a) ==
    LET nodes == Candidates \cap members[n]
    IN ip2mac' = IF nodes # {} /\ Winner(a, nodes) = n THEN [ip2mac EXCEPT ![n] = @ \cup {a}] ELSE ip2mac

DelBalancer(n, a) == ip2mac' = [ip2mac EXCEPT ![n] = @ \ {a}]

\* Mutant of EventLoop: an event is dropped while a reload is being worked on.
EventLoop_Drops(n) ==
    /\ n \in up \cap eventCh
    /\ eventCh' = eventCh \ {n}
    /\ reload' = IF work[n].busy THEN reload ELSE reload \cup {n}
    /\ UNCHANGED <<used, released, up, members, known, work, ip2mac, ops>>

\* Start: events of memberlist become a reload.
EventLoop(n) ==
    /\ n \in up \cap eventCh
    /\ eventCh' = eventCh \ {n}
    /\ reload' = reload \cup {n}
    /\ UNCHANGED <<used, released, up, members, known, work, ip2mac, ops>>

------------------------------------------------------------------------------
(* The manager of a node.                                                  *)

HandleEIP(n) ==
    /\ n \in up /\ ~work[n].busy /\ known[n] # used
    /\ work' = [work EXCEPT ![n] = [busy |-> TRUE, del |-> known[n] \ used,
                                    set |-> used \ known[n], known |-> used]]
    /\ UNCHANGED <<used, released, up, members, eventCh, reload, known, ip2mac, ops>>

ResyncEIPSpeaker(n) ==
    /\ n \in up \cap reload /\ ~work[n].busy
    /\ reload' = reload \ {n}
    /\ work' = [work EXCEPT ![n] = [busy |-> TRUE, del |-> {}, set |-> used, known |-> known[n]]]
    /\ UNCHANGED <<used, released, up, members, eventCh, known, ip2mac, ops>>

WorkDel(n, a) ==
    /\ a \in work[n].del
    /\ DelBalancer(n, a)
    /\ work' = [work EXCEPT ![n].del = @ \ {a}]
    /\ UNCHANGED <<used, released, up, members, eventCh, reload, known, ops>>

WorkSet(n, a) ==
    /\ work[n].del = {} /\ a \in work[n].set
    /\ SetBalancer(n, a)
    /\ work' = [work EXCEPT ![n].set = @ \ {a}]
    /\ UNCHANGED <<used, released, up, members, eventCh, reload, known, ops>>

WorkDone(n) ==
    /\ work[n].busy /\ work[n].del = {} /\ work[n].set = {}
    /\ known' = [known EXCEPT ![n] = work[n].known]
    /\ work' = [work EXCEPT ![n] = Idle]
    /\ UNCHANGED <<used, released, up, members, eventCh, reload, ip2mac, ops>>

------------------------------------------------------------------------------
(* The world.                                                              *)

Op(kind) == kind \in Ops /\ ops < MaxOps /\ ops' = ops + 1

Use(a) ==
    /\ Op(IF a \in released THEN "reuse" ELSE "use")
    /\ a \notin used /\ used' = used \cup {a}
    /\ UNCHANGED <<released, up, members, eventCh, reload, known, work, ip2mac>>

Release(a) ==
    /\ Op("release") /\ a \in used
    /\ used' = used \ {a} /\ released' = released \cup {a}
    /\ UNCHANGED <<up, members, eventCh, reload, known, work, ip2mac>>

\* memberlist finds out whether m runs.
Detect(n, m) ==
    /\ n \in up /\ n # m /\ (m \in members[n] <=> m \notin up)
    /\ members' = [members EXCEPT ![n] = IF m \in up THEN @ \cup {m} ELSE @ \ {m}]
    /\ eventCh' = eventCh \cup {n}
    /\ UNCHANGED <<used, released, up, reload, known, work, ip2mac, ops>>

\* memberlist takes a node for dead that is only slow.
Suspect(n, m) ==
    /\ Op("suspect") /\ n \in up /\ n # m /\ m \in members[n] \cap up
    /\ members' = [members EXCEPT ![n] = @ \ {m}]
    /\ eventCh' = eventCh \cup {n}
    /\ UNCHANGED <<used, released, up, reload, known, work, ip2mac>>

\* The process of n ends, and its memory with it.
Crash(n) ==
    /\ Op("crash") /\ n \in up /\ up' = up \ {n}
    /\ members' = [members EXCEPT ![n] = {n}]
    /\ known' = [known EXCEPT ![n] = {}] /\ work' = [work EXCEPT ![n] = Idle]
    /\ ip2mac' = [ip2mac EXCEPT ![n] = {}]
    /\ eventCh' = eventCh \ {n} /\ reload' = reload \ {n}
    /\ UNCHANGED <<used, released>>

\* It starts again, with a list of its own name; joinMembers lets it and the others
\* learn of each other (Detect).
StartNode(n) ==
    /\ Op("start") /\ n \notin up /\ up' = up \cup {n}
    /\ UNCHANGED <<used, released, members, eventCh, reload, known, work, ip2mac>>

------------------------------------------------------------------------------
Init ==
    /\ used = {} /\ released = {} /\ up = Nodes /\ members = [n \in Nodes |-> Nodes]
    /\ eventCh = {} /\ reload = {} /\ known = [n \in Nodes |-> {}]
    /\ work = [n \in Nodes |-> Idle] /\ ip2mac = [n \in Nodes |-> {}] /\ ops = 0

Worker(n) ==
    \/ HandleEIP(n) \/ ResyncEIPSpeaker(n) \/ WorkDone(n)
    \/ \E a \in Addrs : WorkDel(n, a) \/ WorkSet(n, a)

World ==
    \/ \E a \in Addrs : Use(a) \/ Release(a)
    \/ \E n, m \in Nodes : Suspect(n, m)
    \/ \E n \in Nodes : Crash(n) \/ StartNode(n)

System == \E n \in Nodes : Worker(n) \/ EventLoop(n) \/ \E m \in Nodes : Detect(n, m)

Next == System \/ World

Spec == Init /\ [][Next]_vars

\* Workers and loops run on, memberlist finds out in the end; the world does as it likes.
FairSpec == Spec /\ WF_vars(System)

------------------------------------------------------------------------------
(* Properties.                                                             *)

AtRest ==
    \A n \in up : /\ members[n] = up /\ n \notin eventCh \cup reload
                  /\ ~work[n].busy /\ known[n] = used

\* SetBalancer: once the lists agree and the reloads are done, the node elected for
\* an address in use answers for it, whatever came and went in between.
ElectedAnswers ==
    AtRest => \A a \in used :
      Candidates \cap up # {} => a \in ip2mac[Winner(a, Candidates \cap up)]

\* SetBalancer: while speakers only end and no list is wrong about one that runs,
\* there are never two that answer for the same address, also while lists differ.
OneAnswers ==
    Ops \cap {"start", "suspect"} = {} => \A m, n \in up : ip2mac[m] \cap ip2mac[n] # {} => m = n

\* Start, ResyncEIPSpeaker: when a node that answers ends, another one takes over:
\* an address that stays in use, with a candidate running, is answered again.
TakenOver ==
    \A a \in Addrs :
      []<>(a \notin used \/ Candidates \cap up = {} \/ \E n \in up : a \in ip2mac[n])
===============================================================================
