----------------------------- MODULE Layer2Proofs -----------------------------
(***************************************************************************)
(* The node elected for an address answers for it at rest, and, while      *)
(* speakers only end, no other one ever does: for every number of nodes,   *)
(* candidates and addresses and any number of changes.  An interface       *)
(* answers for addresses of its Eips only, and hears of the requests for   *)
(* them, for every number of Eips and addresses.                           *)
(***************************************************************************)
EXTENDS Layer2, NaturalsInduction, WellFoundedInduction, TLAPS

\* The announcer of an interface, by itself.
CONSTANTS Eips, EipOf, Ndp, Group, ClosedIsEOF, MaxCalls, MaxFaults

VARIABLES registered, ipranges, answered, groups, conn, loop, target, stopping, callsLeft, faultsLeft

A == INSTANCE Announcer WITH ip2mac <- answered

Work == [busy: BOOLEAN, del: SUBSET Addrs, set: SUBSET Addrs, known: SUBSET Addrs]

Typed ==
    /\ used \in SUBSET Addrs /\ released \in SUBSET Addrs /\ up \in SUBSET Nodes
    /\ eventCh \in SUBSET Nodes /\ reload \in SUBSET Nodes
    /\ members \in [Nodes -> SUBSET Nodes] /\ known \in [Nodes -> SUBSET Addrs]
    /\ work \in [Nodes -> Work] /\ ip2mac \in [Nodes -> SUBSET Addrs]

\* By its list of members n is to answer for a.
Elected(n, a) == LET nodes == Candidates \cap members[n] IN nodes # {} /\ Winner(a, nodes) = n

------------------------------------------------------------------------------
(* The election.                                                           *)

\* A set of numbers that is not empty has a least element.
LEMMA Least ==
  ASSUME NEW S \in SUBSET Nat, S # {}
  PROVE  \E i \in S : \A j \in S : i <= j
<1>. DEFINE R == {ss \in Nat \X Nat : ss[1] < ss[2]}
<1>1. IsWellFoundedOn(R, Nat)
  BY NatLessThanWellFounded, Zenon DEF OpToRel
<1>2. \E x \in S : \A y \in S : ~(<<y, x>> \in R)
  BY <1>1, WFMin, Zenon
<1>3. PICK i \in S : \A j \in S : ~(<<j, i>> \in R)
  BY <1>2, Zenon
<1>4. ASSUME NEW j \in S PROVE i <= j
  <2>1. i \in Nat /\ j \in Nat
    OBVIOUS
  <2>2. <<j, i>> \notin R
    BY <1>3, Zenon
  <2>. QED
    BY <2>1, <2>2
<1>. QED
  BY <1>3, <1>4, Zenon

\* The first of the sorted nodes is one of them and has the least hash.
LEMMA WinnerLeast ==
  ASSUME ConstantsOK, NEW a \in Addrs, NEW ns \in SUBSET Nodes, ns # {}
  PROVE  Winner(a, ns) \in ns /\ \A m \in ns : Rank[a][Winner(a, ns)] <= Rank[a][m]
<1>. DEFINE S == {Rank[a][n] : n \in ns}
<1>1. S \in SUBSET Nat /\ S # {}
  BY DEF ConstantsOK
<1>2. \E i \in S : \A j \in S : i <= j
  BY <1>1, Least, Zenon
<1>3. \E n \in ns : \A m \in ns : Rank[a][n] <= Rank[a][m]
  BY <1>2
<1>. QED
  BY <1>3 DEF Winner

------------------------------------------------------------------------------
(* Types.                                                                  *)

\* Every step keeps the types.
LEMMA NextTyped == ASSUME Typed, [Next]_vars PROVE Typed'
<1>1. Idle \in Work
  BY DEF Idle, Work
<1>2. ASSUME NEW n \in Nodes PROVE work[n] \in Work /\ known[n] \in SUBSET Addrs
  BY DEF Typed
<1>3. ASSUME NEW n \in Nodes, HandleEIP(n) PROVE Typed'
  <2>1. [busy |-> TRUE, del |-> known[n] \ used, set |-> used \ known[n], known |-> used] \in Work
    BY <1>2 DEF Typed, Work
  <2>. QED
    BY <1>3, <2>1 DEF HandleEIP, Typed
<1>4. ASSUME NEW n \in Nodes, ResyncEIPSpeaker(n) PROVE Typed'
  <2>1. [busy |-> TRUE, del |-> {}, set |-> used, known |-> known[n]] \in Work
    BY <1>2 DEF Typed, Work
  <2>. QED
    BY <1>4, <2>1 DEF ResyncEIPSpeaker, Typed
<1>5. ASSUME NEW n \in Nodes, NEW a \in Addrs, WorkDel(n, a) PROVE Typed'
  <2>1. [work[n] EXCEPT !.del = @ \ {a}] \in Work
    BY <1>2 DEF Work
  <2>2. work' \in [Nodes -> Work]
    BY <1>5, <2>1 DEF WorkDel, Typed
  <2>. QED
    BY <1>5, <2>2 DEF WorkDel, DelBalancer, Typed
<1>6. ASSUME NEW n \in Nodes, NEW a \in Addrs, WorkSet(n, a) PROVE Typed'
  <2>1. [work[n] EXCEPT !.set = @ \ {a}] \in Work
    BY <1>2 DEF Work
  <2>2. work' \in [Nodes -> Work]
    BY <1>6, <2>1 DEF WorkSet, Typed
  <2>3. ip2mac' \in {ip2mac, [ip2mac EXCEPT ![n] = @ \cup {a}]}
    BY <1>6, SMTT(30) DEF WorkSet, SetBalancer
  <2>. QED
    BY <1>6, <2>2, <2>3 DEF WorkSet, Typed
<1>7. ASSUME NEW n \in Nodes, WorkDone(n) PROVE Typed'
  <2>1. work[n].known \in SUBSET Addrs
    BY <1>2 DEF Work
  <2>. QED
    BY <1>1, <1>7, <2>1 DEF WorkDone, Typed
<1>8. ASSUME NEW n \in Nodes, EventLoop(n) PROVE Typed'
  BY <1>8 DEF EventLoop, Typed
<1>9. ASSUME NEW n \in Nodes, NEW m \in Nodes, Detect(n, m) \/ Suspect(n, m) PROVE Typed'
  BY <1>9 DEF Detect, Suspect, Typed
<1>10. ASSUME NEW n \in Nodes, Crash(n) \/ StartNode(n) PROVE Typed'
  BY <1>1, <1>10 DEF Crash, StartNode, Typed
<1>11. ASSUME NEW a \in Addrs, Use(a) \/ Release(a) PROVE Typed'
  BY <1>11 DEF Use, Release, Typed
<1>12. CASE UNCHANGED vars
  BY <1>12 DEF vars, Typed
<1>. QED
  BY <1>3, <1>4, <1>5, <1>6, <1>7, <1>8, <1>9, <1>10, <1>11, <1>12 DEF Next, System, World, Worker

------------------------------------------------------------------------------
(* Who is elected answers.                                                 *)

\* Of what node n has pending, nothing concerns an address in use but to set it; and unless a
\* reload is to come, every address in use that the manager knows of, or will when it is done, and
\* that n is elected for, is answered or about to be.
Sound(n) ==
    /\ ~work[n].busy => work[n] = Idle
    /\ n \notin up => known[n] = {} /\ work[n] = Idle
    /\ known[n] \cup work[n].known \subseteq used \cup released
    /\ work[n].del \subseteq released
    /\ n \in up \ (eventCh \cup reload) =>
         \A a \in used \cap (known[n] \cup work[n].known) :
           Elected(n, a) => a \in ip2mac[n] \cup work[n].set

Ready == Typed /\ used \cap released = {} /\ \A n \in Nodes : Sound(n)

\* What other nodes do leaves a node as it was.
LEMMA OtherSound ==
  ASSUME NEW n, Sound(n), used' = used, released' = released, n \in up' <=> n \in up,
         n \in eventCh' <=> n \in eventCh, n \in reload' <=> n \in reload, members'[n] = members[n],
         known'[n] = known[n], work'[n] = work[n], ip2mac'[n] = ip2mac[n]
  PROVE  Sound(n)'
<1>1. \A a : Elected(n, a)' <=> Elected(n, a)
  BY DEF Elected, Winner
<1>. QED
  BY <1>1 DEF Sound

\* The steps of a node's worker.
LEMMA WorkerReady == ASSUME Ready, NEW n \in Nodes, Worker(n) PROVE Sound(n)'
<1>. USE DEF Ready
<1>1. Sound(n) /\ work[n] \in Work /\ known[n] \in SUBSET Addrs /\ ip2mac[n] \in SUBSET Addrs
  BY DEF Typed
<1>2. ASSUME members' = members PROVE \A a : Elected(n, a)' <=> Elected(n, a)
  BY <1>2, SMTT(30) DEF Elected, Winner
<1>3. CASE HandleEIP(n)
  <2>1. /\ n \in up /\ work[n] = Idle
        /\ work'[n] = [busy |-> TRUE, del |-> known[n] \ used, set |-> used \ known[n], known |-> used]
        /\ UNCHANGED <<used, released, up, members, eventCh, reload, known, ip2mac>>
    BY <1>1, <1>3, SMTT(30) DEF HandleEIP, Sound, Typed
  <2>. QED
    BY <1>1, <1>2, <2>1, SMTT(30) DEF Sound, Idle
<1>4. CASE ResyncEIPSpeaker(n)
  <2>1. /\ n \in up /\ work[n] = Idle
        /\ work'[n] = [busy |-> TRUE, del |-> {}, set |-> used, known |-> known[n]]
        /\ UNCHANGED <<used, released, up, members, eventCh, known, ip2mac>>
    BY <1>1, <1>4, SMTT(30) DEF ResyncEIPSpeaker, Sound, Typed
  <2>. QED
    BY <1>1, <2>1, SMTT(30) DEF Sound, Idle
<1>5. ASSUME NEW a \in Addrs, WorkDel(n, a) PROVE Sound(n)'
  <2>1. /\ work[n].busy /\ n \in up
        /\ a \in work[n].del /\ ip2mac'[n] = ip2mac[n] \ {a}
        /\ work'[n] = [work[n] EXCEPT !.del = @ \ {a}]
        /\ UNCHANGED <<used, released, up, members, eventCh, reload, known>>
    BY <1>1, <1>5 DEF WorkDel, DelBalancer, Sound, Typed, Idle
  <2>2. /\ work'[n].busy = work[n].busy /\ work'[n].del \subseteq work[n].del
        /\ work'[n].set = work[n].set /\ work'[n].known = work[n].known
    BY <1>1, <2>1, ZenonT(30) DEF Work
  <2>3. a \notin used
    BY <1>1, <2>1 DEF Sound
  <2>. QED
    BY <1>1, <1>2, <2>1, <2>2, <2>3, SMTT(30) DEF Sound
<1>6. ASSUME NEW a \in Addrs, WorkSet(n, a) PROVE Sound(n)'
  <2>1. /\ work[n].busy /\ n \in up
        /\ ip2mac[n] \subseteq ip2mac'[n] /\ (Elected(n, a) => a \in ip2mac'[n])
        /\ work'[n] = [work[n] EXCEPT !.set = @ \ {a}]
        /\ UNCHANGED <<used, released, up, members, eventCh, reload, known>>
    BY <1>1, <1>6 DEF WorkSet, SetBalancer, Sound, Typed, Idle, Elected
  <2>2. /\ work'[n].busy = work[n].busy /\ work'[n].del = work[n].del
        /\ work'[n].set = work[n].set \ {a} /\ work'[n].known = work[n].known
    BY <1>1, <2>1, ZenonT(30) DEF Work
  <2>. QED
    BY <1>1, <1>2, <2>1, <2>2 DEF Sound
<1>7. CASE WorkDone(n)
  <2>1. /\ work[n].busy /\ n \in up /\ work[n].set = {}
        /\ known'[n] = work[n].known /\ work'[n] = Idle
        /\ UNCHANGED <<used, released, up, members, eventCh, reload, ip2mac>>
    BY <1>1, <1>7 DEF WorkDone, Sound, Typed, Idle
  <2>. QED
    BY <1>1, <1>2, <2>1 DEF Sound, Idle
<1>. QED
  BY <1>3, <1>4, <1>5, <1>6, <1>7 DEF Worker

\* Every step keeps what is pending sound: events and reloads stand for what a change of members undoes.
LEMMA NextReady == ASSUME "reuse" \notin Ops, Ready, [Next]_vars PROVE Ready'
<1>1. Typed'
  BY NextTyped DEF Ready
<1>2. ASSUME NEW n \in Nodes, Worker(n) PROVE Ready'
  <2>1. /\ used' = used /\ released' = released
        /\ \A m \in Nodes \ {n} : Sound(m)'
    <3>1. ASSUME NEW m \in Nodes, m # n
          PROVE  /\ used' = used /\ released' = released /\ up' = up /\ eventCh' = eventCh /\ members' = members
                 /\ (m \in reload' <=> m \in reload)
                 /\ known'[m] = known[m] /\ work'[m] = work[m] /\ ip2mac'[m] = ip2mac[m]
      BY <1>2, <3>1, SMTT(30) DEF Worker, HandleEIP, ResyncEIPSpeaker, WorkDel, WorkSet, WorkDone, SetBalancer, DelBalancer, Ready, Typed
    <3>2. used' = used /\ released' = released
      BY <1>2 DEF Worker, HandleEIP, ResyncEIPSpeaker, WorkDel, WorkSet, WorkDone
    <3>. QED
      BY <3>1, <3>2, OtherSound, SMTT(30) DEF Ready
  <2>2. Sound(n)'
    BY <1>2, WorkerReady
  <2>. QED
    BY <1>1, <2>1, <2>2, SMTT(30) DEF Ready
<1>3. ASSUME NEW n \in Nodes, EventLoop(n) PROVE Ready'
  <2>1. ASSUME NEW m \in Nodes, m # n PROVE Sound(m)'
    BY <1>3, <2>1, OtherSound, SMTT(30) DEF EventLoop, Ready
  <2>2. Sound(n)'
    BY <1>3, SMTT(30) DEF EventLoop, Sound, Ready
  <2>. QED
    BY <1>1, <1>3, <2>1, <2>2, SMTT(30) DEF EventLoop, Ready
<1>4. ASSUME NEW n \in Nodes, NEW x \in Nodes, Detect(n, x) \/ Suspect(n, x) PROVE Ready'
  <2>1. /\ UNCHANGED <<used, released, up, reload, known, work, ip2mac>> /\ eventCh' = eventCh \cup {n}
        /\ \A m \in Nodes : m # n => members'[m] = members[m]
    BY <1>4, SMTT(30) DEF Detect, Suspect, Ready, Typed
  <2>2. ASSUME NEW m \in Nodes, m # n PROVE Sound(m)'
    BY <2>1, <2>2, OtherSound, SMTT(30) DEF Ready
  <2>3. Sound(n)'
    BY <2>1 DEF Sound, Ready
  <2>. QED
    BY <1>1, <2>1, <2>2, <2>3, SMTT(30) DEF Ready
<1>5. ASSUME NEW n \in Nodes, Crash(n) PROVE Ready'
  <2>1. ASSUME NEW m \in Nodes, m # n PROVE Sound(m)'
    <3>1. /\ UNCHANGED <<used, released>> /\ (m \in up' <=> m \in up)
          /\ (m \in eventCh' <=> m \in eventCh) /\ (m \in reload' <=> m \in reload)
          /\ members'[m] = members[m] /\ known'[m] = known[m] /\ work'[m] = work[m] /\ ip2mac'[m] = ip2mac[m]
      BY <1>5, <2>1, SMTT(30) DEF Crash, Ready, Typed
    <3>. QED
      BY <3>1, OtherSound, SMTT(30) DEF Ready
  <2>2. Sound(n)'
    BY <1>5 DEF Crash, Sound, Ready, Typed, Idle
  <2>. QED
    BY <1>1, <1>5, <2>1, <2>2, SMTT(30) DEF Crash, Ready
<1>6. ASSUME NEW n \in Nodes, StartNode(n) PROVE Ready'
  <2>1. ASSUME NEW m \in Nodes, m # n PROVE Sound(m)'
    BY <1>6, <2>1, OtherSound, SMTT(30) DEF StartNode, Ready
  <2>2. Sound(n)'
    BY <1>6 DEF StartNode, Sound, Ready, Idle
  <2>. QED
    BY <1>1, <1>6, <2>1, <2>2 DEF StartNode, Ready
<1>7. ASSUME NEW a \in Addrs, Use(a) \/ Release(a) PROVE Ready'
  <2>1. /\ UNCHANGED <<up, members, eventCh, reload, known, work, ip2mac>>
        /\ used' \cap released' = {} /\ used \cup released \subseteq used' \cup released'
        /\ released \subseteq released' /\ \A x \in used' : x \in used \/ x \notin used \cup released
    BY <1>7, SMTT(30) DEF Use, Release, Op, Ready
  <2>2. ASSUME NEW m \in Nodes PROVE Sound(m)'
    <3>1. \A x : Elected(m, x)' <=> Elected(m, x)
      BY <2>1, SMTT(30) DEF Elected, Winner
    <3>. QED
      BY <2>1, <3>1 DEF Sound, Ready
  <2>. QED
    BY <1>1, <2>1, <2>2, SMTT(30) DEF Ready
<1>8. CASE UNCHANGED vars
  <2>1. ASSUME NEW m \in Nodes PROVE Sound(m)'
    BY <1>8, OtherSound DEF vars, Ready
  <2>. QED
    BY <1>1, <1>8, <2>1, SMTT(30) DEF vars, Ready
<1>. QED
  BY <1>2, <1>3, <1>4, <1>5, <1>6, <1>7, <1>8 DEF Next, System, World

\* SetBalancer, ResyncEIPSpeaker: at rest the node elected for an address in use answers for
\* it, whatever came and went, as long as no address is used again after its release.
THEOREM Layer2Elected == ASSUME ConstantsOK, "reuse" \notin Ops PROVE Spec => []ElectedAnswers
<1>1. Init => Ready
  BY SMTT(30) DEF Init, Ready, Typed, Sound, Work, Idle
<1>2. Ready => ElectedAnswers
  <2>1. ASSUME Ready, AtRest, NEW a \in used, Candidates \cap up # {}
        PROVE  a \in ip2mac[Winner(a, Candidates \cap up)]
    <3>. DEFINE w == Winner(a, Candidates \cap up)
    <3>1. w \in Candidates \cap up
      BY <2>1, WinnerLeast, SMTT(30) DEF Ready, Typed
    <3>2. w \in Nodes /\ Sound(w) /\ work[w] = Idle /\ known[w] = used /\ members[w] = up /\ w \notin eventCh \cup reload
      BY <2>1, <3>1, Zenon DEF Ready, Typed, AtRest, Sound
    <3>3. Elected(w, a)
      BY <3>1, <3>2 DEF Elected
    <3>. QED
      BY <3>1, <3>2, <3>3, SMTT(30) DEF Sound, Idle
  <2>. QED
    BY <2>1, SMTT(30) DEF ElectedAnswers
<1>. QED
  BY <1>1, <1>2, NextReady, PTL DEF Spec

------------------------------------------------------------------------------
(* Nobody else answers.                                                    *)

\* The lists lack no node that runs, and who answers is the first of the candidates that run.
First ==
    /\ \A n \in up : up \subseteq members[n]
    /\ \A n \in up : \A a \in ip2mac[n] : n \in Candidates /\ \A m \in Candidates \cap up : Rank[a][n] <= Rank[a][m]

\* While speakers only end, every step keeps the answers with the first of those that run.
LEMMA NextFirst ==
  ASSUME ConstantsOK, Ops \cap {"start", "suspect"} = {}, Typed, First, [Next]_vars
  PROVE  First'
<1>1. ASSUME UNCHANGED <<up, members>>, \A n \in up : ip2mac'[n] \subseteq ip2mac[n] PROVE First'
  BY <1>1 DEF First
<1>2. ASSUME NEW n \in Nodes, NEW a \in Addrs, WorkSet(n, a) PROVE First'
  <2>1. CASE ip2mac' = ip2mac
    BY <1>1, <1>2, <2>1, SMTT(30) DEF WorkSet
  <2>2. CASE Elected(n, a) /\ ip2mac' = [ip2mac EXCEPT ![n] = @ \cup {a}]
    <3>. DEFINE ns == Candidates \cap members[n]
    <3>1. n \in ns /\ \A m \in ns : Rank[a][n] <= Rank[a][m]
      BY <2>2, WinnerLeast, SMTT(30) DEF Elected, Typed
    <3>2. n \in up => \A m \in Candidates \cap up : Rank[a][n] <= Rank[a][m]
      BY <3>1 DEF First
    <3>3. \A m \in up : ip2mac'[m] = IF m = n THEN ip2mac[m] \cup {a} ELSE ip2mac[m]
      BY <2>2, Zenon DEF Typed
    <3>4. UNCHANGED <<up, members>>
      BY <1>2 DEF WorkSet
    <3>5. ASSUME NEW m \in up, NEW x \in ip2mac'[m]
          PROVE  m \in Candidates /\ \A o \in Candidates \cap up : Rank[x][m] <= Rank[x][o]
      <4>1. x \in ip2mac[m] \/ (m = n /\ x = a)
        BY <3>3, Zenon
      <4>2. CASE x \in ip2mac[m]
        BY <4>2 DEF First
      <4>3. CASE m = n /\ x = a
        BY <3>1, <3>2, <4>3
      <4>. QED
        BY <4>1, <4>2, <4>3
    <3>. QED
      BY <3>4, <3>5, SMTT(30) DEF First
  <2>. QED
    BY <1>2, <2>1, <2>2 DEF WorkSet, SetBalancer, Elected
<1>3. ASSUME NEW n \in Nodes, NEW a \in Addrs, WorkDel(n, a) PROVE First'
  BY <1>1, <1>3, SMTT(30) DEF WorkDel, DelBalancer, Typed
<1>4. ASSUME NEW n \in Nodes, HandleEIP(n) \/ ResyncEIPSpeaker(n) \/ WorkDone(n) \/ EventLoop(n) PROVE First'
  BY <1>1, <1>4, SMTT(30) DEF HandleEIP, ResyncEIPSpeaker, WorkDone, EventLoop
<1>5. ASSUME NEW n \in Nodes, NEW m \in Nodes, Detect(n, m) PROVE First'
  BY <1>5, SMTT(30) DEF Detect, First, Typed
<1>6. ASSUME NEW n \in Nodes, Crash(n) PROVE First'
  <2>1. /\ up' = up \ {n}
        /\ \A m \in up' : members'[m] = members[m] /\ ip2mac'[m] = ip2mac[m]
    BY <1>6, SMTT(30) DEF Crash, Typed
  <2>. QED
    BY <2>1, SMTT(30) DEF First
<1>7. ASSUME NEW a \in Addrs, Use(a) \/ Release(a) PROVE First'
  BY <1>1, <1>7, SMTT(30) DEF Use, Release
<1>8. /\ \A n \in Nodes : ~StartNode(n)
      /\ \A n, m \in Nodes : ~Suspect(n, m)
  BY SMTT(30) DEF StartNode, Suspect, Op
<1>9. CASE UNCHANGED vars
  BY <1>1, <1>9 DEF vars
<1>. QED
  BY <1>2, <1>3, <1>4, <1>5, <1>6, <1>7, <1>8, <1>9 DEF Next, System, World, Worker

\* SetBalancer: while speakers only end, of which the lists of the others learn late, no two
\* that run answer for the same address.
THEOREM Layer2OneAnswers == ASSUME ConstantsOK, NoCollision PROVE Spec => []OneAnswers
<1>1. CASE Ops \cap {"start", "suspect"} = {}
  <2>1. Init => Typed /\ First
    BY SMTT(30) DEF Init, Typed, First, Work, Idle
  <2>2. Typed /\ First => OneAnswers
    <3>1. ASSUME Typed, First, NEW m \in up, NEW n \in up, NEW a \in ip2mac[m] \cap ip2mac[n] PROVE m = n
      <4>1. a \in Addrs /\ m \in Nodes /\ n \in Nodes /\ Rank[a][m] \in Nat /\ Rank[a][n] \in Nat
        BY <3>1, SMTT(30) DEF Typed, ConstantsOK
      <4>2. Rank[a][m] <= Rank[a][n] /\ Rank[a][n] <= Rank[a][m]
        BY <3>1 DEF First
      <4>. QED
        BY <4>1, <4>2, SMTT(30) DEF NoCollision
    <3>. QED
      BY <3>1, SMTT(30) DEF OneAnswers
  <2>. QED
    BY <1>1, <2>1, <2>2, NextTyped, NextFirst, PTL DEF Spec
<1>2. CASE Ops \cap {"start", "suspect"} # {}
  <2>1. OneAnswers
    BY <1>2, SMTT(30) DEF OneAnswers
  <2>. QED
    BY <2>1, PTL
<1>. QED
  BY <1>1, <1>2

------------------------------------------------------------------------------
(* The announcer of an interface.                                          *)

\* An interface that is not registered answers for nothing.
Answering ==
    /\ answered \subseteq Addrs /\ (~registered => answered = {})
    /\ A!AnswersOwnRanges /\ A!GroupsJoined

\* Every step of a call or of the goroutine keeps it.
LEMMA AnnouncerStep == ASSUME Answering, [A!Next]_A!vars PROVE Answering'
<1>. USE DEF Answering, A!AnswersOwnRanges, A!GroupsJoined
<1>1. ASSUME UNCHANGED <<registered, ipranges, answered, groups>> PROVE Answering'
  BY <1>1, SMTT(30)
<1>2. ASSUME NEW e \in Eips, A!registerAnnouncer(e) PROVE Answering'
  BY <1>2, SMTT(30) DEF A!registerAnnouncer
<1>3. ASSUME NEW e \in Eips, A!unregisterAnnouncer(e) PROVE Answering'
  BY <1>3, SMTT(30) DEF A!unregisterAnnouncer, A!UnregisterIPRange
<1>4. ASSUME NEW a \in Addrs, A!AddAnnouncedIP(a) PROVE Answering'
  BY <1>4, SMTT(30) DEF A!AddAnnouncedIP, A!ContainsIP, A!gratuitous
<1>5. ASSUME NEW a \in Addrs, A!DelAnnouncedIP(a) PROVE Answering'
  BY <1>5, SMTT(30) DEF A!DelAnnouncedIP
<1>6. CASE A!StopReceived
  BY <1>6, SMTT(30) DEF A!StopReceived
<1>7. CASE A!unregisterAllAnnouncers \/ A!Default \/ A!ReadClosed \/ A!Reply \/ \E a \in Addrs : A!ReadRequest(a)
  BY <1>1, <1>7, SMTT(30) DEF A!unregisterAllAnnouncers, A!Default, A!ReadClosed, A!Reply, A!ReadRequest, A!data
<1>8. CASE UNCHANGED A!vars
  BY <1>1, <1>8 DEF A!vars
<1>. QED
  BY <1>2, <1>3, <1>4, <1>5, <1>6, <1>7, <1>8, ZenonT(30) DEF A!Next, A!Goroutine

\* It holds in every state of an announcer.
LEMMA AnnouncerAnswering == A!Spec => []Answering
<1>1. A!Init => Answering
  BY DEF A!Init, Answering, A!AnswersOwnRanges, A!GroupsJoined
<1>. QED
  BY <1>1, AnnouncerStep, PTL DEF A!Spec

\* UnregisterIPRange, AddAnnouncedIP: an interface answers only for addresses of the Eips that
\* are registered with it, through every order of calls and every failure of one.
THEOREM AnnouncerOwnRanges == A!Spec => []A!AnswersOwnRanges
<1>1. Answering => A!AnswersOwnRanges
  BY DEF Answering
<1>. QED
  BY <1>1, AnnouncerAnswering, PTL

\* AddAnnouncedIP, DelAnnouncedIP: an ndpAnnouncer whose addresses are in groups of their own
\* has joined the group of every address it answers for, whichever calls fail.
THEOREM AnnouncerGroups == A!Spec => []A!GroupsJoined
<1>1. Answering => A!GroupsJoined
  BY DEF Answering
<1>. QED
  BY <1>1, AnnouncerAnswering, PTL
===============================================================================
