------------------------------ MODULE Keepalived ------------------------------
(***************************************************************************)
(* The VIP speaker of one node (pkg/speaker/vip/keepalived.go): it groups  *)
(* the addresses by the nodes that serve them into VRRP instances, each    *)
(* with a router id, writes them to a file, and signals a keepalived       *)
(* process, which it starts and restarts, to read the file again.          *)
(*                                                                         *)
(* A call changes the books and writes the file without waiting for        *)
(* anybody; then Reload waits for the pid file.  Callers are the workers   *)
(* of the Eip and of the Service controller, which do not exclude each     *)
(* other; accesses to the unlocked maps are taken as atomic.               *)
(***************************************************************************)
EXTENDS Integers

CONSTANTS Nodes, Me,      \* Me: this node
          Eips, Addrs, PoolOf,  \* PoolOf[a]: the Eip whose range has address a
          Ifaces, Callers, Nil,
          NumIDs, Hash,   \* Hash[ns]: the hash of the names of ns
          MaxCalls,       \* bound: number of calls
          MaxFaults       \* bound: number of failed writes and crashes

Names == (SUBSET Nodes) \X Ifaces

ConstantsOK ==
    /\ Me \in Nodes /\ PoolOf \in [Addrs -> Eips]
    /\ NumIDs \in Nat \ {0} /\ Hash \in [SUBSET Nodes -> Nat]
    /\ Nil \notin Nat \cup Ifaces \cup Addrs /\ \A n \in Names : Nil # n

VARIABLES k,        \* keepAlived: configs, vips, instances (svcips, routeid) and idAlloc
          asked,    \* asked[a]: what a was last set to by a call that has not failed, or Nil
          call,     \* call[c]: the address whose call waits in Reload, or Nil
          cfg,      \* the file
          proc, pidfile, hup, loaded,  \* the process, its pid file, a pending signal, what it has read
          calls, faults

process == <<proc, pidfile, hup, loaded>>
vars == <<k, asked, call, cfg, process, calls, faults>>

P == INSTANCE IdPool WITH Hashes <- {}, ids <- k.ids, got <- 0

\* The process reads the file; one that was cut short by an error (Nil) gives it nothing.
Read == IF cfg = Nil THEN {} ELSE cfg

------------------------------------------------------------------------------
(* The books.  routeid[n] is Nil when there is no instance n; svcips[n][a] *)
(* counts how often a is in its list.                                      *)

New == [configs |-> [e \in Eips |-> Nil], vips |-> [a \in Addrs |-> Nil],
        svcips |-> [n \in Names |-> [a \in Addrs |-> 0]],
        routeid |-> [n \in Names |-> Nil], ids |-> {0}]

\* Mutant of cleanRecord: the id is not given back.
cleanRecord_KeepsId(b, a, n) ==
    IF n = Nil \/ b.routeid[n] = Nil THEN b
    ELSE LET ips == [b.svcips[n] EXCEPT ![a] = IF @ > 0 THEN @ - 1 ELSE 0]
             empty == \A x \in Addrs : ips[x] = 0
         IN [b EXCEPT !.svcips[n] = ips, !.routeid[n] = IF empty THEN Nil ELSE @]

\* Mutant of cleanRecord: the instance goes with all its addresses.
cleanRecord_Whole(b, a, n) ==
    IF n = Nil \/ b.routeid[n] = Nil THEN b
    ELSE [b EXCEPT !.svcips[n] = [x \in Addrs |-> 0], !.routeid[n] = Nil, !.ids = @ \ {b.routeid[n]}]

cleanRecord(b, a, n) ==
    IF n = Nil \/ b.routeid[n] = Nil THEN b
    ELSE LET ips == [b.svcips[n] EXCEPT ![a] = IF @ > 0 THEN @ - 1 ELSE 0]
             empty == \A x \in Addrs : ips[x] = 0
         IN [b EXCEPT !.svcips[n] = ips,
                      !.routeid[n] = IF empty THEN Nil ELSE @,
                      !.ids = IF empty THEN @ \ {b.routeid[n]} ELSE @]

\* The second half of SetBalancer, for an instance that has, or is given, id.
AddRecord(b, a, n, id) ==
    [b EXCEPT !.svcips[n][a] = @ + 1, !.vips[a] = n, !.routeid[n] = id, !.ids = @ \cup {id}]

\* WriteCfg: the addresses of the enabled instances, those this node takes part in.
Rendered(b) ==
    {t \in Names \X P!Ids \X Addrs :
       b.routeid[t[1]] = t[2] /\ Me \in t[1][1] /\ b.svcips[t[1]][t[3]] > 0}

------------------------------------------------------------------------------
(* Calls of the manager.                                                   *)

Called(c) == call[c] = Nil /\ calls < MaxCalls /\ calls' = calls + 1

\* WriteCfg, after the books have changed for a.  An error leaves the file as it
\* was, when it cannot be opened, or cut short.
WriteCfg(c, a, ns) ==
    \/ /\ cfg' = Rendered(k')
       /\ call' = [call EXCEPT ![c] = a]
       /\ asked' = [asked EXCEPT ![a] = ns]
       /\ UNCHANGED faults
    \/ /\ faults < MaxFaults /\ faults' = faults + 1
       /\ cfg' \in {cfg, Nil}
       /\ asked' = [asked EXCEPT ![a] = Nil]
       /\ UNCHANGED call

\* Mutant of SetBalancer: the old record is not cleaned.
SetBalancer_NoClean(c, a, ns) ==
    LET iface == k.configs[PoolOf[a]]
        n == <<ns, iface>>
        id == IF k.routeid[n] # Nil THEN k.routeid[n] ELSE P!FirstFree(k.ids, Hash[ns])
    IN /\ Called(c)
       /\ iface # Nil /\ id # P!Exhausted
       /\ k' = AddRecord(k, a, n, id)
       /\ WriteCfg(c, a, ns)
       /\ UNCHANGED process

\* An address without configured range is refused.  When no id is left, the old
\* record is gone already, while vips still names its instance.
SetBalancer(c, a, ns) ==
    LET iface == k.configs[PoolOf[a]]
        clean == cleanRecord(k, a, k.vips[a])
        n == <<ns, iface>>
        id == IF clean.routeid[n] # Nil THEN clean.routeid[n] ELSE P!FirstFree(clean.ids, Hash[ns])
    IN /\ Called(c)
       /\ \/ iface = Nil /\ UNCHANGED <<k, asked, call, cfg, faults>>
          \/ /\ iface # Nil /\ id = P!Exhausted
             /\ k' = clean
             /\ asked' = [asked EXCEPT ![a] = Nil]
             /\ UNCHANGED <<call, cfg, faults>>
          \/ /\ iface # Nil /\ id # P!Exhausted
             /\ k' = AddRecord(clean, a, n, id)
             /\ WriteCfg(c, a, ns)
       /\ UNCHANGED process

\* Mutant of DelBalancer: the file is not written.
DelBalancer_NoWrite(c, a) ==
    /\ Called(c)
    /\ k' = [cleanRecord(k, a, k.vips[a]) EXCEPT !.vips[a] = Nil]
    /\ asked' = [asked EXCEPT ![a] = {}]
    /\ UNCHANGED <<call, cfg, faults, process>>

\* Without a record, or without its instance, there is nothing to write.
DelBalancer(c, a) ==
    LET n == k.vips[a]
    IN /\ Called(c)
       /\ IF n = Nil \/ k.routeid[n] = Nil
          THEN k' = [k EXCEPT !.vips[a] = Nil] /\ UNCHANGED <<asked, call, cfg, faults>>
          ELSE /\ k' = [cleanRecord(k, a, n) EXCEPT !.vips[a] = Nil]
               /\ WriteCfg(c, a, {})
       /\ UNCHANGED process

\* iface is Nil when the Eip is deleted.  An interface that is not there, or not
\* in the network of the range, changes nothing.
ConfigureWithEIP(c, e, iface) ==
    /\ Called(c)
    /\ k' = [k EXCEPT !.configs[e] = iface]
    /\ UNCHANGED <<asked, call, cfg, process, faults>>

\* Reload: wait for the pid file, then signal.  A process that has not read the
\* file yet will; one that is dead is an error, unless it has not been reaped.
Reload(c) ==
    /\ call[c] # Nil /\ pidfile
    /\ call' = [call EXCEPT ![c] = Nil]
    /\ hup' = (hup \/ proc = "up")
    /\ \/ UNCHANGED asked
       \/ proc = "dead" /\ asked' = [asked EXCEPT ![call[c]] = Nil]
    /\ UNCHANGED <<k, cfg, proc, pidfile, loaded, calls, faults>>

------------------------------------------------------------------------------
(* Start, and the keepalived process.                                      *)

ProcessStep == UNCHANGED <<k, asked, call, calls>>

Start ==
    /\ proc = "new"
    /\ \/ cfg' = Rendered(k) /\ proc' = "booting" /\ UNCHANGED faults
       \/ /\ faults < MaxFaults /\ faults' = faults + 1
          /\ cfg' \in {cfg, Nil} /\ proc' = "stopped"
    /\ UNCHANGED <<pidfile, hup, loaded>> /\ ProcessStep

Boot ==
    /\ proc = "booting"
    /\ proc' = "up" /\ pidfile' = TRUE /\ hup' = FALSE /\ loaded' = Read
    /\ UNCHANGED <<cfg, faults>> /\ ProcessStep

ReadAgain ==
    /\ proc = "up" /\ hup
    /\ hup' = FALSE /\ loaded' = Read
    /\ UNCHANGED <<cfg, proc, pidfile, faults>> /\ ProcessStep

\* The process ends by itself, with or without removing its pid file.
Crash ==
    /\ proc \in {"booting", "up"} /\ faults < MaxFaults /\ faults' = faults + 1
    /\ proc' = "dead" /\ hup' = FALSE /\ loaded' = {} /\ pidfile' \in {pidfile, FALSE}
    /\ UNCHANGED cfg /\ ProcessStep

\* Mutant of Restart: only a process that left its pid file is started again.
Restart_WithPid ==
    /\ proc = "dead" /\ pidfile /\ proc' = "booting"
    /\ UNCHANGED <<cfg, pidfile, hup, loaded, faults>> /\ ProcessStep

Restart ==
    /\ proc = "dead" /\ proc' = "booting"
    /\ UNCHANGED <<cfg, pidfile, hup, loaded, faults>> /\ ProcessStep

\* The stop channel is closed: SIGTERM, on which the process cleans up.
Stop ==
    /\ proc \in {"booting", "up"}
    /\ proc' = "stopped" /\ pidfile' = FALSE /\ hup' = FALSE /\ loaded' = {}
    /\ UNCHANGED <<cfg, faults>> /\ ProcessStep

------------------------------------------------------------------------------
Init ==
    /\ k = New /\ asked = [a \in Addrs |-> {}] /\ call = [c \in Callers |-> Nil]
    /\ cfg = {} /\ proc = "new" /\ pidfile = FALSE /\ hup = FALSE /\ loaded = {}
    /\ calls = 0 /\ faults = 0

CallStep ==
    \E c \in Callers :
      \/ \E a \in Addrs, ns \in (SUBSET Nodes) \ {{}} : SetBalancer(c, a, ns)
      \/ \E a \in Addrs : DelBalancer(c, a)
      \/ \E e \in Eips, iface \in Ifaces \cup {Nil} : ConfigureWithEIP(c, e, iface)

System == (\E c \in Callers : Reload(c)) \/ Start \/ Boot \/ ReadAgain \/ Restart

Next == CallStep \/ System \/ Crash \/ Stop

Spec == Init /\ [][Next]_vars

\* The workers, the goroutine of Start and the process go on; calls, crashes and
\* the end of the process come from outside.
FairSpec == Spec /\ WF_vars(System)

------------------------------------------------------------------------------
(* Properties.                                                             *)

InstanceOf(a) == {n \in Names : k.svcips[n][a] > 0}

\* cleanRecord and SetBalancer: an address is in one VRRP instance at most, once,
\* the one vips names, and there are no instances without addresses, however
\* often addresses move between sets of nodes and interfaces and calls fail.
OneInstance ==
    /\ \A n \in Names, a \in Addrs :
         k.svcips[n][a] \in {0, 1} /\ (k.svcips[n][a] = 1 => k.vips[a] = n)
    /\ \A n \in Names : k.routeid[n] # Nil <=> \E a \in Addrs : k.svcips[n][a] = 1

\* AllocateWithHash and Free: no two instances of the node have the same router
\* id, and the allocator holds the ids of the instances and id 0 and no others,
\* so that ids are never lost.
RouterIds ==
    /\ k.ids = {0} \cup {k.routeid[n] : n \in {m \in Names : k.routeid[m] # Nil}}
    /\ \A m, n \in Names : k.routeid[m] = k.routeid[n] /\ m # n => k.routeid[m] = Nil
    /\ \A n \in Names : k.routeid[n] \in {Nil} \cup (P!Ids \ {0})

\* WriteCfg and Reload: when no call waits and no signal is pending, the process
\* serves an address through the nodes it was last set to, and not when it was
\* withdrawn, although it crashes and restarts and two workers call at the same
\* time.  An address whose last call failed is left out.
ServesAsked ==
    (proc = "up" /\ ~hup /\ cfg # Nil /\ \A c \in Callers : call[c] = Nil) =>
      \A a \in Addrs : asked[a] # Nil =>
        /\ \A t \in loaded : t[3] = a => t[1][1] = asked[a]
        /\ Me \in asked[a] => \E t \in loaded : t[3] = a

\* Reload: a call returns, although the process dies, unless the speaker is stopped.
CallsReturn == \A c \in Callers : call[c] # Nil ~> (call[c] = Nil \/ proc = "stopped")

Abstract == INSTANCE Speaker WITH
    announced <- [a \in Addrs |-> IF InstanceOf(a) = {} THEN {} ELSE k.vips[a][1]],
    waiting <- {c \in Callers : call[c] # Nil}

\* SetBalancer and DelBalancer do what the manager relies on: whatever happens to
\* the process, the file and the ids, a call changes the record of its address only.
IsSpeaker == Abstract!Spec
===============================================================================
