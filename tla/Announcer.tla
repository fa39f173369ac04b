------------------------------ MODULE Announcer ------------------------------
(***************************************************************************)
(* One network interface of one node: its entry in layer2Speaker's map of  *)
(* announcers, the arpAnnouncer or ndpAnnouncer behind it, and the         *)
(* goroutine that answers requests (pkg/speaker/layer2).  A worker of the  *)
(* manager makes one call after the other; requests arrive at any time.    *)
(***************************************************************************)
EXTENDS Naturals

CONSTANTS Eips, Addrs,
          EipOf,         \* EipOf[a]: the Eip whose range contains a
          Ndp,           \* the announcer is an ndpAnnouncer (else arpAnnouncer)
          Group,         \* Group[a]: multicast group of the solicitations for a
          ClosedIsEOF,   \* reading a closed connection gives io.EOF, not another error
          MaxCalls,      \* bound: number of calls
          MaxFaults      \* bound: number of calls into the kernel that fail

VARIABLES registered,   \* the interface is in announcers
          ipranges,     \* Eips registered with the announcer
          ip2mac,       \* addresses answered
          groups,       \* multicast groups the connection has joined
          conn,         \* "none", "open" or "closed"
          loop,         \* the goroutine: "none", "select", "read" or "reply"
          target,       \* loop = "reply": the addresses getMac has found (one, or none)
          stopping,     \* Stop is about to send on stopCh
          callsLeft, faultsLeft

vars == <<registered, ipranges, ip2mac, groups, conn, loop, target, stopping, callsLeft, faultsLeft>>
data == <<registered, ipranges, ip2mac, groups>>

ContainsIP(a) == registered /\ EipOf[a] \in ipranges

------------------------------------------------------------------------------
(* Calls of the manager.                                                   *)

Call == ~stopping /\ callsLeft > 0 /\ callsLeft' = callsLeft - 1
Fault == faultsLeft > 0 /\ faultsLeft' = faultsLeft - 1
NoFault == UNCHANGED faultsLeft

\* ConfigureWithEIP, not deleted: newAnnouncer may fail.
registerAnnouncer(e) ==
    /\ Call
    /\ \/ /\ NoFault /\ registered' = TRUE /\ ipranges' = ipranges \cup {e}
          /\ IF registered
             THEN UNCHANGED <<ip2mac, groups, conn, loop>>
             ELSE conn' = "open" /\ loop' = "select" /\ UNCHANGED <<ip2mac, groups>>
       \/ /\ Fault /\ ~registered
          /\ UNCHANGED <<registered, ipranges, ip2mac, groups, conn, loop>>
    /\ UNCHANGED <<target, stopping>>

\* Mutant of UnregisterIPRange: the addresses stay.
UnregisterIPRange_KeepsMacs(e) == ipranges' = ipranges \ {e} /\ UNCHANGED ip2mac

UnregisterIPRange(e) ==
    /\ ip2mac' = IF e \in ipranges THEN {a \in ip2mac : EipOf[a] # e} ELSE ip2mac
    /\ ipranges' = ipranges \ {e}

\* ConfigureWithEIP, deleted: without ranges the announcer is stopped.
unregisterAnnouncer(e) ==
    /\ Call /\ NoFault /\ registered
    /\ UnregisterIPRange(e)
    /\ IF ipranges' = {} THEN stopping' = TRUE /\ conn' = "closed"
                         ELSE UNCHANGED <<stopping, conn>>
    /\ UNCHANGED <<registered, groups, loop, target>>

\* Start of layer2Speaker: the process ends, and with it all further calls.
unregisterAllAnnouncers ==
    /\ ~stopping /\ registered /\ stopping' = TRUE /\ conn' = "closed" /\ callsLeft' = 0
    /\ UNCHANGED <<data, loop, target, faultsLeft>>

\* The address is answered before the gratuitous packets are sent, and stays answered
\* when that fails; none are sent for an address that is answered already.
gratuitous(a) ==
    /\ NoFault \/ (Fault /\ a \notin ip2mac)
    /\ ip2mac' = ip2mac \cup {a}

\* Mutant of AddAnnouncedIP: the group is joined only with the gratuitous advertisement
\* of a new address.
AddAnnouncedIP_JoinLast(a) ==
    /\ Call /\ ContainsIP(a)
    /\ \/ NoFault /\ groups' = IF Ndp THEN groups \cup {Group[a]} ELSE groups
       \/ Fault /\ UNCHANGED groups
    /\ ip2mac' = ip2mac \cup {a}
    /\ UNCHANGED <<registered, ipranges, conn, loop, target, stopping>>

\* SetBalancer on the elected node.  An ndpAnnouncer joins first.
AddAnnouncedIP(a) ==
    /\ Call /\ ContainsIP(a)
    /\ \/ gratuitous(a) /\ groups' = IF Ndp THEN groups \cup {Group[a]} ELSE groups
       \/ Fault /\ Ndp /\ UNCHANGED <<ip2mac, groups>>
    /\ UNCHANGED <<registered, ipranges, conn, loop, target, stopping>>

\* DelBalancer: leaving a group that was not joined is an error, and leaves the rest undone.
DelAnnouncedIP(a) ==
    /\ Call /\ ContainsIP(a)
    /\ \/ /\ NoFault /\ (Ndp => Group[a] \in groups)
          /\ ip2mac' = ip2mac \ {a}
          /\ groups' = groups \ {Group[a]}
       \/ /\ Ndp /\ (Fault \/ (NoFault /\ Group[a] \notin groups))
          /\ UNCHANGED <<ip2mac, groups>>
    /\ UNCHANGED <<registered, ipranges, conn, loop, target, stopping>>

------------------------------------------------------------------------------
(* The goroutine of Start.                                                 *)

\* The select finds the sender on stopCh: the goroutine ends, Stop returns, and the
\* entry is deleted with all the announcer knew.
StopReceived ==
    /\ loop = "select" /\ stopping
    /\ loop' = "none" /\ stopping' = FALSE /\ registered' = FALSE
    /\ ipranges' = {} /\ ip2mac' = {} /\ groups' = {}
    /\ UNCHANGED <<conn, target, callsLeft, faultsLeft>>

\* The default of the select.
Default ==
    /\ loop = "select" /\ ~stopping /\ loop' = "read"
    /\ UNCHANGED <<data, conn, target, stopping, callsLeft, faultsLeft>>

\* A request for a arrives at the interface; a solicitation only in a joined group.
ReadRequest(a) ==
    /\ loop = "read" /\ conn = "open" /\ (Ndp => Group[a] \in groups)
    /\ IF a \in ip2mac THEN loop' = "reply" /\ target' = {a}
                       ELSE loop' = "select" /\ UNCHANGED target
    /\ UNCHANGED <<data, conn, stopping, callsLeft, faultsLeft>>

\* Mutant of ReadClosed: any error of the connection ends the goroutine.
ReadClosed_Returns ==
    /\ loop = "read" /\ conn = "closed"
    /\ loop' = "none"
    /\ UNCHANGED <<data, conn, target, stopping, callsLeft, faultsLeft>>

ReadClosed ==
    /\ loop = "read" /\ conn = "closed"
    /\ loop' = IF ClosedIsEOF THEN "none" ELSE "select"
    /\ UNCHANGED <<data, conn, target, stopping, callsLeft, faultsLeft>>

\* The answer is written, or the write fails: nothing depends on it.
Reply ==
    /\ loop = "reply" /\ loop' = "select" /\ target' = {}
    /\ UNCHANGED <<data, conn, stopping, callsLeft, faultsLeft>>

------------------------------------------------------------------------------
Init ==
    /\ registered = FALSE /\ ipranges = {} /\ ip2mac = {} /\ groups = {}
    /\ conn = "none" /\ loop = "none" /\ target = {} /\ stopping = FALSE
    /\ callsLeft = MaxCalls /\ faultsLeft = MaxFaults

Goroutine == StopReceived \/ Default \/ ReadClosed \/ Reply

Next ==
    \/ \E e \in Eips : registerAnnouncer(e) \/ unregisterAnnouncer(e)
    \/ \E a \in Addrs : AddAnnouncedIP(a) \/ DelAnnouncedIP(a) \/ ReadRequest(a)
    \/ unregisterAllAnnouncers
    \/ Goroutine

Spec == Init /\ [][Next]_vars

\* The goroutine is scheduled; requests may never come.
FairSpec == Spec /\ WF_vars(Goroutine)

------------------------------------------------------------------------------
(* Properties.                                                             *)

\* UnregisterIPRange, AddAnnouncedIP: an interface answers only for addresses of
\* registered Eips.
AnswersOwnRanges == registered => \A a \in ip2mac : EipOf[a] \in ipranges

\* AddAnnouncedIP, DelAnnouncedIP: solicitations for every address that is answered
\* reach the announcer.
GroupsJoined ==
    (Ndp /\ registered /\ \A a, b \in Addrs : Group[a] = Group[b] => a = b)
      => \A a \in ip2mac : Group[a] \in groups

\* Stop: the worker that deletes the last Eip of an interface gets on.
StopReturns == stopping ~> ~stopping
===============================================================================
