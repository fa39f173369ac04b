-------------------------------- MODULE Ipam ---------------------------------
(***************************************************************************)
(* Address management in openelb-controller: the service reconciler        *)
(* (pkg/controllers/lb/controller.go) and the Eip reconciler               *)
(* (pkg/controllers/ipam/controller.go), each with one worker, next to     *)
(* users who edit Services and Eips.                                       *)
(*                                                                         *)
(* The API server keeps the last version of an object; both workers read   *)
(* from informer caches, which show an older version until the watch       *)
(* delivers the next one.  The window eips[e] (svcs[s]) is the sequence of *)
(* versions from the one the cache shows, its head, to the one the API     *)
(* server holds, its last.  A write carries the resourceVersion of the     *)
(* copy it was computed from and is rejected with a conflict when that     *)
(* copy is not the last version.                                           *)
(***************************************************************************)
EXTENDS EipStatus, Sequences

CONSTANTS Specs,       \* the specs users give Services
          Compatible,  \* <<s, e>>: Service s and pool e are of one address family
          NsEips,      \* pools bound to the namespace of the Services
          Priority,    \* Priority[e] orders the pools bound to a namespace
          Default,     \* the pool annotated as default, or Nil
          UserOps,     \* the kinds of edits users make in this instance
          MaxOps,      \* bound: number of user edits
          MaxFaults,   \* bound: number of crashes and of lost replies
          MaxLag,      \* bound: undelivered versions of an object
          SyncedReads  \* the caches the service reconciler finds up to date when it starts

Addrs == AddrsOf(Eips)

(***************************************************************************)
(* A Service spec: class is "lb" for type LoadBalancer with the OpenELB    *)
(* annotation, "other" when one of the two is missing, "bare" when there   *)
(* are no annotations at all; wantEip and wantIP are the annotations (and  *)
(* spec.loadBalancerIP) that ask for a pool and for an address.  Services  *)
(* with the annotation for NodeProxy, which Reconcile turns over to        *)
(* reconcileNP, are not among them.                                        *)
(***************************************************************************)
Spec0 == [class: {"lb", "other", "bare"}, wantEip: Eips \cup {Nil}, wantIP: Addrs \cup {Nil}]

ASSUME SpecsAssumption == Specs \subseteq Spec0
ASSUME PoolsAssumption == /\ Compatible \subseteq Svcs \X Eips
                          /\ NsEips \subseteq Eips
                          /\ Priority \in [Eips -> Nat]
                          /\ Default \in Eips \cup {Nil}
ASSUME BoundsAssumption == MaxOps \in Nat /\ MaxFaults \in Nat /\ MaxLag \in Nat \ {0}
ASSUME SyncAssumption == SyncedReads \subseteq {"eips", "svcs"}

VARIABLES eips,    \* window of every Eip
          svcs,    \* window of every Service
          lbq,     \* workqueue of the service reconciler
          eipq,    \* workqueue of the Eip reconciler
          lb,      \* worker of the service reconciler
          ew,      \* worker of the Eip reconciler
          held,    \* held[w]: objects of which worker w holds the last version
          ops,     \* user edits so far
          faults   \* crashes and lost replies so far

vars == <<eips, svcs, lbq, eipq, lb, ew, held, ops, faults>>

SvcObj == [exists: BOOLEAN, deleting: BOOLEAN, fin: BOOLEAN, label: Eips \cup {Nil},
           ingress: Addrs \cup {Nil}, spec: Spec0]

NoSpec == [class |-> "bare", wantEip |-> Nil, wantIP |-> Nil]

GoneSvc == [exists |-> FALSE, deleting |-> FALSE, fin |-> FALSE, label |-> Nil,
            ingress |-> Nil, spec |-> NoSpec]

Request == [rel: BOOLEAN, from: Eips \cup {Nil}, alloc: BOOLEAN,
            eip: Eips \cup {Nil}, ip: Addrs \cup {Nil}]

NoRequest == [rel |-> FALSE, from |-> Nil, alloc |-> FALSE, eip |-> Nil, ip |-> Nil]

LbIdle == [pc |-> "idle", svc |-> Nil, old |-> GoneSvc, new |-> GoneSvc,
           req |-> NoRequest, err |-> FALSE]

EwIdle == [pc |-> "idle", eip |-> Nil, obj |-> Nil, todo |-> {}]

Workers == {"lb", "eip"}

------------------------------------------------------------------------------
(* Windows, caches and conflicts.                                          *)

Api(window) == window[Len(window)]

Cached(window) == Head(window)

Fresh(window) == Len(window) = 1

Room(window) == Len(window) <= MaxLag

\* What SyncedReads assumes of the watches when a reconcile of a Service
\* starts; later steps of the reconcile see whatever the caches hold then.
CaughtUp ==
    /\ "eips" \in SyncedReads => \A e \in Eips : Fresh(eips[e])
    /\ "svcs" \in SyncedReads => \A s \in Svcs : Fresh(svcs[s])

\* Store a new version; every copy but the writer's own is now out of date.
PutEip(e, obj, w) ==
    /\ Room(eips[e])
    /\ eips' = [eips EXCEPT ![e] = Append(@, obj)]
    /\ held' = [v \in Workers |-> IF v = w THEN held[v] ELSE held[v] \ {e}]

PutSvc(s, obj, w) ==
    /\ Room(svcs[s])
    /\ LET gone == obj.deleting /\ ~obj.fin   \* the last finalizer is off
       IN /\ svcs' = [svcs EXCEPT ![s] = Append(@, IF gone THEN GoneSvc ELSE obj)]
          /\ held' = [v \in Workers |-> IF v = w /\ ~gone THEN held[v] ELSE held[v] \ {s}]

\* The answer to a write that took place: it may get lost, the caller then
\* sees an error.
Reply(ok) ==
    IF ok THEN UNCHANGED faults ELSE faults < MaxFaults /\ faults' = faults + 1

\* Status().Update of a changed copy of the cached Eip e, by the service
\* reconciler; an unchanged copy is not sent.
EipStatusUpdate(e, new, ok) ==
    \/ new = Cached(eips[e]) /\ ok /\ UNCHANGED <<eips, held, faults>>
    \/ new # Cached(eips[e]) /\ ~Fresh(eips[e]) /\ ~ok /\ UNCHANGED <<eips, held, faults>>
    \/ new # Cached(eips[e]) /\ Fresh(eips[e]) /\ PutEip(e, new, "lb") /\ Reply(ok)

\* Update, or Status().Update, of worker w's copy of Service s.  The API
\* server makes no version of an object that is the same as its last one.
SvcUpdate(s, new, w, ok) ==
    \/ s \notin held[w] /\ ~ok /\ UNCHANGED <<svcs, held, faults>>
    \/ /\ s \in held[w] /\ Reply(ok)
       /\ IF new = Api(svcs[s]) THEN UNCHANGED <<svcs, held>> ELSE PutSvc(s, new, w)

IsOpenELBService(obj) == obj.label # Nil \/ obj.spec.class = "lb"

------------------------------------------------------------------------------
(* ConstructRequest: what to release and what to allocate for a Service,   *)
(* judged by the cached Eips.                                              *)

CachedEip(e) == Cached(eips[e])

Usable(e) == CachedEip(e).exists /\ ~CachedEip(e).deleting /\ ~CachedEip(e).disable

\* The records getAllocatedEIPInfo may return: it stops at the first one, in
\* the order of a map.
getAllocatedEIPInfo(s) ==
    LET recs == {a \in Addrs : LET obj == CachedEip(a[1])
                               IN obj.exists /\ ~obj.deleting /\ s \in obj.used[a[2]]}
    IN IF recs = {} THEN {Nil} ELSE recs

\* nseips after sort.Slice: pools with room come first, then by priority.
Before(d, e) ==
    \/ ~CachedEip(d).occupied /\ CachedEip(e).occupied
    \/ /\ CachedEip(d).occupied = CachedEip(e).occupied
       /\ Priority[d] < Priority[e]

getDefaultEIP ==
    LET nseips == {e \in NsEips : Usable(e)}
    IN IF nseips # {} THEN {e \in nseips : \A d \in nseips : ~Before(d, e)}
       ELSE {e \in Eips : e = Default /\ Usable(e)}

getEIPBasedOnIP(ip) == {e \in Eips : e = ip[1] /\ Usable(e)}

\* The pools getEIP may choose; none when it returns an error.
getEIP(ip) == IF ip # Nil THEN getEIPBasedOnIP(ip) ELSE getDefaultEIP

\* Mutant of needRelease: only a deletion counts.
needRelease_OnlyDeleted(obj) == obj.deleting

needRelease(obj) == obj.deleting \/ obj.spec.class # "lb"

\* rec is the record found, or Nil.
constructRelease(obj, rec) ==
    [NoRequest EXCEPT !.rel = rec # Nil \/ obj.ingress # Nil,
                      !.from = IF rec = Nil THEN Nil ELSE rec[1]]

\* Mutant of needUpdate: only a Service that asked for its address is settled.
needUpdate_Restless(obj, rec, eip) ==
    ~(rec # Nil /\ eip = rec[1] /\ obj.spec.wantIP = rec /\ obj.ingress # Nil)

\* With a pool chosen, info.svcSpecifyEIP is never empty.
needUpdate(obj, rec, eip) ==
    ~ /\ rec # Nil /\ eip = rec[1]
      /\ \/ obj.spec.wantIP = rec /\ obj.ingress # Nil
         \/ obj.spec.wantIP = Nil /\ obj.ingress = rec

ConstructRequest(s, obj) ==
    IF obj.spec.class = "bare" THEN {NoRequest}
    ELSE UNION {
      LET release == constructRelease(obj, rec)
          chosen == IF obj.spec.wantEip # Nil THEN {obj.spec.wantEip} ELSE getEIP(obj.spec.wantIP)
      IN IF needRelease(obj) \/ chosen = {} THEN {release}
         ELSE {IF ~needUpdate(obj, rec, e) /\ obj.label # Nil THEN NoRequest
               ELSE [release EXCEPT !.alloc = TRUE, !.eip = e, !.ip = obj.spec.wantIP] : e \in chosen}
      : rec \in getAllocatedEIPInfo(s)}

------------------------------------------------------------------------------
(* The service reconciler.  A reconcile is cut where other processes can   *)
(* step in between: after ConstructRequest, ReleaseIP, AssignIP, the       *)
(* update of the Service and the update of its status.                     *)

\* Mutant of LbDone: an error is not reported to the workqueue.
LbDone_NoRetry(failed) == lb' = LbIdle /\ UNCHANGED lbq

\* The worker is done with its Service; an error puts the key back.
LbDone(failed) ==
    /\ lb' = LbIdle
    /\ lbq' = IF failed THEN lbq \cup {lb.svc} ELSE lbq

Reconcile(s) ==
    /\ lb.pc = "idle" /\ s \in lbq /\ CaughtUp
    /\ lbq' = lbq \ {s}
    /\ \E req \in ConstructRequest(s, Cached(svcs[s])) :
         IF ~Cached(svcs[s]).exists \/ (~req.rel /\ ~req.alloc)
         THEN UNCHANGED <<lb, held>>
         ELSE /\ lb' = [pc |-> IF req.rel THEN "release" ELSE "assign", svc |-> s, req |-> req,
                        old |-> Cached(svcs[s]), new |-> Cached(svcs[s]), err |-> FALSE]
              /\ held' = [held EXCEPT !["lb"] = IF Fresh(svcs[s]) THEN {s} ELSE {}]
    /\ UNCHANGED <<eips, svcs, eipq, ew, ops, faults>>

\* An error of ReleaseIP ends the reconcile before anything else is written.
ReleaseIP ==
    /\ lb.pc = "release"
    /\ \E ok \in BOOLEAN :
         /\ IF lb.req.from # Nil /\ CachedEip(lb.req.from).exists
            THEN EipStatusUpdate(lb.req.from,
                                 releaseIPFromEip(lb.req.from, CachedEip(lb.req.from), lb.svc), ok)
            ELSE ok /\ UNCHANGED <<eips, held, faults>>
         /\ IF ok
            THEN /\ lb' = [lb EXCEPT !.pc = IF lb.req.alloc THEN "assign" ELSE "update",
                                     !.new = [@ EXCEPT !.fin = FALSE, !.label = Nil, !.ingress = Nil]]
                 /\ UNCHANGED lbq
            ELSE LbDone(TRUE)
    /\ UNCHANGED <<svcs, eipq, ew, ops>>

\* An error of AssignIP is reported only after the result of the release has
\* been written to the Service.
AssignIP ==
    /\ lb.pc = "assign"
    /\ LET e == lb.req.eip
           out == assignIPFromEip(e, CachedEip(e), lb.req.ip, lb.svc)
       IN \E ok \in BOOLEAN :
            /\ IF CachedEip(e).exists /\ <<lb.svc, e>> \in Compatible /\ out.at # Nil
               THEN EipStatusUpdate(e, out.obj, ok)
               ELSE ~ok /\ UNCHANGED <<eips, held, faults>>
            /\ lb' = [lb EXCEPT
                        !.pc = "update", !.err = ~ok,
                        !.new = IF ok THEN [@ EXCEPT !.fin = TRUE, !.label = e, !.ingress = out.at]
                                ELSE @]
    /\ UNCHANGED <<svcs, lbq, eipq, ew, ops>>

\* updateReconcileResult, first part: Update, only when the labels differ.
UpdateService ==
    /\ lb.pc = "update"
    /\ IF lb.old.label = lb.new.label
       THEN lb' = [lb EXCEPT !.pc = "status"] /\ UNCHANGED <<svcs, held, faults, lbq>>
       ELSE \E ok \in BOOLEAN :
              /\ SvcUpdate(lb.svc, [lb.new EXCEPT !.ingress = lb.old.ingress], "lb", ok)
              /\ IF ok THEN lb' = [lb EXCEPT !.pc = "status"] /\ UNCHANGED lbq
                 ELSE LbDone(TRUE)
    /\ UNCHANGED <<eips, eipq, ew, ops>>

\* updateReconcileResult, second part: Status().Update, only when the statuses
\* are not deeply equal: the empty Ingress that a release leaves never equals
\* the nil one of the copy.  The API server takes the metadata of a core
\* Service along.
UpdateServiceStatus ==
    /\ lb.pc = "status"
    /\ IF lb.old.ingress = lb.new.ingress /\ ~(lb.req.rel /\ lb.new.ingress = Nil)
       THEN LbDone(lb.err) /\ UNCHANGED <<svcs, held, faults>>
       ELSE \E ok \in BOOLEAN :
              SvcUpdate(lb.svc, lb.new, "lb", ok) /\ LbDone(lb.err \/ ~ok)
    /\ UNCHANGED <<eips, eipq, ew, ops>>

------------------------------------------------------------------------------
(* The Eip reconciler.  Its own copy of the Eip is held across the writes  *)
(* to the Services that removeEip makes.                                   *)

EwDone(failed) ==
    /\ ew' = EwIdle
    /\ eipq' = IF failed THEN eipq \cup {ew.eip} ELSE eipq

\* Mutant of Labelled: removeEip finds no Services.
Labelled_None(e) == {}

\* The Services removeEip lists.
Labelled(e) == {s \in Svcs : Cached(svcs[s]).exists /\ Cached(svcs[s]).label = e}

ReconcileEip(e) ==
    /\ ew.pc = "idle" /\ e \in eipq
    /\ eipq' = eipq \ {e}
    /\ LET obj == CachedEip(e)
           removing == obj.deleting /\ obj.fin
           todo == IF removing THEN Labelled(e) ELSE {}
       IN IF ~obj.exists THEN UNCHANGED <<ew, held>>
          ELSE /\ ew' = [pc |-> IF removing THEN "remove" ELSE IF ~obj.fin THEN "finalizer" ELSE "sync",
                         eip |-> e, obj |-> obj, todo |-> todo]
               /\ held' = [held EXCEPT !["eip"] = {s \in todo : Fresh(svcs[s])} \cup
                                                 (IF Fresh(eips[e]) THEN {e} ELSE {})]
    /\ UNCHANGED <<eips, svcs, lbq, lb, ops, faults>>

\* Mutant of EwUpdate: the update carries no resourceVersion.
EwUpdate_Blind(new, ok) == PutEip(ew.eip, new, "eip") /\ Reply(ok)

\* Update, or Status().Update, of the worker's copy of its Eip.
EwUpdate(new, ok) ==
    \/ ew.eip \notin held["eip"] /\ ~ok /\ UNCHANGED <<eips, held, faults>>
    \/ /\ ew.eip \in held["eip"] /\ Reply(ok)
       /\ IF new = Api(eips[ew.eip]) THEN UNCHANGED <<eips, held>> ELSE PutEip(ew.eip, new, "eip")

\* removeEip: take the label off one more Service.
RemoveLabel(s) ==
    /\ ew.pc = "remove" /\ s \in ew.todo
    /\ \E ok \in BOOLEAN :
         /\ SvcUpdate(s, [Api(svcs[s]) EXCEPT !.label = Nil], "eip", ok)
         /\ IF ok THEN ew' = [ew EXCEPT !.todo = @ \ {s}] /\ UNCHANGED eipq
            ELSE EwDone(TRUE)
    /\ UNCHANGED <<eips, lbq, lb, ops>>

\* The Eip goes away with its only finalizer.
RemoveFinalizer ==
    /\ ew.pc = "remove" /\ ew.todo = {}
    /\ \E ok \in BOOLEAN : EwUpdate(GoneEip(ew.eip), ok) /\ EwDone(~ok)
    /\ UNCHANGED <<svcs, lbq, lb, ops>>

AddFinalizer ==
    /\ ew.pc = "finalizer"
    /\ LET obj == [ew.obj EXCEPT !.fin = TRUE]
       IN \E ok \in BOOLEAN :
            /\ EwUpdate(obj, ok)
            /\ IF ok THEN ew' = [ew EXCEPT !.pc = "sync", !.obj = obj] /\ UNCHANGED eipq
               ELSE EwDone(TRUE)
    /\ UNCHANGED <<svcs, lbq, lb, ops>>

\* Status().Update, unless the statuses are deeply equal: the empty Used that
\* syncEip makes never equals the nil one of the copy.
SyncStatus ==
    /\ ew.pc = "sync"
    /\ LET new == updateEip(ew.eip, ew.obj, {s \in Svcs : Cached(svcs[s]).exists})
       IN IF new = ew.obj /\ Taken(new.used) # {}
          THEN EwDone(FALSE) /\ UNCHANGED <<eips, held, faults>>
          ELSE \E ok \in BOOLEAN : EwUpdate(new, ok) /\ EwDone(~ok)
    /\ UNCHANGED <<svcs, lbq, lb, ops>>

------------------------------------------------------------------------------
(* The watches.  Delivering a version moves the cache on, and the event    *)
(* filters of the two controllers decide which keys it queues.             *)

OpenELBServices == {s \in Svcs : Cached(svcs[s]).exists /\ IsOpenELBService(Cached(svcs[s]))}

DeliverEip(e) ==
    /\ ~Fresh(eips[e])
    /\ eips' = [eips EXCEPT ![e] = Tail(@)]
    /\ LET old == eips[e][1]
           new == eips[e][2]
           updated == old.exists /\ new.exists
       IN /\ eipq' = IF updated => old.deleting # new.deleting \/ old.disable # new.disable
                     THEN eipq \cup {e} ELSE eipq
          /\ lbq' = IF updated /\ ~old.ready /\ new.ready THEN lbq \cup OpenELBServices ELSE lbq
    /\ UNCHANGED <<svcs, lb, ew, held, ops, faults>>

DeliverSvc(s) ==
    /\ ~Fresh(svcs[s])
    /\ svcs' = [svcs EXCEPT ![s] = Tail(@)]
    /\ LET seen == IF svcs[s][2].exists THEN svcs[s][2] ELSE svcs[s][1]
       IN lbq' = IF IsOpenELBService(seen) THEN lbq \cup {s} ELSE lbq
    /\ UNCHANGED <<eips, eipq, lb, ew, held, ops, faults>>

------------------------------------------------------------------------------
(* Users and other controllers, and the crash of the controller process.   *)

UserOp(kind) == kind \in UserOps /\ ops < MaxOps /\ ops' = ops + 1

CreateSvc(s) ==
    /\ UserOp("createSvc") /\ ~Api(svcs[s]).exists
    /\ \E spec \in Specs : PutSvc(s, [GoneSvc EXCEPT !.exists = TRUE, !.spec = spec], "user")
    /\ UNCHANGED <<eips, lbq, eipq, lb, ew, faults>>

\* An edit that leaves the spec as it is stands for one of a field that
\* OpenELB does not read: it still moves the resourceVersion.
EditSvc(s) ==
    /\ UserOp("editSvc") /\ Api(svcs[s]).exists
    /\ \E spec \in Specs : PutSvc(s, [Api(svcs[s]) EXCEPT !.spec = spec], "user")
    /\ UNCHANGED <<eips, lbq, eipq, lb, ew, faults>>

DeleteSvc(s) ==
    /\ UserOp("deleteSvc") /\ Api(svcs[s]).exists /\ ~Api(svcs[s]).deleting
    /\ PutSvc(s, [Api(svcs[s]) EXCEPT !.deleting = TRUE], "user")
    /\ UNCHANGED <<eips, lbq, eipq, lb, ew, faults>>

CreateEip(e) ==
    /\ UserOp("createEip") /\ ~Api(eips[e]).exists
    /\ PutEip(e, NewEip(e), "user")
    /\ UNCHANGED <<svcs, lbq, eipq, lb, ew, faults>>

ToggleEip(e) ==
    /\ UserOp("toggleEip") /\ Api(eips[e]).exists
    /\ PutEip(e, [Api(eips[e]) EXCEPT !.disable = ~@], "user")
    /\ UNCHANGED <<svcs, lbq, eipq, lb, ew, faults>>

DeleteEip(e) ==
    /\ UserOp("deleteEip") /\ Api(eips[e]).exists /\ ~Api(eips[e]).deleting
    /\ PutEip(e, IF Api(eips[e]).fin THEN [Api(eips[e]) EXCEPT !.deleting = TRUE] ELSE GoneEip(e), "user")
    /\ UNCHANGED <<svcs, lbq, eipq, lb, ew, faults>>

\* A Node gets ready, stops being ready or changes its addresses: the event
\* handler queues every Service it finds.
NodeChange ==
    /\ UserOp("nodeChange")
    /\ lbq' = lbq \cup OpenELBServices
    /\ UNCHANGED <<eips, svcs, eipq, lb, ew, held, faults>>

\* The next process lists everything before it starts: its caches are up to
\* date and every object it cares about is queued.
Crash ==
    /\ faults < MaxFaults /\ faults' = faults + 1
    /\ eips' = [e \in Eips |-> <<Api(eips[e])>>]
    /\ svcs' = [s \in Svcs |-> <<Api(svcs[s])>>]
    /\ lb' = LbIdle /\ ew' = EwIdle
    /\ held' = [w \in Workers |-> {}]
    /\ lbq' = {s \in Svcs : Api(svcs[s]).exists /\ IsOpenELBService(Api(svcs[s]))}
    /\ eipq' = {e \in Eips : Api(eips[e]).exists}
    /\ UNCHANGED ops

------------------------------------------------------------------------------

\* The controller starts with the Eips created and no Service yet.
Init ==
    /\ eips = [e \in Eips |-> <<NewEip(e)>>]
    /\ svcs = [s \in Svcs |-> <<GoneSvc>>]
    /\ lbq = {} /\ eipq = Eips
    /\ lb = LbIdle /\ ew = EwIdle
    /\ held = [w \in Workers |-> {}]
    /\ ops = 0 /\ faults = 0

LbWorker == (\E s \in Svcs : Reconcile(s)) \/ ReleaseIP \/ AssignIP \/ UpdateService \/ UpdateServiceStatus

EipWorker == \/ \E e \in Eips : ReconcileEip(e)
             \/ \E s \in Svcs : RemoveLabel(s)
             \/ RemoveFinalizer \/ AddFinalizer \/ SyncStatus

Watches == (\E e \in Eips : DeliverEip(e)) \/ (\E s \in Svcs : DeliverSvc(s))

Users == \/ NodeChange
         \/ \E s \in Svcs : CreateSvc(s) \/ EditSvc(s) \/ DeleteSvc(s)
         \/ \E e \in Eips : CreateEip(e) \/ ToggleEip(e) \/ DeleteEip(e)

Next == LbWorker \/ EipWorker \/ Watches \/ Users \/ Crash

Spec == Init /\ [][Next]_vars

(***************************************************************************)
(* A workqueue hands out its keys in turn, and a failed key comes back     *)
(* after a bounded delay: a key that keeps being queued is picked again.   *)
(* A worker that has started goes on, and a watch delivers.  Users and     *)
(* crashes have no fairness.                                               *)
(***************************************************************************)
Fairness ==
    /\ \A s \in Svcs : SF_vars(Reconcile(s)) /\ WF_vars(DeliverSvc(s))
    /\ \A e \in Eips : SF_vars(ReconcileEip(e)) /\ WF_vars(DeliverEip(e))
    /\ WF_vars(ReleaseIP \/ AssignIP \/ UpdateService \/ UpdateServiceStatus)
    /\ WF_vars((\E s \in Svcs : RemoveLabel(s)) \/ RemoveFinalizer \/ AddFinalizer \/ SyncStatus)

FairSpec == Spec /\ Fairness

------------------------------------------------------------------------------
(* Properties.                                                             *)

LbState == [pc: {"idle", "release", "assign", "update", "status"}, svc: Svcs \cup {Nil},
            old: SvcObj, new: SvcObj, req: Request, err: BOOLEAN]

EwState == [pc: {"idle", "remove", "finalizer", "sync"}, eip: Eips \cup {Nil},
            obj: {Nil} \cup UNION {EipObj(e) : e \in Eips}, todo: SUBSET Svcs]

\* The state is well-formed: windows are never empty and hold objects of the
\* right shape, and a busy worker knows what it works on.
TypeOK ==
    /\ DOMAIN eips = Eips
    /\ \A e \in Eips : eips[e] \in Seq(EipObj(e)) /\ eips[e] # <<>>
    /\ svcs \in [Svcs -> Seq(SvcObj)]
    /\ \A s \in Svcs : svcs[s] # <<>>
    /\ lbq \in SUBSET Svcs /\ eipq \in SUBSET Eips
    /\ lb \in LbState
    /\ lb.pc # "idle" => lb.svc \in Svcs
    /\ lb.pc = "assign" => lb.req.alloc
    /\ lb.req.alloc => lb.req.eip \in Eips
    /\ ew \in EwState
    /\ ew.pc # "idle" => ew.eip \in Eips /\ ew.obj \in EipObj(ew.eip)
    /\ held \in [Workers -> SUBSET (Eips \cup Svcs)]
    /\ ops \in 0 .. MaxOps /\ faults \in 0 .. MaxFaults

\* The bookkeeping of every version of every Eip is right, whichever worker
\* wrote it and whatever it had read: Usage is the number of addresses in use
\* and Occupied says that none is left.
StatusTellsUse ==
    \A e \in Eips : \A k \in 1 .. Len(eips[e]) : StatusOK(e, eips[e][k])

\* A record disappears in this step only when ReleaseIP runs for its Service,
\* when syncEip does not find the Service, or together with the Eip.
RecordKept ==
    \A a \in Addrs : \A s \in Api(eips[a[1]]).used[a[2]] :
      \/ s \in Api(eips'[a[1]]).used[a[2]]
      \/ lb.pc = "release" /\ lb.svc = s
      \/ ew.pc = "sync" /\ ~Cached(svcs[s]).exists
      \/ ~Api(eips'[a[1]]).exists

\* An address in use gets another user in this step only when AssignIP was
\* asked for this very address.
SharedOnRequest ==
    \A a \in Addrs :
      LET before == Api(eips[a[1]]).used[a[2]]
          after == Api(eips'[a[1]]).used[a[2]]
      IN before # {} /\ ~(after \subseteq before) => lb.pc = "assign" /\ lb.req.ip = a

\* No update is lost: two workers and users write an Eip from copies that may
\* be out of date, and no record is overwritten by any of them.
RecordsKept == [][RecordKept]_vars

\* Automatic allocation, which looks at a cached Eip, never hands out an address
\* that somebody has taken meanwhile.
AutomaticIsExclusive == [][SharedOnRequest]_vars

\* Nothing is left to do: the queues are empty, the workers idle, the caches
\* up to date.
Quiet == /\ lbq = {} /\ eipq = {} /\ lb.pc = "idle" /\ ew.pc = "idle"
         /\ \A e \in Eips : Fresh(eips[e])
         /\ \A s \in Svcs : Fresh(svcs[s])

Holders(a) == Api(eips[a[1]]).used[a[2]]

\* Once everything has been processed, the address a Service shows is recorded
\* for it in the pool the address belongs to: nobody else is given it.
IngressRecorded ==
    Quiet => \A s \in Svcs : LET svc == Api(svcs[s])
                             IN svc.ingress # Nil => s \in Holders(svc.ingress)

\* Once everything has been processed, a Service that exists holds no address
\* but the one it shows: nothing has leaked.
RecordIsIngress ==
    Quiet => \A a \in Addrs : \A s \in Holders(a) :
               Api(svcs[s]).exists => Api(svcs[s]).ingress = a

Asking(s, e) ==
    LET svc == Api(svcs[s])
    IN svc.exists /\ ~svc.deleting /\ svc.spec.class = "lb" /\ svc.spec.wantEip = e /\ svc.spec.wantIP = Nil

\* Once everything has been processed, no Service that names an existing pool
\* has been forgotten without an address of it.
NobodyForgotten ==
    Quiet => \A s \in Svcs : \A e \in Eips :
               Asking(s, e) /\ Api(eips[e]).exists =>
                 Api(svcs[s]).ingress # Nil /\ Api(svcs[s]).ingress[1] = e

\* Once everything has been processed, a Service that is not, or no longer, one
\* for OpenELB shows no address and holds none.
LetGo ==
    Quiet => \A s \in Svcs :
               Api(svcs[s]).exists /\ Api(svcs[s]).spec.class # "lb" =>
                 Api(svcs[s]).ingress = Nil /\ \A a \in Addrs : s \notin Holders(a)

\* Once everything has been processed, no deleted Service is left waiting for
\* its finalizer to be taken off.
DeletedLeave == Quiet => \A s \in Svcs : ~Api(svcs[s]).deleting

\* In the end nothing moves any more: the reconcilers do not keep each other,
\* or themselves, busy.
Settles == <>[][FALSE]_<<eips, svcs>>

\* In the end every Service that names an enabled pool with room for all of
\* them has an address of that pool, whatever users did before and whenever
\* the controller crashed.
EventuallyServed ==
    \A s \in Svcs : \A e \in Eips :
      <>[](Asking(s, e) /\ Api(eips[e]).exists /\ ~Api(eips[e]).deleting /\ ~Api(eips[e]).disable
           => Api(svcs[s]).ingress \in {e} \X Offsets(e))
==============================================================================
