------------------------------ MODULE NodeProxy ------------------------------
(***************************************************************************)
(* OpenELB NodeProxy (pkg/controllers/lb/nodeproxy.go): a Service that     *)
(* asks for it is exposed by proxy pods of a Deployment or a DaemonSet,    *)
(* which the service controller creates, replaces and deletes, and the     *)
(* addresses of whose nodes it writes to annotations of the Service.       *)
(*                                                                         *)
(* One Service, one worker.  The cache of Services and that of workloads   *)
(* follow the API server one independently of the other.                   *)
(***************************************************************************)
EXTENDS Naturals

CONSTANTS Nodes, Ext, Int,  \* Ext, Int: nodes whose host address is an external, an internal one
          Ops,         \* the kinds of changes: create, delete, retype, remove, pods
          MaxOps,      \* bound: number of changes
          MaxFaults    \* bound: number of failed writes and crashes

Kinds == {"deployment", "daemonset"}
Types == Kinds \cup {"other"}       \* values of the annotation

VARIABLES svc,        \* the Service
          wl,         \* the kinds of workloads of its name that exist
          pods,       \* nodes with a running pod of theirs
          labelled,   \* nodes that are labelled as having an external address
          cSvc, cWl, cPods,   \* the caches
          news,       \* the watches of workloads have events to deliver
          queued,     \* the Service is in the queue
          work,       \* the reconcile: where it is, and its copy of the Service
          ops, faults

cluster == <<svc, wl, pods, labelled>>
caches == <<cSvc, cWl, cPods>>
vars == <<cluster, caches, news, queued, work, ops, faults>>

NoSvc == [there |-> FALSE, type |-> "other", deleting |-> FALSE, fin |-> FALSE, ext |-> {}, int |-> {}, ver |-> 0]
Idle == [at |-> "idle", obj |-> NoSvc]

------------------------------------------------------------------------------
(* Events.                                                                 *)

SyncSvc ==
    /\ cSvc # svc /\ cSvc' = svc /\ queued' = (queued \/ svc.there)
    /\ UNCHANGED <<cluster, cWl, cPods, news, work, ops, faults>>

\* Mutant of shouldReconcileDeDs: no event of a workload counts.
shouldReconcileDeDs_Never == FALSE

\* The workload's Service is found in the cache.
shouldReconcileDeDs == cSvc.there

SyncWl ==
    /\ news /\ news' = FALSE /\ cWl' = wl /\ cPods' = pods
    /\ queued' = (queued \/ shouldReconcileDeDs)
    /\ UNCHANGED <<cluster, cSvc, work, ops, faults>>

------------------------------------------------------------------------------
(* The reconcile, from write to write.                                     *)

Step(at, obj) == work' = [at |-> at, obj |-> obj] /\ UNCHANGED queued
Finish == work' = Idle /\ UNCHANGED queued
Fail == work' = Idle /\ queued' = TRUE

Reconcile ==
    /\ work = Idle /\ queued /\ queued' = FALSE
    /\ work' = IF ~cSvc.there THEN Idle
               ELSE [at |-> IF cSvc.deleting THEN "delete" ELSE "finalizer", obj |-> cSvc]
    /\ UNCHANGED <<cluster, caches, ops, faults>>

AddFinalizer ==
    /\ work.at = "finalizer"
    /\ LET new == [work.obj EXCEPT !.fin = TRUE] IN
       \/ work.obj.fin /\ Step("label", work.obj) /\ UNCHANGED svc
       \/ ~work.obj.fin /\ work.obj = svc /\ svc' = new /\ Step("label", new)
       \/ ~work.obj.fin /\ work.obj # svc /\ Fail /\ UNCHANGED svc
    /\ UNCHANGED <<wl, pods, labelled, caches, ops, faults>>

\* An unknown type of workload ends the reconcile after the nodes are labelled.
LabelNodes ==
    /\ work.at = "label" /\ labelled' = labelled \cup Ext
    /\ IF work.obj.type \in Kinds THEN Step("other", work.obj) ELSE Finish
    /\ UNCHANGED <<svc, wl, pods, caches, ops, faults>>

Other(k) == CHOOSE o \in Kinds : o # k

\* Mutant of DeleteOther: the workload of the other kind is left alone.
DeleteOther_Not ==
    /\ work.at = "other" /\ Step("own", work.obj)
    /\ UNCHANGED <<cluster, caches, ops, faults>>

\* The cache knows a workload of the other kind: it is deleted, unless it is gone already.
DeleteOther ==
    /\ work.at = "other"
    /\ LET o == Other(work.obj.type) IN
       \/ o \notin cWl /\ Step("own", work.obj) /\ UNCHANGED wl
       \/ o \in cWl \cap wl /\ wl' = wl \ {o} /\ Step("own", work.obj)
       \/ o \in cWl \ wl /\ Fail /\ UNCHANGED wl
    /\ UNCHANGED <<svc, pods, labelled, caches, ops, faults>>

\* The workload is created, or updated; with running pods the annotations are next.
CreateOrUpdate ==
    /\ work.at = "own"
    /\ LET k == work.obj.type IN
       \/ k \notin cWl /\ k \notin wl /\ wl' = wl \cup {k} /\ Finish
       \/ k \in cWl /\ k \in wl /\ UNCHANGED wl
            /\ IF cPods = {} THEN Finish ELSE Step("annotate", work.obj)
       \/ (k \in cWl <=> k \notin wl) /\ Fail /\ UNCHANGED wl
    /\ UNCHANGED <<svc, pods, labelled, caches, ops, faults>>

\* Mutant of Annotate: an annotation without addresses is left as it was.
Annotate_Keeps ==
    /\ work.at = "annotate"
    /\ LET new == [work.obj EXCEPT !.ext = IF cPods \cap Ext = {} THEN @ ELSE cPods \cap Ext,
                                   !.int = IF cPods \cap Int = {} THEN @ ELSE cPods \cap Int]
       IN IF work.obj = svc THEN svc' = new /\ Finish ELSE Fail /\ UNCHANGED svc
    /\ UNCHANGED <<wl, pods, labelled, caches, ops, faults>>

Annotate ==
    /\ work.at = "annotate"
    /\ IF work.obj = svc THEN svc' = [svc EXCEPT !.ext = cPods \cap Ext, !.int = cPods \cap Int] /\ Finish
                         ELSE Fail /\ UNCHANGED svc
    /\ UNCHANGED <<wl, pods, labelled, caches, ops, faults>>

\* Mutant of reconcileNPDelete: the finalizer is taken off first.
reconcileNPDelete_FinalizerFirst ==
    /\ work.at = "delete"
    /\ IF work.obj.fin /\ work.obj = svc
       THEN svc' = NoSvc /\ Finish
       ELSE Fail /\ UNCHANGED svc
    /\ UNCHANGED <<wl, pods, labelled, caches, ops, faults>>

\* A workload that the cache does not have ends the deletion, and the finalizer stays.
reconcileNPDelete ==
    /\ work.at = "delete"
    /\ LET k == work.obj.type IN
       \/ (~work.obj.fin \/ k \notin cWl) /\ Finish /\ UNCHANGED wl
       \/ work.obj.fin /\ k \in cWl \cap wl /\ wl' = wl \ {k} /\ Step("release", work.obj)
       \/ work.obj.fin /\ k \in cWl \ wl /\ Fail /\ UNCHANGED wl
    /\ UNCHANGED <<svc, pods, labelled, caches, ops, faults>>

RemoveFinalizer ==
    /\ work.at = "release"
    /\ IF work.obj = svc THEN svc' = NoSvc /\ Finish ELSE Fail /\ UNCHANGED svc
    /\ UNCHANGED <<wl, pods, labelled, caches, ops, faults>>

\* A write fails for another reason.
WriteFails ==
    /\ work # Idle /\ faults < MaxFaults /\ faults' = faults + 1 /\ Fail
    /\ UNCHANGED <<cluster, caches, news, ops>>

\* The controller ends and starts anew: it lists everything.
Crash ==
    /\ faults < MaxFaults /\ faults' = faults + 1
    /\ cSvc' = svc /\ cWl' = wl /\ cPods' = pods /\ news' = FALSE /\ queued' = svc.there /\ work' = Idle
    /\ UNCHANGED <<cluster, ops>>

------------------------------------------------------------------------------
(* Users, and Kubernetes.                                                  *)

Op(kind) == kind \in Ops /\ ops < MaxOps /\ ops' = ops + 1

Create(t) ==
    /\ Op("create") /\ ~svc.there
    /\ svc' = [NoSvc EXCEPT !.there = TRUE, !.type = t, !.ver = ops + 1]
    /\ UNCHANGED <<wl, pods, labelled, caches, queued, work, faults>>

Retype(t) ==
    /\ Op("retype") /\ svc.there /\ ~svc.deleting /\ t # svc.type
    /\ svc' = [svc EXCEPT !.type = t, !.ver = ops + 1]
    /\ UNCHANGED <<wl, pods, labelled, caches, queued, work, faults>>

Delete ==
    /\ Op("delete") /\ svc.there /\ ~svc.deleting
    /\ svc' = IF svc.fin THEN [svc EXCEPT !.deleting = TRUE, !.ver = ops + 1] ELSE NoSvc
    /\ UNCHANGED <<wl, pods, labelled, caches, queued, work, faults>>

\* Someone deletes a workload.
Remove(k) ==
    /\ Op("remove") /\ k \in wl /\ wl' = wl \ {k}
    /\ UNCHANGED <<svc, pods, labelled, caches, queued, work, faults>>

\* Pods start and end.
Pods(ns) ==
    /\ Op("pods") /\ ns # pods /\ (wl = {} => ns \subseteq pods) /\ pods' = ns
    /\ UNCHANGED <<svc, wl, labelled, caches, queued, work, faults>>

------------------------------------------------------------------------------
Init ==
    /\ svc = NoSvc /\ wl = {} /\ pods = {} /\ labelled = {}
    /\ cSvc = NoSvc /\ cWl = {} /\ cPods = {}
    /\ news = FALSE /\ queued = FALSE /\ work = Idle /\ ops = 0 /\ faults = 0

\* Every change of a workload, its pods' included, makes an event.
Notify == news' = (news \/ wl' # wl \/ pods' # pods)

Worker ==
    /\ \/ Reconcile \/ AddFinalizer \/ LabelNodes \/ DeleteOther \/ CreateOrUpdate \/ Annotate
       \/ reconcileNPDelete \/ RemoveFinalizer
    /\ Notify

World ==
    /\ \/ \E t \in Types : Create(t) \/ Retype(t)
       \/ Delete \/ (\E k \in Kinds : Remove(k)) \/ \E ns \in SUBSET Nodes : Pods(ns)
    /\ Notify

Next == Worker \/ World \/ SyncSvc \/ SyncWl \/ WriteFails \/ Crash

Spec == Init /\ [][Next]_vars

\* The controller goes on, and so does each of its watches: a reconcile that fails because
\* of an old copy is tried again and again until the watch delivers the new one.
FairSpec == Spec /\ WF_vars(Worker) /\ WF_vars(SyncSvc) /\ WF_vars(SyncWl)

------------------------------------------------------------------------------
(* Properties.                                                             *)

AtRest == caches = <<svc, wl, pods>> /\ ~news /\ ~queued /\ work = Idle
Exposed == svc.there /\ ~svc.deleting /\ svc.type \in Kinds

\* reconcileNPNormal: when all is done, the Service has the workload it asks for and not
\* the other one, whatever was retyped, removed, refused or cut off by a crash before.
OneKind == (AtRest /\ Exposed) => wl = {svc.type}

\* reconcileNPNormal: when all is done and pods run, the annotations name their nodes.
AnnotationsCurrent ==
    (AtRest /\ Exposed /\ pods # {}) => svc.ext = pods \cap Ext /\ svc.int = pods \cap Int

\* AddFinalizer, reconcileNPDelete: no workload outlives a Service whose type has not
\* been changed: its finalizer comes before the workload and goes after it.
NoOrphan == ("retype" \notin Ops /\ ~svc.there) => wl = {}

\* reconcileNPDelete: a Service that is being deleted while its workload exists goes away,
\* as long as nobody else takes away the workload, its type stays and no write fails.
DeletionFinishes ==
    (svc.deleting /\ svc.type \in wl /\ Ops \cap {"retype", "remove"} = {} /\ MaxFaults = 0)
      ~> ~svc.deleting
===============================================================================
