--------------------------- MODULE NodeProxyProofs -----------------------------
(***************************************************************************)
(* No proxy workload outlives its Service, and at rest a Service has the   *)
(* one workload it asks for and the annotations that name its nodes, for   *)
(* every set of nodes and any number of changes, failed writes and crashes.*)
(***************************************************************************)
EXTENDS NodeProxy, TLAPS

Service == [there: BOOLEAN, type: Types, deleting: BOOLEAN, fin: BOOLEAN,
            ext: SUBSET Ext, int: SUBSET Int, ver: Nat]

Stages == {"idle", "finalizer", "label", "other", "own", "annotate", "delete", "release"}

\* A copy of the Service is not newer than the last change, number n.
Copy(s, n) == s \in Service /\ s.ver <= n

Working == [at: Stages, obj: Service]

Typed == Copy(svc, ops) /\ Copy(cSvc, ops) /\ work \in Working /\ Copy(work.obj, ops) /\ ops \in Nat

\* The Service of which s is a copy is there, and has its finalizer.
Held(s) == svc.there /\ svc.fin /\ svc.type = s.type

\* A workload is of the type of the Service, which has its finalizer.
Owned == wl \subseteq {svc.type} /\ (wl # {} => svc.there /\ svc.fin)

\* A copy in the cache that has the finalizer tells that the Service still has it.
CacheHeld == (cSvc.there /\ cSvc.fin /\ ~cSvc.deleting) => Held(cSvc)

\* So does the reconcile's, once it is past the finalizer, and a deletion that will be
\* accepted has been seen by the cache.
WorkHeld ==
    /\ work.at = "finalizer" => work.obj.there /\ (work.obj.fin => Held(work.obj))
    /\ work.at \in {"label", "other", "own", "annotate"} => Held(work.obj)
    /\ work.at \in {"delete", "release"} =>
         work.obj.there /\ work.obj.deleting /\ (work.obj = svc => cSvc = svc)
    /\ work.at = "release" /\ work.obj = svc => wl = {}

Safe == Owned /\ CacheHeld /\ WorkHeld

Inv == Typed /\ ("retype" \notin Ops => Safe)

------------------------------------------------------------------------------
(* Types.                                                                  *)

\* What the writes of the controller and of users make of a copy.
LEMMA Copies ==
  ASSUME NEW s, NEW n \in Nat, Copy(s, n)
  PROVE  /\ Copy(s, n + 1) /\ Copy(NoSvc, n)
         /\ Copy([s EXCEPT !.fin = TRUE], n)
         /\ \A e \in SUBSET Ext, i \in SUBSET Int : Copy([s EXCEPT !.ext = e, !.int = i], n)
         /\ \A t \in Types : /\ Copy([s EXCEPT !.type = t, !.ver = n + 1], n + 1)
                             /\ Copy([NoSvc EXCEPT !.there = TRUE, !.type = t, !.ver = n + 1], n + 1)
         /\ Copy([s EXCEPT !.deleting = TRUE, !.ver = n + 1], n + 1)
<1>1. s \in Service /\ s.ver \in Nat /\ s.ver <= n
  BY DEF Copy, Service
<1>2. NoSvc \in Service /\ NoSvc.ver = 0
  BY DEF NoSvc, Service, Types, Kinds
<1>3. Copy(s, n + 1) /\ Copy(NoSvc, n)
  BY <1>1, <1>2 DEF Copy
<1>4. Copy([s EXCEPT !.fin = TRUE], n)
  BY <1>1, Zenon DEF Copy, Service
<1>5. \A e \in SUBSET Ext, i \in SUBSET Int : Copy([s EXCEPT !.ext = e, !.int = i], n)
  BY <1>1, Zenon DEF Copy, Service
<1>. DEFINE m == n + 1
<1>6. m \in Nat /\ m <= m
  BY <1>1
<1>. HIDE DEF m
<1>7. \A t \in Types : [s EXCEPT !.type = t, !.ver = m] \in Service /\ [s EXCEPT !.type = t, !.ver = m].ver = m
  BY <1>1, <1>6, Zenon DEF Service
<1>8. \A t \in Types : LET new == [NoSvc EXCEPT !.there = TRUE, !.type = t, !.ver = m]
                       IN new \in Service /\ new.ver = m
  BY <1>2, <1>6, Zenon DEF Service
<1>9. [s EXCEPT !.deleting = TRUE, !.ver = m] \in Service /\ [s EXCEPT !.deleting = TRUE, !.ver = m].ver = m
  BY <1>1, <1>6, Zenon DEF Service
<1>10. /\ \A t \in Types : /\ Copy([s EXCEPT !.type = t, !.ver = m], m)
                           /\ Copy([NoSvc EXCEPT !.there = TRUE, !.type = t, !.ver = m], m)
       /\ Copy([s EXCEPT !.deleting = TRUE, !.ver = m], m)
  BY <1>6, <1>7, <1>8, <1>9, Zenon DEF Copy
<1>. QED
  BY <1>3, <1>4, <1>5, <1>10, Zenon DEF m

\* The reconcile's state after a step, and when it is over.
LEMMA WorkSteps ==
  /\ Idle \in Working /\ Idle.at = "idle" /\ Idle.obj = NoSvc
  /\ \A at \in Stages, s \in Service :
       [at |-> at, obj |-> s] \in Working /\ [at |-> at, obj |-> s].at = at /\ [at |-> at, obj |-> s].obj = s
<1>1. NoSvc \in Service
  BY DEF NoSvc, Service, Types, Kinds
<1>. QED
  BY <1>1 DEF Idle, Working, Stages

\* The first state has its types.
LEMMA InitTyped == ASSUME Init PROVE Typed
<1>1. NoSvc \in Service /\ NoSvc.ver = 0
  BY DEF NoSvc, Service, Types, Kinds
<1>. QED
  BY <1>1, WorkSteps DEF Init, Typed, Copy

\* Every step keeps the types.
LEMMA TypedStep == ASSUME Typed, [Next]_vars PROVE Typed'
<1>. USE WorkSteps
<1>1. /\ Copy(svc, ops) /\ Copy(cSvc, ops) /\ Copy(work.obj, ops) /\ Copy(NoSvc, ops)
      /\ work.obj \in Service /\ svc \in Service /\ cSvc \in Service /\ ops \in Nat /\ work \in Working
      /\ {"finalizer", "label", "other", "own", "annotate", "delete", "release"} \subseteq Stages
  BY Copies, Zenon DEF Typed, Copy, Stages
<1>2. CASE UNCHANGED vars
  BY <1>1, <1>2 DEF vars, cluster, caches, Typed
<1>3. CASE SyncSvc \/ SyncWl
  BY <1>1, <1>3 DEF SyncSvc, SyncWl, cluster, Typed
<1>4. CASE Reconcile
  BY <1>1, <1>4 DEF Reconcile, cluster, caches, Typed
<1>5. CASE AddFinalizer
  <2>. DEFINE new == [work.obj EXCEPT !.fin = TRUE]
  <2>1. Copy(new, ops) /\ new \in Service
    BY <1>1, Copies, Zenon DEF Copy
  <2>2. /\ ops' = ops /\ cSvc' = cSvc
        /\ \/ Step("label", work.obj) /\ svc' = svc
           \/ svc' = new /\ Step("label", new)
           \/ Fail /\ svc' = svc
    BY <1>5 DEF AddFinalizer, caches
  <2>. HIDE DEF new
  <2>. QED
    BY <1>1, <2>1, <2>2, SMTT(30) DEF Step, Fail, Typed
<1>6. CASE LabelNodes \/ DeleteOther
  BY <1>1, <1>6 DEF LabelNodes, DeleteOther, Step, Fail, Finish, caches, Typed
<1>7. CASE CreateOrUpdate \/ reconcileNPDelete
  BY <1>1, <1>7 DEF CreateOrUpdate, reconcileNPDelete, Step, Fail, Finish, caches, Typed
<1>8. CASE Annotate
  <2>1. Copy([svc EXCEPT !.ext = cPods \cap Ext, !.int = cPods \cap Int], ops)
    BY <1>1, Copies, Zenon
  <2>. QED
    BY <1>1, <1>8, <2>1, SMTT(30) DEF Annotate, Fail, Finish, caches, Typed
<1>9. CASE RemoveFinalizer
  BY <1>1, <1>9 DEF RemoveFinalizer, Fail, Finish, caches, Typed
<1>10. CASE WriteFails \/ Crash
  BY <1>1, <1>10 DEF WriteFails, Crash, Fail, cluster, caches, Typed
<1>11. ASSUME World PROVE Typed'
  <2>1. ops' = ops + 1 /\ cSvc' = cSvc /\ work' = work
    BY <1>11, Zenon DEF World, Create, Retype, Delete, Remove, Pods, Op, caches
  <2>2. Copy(cSvc, ops + 1) /\ Copy(work.obj, ops + 1)
    BY <1>1, Copies, Zenon
  <2>3. Copy(svc', ops + 1)
    <3>1. Copy(svc, ops + 1) /\ Copy(NoSvc, ops + 1) /\ Copy([svc EXCEPT !.deleting = TRUE, !.ver = ops + 1], ops + 1)
      BY <1>1, Copies, Zenon
    <3>2. \A t \in Types : /\ Copy([svc EXCEPT !.type = t, !.ver = ops + 1], ops + 1)
                           /\ Copy([NoSvc EXCEPT !.there = TRUE, !.type = t, !.ver = ops + 1], ops + 1)
      BY <1>1, Copies, Zenon
    <3>. QED
      BY <1>11, <3>1, <3>2, ZenonT(30) DEF World, Create, Retype, Delete, Remove, Pods
  <2>. QED
    BY <1>1, <2>1, <2>2, <2>3, SMTT(30) DEF Typed
<1>. QED
  BY <1>2, <1>3, <1>4, <1>5, <1>6, <1>7, <1>8, <1>9, <1>10, <1>11, SMTT(30) DEF Next, Worker

------------------------------------------------------------------------------
(* No orphans.                                                             *)

\* A change of a user gives the Service a new version: no copy equals it.
LEMMA ChangedIsNew ==
  ASSUME Typed, NEW s, Copy(s, ops), svc'.ver = ops + 1
  PROVE  s # svc'
<1>1. s.ver \in Nat /\ s.ver <= ops /\ ops \in Nat
  BY DEF Typed, Copy, Service
<1>. QED
  BY <1>1

\* Steps of users and of Kubernetes.
LEMMA WorldSafe == ASSUME Typed, Safe, "retype" \notin Ops, World PROVE Safe'
<1>1. cSvc' = cSvc /\ work' = work /\ Copy(work.obj, ops) /\ svc \in Service
  BY Zenon DEF World, Create, Retype, Delete, Remove, Pods, caches, Typed, Copy
<1>2. ASSUME svc' = svc, wl' \subseteq wl PROVE Safe'
  BY <1>1, <1>2 DEF Safe, Owned, CacheHeld, WorkHeld, Held
<1>3. ASSUME NEW t \in Types, Create(t) PROVE Safe'
  <2>1. ~svc.there /\ wl' = wl /\ wl = {}
    BY <1>3 DEF Create, Safe, Owned
  <2>2. svc'.ver = ops + 1
    BY <1>3 DEF Create, NoSvc
  <2>3. work.obj # svc'
    BY <1>1, <2>2, ChangedIsNew
  <2>. QED
    BY <1>1, <2>1, <2>3 DEF Safe, Owned, CacheHeld, WorkHeld, Held
<1>4. CASE Delete
  <2>1. CASE svc.fin
    <3>1. wl' = wl /\ svc'.ver = ops + 1 /\ svc'.there = svc.there /\ svc'.fin = svc.fin /\ svc'.type = svc.type
      BY <1>1, <1>4, <2>1, Zenon DEF Delete, Service
    <3>2. work.obj # svc'
      BY <1>1, <3>1, ChangedIsNew
    <3>. QED
      BY <1>1, <3>1, <3>2 DEF Safe, Owned, CacheHeld, WorkHeld, Held
  <2>2. CASE ~svc.fin
    <3>1. wl' = wl /\ wl = {} /\ ~svc'.there
      BY <1>4, <2>2 DEF Delete, Safe, Owned, NoSvc
    <3>2. work.at \in {"delete", "release"} => work.obj # svc'
      BY <3>1 DEF Safe, WorkHeld
    <3>. QED
      BY <1>1, <2>2, <3>1, <3>2 DEF Safe, Owned, CacheHeld, WorkHeld, Held
  <2>. QED
    BY <2>1, <2>2
<1>5. ASSUME NEW k \in Kinds, Remove(k) PROVE Safe'
  BY <1>2, <1>5 DEF Remove
<1>6. ASSUME NEW ns \in SUBSET Nodes, Pods(ns) PROVE Safe'
  BY <1>2, <1>6 DEF Pods
<1>7. \A t \in Types : ~Retype(t)
  BY DEF Retype, Op
<1>. QED
  BY <1>3, <1>4, <1>5, <1>6, <1>7, SMTT(30) DEF World

\* Steps of the controller and of its watches.
LEMMA WorkerSafe ==
  ASSUME Typed, Safe, Worker \/ SyncSvc \/ SyncWl \/ WriteFails \/ Crash
  PROVE  Safe'
<1>. USE WorkSteps
<1>1. /\ work.obj \in Service /\ svc \in Service /\ cSvc \in Service /\ work \in Working
      /\ {"finalizer", "label", "other", "own", "annotate", "delete", "release"} \subseteq Stages
  BY SMTT(30) DEF Typed, Copy, Stages
<1>2. ASSUME svc' = svc, cSvc' = cSvc, wl' \subseteq wl, work'.at = "idle" PROVE Safe'
  BY <1>2, SMTT(30) DEF Safe, Owned, CacheHeld, WorkHeld, Held
<1>3. CASE SyncSvc
  BY <1>3, SMTT(30) DEF SyncSvc, cluster, Safe, Owned, CacheHeld, WorkHeld, Held
<1>4. CASE SyncWl
  BY <1>4, SMTT(30) DEF SyncWl, cluster, Safe, Owned, CacheHeld, WorkHeld, Held
<1>5. CASE Reconcile
  <2>1. svc' = svc /\ cSvc' = cSvc /\ wl' = wl
    BY <1>5 DEF Reconcile, cluster, caches
  <2>2. \/ work'.at = "idle"
        \/ cSvc.there /\ cSvc.deleting /\ work'.at = "delete" /\ work'.obj = cSvc
        \/ cSvc.there /\ ~cSvc.deleting /\ work'.at = "finalizer" /\ work'.obj = cSvc
    BY <1>1, <1>5 DEF Reconcile
  <2>. QED
    BY <2>1, <2>2, SMTT(30) DEF Safe, Owned, CacheHeld, WorkHeld, Held
<1>6. CASE AddFinalizer
  <2>. DEFINE new == [work.obj EXCEPT !.fin = TRUE]
  <2>1. cSvc' = cSvc /\ wl' = wl /\ work.at = "finalizer"
    BY <1>6 DEF AddFinalizer, caches
  <2>2. new \in Service /\ new.there = work.obj.there /\ new.fin = TRUE /\ new.type = work.obj.type
    BY <1>1, Zenon DEF Service
  <2>3. \/ work.obj.fin /\ Step("label", work.obj) /\ svc' = svc
        \/ work.obj = svc /\ svc' = new /\ Step("label", new)
        \/ Fail /\ svc' = svc
    BY <1>6, SMTT(30) DEF AddFinalizer
  <2>. HIDE DEF new
  <2>4. CASE work.obj.fin /\ Step("label", work.obj) /\ svc' = svc
    <3>1. work'.at = "label" /\ work'.obj = work.obj
      BY <1>1, <2>4, SMTT(30) DEF Step
    <3>. QED
      BY <2>1, <2>4, <3>1 DEF Safe, Owned, CacheHeld, WorkHeld, Held
  <2>5. CASE work.obj = svc /\ svc' = new /\ Step("label", new)
    <3>1. work'.at = "label" /\ work'.obj = new
      BY <1>1, <2>2, <2>5 DEF Step
    <3>. QED
      BY <2>1, <2>2, <2>5, <3>1 DEF Safe, Owned, CacheHeld, WorkHeld, Held
  <2>6. CASE Fail /\ svc' = svc
    BY <1>2, <2>1, <2>6, SMTT(30) DEF Fail
  <2>. QED
    BY <2>3, <2>4, <2>5, <2>6
<1>7. ASSUME NEW at \in {"other", "own", "annotate"}, work.at \in {"label", "other", "own"}, Step(at, work.obj),
             svc' = svc, cSvc' = cSvc, wl' \subseteq wl
      PROVE  Safe'
  <2>1. work'.at = at /\ work'.obj = work.obj
    BY <1>1, <1>7 DEF Step
  <2>. QED
    BY <1>7, <2>1 DEF Safe, Owned, CacheHeld, WorkHeld, Held
<1>8. CASE LabelNodes
  BY <1>2, <1>7, <1>8 DEF LabelNodes, Finish, caches
<1>9. CASE DeleteOther
  BY <1>2, <1>7, <1>9 DEF DeleteOther, Fail, caches
<1>10. CASE CreateOrUpdate
  <2>1. svc' = svc /\ cSvc' = cSvc /\ work.at = "own"
    BY <1>10, SMTT(30) DEF CreateOrUpdate, caches
  <2>2. CASE wl' = wl \cup {work.obj.type} /\ Finish
    BY <2>1, <2>2 DEF Finish, Safe, Owned, CacheHeld, WorkHeld, Held
  <2>3. CASE wl' = wl /\ (Finish \/ Fail \/ Step("annotate", work.obj))
    BY <1>2, <1>7, <2>1, <2>3, SMTT(30) DEF Finish, Fail
  <2>. QED
    BY <1>10, <2>2, <2>3 DEF CreateOrUpdate
<1>11. CASE Annotate
  <2>. DEFINE new == [svc EXCEPT !.ext = cPods \cap Ext, !.int = cPods \cap Int]
  <2>1. cSvc' = cSvc /\ wl' = wl /\ work'.at = "idle" /\ svc' \in {svc, new}
    BY <1>11 DEF Annotate, Finish, Fail, caches
  <2>2. new.there = svc.there /\ new.fin = svc.fin /\ new.type = svc.type
    BY <1>1, SMTT(30) DEF Service
  <2>. HIDE DEF new
  <2>. QED
    BY <2>1, <2>2 DEF Safe, Owned, CacheHeld, WorkHeld, Held
<1>12. CASE reconcileNPDelete
  <2>1. svc' = svc /\ cSvc' = cSvc /\ work.at = "delete"
    BY <1>12 DEF reconcileNPDelete, caches
  <2>2. CASE wl' = wl /\ (Finish \/ Fail)
    BY <1>2, <2>1, <2>2, SMTT(30) DEF Finish, Fail
  <2>3. CASE wl' = wl \ {work.obj.type} /\ Step("release", work.obj)
    <3>1. work'.at = "release" /\ work'.obj = work.obj
      BY <1>1, <2>3 DEF Step
    <3>. QED
      BY <2>1, <2>3, <3>1 DEF Safe, Owned, CacheHeld, WorkHeld, Held
  <2>. QED
    BY <1>12, <2>2, <2>3, SMTT(30) DEF reconcileNPDelete
<1>13. CASE RemoveFinalizer
  <2>1. cSvc' = cSvc /\ wl' = wl /\ work.at = "release" /\ work'.at = "idle"
    BY <1>13, SMTT(30) DEF RemoveFinalizer, Finish, Fail, caches
  <2>2. CASE work.obj = svc /\ svc' = NoSvc
    <3>1. wl = {} /\ cSvc.deleting
      BY <2>1, <2>2 DEF Safe, WorkHeld
    <3>. QED
      BY <2>1, <3>1 DEF Safe, Owned, CacheHeld, WorkHeld
  <2>3. CASE svc' = svc
    BY <1>2, <2>1, <2>3
  <2>. QED
    BY <1>13, <2>2, <2>3 DEF RemoveFinalizer
<1>14. CASE WriteFails
  BY <1>2, <1>14, SMTT(30) DEF WriteFails, Fail, cluster, caches
<1>15. CASE Crash
  BY <1>15 DEF Crash, cluster, Safe, Owned, CacheHeld, WorkHeld, Held
<1>. QED
  BY <1>3, <1>4, <1>5, <1>6, <1>8, <1>9, <1>10, <1>11, <1>12, <1>13, <1>14, <1>15 DEF Worker

\* AddFinalizer, reconcileNPDelete: no workload outlives a Service whose type stays.
THEOREM ProxyNoOrphan == Spec => []NoOrphan
<1>1. Init => Inv
  <2>1. ASSUME Init PROVE Safe
    BY <2>1, WorkSteps DEF Init, Safe, Owned, CacheHeld, WorkHeld, NoSvc
  <2>. QED
    BY <2>1, InitTyped, SMTT(30) DEF Inv
<1>2. Inv /\ [Next]_vars => Inv'
  <2>1. ASSUME Typed, Safe, UNCHANGED vars PROVE Safe'
    BY <2>1 DEF vars, cluster, caches, Safe, Owned, CacheHeld, WorkHeld, Held
  <2>. QED
    BY <2>1, TypedStep, WorldSafe, WorkerSafe, SMTT(30) DEF Inv, Next
<1>3. Inv => NoOrphan
  BY DEF Inv, Safe, Owned, NoOrphan
<1>. QED
  BY <1>1, <1>2, <1>3, PTL DEF Spec

------------------------------------------------------------------------------
(* At rest.  Each event of a watch, and each failure, puts the Service in  *)
(* the queue; between them a reconcile sees what is there.                 *)

\* The cache of workloads is up to date unless its watches have events to deliver.
Delivered == wl \subseteq Kinds /\ (~news => cWl = wl /\ cPods = pods)

\* A deletion is about a Service that is being deleted, the rest about one of a known type.
Apt ==
    /\ work.at \in {"delete", "release"} => work.obj.deleting
    /\ work.at \in {"other", "own", "annotate"} => work.obj.type \in Kinds

\* The reconcile works on the cache's copy, or on what it has itself made of it.
OnCopy ==
    work.at # "idle" =>
      \/ work.obj = cSvc
      \/ work.obj = [cSvc EXCEPT !.fin = TRUE] /\ ~cSvc.fin /\ cSvc # svc

\* What the reconcile has seen to so far.
Progress ==
    /\ work.at \in {"own", "annotate"} => wl \subseteq {work.obj.type}
    /\ work.at = "annotate" => wl = {work.obj.type}

\* The last reconcile left the Service as it should be, or changed it, which the watch will tell.
Left ==
    (work.at = "idle" /\ ~cSvc.deleting /\ cSvc.type \in Kinds) =>
      \/ cSvc # svc
      \/ wl = {cSvc.type} /\ (pods # {} => svc.ext = pods \cap Ext /\ svc.int = pods \cap Int)

\* Another reconcile is due, or will be.
Due == queued \/ news \/ ~cSvc.there

Kept == Delivered /\ Apt /\ (Due \/ (OnCopy /\ Progress /\ Left))

\* Users and Kubernetes: another Service is not the copy, other workloads or pods are news.
LEMMA WorldKept == ASSUME Typed, Kept, World PROVE Kept'
<1>1. /\ cSvc' = cSvc /\ work' = work /\ queued' = queued /\ cWl' = cWl /\ cPods' = cPods
      /\ Copy(cSvc, ops) /\ Notify
  BY Zenon DEF World, Create, Retype, Delete, Remove, Pods, caches, Typed
<1>2. ASSUME wl' # wl \/ pods' # pods, wl' \subseteq wl PROVE Kept'
  BY <1>1, <1>2, Zenon DEF Kept, Delivered, Apt, Due, Notify
<1>3. ASSUME wl' = wl, pods' = pods, svc' = NoSvc \/ svc'.ver = ops + 1 PROVE Kept'
  <2>1. cSvc.there => cSvc # svc'
    BY <1>1, <1>3, ChangedIsNew DEF NoSvc
  <2>. QED
    BY <1>1, <1>3, <2>1, Zenon DEF Kept, Delivered, Apt, Due, Notify, OnCopy, Progress, Left
<1>4. ASSUME NEW t \in Types, Create(t) \/ Retype(t) PROVE Kept'
  <2>1. wl' = wl /\ pods' = pods
    BY <1>4 DEF Create, Retype
  <2>2. svc'.ver = ops + 1
    BY <1>4, Zenon DEF Create, Retype, NoSvc, Typed, Copy, Service
  <2>. QED
    BY <1>3, <2>1, <2>2
<1>5. CASE Delete
  <2>1. wl' = wl /\ pods' = pods
    BY <1>5 DEF Delete
  <2>2. svc' = NoSvc \/ svc'.ver = ops + 1
    BY <1>5 DEF Delete, Typed, Copy, Service
  <2>. QED
    BY <1>3, <2>1, <2>2
<1>6. ASSUME NEW n \in Kinds, Remove(n) PROVE Kept'
  BY <1>2, <1>6 DEF Remove
<1>7. ASSUME NEW ns \in SUBSET Nodes, Pods(ns) PROVE Kept'
  BY <1>2, <1>7 DEF Pods
<1>. QED
  BY <1>4, <1>5, <1>6, <1>7, SMTT(30) DEF World

\* A step of the reconcile that leaves everything in the cluster and the caches alone but, it may
\* be, the workloads.
ByWork == svc' = svc /\ cSvc' = cSvc /\ cWl' = cWl /\ cPods' = cPods /\ pods' = pods

\* The controller and its watches.
LEMMA WorkerKept ==
  ASSUME Typed, Kept, Worker \/ SyncSvc \/ SyncWl \/ WriteFails \/ Crash
  PROVE  Kept'
<1>. USE WorkSteps
<1>1. /\ work.obj \in Service /\ svc \in Service /\ cSvc \in Service /\ work \in Working
      /\ {"finalizer", "label", "other", "own", "annotate", "delete", "release"} \subseteq Stages
      /\ Apt
  BY DEF Typed, Copy, Stages, Kept
<1>2. ASSUME Delivered', Apt', Due' PROVE Kept'
  BY <1>2, SMTT(30) DEF Kept
<1>3. CASE SyncSvc
  BY <1>2, <1>3, Zenon DEF SyncSvc, cluster, Kept, Delivered, Apt, Due
<1>4. CASE SyncWl
  BY <1>2, <1>4, Zenon DEF SyncWl, shouldReconcileDeDs, cluster, Kept, Delivered, Apt, Due
<1>5. CASE WriteFails
  BY <1>2, <1>5 DEF WriteFails, Fail, cluster, caches, Kept, Delivered, Apt, Due
<1>6. CASE Crash
  BY <1>2, <1>6, SMTT(30) DEF Crash, cluster, Kept, Delivered, Apt, Due
<1>7. ASSUME Fail, Notify, wl' = wl, pods' = pods, cWl' = cWl, cPods' = cPods PROVE Kept'
  BY <1>2, <1>7, Zenon DEF Fail, Notify, Kept, Delivered, Apt, Due
<1>8. ASSUME Notify, wl' # wl, wl' \subseteq Kinds, Apt' PROVE Kept'
  BY <1>2, <1>8, Zenon DEF Notify, Delivered, Due
<1>9. ASSUME Notify, wl' = wl, pods' = pods, cWl' = cWl, cPods' = cPods, cSvc' = cSvc, queued' = queued, Apt',
             ~Due => (OnCopy /\ Progress /\ Left)'
      PROVE  Kept'
  BY <1>9, Zenon DEF Notify, Kept, Delivered, Due
<1>10. CASE Reconcile /\ Notify
  <2>1. ByWork /\ wl' = wl
    BY <1>10 DEF Reconcile, ByWork, cluster, caches
  <2>2. \/ ~cSvc.there /\ work'.at = "idle"
        \/ cSvc.there /\ cSvc.deleting /\ work'.at = "delete" /\ work'.obj = cSvc
        \/ cSvc.there /\ ~cSvc.deleting /\ work'.at = "finalizer" /\ work'.obj = cSvc
    BY <1>1, <1>10 DEF Reconcile
  <2>. QED
    BY <1>10, <2>1, <2>2, Zenon DEF ByWork, Notify, Kept, Delivered, Apt, Due, OnCopy, Progress, Left
<1>11. CASE AddFinalizer /\ Notify
  <2>. DEFINE new == [work.obj EXCEPT !.fin = TRUE]
  <2>1. /\ cSvc' = cSvc /\ cWl' = cWl /\ cPods' = cPods /\ wl' = wl /\ pods' = pods /\ work.at = "finalizer"
    BY <1>11 DEF AddFinalizer, caches
  <2>2. new \in Service /\ new.fin = TRUE
    BY <1>1, Zenon DEF Service
  <2>3. \/ Step("label", work.obj) /\ svc' = svc
        \/ ~work.obj.fin /\ work.obj = svc /\ svc' = new /\ Step("label", new)
        \/ Fail /\ svc' = svc
    BY <1>11 DEF AddFinalizer
  <2>4. CASE Step("label", work.obj) /\ svc' = svc
    <3>1. work'.at = "label" /\ work'.obj = work.obj /\ queued' = queued
      BY <1>1, <2>4 DEF Step
    <3>. QED
      BY <1>9, <1>11, <2>1, <2>4, <3>1 DEF Kept, Apt, OnCopy, Progress, Left
  <2>5. CASE ~work.obj.fin /\ work.obj = svc /\ svc' = new /\ Step("label", new)
    <3>1. work'.at = "label" /\ work'.obj = new /\ queued' = queued
      BY <1>1, <2>2, <2>5 DEF Step
    <3>2. ASSUME ~Due PROVE OnCopy'
      <4>1. work.obj = cSvc
        BY <2>1, <2>5, <3>2, <1>1 DEF Kept, OnCopy, Service
      <4>. QED
        BY <2>1, <2>2, <2>5, <3>1, <4>1 DEF OnCopy
    <3>. QED
      BY <1>9, <1>11, <2>1, <3>1, <3>2 DEF Apt, Progress, Left
  <2>. QED
    BY <1>7, <1>11, <2>1, <2>3, <2>4, <2>5
<1>12. ASSUME ~Due, ByWork, queued' = queued, wl' = wl, work.at # "idle", work'.at # "idle", work'.obj = work.obj
      PROVE  OnCopy' /\ Left'
  BY <1>12 DEF Kept, ByWork, OnCopy, Left
<1>13. CASE LabelNodes /\ Notify
  <2>1. ByWork /\ wl' = wl /\ work.at = "label" /\ queued' = queued
    BY <1>13, SMTT(30) DEF LabelNodes, ByWork, Step, Finish, caches
  <2>2. CASE work.obj.type \in Kinds
    <3>1. work'.at = "other" /\ work'.obj = work.obj
      BY <1>1, <1>13, <2>2 DEF LabelNodes, Step
    <3>. QED
      BY <1>9, <1>12, <1>13, <2>1, <2>2, <3>1, SMTT(30) DEF ByWork, Apt, Progress
  <2>3. CASE work.obj.type \notin Kinds
    <3>1. work'.at = "idle"
      BY <1>13, <2>3 DEF LabelNodes, Finish
    <3>2. ~Due => cSvc.type = work.obj.type
      BY <1>1, <2>1, SMTT(30) DEF Kept, OnCopy, Service
    <3>. QED
      BY <1>9, <1>13, <2>1, <2>3, <3>1, <3>2 DEF ByWork, Apt, OnCopy, Progress, Left
  <2>. QED
    BY <2>2, <2>3, SMTT(30)
<1>14. CASE DeleteOther /\ Notify
  <2>. DEFINE o == Other(work.obj.type)
  <2>1. ByWork /\ work.at = "other"
    BY <1>14, SMTT(30) DEF DeleteOther, ByWork, caches
  <2>2. CASE o \notin cWl /\ Step("own", work.obj) /\ wl' = wl
    <3>1. work'.at = "own" /\ work'.obj = work.obj /\ queued' = queued
      BY <1>1, <2>2, SMTT(30) DEF Step
    <3>2. work.obj.type \in Kinds /\ (~Due => cWl = wl /\ wl \subseteq Kinds)
      BY <1>1, <2>1 DEF Kept, Apt, Delivered, Due
    <3>3. work.obj.type \in Kinds => Kinds = {work.obj.type, o}
      BY SMTT(30) DEF Kinds, Other
    <3>. QED
      BY <1>9, <1>12, <1>14, <2>1, <2>2, <3>1, <3>2, <3>3, SMTT(30) DEF ByWork, Apt, Progress
  <2>3. CASE o \in wl /\ wl' = wl \ {o} /\ Step("own", work.obj)
    <3>1. work'.at = "own"
      BY <1>1, <2>3 DEF Step
    <3>. QED
      BY <1>1, <1>8, <1>14, <2>1, <2>3, <3>1 DEF Kept, Delivered, Apt, Step
  <2>4. CASE Fail /\ wl' = wl
    BY <1>7, <1>14, <2>1, <2>4, SMTT(30) DEF ByWork
  <2>. QED
    BY <1>14, <2>2, <2>3, <2>4, SMTT(30) DEF DeleteOther
<1>15. CASE CreateOrUpdate /\ Notify
  <2>1. ByWork /\ work.at = "own"
    BY <1>15, SMTT(30) DEF CreateOrUpdate, ByWork, caches
  <2>2. CASE work.obj.type \notin wl /\ wl' = wl \cup {work.obj.type} /\ Finish
    <3>1. work.obj.type \in Kinds
      BY <1>1, <2>1 DEF Apt
    <3>. QED
      BY <1>8, <1>15, <2>2, <3>1 DEF Kept, Delivered, Apt, Finish
  <2>3. CASE /\ work.obj.type \in wl /\ wl' = wl
             /\ IF cPods = {} THEN Finish ELSE Step("annotate", work.obj)
    <3>1. /\ ~Due => wl = {work.obj.type} /\ cPods = pods /\ cSvc.type = work.obj.type
          /\ work.obj.type \in Kinds
      BY <1>1, <2>1, <2>3 DEF Apt, Kept, Progress, Delivered, Due, OnCopy, Service
    <3>2. CASE cPods = {}
      <4>1. work'.at = "idle" /\ queued' = queued
        BY <2>3, <3>2, SMTT(30) DEF Finish
      <4>. QED
        BY <1>9, <1>15, <2>1, <2>3, <3>1, <3>2, <4>1 DEF ByWork, Apt, OnCopy, Progress, Left
    <3>3. CASE cPods # {}
      <4>1. work'.at = "annotate" /\ work'.obj = work.obj /\ queued' = queued
        BY <1>1, <2>3, <3>3 DEF Step
      <4>. QED
        BY <1>9, <1>12, <1>15, <2>1, <2>3, <3>1, <4>1, SMTT(30) DEF ByWork, Apt, Progress
    <3>. QED
      BY <3>2, <3>3
  <2>4. CASE Fail /\ wl' = wl
    BY <1>7, <1>15, <2>1, <2>4 DEF ByWork
  <2>. QED
    BY <1>15, <2>2, <2>3, <2>4, SMTT(30) DEF CreateOrUpdate
<1>16. CASE Annotate /\ Notify
  <2>. DEFINE new == [svc EXCEPT !.ext = cPods \cap Ext, !.int = cPods \cap Int]
  <2>1. cSvc' = cSvc /\ cWl' = cWl /\ cPods' = cPods /\ wl' = wl /\ pods' = pods /\ work.at = "annotate"
    BY <1>16 DEF Annotate, caches
  <2>2. CASE work.obj = svc /\ svc' = new /\ Finish
    <3>1. work'.at = "idle" /\ queued' = queued
      BY <2>2 DEF Finish
    <3>2. new.ext = cPods \cap Ext /\ new.int = cPods \cap Int
      BY <1>1 DEF Service
    <3>3. ~Due => wl = {work.obj.type} /\ cPods = pods /\ cSvc.type = work.obj.type
      BY <1>1, <2>1 DEF Kept, Progress, Delivered, Due, OnCopy, Service
    <3>. QED
      BY <1>9, <1>16, <2>1, <2>2, <3>1, <3>2, <3>3 DEF Apt, OnCopy, Progress, Left
  <2>3. CASE Fail
    BY <1>7, <1>16, <2>1, <2>3
  <2>. QED
    BY <1>16, <2>2, <2>3 DEF Annotate
<1>17. ASSUME work.at \in {"delete", "release"}, ~Due PROVE cSvc.deleting
  BY <1>1, <1>17, SMTT(30) DEF Kept, Apt, OnCopy, Service
<1>18. CASE reconcileNPDelete /\ Notify
  <2>1. ByWork /\ work.at = "delete"
    BY <1>18 DEF reconcileNPDelete, ByWork, caches
  <2>2. CASE Finish /\ wl' = wl
    BY <1>9, <1>17, <1>18, <2>1, <2>2 DEF ByWork, Finish, Apt, OnCopy, Progress, Left
  <2>3. CASE Fail /\ wl' = wl
    BY <1>7, <1>18, <2>1, <2>3, SMTT(30) DEF ByWork
  <2>4. CASE work.obj.type \in wl /\ wl' = wl \ {work.obj.type} /\ Step("release", work.obj)
    <3>1. work'.obj = work.obj
      BY <1>1, <2>4, SMTT(30) DEF Step
    <3>. QED
      BY <1>8, <1>18, <2>1, <2>4, <3>1 DEF Kept, Delivered, Apt
  <2>. QED
    BY <1>18, <2>2, <2>3, <2>4, SMTT(30) DEF reconcileNPDelete
<1>19. CASE RemoveFinalizer /\ Notify
  <2>1. cSvc' = cSvc /\ cWl' = cWl /\ cPods' = cPods /\ wl' = wl /\ pods' = pods /\ work.at = "release"
    BY <1>19 DEF RemoveFinalizer, caches
  <2>2. CASE Finish
    BY <1>9, <1>17, <1>19, <2>1, <2>2 DEF Finish, Apt, OnCopy, Progress, Left
  <2>3. CASE Fail
    BY <1>7, <1>19, <2>1, <2>3
  <2>. QED
    BY <1>19, <2>2, <2>3, SMTT(30) DEF RemoveFinalizer
<1>. QED
  BY <1>3, <1>4, <1>5, <1>6, <1>10, <1>11, <1>13, <1>14, <1>15, <1>16, <1>18, <1>19 DEF Worker

\* The invariant of a Service at rest holds throughout.
LEMMA AlwaysKept == Spec => [](Typed /\ Kept)
<1>1. Init => Typed /\ Kept
  <2>1. ~NoSvc.there
    BY DEF NoSvc
  <2>. QED
    BY <2>1, InitTyped, WorkSteps, Zenon DEF Init, Kept, Delivered, Apt, Due
<1>2. Typed /\ Kept /\ [Next]_vars => (Typed /\ Kept)'
  <2>1. ASSUME Kept, UNCHANGED vars PROVE Kept'
    BY <2>1 DEF vars, cluster, caches, Kept, Delivered, Apt, Due, OnCopy, Progress, Left
  <2>. QED
    BY <2>1, TypedStep, WorldKept, WorkerKept DEF Next
<1>. QED
  BY <1>1, <1>2, PTL DEF Spec

\* What is at rest was left so by the last reconcile.
LEMMA RestLeft ==
  ASSUME Kept, AtRest, Exposed
  PROVE  wl = {svc.type} /\ (pods # {} => svc.ext = pods \cap Ext /\ svc.int = pods \cap Int)
BY WorkSteps DEF Kept, AtRest, Exposed, Due, Left, caches

\* reconcileNPNormal, shouldReconcileDeDs: when no event is left to deliver and no reconcile
\* due, the Service has the workload it asks for and not the other one, whatever was retyped,
\* removed, refused or cut off by a crash before.
THEOREM ProxyOneKind == Spec => []OneKind
<1>1. Kept => OneKind
  BY RestLeft DEF OneKind
<1>. QED
  BY <1>1, AlwaysKept, PTL

\* reconcileNPNormal: at rest the annotations name the nodes of the pods that run.
THEOREM ProxyAnnotations == Spec => []AnnotationsCurrent
<1>1. Kept => AnnotationsCurrent
  BY RestLeft DEF AnnotationsCurrent
<1>. QED
  BY <1>1, AlwaysKept, PTL
===============================================================================
