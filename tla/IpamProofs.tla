------------------------------ MODULE IpamProofs ------------------------------
(***************************************************************************)
(* Theorems about Ipam for every set of pools and Services, every pool     *)
(* size, every kind of edit, any number of crashes and lost replies, and   *)
(* caches that lag: the state stays well-formed, Eips tell what is in use, *)
(* no writer of an Eip loses a record, no address is shared by accident,   *)
(* and pools and Services agree once everything has been processed.        *)
(***************************************************************************)
EXTENDS IpamInvProofs

\* What is assumed of the Services and of the watch of the Eips: Services are
\* for OpenELB and ask for no particular address, and the service reconciler
\* starts from Eips that are up to date.
Ordinary ==
    "eips" \in SyncedReads /\ \A spec \in Specs : spec.class = "lb" /\ spec.wantIP = Nil

\* Eips are deleted only where there is one.  needUpdate does not look at the
\* label, so that a Service can come to rest with the label of another pool than
\* that of its address, and removeEip for the latter does not find it.
Steady == "deleteEip" \in UserOps => \A d, e \in Eips : d = e

------------------------------------------------------------------------------
(* The inductive invariant, on top of that of IpamInvProofs.               *)

\* Stored versions of Services and of Eips.
GoodSvc(obj) ==
    IF obj.exists THEN obj.spec.class = "lb" /\ obj.spec.wantIP = Nil ELSE obj.ingress = Nil

Sound(obj) ==
    /\ obj.ready \/ obj.deleting => obj.fin
    /\ obj.deleting => obj.exists /\ "deleteEip" \in UserOps

SvcsGood == \A s \in Svcs : \A k \in 1 .. Len(svcs[s]) : GoodSvc(svcs[s][k])

EipsSound == \A e \in Eips : \A k \in 1 .. Len(eips[e]) : Sound(eips[e][k])

\* The records of Service s that removeEip is not about to wipe out.
Recs(s) == {a \in Addrs : ~Api(eips[a[1]]).deleting /\ s \in Holders(a)}

\* No Service has two records.
OneRecord == \A s \in Svcs : \A a, b \in Recs(s) : a = b

\* Whichever version of its pool the cache shows, it has record a of s.
InAll(a, s) ==
    \A k \in 1 .. Len(eips[a[1]]) : ~eips[a[1]][k].deleting /\ s \in eips[a[1]][k].used[a[2]]

\* Nothing has happened to Service s that a reconcile is still to hear of.
Unstirred(s) == Fresh(svcs[s]) /\ s \notin lbq /\ Api(svcs[s]).exists

\* What a reconcile without an error is about to write.
Result ==
    /\ Recs(lb.svc) \subseteq {lb.new.ingress}
    /\ IF lb.req.alloc THEN /\ lb.new.label = lb.req.eip
                            /\ lb.new.ingress # Nil /\ lb.new.ingress[1] = lb.req.eip
       ELSE lb.new.label = Nil /\ lb.new.ingress = Nil

\* The service worker, from one of its steps to the next.
LbRest ==
    lb.pc # "idle" =>
      /\ lb.new.exists /\ GoodSvc(lb.new) /\ lb.req.ip = Nil
      /\ Unstirred(lb.svc) => lb.old = Api(svcs[lb.svc]) /\ (lb.pc = "status" => lb.old.label = lb.new.label)
      /\ IF lb.req.alloc THEN lb.old.spec.wantEip \in {Nil, lb.req.eip}
         ELSE lb.old.deleting \/ lb.old.spec.wantEip = Nil
      /\ lb.pc = "release" => \A a \in Recs(lb.svc) : a[1] = lb.req.from /\ InAll(a, lb.svc)
      /\ lb.pc = "assign" => Recs(lb.svc) = {}
      /\ lb.pc \in {"update", "status"} /\ ~lb.err => Result

\* The service worker leaves the Service it works on as it is.
Leaves == /\ lb.pc \in {"update", "status"} /\ ~lb.err
          /\ lb.new.label = lb.old.label /\ lb.new.ingress = lb.old.ingress

\* Nothing is under way for Service s, which exists.
Still(s) == Unstirred(s) /\ (lb.pc # "idle" /\ lb.svc = s => Leaves)

\* What svc, a version of Service s, shows is what its pool has recorded, and what it asked for.
Agree(s, svc) ==
    /\ Recs(s) \subseteq {svc.ingress}
    /\ svc.ingress # Nil => s \in Holders(svc.ingress) /\ svc.label # Nil
    /\ ~svc.deleting /\ svc.spec.wantEip # Nil => svc.ingress # Nil /\ svc.ingress[1] = svc.spec.wantEip

StillAgree == \A s \in Svcs : Still(s) => Agree(s, Api(svcs[s]))

\* The Eip worker, from one of its steps to the next.
EwCopy ==
    ew.pc # "idle" => /\ ew.obj.exists /\ Sound(ew.obj)
                      /\ ew.pc = "remove" <=> ew.obj.deleting
                      /\ ew.pc = "sync" => ew.obj.fin

\* removeEip can still take place, and it has yet to see every Service that
\* shows an address.
Removing == ew.pc = "remove" /\ ew.eip \in held["eip"]

Seen == Removing => \A s \in Svcs : Still(s) /\ Api(svcs[s]).ingress # Nil => s \in ew.todo

AllDeleting(e) == \A k \in 1 .. Len(eips[e]) : eips[e][k].deleting

\* A deletion that the cache shows is worked on.
Noticed == \A e \in Eips : AllDeleting(e) => e \in eipq \/ (ew.pc = "remove" /\ ew.eip = e)

RestInv == SvcsGood /\ EipsSound /\ OneRecord /\ LbRest /\ StillAgree /\ EwCopy /\ Seen /\ Noticed
------------------------------------------------------------------------------
(* Windows.                                                                *)

\* The versions of Eips that caches can come to show: none is new but the one
\* the API server holds.
Onward ==
    \A e \in Eips : \A k \in 1 .. Len(eips'[e]) :
      eips'[e][k] = Api(eips'[e]) \/ \E j \in 1 .. Len(eips[e]) : eips'[e][k] = eips[e][j]

NoneDeleted == \A e \in Eips : AllDeleting(e)' => AllDeleting(e)

\* Window v is window w with version x behind it, not yet delivered.
Grown(w, x, v) ==
    /\ \A k \in 1 .. Len(v) : v[k] = x \/ \E j \in 1 .. Len(w) : v[k] = w[j]
    /\ \A j \in 1 .. Len(w) : j \in 1 .. Len(v) /\ v[j] = w[j]
    /\ ~Fresh(v)

\* That is what a write makes of a window.
LEMMA WindowGrows ==
  ASSUME NEW S, NEW w \in Seq(S), w # <<>>, NEW x \in S
  PROVE  Grown(w, x, Append(w, x))
  BY SMTT(30) DEF Fresh, Grown

\* A write of Eip e by w takes the right to write it away from everybody else.
OthersLose(e, w) == held'["eip"] \subseteq held["eip"] /\ (w # "eip" => e \notin held'["eip"])

\* A write of an Eip puts a sound version into its window.
LEMMA PutEipRest ==
  ASSUME IInv, EipsSound, NEW e \in Eips, NEW obj, GoodEip(e, obj), Sound(obj), NEW w, PutEip(e, obj, w)
  PROVE  /\ EipsSound' /\ Onward /\ NoneDeleted
         /\ Wrote(e, Api(eips[e]), obj) /\ OthersLose(e, w)
<1>1. /\ Api(eips'[e]) = obj
      /\ \A d \in Eips \ {e} : eips'[d] = eips[d]
      /\ OthersLose(e, w)
  BY PutEipKeeps, Zenon DEF IInv, OthersLose
<1>2. eips'[e] = Append(eips[e], obj) /\ eips[e] \in Seq(EipObj(e)) /\ eips[e] # <<>> /\ obj \in EipObj(e)
  BY Zenon DEF PutEip, IInv, EipsInv, GoodWindow, GoodEip
<1>3. Grown(eips[e], obj, eips'[e])
  BY <1>2, WindowGrows, Zenon
<1>4. \A d \in Eips : \A k \in 1 .. Len(eips'[d]) :
        (eips'[d][k] = Api(eips'[d]) /\ Sound(eips'[d][k])) \/ \E j \in 1 .. Len(eips[d]) : eips'[d][k] = eips[d][j]
  <2>. TAKE d \in Eips
  <2>1. CASE d = e
    BY <1>1, <1>3, <2>1, Zenon DEF Grown
  <2>2. CASE d # e
    BY <1>1, <2>2, Zenon
  <2>. QED
    BY <2>1, <2>2, Zenon
<1>5. EipsSound'
  <2>. SUFFICES ASSUME NEW d \in Eips, NEW k \in 1 .. Len(eips'[d]) PROVE Sound(eips'[d][k])
    BY Zenon DEF EipsSound
  <2>. QED
    BY <1>4, Zenon DEF EipsSound
<1>6. Onward
  BY <1>4, Zenon DEF Onward
<1>7. NoneDeleted
  <2>. SUFFICES ASSUME NEW d \in Eips, AllDeleting(d)' PROVE AllDeleting(d)
    BY Zenon DEF NoneDeleted
  <2>1. CASE d = e
    BY <1>3, <2>1, Zenon DEF AllDeleting, Grown
  <2>2. CASE d # e
    BY <1>1, <2>2, Zenon DEF AllDeleting
  <2>. QED
    BY <2>1, <2>2, Zenon
<1>. QED
  BY <1>1, <1>5, <1>6, <1>7, Zenon DEF Wrote

\* A step that leaves the Eips alone.
LEMMA SameEips ==
  ASSUME UNCHANGED eips
  PROVE  /\ Onward /\ NoneDeleted /\ EipsSound' = EipsSound /\ OneRecord' = OneRecord
         /\ \A s : Recs(s)' = Recs(s)
         /\ \A a : Holders(a)' = Holders(a)
  BY Zenon DEF Onward, NoneDeleted, AllDeleting, EipsSound, OneRecord, Recs, Holders

\* A write of a Service: what it was computed from does not matter, the watch has
\* yet to deliver it.
LEMMA PutSvcRest ==
  ASSUME IInv, SvcsGood, NEW s \in Svcs, NEW obj \in SvcObj, GoodSvc(obj), NEW w, PutSvc(s, obj, w)
  PROVE  /\ SvcsGood' /\ ~Fresh(svcs'[s])
         /\ \A t \in Svcs \ {s} : svcs'[t] = svcs[t]
         /\ held'["eip"] \subseteq held["eip"]
<1>1. GoneSvc \in SvcObj /\ GoodSvc(GoneSvc)
  BY Zenon DEF GoneSvc, SvcObj, NoSpec, Spec0, GoodSvc
<1>2. PICK x \in SvcObj : GoodSvc(x) /\ svcs' = [svcs EXCEPT ![s] = Append(@, x)]
  BY <1>1, Zenon DEF PutSvc
<1>3. /\ svcs[s] \in Seq(SvcObj) /\ svcs[s] # <<>> /\ svcs'[s] = Append(svcs[s], x)
      /\ \A t \in Svcs \ {s} : svcs'[t] = svcs[t]
  BY <1>2, Zenon DEF IInv, SvcsInv
<1>4. Grown(svcs[s], x, svcs'[s])
  BY <1>3, WindowGrows, Zenon
<1>5. SvcsGood'
  <2>. SUFFICES ASSUME NEW t \in Svcs, NEW k \in 1 .. Len(svcs'[t]) PROVE GoodSvc(svcs'[t][k])
    BY Zenon DEF SvcsGood
  <2>1. CASE t = s
    <3>1. GoodSvc(x)
      BY <1>2, Zenon
    <3>2. svcs'[s][k] = x \/ \E j \in 1 .. Len(svcs[s]) : svcs'[s][k] = svcs[s][j]
      BY <1>4, <2>1, Zenon DEF Grown
    <3>. QED
      BY <2>1, <3>1, <3>2, Zenon DEF SvcsGood
  <2>2. CASE t # s
    BY <1>3, <2>2, Zenon DEF SvcsGood
  <2>. QED
    BY <2>1, <2>2, Zenon
<1>6. held'["eip"] \subseteq held["eip"]
  BY PutSvcKeeps, Zenon DEF IInv
<1>. QED
  BY <1>3, <1>4, <1>5, <1>6, Zenon DEF Grown

\* The two ends of a window of a Service are good versions.
LEMMA SvcEndsGood ==
  ASSUME IInv, SvcsGood, NEW s \in Svcs
  PROVE  /\ Cached(svcs[s]) \in SvcObj /\ Api(svcs[s]) \in SvcObj
         /\ GoodSvc(Cached(svcs[s])) /\ GoodSvc(Api(svcs[s]))
         /\ Fresh(svcs[s]) => Api(svcs[s]) = Cached(svcs[s])
<1>1. svcs[s] \in Seq(SvcObj) /\ svcs[s] # <<>>
  BY Zenon DEF IInv, SvcsInv
<1>2. /\ Api(svcs[s]) \in SvcObj /\ Cached(svcs[s]) \in SvcObj /\ Len(svcs[s]) \in Nat \ {0}
      /\ Api(svcs[s]) = svcs[s][Len(svcs[s])] /\ Cached(svcs[s]) = svcs[s][1]
      /\ Fresh(svcs[s]) => Api(svcs[s]) = Cached(svcs[s])
  BY <1>1, WindowEnds, Zenon
<1>3. 1 \in 1 .. Len(svcs[s]) /\ Len(svcs[s]) \in 1 .. Len(svcs[s])
  BY <1>2
<1>. QED
  BY <1>2, <1>3, Zenon DEF SvcsGood

\* The two ends of a window of an Eip are sound versions.
LEMMA EipEndsSound ==
  ASSUME IInv, EipsSound, NEW e \in Eips
  PROVE  /\ GoodEip(e, CachedEip(e)) /\ GoodEip(e, Api(eips[e]))
         /\ Sound(CachedEip(e)) /\ Sound(Api(eips[e]))
         /\ AllDeleting(e) => CachedEip(e).deleting /\ Api(eips[e]).deleting
         /\ Fresh(eips[e]) => /\ Api(eips[e]) = CachedEip(e)
                              /\ \A k \in 1 .. Len(eips[e]) : eips[e][k] = Api(eips[e])
<1>1. GoodWindow(e, eips[e]) /\ eips[e] \in Seq(EipObj(e)) /\ eips[e] # <<>>
  BY Zenon DEF IInv, EipsInv, GoodWindow
<1>2. /\ Len(eips[e]) \in Nat \ {0}
      /\ Api(eips[e]) = eips[e][Len(eips[e])] /\ Cached(eips[e]) = eips[e][1]
      /\ Fresh(eips[e]) => Api(eips[e]) = Cached(eips[e])
  BY <1>1, WindowEnds, Zenon
<1>3. 1 \in 1 .. Len(eips[e]) /\ Len(eips[e]) \in 1 .. Len(eips[e])
  BY <1>2
<1>4. Fresh(eips[e]) => \A k \in 1 .. Len(eips[e]) : k = 1
  BY DEF Fresh
<1>5. GoodEip(e, Cached(eips[e])) /\ GoodEip(e, Api(eips[e]))
  BY <1>1, GoodEnds, Zenon
<1>. QED
  BY <1>2, <1>3, <1>4, <1>5, Zenon DEF EipsSound, AllDeleting, CachedEip

------------------------------------------------------------------------------
(* Records.                                                                *)

\* An address names its pool and an offset in it.
LEMMA AddrParts ==
  ASSUME NEW a \in Addrs
  PROVE  a[1] \in Eips /\ a[2] \in Offsets(a[1]) /\ a = <<a[1], a[2]>>
  BY DEF Addrs, AddrsOf

\* A version of pool e that gives Service t no record it did not have.
NoneAdded(e, obj, t) ==
    \A i \in Offsets(e) : t \in obj.used[i] /\ ~obj.deleting =>
                            t \in Api(eips[e]).used[i] /\ ~Api(eips[e]).deleting

\* Writing it gives Service t no record.
LEMMA WroteRecs ==
  ASSUME NEW e \in Eips, NEW obj, Wrote(e, Api(eips[e]), obj), NEW t, NoneAdded(e, obj, t)
  PROVE  Recs(t)' \subseteq Recs(t)
<1>. SUFFICES ASSUME NEW a \in Addrs, ~Api(eips'[a[1]]).deleting, t \in Api(eips'[a[1]]).used[a[2]]
              PROVE  ~Api(eips[a[1]]).deleting /\ t \in Api(eips[a[1]]).used[a[2]]
  BY Zenon DEF Recs, Holders
<1>1. a[1] \in Eips /\ a[2] \in Offsets(a[1])
  BY AddrParts, Zenon
<1>2. CASE a[1] = e
  BY <1>1, <1>2, Zenon DEF Wrote, NoneAdded
<1>3. CASE a[1] # e
  BY <1>1, <1>3, Zenon DEF Wrote
<1>. QED
  BY <1>2, <1>3, Zenon

\* A version of pool e that keeps the records of Service t.
NoneLost(e, obj, t) == \A i \in Offsets(e) : t \in Api(eips[e]).used[i] => t \in obj.used[i]

\* Writing it keeps them.
LEMMA WroteHolders ==
  ASSUME NEW e \in Eips, NEW obj, Wrote(e, Api(eips[e]), obj), NEW t, NoneLost(e, obj, t),
         NEW a \in Addrs, t \in Holders(a)
  PROVE  t \in Holders(a)'
<1>1. a[1] \in Eips /\ a[2] \in Offsets(a[1])
  BY AddrParts, Zenon
<1>2. CASE a[1] = e
  BY <1>1, <1>2, Zenon DEF Wrote, NoneLost, Holders
<1>3. CASE a[1] # e
  BY <1>1, <1>3, Zenon DEF Wrote, Holders
<1>. QED
  BY <1>2, <1>3, Zenon

\* Fewer records are no second ones.
LEMMA OneRecordKept ==
  ASSUME OneRecord, \A t \in Svcs : Recs(t)' \subseteq Recs(t)
  PROVE  OneRecord'
  BY Zenon DEF OneRecord

------------------------------------------------------------------------------
(* What a step leaves alone.                                               *)

\* No Service but x comes to rest in this step.
OnlySettles(x) == \A t \in Svcs \ {x} : Still(t)' => Still(t) /\ svcs'[t] = svcs[t]

\* The service worker does nothing, and every Service that changed is to be
\* heard of.
LbPauses ==
    /\ lb' = lb /\ lbq \subseteq lbq'
    /\ \A t \in Svcs : svcs'[t] = svcs[t] \/ ~Unstirred(t)'

\* Then no Service comes to rest.
LEMMA NoneSettles ==
  ASSUME LbPauses
  PROVE  /\ OnlySettles(Nil)
         /\ \A t \in Svcs : Unstirred(t)' => Unstirred(t) /\ svcs'[t] = svcs[t]
<1>1. \A t \in Svcs : Unstirred(t)' => Unstirred(t) /\ svcs'[t] = svcs[t]
  BY Zenon DEF LbPauses, Unstirred
<1>2. Leaves' = Leaves
  BY Zenon DEF LbPauses, Leaves
<1>. QED
  BY <1>1, <1>2, Zenon DEF OnlySettles, Still, LbPauses

\* And what the worker relies on stays true.
LEMMA LbRestKept ==
  ASSUME IInv, LbRest, LbPauses, Onward, \A t \in Svcs : Recs(t)' \subseteq Recs(t)
  PROVE  LbRest'
<1>. SUFFICES ASSUME lb.pc # "idle" PROVE LbRest'
  BY Zenon DEF LbRest, LbPauses
<1>1. lb.svc \in Svcs /\ lb' = lb
  BY Zenon DEF IInv, LbInv, LbPauses
<1>2. Recs(lb.svc)' \subseteq Recs(lb.svc)
  BY <1>1, Zenon
<1>3. Unstirred(lb.svc)' => lb.old = Api(svcs'[lb.svc]) /\ (lb.pc = "status" => lb.old.label = lb.new.label)
  BY <1>1, NoneSettles, Zenon DEF LbRest
<1>4. ASSUME lb.pc = "release", NEW a \in Recs(lb.svc)' PROVE a[1] = lb.req.from /\ InAll(a, lb.svc)'
  <2>1. a[1] = lb.req.from /\ InAll(a, lb.svc)
    BY <1>2, <1>4, Zenon DEF LbRest
  <2>2. a[1] \in Eips /\ ~Api(eips'[a[1]]).deleting /\ lb.svc \in Api(eips'[a[1]]).used[a[2]]
    <3>1. a \in {b \in Addrs : ~Api(eips'[b[1]]).deleting /\ lb.svc \in Api(eips'[b[1]]).used[b[2]]}
      BY <1>1, <1>4, Zenon DEF Recs, Holders
    <3>. QED
      BY <3>1, AddrParts, Zenon
  <2>3. \A k \in 1 .. Len(eips'[a[1]]) : ~eips'[a[1]][k].deleting /\ lb.svc \in eips'[a[1]][k].used[a[2]]
    BY <2>1, <2>2, ZenonT(30) DEF Onward, InAll
  <2>. QED
    BY <1>1, <2>1, <2>3, Zenon DEF InAll
<1>5. Result => Result'
  BY <1>1, <1>2, Zenon DEF Result
<1>. QED
  BY <1>1, <1>2, <1>3, <1>4, <1>5, Zenon DEF LbRest

\* Agreement is not disturbed for Services that gain and lose no record.
LEMMA AgreeKept ==
  ASSUME IInv, StillAgree, NEW x, OnlySettles(x),
         \A t \in Svcs \ {x} : Recs(t)' \subseteq Recs(t),
         \A t \in Svcs \ {x}, a \in Addrs : Still(t) /\ Api(svcs[t]).ingress = a /\ t \in Holders(a) => t \in Holders(a)',
         x \in Svcs /\ Still(x)' => Agree(x, Api(svcs[x]))'
  PROVE  StillAgree'
<1>. SUFFICES ASSUME NEW t \in Svcs, Still(t)' PROVE Agree(t, Api(svcs[t]))'
  BY Zenon DEF StillAgree
<1>1. CASE t = x
  BY <1>1, Zenon
<1>2. CASE t # x
  <2>1. Still(t) /\ svcs'[t] = svcs[t] /\ Recs(t)' \subseteq Recs(t)
    BY <1>2, Zenon DEF OnlySettles
  <2>2. Agree(t, Api(svcs[t]))
    BY <2>1, Zenon DEF StillAgree
  <2>3. Api(svcs[t]).ingress \in Addrs \cup {Nil}
    BY SvcEnds, Zenon DEF IInv, SvcObj
  <2>4. ASSUME NEW a \in Addrs, Api(svcs[t]).ingress = a PROVE t \in Holders(a)'
    <3>1. a # Nil
      BY NilAssumption, Zenon DEF Addrs
    <3>2. t \in Holders(a)
      BY <2>2, <2>4, <3>1, Zenon DEF Agree
    <3>. QED
      BY <1>2, <2>1, <2>4, <3>2, Zenon
  <2>. QED
    BY <2>1, <2>2, <2>3, <2>4, Zenon DEF Agree
<1>. QED
  BY <1>1, <1>2, Zenon

\* A removal that goes on has still to see the Services it had to see.
LEMMA SeenKept ==
  ASSUME Seen, NEW x, OnlySettles(x), UNCHANGED ew, held'["eip"] \subseteq held["eip"],
         x \in Svcs /\ Removing /\ Still(x)' /\ Api(svcs'[x]).ingress # Nil => x \in ew.todo
  PROVE  Seen'
<1>. SUFFICES ASSUME Removing', NEW t \in Svcs, Still(t)', Api(svcs'[t]).ingress # Nil PROVE t \in ew.todo
  BY Zenon DEF Seen
<1>1. Removing
  BY Zenon DEF Removing
<1>2. CASE t = x
  BY <1>1, <1>2, Zenon
<1>3. CASE t # x
  BY <1>1, <1>3, Zenon DEF Seen, OnlySettles
<1>. QED
  BY <1>2, <1>3, Zenon

\* The Eip worker pauses, and no cache comes to show a deletion.
LEMMA EwPauses ==
  ASSUME EwCopy, Noticed, UNCHANGED ew, eipq \subseteq eipq', NoneDeleted
  PROVE  EwCopy' /\ Noticed'
  BY Zenon DEF EwCopy, Noticed, NoneDeleted

\* As long as a removal can take place no Service has a record that stays.
LEMMA RemovingRecs ==
  ASSUME Steady, IInv, EwCopy, Removing, NEW t
  PROVE  Recs(t) = {} /\ "deleteEip" \in UserOps /\ \A e \in Eips : e = ew.eip /\ Api(eips[e]).deleting
<1>1. ew.eip \in Eips /\ ew.obj = Api(eips[ew.eip]) /\ ew.obj.deleting /\ "deleteEip" \in UserOps
  BY Zenon DEF Removing, IInv, EwInv, CopyInv, EwCopy, Sound
<1>2. \A e \in Eips : e = ew.eip /\ Api(eips[e]).deleting
  BY <1>1, Zenon DEF Steady
<1>3. \A a \in Addrs : a \notin Recs(t)
  BY <1>2, AddrParts, Zenon DEF Recs
<1>. QED
  BY <1>1, <1>2, <1>3, Zenon DEF Recs

------------------------------------------------------------------------------
(* Users, watches, crashes.                                                *)

\* A step that leaves the Eips and the service worker alone.
LEMMA PausesRest ==
  ASSUME IInv, RestInv, LbPauses, UNCHANGED eips
  PROVE  EipsSound' /\ OneRecord' /\ LbRest' /\ StillAgree' /\ NoneDeleted /\ OnlySettles(Nil)
<1>1. /\ Onward /\ NoneDeleted /\ EipsSound' /\ OneRecord'
      /\ \A s : Recs(s)' = Recs(s)
      /\ \A a : Holders(a)' = Holders(a)
  BY SameEips, Zenon DEF RestInv
<1>2. \A t \in Svcs : Recs(t)' \subseteq Recs(t)
  BY <1>1, Zenon
<1>3. LbRest'
  BY <1>1, <1>2, LbRestKept, Zenon DEF RestInv
<1>4. OnlySettles(Nil) /\ Nil \notin Svcs
  BY NoneSettles, NilAssumption, Zenon
<1>5. StillAgree'
  BY <1>1, <1>2, <1>4, AgreeKept, Zenon DEF RestInv
<1>. QED
  BY <1>1, <1>3, <1>4, <1>5, Zenon

\* A user's edit of a Service.
LEMMA UserSvcRest ==
  ASSUME Ordinary, IInv, RestInv, NEW s \in Svcs, CreateSvc(s) \/ EditSvc(s) \/ DeleteSvc(s)
  PROVE  RestInv'
<1>1. /\ Api(svcs[s]) \in SvcObj /\ GoodSvc(Api(svcs[s]))
      /\ GoneSvc \in SvcObj
  BY SvcEndsGood, Zenon DEF RestInv, GoneSvc, SvcObj, NoSpec, Spec0
<1>2. \A x \in SvcObj, spec \in Specs :
        /\ [x EXCEPT !.exists = TRUE, !.spec = spec] \in SvcObj
        /\ GoodSvc([x EXCEPT !.exists = TRUE, !.spec = spec])
        /\ [x EXCEPT !.spec = spec] \in SvcObj
        /\ x.exists => GoodSvc([x EXCEPT !.spec = spec])
        /\ [x EXCEPT !.deleting = TRUE] \in SvcObj
        /\ GoodSvc(x) => GoodSvc([x EXCEPT !.deleting = TRUE])
  BY SpecsAssumption, ZenonT(30) DEF SvcObj, GoodSvc, Ordinary
<1>3. PICK obj \in SvcObj :
        GoodSvc(obj) /\ PutSvc(s, obj, "user") /\ UNCHANGED <<eips, lbq, eipq, lb, ew, faults>>
  <2>1. CASE CreateSvc(s)
    BY <1>1, <1>2, <2>1, Zenon DEF CreateSvc
  <2>2. CASE EditSvc(s)
    BY <1>1, <1>2, <2>2, Zenon DEF EditSvc
  <2>3. CASE DeleteSvc(s)
    <3>1. [Api(svcs[s]) EXCEPT !.deleting = TRUE] \in SvcObj /\ GoodSvc([Api(svcs[s]) EXCEPT !.deleting = TRUE])
      <4>1. GoodSvc([Api(svcs[s]) EXCEPT !.deleting = TRUE])
        BY <1>1, Zenon DEF GoodSvc, SvcObj
      <4>2. [Api(svcs[s]) EXCEPT !.deleting = TRUE] \in SvcObj
        BY <1>1, Zenon DEF SvcObj
      <4>. QED
        BY <4>1, <4>2, Zenon
    <3>. QED
      BY <2>3, <3>1, Zenon DEF DeleteSvc
  <2>. QED
    BY <2>1, <2>2, <2>3, Zenon
<1>4. /\ SvcsGood' /\ ~Fresh(svcs'[s]) /\ \A t \in Svcs \ {s} : svcs'[t] = svcs[t]
      /\ held'["eip"] \subseteq held["eip"]
  BY <1>3, PutSvcRest, Zenon DEF RestInv
<1>5. LbPauses
  BY <1>3, <1>4, Zenon DEF LbPauses, Unstirred
<1>6. EipsSound' /\ OneRecord' /\ LbRest' /\ StillAgree' /\ NoneDeleted /\ OnlySettles(Nil)
  BY <1>3, <1>5, PausesRest, Zenon
<1>7. EwCopy' /\ Noticed'
  BY <1>3, <1>6, EwPauses, Zenon DEF RestInv
<1>8. Seen'
  BY <1>3, <1>4, <1>6, SeenKept, NilAssumption, Zenon DEF RestInv
<1>. QED
  BY <1>4, <1>6, <1>7, <1>8, Zenon DEF RestInv

\* A Node event queues Services.
LEMMA NodeChangeRest ==
  ASSUME IInv, RestInv, NodeChange
  PROVE  RestInv'
<1>1. UNCHANGED <<eips, svcs, eipq, lb, ew, held>> /\ lbq \subseteq lbq'
  BY Zenon DEF NodeChange
<1>2. LbPauses
  BY <1>1, Zenon DEF LbPauses
<1>3. EipsSound' /\ OneRecord' /\ LbRest' /\ StillAgree' /\ NoneDeleted /\ OnlySettles(Nil)
  BY <1>1, <1>2, PausesRest, Zenon
<1>4. EwCopy' /\ Noticed'
  BY <1>1, <1>3, EwPauses, Zenon DEF RestInv
<1>5. Seen'
  BY <1>1, <1>3, SeenKept, NilAssumption, Zenon DEF RestInv
<1>6. SvcsGood'
  BY <1>1, Zenon DEF RestInv, SvcsGood
<1>. QED
  BY <1>3, <1>4, <1>5, <1>6, Zenon DEF RestInv

\* The delivery of a version of a Service queues it, unless the Service is gone.
LEMMA DeliverSvcRest ==
  ASSUME IInv, RestInv, NEW s \in Svcs, DeliverSvc(s)
  PROVE  RestInv'
<1>. DEFINE w == svcs[s]
<1>1. /\ UNCHANGED <<eips, eipq, lb, ew, held>> /\ lbq \subseteq lbq'
      /\ svcs'[s] = Tail(w) /\ \A t \in Svcs \ {s} : svcs'[t] = svcs[t]
      /\ w \in Seq(SvcObj) /\ w # <<>> /\ ~Fresh(w)
  BY Zenon DEF DeliverSvc, IInv, SvcsInv
<1>2. \A k \in 1 .. Len(Tail(w)) : \E j \in 1 .. Len(w) : Tail(w)[k] = w[j]
  BY <1>1, WindowTail, Zenon
<1>3. SvcsGood'
  <2>. SUFFICES ASSUME NEW t \in Svcs, NEW k \in 1 .. Len(svcs'[t]) PROVE GoodSvc(svcs'[t][k])
    BY Zenon DEF SvcsGood
  <2>1. CASE t = s
    BY <1>1, <1>2, <2>1, Zenon DEF RestInv, SvcsGood
  <2>2. CASE t # s
    BY <1>1, <2>2, Zenon DEF RestInv, SvcsGood
  <2>. QED
    BY <2>1, <2>2, Zenon
<1>4. ASSUME Fresh(svcs'[s]), Api(svcs'[s]).exists PROVE s \in lbq'
  <2>1. Api(svcs'[s]) = w[2] /\ 2 \in 1 .. Len(w)
    <3>1. /\ Len(w) \in Nat /\ Len(Tail(w)) = Len(w) - 1
          /\ \A k \in 1 .. Len(w) - 1 : Tail(w)[k] = w[k + 1]
      BY <1>1, TailParts, Zenon
    <3>. HIDE DEF w
    <3>2. Len(w) = 2
      BY <1>1, <1>4, <3>1 DEF Fresh
    <3>3. Tail(w)[1] = w[2]
      BY <3>1, <3>2
    <3>. QED
      <4>1. Len(Tail(w)) = 1 /\ 2 \in 1 .. Len(w)
        BY <3>1, <3>2
      <4>2. svcs'[s] = Tail(w)
        BY <1>1, Zenon
      <4>. QED
        BY <3>3, <4>1, <4>2, Zenon DEF Api
  <2>2. w[2].exists /\ GoodSvc(w[2])
    BY <1>4, <2>1, Zenon DEF RestInv, SvcsGood
  <2>3. IsOpenELBService(w[2])
    BY <2>2, Zenon DEF GoodSvc, IsOpenELBService
  <2>. QED
    BY <2>2, <2>3, Zenon DEF DeliverSvc
<1>5. LbPauses
  BY <1>1, <1>4, Zenon DEF LbPauses, Unstirred
<1>6. EipsSound' /\ OneRecord' /\ LbRest' /\ StillAgree' /\ NoneDeleted /\ OnlySettles(Nil)
  BY <1>1, <1>5, PausesRest, Zenon
<1>7. EwCopy' /\ Noticed'
  BY <1>1, <1>6, EwPauses, Zenon DEF RestInv
<1>8. Seen'
  BY <1>1, <1>6, SeenKept, NilAssumption, Zenon DEF RestInv
<1>. QED
  BY <1>3, <1>6, <1>7, <1>8, Zenon DEF RestInv

\* A delivery of a version of an Eip that shows a deletion queues the Eip.
LEMMA DeliverEipRest ==
  ASSUME IInv, RestInv, NEW e \in Eips, DeliverEip(e)
  PROVE  RestInv'
<1>. DEFINE w == eips[e]
<1>1. /\ UNCHANGED <<svcs, lb, ew, held>> /\ lbq \subseteq lbq' /\ eipq \subseteq eipq'
      /\ eips'[e] = Tail(w) /\ \A d \in Eips \ {e} : eips'[d] = eips[d]
      /\ w \in Seq(EipObj(e)) /\ w # <<>> /\ ~Fresh(w)
  BY Zenon DEF DeliverEip, IInv, EipsInv, GoodWindow
<1>2. /\ \A k \in 1 .. Len(Tail(w)) : \E j \in 1 .. Len(w) : Tail(w)[k] = w[j]
      /\ Api(Tail(w)) = Api(w)
  BY <1>1, WindowTail, Zenon
<1>3. \A d \in Eips : /\ Api(eips'[d]) = Api(eips[d])
                      /\ \A k \in 1 .. Len(eips'[d]) : \E j \in 1 .. Len(eips[d]) : eips'[d][k] = eips[d][j]
  <2>. TAKE d \in Eips
  <2>1. CASE d = e
    <3>1. eips'[d] = Tail(eips[d])
      BY <1>1, <2>1, Zenon
    <3>. QED
      BY <1>2, <2>1, <3>1, SMT
  <2>2. CASE d # e
    BY <1>1, <2>2, Zenon
  <2>. QED
    BY <2>1, <2>2, Zenon
<1>4. EipsSound' /\ Onward
  BY <1>3, ZenonT(30) DEF RestInv, EipsSound, Onward
<1>5. \A t : Recs(t)' = Recs(t)
  BY <1>3, AddrParts, Zenon DEF Recs, Holders
<1>6. \A a \in Addrs : Holders(a)' = Holders(a)
  BY <1>3, AddrParts, Zenon DEF Holders
<1>7. LbPauses
  BY <1>1, Zenon DEF LbPauses
<1>8. OneRecord' /\ LbRest'
  BY <1>4, <1>5, <1>7, LbRestKept, OneRecordKept, Zenon DEF RestInv
<1>9. OnlySettles(Nil)
  BY <1>7, NoneSettles, Zenon
<1>10. StillAgree' /\ Seen'
  BY <1>1, <1>5, <1>6, <1>9, AgreeKept, SeenKept, NilAssumption, Zenon DEF RestInv
<1>11. EwCopy' /\ SvcsGood'
  BY <1>1, Zenon DEF RestInv, EwCopy, SvcsGood
<1>12. Noticed'
  <2>. SUFFICES ASSUME NEW d \in Eips, AllDeleting(d)' PROVE d \in eipq' \/ (ew.pc = "remove" /\ ew.eip = d)
    BY <1>1, Zenon DEF Noticed
  <2>1. CASE d # e
    BY <1>1, <2>1, Zenon DEF RestInv, Noticed, AllDeleting
  <2>2. CASE d = e /\ w[1].deleting
    <3>1. Len(w) \in Nat /\ Len(Tail(w)) = Len(w) - 1 /\ \A k \in 1 .. Len(w) - 1 : Tail(w)[k] = w[k + 1]
      BY <1>1, TailParts, Zenon
    <3>2. ASSUME NEW k \in 1 .. Len(w) PROVE w[k].deleting
      <4>1. CASE k = 1
        BY <2>2, <4>1, Zenon
      <4>2. CASE k # 1
        <5>. HIDE DEF w
        <5>1. k - 1 \in 1 .. Len(Tail(w)) /\ Tail(w)[k - 1] = w[k]
          BY <3>1, <4>2
        <5>. QED
          BY <1>1, <2>2, <5>1, Zenon DEF AllDeleting
      <4>. QED
        BY <4>1, <4>2, Zenon
    <3>. QED
      BY <1>1, <2>2, <3>2, Zenon DEF RestInv, Noticed, AllDeleting
  <2>3. CASE d = e /\ ~w[1].deleting
    <3>1. 1 \in 1 .. Len(Tail(w)) /\ Tail(w)[1] = w[2] /\ 2 \in 1 .. Len(w)
      <4>1. Len(w) \in Nat \ {0} /\ Len(Tail(w)) = Len(w) - 1 /\ \A k \in 1 .. Len(w) - 1 : Tail(w)[k] = w[k + 1]
        BY <1>1, TailParts, Zenon
      <4>. HIDE DEF w
      <4>. QED
        BY <1>1, <4>1 DEF Fresh
    <3>2. w[2].deleting /\ w[2].exists
      BY <1>1, <2>3, <3>1, Zenon DEF AllDeleting, RestInv, EipsSound, Sound
    <3>. QED
      BY <2>3, <3>2, Zenon DEF DeliverEip
  <2>. QED
    BY <2>1, <2>2, <2>3, Zenon
<1>. QED
  BY <1>4, <1>8, <1>10, <1>11, <1>12, Zenon DEF RestInv

\* The process that takes over after a crash has every Service that exists and
\* every Eip to look at.
LEMMA CrashRest ==
  ASSUME IInv, RestInv, Crash
  PROVE  RestInv'
<1>1. \A e \in Eips : eips'[e] = <<Api(eips[e])>> /\ Api(eips'[e]) = Api(eips[e])
  BY DEF Crash, Api
<1>2. \A s \in Svcs : svcs'[s] = <<Api(svcs[s])>> /\ Api(svcs'[s]) = Api(svcs[s])
  BY DEF Crash, Api
<1>3. \A x : Len(<<x>>) = 1 /\ <<x>>[1] = x /\ 1 .. 1 = {1}
  OBVIOUS
<1>4. \A s \in Svcs : GoodSvc(Api(svcs[s]))
  BY SvcEndsGood, Zenon DEF RestInv
<1>5. \A e \in Eips : Sound(Api(eips[e]))
  BY EipEndsSound, Zenon DEF RestInv
<1>6. SvcsGood'
  <2>. SUFFICES ASSUME NEW s \in Svcs, NEW k \in 1 .. Len(svcs'[s]) PROVE GoodSvc(svcs'[s][k])
    BY Zenon DEF SvcsGood
  <2>. QED
    BY <1>2, <1>3, <1>4, Zenon
<1>7. EipsSound'
  <2>. SUFFICES ASSUME NEW e \in Eips, NEW k \in 1 .. Len(eips'[e]) PROVE Sound(eips'[e][k])
    BY Zenon DEF EipsSound
  <2>. QED
    BY <1>1, <1>3, <1>5, Zenon
<1>8. \A t : Recs(t)' = Recs(t)
  BY <1>1, AddrParts, Zenon DEF Recs, Holders
<1>9. OneRecord'
  BY <1>8, OneRecordKept, Zenon DEF RestInv
<1>10. lb'.pc = "idle" /\ ew'.pc = "idle"
  BY Zenon DEF Crash, LbIdle, EwIdle
<1>11. LbRest' /\ EwCopy' /\ Seen'
  BY <1>10, Zenon DEF LbRest, EwCopy, Seen, Removing
<1>12. \A s \in Svcs : ~Unstirred(s)'
  <2>. SUFFICES ASSUME NEW s \in Svcs, Api(svcs[s]).exists PROVE s \in lbq'
    BY <1>2, Zenon DEF Unstirred
  <2>1. IsOpenELBService(Api(svcs[s]))
    BY <1>4, Zenon DEF GoodSvc, IsOpenELBService
  <2>. QED
    BY <2>1, Zenon DEF Crash
<1>13. StillAgree'
  BY <1>12, Zenon DEF StillAgree, Still
<1>14. Noticed'
  <2>. SUFFICES ASSUME NEW e \in Eips, AllDeleting(e)' PROVE e \in eipq'
    BY Zenon DEF Noticed
  <2>1. Api(eips[e]).deleting
    <3>1. Len(eips'[e]) = 1 /\ eips'[e][1] = Api(eips[e]) /\ 1 \in 1 .. 1
      BY <1>1, <1>3
    <3>2. 1 \in 1 .. Len(eips'[e])
      BY <3>1, Zenon
    <3>3. eips'[e][1].deleting
      BY <3>2, Zenon DEF AllDeleting
    <3>. QED
      BY <3>1, <3>3, Zenon
  <2>. QED
    BY <1>5, <2>1, Zenon DEF Sound, Crash
<1>. QED
  BY <1>6, <1>7, <1>9, <1>11, <1>13, <1>14, Zenon DEF RestInv

\* A write of an Eip that adds no records, and takes away none of a Service at
\* rest that shows an address.
LEMMA EipWritten ==
  ASSUME IInv, RestInv, NEW e \in Eips, NEW obj, GoodEip(e, obj), Sound(obj), NEW w, PutEip(e, obj, w),
         UNCHANGED <<svcs, lb, lbq>>,
         \A t \in Svcs : NoneAdded(e, obj, t),
         \A t \in Svcs : Still(t) /\ Api(svcs[t]).ingress # Nil => NoneLost(e, obj, t)
  PROVE  /\ SvcsGood' /\ EipsSound' /\ OneRecord' /\ LbRest' /\ StillAgree' /\ NoneDeleted /\ OnlySettles(Nil)
         /\ OthersLose(e, w)
<1>1. /\ EipsSound' /\ Onward /\ NoneDeleted
      /\ Wrote(e, Api(eips[e]), obj) /\ OthersLose(e, w)
  BY PutEipRest, Zenon DEF RestInv
<1>2. \A t \in Svcs : Recs(t)' \subseteq Recs(t)
  BY <1>1, WroteRecs, Zenon
<1>3. LbPauses
  BY Zenon DEF LbPauses
<1>4. OneRecord' /\ LbRest'
  BY <1>1, <1>2, <1>3, OneRecordKept, LbRestKept, Zenon DEF RestInv
<1>5. OnlySettles(Nil) /\ Nil \notin Svcs
  BY <1>3, NoneSettles, NilAssumption, Zenon
<1>6. ASSUME NEW t \in Svcs, NEW a \in Addrs, Still(t), Api(svcs[t]).ingress = a, t \in Holders(a)
      PROVE  t \in Holders(a)'
  <2>1. Api(svcs[t]).ingress # Nil
    BY <1>6, NilAssumption, Zenon DEF Addrs
  <2>2. NoneLost(e, obj, t)
    BY <1>6, <2>1, Zenon
  <2>. QED
    BY <1>1, <1>6, <2>2, WroteHolders, Zenon
<1>7. StillAgree'
  BY <1>2, <1>5, <1>6, AgreeKept, Zenon DEF RestInv
<1>8. SvcsGood'
  BY Zenon DEF RestInv, SvcsGood
<1>. QED
  BY <1>1, <1>4, <1>5, <1>7, <1>8, Zenon

\* A pool that has no size yet has no records.
LEMMA UnreadyEmpty ==
  ASSUME Counting, NEW e \in Eips, NEW obj, GoodEip(e, obj), ~obj.ready
  PROVE  \A i \in Offsets(e) : obj.used[i] = {}
<1>1. obj.used \in Assignment(e) /\ LenUsed(obj.used) = 0
  BY Zenon DEF GoodEip, EipObj, StatusOK, Assignment
<1>2. Taken(obj.used) = {}
  BY <1>1, LenUsedBounds, Zenon
<1>. QED
  BY <1>1, <1>2, Zenon DEF Taken, Assignment

\* An Eip that is gone, or new, is sound and has no records.
LEMMA EmptySound ==
  ASSUME Counting, NEW e \in Eips
  PROVE  /\ GoodEip(e, GoneEip(e)) /\ Sound(GoneEip(e)) /\ ~GoneEip(e).deleting
         /\ GoodEip(e, NewEip(e)) /\ Sound(NewEip(e)) /\ ~NewEip(e).deleting
         /\ \A i \in Offsets(e) : GoneEip(e).used[i] = {} /\ NewEip(e).used[i] = {}
<1>1. GoodEip(e, GoneEip(e)) /\ GoodEip(e, NewEip(e))
  BY EmptyPools, EmptyNoGhost, Zenon DEF GoodEip
<1>2. ~GoneEip(e).deleting /\ ~GoneEip(e).ready /\ ~NewEip(e).deleting /\ ~NewEip(e).ready
  BY Zenon DEF GoneEip, NewEip
<1>3. \A i \in Offsets(e) : GoneEip(e).used[i] = {} /\ NewEip(e).used[i] = {}
  BY <1>1, <1>2, UnreadyEmpty, Zenon
<1>. QED
  BY <1>1, <1>2, <1>3, Zenon DEF Sound

\* A user's edit of an Eip takes no record of an existing pool away.
LEMMA UserEipRest ==
  ASSUME Counting, IInv, RestInv, NEW e \in Eips, CreateEip(e) \/ ToggleEip(e) \/ DeleteEip(e)
  PROVE  RestInv'
<1>. DEFINE old == Api(eips[e])
            Suits(obj) == /\ GoodEip(e, obj) /\ Sound(obj)
                          /\ \A t \in Svcs : NoneAdded(e, obj, t) /\ NoneLost(e, obj, t)
<1>1. GoodEip(e, old) /\ Sound(old)
  BY EipEndsSound, Zenon DEF RestInv
<1>2. /\ GoodEip(e, GoneEip(e)) /\ Sound(GoneEip(e)) /\ GoodEip(e, NewEip(e)) /\ Sound(NewEip(e))
      /\ \A i \in Offsets(e) : GoneEip(e).used[i] = {} /\ NewEip(e).used[i] = {}
  BY EmptySound, Zenon
<1>3. /\ \E obj : Suits(obj) /\ PutEip(e, obj, "user")
      /\ UNCHANGED <<svcs, lbq, eipq, lb, ew, faults>>
  <2>1. CASE CreateEip(e)
    <3>1. \A i \in Offsets(e) : old.used[i] = {}
      BY <1>1, <2>1, Zenon DEF GoodEip, NoGhost, CreateEip
    <3>2. Suits(NewEip(e))
      BY <1>2, <3>1, Zenon DEF NoneAdded, NoneLost
    <3>3. PutEip(e, NewEip(e), "user") /\ UNCHANGED <<svcs, lbq, eipq, lb, ew, faults>>
      BY <2>1, Zenon DEF CreateEip
    <3>. HIDE DEF Suits
    <3>. QED
      BY <3>2, <3>3, Zenon
  <2>2. CASE ToggleEip(e)
    <3>. DEFINE new == [old EXCEPT !.disable = ~@]
    <3>1. /\ GoodEip(e, new) /\ new.used = old.used /\ new.deleting = old.deleting
          /\ new.ready = old.ready /\ new.fin = old.fin /\ new.exists = old.exists
      BY <1>1, ZenonT(30) DEF GoodEip, EipObj, StatusOK, NoGhost
    <3>2. PutEip(e, new, "user") /\ UNCHANGED <<svcs, lbq, eipq, lb, ew, faults>>
      BY <2>2, Zenon DEF ToggleEip
    <3>. HIDE DEF new
    <3>3. Suits(new)
      BY <1>1, <3>1, Zenon DEF Sound, NoneAdded, NoneLost
    <3>. HIDE DEF Suits
    <3>. QED
      BY <3>2, <3>3, Zenon
  <2>3. CASE DeleteEip(e) /\ old.fin
    <3>. DEFINE new == [old EXCEPT !.deleting = TRUE]
    <3>1. /\ GoodEip(e, new) /\ new.used = old.used /\ new.deleting = TRUE
          /\ new.ready = old.ready /\ new.fin = old.fin /\ new.exists = old.exists
      BY <1>1, ZenonT(30) DEF GoodEip, EipObj, StatusOK, NoGhost
    <3>2. PutEip(e, new, "user") /\ UNCHANGED <<svcs, lbq, eipq, lb, ew, faults>>
      BY <2>3, Zenon DEF DeleteEip
    <3>. HIDE DEF new
    <3>3. "deleteEip" \in UserOps /\ old.exists
      BY <2>3, Zenon DEF DeleteEip, UserOp
    <3>4. Suits(new)
      BY <1>1, <2>3, <3>1, <3>3, Zenon DEF Sound, NoneAdded, NoneLost
    <3>. HIDE DEF Suits
    <3>. QED
      BY <3>2, <3>4, Zenon
  <2>4. CASE DeleteEip(e) /\ ~old.fin
    <3>1. \A i \in Offsets(e) : old.used[i] = {}
      BY <1>1, <2>4, UnreadyEmpty, Zenon DEF Sound
    <3>2. Suits(GoneEip(e))
      BY <1>2, <3>1, Zenon DEF NoneAdded, NoneLost
    <3>3. PutEip(e, GoneEip(e), "user") /\ UNCHANGED <<svcs, lbq, eipq, lb, ew, faults>>
      BY <2>4, Zenon DEF DeleteEip
    <3>. HIDE DEF Suits
    <3>. QED
      BY <3>2, <3>3, Zenon
  <2>. QED
    BY <2>1, <2>2, <2>3, <2>4, Zenon
<1>4. PICK obj : Suits(obj) /\ PutEip(e, obj, "user")
  BY <1>3, Zenon
<1>5. /\ SvcsGood' /\ EipsSound' /\ OneRecord' /\ LbRest' /\ StillAgree' /\ NoneDeleted /\ OnlySettles(Nil)
      /\ held'["eip"] \subseteq held["eip"]
  BY <1>3, <1>4, EipWritten, Zenon DEF OthersLose
<1>6. EwCopy' /\ Noticed'
  BY <1>3, <1>5, EwPauses, Zenon DEF RestInv
<1>7. Seen'
  BY <1>3, <1>5, SeenKept, NilAssumption, Zenon DEF RestInv
<1>. QED
  BY <1>5, <1>6, <1>7, Zenon DEF RestInv

------------------------------------------------------------------------------
(* The Eip reconciler.                                                     *)

\* A write of the worker's Eip as the one in EipWritten, if it takes place.
EwSafe(new) ==
    ew.eip \in held["eip"] =>
      /\ \A t \in Svcs : NoneAdded(ew.eip, new, t)
      /\ \A t \in Svcs : Still(t) /\ Api(svcs[t]).ingress # Nil => NoneLost(ew.eip, new, t)

\* An update of the worker's Eip.
LEMMA EwUpdateRest ==
  ASSUME IInv, RestInv, ew.pc # "idle", NEW new, GoodEip(ew.eip, new), Sound(new), EwSafe(new),
         NEW ok \in BOOLEAN, EwUpdate(new, ok), UNCHANGED <<svcs, lb, lbq>>
  PROVE  SvcsGood' /\ EipsSound' /\ OneRecord' /\ LbRest' /\ StillAgree' /\ NoneDeleted
<1>1. ew.eip \in Eips
  BY Zenon DEF IInv, EwInv
<1>2. CASE UNCHANGED eips
  <2>1. LbPauses
    BY Zenon DEF LbPauses
  <2>2. SvcsGood'
    BY Zenon DEF RestInv, SvcsGood
  <2>. QED
    BY <1>2, <2>1, <2>2, PausesRest, Zenon
<1>3. CASE ew.eip \in held["eip"] /\ PutEip(ew.eip, new, "eip")
  BY <1>1, <1>3, EipWritten, Zenon DEF EwSafe
<1>. QED
  BY <1>2, <1>3, Zenon DEF EwUpdate

\* The worker turns to Eip e: it lists every Service that shows an address when
\* e is to be removed.
LEMMA ReconcileEipRest ==
  ASSUME Steady, IInv, RestInv, NEW e \in Eips, ReconcileEip(e)
  PROVE  RestInv'
<1>. DEFINE obj == CachedEip(e)
<1>1. ew.pc = "idle" /\ UNCHANGED <<eips, svcs, lbq, lb>> /\ eipq' = eipq \ {e}
  BY Zenon DEF ReconcileEip
<1>2. LbPauses /\ SvcsGood'
  BY <1>1, Zenon DEF LbPauses, RestInv, SvcsGood
<1>3. EipsSound' /\ OneRecord' /\ LbRest' /\ StillAgree' /\ NoneDeleted /\ OnlySettles(Nil)
  BY <1>1, <1>2, PausesRest, Zenon
<1>4. Sound(obj) /\ (AllDeleting(e) => obj.deleting)
  BY EipEndsSound, Zenon DEF RestInv
<1>5. \A d \in Eips : AllDeleting(d)' => AllDeleting(d) /\ (d # e => d \in eipq')
  BY <1>1, <1>3, Zenon DEF NoneDeleted, RestInv, Noticed
<1>6. CASE ~obj.exists
  <2>1. UNCHANGED <<ew, held>>
    BY <1>6, Zenon DEF ReconcileEip
  <2>2. EwCopy' /\ Seen'
    BY <1>1, <2>1, Zenon DEF EwCopy, Seen, Removing
  <2>3. Noticed'
    BY <1>4, <1>5, <1>6, Zenon DEF Noticed, Sound
  <2>. QED
    BY <1>2, <1>3, <2>2, <2>3, Zenon DEF RestInv
<1>7. CASE obj.exists
  <2>. DEFINE removing == obj.deleting /\ obj.fin
              todo == IF removing THEN Labelled(e) ELSE {}
  <2>1. ew' = [pc |-> IF removing THEN "remove" ELSE IF ~obj.fin THEN "finalizer" ELSE "sync",
               eip |-> e, obj |-> obj, todo |-> todo]
    BY <1>7, Zenon DEF ReconcileEip
  <2>. HIDE DEF obj
  <2>2. /\ ew'.pc = IF removing THEN "remove" ELSE IF ~obj.fin THEN "finalizer" ELSE "sync"
        /\ ew'.eip = e /\ ew'.obj = obj /\ (removing => ew'.todo = Labelled(e))
    BY <2>1, Zenon
  <2>3. ew'.pc = "remove" <=> obj.deleting
    BY <1>4, <2>2, Zenon DEF Sound
  <2>4. EwCopy'
    BY <1>4, <1>7, <2>2, <2>3, Zenon DEF EwCopy
  <2>5. Noticed'
    BY <1>4, <1>5, <2>2, <2>3, Zenon DEF Noticed
  <2>6. Seen'
    <3>. SUFFICES ASSUME ew'.pc = "remove", NEW t \in Svcs, Still(t)', Api(svcs'[t]).ingress # Nil
                  PROVE  t \in Labelled(e)
      BY <1>4, <2>2, <2>3, Zenon DEF Seen, Removing, Sound
    <3>1. Still(t) /\ Api(svcs[t]).ingress # Nil
      BY <1>1, <1>3, NilAssumption, Zenon DEF OnlySettles
    <3>2. Api(svcs[t]).label # Nil
      BY <3>1, Zenon DEF RestInv, StillAgree, Agree
    <3>3. Api(svcs[t]) \in SvcObj /\ Cached(svcs[t]) = Api(svcs[t]) /\ Api(svcs[t]).exists
      BY <3>1, SvcEndsGood, Zenon DEF RestInv, Still, Unstirred
    <3>4. Api(svcs[t]).label \in Eips
      BY <3>2, <3>3, Zenon DEF SvcObj
    <3>5. Api(svcs[t]).label = e
      BY <1>4, <2>3, <3>4, Zenon DEF Steady, Sound
    <3>. QED
      BY <3>3, <3>5, Zenon DEF Labelled
  <2>. QED
    BY <1>2, <1>3, <2>4, <2>5, <2>6, Zenon DEF RestInv
<1>. QED
  BY <1>6, <1>7, Zenon

\* The worker ends its reconcile of an Eip.
LEMMA EwDoneRest ==
  ASSUME NEW failed \in BOOLEAN, EwDone(failed)
  PROVE  EwCopy' /\ Seen' /\ eipq \subseteq eipq' /\ (failed => ew.eip \in eipq')
<1>1. ew'.pc = "idle"
  BY DEF EwDone, EwIdle
<1>2. eipq \subseteq eipq' /\ (failed => ew.eip \in eipq')
  BY DEF EwDone
<1>. QED
  BY <1>1, <1>2, Zenon DEF EwCopy, Seen, Removing

\* Taking the label off a Service: no Service that shows an address and has lost
\* its label is at rest.
LEMMA RemoveLabelRest ==
  ASSUME IInv, RestInv, NEW s \in Svcs, RemoveLabel(s)
  PROVE  RestInv'
<1>. DEFINE old == Api(svcs[s])
            new == [old EXCEPT !.label = Nil]
<1>1. PICK ok \in BOOLEAN :
         /\ SvcUpdate(s, new, "eip", ok)
         /\ IF ok THEN ew' = [ew EXCEPT !.todo = @ \ {s}] /\ UNCHANGED eipq
            ELSE EwDone(TRUE)
  BY Zenon DEF RemoveLabel
<1>2. UNCHANGED <<eips, lbq, lb>> /\ ew.pc = "remove"
  BY Zenon DEF RemoveLabel
<1>3. old \in SvcObj /\ GoodSvc(old)
  BY SvcEndsGood, Zenon DEF RestInv
<1>4. new \in SvcObj /\ GoodSvc(new) /\ new.label = Nil
  BY <1>3, Zenon DEF SvcObj, GoodSvc
<1>. HIDE DEF new
<1>5. /\ SvcsGood' /\ held'["eip"] \subseteq held["eip"]
      /\ \A t \in Svcs \ {s} : svcs'[t] = svcs[t]
      /\ \/ svcs'[s] = svcs[s] /\ (ok => old.label = Nil)
         \/ ~Fresh(svcs'[s])
  <2>1. CASE UNCHANGED <<svcs, held>> /\ (ok => new = old)
    BY <1>4, <2>1, Zenon DEF RestInv, SvcsGood
  <2>2. CASE PutSvc(s, new, "eip")
    BY <1>4, <2>2, PutSvcRest, Zenon DEF RestInv
  <2>. QED
    BY <1>1, <2>1, <2>2, Zenon DEF SvcUpdate
<1>6. LbPauses
  BY <1>2, <1>5, Zenon DEF LbPauses, Unstirred
<1>7. EipsSound' /\ OneRecord' /\ LbRest' /\ StillAgree' /\ NoneDeleted /\ OnlySettles(Nil)
  BY <1>2, <1>6, PausesRest, Zenon
<1>8. CASE ok
  <2>1. /\ ew'.pc = ew.pc /\ ew'.eip = ew.eip /\ ew'.obj = ew.obj /\ ew'.todo = ew.todo \ {s}
        /\ eipq' = eipq
    BY <1>1, <1>8, Zenon DEF IInv, EwInv, EwState
  <2>2. EwCopy'
    BY <2>1, Zenon DEF RestInv, EwCopy
  <2>3. Noticed'
    BY <1>7, <2>1, Zenon DEF RestInv, Noticed, NoneDeleted
  <2>4. Seen'
    <3>. SUFFICES ASSUME Removing', NEW t \in Svcs, Still(t)', Api(svcs'[t]).ingress # Nil
                  PROVE  t \in ew'.todo
      BY Zenon DEF Seen
    <3>1. Still(t) /\ svcs'[t] = svcs[t]
      BY <1>7, NilAssumption, Zenon DEF OnlySettles
    <3>2. Removing
      BY <1>5, <2>1, Zenon DEF Removing
    <3>3. t \in ew.todo
      BY <3>1, <3>2, Zenon DEF RestInv, Seen
    <3>4. Api(svcs[t]).label # Nil /\ Fresh(svcs'[t])
      BY <3>1, Zenon DEF RestInv, StillAgree, Agree, Still, Unstirred
    <3>5. t # s
      BY <1>5, <1>8, <3>4, Zenon
    <3>. QED
      BY <2>1, <3>3, <3>5, Zenon
  <2>. QED
    BY <1>5, <1>7, <2>2, <2>3, <2>4, Zenon DEF RestInv
<1>9. CASE ~ok
  <2>1. EwDone(TRUE)
    BY <1>1, <1>9, Zenon
  <2>2. EwCopy' /\ Seen' /\ eipq \subseteq eipq' /\ ew.eip \in eipq'
    BY <2>1, EwDoneRest, Zenon
  <2>3. Noticed'
    BY <1>7, <2>2, Zenon DEF RestInv, Noticed, NoneDeleted
  <2>. QED
    BY <1>5, <1>7, <2>2, <2>3, Zenon DEF RestInv
<1>. QED
  BY <1>8, <1>9, Zenon

\* The Eip goes away, when no Service at rest shows an address.
LEMMA RemoveFinalizerRest ==
  ASSUME Counting, IInv, IInv', RestInv, RemoveFinalizer
  PROVE  RestInv'
<1>1. PICK ok \in BOOLEAN : EwUpdate(GoneEip(ew.eip), ok) /\ EwDone(~ok)
  BY Zenon DEF RemoveFinalizer
<1>2. ew.pc = "remove" /\ ew.todo = {} /\ UNCHANGED <<svcs, lbq, lb>> /\ ew.eip \in Eips
  BY Zenon DEF RemoveFinalizer, IInv, EwInv
<1>3. /\ GoodEip(ew.eip, GoneEip(ew.eip)) /\ Sound(GoneEip(ew.eip)) /\ ~GoneEip(ew.eip).deleting
      /\ \A i \in Offsets(ew.eip) : GoneEip(ew.eip).used[i] = {}
  BY <1>2, EmptySound, Zenon
<1>4. EwSafe(GoneEip(ew.eip))
  <2>1. \A t \in Svcs : NoneAdded(ew.eip, GoneEip(ew.eip), t)
    BY <1>3, Zenon DEF NoneAdded
  <2>2. ew.eip \in held["eip"] => \A t \in Svcs : ~(Still(t) /\ Api(svcs[t]).ingress # Nil)
    BY <1>2, Zenon DEF RestInv, Seen, Removing
  <2>. QED
    BY <2>1, <2>2, Zenon DEF EwSafe
<1>5. SvcsGood' /\ EipsSound' /\ OneRecord' /\ LbRest' /\ StillAgree' /\ NoneDeleted
  BY <1>1, <1>2, <1>3, <1>4, EwUpdateRest, Zenon
<1>6. EwCopy' /\ Seen' /\ eipq \subseteq eipq' /\ (~ok => ew.eip \in eipq')
  BY <1>1, EwDoneRest, Zenon
<1>7. \A d \in Eips : ok /\ d = ew.eip => ~AllDeleting(d)'
  <2>1. ok => Api(eips'[ew.eip]) = GoneEip(ew.eip)
    BY <1>1, <1>2, <1>3, EwUpdateKeeps, Zenon DEF IInv
  <2>2. \A d \in Eips : AllDeleting(d)' => Api(eips'[d]).deleting
    <3>. SUFFICES ASSUME NEW d \in Eips, AllDeleting(d)' PROVE Api(eips'[d]).deleting
      BY Zenon
    <3>1. eips'[d] \in Seq(EipObj(d)) /\ eips'[d] # <<>>
      BY Zenon DEF IInv, EipsInv, GoodWindow
    <3>2. Len(eips'[d]) \in Nat \ {0} /\ Api(eips'[d]) = eips'[d][Len(eips'[d])]
      BY <3>1, WindowEnds, Zenon
    <3>3. Len(eips'[d]) \in 1 .. Len(eips'[d])
      BY <3>2
    <3>. QED
      BY <3>2, <3>3, Zenon DEF AllDeleting
  <2>. QED
    BY <1>3, <2>1, <2>2, Zenon
<1>8. Noticed'
  BY <1>5, <1>6, <1>7, Zenon DEF RestInv, Noticed, NoneDeleted
<1>. QED
  BY <1>5, <1>6, <1>8, Zenon DEF RestInv

\* The finalizer is added to an Eip that is not deleted.
LEMMA AddFinalizerRest ==
  ASSUME IInv, RestInv, AddFinalizer
  PROVE  RestInv'
<1>. DEFINE obj == [ew.obj EXCEPT !.fin = TRUE]
<1>1. PICK ok \in BOOLEAN :
         /\ EwUpdate(obj, ok)
         /\ IF ok THEN ew' = [ew EXCEPT !.pc = "sync", !.obj = obj] /\ UNCHANGED eipq
            ELSE EwDone(TRUE)
  BY Zenon DEF AddFinalizer
<1>2. /\ ew \in EwState /\ ew.pc = "finalizer" /\ ew.eip \in Eips /\ GoodEip(ew.eip, ew.obj)
      /\ UNCHANGED <<svcs, lbq, lb>>
  BY Zenon DEF AddFinalizer, IInv, EwInv
<1>3. ew.obj.exists /\ Sound(ew.obj) /\ ~ew.obj.deleting /\ (ew.eip \in held["eip"] => ew.obj = Api(eips[ew.eip]))
  BY <1>2, Zenon DEF RestInv, EwCopy, IInv, CopyInv
<1>4. /\ GoodEip(ew.eip, obj) /\ obj.used = ew.obj.used /\ obj.fin = TRUE /\ obj.deleting = ew.obj.deleting
      /\ obj.exists = ew.obj.exists
  BY <1>2, ZenonT(30) DEF GoodEip, EipObj, StatusOK, NoGhost
<1>. HIDE DEF obj
<1>5. Sound(obj) /\ EwSafe(obj)
  BY <1>3, <1>4, Zenon DEF Sound, EwSafe, NoneAdded, NoneLost
<1>6. SvcsGood' /\ EipsSound' /\ OneRecord' /\ LbRest' /\ StillAgree' /\ NoneDeleted
  BY <1>1, <1>2, <1>4, <1>5, EwUpdateRest, Zenon
<1>7. EwCopy' /\ Seen' /\ eipq \subseteq eipq'
  <2>1. CASE ok
    <3>1. ew'.pc = "sync" /\ ew'.obj = obj /\ eipq' = eipq
      BY <1>1, <1>2, <2>1, Zenon DEF EwState
    <3>. QED
      BY <1>3, <1>4, <1>5, <3>1, Zenon DEF EwCopy, Seen, Removing
  <2>2. CASE ~ok
    BY <1>1, <2>2, EwDoneRest, Zenon
  <2>. QED
    BY <2>1, <2>2, Zenon
<1>8. Noticed'
  BY <1>2, <1>6, <1>7, Zenon DEF RestInv, Noticed, NoneDeleted
<1>. QED
  BY <1>6, <1>7, <1>8, Zenon DEF RestInv

\* syncEip forgets no Service at rest, for it finds it in the cache.
LEMMA SyncStatusRest ==
  ASSUME Counting, IInv, RestInv, SyncStatus
  PROVE  RestInv'
<1>. DEFINE present == {s \in Svcs : Cached(svcs[s]).exists}
            new == updateEip(ew.eip, ew.obj, present)
<1>1. ew.pc = "sync" /\ ew.eip \in Eips /\ GoodEip(ew.eip, ew.obj) /\ UNCHANGED <<svcs, lbq, lb>>
  BY Zenon DEF SyncStatus, IInv, EwInv
<1>2. /\ Sound(ew.obj) /\ ew.obj.fin /\ ~ew.obj.deleting
      /\ ew.eip \in held["eip"] => ew.obj = Api(eips[ew.eip])
  BY <1>1, Zenon DEF RestInv, EwCopy, IInv, CopyInv
<1>3. /\ GoodEip(ew.eip, new) /\ SameSpec(new, ew.obj)
      /\ \A i \in Offsets(ew.eip) : new.used[i] = ew.obj.used[i] \cap present
  <2>1. present \in SUBSET Svcs /\ ew.obj \in EipObj(ew.eip)
    BY <1>1, Zenon DEF GoodEip
  <2>. HIDE DEF present
  <2>2. GoodEip(ew.eip, new)
    BY <1>1, <2>1, UpdateGood, Zenon
  <2>3. SameSpec(new, ew.obj)
    BY <1>1, <2>1, UpdateKeeps, Zenon
  <2>4. ASSUME NEW i \in Offsets(ew.eip) PROVE new.used[i] = ew.obj.used[i] \cap present
    BY <1>1, <2>1, UpdateGood, SMTT(30)
  <2>. HIDE DEF new
  <2>. QED
    BY <2>2, <2>3, <2>4, Zenon
<1>. HIDE DEF new
<1>4. Sound(new)
  BY <1>2, <1>3, Zenon DEF Sound, SameSpec
<1>5. \A t \in Svcs : Still(t) => t \in present
  BY SvcEndsGood, Zenon DEF RestInv, Still, Unstirred
<1>6. EwSafe(new)
  <2>. HIDE DEF present
  <2>1. ew.eip \in held["eip"] => \A t \in Svcs : NoneAdded(ew.eip, new, t)
    BY <1>2, <1>3, Zenon DEF NoneAdded
  <2>2. ew.eip \in held["eip"] => \A t \in present : NoneLost(ew.eip, new, t)
    BY <1>2, <1>3, Zenon DEF NoneLost
  <2>. QED
    BY <1>5, <2>1, <2>2, Zenon DEF EwSafe
<1>7. /\ SvcsGood' /\ EipsSound' /\ OneRecord' /\ LbRest' /\ StillAgree' /\ NoneDeleted
      /\ \E failed \in BOOLEAN : EwDone(failed)
  <2>1. CASE EwDone(FALSE) /\ UNCHANGED <<eips, held, faults>>
    <3>1. LbPauses /\ SvcsGood'
      BY <1>1, Zenon DEF LbPauses, RestInv, SvcsGood
    <3>. QED
      BY <2>1, <3>1, PausesRest, Zenon
  <2>2. CASE \E ok \in BOOLEAN : EwUpdate(new, ok) /\ EwDone(~ok)
    BY <1>1, <1>3, <1>4, <1>6, <2>2, EwUpdateRest, Zenon
  <2>. QED
    BY <2>1, <2>2, Zenon DEF SyncStatus, new
<1>8. EwCopy' /\ Seen' /\ eipq \subseteq eipq'
  BY <1>7, EwDoneRest, Zenon
<1>9. Noticed'
  <2>. SUFFICES ASSUME NEW e \in Eips, AllDeleting(e)' PROVE e \in eipq'
    BY Zenon DEF Noticed
  <2>1. AllDeleting(e)
    BY <1>7, Zenon DEF NoneDeleted
  <2>2. e \in eipq
    BY <1>1, <2>1, Zenon DEF RestInv, Noticed
  <2>. QED
    BY <1>8, <2>2, Zenon
<1>. QED
  BY <1>7, <1>8, <1>9, Zenon DEF RestInv

------------------------------------------------------------------------------
(* The service reconciler.                                                 *)

\* The record getAllocatedEIPInfo finds in Eips that are up to date is the only
\* one, and it finds it if there is one.
LEMMA FoundRecord ==
  ASSUME IInv, RestInv, \A e \in Eips : Fresh(eips[e]), NEW s \in Svcs, NEW rec \in getAllocatedEIPInfo(s)
  PROVE  IF rec = Nil THEN Recs(s) = {} ELSE rec \in Addrs /\ Recs(s) = {rec}
<1>. DEFINE found == {a \in Addrs : LET obj == CachedEip(a[1])
                                    IN obj.exists /\ ~obj.deleting /\ s \in obj.used[a[2]]}
<1>1. \A a \in Addrs : a # Nil
  BY NilAssumption, Zenon DEF Addrs
<1>2. ASSUME NEW a \in Addrs, s \in Api(eips[a[1]]).used[a[2]]
      PROVE  Api(eips[a[1]]).exists
  <2>1. a[1] \in Eips /\ a[2] \in Offsets(a[1])
    BY AddrParts, Zenon
  <2>2. GoodEip(a[1], Api(eips[a[1]]))
    BY <2>1, EipEndsSound, Zenon DEF RestInv
  <2>. QED
    BY <1>2, <2>1, <2>2, Zenon DEF GoodEip, NoGhost
<1>3. \A a \in Addrs : CachedEip(a[1]) = Api(eips[a[1]])
  BY AddrParts, EipEndsSound, Zenon DEF RestInv
<1>4. found = Recs(s)
  BY <1>2, <1>3, Zenon DEF Recs, Holders
<1>5. rec \in IF found = {} THEN {Nil} ELSE found
  BY Zenon DEF getAllocatedEIPInfo
<1>. HIDE DEF found
<1>6. found \subseteq Addrs
  BY Zenon DEF found
<1>7. CASE found = {}
  BY <1>4, <1>5, <1>7, Zenon
<1>8. CASE found # {}
  <2>1. rec \in found /\ rec \in Addrs /\ rec # Nil
    BY <1>1, <1>5, <1>6, <1>8, Zenon
  <2>2. rec \in Recs(s) /\ \A b \in Recs(s) : b = rec
    BY <1>4, <2>1, Zenon DEF RestInv, OneRecord
  <2>3. Recs(s) = {rec}
    BY <2>2, Zenon
  <2>. QED
    BY <2>1, <2>3, Zenon
<1>. QED
  BY <1>7, <1>8, Zenon

\* What request req for version obj of Service s takes care of.
Fits(s, obj, req) ==
    /\ req.ip = Nil
    /\ req.alloc => obj.spec.wantEip \in {Nil, req.eip}
    /\ req.rel => \A a \in Recs(s) : a[1] = req.from
    /\ req.rel /\ ~req.alloc => obj.deleting \/ obj.spec.wantEip = Nil
    /\ ~req.rel /\ req.alloc => Recs(s) = {}
    /\ ~req.rel /\ ~req.alloc => Agree(s, obj) /\ (obj.ingress # Nil => Recs(s) # {})

\* ConstructRequest, looking at Eips that are up to date, releases whatever is
\* recorded unless it asks for nothing, and it asks for nothing only when
\* everything is as it should be.
LEMMA RequestFits ==
  ASSUME IInv, RestInv, \A e \in Eips : Fresh(eips[e]), NEW s \in Svcs,
         NEW obj \in SvcObj, obj.exists, GoodSvc(obj), NEW req \in ConstructRequest(s, obj)
  PROVE  Fits(s, obj, req)
<1>. DEFINE chosen == IF obj.spec.wantEip # Nil THEN {obj.spec.wantEip} ELSE getEIP(obj.spec.wantIP)
            release(rec) == constructRelease(obj, rec)
            Allocation(rec, e) == [release(rec) EXCEPT !.alloc = TRUE, !.eip = e, !.ip = obj.spec.wantIP]
            Options(rec) ==
              IF needRelease(obj) \/ chosen = {} THEN {release(rec)}
              ELSE {IF ~needUpdate(obj, rec, e) /\ obj.label # Nil THEN NoRequest
                    ELSE Allocation(rec, e) : e \in chosen}
<1>1. obj.spec.class = "lb" /\ obj.spec.wantIP = Nil
  BY Zenon DEF GoodSvc
<1>2. PICK rec \in getAllocatedEIPInfo(s) : req \in Options(rec)
  <2>1. ConstructRequest(s, obj) = UNION {Options(rec) : rec \in getAllocatedEIPInfo(s)}
    BY <1>1, Zenon DEF ConstructRequest
  <2>. HIDE DEF Options
  <2>. QED
    BY <2>1, Zenon
<1>3. IF rec = Nil THEN Recs(s) = {} ELSE rec \in Addrs /\ Recs(s) = {rec}
  BY <1>2, FoundRecord, Zenon
<1>. DEFINE any == rec # Nil \/ obj.ingress # Nil
            from == IF rec = Nil THEN Nil ELSE rec[1]
            whole == [rel |-> any, from |-> from, alloc |-> FALSE, eip |-> Nil, ip |-> Nil]
<1>a. release(rec) = whole
  <2>1. release(rec) = [NoRequest EXCEPT !.rel = any, !.from = from]
    BY Zenon DEF constructRelease
  <2>. HIDE DEF any, from, release
  <2>. QED
    BY <2>1, Zenon DEF NoRequest
<1>b. whole.rel = any /\ whole.from = from /\ whole.alloc = FALSE /\ whole.ip = Nil
  <2>. HIDE DEF any, from
  <2>. QED
    BY Zenon
<1>4. /\ release(rec).rel = (rec # Nil \/ obj.ingress # Nil)
      /\ release(rec).from = IF rec = Nil THEN Nil ELSE rec[1]
      /\ release(rec).alloc = FALSE /\ release(rec).ip = Nil
  <2>. HIDE DEF release, whole
  <2>. QED
    BY <1>a, <1>b, Zenon
<1>5. needRelease(obj) <=> obj.deleting
  BY <1>1, Zenon DEF needRelease
<1>6. chosen = {} => obj.spec.wantEip = Nil
  BY Zenon
<1>7. \A e \in chosen : obj.spec.wantEip \in {Nil, e}
  BY Zenon
<1>. HIDE DEF release, chosen
<1>8. CASE (needRelease(obj) \/ chosen = {}) /\ req = release(rec)
  <2>1. req.ip = Nil /\ ~req.alloc /\ (obj.deleting \/ obj.spec.wantEip = Nil)
    BY <1>4, <1>5, <1>6, <1>8, Zenon
  <2>2. req.rel => \A a \in Recs(s) : a[1] = req.from
    BY <1>3, <1>4, <1>8, Zenon
  <2>3. ~req.rel => Recs(s) = {} /\ obj.ingress = Nil
    BY <1>3, <1>4, <1>8, Zenon
  <2>4. ~req.rel => Agree(s, obj)
    BY <2>1, <2>3, Zenon DEF Agree
  <2>. QED
    BY <2>1, <2>2, <2>3, <2>4, Zenon DEF Fits
<1>9. ASSUME NEW e \in chosen, ~needUpdate(obj, rec, e), obj.label # Nil, req = NoRequest
      PROVE  Fits(s, obj, req)
  <2>1. rec # Nil /\ rec[1] = e /\ obj.ingress = rec
    BY <1>1, <1>9, Zenon DEF needUpdate
  <2>2. Recs(s) = {rec} /\ s \in Holders(rec)
    <3>1. Recs(s) = {rec}
      BY <1>3, <2>1, Zenon
    <3>2. rec \in Recs(s)
      BY <3>1, Zenon
    <3>. QED
      BY <3>1, <3>2, Zenon DEF Recs
  <2>3. Agree(s, obj)
    BY <1>7, <1>9, <2>1, <2>2, Zenon DEF Agree
  <2>4. req.ip = Nil /\ ~req.alloc /\ ~req.rel
    BY <1>9, Zenon DEF NoRequest
  <2>. QED
    BY <2>2, <2>3, <2>4, Zenon DEF Fits
<1>10. ASSUME NEW e \in chosen, req = Allocation(rec, e)
       PROVE  Fits(s, obj, req)
  <2>1. req.alloc /\ req.eip = e /\ req.ip = Nil /\ req.rel = release(rec).rel /\ req.from = release(rec).from
    <3>1. req = [whole EXCEPT !.alloc = TRUE, !.eip = e, !.ip = Nil]
      BY <1>1, <1>a, <1>10, Zenon
    <3>. HIDE DEF any, from
    <3>2. req.alloc /\ req.eip = e /\ req.ip = Nil /\ req.rel = whole.rel /\ req.from = whole.from
      BY <3>1, Zenon
    <3>. HIDE DEF whole
    <3>. QED
      BY <1>a, <3>2, Zenon
  <2>2. req.rel => \A a \in Recs(s) : a[1] = req.from
    BY <1>3, <1>4, <2>1, Zenon
  <2>3. ~req.rel => Recs(s) = {}
    BY <1>3, <1>4, <2>1, Zenon
  <2>. QED
    BY <1>7, <2>1, <2>2, <2>3, Zenon DEF Fits
<1>11. \/ (needRelease(obj) \/ chosen = {}) /\ req = release(rec)
       \/ \E e \in chosen : \/ ~needUpdate(obj, rec, e) /\ obj.label # Nil /\ req = NoRequest
                            \/ req = Allocation(rec, e)
  BY <1>2, Zenon
<1>. QED
  BY <1>8, <1>9, <1>10, <1>11, Zenon

\* A step of the service worker, after which only Service x may have come to rest.
LEMMA LbStepRest ==
  ASSUME IInv, RestInv, NEW x, UNCHANGED <<eipq, ew>>, held'["eip"] \subseteq held["eip"],
         SvcsGood', EipsSound', OneRecord', LbRest', NoneDeleted, OnlySettles(x),
         \A t \in Svcs \ {x} : Recs(t)' \subseteq Recs(t),
         \A t \in Svcs \ {x}, a \in Addrs : t \in Holders(a) => t \in Holders(a)',
         x \in Svcs /\ Still(x)' => Agree(x, Api(svcs[x]))',
         x \in Svcs /\ Removing /\ Still(x)' => Api(svcs'[x]).ingress = Nil
  PROVE  RestInv'
<1>1. StillAgree'
  BY AgreeKept, Zenon DEF RestInv
<1>2. Seen'
  BY SeenKept, Zenon DEF RestInv
<1>3. EwCopy' /\ Noticed'
  BY EwPauses, Zenon DEF RestInv
<1>. QED
  BY <1>1, <1>2, <1>3, Zenon DEF RestInv

\* The same when it leaves the Eips alone.
LEMMA LbSvcStepRest ==
  ASSUME IInv, RestInv, NEW x, UNCHANGED <<eips, eipq, ew>>, held'["eip"] \subseteq held["eip"],
         SvcsGood', LbRest', OnlySettles(x),
         x \in Svcs /\ Still(x)' => Agree(x, Api(svcs[x]))',
         x \in Svcs /\ Removing /\ Still(x)' => Api(svcs'[x]).ingress = Nil
  PROVE  RestInv'
<1>1. /\ EipsSound' /\ OneRecord' /\ NoneDeleted
      /\ \A t : Recs(t)' = Recs(t)
      /\ \A a : Holders(a)' = Holders(a)
  BY SameEips, Zenon DEF RestInv
<1>2. /\ \A t \in Svcs \ {x} : Recs(t)' \subseteq Recs(t)
      /\ \A t \in Svcs \ {x}, a \in Addrs : t \in Holders(a) => t \in Holders(a)'
  BY <1>1, Zenon
<1>. QED
  BY <1>1, <1>2, LbStepRest, Zenon

\* A Service for which there is nothing to do comes to rest, and what it shows is
\* right; for any other one the worker knows what is to be done.
LEMMA ReconcileRest ==
  ASSUME Ordinary, Steady, IInv, RestInv, NEW s \in Svcs, Reconcile(s)
  PROVE  RestInv'
<1>. DEFINE obj == Cached(svcs[s])
<1>1. /\ lb.pc = "idle" /\ lbq' = lbq \ {s} /\ UNCHANGED <<eips, svcs, eipq, ew>>
      /\ \A e \in Eips : Fresh(eips[e])
  BY Zenon DEF Reconcile, CaughtUp, Ordinary
<1>2. PICK req \in ConstructRequest(s, obj) :
        IF ~obj.exists \/ (~req.rel /\ ~req.alloc)
        THEN UNCHANGED <<lb, held>>
        ELSE /\ lb' = [pc |-> IF req.rel THEN "release" ELSE "assign", svc |-> s, req |-> req,
                       old |-> obj, new |-> obj, err |-> FALSE]
             /\ held' = [held EXCEPT !["lb"] = IF Fresh(svcs[s]) THEN {s} ELSE {}]
  BY Zenon DEF Reconcile
<1>3. obj \in SvcObj /\ GoodSvc(obj) /\ (Fresh(svcs[s]) => Api(svcs[s]) = obj)
  BY SvcEndsGood, Zenon DEF RestInv
<1>4. obj.exists => Fits(s, obj, req)
  BY <1>1, <1>2, <1>3, RequestFits, Zenon
<1>5. SvcsGood' /\ held'["eip"] \subseteq held["eip"]
  BY <1>1, <1>2, Zenon DEF RestInv, SvcsGood, IInv, HeldInv, Workers
<1>6. \A t \in Svcs \ {s} : Unstirred(t)' => Unstirred(t) /\ svcs'[t] = svcs[t]
  BY <1>1, Zenon DEF Unstirred
<1>7. Unstirred(s)' => Fresh(svcs[s]) /\ Api(svcs[s]) = obj /\ obj.exists
  BY <1>1, <1>3, Zenon DEF Unstirred
<1>. HIDE DEF obj
<1>8. OnlySettles(s)
  BY <1>1, <1>6, Zenon DEF OnlySettles, Still
<1>9. CASE ~obj.exists \/ (~req.rel /\ ~req.alloc)
  <2>1. UNCHANGED <<lb, held>>
    BY <1>2, <1>9, Zenon
  <2>2. LbRest'
    BY <1>1, <2>1, Zenon DEF LbRest
  <2>3. Still(s)' => Api(svcs'[s]) = obj /\ Agree(s, obj) /\ (obj.ingress # Nil => Recs(s) # {})
    BY <1>1, <1>4, <1>7, <1>9, Zenon DEF Still, Fits
  <2>4. Agree(s, obj) /\ Api(svcs'[s]) = obj => Agree(s, Api(svcs[s]))'
    BY <1>1, SameEips, Zenon DEF Agree
  <2>5. Removing => Recs(s) = {}
    BY RemovingRecs, Zenon DEF RestInv
  <2>. QED
    BY <1>1, <1>5, <1>8, <2>2, <2>3, <2>4, <2>5, LbSvcStepRest, Zenon
<1>10. CASE obj.exists /\ (req.rel \/ req.alloc)
  <2>1. lb' = [pc |-> IF req.rel THEN "release" ELSE "assign", svc |-> s, req |-> req,
               old |-> obj, new |-> obj, err |-> FALSE]
    BY <1>2, <1>10, Zenon
  <2>2. /\ lb'.pc = IF req.rel THEN "release" ELSE "assign"
        /\ lb'.svc = s /\ lb'.req = req /\ lb'.old = obj /\ lb'.new = obj
    BY <2>1, Zenon
  <2>3. ~Still(s)'
    BY <2>2, Zenon DEF Still, Leaves
  <2>4. Fits(s, obj, req)
    BY <1>4, <1>10, Zenon
  <2>5. \A t : Recs(t)' = Recs(t)
    BY <1>1, SameEips, Zenon
  <2>6. \A a \in Recs(s) : InAll(a, s)'
    <3>. SUFFICES ASSUME NEW a \in Recs(s) PROVE InAll(a, s)'
      BY Zenon
    <3>1. a[1] \in Eips /\ ~Api(eips[a[1]]).deleting /\ s \in Api(eips[a[1]]).used[a[2]]
      BY AddrParts, Zenon DEF Recs, Holders
    <3>2. \A k \in 1 .. Len(eips[a[1]]) : eips[a[1]][k] = Api(eips[a[1]])
      BY <1>1, <3>1, EipEndsSound, Zenon DEF RestInv
    <3>. QED
      BY <1>1, <3>1, <3>2, Zenon DEF InAll
  <2>7. LbRest'
    <3>1. obj.exists /\ GoodSvc(obj) /\ req.ip = Nil
      BY <1>3, <1>10, <2>4, Zenon DEF Fits
    <3>2. Unstirred(s)' => obj = Api(svcs'[s])
      BY <1>1, <1>7, Zenon
    <3>3. IF req.alloc THEN obj.spec.wantEip \in {Nil, req.eip} ELSE obj.deleting \/ obj.spec.wantEip = Nil
      BY <1>10, <2>4, Zenon DEF Fits
    <3>4. req.rel => \A a \in Recs(s)' : a[1] = req.from /\ InAll(a, s)'
      BY <2>4, <2>5, <2>6, Zenon DEF Fits
    <3>5. ~req.rel => Recs(s)' = {}
      BY <1>10, <2>4, <2>5, Zenon DEF Fits
    <3>6. /\ lb'.pc \notin {"update", "status"}
          /\ lb'.pc = "release" => req.rel
          /\ lb'.pc = "assign" => ~req.rel
      BY <2>2, Zenon
    <3>. QED
      BY <2>2, <3>1, <3>2, <3>3, <3>4, <3>5, <3>6, Zenon DEF LbRest
  <2>. QED
    BY <1>1, <1>5, <1>8, <2>3, <2>7, LbSvcStepRest, Zenon
<1>. QED
  BY <1>9, <1>10, Zenon

\* An update of the worker's Service: its window shows that something is to be
\* heard of, unless there was nothing to write.
LEMMA LbSvcUpdateRest ==
  ASSUME IInv, RestInv, NEW s \in Svcs, NEW new \in SvcObj, GoodSvc(new), NEW ok \in BOOLEAN,
         SvcUpdate(s, new, "lb", ok)
  PROVE  /\ SvcsGood' /\ held'["eip"] \subseteq held["eip"]
         /\ \A t \in Svcs \ {s} : svcs'[t] = svcs[t]
         /\ \/ ~Fresh(svcs'[s])
            \/ svcs'[s] = svcs[s] /\ (ok => new = Api(svcs[s]))
<1>1. CASE UNCHANGED <<svcs, held>> /\ (ok => new = Api(svcs[s]))
  BY <1>1, Zenon DEF RestInv, SvcsGood
<1>2. CASE PutSvc(s, new, "lb")
  BY <1>2, PutSvcRest, Zenon DEF RestInv
<1>. QED
  BY <1>1, <1>2, Zenon DEF SvcUpdate

\* The worker ends its reconcile of Service s.
LEMMA LbDoneRest ==
  ASSUME NEW failed \in BOOLEAN, LbDone(failed), NEW s, s = lb.svc
  PROVE  /\ LbRest' /\ lb'.pc = "idle" /\ lbq \subseteq lbq' /\ lbq' \subseteq lbq \cup {s}
         /\ failed => s \in lbq'
<1>1. lb'.pc = "idle"
  BY DEF LbDone, LbIdle
<1>2. lbq \subseteq lbq' /\ lbq' \subseteq lbq \cup {s} /\ (failed => s \in lbq')
  BY DEF LbDone
<1>. QED
  BY <1>1, <1>2, Zenon DEF LbRest

\* While the worker is busy with s, every other Service is at rest if nothing is
\* to be heard of it.
LEMMA OthersRest ==
  ASSUME NEW s, lb.pc # "idle", s = lb.svc, lbq \subseteq lbq',
         \A t \in Svcs \ {s} : svcs'[t] = svcs[t]
  PROVE  /\ OnlySettles(s)
         /\ \A t \in Svcs \ {s} : Unstirred(t)' => Unstirred(t)
<1>1. \A t \in Svcs \ {s} : Unstirred(t)' => Unstirred(t)
  BY Zenon DEF Unstirred
<1>2. \A t \in Svcs \ {s} : Unstirred(t) => Still(t)
  BY Zenon DEF Still
<1>. QED
  BY <1>1, <1>2, Zenon DEF OnlySettles, Still

\* A step after which the Service of the worker is at rest only if it was before.
LEMMA NoNewRest ==
  ASSUME IInv, RestInv, NEW s \in Svcs, OnlySettles(s), Still(s)' => Still(s) /\ svcs'[s] = svcs[s],
         UNCHANGED <<eips, eipq, ew>>, held'["eip"] \subseteq held["eip"], SvcsGood', LbRest'
  PROVE  RestInv'
<1>1. \A t \in Svcs : Still(t)' => Still(t) /\ svcs'[t] = svcs[t]
  BY Zenon DEF OnlySettles
<1>2. OnlySettles(Nil) /\ Nil \notin Svcs
  BY <1>1, NilAssumption, Zenon DEF OnlySettles
<1>. QED
  BY <1>2, LbSvcStepRest, Zenon

\* The Update of updateReconcileResult.
LEMMA UpdateServiceRest ==
  ASSUME IInv, RestInv, UpdateService
  PROVE  RestInv'
<1>. DEFINE new == [lb.new EXCEPT !.ingress = lb.old.ingress]
<1>1. PICK s \in Svcs : s = lb.svc
  BY Zenon DEF IInv, LbInv, UpdateService
<1>2. lb.pc = "update" /\ UNCHANGED <<eips, eipq, ew>>
  BY Zenon DEF UpdateService
<1>3. ASSUME lb' = [lb EXCEPT !.pc = "status"], lbq' = lbq,
             Unstirred(s)' => Unstirred(s) /\ svcs'[s] = svcs[s] /\ lb.old.label = lb.new.label
      PROVE  LbRest' /\ (Still(s)' => Still(s))
  <2>1. /\ lb'.pc = "status" /\ lb'.svc = s /\ lb'.req = lb.req /\ lb'.old = lb.old /\ lb'.new = lb.new
        /\ lb'.err = lb.err
    BY <1>1, <1>3, Zenon DEF IInv, LbInv, LbState
  <2>2. \A t : Recs(t)' = Recs(t)
    BY <1>2, SameEips, Zenon
  <2>3. Recs(lb.svc)' = Recs(lb.svc)
    BY <1>1, <2>1, <2>2, Zenon
  <2>4. Result' = Result
    BY <2>1, <2>3, Zenon DEF Result
  <2>5. /\ lb.new.exists /\ GoodSvc(lb.new) /\ lb.req.ip = Nil
        /\ Unstirred(s) => lb.old = Api(svcs[s])
        /\ IF lb.req.alloc THEN lb.old.spec.wantEip \in {Nil, lb.req.eip}
           ELSE lb.old.deleting \/ lb.old.spec.wantEip = Nil
        /\ ~lb.err => Result
    BY <1>1, <1>2, Zenon DEF RestInv, LbRest
  <2>6. Unstirred(s)' => lb.old = Api(svcs'[s]) /\ lb.old.label = lb.new.label
    BY <1>3, <2>5, Zenon
  <2>7. LbRest'
    BY <2>1, <2>4, <2>5, <2>6, Zenon DEF LbRest
  <2>8. Leaves' = Leaves
    BY <1>2, <2>1, Zenon DEF Leaves
  <2>9. Still(s)' => Still(s)
    BY <1>1, <1>2, <1>3, <2>1, <2>8, Zenon DEF Still
  <2>. QED
    BY <2>7, <2>9, Zenon
<1>4. CASE lb.old.label = lb.new.label
  <2>1. lb' = [lb EXCEPT !.pc = "status"] /\ UNCHANGED <<svcs, held, faults, lbq>>
    BY <1>4, Zenon DEF UpdateService
  <2>2. LbRest' /\ (Still(s)' => Still(s))
    BY <1>3, <1>4, <2>1, Zenon DEF Unstirred
  <2>3. OnlySettles(s)
    BY <1>1, <1>2, <2>1, OthersRest, Zenon
  <2>4. SvcsGood'
    BY <2>1, Zenon DEF RestInv, SvcsGood
  <2>. QED
    BY <1>2, <2>1, <2>2, <2>3, <2>4, NoNewRest, Zenon
<1>5. CASE lb.old.label # lb.new.label
  <2>1. PICK ok \in BOOLEAN :
           /\ SvcUpdate(s, new, "lb", ok)
           /\ IF ok THEN lb' = [lb EXCEPT !.pc = "status"] /\ UNCHANGED lbq
              ELSE LbDone(TRUE)
    BY <1>1, <1>5, Zenon DEF UpdateService
  <2>2. lb.new.exists /\ GoodSvc(lb.new) /\ lb.new \in SvcObj /\ lb.old \in SvcObj
    BY <1>2, Zenon DEF RestInv, LbRest, IInv, LbInv, LbState
  <2>3. new \in SvcObj /\ GoodSvc(new) /\ new.label = lb.new.label
    BY <2>2, Zenon DEF SvcObj, GoodSvc
  <2>4. Unstirred(s) => lb.old = Api(svcs[s])
    BY <1>1, <1>2, Zenon DEF RestInv, LbRest
  <2>. HIDE DEF new
  <2>5. /\ SvcsGood' /\ held'["eip"] \subseteq held["eip"]
        /\ \A t \in Svcs \ {s} : svcs'[t] = svcs[t]
        /\ \/ ~Fresh(svcs'[s])
           \/ svcs'[s] = svcs[s] /\ (ok => new = Api(svcs[s]))
    BY <2>1, <2>3, LbSvcUpdateRest, Zenon
  <2>6. lbq \subseteq lbq' /\ (~ok => s \in lbq' /\ LbRest')
    BY <1>1, <2>1, LbDoneRest, Zenon
  <2>7. ~Unstirred(s)'
    <3>. SUFFICES ASSUME Unstirred(s)' PROVE FALSE
      BY Zenon
    <3>1. svcs'[s] = svcs[s] /\ ok /\ new = Api(svcs[s])
      BY <2>5, <2>6, Zenon DEF Unstirred
    <3>2. Unstirred(s)
      BY <2>6, <3>1, Zenon DEF Unstirred
    <3>. QED
      BY <1>5, <2>3, <2>4, <3>1, <3>2, Zenon
  <2>8. ~Still(s)'
    BY <2>7, Zenon DEF Still
  <2>9. LbRest'
    BY <1>3, <2>1, <2>6, <2>7, Zenon
  <2>10. OnlySettles(s)
    BY <1>1, <1>2, <2>5, <2>6, OthersRest, Zenon
  <2>. QED
    BY <1>2, <2>5, <2>8, <2>9, <2>10, NoNewRest, Zenon
<1>. QED
  BY <1>4, <1>5, Zenon

\* The Status().Update of updateReconcileResult.
LEMMA UpdateServiceStatusRest ==
  ASSUME IInv, RestInv, UpdateServiceStatus
  PROVE  RestInv'
<1>1. PICK s \in Svcs : s = lb.svc
  BY Zenon DEF IInv, LbInv, UpdateServiceStatus
<1>2. lb.pc = "status" /\ UNCHANGED <<eips, eipq, ew>> /\ lb.err \in BOOLEAN
  BY Zenon DEF UpdateServiceStatus, IInv, LbInv, LbState
<1>3. /\ lb.new \in SvcObj /\ GoodSvc(lb.new)
      /\ Unstirred(s) => lb.old = Api(svcs[s]) /\ lb.old.label = lb.new.label
  BY <1>1, <1>2, Zenon DEF RestInv, LbRest, IInv, LbInv, LbState
<1>4. Unstirred(s) /\ ~lb.err /\ lb.old.ingress = lb.new.ingress => Still(s)
  BY <1>1, <1>2, <1>3, Zenon DEF Still, Leaves
<1>5. /\ SvcsGood' /\ held'["eip"] \subseteq held["eip"] /\ LbRest'
      /\ \A t \in Svcs \ {s} : svcs'[t] = svcs[t]
      /\ lbq \subseteq lbq'
      /\ Still(s)' => Still(s) /\ svcs'[s] = svcs[s]
  <2>1. CASE lb.old.ingress = lb.new.ingress /\ LbDone(lb.err) /\ UNCHANGED <<svcs, held, faults>>
    <3>1. LbRest' /\ lbq \subseteq lbq' /\ (lb.err => s \in lbq')
      BY <1>1, <1>2, <2>1, LbDoneRest, Zenon
    <3>2. SvcsGood'
      BY <2>1, Zenon DEF RestInv, SvcsGood
    <3>3. Unstirred(s)' => Unstirred(s) /\ ~lb.err
      BY <2>1, <3>1, Zenon DEF Unstirred
    <3>. QED
      BY <1>4, <2>1, <3>1, <3>2, <3>3, Zenon DEF Still
  <2>2. ASSUME NEW ok \in BOOLEAN, SvcUpdate(lb.svc, lb.new, "lb", ok), LbDone(lb.err \/ ~ok)
        PROVE  /\ SvcsGood' /\ held'["eip"] \subseteq held["eip"] /\ LbRest'
               /\ \A t \in Svcs \ {s} : svcs'[t] = svcs[t]
               /\ lbq \subseteq lbq'
               /\ Still(s)' => Still(s) /\ svcs'[s] = svcs[s]
    <3>1. PICK failed \in BOOLEAN : failed = (lb.err \/ ~ok)
      BY Zenon
    <3>2. LbRest' /\ lbq \subseteq lbq' /\ (failed => s \in lbq')
      BY <1>1, <2>2, <3>1, LbDoneRest, Zenon
    <3>3. /\ SvcsGood' /\ held'["eip"] \subseteq held["eip"]
          /\ \A t \in Svcs \ {s} : svcs'[t] = svcs[t]
          /\ \/ ~Fresh(svcs'[s])
             \/ svcs'[s] = svcs[s] /\ (ok => lb.new = Api(svcs[s]))
      BY <1>1, <1>3, <2>2, LbSvcUpdateRest, Zenon
    <3>4. Unstirred(s)' => svcs'[s] = svcs[s] /\ lb.new = Api(svcs[s]) /\ ~lb.err /\ s \notin lbq
      BY <3>1, <3>2, <3>3, Zenon DEF Unstirred
    <3>5. Unstirred(s)' => Unstirred(s)
      BY <3>4, Zenon DEF Unstirred
    <3>6. Unstirred(s)' => Still(s)
      BY <1>3, <1>4, <3>4, <3>5, Zenon
    <3>. QED
      BY <3>2, <3>3, <3>4, <3>6, Zenon DEF Still
  <2>. QED
    BY <2>1, <2>2, Zenon DEF UpdateServiceStatus
<1>6. OnlySettles(s)
  BY <1>1, <1>2, <1>5, OthersRest, Zenon
<1>. QED
  BY <1>2, <1>5, <1>6, NoNewRest, Zenon

\* Another status leaves the rest of an Eip alone.
LEMMA StatusFields ==
  ASSUME NEW obj, NEW ready, NEW used, NEW usage, NEW occupied, NEW new,
         new = WithStatus(obj, ready, used, usage, occupied)
  PROVE  new.used = used /\ new.ready = ready /\ SameSpec(new, obj)
  BY Zenon DEF WithStatus, SameSpec

\* What ReleaseIP does to a pool that is not deleted: Service s is in it no more.
Forgotten(e, obj, s, new) ==
    /\ SameSpec(new, obj) /\ new.ready = obj.ready
    /\ ~obj.deleting => \A i \in Offsets(e) : s \notin new.used[i]

\* releaseIPFromEip forgets the Service altogether.
LEMMA ReleaseForgets ==
  ASSUME NEW e \in Eips, NEW obj, NEW s \in Svcs
  PROVE  Forgotten(e, obj, s, releaseIPFromEip(e, obj, s))
<1>. DEFINE after == [i \in Offsets(e) |-> obj.used[i] \ {s}]
            new == releaseIPFromEip(e, obj, s)
<1>1. CASE obj.deleting
  <2>1. new = obj
    BY <1>1, Zenon DEF releaseIPFromEip
  <2>. HIDE DEF new
  <2>2. Forgotten(e, obj, s, new)
    BY <1>1, <2>1, Zenon DEF Forgotten, SameSpec
  <2>. QED
    BY <2>2, Zenon DEF new
<1>2. CASE ~obj.deleting
  <2>1. PICK usage, occupied : new = WithStatus(obj, obj.ready, after, usage, occupied)
    BY <1>2, Zenon DEF releaseIPFromEip
  <2>2. \A i \in Offsets(e) : s \notin after[i]
    BY Zenon
  <2>. HIDE DEF new, after
  <2>3. new.used = after /\ new.ready = obj.ready /\ SameSpec(new, obj)
    BY ONLY <2>1, StatusFields, SMTT(30)
  <2>4. Forgotten(e, obj, s, new)
    BY <2>2, <2>3, Zenon DEF Forgotten
  <2>. QED
    BY <2>4, Zenon DEF new
<1>. QED
  BY <1>1, <1>2, Zenon

\* What AssignIP does to a pool: Service s gets the free address at offset i, and
\* nobody anything else.
GivenAt(e, obj, s, new, i) ==
    /\ SameSpec(new, obj) /\ new.ready = obj.ready /\ ~obj.deleting
    /\ obj.used[i] = {} /\ s \in new.used[i]
    /\ \A j \in Offsets(e), t \in Svcs :
         /\ t \in obj.used[j] => t \in new.used[j]
         /\ t \in new.used[j] => t \in obj.used[j] \/ (t = s /\ j = i)

\* That is how assignIPFromEip answers a request for any address, if at all.
LEMMA AssignGives ==
  ASSUME NEW e \in Eips, NEW obj, GoodEip(e, obj), NEW s \in Svcs, assignIPFromEip(e, obj, Nil, s).at # Nil
  PROVE  \E i \in Offsets(e) : /\ assignIPFromEip(e, obj, Nil, s).at = <<e, i>>
                               /\ GivenAt(e, obj, s, assignIPFromEip(e, obj, Nil, s).obj, i)
<1>. DEFINE out == assignIPFromEip(e, obj, Nil, s)
<1>1. Refused(obj).at = Nil
  BY Zenon DEF Refused
<1>2. PICK i \in FirstFree(e, obj) : out = Granted(e, obj, i, s) /\ ~obj.deleting
  <2>1. out # Refused(obj)
    BY <1>1, Zenon
  <2>2. ~obj.deleting /\ FirstFree(e, obj) # {} /\ out = Granted(e, obj, CHOOSE i \in FirstFree(e, obj) : TRUE, s)
    BY <2>1, Zenon DEF assignIPFromEip
  <2>3. (CHOOSE i \in FirstFree(e, obj) : TRUE) \in FirstFree(e, obj)
    BY <2>2, Zenon
  <2>. HIDE DEF out
  <2>. QED
    BY <2>2, <2>3, Zenon
<1>3. i \in Offsets(e) /\ obj.used[i] = {}
  BY Zenon DEF FirstFree
<1>. DEFINE used == [obj.used EXCEPT ![i] = @ \cup {s}]
<1>4. obj.used \in [Offsets(e) -> SUBSET Svcs]
  BY Zenon DEF GoodEip, EipObj
<1>5. /\ s \in used[i]
      /\ \A j \in Offsets(e), t \in Svcs :
           /\ t \in obj.used[j] => t \in used[j]
           /\ t \in used[j] => t \in obj.used[j] \/ (t = s /\ j = i)
  <2>1. used[i] = obj.used[i] \cup {s} /\ \A j \in Offsets(e) : j # i => used[j] = obj.used[j]
    BY <1>3, <1>4, Zenon
  <2>. HIDE DEF used
  <2>. QED
    BY <2>1, Zenon
<1>6. PICK usage, occupied : out = [at |-> <<e, i>>, obj |-> WithStatus(obj, obj.ready, used, usage, occupied)]
  BY <1>2, Zenon DEF Granted
<1>. HIDE DEF out, used
<1>7. out.at = <<e, i>> /\ out.obj = WithStatus(obj, obj.ready, used, usage, occupied)
  BY <1>6, Zenon
<1>8. out.obj.used = used /\ out.obj.ready = obj.ready /\ SameSpec(out.obj, obj)
  BY ONLY <1>7, StatusFields, SMTT(30)
<1>9. GivenAt(e, obj, s, out.obj, i)
  BY <1>2, <1>3, <1>5, <1>8, Zenon DEF GivenAt
<1>. QED
  BY <1>3, <1>7, <1>9, Zenon DEF out

\* A Status().Update of the worker, of pool e by a version that gives no Service
\* but s anything.
LEMMA LbWriteRest ==
  ASSUME IInv, RestInv, NEW s \in Svcs, NEW e \in Eips, NEW new, GoodEip(e, new), Sound(new),
         PutEip(e, new, "lb"),
         \A t \in Svcs \ {s} : NoneAdded(e, new, t) /\ NoneLost(e, new, t)
  PROVE  /\ EipsSound' /\ Onward /\ NoneDeleted /\ held'["eip"] \subseteq held["eip"]
         /\ Wrote(e, Api(eips[e]), new)
         /\ \A t \in Svcs \ {s} : Recs(t)' \subseteq Recs(t)
         /\ \A t \in Svcs \ {s}, a \in Addrs : t \in Holders(a) => t \in Holders(a)'
<1>1. /\ EipsSound' /\ Onward /\ NoneDeleted
      /\ Wrote(e, Api(eips[e]), new) /\ OthersLose(e, "lb")
  BY PutEipRest, Zenon DEF RestInv
<1>2. \A t \in Svcs \ {s} : Recs(t)' \subseteq Recs(t)
  BY <1>1, WroteRecs, Zenon
<1>3. \A t \in Svcs \ {s}, a \in Addrs : t \in Holders(a) => t \in Holders(a)'
  BY <1>1, WroteHolders, Zenon
<1>. QED
  BY <1>1, <1>2, <1>3, Zenon DEF OthersLose

\* The release of the records of Service s is done.
LEMMA ReleasedRest ==
  ASSUME IInv, RestInv, NEW s \in Svcs, s = lb.svc, lb.pc = "release",
         lb' = [lb EXCEPT !.pc = IF lb.req.alloc THEN "assign" ELSE "update",
                          !.new = [@ EXCEPT !.fin = FALSE, !.label = Nil, !.ingress = Nil]],
         UNCHANGED <<svcs, lbq>>, Recs(s)' = {}
  PROVE  /\ LbRest'
         /\ Still(s)' => Agree(s, Api(svcs[s]))' /\ Api(svcs'[s]).ingress = Nil
<1>. DEFINE new == [lb.new EXCEPT !.fin = FALSE, !.label = Nil, !.ingress = Nil]
<1>1. lb \in LbState /\ lb.new \in SvcObj
  BY Zenon DEF IInv, LbInv, LbState
<1>2. /\ lb.new.exists /\ GoodSvc(lb.new) /\ lb.req.ip = Nil
      /\ Unstirred(s) => lb.old = Api(svcs[s])
      /\ IF lb.req.alloc THEN lb.old.spec.wantEip \in {Nil, lb.req.eip}
         ELSE lb.old.deleting \/ lb.old.spec.wantEip = Nil
  BY Zenon DEF RestInv, LbRest
<1>3. new.exists /\ GoodSvc(new) /\ new.label = Nil /\ new.ingress = Nil
  BY <1>1, <1>2, Zenon DEF SvcObj, GoodSvc
<1>4. /\ lb'.pc = IF lb.req.alloc THEN "assign" ELSE "update"
      /\ lb'.svc = s /\ lb'.req = lb.req /\ lb'.old = lb.old /\ lb'.new = new
  BY <1>1, Zenon DEF LbState
<1>. HIDE DEF new
<1>5. Unstirred(s)' => lb.old = Api(svcs'[s])
  BY <1>2, Zenon DEF Unstirred
<1>6. Recs(lb.svc)' = {}
  BY <1>4, Zenon
<1>7. ~lb.req.alloc => Result'
  BY <1>3, <1>4, <1>6, Zenon DEF Result
<1>. DEFINE asked == IF lb.req.alloc THEN lb.old.spec.wantEip \in {Nil, lb.req.eip}
                     ELSE lb.old.deleting \/ lb.old.spec.wantEip = Nil
<1>10. asked /\ asked'
  BY <1>2, <1>4, Zenon
<1>11. lb'.pc \in {"assign", "update"} /\ (lb'.pc = "update" => ~lb.req.alloc)
  BY ONLY <1>4, SMT
<1>. HIDE DEF asked
<1>8. LbRest'
  <2>1. /\ lb'.new.exists /\ GoodSvc(lb'.new) /\ lb'.req.ip = Nil
        /\ Unstirred(lb.svc)' => lb'.old = Api(svcs'[lb'.svc])
    BY <1>2, <1>3, <1>4, <1>5, Zenon
  <2>2. /\ lb'.pc \notin {"idle", "release", "status"}
        /\ lb'.pc = "assign" => Recs(lb.svc)' = {}
        /\ lb'.pc \in {"update", "status"} => Result'
    BY <1>6, <1>7, <1>11, SMTT(30)
  <2>. QED
    BY <2>1, <2>2, <1>10, Zenon DEF LbRest, asked
<1>9. ASSUME Still(s)' PROVE Agree(s, Api(svcs[s]))' /\ Api(svcs'[s]).ingress = Nil
  <2>1. lb.old = Api(svcs'[s]) /\ lb'.pc \in {"update", "status"} /\ lb.old.ingress = new.ingress
    <3>1. Unstirred(s)' /\ lb'.pc \in {"update", "status"} /\ lb'.new.ingress = lb'.old.ingress
      BY <1>4, <1>9, <1>11, Zenon DEF Still, Leaves
    <3>. QED
      BY <1>4, <1>5, <3>1, Zenon
  <2>2. lb.old.ingress = Nil /\ (lb.old.deleting \/ lb.old.spec.wantEip = Nil)
    <3>1. ~lb.req.alloc
      BY <1>4, <2>1, SMTT(30)
    <3>. QED
      BY <1>2, <1>3, <2>1, <3>1, Zenon
  <2>. QED
    BY <2>1, <2>2, Zenon DEF Agree
<1>. QED
  BY <1>8, <1>9, Zenon

\* The write of ReleaseIP.
LEMMA ReleaseWriteRest ==
  ASSUME IInv, RestInv, NEW s \in Svcs, NEW e \in Eips, NEW new, Fresh(eips[e]),
         Released(e, CachedEip(e), s, new), Forgotten(e, CachedEip(e), s, new),
         PutEip(e, new, "lb"), \A a \in Recs(s) : a[1] = e
  PROVE  /\ EipsSound' /\ NoneDeleted /\ held'["eip"] \subseteq held["eip"] /\ OneRecord'
         /\ \A t \in Svcs \ {s} : Recs(t)' \subseteq Recs(t)
         /\ \A t \in Svcs \ {s}, a \in Addrs : t \in Holders(a) => t \in Holders(a)'
         /\ Recs(s)' = {}
<1>. DEFINE old == Api(eips[e])
<1>1. CachedEip(e) = old /\ Sound(old)
  BY EipEndsSound, Zenon DEF RestInv
<1>2. Released(e, old, s, new) /\ Forgotten(e, old, s, new)
  BY <1>1, Zenon
<1>. HIDE DEF old
<1>3. GoodEip(e, new) /\ \A i \in Offsets(e) : new.used[i] \subseteq old.used[i] /\ old.used[i] \subseteq new.used[i] \cup {s}
  BY <1>2, Zenon DEF Released
<1>4. SameSpec(new, old) /\ new.ready = old.ready /\ (~old.deleting => \A i \in Offsets(e) : s \notin new.used[i])
  BY <1>2, Zenon DEF Forgotten
<1>5. Sound(new) /\ new.deleting = old.deleting
  BY <1>1, <1>4, Zenon DEF Sound, SameSpec
<1>6. \A t \in Svcs \ {s} : NoneAdded(e, new, t) /\ NoneLost(e, new, t)
  BY <1>3, <1>5, Zenon DEF NoneAdded, NoneLost, old
<1>7. /\ EipsSound' /\ NoneDeleted /\ held'["eip"] \subseteq held["eip"]
      /\ Wrote(e, Api(eips[e]), new)
      /\ \A t \in Svcs \ {s} : Recs(t)' \subseteq Recs(t)
      /\ \A t \in Svcs \ {s}, a \in Addrs : t \in Holders(a) => t \in Holders(a)'
  BY <1>3, <1>5, <1>6, LbWriteRest, Zenon
<1>8. Recs(s)' = {}
  <2>1. ASSUME NEW a \in Addrs, ~Api(eips'[a[1]]).deleting, s \in Api(eips'[a[1]]).used[a[2]] PROVE FALSE
    <3>1. a[1] \in Eips /\ a[2] \in Offsets(a[1])
      BY AddrParts, Zenon
    <3>2. CASE a[1] = e
      BY <1>4, <1>5, <1>7, <2>1, <3>1, <3>2, Zenon DEF Wrote
    <3>3. CASE a[1] # e
      <4>1. Api(eips'[a[1]]) = Api(eips[a[1]])
        BY <1>7, <3>1, <3>3, Zenon DEF Wrote
      <4>2. a \in Recs(s)
        BY <2>1, <4>1, Zenon DEF Recs, Holders
      <4>. QED
        BY <3>3, <4>2, Zenon
    <3>. QED
      BY <3>2, <3>3, Zenon
  <2>. QED
    BY <2>1, Zenon DEF Recs, Holders
<1>9. \A t \in Svcs : Recs(t)' \subseteq Recs(t)
  BY <1>7, <1>8, Zenon
<1>10. OneRecord'
  BY <1>9, OneRecordKept, Zenon DEF RestInv
<1>. QED
  BY <1>7, <1>8, <1>10, Zenon

\* ReleaseIP has nothing to write only when nothing is recorded.
LEMMA NothingToRelease ==
  ASSUME IInv, RestInv, NEW s \in Svcs, NEW e \in Eips \cup {Nil},
         \A a \in Recs(s) : a[1] = e /\ InAll(a, s),
         \/ e = Nil
         \/ ~CachedEip(e).exists
         \/ Forgotten(e, CachedEip(e), s, CachedEip(e))
  PROVE  Recs(s) = {}
<1>. SUFFICES ASSUME NEW a \in Recs(s) PROVE FALSE
  BY Zenon
<1>1. a \in Addrs /\ a[1] = e /\ InAll(a, s)
  BY Zenon DEF Recs
<1>2. e \in Eips /\ a[2] \in Offsets(e) /\ e # Nil
  BY <1>1, AddrParts, NilAssumption, Zenon
<1>3. eips[e] \in Seq(EipObj(e)) /\ eips[e] # <<>> /\ GoodEip(e, CachedEip(e))
  BY <1>2, EipEndsSound, Zenon DEF RestInv, IInv, EipsInv, GoodWindow
<1>4. Len(eips[e]) \in Nat \ {0} /\ CachedEip(e) = eips[e][1]
  BY <1>3, WindowEnds, Zenon DEF CachedEip
<1>5. 1 \in 1 .. Len(eips[e])
  BY <1>4
<1>6. ~CachedEip(e).deleting /\ s \in CachedEip(e).used[a[2]]
  BY <1>1, <1>4, <1>5, Zenon DEF InAll
<1>. QED
  BY <1>2, <1>3, <1>6, Zenon DEF GoodEip, NoGhost, Forgotten

\* ReleaseIP.
LEMMA ReleaseIPRest ==
  ASSUME Counting, IInv, RestInv, ReleaseIP
  PROVE  RestInv'
<1>1. PICK s \in Svcs : s = lb.svc
  BY Zenon DEF IInv, LbInv, ReleaseIP
<1>2. PICK e \in Eips \cup {Nil} : e = lb.req.from
  BY Zenon DEF IInv, LbInv, LbState, Request, ReleaseIP
<1>. DEFINE new == releaseIPFromEip(e, CachedEip(e), s)
<1>3. PICK ok \in BOOLEAN :
        /\ IF e # Nil /\ CachedEip(e).exists THEN EipStatusUpdate(e, new, ok)
           ELSE ok /\ UNCHANGED <<eips, held, faults>>
        /\ IF ok
           THEN /\ lb' = [lb EXCEPT !.pc = IF lb.req.alloc THEN "assign" ELSE "update",
                                    !.new = [@ EXCEPT !.fin = FALSE, !.label = Nil, !.ingress = Nil]]
                /\ UNCHANGED lbq
           ELSE LbDone(TRUE)
  BY <1>1, <1>2, Zenon DEF ReleaseIP
<1>4. lb.pc = "release" /\ UNCHANGED <<svcs, eipq, ew>> /\ SvcsGood'
  BY Zenon DEF ReleaseIP, RestInv, SvcsGood
<1>5. \A a \in Recs(s) : a[1] = e /\ InAll(a, s)
  BY <1>1, <1>2, <1>4, Zenon DEF RestInv, LbRest
<1>6. /\ EipsSound' /\ NoneDeleted /\ held'["eip"] \subseteq held["eip"] /\ OneRecord'
      /\ \A t \in Svcs \ {s} : Recs(t)' \subseteq Recs(t)
      /\ \A t \in Svcs \ {s}, a \in Addrs : t \in Holders(a) => t \in Holders(a)'
      /\ ok => Recs(s)' = {}
  <2>1. CASE UNCHANGED <<eips, held>> /\ (ok => Recs(s) = {})
    BY <2>1, SameEips, Zenon DEF RestInv
  <2>2. CASE ~(e # Nil /\ CachedEip(e).exists)
    BY <1>3, <1>5, <2>1, <2>2, NothingToRelease, Zenon
  <2>3. CASE e # Nil /\ CachedEip(e).exists
    <3>1. e \in Eips /\ EipStatusUpdate(e, new, ok)
      BY <1>3, <2>3, Zenon
    <3>2. Forgotten(e, CachedEip(e), s, new)
      BY <3>1, ReleaseForgets, Zenon
    <3>3. GoodEip(e, CachedEip(e))
      BY <3>1, EipEndsSound, Zenon DEF RestInv
    <3>4. Released(e, CachedEip(e), s, new)
      BY <2>3, <3>1, <3>3, ReleaseGood, Zenon
    <3>. HIDE DEF new
    <3>5. CASE new = CachedEip(e) /\ UNCHANGED <<eips, held>>
      BY <1>5, <2>1, <3>2, <3>5, NothingToRelease, Zenon
    <3>6. CASE ~ok /\ UNCHANGED <<eips, held>>
      BY <2>1, <3>6, Zenon
    <3>7. CASE Fresh(eips[e]) /\ PutEip(e, new, "lb")
      BY <1>5, <3>1, <3>2, <3>4, <3>7, ReleaseWriteRest, Zenon
    <3>. QED
      BY <3>1, <3>5, <3>6, <3>7, Zenon DEF EipStatusUpdate, CachedEip
  <2>. QED
    BY <2>2, <2>3, Zenon
<1>7. CASE ok
  <2>1. /\ lb' = [lb EXCEPT !.pc = IF lb.req.alloc THEN "assign" ELSE "update",
                            !.new = [@ EXCEPT !.fin = FALSE, !.label = Nil, !.ingress = Nil]]
        /\ UNCHANGED <<svcs, lbq>> /\ Recs(s)' = {}
    BY <1>3, <1>4, <1>6, <1>7, Zenon
  <2>2. LbRest' /\ (Still(s)' => Agree(s, Api(svcs[s]))' /\ Api(svcs'[s]).ingress = Nil)
    BY <1>1, <1>4, <2>1, ReleasedRest, Zenon
  <2>3. OnlySettles(s)
    BY <1>1, <1>4, <2>1, OthersRest, SMTT(30)
  <2>. QED
    BY <1>4, <1>6, <2>2, <2>3, LbStepRest, Zenon
<1>8. CASE ~ok
  <2>1. PICK failed \in BOOLEAN : failed /\ LbDone(failed)
    BY <1>3, <1>8, Zenon
  <2>2. LbRest' /\ lbq \subseteq lbq' /\ s \in lbq'
    BY <1>1, <2>1, LbDoneRest, Zenon
  <2>3. OnlySettles(s)
    BY <1>1, <1>4, <2>2, OthersRest, SMT
  <2>4. ~Still(s)'
    BY <2>2, Zenon DEF Still, Unstirred
  <2>. QED
    BY <1>4, <1>6, <2>2, <2>3, <2>4, LbStepRest, Zenon
<1>. QED
  BY <1>7, <1>8, Zenon

\* The write of AssignIP.
LEMMA AssignWriteRest ==
  ASSUME IInv, RestInv, NEW s \in Svcs, NEW e \in Eips, NEW i \in Offsets(e), NEW new, Fresh(eips[e]),
         GoodEip(e, new), GivenAt(e, CachedEip(e), s, new, i), PutEip(e, new, "lb"), Recs(s) = {}
  PROVE  /\ EipsSound' /\ NoneDeleted /\ held'["eip"] \subseteq held["eip"] /\ OneRecord'
         /\ \A t \in Svcs \ {s} : Recs(t)' \subseteq Recs(t)
         /\ \A t \in Svcs \ {s}, a \in Addrs : t \in Holders(a) => t \in Holders(a)'
         /\ Recs(s)' \subseteq {<<e, i>>} /\ s \in Holders(<<e, i>>)'
         /\ ~Api(eips[e]).deleting
<1>. DEFINE old == Api(eips[e])
<1>1. CachedEip(e) = old /\ Sound(old)
  BY EipEndsSound, Zenon DEF RestInv
<1>2. GivenAt(e, old, s, new, i)
  BY <1>1, Zenon
<1>. HIDE DEF old
<1>3. /\ SameSpec(new, old) /\ new.ready = old.ready /\ ~old.deleting /\ s \in new.used[i]
      /\ \A j \in Offsets(e), t \in Svcs :
           /\ t \in old.used[j] => t \in new.used[j]
           /\ t \in new.used[j] => t \in old.used[j] \/ (t = s /\ j = i)
  BY <1>2, Zenon DEF GivenAt
<1>4. Sound(new) /\ ~new.deleting
  BY <1>1, <1>3, Zenon DEF Sound, SameSpec
<1>5. \A t \in Svcs \ {s} : NoneAdded(e, new, t) /\ NoneLost(e, new, t)
  BY <1>3, Zenon DEF NoneAdded, NoneLost, old
<1>6. /\ EipsSound' /\ NoneDeleted /\ held'["eip"] \subseteq held["eip"]
      /\ Wrote(e, Api(eips[e]), new)
      /\ \A t \in Svcs \ {s} : Recs(t)' \subseteq Recs(t)
      /\ \A t \in Svcs \ {s}, a \in Addrs : t \in Holders(a) => t \in Holders(a)'
  BY <1>4, <1>5, LbWriteRest, Zenon
<1>7. Api(eips'[e]) = new /\ \A d \in Eips \ {e} : Api(eips'[d]) = Api(eips[d])
  BY <1>6, Zenon DEF Wrote
<1>8. \A a \in Recs(s)' : a = <<e, i>>
  <2>. SUFFICES ASSUME NEW a \in Addrs, ~Api(eips'[a[1]]).deleting, s \in Api(eips'[a[1]]).used[a[2]]
                PROVE  a = <<e, i>>
    BY Zenon DEF Recs, Holders
  <2>1. a[1] \in Eips /\ a[2] \in Offsets(a[1]) /\ a = <<a[1], a[2]>>
    BY AddrParts, Zenon
  <2>2. ~(~Api(eips[a[1]]).deleting /\ s \in Api(eips[a[1]]).used[a[2]])
    BY Zenon DEF Recs, Holders
  <2>3. a[1] = e
    BY <1>7, <2>1, <2>2, Zenon
  <2>4. a[2] \in Offsets(e) /\ s \in new.used[a[2]] /\ s \notin old.used[a[2]]
    BY <1>3, <1>7, <2>1, <2>2, <2>3, Zenon DEF old
  <2>5. a[2] = i
    BY <1>3, <2>4, Zenon
  <2>. QED
    BY <2>1, <2>3, <2>5, Zenon
<1>9. s \in Holders(<<e, i>>)'
  BY <1>3, <1>7, SMTT(30) DEF Holders
<1>10. OneRecord'
  <2>. SUFFICES ASSUME NEW t \in Svcs, NEW a \in Recs(t)', NEW b \in Recs(t)' PROVE a = b
    BY Zenon DEF OneRecord
  <2>1. CASE t = s
    BY <1>8, <2>1, Zenon
  <2>2. CASE t # s
    BY <1>6, <2>2, Zenon DEF RestInv, OneRecord
  <2>. QED
    BY <2>1, <2>2, Zenon
<1>11. Recs(s)' \subseteq {<<e, i>>}
  BY <1>8, Zenon
<1>. QED
  BY <1>3, <1>6, <1>9, <1>10, <1>11, Zenon DEF old

\* What AssignIP leaves to the worker.
LEMMA AssignedRest ==
  ASSUME IInv, RestInv, lb.pc = "assign", NEW s \in Svcs, s = lb.svc, NEW e \in Eips, e = lb.req.eip,
         NEW ok \in BOOLEAN, NEW at, ok => at \in Addrs /\ at[1] = e, UNCHANGED <<svcs, lbq>>,
         lb' = [lb EXCEPT !.pc = "update", !.err = ~ok,
                          !.new = IF ok THEN [@ EXCEPT !.fin = TRUE, !.label = e, !.ingress = at] ELSE @],
         ok => Recs(s)' \subseteq {at} /\ s \in Holders(at)'
  PROVE  LbRest' /\ (Still(s)' => ok /\ Agree(s, Api(svcs[s]))')
<1>1. lb \in LbState /\ lb.new \in SvcObj /\ lb.req.alloc /\ \A a \in Addrs : a # Nil
  BY NilAssumption, Zenon DEF IInv, LbInv, LbState, Addrs
<1>2. /\ lb.new.exists /\ GoodSvc(lb.new) /\ lb.req.ip = Nil
      /\ Unstirred(s) => lb.old = Api(svcs[s])
      /\ lb.old.spec.wantEip \in {Nil, e}
  BY <1>1, Zenon DEF RestInv, LbRest
<1>. DEFINE new == IF ok THEN [lb.new EXCEPT !.fin = TRUE, !.label = e, !.ingress = at] ELSE lb.new
<1>3. new.exists /\ GoodSvc(new) /\ (ok => new.label = e /\ new.ingress = at)
  <2>1. CASE ok
    BY <1>1, <1>2, <2>1, Zenon DEF SvcObj, GoodSvc
  <2>2. CASE ~ok
    BY <1>2, <2>2, Zenon
  <2>. QED
    BY <2>1, <2>2, Zenon
<1>4. lb'.pc = "update" /\ lb'.svc = s /\ lb'.req = lb.req /\ lb'.old = lb.old /\ lb'.new = new /\ lb'.err = ~ok
  BY <1>1, Zenon DEF LbState
<1>. HIDE DEF new
<1>5. Unstirred(s)' => lb.old = Api(svcs'[s])
  BY <1>2, Zenon DEF Unstirred
<1>6. ok => Result'
  <2>. SUFFICES ASSUME ok PROVE Result'
    BY Zenon
  <2>1. at # Nil /\ at[1] = e /\ Recs(lb.svc)' \subseteq {at}
    BY <1>1, <1>4, Zenon
  <2>. QED
    BY <1>1, <1>3, <1>4, <2>1, Zenon DEF Result
<1>7. lb'.pc \notin {"idle", "release", "assign", "status"} /\ (~lb'.err => ok)
  <2>1. ~lb'.err => ok
    BY <1>4, Zenon
  <2>2. lb'.pc \notin {"idle", "release", "assign", "status"}
    BY <1>4, Zenon
  <2>. QED
    BY <2>1, <2>2, Zenon
<1>8. LbRest'
  <2>1. /\ lb'.new.exists /\ GoodSvc(lb'.new) /\ lb'.req.ip = Nil
        /\ Unstirred(lb.svc)' => lb'.old = Api(svcs'[lb'.svc])
    BY <1>2, <1>3, <1>4, <1>5, Zenon
  <2>2. lb'.req.alloc /\ lb'.old.spec.wantEip \in {Nil, lb'.req.eip}
    BY <1>1, <1>2, <1>4, Zenon
  <2>. QED
    BY <2>1, <2>2, <1>6, <1>7, Zenon DEF LbRest
<1>9. ASSUME Still(s)' PROVE ok /\ Agree(s, Api(svcs[s]))'
  <2>1. Unstirred(s)' /\ ~lb'.err /\ lb'.new.label = lb'.old.label /\ lb'.new.ingress = lb'.old.ingress
    BY <1>4, <1>7, <1>9, Zenon DEF Still, Leaves
  <2>2. ok /\ lb.old = Api(svcs'[s]) /\ lb.old.label = e /\ lb.old.ingress = at
    BY <1>3, <1>4, <1>5, <1>7, <2>1, Zenon
  <2>3. at # Nil /\ at[1] = e /\ e # Nil /\ Recs(s)' \subseteq {at} /\ s \in Holders(at)'
    BY <1>1, <2>2, NilAssumption, Zenon
  <2>. QED
    BY <1>2, <2>2, <2>3, Zenon DEF Agree
<1>. QED
  BY <1>8, <1>9, Zenon

\* AssignIP.
LEMMA AssignIPRest ==
  ASSUME Counting, Steady, IInv, RestInv, AssignIP
  PROVE  RestInv'
<1>1. PICK s \in Svcs : s = lb.svc
  BY Zenon DEF IInv, LbInv, AssignIP
<1>2. PICK e \in Eips : e = lb.req.eip
  BY Zenon DEF IInv, LbInv, AssignIP
<1>3. lb.pc = "assign" /\ UNCHANGED <<svcs, lbq, eipq, ew>> /\ SvcsGood'
  BY Zenon DEF AssignIP, RestInv, SvcsGood
<1>4. lb.req.ip = Nil /\ Recs(s) = {}
  BY <1>1, <1>3, Zenon DEF RestInv, LbRest
<1>. DEFINE out == assignIPFromEip(e, CachedEip(e), Nil, s)
<1>5. PICK ok \in BOOLEAN :
        /\ IF CachedEip(e).exists /\ <<s, e>> \in Compatible /\ out.at # Nil
           THEN EipStatusUpdate(e, out.obj, ok)
           ELSE ~ok /\ UNCHANGED <<eips, held, faults>>
        /\ lb' = [lb EXCEPT
                    !.pc = "update", !.err = ~ok,
                    !.new = IF ok THEN [@ EXCEPT !.fin = TRUE, !.label = e, !.ingress = out.at] ELSE @]
  BY <1>1, <1>2, <1>4, Zenon DEF AssignIP
<1>6. OnlySettles(s)
  BY <1>1, <1>3, OthersRest, SMTT(30)
<1>7. CASE ~ok /\ UNCHANGED <<eips, held>>
  <2>1. LbRest' /\ ~Still(s)'
    BY <1>1, <1>2, <1>3, <1>5, <1>7, AssignedRest, Zenon
  <2>. QED
    BY <1>3, <1>6, <1>7, <2>1, LbSvcStepRest, SMTT(30)
<1>8. CASE CachedEip(e).exists /\ out.at # Nil /\ EipStatusUpdate(e, out.obj, ok) /\ ~(~ok /\ UNCHANGED <<eips, held>>)
  <2>1. GoodEip(e, CachedEip(e))
    BY EipEndsSound, Zenon DEF RestInv
  <2>2. PICK i \in Offsets(e) : out.at = <<e, i>> /\ GivenAt(e, CachedEip(e), s, out.obj, i)
    BY <1>8, <2>1, AssignGives, Zenon
  <2>3. GoodEip(e, out.obj) /\ out.at \in Addrs \cup {Nil}
    BY <1>8, <2>1, AssignGood, Zenon DEF Assigned
  <2>. HIDE DEF out
  <2>4. out.obj # CachedEip(e)
    BY <2>2, Zenon DEF GivenAt
  <2>5. Fresh(eips[e]) /\ PutEip(e, out.obj, "lb")
    BY <1>8, <2>4, Zenon DEF EipStatusUpdate, CachedEip
  <2>6. /\ EipsSound' /\ NoneDeleted /\ held'["eip"] \subseteq held["eip"] /\ OneRecord'
        /\ \A t \in Svcs \ {s} : Recs(t)' \subseteq Recs(t)
        /\ \A t \in Svcs \ {s}, a \in Addrs : t \in Holders(a) => t \in Holders(a)'
        /\ Recs(s)' \subseteq {<<e, i>>} /\ s \in Holders(<<e, i>>)'
        /\ ~Api(eips[e]).deleting
    BY <1>4, <2>2, <2>3, <2>5, AssignWriteRest, Zenon
  <2>7. ~Removing
    BY <2>6, RemovingRecs, Zenon DEF RestInv
  <2>8. PICK at \in Addrs : at = out.at /\ at = <<e, i>>
    BY <1>8, <2>2, <2>3, Zenon
  <2>9. at[1] = e /\ Recs(s)' \subseteq {at} /\ s \in Holders(at)'
    BY <2>6, <2>8, SMTT(30)
  <2>10. lb' = [lb EXCEPT !.pc = "update", !.err = ~ok,
                          !.new = IF ok THEN [@ EXCEPT !.fin = TRUE, !.label = e, !.ingress = at] ELSE @]
    BY <1>5, <2>8, Zenon
  <2>11. LbRest' /\ (Still(s)' => Agree(s, Api(svcs[s]))')
    BY <1>1, <1>2, <1>3, <2>9, <2>10, AssignedRest, Zenon
  <2>. QED
    BY <1>3, <1>6, <2>6, <2>7, <2>11, LbStepRest, Zenon
<1>. QED
  BY <1>5, <1>7, <1>8, Zenon

------------------------------------------------------------------------------
(* All steps together.                                                     *)

\* Before the controller has started there are no Services and no records.
LEMMA InitRest == ASSUME Counting PROVE Init => RestInv
<1>. SUFFICES ASSUME Init PROVE RestInv
  OBVIOUS
<1>1. /\ \A s \in Svcs : svcs[s] = <<GoneSvc>>
      /\ \A e \in Eips : eips[e] = <<NewEip(e)>>
      /\ lb.pc = "idle" /\ ew.pc = "idle" /\ eipq = Eips
  BY DEF Init, LbIdle, EwIdle
<1>2. \A s \in Svcs : Api(svcs[s]) = GoneSvc /\ \A k \in 1 .. Len(svcs[s]) : svcs[s][k] = GoneSvc
  BY <1>1 DEF Api
<1>3. \A e \in Eips : Api(eips[e]) = NewEip(e) /\ \A k \in 1 .. Len(eips[e]) : eips[e][k] = NewEip(e)
  BY <1>1 DEF Api
<1>4. GoodSvc(GoneSvc) /\ ~GoneSvc.exists
  BY Zenon DEF GoodSvc, GoneSvc
<1>5. \A e \in Eips : Sound(NewEip(e)) /\ \A i \in Offsets(e) : NewEip(e).used[i] = {}
  BY EmptySound, Zenon
<1>6. SvcsGood /\ EipsSound
  BY <1>2, <1>3, <1>4, <1>5, Zenon DEF SvcsGood, EipsSound
<1>7. ASSUME NEW s, NEW a \in Recs(s) PROVE FALSE
  <2>1. a \in Addrs /\ s \in Api(eips[a[1]]).used[a[2]]
    BY Zenon DEF Recs, Holders
  <2>2. a[1] \in Eips /\ a[2] \in Offsets(a[1])
    BY <2>1, AddrParts, Zenon
  <2>3. Api(eips[a[1]]).used[a[2]] = {}
    BY <1>3, <1>5, <2>2, Zenon
  <2>. QED
    BY <2>1, <2>3, Zenon
<1>8. OneRecord
  BY <1>7, Zenon DEF OneRecord
<1>9. StillAgree
  BY <1>2, <1>4, Zenon DEF StillAgree, Still, Unstirred
<1>10. LbRest /\ EwCopy /\ Seen /\ Noticed
  BY <1>1, Zenon DEF LbRest, EwCopy, Seen, Removing, Noticed
<1>. QED
  BY <1>6, <1>8, <1>9, <1>10, Zenon DEF RestInv

\* Nothing happens.
LEMMA StutterRest ==
  ASSUME RestInv, UNCHANGED vars
  PROVE  RestInv'
<1>1. UNCHANGED <<eips, svcs, lbq, eipq, lb, ew, held>>
  BY Zenon DEF vars
<1>2. SvcsGood' /\ EipsSound' /\ OneRecord'
  BY <1>1, SameEips, Zenon DEF RestInv, SvcsGood
<1>3. \A t : Recs(t)' = Recs(t) /\ Unstirred(t)' = Unstirred(t)
  BY <1>1, SameEips, Zenon DEF Unstirred
<1>4. \A a : Holders(a)' = Holders(a)
  BY <1>1, SameEips, Zenon
<1>5. Leaves' = Leaves /\ Removing' = Removing
  BY <1>1, Zenon DEF Leaves, Removing
<1>6. \A t : Still(t)' = Still(t)
  BY <1>1, <1>3, <1>5, Zenon DEF Still
<1>7. StillAgree'
  BY <1>1, <1>3, <1>4, <1>6, ZenonT(30) DEF RestInv, StillAgree, Agree
<1>8. LbRest'
  BY <1>1, Zenon DEF RestInv, LbRest, Unstirred, Result, Recs, Holders, InAll
<1>9. EwCopy' /\ Seen' /\ Noticed'
  BY <1>1, <1>5, <1>6, Zenon DEF RestInv, EwCopy, Seen, Noticed, AllDeleting
<1>. QED
  BY <1>2, <1>7, <1>8, <1>9, Zenon DEF RestInv

\* Every step of the reconcilers, of the watches and of users, and every crash
\* keeps what is true at rest.
LEMMA NextRest ==
  ASSUME Counting, Ordinary, Steady, IInv, IInv', RestInv, [Next]_vars
  PROVE  RestInv'
<1>1. CASE LbWorker
  BY <1>1, ReconcileRest, ReleaseIPRest, AssignIPRest, UpdateServiceRest, UpdateServiceStatusRest, Zenon
     DEF LbWorker
<1>2. CASE EipWorker
  BY <1>2, ReconcileEipRest, RemoveLabelRest, RemoveFinalizerRest, AddFinalizerRest, SyncStatusRest, Zenon
     DEF EipWorker
<1>3. CASE Watches
  BY <1>3, DeliverEipRest, DeliverSvcRest, Zenon DEF Watches
<1>4. CASE Users
  BY <1>4, NodeChangeRest, UserSvcRest, UserEipRest, Zenon DEF Users
<1>5. CASE Crash
  BY <1>5, CrashRest, Zenon
<1>6. CASE UNCHANGED vars
  BY <1>6, StutterRest, Zenon
<1>. QED
  BY <1>1, <1>2, <1>3, <1>4, <1>5, <1>6, Zenon DEF Next

\* When nothing is left to do, every Service is at rest and no Eip is on its way out.
LEMMA QuietRest ==
  ASSUME IInv, RestInv, Quiet
  PROVE  /\ \A s \in Svcs : Api(svcs[s]).exists => Agree(s, Api(svcs[s]))
         /\ \A s \in Svcs : ~Api(svcs[s]).exists => Api(svcs[s]).ingress = Nil
         /\ \A e \in Eips : ~Api(eips[e]).deleting
<1>1. lbq = {} /\ eipq = {} /\ lb.pc = "idle" /\ ew.pc = "idle"
  BY Zenon DEF Quiet
<1>2. \A s \in Svcs : Api(svcs[s]).exists => Still(s)
  BY <1>1, Zenon DEF Quiet, Still, Unstirred
<1>3. \A s \in Svcs : Api(svcs[s]).exists => Agree(s, Api(svcs[s]))
  BY <1>2, Zenon DEF RestInv, StillAgree
<1>4. \A s \in Svcs : ~Api(svcs[s]).exists => Api(svcs[s]).ingress = Nil
  BY SvcEndsGood, Zenon DEF RestInv, GoodSvc
<1>5. ASSUME NEW e \in Eips, Api(eips[e]).deleting PROVE FALSE
  <2>1. AllDeleting(e)
    BY <1>5, EipEndsSound, Zenon DEF RestInv, Quiet, AllDeleting
  <2>. QED
    BY <1>1, <2>1, Zenon DEF RestInv, Noticed
<1>. QED
  BY <1>3, <1>4, <1>5, Zenon

\* The inductive invariant gives the three properties of a state at rest.
LEMMA RestGives ==
  ASSUME IInv, RestInv
  PROVE  IngressRecorded /\ RecordIsIngress /\ NobodyForgotten
<1>1. IngressRecorded
  <2>. SUFFICES ASSUME Quiet, NEW s \in Svcs, Api(svcs[s]).ingress # Nil
                PROVE  s \in Holders(Api(svcs[s]).ingress)
    BY Zenon DEF IngressRecorded
  <2>. QED
    BY QuietRest, Zenon DEF Agree
<1>2. RecordIsIngress
  <2>. SUFFICES ASSUME Quiet, NEW a \in Addrs, NEW s \in Holders(a), Api(svcs[s]).exists
                PROVE  Api(svcs[s]).ingress = a
    BY Zenon DEF RecordIsIngress
  <2>1. a[1] \in Eips /\ a[2] \in Offsets(a[1])
    BY AddrParts, Zenon
  <2>2. s \in Svcs
    <3>1. GoodEip(a[1], Api(eips[a[1]]))
      BY <2>1, EipEndsSound, Zenon DEF RestInv
    <3>. QED
      BY <2>1, <3>1, Zenon DEF GoodEip, EipObj, Holders
  <2>3. a \in Recs(s)
    BY <2>1, QuietRest, Zenon DEF Recs
  <2>. QED
    BY <2>2, <2>3, QuietRest, Zenon DEF Agree
<1>3. NobodyForgotten
  <2>. SUFFICES ASSUME Quiet, NEW s \in Svcs, NEW e \in Eips, Asking(s, e)
                PROVE  Api(svcs[s]).ingress # Nil /\ Api(svcs[s]).ingress[1] = e
    BY Zenon DEF NobodyForgotten
  <2>1. Api(svcs[s]).exists /\ ~Api(svcs[s]).deleting /\ Api(svcs[s]).spec.wantEip = e /\ e # Nil
    BY NilAssumption, Zenon DEF Asking
  <2>. QED
    BY <2>1, QuietRest, Zenon DEF Agree
<1>. QED
  BY <1>1, <1>2, <1>3, Zenon

------------------------------------------------------------------------------
(* The theorems.                                                           *)

------------------------------------------------------------------------------
(* Counting.                                                               *)

\* The arithmetic of it.
LEMMA CountArithmetic ==
  /\ \A n \in Nat, m \in Nat : n <= m => n \in 0 .. m /\ (n # m => n < m)
  /\ \A n \in Nat \ {0} : n - 1 \in Int /\ ~(0 > n - 1) /\ (n - 1) - 0 + 1 = n
  /\ \A n \in Nat : n + 0 = n
  /\ 0 \in Int
  BY SMTT(30)

\* The addresses in use are offsets of the pool, and one is added by recording a Service there.
LEMMA TakenParts ==
  ASSUME NEW e \in Eips, NEW used \in Assignment(e)
  PROVE  /\ Taken(used) \subseteq Offsets(e) /\ Size[e] \in Nat \ {0} /\ Offsets(e) = 0 .. Size[e] - 1
         /\ \A i \in Offsets(e), s \in Svcs :
              /\ [used EXCEPT ![i] = @ \cup {s}] \in Assignment(e)
              /\ Taken([used EXCEPT ![i] = @ \cup {s}]) = Taken(used) \cup {i}
              /\ i \in Taken(used) <=> used[i] # {}
<1>1. Taken(used) \subseteq Offsets(e) /\ Size[e] \in Nat \ {0} /\ Offsets(e) = 0 .. Size[e] - 1
  BY SizeAssumption, SMTT(30) DEF Taken, Assignment, Offsets
<1>2. ASSUME NEW i \in Offsets(e), NEW s \in Svcs
      PROVE  /\ [used EXCEPT ![i] = @ \cup {s}] \in Assignment(e)
             /\ Taken([used EXCEPT ![i] = @ \cup {s}]) = Taken(used) \cup {i}
             /\ i \in Taken(used) <=> used[i] # {}
  BY SMTT(30) DEF Assignment, Taken
<1>. QED
  BY <1>1, <1>2, Zenon

F == INSTANCE FiniteSetTheorems

\* The finite sets of the theorems are those of the module.
LEMMA Finite ==
  /\ \A S : IsFiniteSet(S) <=> F!IsFiniteSet(S)
  /\ \A S : Cardinality(S) = F!Cardinality(S)
<1>1. ASSUME NEW S PROVE IsFiniteSet(S) <=> F!IsFiniteSet(S)
  BY Zenon DEF IsFiniteSet, F!IsFiniteSet
<1>2. ASSUME NEW S PROVE Cardinality(S) = F!Cardinality(S)
  BY Zenon DEF Cardinality, F!Cardinality
<1>. QED
  BY <1>1, <1>2, Zenon

\* What len(Status.Used) counts.
LEMMA Counts == Counting
<1>1. ASSUME NEW e \in Eips, NEW used \in Assignment(e)
      PROVE  /\ F!IsFiniteSet(Taken(used)) /\ LenUsed(used) = F!Cardinality(Taken(used))
             /\ LenUsed(used) \in Nat /\ LenUsed(used) \in 0 .. Size[e]
             /\ LenUsed(used) = 0 <=> Taken(used) = {}
  <2>. DEFINE n == Size[e]
  <2>1. n \in Nat \ {0} /\ Offsets(e) = 0 .. n - 1 /\ Taken(used) \subseteq Offsets(e)
    BY TakenParts, Zenon
  <2>. HIDE DEF n
  <2>2. F!IsFiniteSet(0 .. n - 1) /\ F!Cardinality(0 .. n - 1) = n
    <3>. DEFINE last == n - 1
    <3>1. last \in Int /\ 0 \in Int /\ ~(0 > last) /\ last - 0 + 1 = n
      BY <2>1, CountArithmetic, Zenon
    <3>. HIDE DEF last
    <3>2. F!IsFiniteSet(0 .. last) /\ F!Cardinality(0 .. last) = last - 0 + 1
      BY <3>1, F!FS_Interval, Zenon
    <3>. QED
      BY <3>1, <3>2, Zenon DEF last
  <2>3. F!IsFiniteSet(Taken(used)) /\ F!Cardinality(Taken(used)) <= n
    BY <2>1, <2>2, F!FS_Subset, Zenon
  <2>4. F!Cardinality(Taken(used)) \in Nat
    BY <2>3, F!FS_CardinalityType, Zenon
  <2>5. F!Cardinality(Taken(used)) = 0 <=> Taken(used) = {}
    BY <2>3, F!FS_EmptySet, Zenon
  <2>6. LenUsed(used) = F!Cardinality(Taken(used))
    BY Finite, Zenon DEF LenUsed
  <2>7. F!Cardinality(Taken(used)) \in 0 .. n
    BY <2>1, <2>3, <2>4, CountArithmetic, Zenon
  <2>. QED
    BY <2>3, <2>4, <2>5, <2>6, <2>7, Zenon DEF n
<1>2. ASSUME NEW e \in Eips, NEW used \in Assignment(e), NEW i \in Offsets(e), NEW s \in Svcs
      PROVE  LenUsed([used EXCEPT ![i] = @ \cup {s}]) = LenUsed(used) + (IF used[i] = {} THEN 1 ELSE 0)
  <2>. DEFINE after == [used EXCEPT ![i] = @ \cup {s}]
  <2>1. after \in Assignment(e) /\ Taken(after) = Taken(used) \cup {i} /\ (i \in Taken(used) <=> used[i] # {})
    BY TakenParts, Zenon
  <2>. HIDE DEF after
  <2>2. /\ F!IsFiniteSet(Taken(used)) /\ LenUsed(used) = F!Cardinality(Taken(used)) /\ LenUsed(used) \in Nat
        /\ LenUsed(after) = F!Cardinality(Taken(after))
    BY <1>1, <2>1, Zenon
  <2>3. CASE used[i] = {}
    <3>1. LenUsed(after) = LenUsed(used) + 1
      BY <2>1, <2>2, <2>3, F!FS_AddElement, ZenonT(30)
    <3>. QED
      BY <2>3, <3>1, Zenon DEF after
  <2>4. CASE used[i] # {}
    <3>1. Taken(after) = Taken(used)
      BY <2>1, <2>4, Zenon
    <3>2. LenUsed(used) + 0 = LenUsed(used)
      BY <2>2, CountArithmetic, Zenon
    <3>. QED
      BY <2>2, <2>4, <3>1, <3>2, Zenon DEF after
  <2>. QED
    BY <2>3, <2>4, Zenon
<1>3. ASSUME NEW e \in Eips, NEW used \in Assignment(e), NEW after \in Assignment(e),
             Taken(after) \subseteq Taken(used), Taken(after) # Taken(used)
      PROVE  LenUsed(after) < LenUsed(used)
  <2>1. /\ F!IsFiniteSet(Taken(used)) /\ LenUsed(used) \in Nat /\ LenUsed(after) \in Nat
        /\ LenUsed(used) = F!Cardinality(Taken(used)) /\ LenUsed(after) = F!Cardinality(Taken(after))
    BY <1>1, Zenon
  <2>2. /\ F!Cardinality(Taken(after)) <= F!Cardinality(Taken(used))
        /\ F!Cardinality(Taken(after)) # F!Cardinality(Taken(used))
    BY <1>3, <2>1, F!FS_Subset, Zenon
  <2>. QED
    BY <2>1, <2>2, CountArithmetic, Zenon
<1>. QED
  BY <1>1, <1>2, <1>3, ZenonT(30) DEF Counting

------------------------------------------------------------------------------
(* The theorems.                                                           *)

\* The state of the two reconcilers of openelb-controller, of their caches and of
\* the API server stays well-formed.
THEOREM TypeCorrect == Spec => []TypeOK
  BY Counts, Invariance, IInvGives, PTL

\* Whatever the two reconcilers and the users do, from copies however old,
\* Usage and Occupied of every stored version of an Eip tell what Used holds.
THEOREM StatusCorrect == Spec => []StatusTellsUse
  BY Counts, Invariance, IInvGives, PTL

\* No writer of an Eip overwrites a record that another one has added:
\* a record goes only by ReleaseIP for its Service, by syncEip when it does
\* not see the Service, or with the Eip.
THEOREM NoLostUpdate == Spec => RecordsKept
<1>1. IInv /\ [Next]_vars => [RecordKept]_vars
  BY Counts, NextRecords, Zenon
<1>. QED
  BY <1>1, Counts, Invariance, PTL DEF Spec, RecordsKept

\* assignIPFromEip never gives an address that somebody holds to a Service that
\* did not ask for that address, although it looks at a cached Eip.
THEOREM NoAccidentalSharing == Spec => AutomaticIsExclusive
<1>1. IInv /\ [Next]_vars => [SharedOnRequest]_vars
  BY Counts, NextRecords, Zenon
<1>. QED
  BY <1>1, Counts, Invariance, PTL DEF Spec, AutomaticIsExclusive

\* The invariant about rest is kept by every step of the two reconcilers, of the
\* watches and of users, and by every crash.
THEOREM RestInvariance ==
  ASSUME Ordinary, Steady
  PROVE  Spec => []RestInv
<1>1. IInv /\ IInv' /\ RestInv /\ [Next]_vars => RestInv'
  BY Counts, NextRest, ZenonT(30)
<1>. QED
  BY <1>1, Counts, InitRest, Invariance, PTL DEF Spec

\* Reconcile of a Service and of an Eip: whenever everything has been processed,
\* the address a Service shows is recorded for it in its pool, and a record of a
\* Service that exists is of the address it shows.  Neither a lost reply, nor a
\* crash between the write of the Eip and that of the Service, nor a Service that
\* changes meanwhile leaves them in disagreement.
THEOREM AgreementAtRest ==
  ASSUME Ordinary, Steady
  PROVE  Spec => [](IngressRecorded /\ RecordIsIngress)
<1>1. IInv /\ RestInv => IngressRecorded /\ RecordIsIngress
  BY RestGives, Zenon
<1>. QED
  BY <1>1, Counts, Invariance, RestInvariance, PTL

\* Reconcile of a Service: whenever everything has been processed, no Service that
\* names a pool is left without an address of it; one that could not be served is
\* in the queue.
THEOREM NobodyForgottenAtRest ==
  ASSUME Ordinary, Steady
  PROVE  Spec => []NobodyForgotten
<1>1. IInv /\ RestInv => NobodyForgotten
  BY RestGives, Zenon
<1>. QED
  BY <1>1, Counts, Invariance, RestInvariance, PTL
==============================================================================
