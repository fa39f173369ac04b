---------------------------- MODULE IpamInvProofs -----------------------------
(***************************************************************************)
(* Lemmas about Ipam for every set of pools and Services, every pool size  *)
(* and every bound: the state stays well-formed, the bookkeeping of every  *)
(* stored version of an Eip is right, no writer of an Eip loses a record,  *)
(* and no address is shared by accident.  IpamProofs makes theorems of     *)
(* them.                                                                   *)
(***************************************************************************)
EXTENDS Ipam, TLAPS

------------------------------------------------------------------------------
(* The operators of EipStatus, for pools of every size.                    *)

SameSpec(new, obj) ==
    new.exists = obj.exists /\ new.deleting = obj.deleting /\ new.fin = obj.fin /\ new.disable = obj.disable

Assignment(e) == [Offsets(e) -> SUBSET Svcs]

\* What is used of counting.  len(Status.Used) is at most the size of the pool, and 0 only when
\* nothing is recorded; recording a Service at an offset adds one exactly when nobody was
\* recorded there; taking addresses out of use leaves fewer.  It holds (Counts, in IpamProofs);
\* the theory of finite sets that shows it is not needed before.
Counting ==
    \A e \in Eips : \A used \in Assignment(e) :
      /\ LenUsed(used) \in 0 .. Size[e]
      /\ LenUsed(used) = 0 <=> Taken(used) = {}
      /\ \A i \in Offsets(e), s \in Svcs :
           LenUsed([used EXCEPT ![i] = @ \cup {s}]) = LenUsed(used) + (IF used[i] = {} THEN 1 ELSE 0)
      /\ \A after \in Assignment(e) :
           Taken(after) \subseteq Taken(used) /\ Taken(after) # Taken(used) => LenUsed(after) < LenUsed(used)

\* The bounds of len(Status.Used).
LEMMA LenUsedBounds ==
  ASSUME Counting, NEW e \in Eips, NEW used \in Assignment(e)
  PROVE  /\ Taken(used) \subseteq Offsets(e)
         /\ LenUsed(used) \in 0 .. Size[e]
         /\ LenUsed(used) = 0 => Taken(used) = {}
<1>1. Taken(used) \subseteq Offsets(e)
  BY DEF Taken, Assignment
<1>. QED
  BY <1>1, Zenon DEF Counting

\* Recording a Service at an offset.
LEMMA LenUsedAdd ==
  ASSUME Counting, NEW e \in Eips, NEW used \in Assignment(e), NEW i \in Offsets(e), NEW s \in Svcs
  PROVE  LET after == [used EXCEPT ![i] = @ \cup {s}]
         IN /\ after \in Assignment(e)
            /\ used[i] = {} => LenUsed(after) = LenUsed(used) + 1
            /\ used[i] # {} => LenUsed(after) = LenUsed(used)
<1>. DEFINE after == [used EXCEPT ![i] = @ \cup {s}]
<1>1. after \in Assignment(e)
  BY DEF Assignment
<1>2. LenUsed(after) = LenUsed(used) + (IF used[i] = {} THEN 1 ELSE 0) /\ LenUsed(used) \in 0 .. Size[e]
  BY Zenon DEF Counting
<1>3. LenUsed(used) \in Int
  BY <1>2, SizeAssumption
<1>. HIDE DEF after
<1>4. CASE used[i] = {}
  BY <1>1, <1>2, <1>4, Zenon DEF after
<1>5. CASE used[i] # {}
  <2>1. LenUsed(after) = LenUsed(used) + 0
    BY <1>2, <1>5, Zenon
  <2>2. LenUsed(after) = LenUsed(used)
    BY <1>3, <2>1
  <2>. QED
    BY <1>1, <1>5, <2>2, Zenon DEF after
<1>. QED
  BY <1>4, <1>5, Zenon

\* Taking addresses out of use.
LEMMA LenUsedShrink ==
  ASSUME Counting, NEW e \in Eips, NEW used \in Assignment(e), NEW after \in Assignment(e),
         Taken(after) \subseteq Taken(used), Taken(after) # Taken(used)
  PROVE  LenUsed(after) < LenUsed(used)
  BY Zenon DEF Counting

\* assignIPFromEip on behalf of a Service keeps the bookkeeping right, hands
\* out an address of the pool, and changes nobody else's record.
LEMMA AssignKeeps ==
  ASSUME Counting, NEW e \in Eips, NEW obj \in EipObj(e), StatusOK(e, obj),
         NEW ip \in AddrsOf(Eips) \cup {Nil}, NEW s \in Svcs
  PROVE  LET out == assignIPFromEip(e, obj, ip, s)
         IN /\ out.obj \in EipObj(e) /\ StatusOK(e, out.obj)
            /\ out.at \in AddrsOf(Eips) \cup {Nil}
            /\ \A i \in Offsets(e) : /\ obj.used[i] \subseteq out.obj.used[i]
                                     /\ obj.used[i] # {} /\ out.obj.used[i] # obj.used[i] => ip = <<e, i>>
            /\ SameSpec(out.obj, obj)
<1>. DEFINE Kept(out) ==
       /\ out.obj \in EipObj(e) /\ StatusOK(e, out.obj)
       /\ out.at \in AddrsOf(Eips) \cup {Nil}
       /\ \A i \in Offsets(e) : /\ obj.used[i] \subseteq out.obj.used[i]
                                /\ obj.used[i] # {} /\ out.obj.used[i] # obj.used[i] => ip = <<e, i>>
       /\ SameSpec(out.obj, obj)
<1>1. Kept(Refused(obj))
  BY DEF Refused, EipObj, SameSpec
<1>2. ASSUME NEW i \in Offsets(e), obj.ready, obj.used[i] = {} \/ ip = <<e, i>>
      PROVE  Kept(Granted(e, obj, i, s))
  <2>. DEFINE after == [obj.used EXCEPT ![i] = @ \cup {s}]
              new == Granted(e, obj, i, s).obj
  <2>1. obj.used \in Assignment(e)
    BY DEF EipObj, Assignment
  <2>2. /\ after \in Assignment(e)
        /\ obj.used[i] = {} => LenUsed(after) = LenUsed(obj.used) + 1
        /\ obj.used[i] # {} => LenUsed(after) = LenUsed(obj.used)
    BY <2>1, LenUsedAdd
  <2>3. LenUsed(after) \in 0 .. Size[e] /\ LenUsed(obj.used) \in 0 .. Size[e] /\ Size[e] \in Nat
    BY <2>1, <2>2, LenUsedBounds, SizeAssumption
  <2>4. <<e, i>> \in AddrsOf(Eips)
    BY DEF AddrsOf
  <2>. HIDE DEF after
  <2>5. new = WithStatus(obj, TRUE, after, LenUsed(after),
                         obj.occupied \/ (obj.used[i] = {} /\ LenUsed(after) = Size[e]))
    BY <1>2, <2>2, Zenon DEF Granted, PoolSize, StatusOK, EipObj, after
  <2>6. new \in EipObj(e)
    BY <2>2, <2>3, <2>5, SMTT(30) DEF EipObj, Assignment, WithStatus
  <2>7. StatusOK(e, new)
    BY <1>2, <2>2, <2>3, <2>5, SMTT(30) DEF EipObj, StatusOK, WithStatus
  <2>8. \A j \in Offsets(e) : /\ obj.used[j] \subseteq after[j]
                              /\ obj.used[j] # {} /\ after[j] # obj.used[j] => ip = <<e, j>>
    BY <1>2, <2>1 DEF after, Assignment
  <2>9. SameSpec(new, obj) /\ new.used = after
    BY <2>5 DEF WithStatus, SameSpec
  <2>10. Granted(e, obj, i, s).at = <<e, i>>
    BY SMTT(30) DEF Granted
  <2>. HIDE DEF new
  <2>. QED
    BY <2>4, <2>6, <2>7, <2>8, <2>9, <2>10 DEF new
<1>. HIDE DEF Kept
<1>3. ASSUME ip # Nil PROVE Kept(assignIPFromEip(e, obj, ip, s))
  <2>1. ip[1] = e => ip[2] \in Offsets(e) /\ ip = <<e, ip[2]>>
    BY <1>3, SMTT(30) DEF AddrsOf
  <2>2. \/ assignIPFromEip(e, obj, ip, s) = Refused(obj)
        \/ assignIPFromEip(e, obj, ip, s) = Granted(e, obj, ip[2], s) /\ obj.ready /\ ip[1] = e
    BY <1>3, Zenon DEF assignIPFromEip
  <2>. QED
    BY <1>1, <1>2, <2>1, <2>2, Zenon
<1>4. ASSUME ip = Nil PROVE Kept(assignIPFromEip(e, obj, ip, s))
  <2>1. \A i \in FirstFree(e, obj) : i \in Offsets(e) /\ obj.ready /\ obj.used[i] = {}
    BY DEF FirstFree, PoolSize, Offsets
  <2>2. \/ assignIPFromEip(e, obj, ip, s) = Refused(obj)
        \/ \E i \in FirstFree(e, obj) : assignIPFromEip(e, obj, ip, s) = Granted(e, obj, i, s)
    BY <1>4, Zenon DEF assignIPFromEip
  <2>. QED
    BY <1>1, <1>2, <2>1, <2>2, Zenon
<1>5. Kept(assignIPFromEip(e, obj, ip, s))
  BY <1>3, <1>4, Zenon
<1>. QED
  BY <1>5, Zenon DEF Kept

\* releaseIPFromEip keeps the bookkeeping right and takes away only the records
\* of the Service it is called for.
LEMMA ReleaseKeeps ==
  ASSUME Counting, NEW e \in Eips, NEW obj \in EipObj(e), StatusOK(e, obj), NEW s \in Svcs
  PROVE  LET new == releaseIPFromEip(e, obj, s)
         IN /\ new \in EipObj(e) /\ StatusOK(e, new) /\ SameSpec(new, obj)
            /\ \A i \in Offsets(e) : /\ new.used[i] \subseteq obj.used[i]
                                     /\ obj.used[i] \subseteq new.used[i] \cup {s}
<1>. DEFINE after == [i \in Offsets(e) |-> obj.used[i] \ {s}]
            freed == \E i \in Offsets(e) : obj.used[i] = {s}
            new == WithStatus(obj, obj.ready, after,
                              IF freed THEN LenUsed(after) ELSE obj.usage,
                              obj.occupied /\ ~(freed /\ LenUsed(after) # PoolSize(e, obj)))
<1>1. CASE obj.deleting
  <2>1. releaseIPFromEip(e, obj, s) = obj
    BY <1>1, SMTT(30) DEF releaseIPFromEip
  <2>. QED
    BY <2>1 DEF SameSpec
<1>2. CASE ~obj.deleting
  <2>1. releaseIPFromEip(e, obj, s) = new
    BY <1>2 DEF releaseIPFromEip
  <2>2. obj.used \in Assignment(e) /\ after \in Assignment(e)
    BY DEF EipObj, Assignment
  <2>3. Taken(after) \subseteq Taken(obj.used)
    BY <2>2 DEF Assignment, Taken
  <2>4. freed <=> Taken(after) # Taken(obj.used)
    <3>1. \A i \in Offsets(e) : after[i] = obj.used[i] \ {s}
      OBVIOUS
    <3>2. /\ Taken(after) = {i \in Offsets(e) : after[i] # {}}
          /\ Taken(obj.used) = {i \in Offsets(e) : obj.used[i] # {}}
      BY <2>2, Zenon DEF Assignment, Taken
    <3>3. \A i \in Offsets(e) : obj.used[i] = {s} <=> obj.used[i] # {} /\ after[i] = {}
      BY <3>1, Zenon
    <3>. HIDE DEF after
    <3>. QED
      BY <2>3, <3>2, <3>3, Zenon
  <2>5. \A i \in Offsets(e) : /\ after[i] \subseteq obj.used[i]
                              /\ obj.used[i] \subseteq after[i] \cup {s}
    OBVIOUS
  <2>. HIDE DEF after, freed
  <2>6. /\ LenUsed(after) \in 0 .. Size[e] /\ LenUsed(obj.used) \in 0 .. Size[e]
        /\ LenUsed(obj.used) = 0 => Taken(obj.used) = {}
        /\ Size[e] \in Nat \ {0}
    BY <2>2, LenUsedBounds, SizeAssumption
  <2>7. IF freed THEN LenUsed(after) < LenUsed(obj.used) ELSE LenUsed(after) = LenUsed(obj.used)
    BY <2>2, <2>3, <2>4, LenUsedShrink DEF LenUsed
  <2>8. freed => obj.ready
    BY <2>3, <2>4, <2>6 DEF StatusOK
  <2>9. new.usage = LenUsed(after)
    BY <2>7 DEF WithStatus, StatusOK
  <2>10. new \in EipObj(e)
    BY <2>2, <2>6, <2>9, SMTT(30) DEF EipObj, Assignment, WithStatus
  <2>11. new.occupied <=> obj.occupied /\ ~freed
    <3>1. freed => LenUsed(after) # PoolSize(e, obj)
      BY <2>6, <2>7, <2>8, SMTT(30) DEF PoolSize
    <3>2. new.occupied = (obj.occupied /\ ~(freed /\ LenUsed(after) # PoolSize(e, obj)))
      BY Zenon DEF WithStatus
    <3>. QED
      BY <3>1, <3>2, Zenon
  <2>12. StatusOK(e, new)
    <3>1. new.used = after /\ new.ready = obj.ready
      BY DEF WithStatus
    <3>. HIDE DEF new
    <3>. QED
      BY <2>6, <2>7, <2>8, <2>9, <2>11, <3>1, SMTT(30) DEF StatusOK
  <2>13. new.used = after /\ SameSpec(new, obj)
    BY DEF WithStatus, SameSpec
  <2>. HIDE DEF new
  <2>. QED
    BY <2>1, <2>5, <2>10, <2>12, <2>13, Zenon
<1>. QED
  BY <1>1, <1>2

\* updateEip puts the bookkeeping right and takes away only the records of
\* Services it does not find.
LEMMA UpdateKeeps ==
  ASSUME Counting, NEW e \in Eips, NEW obj \in EipObj(e), NEW present \in SUBSET Svcs
  PROVE  LET new == updateEip(e, obj, present)
         IN /\ new \in EipObj(e) /\ StatusOK(e, new) /\ SameSpec(new, obj)
            /\ \A i \in Offsets(e) : new.used[i] = obj.used[i] \cap present
<1>. DEFINE after == [i \in Offsets(e) |-> obj.used[i] \cap present]
<1>1. after \in Assignment(e)
  BY DEF EipObj, Assignment
<1>2. LenUsed(after) \in 0 .. Size[e] /\ Size[e] \in Nat
  BY <1>1, LenUsedBounds, SizeAssumption
<1>. DEFINE new == updateEip(e, obj, present)
<1>3. new = WithStatus(obj, TRUE, after, LenUsed(after), LenUsed(after) >= Size[e])
  BY DEF updateEip
<1>4. \A i \in Offsets(e) : after[i] = obj.used[i] \cap present
  OBVIOUS
<1>. HIDE DEF after, new
<1>5. /\ new.ready = TRUE /\ new.used = after /\ new.usage = LenUsed(after)
      /\ new.occupied = (LenUsed(after) >= Size[e])
      /\ SameSpec(new, obj)
  BY <1>3, Zenon DEF WithStatus, SameSpec
<1>6. new.occupied = (LenUsed(after) = Size[e])
  <2>1. (LenUsed(after) >= Size[e]) = (LenUsed(after) = Size[e])
    BY <1>2
  <2>. QED
    BY <1>5, <2>1, Zenon
<1>7. new \in EipObj(e)
  BY <1>1, <1>2, <1>3, <1>5, <1>6, SMTT(30) DEF EipObj, Assignment, WithStatus
<1>8. StatusOK(e, new)
  BY <1>5, <1>6, Zenon DEF StatusOK
<1>. QED
  BY <1>4, <1>5, <1>7, <1>8, SMTT(30) DEF new

\* An Eip that has just been created, or is gone, has nothing in use.
LEMMA EmptyPools ==
  ASSUME Counting, NEW e \in Eips
  PROVE  /\ GoneEip(e) \in EipObj(e) /\ StatusOK(e, GoneEip(e))
         /\ NewEip(e) \in EipObj(e) /\ StatusOK(e, NewEip(e))
<1>1. Taken([i \in Offsets(e) |-> {}]) = {}
  BY DEF Taken
<1>2. LenUsed([i \in Offsets(e) |-> {}]) = 0
  <2>1. [i \in Offsets(e) |-> {}] \in Assignment(e)
    BY Zenon DEF Assignment
  <2>. QED
    BY <1>1, <2>1, Zenon DEF Counting
<1>3. GoneEip(e) \in EipObj(e) /\ StatusOK(e, GoneEip(e))
  BY <1>2 DEF GoneEip, EipObj, StatusOK
<1>4. NewEip(e) \in EipObj(e) /\ NewEip(e).used = GoneEip(e).used /\ NewEip(e).usage = GoneEip(e).usage
      /\ NewEip(e).occupied = GoneEip(e).occupied /\ NewEip(e).ready = GoneEip(e).ready
  BY <1>3, Zenon DEF NewEip, EipObj
<1>. QED
  BY <1>3, <1>4 DEF StatusOK
------------------------------------------------------------------------------
(* Windows.                                                                *)

\* A window that is not empty shows objects of its kind to the caches and keeps
\* one in the API server.
LEMMA WindowEnds ==
  ASSUME NEW S, NEW w \in Seq(S), w # <<>>
  PROVE  /\ Api(w) \in S /\ Cached(w) \in S /\ Len(w) \in Nat \ {0}
         /\ Api(w) = w[Len(w)] /\ Cached(w) = w[1]
         /\ Fresh(w) => Api(w) = Cached(w)
  BY DEF Api, Cached, Fresh

\* A write adds a version for the API server and leaves the cache alone.
LEMMA WindowAppend ==
  ASSUME NEW S, NEW w \in Seq(S), w # <<>>, NEW x \in S
  PROVE  /\ Append(w, x) \in Seq(S) /\ Append(w, x) # <<>>
         /\ Api(Append(w, x)) = x
         /\ \A k \in 1 .. Len(Append(w, x)) :
              Append(w, x)[k] = x \/ \E j \in 1 .. Len(w) : Append(w, x)[k] = w[j]
  BY DEF Api

\* What is left of a window when its first version is dropped.
LEMMA TailParts ==
  ASSUME NEW S, NEW w \in Seq(S), w # <<>>
  PROVE  /\ Len(w) \in Nat \ {0} /\ (Len(w) = 1 \/ Len(w) > 1)
         /\ Tail(w) \in Seq(S) /\ Len(Tail(w)) = Len(w) - 1
         /\ \A k \in 1 .. Len(w) - 1 : Tail(w)[k] = w[k + 1]
  BY SMTT(30)

\* A delivery drops the version the cache showed and leaves the API server
\* alone.
LEMMA WindowTail ==
  ASSUME NEW S, NEW w \in Seq(S), w # <<>>, ~Fresh(w)
  PROVE  /\ Tail(w) \in Seq(S) /\ Tail(w) # <<>>
         /\ Api(Tail(w)) = Api(w)
         /\ \A k \in 1 .. Len(Tail(w)) : \E j \in 1 .. Len(w) : Tail(w)[k] = w[j]
<1>1. Len(w) \in Nat /\ Len(w) > 1
  <2>1. Len(w) \in Nat \ {0} /\ (Len(w) = 1 \/ Len(w) > 1)
    BY TailParts, Zenon
  <2>. QED
    BY <2>1, Zenon DEF Fresh
<1>2. /\ Tail(w) \in Seq(S) /\ Len(Tail(w)) = Len(w) - 1
      /\ \A k \in 1 .. Len(w) - 1 : Tail(w)[k] = w[k + 1]
  BY TailParts, Zenon
<1>3. Tail(w) # <<>>
  <2>1. Len(Tail(w)) # 0
    BY <1>1, <1>2, SMTT(30)
  <2>2. Len(<<>>) = 0
    BY SMTT(30)
  <2>. QED
    BY <2>1, <2>2, Zenon
<1>4. Api(Tail(w)) = Api(w)
  BY <1>1, <1>2 DEF Api
<1>5. \A k \in 1 .. Len(Tail(w)) : k + 1 \in 1 .. Len(w) /\ Tail(w)[k] = w[k + 1]
  BY <1>1, <1>2
<1>. QED
  BY <1>2, <1>3, <1>4, <1>5, Zenon

\* An Eip that is gone has no records.
NoGhost(e, obj) == obj.exists \/ \A i \in Offsets(e) : obj.used[i] = {}

\* Every version in the window of Eip e is well-formed and tells what is in use.
GoodEip(e, obj) == obj \in EipObj(e) /\ StatusOK(e, obj) /\ NoGhost(e, obj)

GoodWindow(e, w) ==
    w \in Seq(EipObj(e)) /\ w # <<>> /\ \A k \in 1 .. Len(w) : GoodEip(e, w[k])

\* The two ends of a good window are good versions.
LEMMA GoodEnds ==
  ASSUME NEW e, NEW w, GoodWindow(e, w)
  PROVE  GoodEip(e, Api(w)) /\ GoodEip(e, Cached(w)) /\ (Fresh(w) => Api(w) = Cached(w))
  BY WindowEnds DEF GoodWindow, GoodEip

\* A good version stored behind a good window leaves it good.
LEMMA GoodAppend ==
  ASSUME NEW e, NEW w, GoodWindow(e, w), NEW x, GoodEip(e, x)
  PROVE  GoodWindow(e, Append(w, x)) /\ Api(Append(w, x)) = x
  BY WindowAppend DEF GoodWindow, GoodEip

\* Delivering a version leaves a good window good.
LEMMA GoodTail ==
  ASSUME NEW e, NEW w, GoodWindow(e, w), ~Fresh(w)
  PROVE  GoodWindow(e, Tail(w)) /\ Api(Tail(w)) = Api(w)
  BY WindowTail, Zenon DEF GoodWindow

\* The window of a process that has just listed everything is good.
LEMMA GoodSingle ==
  ASSUME NEW e, NEW x, GoodEip(e, x)
  PROVE  GoodWindow(e, <<x>>) /\ Api(<<x>>) = x
  BY DEF GoodWindow, GoodEip, Api

\* What assignIPFromEip makes of an Eip: a good one, if it exists, with nothing
\* added to an address in use that was not asked for.
Assigned(e, obj, ip, out) ==
    /\ obj.exists => GoodEip(e, out.obj)
    /\ out.at \in Addrs \cup {Nil}
    /\ \A i \in Offsets(e) :
         /\ obj.used[i] \subseteq out.obj.used[i]
         /\ obj.used[i] # {} /\ out.obj.used[i] # obj.used[i] => ip = <<e, i>>

\* assignIPFromEip does so with every good Eip.
LEMMA AssignGood ==
  ASSUME Counting, NEW e \in Eips, NEW obj, GoodEip(e, obj),
         NEW ip \in Addrs \cup {Nil}, NEW s \in Svcs
  PROVE  Assigned(e, obj, ip, assignIPFromEip(e, obj, ip, s))
<1>. DEFINE out == assignIPFromEip(e, obj, ip, s)
<1>1. obj \in EipObj(e) /\ StatusOK(e, obj)
  BY Zenon DEF GoodEip
<1>2. /\ out.obj \in EipObj(e) /\ StatusOK(e, out.obj) /\ SameSpec(out.obj, obj)
      /\ out.at \in Addrs \cup {Nil}
      /\ \A i \in Offsets(e) :
           /\ obj.used[i] \subseteq out.obj.used[i]
           /\ obj.used[i] # {} /\ out.obj.used[i] # obj.used[i] => ip = <<e, i>>
  BY <1>1, AssignKeeps DEF Addrs
<1>. HIDE DEF out
<1>3. obj.exists => GoodEip(e, out.obj)
  BY <1>2, Zenon DEF GoodEip, NoGhost, SameSpec
<1>4. Assigned(e, obj, ip, out)
  BY <1>2, <1>3, Zenon DEF Assigned
<1>. QED
  BY <1>4, Zenon DEF out

\* What releaseIPFromEip makes of an Eip: a good one that lacks one Service only.
Released(e, obj, s, new) ==
    /\ GoodEip(e, new)
    /\ \A i \in Offsets(e) : new.used[i] \subseteq obj.used[i] /\ obj.used[i] \subseteq new.used[i] \cup {s}

\* releaseIPFromEip does so with every good Eip.
LEMMA ReleaseGood ==
  ASSUME Counting, NEW e \in Eips, NEW obj, GoodEip(e, obj), obj.exists, NEW s \in Svcs
  PROVE  Released(e, obj, s, releaseIPFromEip(e, obj, s))
<1>. DEFINE new == releaseIPFromEip(e, obj, s)
<1>1. obj \in EipObj(e) /\ StatusOK(e, obj)
  BY Zenon DEF GoodEip
<1>2. /\ new \in EipObj(e) /\ StatusOK(e, new) /\ SameSpec(new, obj)
      /\ \A i \in Offsets(e) : /\ new.used[i] \subseteq obj.used[i]
                               /\ obj.used[i] \subseteq new.used[i] \cup {s}
  BY <1>1, ReleaseKeeps, Zenon
<1>. HIDE DEF new
<1>3. GoodEip(e, new)
  BY <1>2, Zenon DEF GoodEip, NoGhost, SameSpec
<1>4. Released(e, obj, s, new)
  BY <1>2, <1>3, Zenon DEF Released
<1>. QED
  BY <1>4, Zenon DEF new

\* What updateEip makes of a good Eip is good; the Services that are left are
\* those present.
LEMMA UpdateGood ==
  ASSUME Counting, NEW e \in Eips, NEW obj, GoodEip(e, obj), NEW present \in SUBSET Svcs
  PROVE  LET new == updateEip(e, obj, present)
         IN /\ GoodEip(e, new)
            /\ \A i \in Offsets(e) : new.used[i] = obj.used[i] \cap present
<1>. DEFINE new == updateEip(e, obj, present)
<1>1. obj \in EipObj(e) /\ NoGhost(e, obj)
  BY Zenon DEF GoodEip
<1>2. /\ new \in EipObj(e) /\ StatusOK(e, new) /\ SameSpec(new, obj)
      /\ \A i \in Offsets(e) : new.used[i] = obj.used[i] \cap present
  BY <1>1, UpdateKeeps
<1>. HIDE DEF new
<1>3. GoodEip(e, new)
  BY <1>1, <1>2, Zenon DEF GoodEip, NoGhost, SameSpec
<1>. QED
  BY <1>2, <1>3, Zenon DEF new

------------------------------------------------------------------------------
(* The inductive invariant, part by part.                                  *)

EipsInv == DOMAIN eips = Eips /\ \A e \in Eips : GoodWindow(e, eips[e])

SvcsInv == svcs \in [Svcs -> Seq(SvcObj)] /\ \A s \in Svcs : svcs[s] # <<>>

LbInv == /\ lb \in LbState
         /\ lb.pc # "idle" => lb.svc \in Svcs
         /\ lb.pc = "assign" => lb.req.alloc
         /\ lb.req.alloc => lb.req.eip \in Eips

EwInv == /\ ew \in EwState
         /\ ew.pc # "idle" => ew.eip \in Eips /\ GoodEip(ew.eip, ew.obj)

QueuesInv == lbq \in SUBSET Svcs /\ eipq \in SUBSET Eips

HeldInv == held \in [Workers -> SUBSET (Eips \cup Svcs)]

BoundsInv == ops \in 0 .. MaxOps /\ faults \in 0 .. MaxFaults

\* The copy the Eip worker will be allowed to write from is the last version.
CopyInv == ew.pc # "idle" /\ ew.eip \in held["eip"] => ew.obj = Api(eips[ew.eip])

IInv == EipsInv /\ SvcsInv /\ LbInv /\ EwInv /\ QueuesInv /\ HeldInv /\ BoundsInv /\ CopyInv

\* The inductive invariant gives the two invariants of the runs.
LEMMA IInvGives == IInv => TypeOK /\ StatusTellsUse
  BY Zenon DEF IInv, EipsInv, SvcsInv, LbInv, EwInv, QueuesInv, HeldInv, BoundsInv, GoodWindow, GoodEip,
         TypeOK, StatusTellsUse

------------------------------------------------------------------------------
(* The writes.                                                             *)

\* A stored version of an Eip: the API server has it, no other Eip moves, and
\* no worker but the writer still holds the last version.
LEMMA PutEipKeeps ==
  ASSUME EipsInv, HeldInv, NEW e \in Eips, NEW obj, GoodEip(e, obj), NEW w, PutEip(e, obj, w)
  PROVE  /\ EipsInv' /\ HeldInv'
         /\ Api(eips'[e]) = obj
         /\ \A d \in Eips \ {e} : eips'[d] = eips[d]
         /\ held'["eip"] \subseteq held["eip"]
         /\ w # "eip" => e \notin held'["eip"]
<1>1. /\ DOMAIN eips' = Eips /\ eips'[e] = Append(eips[e], obj)
      /\ \A d \in Eips \ {e} : eips'[d] = eips[d]
  BY Zenon DEF PutEip, EipsInv
<1>2. GoodWindow(e, eips'[e]) /\ Api(eips'[e]) = obj
  BY <1>1, GoodAppend DEF EipsInv
<1>3. EipsInv'
  BY <1>1, <1>2, Zenon DEF EipsInv
<1>4. HeldInv' /\ held'["eip"] \subseteq held["eip"] /\ (w # "eip" => e \notin held'["eip"])
  BY Zenon DEF PutEip, HeldInv, Workers
<1>. QED
  BY <1>1, <1>2, <1>3, <1>4, Zenon

\* A stored version of a Service.
LEMMA PutSvcKeeps ==
  ASSUME SvcsInv, HeldInv, NEW s \in Svcs, NEW obj \in SvcObj, NEW w, PutSvc(s, obj, w)
  PROVE  SvcsInv' /\ HeldInv' /\ held'["eip"] \subseteq held["eip"]
<1>1. GoneSvc \in SvcObj
  BY Zenon DEF GoneSvc, SvcObj, NoSpec, Spec0
<1>2. PICK x \in SvcObj : svcs' = [svcs EXCEPT ![s] = Append(@, x)]
  BY <1>1, Zenon DEF PutSvc
<1>3. Append(svcs[s], x) \in Seq(SvcObj) /\ Append(svcs[s], x) # <<>>
  BY WindowAppend DEF SvcsInv
<1>4. SvcsInv'
  BY <1>2, <1>3, Zenon DEF SvcsInv
<1>5. HeldInv' /\ held'["eip"] \subseteq held["eip"]
  BY Zenon DEF PutSvc, HeldInv, Workers
<1>. QED
  BY <1>4, <1>5, Zenon

\* Losing a reply counts as a fault and stays within the bound.
LEMMA ReplyKeeps ==
  ASSUME BoundsInv, NEW ok \in BOOLEAN, Reply(ok)
  PROVE  faults' \in 0 .. MaxFaults
  BY BoundsAssumption DEF BoundsInv, Reply

\* The update of a Service by one of the workers.
LEMMA SvcUpdateKeeps ==
  ASSUME SvcsInv, HeldInv, BoundsInv, NEW s \in Svcs, NEW new \in SvcObj, NEW w,
         NEW ok \in BOOLEAN, SvcUpdate(s, new, w, ok)
  PROVE  SvcsInv' /\ HeldInv' /\ held'["eip"] \subseteq held["eip"] /\ faults' \in 0 .. MaxFaults
<1>1. CASE UNCHANGED <<svcs, held>>
  <2>1. faults' \in 0 .. MaxFaults
    BY ReplyKeeps, Zenon DEF SvcUpdate, BoundsInv
  <2>. QED
    BY <1>1, <2>1, Zenon DEF SvcsInv, HeldInv
<1>2. CASE PutSvc(s, new, w) /\ Reply(ok)
  BY <1>2, PutSvcKeeps, ReplyKeeps, Zenon
<1>. QED
  BY <1>1, <1>2, Zenon DEF SvcUpdate

\* What a worker's update of an Eip does when it takes place at all: it puts
\* the new version behind the one it was computed from.
Wrote(e, from, new) ==
    /\ Api(eips[e]) = from /\ Api(eips'[e]) = new
    /\ \A d \in Eips \ {e} : eips'[d] = eips[d]

\* The Status().Update of the service reconciler stores its version only behind
\* the one it was computed from.
LEMMA EipStatusUpdateKeeps ==
  ASSUME EipsInv, HeldInv, BoundsInv, NEW e \in Eips, NEW new, GoodEip(e, new),
         NEW ok \in BOOLEAN, EipStatusUpdate(e, new, ok)
  PROVE  /\ EipsInv' /\ HeldInv' /\ faults' \in 0 .. MaxFaults
         /\ held'["eip"] \subseteq held["eip"]
         /\ \/ eips' = eips
            \/ Wrote(e, Cached(eips[e]), new) /\ e \notin held'["eip"]
<1>1. CASE UNCHANGED <<eips, held, faults>>
  BY <1>1, Zenon DEF EipsInv, HeldInv, BoundsInv
<1>2. CASE Fresh(eips[e]) /\ PutEip(e, new, "lb") /\ Reply(ok)
  <2>1. Api(eips[e]) = Cached(eips[e])
    BY <1>2, GoodEnds, SMTT(30) DEF EipsInv
  <2>. QED
    BY <1>2, <2>1, PutEipKeeps, ReplyKeeps, SMTT(30) DEF Wrote
<1>. QED
  BY <1>1, <1>2, Zenon DEF EipStatusUpdate

\* The updates of the Eip reconciler store a version only behind the worker's
\* copy.
LEMMA EwUpdateKeeps ==
  ASSUME EipsInv, HeldInv, BoundsInv, EwInv, CopyInv, ew.pc # "idle", NEW new, GoodEip(ew.eip, new),
         NEW ok \in BOOLEAN, EwUpdate(new, ok)
  PROVE  /\ EipsInv' /\ HeldInv' /\ faults' \in 0 .. MaxFaults
         /\ held'["eip"] \subseteq held["eip"]
         /\ eips' = eips \/ Wrote(ew.eip, ew.obj, new)
         /\ ok => Api(eips'[ew.eip]) = new
<1>1. CASE ew.eip \notin held["eip"] /\ ~ok /\ UNCHANGED <<eips, held, faults>>
  BY <1>1, Zenon DEF EipsInv, HeldInv, BoundsInv
<1>2. CASE ew.eip \in held["eip"] /\ Reply(ok) /\ new = Api(eips[ew.eip]) /\ UNCHANGED <<eips, held>>
  BY <1>2, ReplyKeeps, Zenon DEF EipsInv, HeldInv
<1>3. CASE ew.eip \in held["eip"] /\ Reply(ok) /\ PutEip(ew.eip, new, "eip")
  BY <1>3, PutEipKeeps, ReplyKeeps, Zenon DEF Wrote, CopyInv, EwInv
<1>. QED
  BY <1>1, <1>2, <1>3, SMTT(30) DEF EwUpdate

------------------------------------------------------------------------------
(* Every step keeps the invariant.                                         *)

\* A pool that is gone, or new, has no records.
LEMMA EmptyNoGhost ==
  ASSUME NEW e \in Eips
  PROVE  NoGhost(e, GoneEip(e)) /\ NoGhost(e, NewEip(e))
  BY Zenon DEF NoGhost, GoneEip, NewEip

\* The controller starts in the invariant.
LEMMA InitEstablishes == ASSUME Counting PROVE Init => IInv
<1>. SUFFICES ASSUME Init PROVE IInv
  OBVIOUS
<1>1. EipsInv
  BY EmptyPools, GoodSingle, EmptyNoGhost, Zenon DEF Init, EipsInv, GoodEip
<1>2. GoneSvc \in SvcObj
  BY Zenon DEF GoneSvc, SvcObj, NoSpec, Spec0
<1>3. SvcsInv
  BY <1>2 DEF Init, SvcsInv
<1>4. LbInv
  BY <1>2, Zenon DEF Init, LbInv, LbIdle, LbState, NoRequest, Request
<1>5. EwInv /\ CopyInv
  BY Zenon DEF Init, EwInv, CopyInv, EwIdle, EwState
<1>6. QueuesInv /\ HeldInv /\ BoundsInv
  BY BoundsAssumption DEF Init, QueuesInv, HeldInv, BoundsInv
<1>. QED
  BY <1>1, <1>3, <1>4, <1>5, <1>6, Zenon DEF IInv

\* ConstructRequest yields well-formed requests, and an allocation names a pool.
LEMMA RequestType ==
  ASSUME IInv, NEW s \in Svcs, NEW obj \in SvcObj, NEW req \in ConstructRequest(s, obj)
  PROVE  req \in Request /\ (req.alloc => req.eip \in Eips)
<1>1. NoRequest \in Request /\ ~NoRequest.alloc
  BY Zenon DEF NoRequest, Request
<1>2. CASE obj.spec.class = "bare"
  BY <1>1, <1>2, Zenon DEF ConstructRequest
<1>3. CASE obj.spec.class # "bare"
  <2>1. obj.spec.wantEip \in Eips \cup {Nil} /\ obj.spec.wantIP \in Addrs \cup {Nil}
    BY Zenon DEF SvcObj, Spec0
  <2>2. \A ip : getEIP(ip) \subseteq Eips
    BY PoolsAssumption, Zenon DEF getEIP, getEIPBasedOnIP, getDefaultEIP
  <2>3. getAllocatedEIPInfo(s) \subseteq Addrs \cup {Nil}
    BY Zenon DEF getAllocatedEIPInfo
  <2>4. \A rec \in Addrs \cup {Nil} : constructRelease(obj, rec) \in Request /\ ~constructRelease(obj, rec).alloc
    <3>. TAKE rec \in Addrs \cup {Nil}
    <3>. DEFINE b == rec # Nil \/ obj.ingress # Nil
                f == IF rec = Nil THEN Nil ELSE rec[1]
    <3>1. b \in BOOLEAN /\ f \in Eips \cup {Nil}
      BY DEF Addrs, AddrsOf
    <3>2. constructRelease(obj, rec) = [NoRequest EXCEPT !.rel = b, !.from = f]
      BY Zenon DEF constructRelease
    <3>. HIDE DEF b, f
    <3>. QED
      BY <3>1, <3>2, Zenon DEF NoRequest, Request
  <2>5. \A r \in Request, e \in Eips :
           LET q == [r EXCEPT !.alloc = TRUE, !.eip = e, !.ip = obj.spec.wantIP]
           IN q \in Request /\ q.eip = e
    BY <2>1, ZenonT(30) DEF Request
  <2>. DEFINE chosen == IF obj.spec.wantEip # Nil THEN {obj.spec.wantEip} ELSE getEIP(obj.spec.wantIP)
              Allocation(rec, e) == [constructRelease(obj, rec) EXCEPT !.alloc = TRUE, !.eip = e, !.ip = obj.spec.wantIP]
              Options(rec) ==
                IF needRelease(obj) \/ chosen = {} THEN {constructRelease(obj, rec)}
                ELSE {IF ~needUpdate(obj, rec, e) /\ obj.label # Nil THEN NoRequest
                      ELSE Allocation(rec, e) : e \in chosen}
  <2>6. chosen \subseteq Eips
    BY <2>1, <2>2, Zenon
  <2>7. PICK rec \in getAllocatedEIPInfo(s) : req \in Options(rec)
    BY <1>3, Zenon DEF ConstructRequest
  <2>8. req = constructRelease(obj, rec) \/ req = NoRequest \/ \E e \in chosen : req = Allocation(rec, e)
    BY <2>7, ZenonT(30)
  <2>9. constructRelease(obj, rec) \in Request /\ ~constructRelease(obj, rec).alloc
    BY <2>3, <2>4, <2>7, ZenonT(30)
  <2>10. \A e \in Eips : Allocation(rec, e) \in Request /\ Allocation(rec, e).eip = e
    BY <2>5, <2>9, Zenon
  <2>. HIDE DEF chosen, Allocation
  <2>. QED
    BY <1>1, <2>6, <2>8, <2>9, <2>10, Zenon
<1>. QED
  BY <1>2, <1>3, Zenon

\* The caches and the API server hold well-formed Services.
LEMMA SvcEnds ==
  ASSUME SvcsInv, NEW s \in Svcs
  PROVE  Cached(svcs[s]) \in SvcObj /\ Api(svcs[s]) \in SvcObj
  BY WindowEnds, Zenon DEF SvcsInv

\* Reading a Service and constructing its request keeps the invariant.
LEMMA ReconcileKeeps ==
  ASSUME IInv, NEW s \in Svcs, Reconcile(s)
  PROVE  IInv'
<1>1. PICK req \in ConstructRequest(s, Cached(svcs[s])) :
        IF ~Cached(svcs[s]).exists \/ (~req.rel /\ ~req.alloc)
        THEN UNCHANGED <<lb, held>>
        ELSE /\ lb' = [pc |-> IF req.rel THEN "release" ELSE "assign", svc |-> s, req |-> req,
                       old |-> Cached(svcs[s]), new |-> Cached(svcs[s]), err |-> FALSE]
             /\ held' = [held EXCEPT !["lb"] = IF Fresh(svcs[s]) THEN {s} ELSE {}]
  BY Zenon DEF Reconcile
<1>2. Cached(svcs[s]) \in SvcObj
  BY SvcEnds, Zenon DEF IInv
<1>3. req \in Request /\ (req.alloc => req.eip \in Eips)
  BY <1>2, RequestType, Zenon
<1>4. LbInv'
  <2>1. CASE UNCHANGED lb
    BY <2>1, Zenon DEF IInv, LbInv
  <2>2. CASE /\ req.rel \/ req.alloc
             /\ lb' = [pc |-> IF req.rel THEN "release" ELSE "assign", svc |-> s, req |-> req,
                       old |-> Cached(svcs[s]), new |-> Cached(svcs[s]), err |-> FALSE]
    <3>1. lb' \in LbState
      BY <1>2, <1>3, <2>2, Zenon DEF LbState
    <3>2. lb'.svc = s /\ lb'.req = req /\ (lb'.pc = "assign" => ~req.rel)
      BY <2>2, Zenon
    <3>. QED
      BY <1>3, <2>2, <3>1, <3>2, Zenon DEF LbInv
  <2>. QED
    BY <1>1, <2>1, <2>2, Zenon
<1>5. HeldInv' /\ held'["eip"] = held["eip"]
  BY <1>1, Zenon DEF IInv, HeldInv, Workers
<1>6. QueuesInv'
  BY Zenon DEF Reconcile, IInv, QueuesInv
<1>. QED
  BY <1>4, <1>5, <1>6, Zenon DEF Reconcile, IInv, EipsInv, SvcsInv, EwInv, BoundsInv, CopyInv

\* A write by somebody else than the Eip worker takes its copy's right to be
\* written away.
LEMMA CopyKept ==
  ASSUME CopyInv, EwInv, ew' = ew, held'["eip"] \subseteq held["eip"],
         \A d \in Eips : d \in held'["eip"] => Api(eips'[d]) = Api(eips[d])
  PROVE  CopyInv'
  BY Zenon DEF CopyInv, EwInv

\* An idle service worker is well-formed.
LEMMA LbIdleOK == ASSUME lb' = LbIdle PROVE LbInv'
<1>1. GoneSvc \in SvcObj
  BY Zenon DEF GoneSvc, SvcObj, NoSpec, Spec0
<1>. QED
  BY <1>1, Zenon DEF LbInv, LbIdle, LbState, NoRequest, Request

\* ReleaseIP keeps the invariant, whether its write happens or not.
LEMMA ReleaseIPKeeps ==
  ASSUME Counting, IInv, ReleaseIP
  PROVE  IInv'
<1>. DEFINE e == lb.req.from
            new == releaseIPFromEip(e, CachedEip(e), lb.svc)
<1>1. PICK ok \in BOOLEAN :
        /\ IF e # Nil /\ CachedEip(e).exists THEN EipStatusUpdate(e, new, ok)
           ELSE ok /\ UNCHANGED <<eips, held, faults>>
        /\ IF ok
           THEN /\ lb' = [lb EXCEPT !.pc = IF lb.req.alloc THEN "assign" ELSE "update",
                                    !.new = [@ EXCEPT !.fin = FALSE, !.label = Nil, !.ingress = Nil]]
                /\ UNCHANGED lbq
           ELSE LbDone(TRUE)
  BY Zenon DEF ReleaseIP
<1>2. lb \in LbState /\ lb.svc \in Svcs /\ lb.req \in Request /\ lb.new \in SvcObj
  BY Zenon DEF IInv, LbInv, LbState, ReleaseIP
<1>3. /\ EipsInv' /\ HeldInv' /\ faults' \in 0 .. MaxFaults
      /\ held'["eip"] \subseteq held["eip"]
      /\ \A d \in Eips : d \in held'["eip"] => Api(eips'[d]) = Api(eips[d])
  <2>1. CASE e # Nil /\ CachedEip(e).exists
    <3>1. e \in Eips
      BY <1>2, <2>1, Zenon DEF Request
    <3>2. GoodEip(e, CachedEip(e))
      BY <3>1, GoodEnds, Zenon DEF IInv, EipsInv, CachedEip
    <3>a. Released(e, CachedEip(e), lb.svc, new)
      BY <1>2, <2>1, <3>1, <3>2, ReleaseGood, Zenon
    <3>3. GoodEip(e, new)
      BY <3>a, Zenon DEF Released
    <3>. HIDE DEF new, e
    <3>. QED
      BY <1>1, <2>1, <3>1, <3>3, EipStatusUpdateKeeps, Zenon DEF IInv, Wrote
  <2>2. CASE UNCHANGED <<eips, held, faults>>
    BY <2>2, Zenon DEF IInv, EipsInv, HeldInv, BoundsInv
  <2>. QED
    BY <1>1, <2>1, <2>2, Zenon
<1>4. CopyInv' /\ EwInv'
  <2>1. ew' = ew
    BY Zenon DEF ReleaseIP
  <2>. QED
    BY <1>3, <2>1, CopyKept, Zenon DEF IInv, EwInv
<1>5. LbInv' /\ lbq' \in SUBSET Svcs
  <2>1. CASE ok
    <3>1. [lb.new EXCEPT !.fin = FALSE, !.label = Nil, !.ingress = Nil] \in SvcObj
      BY <1>2, Zenon DEF SvcObj
    <3>2. /\ lb' \in LbState /\ lb'.svc = lb.svc /\ lb'.req = lb.req
          /\ lb'.pc = IF lb.req.alloc THEN "assign" ELSE "update"
      BY <1>1, <1>2, <2>1, <3>1, ZenonT(30) DEF LbState
    <3>. QED
      BY <1>1, <1>2, <2>1, <3>2, Zenon DEF LbInv, IInv, QueuesInv
  <2>2. CASE ~ok
    BY <1>1, <1>2, <2>2, LbIdleOK, Zenon DEF LbDone, IInv, QueuesInv
  <2>. QED
    BY <2>1, <2>2, Zenon
<1>. QED
  BY <1>3, <1>4, <1>5, Zenon DEF ReleaseIP, IInv, SvcsInv, QueuesInv, BoundsInv

\* AssignIP keeps the invariant, whether its write happens or not.
LEMMA AssignIPKeeps ==
  ASSUME Counting, IInv, AssignIP
  PROVE  IInv'
<1>. DEFINE e == lb.req.eip
            out == assignIPFromEip(e, CachedEip(e), lb.req.ip, lb.svc)
<1>1. PICK ok \in BOOLEAN :
        /\ IF CachedEip(e).exists /\ <<lb.svc, e>> \in Compatible /\ out.at # Nil
           THEN EipStatusUpdate(e, out.obj, ok)
           ELSE ~ok /\ UNCHANGED <<eips, held, faults>>
        /\ lb' = [lb EXCEPT
                    !.pc = "update", !.err = ~ok,
                    !.new = IF ok THEN [@ EXCEPT !.fin = TRUE, !.label = e, !.ingress = out.at]
                            ELSE @]
  BY Zenon DEF AssignIP
<1>2. /\ lb \in LbState /\ lb.svc \in Svcs /\ lb.new \in SvcObj
      /\ e \in Eips /\ lb.req.ip \in Addrs \cup {Nil}
  BY Zenon DEF IInv, LbInv, LbState, Request, AssignIP
<1>3. GoodEip(e, CachedEip(e))
  BY <1>2, GoodEnds, Zenon DEF IInv, EipsInv, CachedEip
<1>a. Assigned(e, CachedEip(e), lb.req.ip, out)
  BY <1>2, <1>3, AssignGood, Zenon
<1>. HIDE DEF e, out
<1>4. (CachedEip(e).exists => GoodEip(e, out.obj)) /\ out.at \in Addrs \cup {Nil}
  BY <1>a, Zenon DEF Assigned
<1>5. /\ EipsInv' /\ HeldInv' /\ faults' \in 0 .. MaxFaults
      /\ held'["eip"] \subseteq held["eip"]
      /\ \A d \in Eips : d \in held'["eip"] => Api(eips'[d]) = Api(eips[d])
  <2>1. CASE CachedEip(e).exists /\ EipStatusUpdate(e, out.obj, ok)
    BY <1>2, <1>4, <2>1, EipStatusUpdateKeeps, SMTT(30) DEF IInv, Wrote
  <2>2. CASE UNCHANGED <<eips, held, faults>>
    BY <2>2, Zenon DEF IInv, EipsInv, HeldInv, BoundsInv
  <2>. QED
    BY <1>1, <2>1, <2>2, Zenon
<1>6. CopyInv' /\ EwInv'
  <2>1. ew' = ew
    BY Zenon DEF AssignIP
  <2>. QED
    BY <1>5, <2>1, CopyKept, Zenon DEF IInv, EwInv
<1>7. LbInv'
  <2>1. [lb.new EXCEPT !.fin = TRUE, !.label = e, !.ingress = out.at] \in SvcObj
    BY <1>2, <1>4, Zenon DEF SvcObj
  <2>2. lb' \in LbState /\ lb'.svc = lb.svc /\ lb'.req = lb.req /\ lb'.pc = "update"
    BY <1>1, <1>2, <2>1, Zenon DEF LbState
  <2>. QED
    BY <1>2, <2>2, Zenon DEF LbInv, IInv
<1>. QED
  BY <1>5, <1>6, <1>7, SMTT(30) DEF AssignIP, IInv, SvcsInv, QueuesInv, BoundsInv

\* The Update of updateReconcileResult keeps the invariant.
LEMMA UpdateServiceKeeps ==
  ASSUME IInv, UpdateService
  PROVE  IInv'
<1>. DEFINE new == [lb.new EXCEPT !.ingress = lb.old.ingress]
<1>1. /\ lb \in LbState /\ lb.svc \in Svcs /\ new \in SvcObj
      /\ lb.req.alloc => lb.req.eip \in Eips
  BY Zenon DEF IInv, LbInv, LbState, SvcObj, UpdateService
<1>2. ASSUME lb' = [lb EXCEPT !.pc = "status"] PROVE LbInv'
  BY <1>1, <1>2, Zenon DEF LbInv, LbState
<1>3. CASE lb' = [lb EXCEPT !.pc = "status"] /\ UNCHANGED <<svcs, held, faults, lbq>>
  BY <1>2, <1>3, Zenon DEF UpdateService, IInv, EipsInv, SvcsInv, EwInv, QueuesInv, HeldInv, BoundsInv, CopyInv
<1>4. CASE \E ok \in BOOLEAN :
             /\ SvcUpdate(lb.svc, new, "lb", ok)
             /\ IF ok THEN lb' = [lb EXCEPT !.pc = "status"] /\ UNCHANGED lbq
                ELSE LbDone(TRUE)
  <2>1. PICK ok \in BOOLEAN :
             /\ SvcUpdate(lb.svc, new, "lb", ok)
             /\ IF ok THEN lb' = [lb EXCEPT !.pc = "status"] /\ UNCHANGED lbq
                ELSE LbDone(TRUE)
    BY <1>4, Zenon
  <2>. HIDE DEF new
  <2>2. SvcsInv' /\ HeldInv' /\ held'["eip"] \subseteq held["eip"] /\ faults' \in 0 .. MaxFaults
    BY <1>1, <2>1, SvcUpdateKeeps, Zenon DEF IInv
  <2>3. LbInv' /\ lbq' \in SUBSET Svcs
    BY <1>1, <1>2, <2>1, LbIdleOK, Zenon DEF LbDone, IInv, QueuesInv
  <2>4. CopyInv'
    BY <2>2, CopyKept, Zenon DEF UpdateService, IInv
  <2>. QED
    BY <2>2, <2>3, <2>4, Zenon DEF UpdateService, IInv, EipsInv, EwInv, QueuesInv, BoundsInv
<1>. QED
  BY <1>3, <1>4, Zenon DEF UpdateService

\* The Status().Update of updateReconcileResult keeps the invariant.
LEMMA UpdateServiceStatusKeeps ==
  ASSUME IInv, UpdateServiceStatus
  PROVE  IInv'
<1>1. lb.svc \in Svcs /\ lb.new \in SvcObj
  BY Zenon DEF IInv, LbInv, LbState, UpdateServiceStatus
<1>2. SvcsInv' /\ HeldInv' /\ held'["eip"] \subseteq held["eip"] /\ faults' \in 0 .. MaxFaults
  <2>1. CASE UNCHANGED <<svcs, held, faults>>
    BY <2>1, Zenon DEF IInv, SvcsInv, HeldInv, BoundsInv
  <2>2. CASE \E ok \in BOOLEAN : SvcUpdate(lb.svc, lb.new, "lb", ok)
    BY <1>1, <2>2, SvcUpdateKeeps, Zenon DEF IInv
  <2>. QED
    BY <2>1, <2>2, Zenon DEF UpdateServiceStatus
<1>3. LbInv' /\ lbq' \in SUBSET Svcs
  <2>1. \E failed \in BOOLEAN : LbDone(failed)
    BY ZenonT(30) DEF UpdateServiceStatus, IInv, LbInv, LbState
  <2>. QED
    BY <1>1, <2>1, LbIdleOK, SMTT(30) DEF LbDone, IInv, QueuesInv
<1>4. CopyInv'
  BY <1>2, CopyKept, Zenon DEF UpdateServiceStatus, IInv
<1>. QED
  BY <1>2, <1>3, <1>4, Zenon DEF UpdateServiceStatus, IInv, EipsInv, EwInv, QueuesInv, BoundsInv

\* An idle Eip worker is well-formed and holds no copy.
LEMMA EwIdleOK ==
  ASSUME ew' = EwIdle
  PROVE  EwInv' /\ CopyInv'
  BY Zenon DEF EwInv, CopyInv, EwIdle, EwState

\* Reading an Eip keeps the invariant: a copy of a cache that is up to date is
\* the last version.
LEMMA ReconcileEipKeeps ==
  ASSUME IInv, NEW e \in Eips, ReconcileEip(e)
  PROVE  IInv'
<1>1. GoodEip(e, CachedEip(e)) /\ (Fresh(eips[e]) => Api(eips[e]) = CachedEip(e))
  BY GoodEnds, SMTT(30) DEF IInv, EipsInv, CachedEip
<1>2. CASE UNCHANGED <<ew, held>>
  <2>1. eipq' \subseteq eipq /\ UNCHANGED <<eips, svcs, lb, lbq, ew, held, ops, faults>>
    BY <1>2, Zenon DEF ReconcileEip
  <2>2. EipsInv' /\ SvcsInv' /\ LbInv' /\ EwInv'
    BY <2>1, Zenon DEF IInv, EipsInv, SvcsInv, LbInv, EwInv
  <2>3. QueuesInv' /\ HeldInv' /\ BoundsInv' /\ CopyInv'
    BY <2>1, Zenon DEF IInv, QueuesInv, HeldInv, BoundsInv, CopyInv
  <2>. QED
    BY <2>2, <2>3, Zenon DEF IInv
<1>3. CASE ~UNCHANGED <<ew, held>>
  <2>1. PICK todo \in SUBSET Svcs, pc \in {"remove", "finalizer", "sync"} :
          /\ ew' = [pc |-> pc, eip |-> e, obj |-> CachedEip(e), todo |-> todo]
          /\ held' = [held EXCEPT !["eip"] = {s \in todo : Fresh(svcs[s])} \cup
                                             (IF Fresh(eips[e]) THEN {e} ELSE {})]
    BY <1>3, Zenon DEF ReconcileEip, Labelled
  <2>2. ew'.pc = pc /\ ew'.eip = e /\ ew'.obj = CachedEip(e)
    BY <2>1, Zenon
  <2>3. EwInv'
    <3>1. ew' \in EwState
      BY <1>1, <2>1, Zenon DEF EwState, GoodEip
    <3>. QED
      BY <1>1, <2>2, <3>1, Zenon DEF EwInv
  <2>4. HeldInv' /\ (e \in held'["eip"] => Fresh(eips[e]))
    BY <2>1, NamesAssumption, Zenon DEF IInv, HeldInv, Workers
  <2>5. CopyInv'
    BY <1>1, <2>2, <2>4, Zenon DEF CopyInv, ReconcileEip
  <2>. QED
    BY <2>3, <2>4, <2>5, Zenon DEF ReconcileEip, IInv, EipsInv, SvcsInv, LbInv, QueuesInv, BoundsInv
<1>. QED
  BY <1>2, <1>3, Zenon

\* The end of a reconcile of an Eip puts nothing but Eips on the queue.
LEMMA EwDoneQueues ==
  ASSUME QueuesInv, ew.eip \in Eips, NEW failed \in BOOLEAN, EwDone(failed)
  PROVE  EwInv' /\ CopyInv' /\ eipq' \in SUBSET Eips
  BY EwIdleOK, Zenon DEF EwDone, QueuesInv

\* Taking the label off a Service keeps the invariant.
LEMMA RemoveLabelKeeps ==
  ASSUME IInv, NEW s \in Svcs, RemoveLabel(s)
  PROVE  IInv'
<1>. DEFINE new == [Api(svcs[s]) EXCEPT !.label = Nil]
<1>1. PICK ok \in BOOLEAN :
         /\ SvcUpdate(s, new, "eip", ok)
         /\ IF ok THEN ew' = [ew EXCEPT !.todo = @ \ {s}] /\ UNCHANGED eipq
            ELSE EwDone(TRUE)
  BY Zenon DEF RemoveLabel
<1>2. new \in SvcObj
  BY SvcEnds, Zenon DEF IInv, SvcObj
<1>. HIDE DEF new
<1>3. SvcsInv' /\ HeldInv' /\ held'["eip"] \subseteq held["eip"] /\ faults' \in 0 .. MaxFaults
  BY <1>1, <1>2, SvcUpdateKeeps, Zenon DEF IInv
<1>4. EwInv' /\ CopyInv' /\ eipq' \in SUBSET Eips
  <2>1. CASE ok
    <3>1. /\ ew' \in EwState /\ ew'.pc = ew.pc /\ ew'.eip = ew.eip /\ ew'.obj = ew.obj
          /\ eipq' = eipq
      BY <1>1, <2>1, Zenon DEF IInv, EwInv, EwState
    <3>. QED
      BY <1>3, <3>1, Zenon DEF IInv, EwInv, CopyInv, QueuesInv, RemoveLabel
  <2>2. CASE ~ok
    BY <1>1, <2>2, EwDoneQueues, Zenon DEF IInv, EwInv, RemoveLabel
  <2>. QED
    BY <2>1, <2>2, Zenon
<1>. QED
  BY <1>3, <1>4, Zenon DEF RemoveLabel, IInv, EipsInv, LbInv, QueuesInv, BoundsInv

\* Letting a deleted Eip go keeps the invariant.
LEMMA RemoveFinalizerKeeps ==
  ASSUME Counting, IInv, RemoveFinalizer
  PROVE  IInv'
<1>1. PICK ok \in BOOLEAN : EwUpdate(GoneEip(ew.eip), ok) /\ EwDone(~ok)
  BY Zenon DEF RemoveFinalizer
<1>2. ew.pc # "idle" /\ ew.eip \in Eips
  BY Zenon DEF RemoveFinalizer, IInv, EwInv
<1>3. EipsInv' /\ HeldInv' /\ faults' \in 0 .. MaxFaults
  BY <1>1, <1>2, EmptyPools, EmptyNoGhost, EwUpdateKeeps, Zenon DEF IInv, GoodEip
<1>4. EwInv' /\ CopyInv' /\ eipq' \in SUBSET Eips
  BY <1>1, <1>2, EwDoneQueues, Zenon DEF IInv
<1>. QED
  BY <1>3, <1>4, Zenon DEF RemoveFinalizer, IInv, SvcsInv, LbInv, QueuesInv, BoundsInv

\* Adding the finalizer keeps the invariant: the copy goes along with the write.
LEMMA AddFinalizerKeeps ==
  ASSUME IInv, AddFinalizer
  PROVE  IInv'
<1>. DEFINE obj == [ew.obj EXCEPT !.fin = TRUE]
<1>1. PICK ok \in BOOLEAN :
         /\ EwUpdate(obj, ok)
         /\ IF ok THEN ew' = [ew EXCEPT !.pc = "sync", !.obj = obj] /\ UNCHANGED eipq
            ELSE EwDone(TRUE)
  BY Zenon DEF AddFinalizer
<1>2. ew \in EwState /\ ew.pc # "idle" /\ ew.eip \in Eips /\ GoodEip(ew.eip, ew.obj)
  BY Zenon DEF AddFinalizer, IInv, EwInv
<1>3. GoodEip(ew.eip, obj)
  BY <1>2, Zenon DEF GoodEip, EipObj, StatusOK, NoGhost
<1>. HIDE DEF obj
<1>4. /\ EipsInv' /\ HeldInv' /\ faults' \in 0 .. MaxFaults
      /\ ok => Api(eips'[ew.eip]) = obj
  BY <1>1, <1>2, <1>3, EwUpdateKeeps, Zenon DEF IInv
<1>5. EwInv' /\ CopyInv' /\ eipq' \in SUBSET Eips
  <2>1. CASE ok
    <3>1. /\ ew' \in EwState /\ ew'.pc = "sync" /\ ew'.eip = ew.eip /\ ew'.obj = obj
          /\ eipq' = eipq
      BY <1>1, <1>2, <1>3, <2>1, Zenon DEF EwState, GoodEip
    <3>. QED
      BY <1>2, <1>3, <1>4, <2>1, <3>1, Zenon DEF EwInv, CopyInv, IInv, QueuesInv
  <2>2. CASE ~ok
    BY <1>1, <1>2, <2>2, EwDoneQueues, Zenon DEF IInv
  <2>. QED
    BY <2>1, <2>2, Zenon
<1>. QED
  BY <1>4, <1>5, Zenon DEF AddFinalizer, IInv, SvcsInv, LbInv, QueuesInv, BoundsInv

\* updateEip with syncEip keeps the invariant.
LEMMA SyncStatusKeeps ==
  ASSUME Counting, IInv, SyncStatus
  PROVE  IInv'
<1>. DEFINE present == {s \in Svcs : Cached(svcs[s]).exists}
            new == updateEip(ew.eip, ew.obj, present)
<1>1. ew.pc # "idle" /\ ew.eip \in Eips /\ GoodEip(ew.eip, ew.obj)
  BY Zenon DEF SyncStatus, IInv, EwInv
<1>2. GoodEip(ew.eip, new)
  BY <1>1, UpdateGood, Zenon
<1>. HIDE DEF new
<1>3. /\ EipsInv' /\ HeldInv' /\ faults' \in 0 .. MaxFaults
      /\ \E failed \in BOOLEAN : EwDone(failed)
  <2>1. CASE EwDone(FALSE) /\ UNCHANGED <<eips, held, faults>>
    BY <2>1, Zenon DEF IInv, EipsInv, HeldInv, BoundsInv
  <2>2. CASE \E ok \in BOOLEAN : EwUpdate(new, ok) /\ EwDone(~ok)
    BY <1>1, <1>2, <2>2, EwUpdateKeeps, Zenon DEF IInv
  <2>. QED
    BY <2>1, <2>2, Zenon DEF SyncStatus, new
<1>4. EwInv' /\ CopyInv' /\ eipq' \in SUBSET Eips
  BY <1>1, <1>3, EwDoneQueues, SMTT(30) DEF IInv
<1>. QED
  BY <1>3, <1>4, Zenon DEF SyncStatus, IInv, SvcsInv, LbInv, QueuesInv, BoundsInv

\* Delivering a version of an Eip keeps the invariant.
LEMMA DeliverEipKeeps ==
  ASSUME IInv, NEW e \in Eips, DeliverEip(e)
  PROVE  IInv'
<1>1. GoodWindow(e, Tail(eips[e])) /\ Api(Tail(eips[e])) = Api(eips[e])
  BY GoodTail, Zenon DEF DeliverEip, IInv, EipsInv
<1>2. /\ DOMAIN eips' = Eips
      /\ \A d \in Eips : eips'[d] = IF d = e THEN Tail(eips[e]) ELSE eips[d]
  BY Zenon DEF DeliverEip, IInv, EipsInv
<1>3. EipsInv' /\ \A d \in Eips : Api(eips'[d]) = Api(eips[d])
  BY <1>1, <1>2, Zenon DEF IInv, EipsInv
<1>4. QueuesInv'
  BY Zenon DEF DeliverEip, IInv, QueuesInv, OpenELBServices
<1>5. CopyInv'
  BY <1>3, CopyKept, Zenon DEF DeliverEip, IInv
<1>. QED
  BY <1>3, <1>4, <1>5, Zenon DEF DeliverEip, IInv, SvcsInv, LbInv, EwInv, HeldInv, BoundsInv

\* Delivering a version of a Service keeps the invariant.
LEMMA DeliverSvcKeeps ==
  ASSUME IInv, NEW s \in Svcs, DeliverSvc(s)
  PROVE  IInv'
<1>1. Tail(svcs[s]) \in Seq(SvcObj) /\ Tail(svcs[s]) # <<>>
  BY WindowTail, Zenon DEF DeliverSvc, IInv, SvcsInv
<1>2. SvcsInv'
  BY <1>1, Zenon DEF DeliverSvc, IInv, SvcsInv
<1>3. QueuesInv'
  BY Zenon DEF DeliverSvc, IInv, QueuesInv
<1>. QED
  BY <1>2, <1>3, Zenon DEF DeliverSvc, IInv, EipsInv, LbInv, EwInv, HeldInv, BoundsInv, CopyInv

\* A user's edit of a Service or of an Eip.
LEMMA UserSvcKeeps ==
  ASSUME IInv, NEW s \in Svcs, NEW obj \in SvcObj, PutSvc(s, obj, "user"), NEW kind, UserOp(kind),
         UNCHANGED <<eips, lbq, eipq, lb, ew, faults>>
  PROVE  IInv'
<1>1. SvcsInv' /\ HeldInv' /\ held'["eip"] \subseteq held["eip"]
  BY PutSvcKeeps, Zenon DEF IInv
<1>2. BoundsInv'
  BY BoundsAssumption DEF IInv, BoundsInv, UserOp
<1>3. CopyInv'
  BY <1>1, CopyKept, SMTT(30) DEF IInv
<1>. QED
  BY <1>1, <1>2, <1>3, Zenon DEF IInv, EipsInv, LbInv, EwInv, QueuesInv

\* The same for an Eip.
LEMMA UserEipKeeps ==
  ASSUME IInv, NEW e \in Eips, NEW obj, GoodEip(e, obj), PutEip(e, obj, "user"), NEW kind, UserOp(kind),
         UNCHANGED <<svcs, lbq, eipq, lb, ew, faults>>
  PROVE  IInv' /\ Wrote(e, Api(eips[e]), obj)
<1>1. /\ EipsInv' /\ HeldInv' /\ Wrote(e, Api(eips[e]), obj)
      /\ held'["eip"] \subseteq held["eip"] /\ e \notin held'["eip"]
  BY PutEipKeeps DEF IInv, Wrote
<1>2. BoundsInv'
  BY BoundsAssumption, SMTT(30) DEF IInv, BoundsInv, UserOp
<1>3. CopyInv'
  BY <1>1, CopyKept, Zenon DEF IInv, Wrote
<1>. QED
  BY <1>1, <1>2, <1>3, SMTT(30) DEF IInv, SvcsInv, LbInv, EwInv, QueuesInv

\* Users' operations on Services keep the invariant and touch no Eip.
LEMMA UsersSvcKeeps ==
  ASSUME IInv, NEW s \in Svcs, CreateSvc(s) \/ EditSvc(s) \/ DeleteSvc(s)
  PROVE  IInv' /\ UNCHANGED eips
<1>1. GoneSvc \in SvcObj
  BY Zenon DEF GoneSvc, SvcObj, NoSpec, Spec0
<1>2. Api(svcs[s]) \in SvcObj
  BY SvcEnds, Zenon DEF IInv
<1>3. \A x \in SvcObj, spec \in Specs :
        /\ [x EXCEPT !.exists = TRUE, !.spec = spec] \in SvcObj
        /\ [x EXCEPT !.spec = spec] \in SvcObj
        /\ [x EXCEPT !.deleting = TRUE] \in SvcObj
  BY SpecsAssumption, Zenon DEF SvcObj
<1>4. \E obj \in SvcObj, kind \in {"createSvc", "editSvc", "deleteSvc"} :
        /\ UserOp(kind) /\ PutSvc(s, obj, "user")
        /\ UNCHANGED <<eips, lbq, eipq, lb, ew, faults>>
  <2>1. CASE CreateSvc(s)
    BY <1>1, <1>3, <2>1, Zenon DEF CreateSvc
  <2>2. CASE EditSvc(s)
    BY <1>2, <1>3, <2>2, Zenon DEF EditSvc
  <2>3. CASE DeleteSvc(s)
    <3>1. [Api(svcs[s]) EXCEPT !.deleting = TRUE] \in SvcObj
      BY <1>2, Zenon DEF SvcObj
    <3>. QED
      BY <2>3, <3>1, Zenon DEF DeleteSvc
  <2>. QED
    BY <2>1, <2>2, <2>3, Zenon
<1>. QED
  BY <1>4, UserSvcKeeps, Zenon

\* An assignment without an entry is the empty one.
LEMMA AllEmpty ==
  ASSUME NEW S, NEW T, NEW f \in [S -> T], \A i \in S : f[i] = {}
  PROVE  f = [i \in S |-> {}]
  BY SMTT(30)

\* Users' operations on Eips keep the invariant, and drop records only together
\* with the Eip.
LEMMA UsersEipKeeps ==
  ASSUME Counting, IInv, NEW e \in Eips, CreateEip(e) \/ ToggleEip(e) \/ DeleteEip(e)
  PROVE  /\ IInv'
         /\ \E obj \in EipObj(e) :
              /\ Wrote(e, Api(eips[e]), obj)
              /\ ~obj.exists \/ obj.used = Api(eips[e]).used
              /\ \A i \in Offsets(e) : obj.used[i] \subseteq Api(eips[e]).used[i]
<1>. DEFINE old == Api(eips[e])
<1>1. GoodEip(e, old)
  BY GoodEnds, Zenon DEF IInv, EipsInv
<1>2. GoodEip(e, GoneEip(e)) /\ GoodEip(e, NewEip(e))
  BY EmptyPools, EmptyNoGhost, Zenon DEF GoodEip
<1>3. /\ GoneEip(e).used = [i \in Offsets(e) |-> {}] /\ ~GoneEip(e).exists
      /\ NewEip(e).used = [i \in Offsets(e) |-> {}]
  BY SMTT(30) DEF GoneEip, NewEip
<1>. SUFFICES \E obj, kind : /\ GoodEip(e, obj) /\ UserOp(kind) /\ PutEip(e, obj, "user")
                             /\ UNCHANGED <<svcs, lbq, eipq, lb, ew, faults>>
                             /\ ~obj.exists \/ obj.used = old.used
                             /\ \A i \in Offsets(e) : obj.used[i] \subseteq old.used[i]
  BY UserEipKeeps, SMTT(30) DEF GoodEip
<1>4. CASE CreateEip(e)
  <2>1. old.used = [i \in Offsets(e) |-> {}]
    <3>1. \A i \in Offsets(e) : old.used[i] = {}
      BY <1>1, <1>4, Zenon DEF GoodEip, NoGhost, CreateEip
    <3>2. old.used \in [Offsets(e) -> SUBSET Svcs]
      BY <1>1, Zenon DEF GoodEip, EipObj
    <3>. QED
      BY <3>1, <3>2, AllEmpty, Zenon
  <2>. QED
    <3>1. NewEip(e).used = old.used /\ \A i \in Offsets(e) : NewEip(e).used[i] \subseteq old.used[i]
      BY <1>3, <2>1, Zenon
    <3>2. /\ UserOp("createEip") /\ PutEip(e, NewEip(e), "user")
          /\ UNCHANGED <<svcs, lbq, eipq, lb, ew, faults>>
      BY <1>4, Zenon DEF CreateEip
    <3>. QED
      BY <1>2, <3>1, <3>2, ZenonT(30)
<1>5. CASE ToggleEip(e)
  <2>. DEFINE new == [old EXCEPT !.disable = ~@]
  <2>1. GoodEip(e, new) /\ new.used = old.used
    BY <1>1, Zenon DEF GoodEip, EipObj, StatusOK, NoGhost
  <2>2. PutEip(e, new, "user") /\ UserOp("toggleEip")
    BY <1>5, Zenon DEF ToggleEip
  <2>3. UNCHANGED <<svcs, lbq, eipq, lb, ew, faults>>
    BY <1>5, Zenon DEF ToggleEip
  <2>. HIDE DEF new, old
  <2>. QED
    BY <2>1, <2>2, <2>3, Zenon
<1>6. CASE DeleteEip(e)
  <2>1. CASE old.fin
    <3>. DEFINE new == [old EXCEPT !.deleting = TRUE]
    <3>1. GoodEip(e, new) /\ new.used = old.used
      BY <1>1, ZenonT(30) DEF GoodEip, EipObj, StatusOK, NoGhost
    <3>2. PutEip(e, new, "user") /\ UserOp("deleteEip")
      BY <1>6, <2>1, Zenon DEF DeleteEip
    <3>3. UNCHANGED <<svcs, lbq, eipq, lb, ew, faults>>
      BY <1>6, Zenon DEF DeleteEip
    <3>. HIDE DEF new, old
    <3>. QED
      BY <3>1, <3>2, <3>3, Zenon
  <2>2. CASE ~old.fin
    <3>1. PutEip(e, GoneEip(e), "user") /\ UserOp("deleteEip")
      BY <1>6, <2>2, SMTT(30) DEF DeleteEip
    <3>2. UNCHANGED <<svcs, lbq, eipq, lb, ew, faults>>
      BY <1>6, Zenon DEF DeleteEip
    <3>. HIDE DEF old
    <3>. QED
      BY <1>2, <1>3, <3>1, <3>2, Zenon
  <2>. QED
    BY <2>1, <2>2, Zenon
<1>. QED
  BY <1>4, <1>5, <1>6, Zenon

\* Queueing all Services keeps the invariant.
LEMMA NodeChangeKeeps ==
  ASSUME IInv, NodeChange
  PROVE  IInv' /\ UNCHANGED eips
  BY BoundsAssumption
     DEF NodeChange, UserOp, OpenELBServices, IInv, EipsInv, SvcsInv, LbInv, EwInv, QueuesInv, HeldInv,
         BoundsInv, CopyInv

\* A crash keeps the invariant and everything the API server holds.
LEMMA CrashKeeps ==
  ASSUME IInv, Crash
  PROVE  IInv' /\ \A e \in Eips : Api(eips'[e]) = Api(eips[e])
<1>1. \A e \in Eips : GoodWindow(e, <<Api(eips[e])>>) /\ Api(<<Api(eips[e])>>) = Api(eips[e])
  BY GoodEnds, GoodSingle, Zenon DEF IInv, EipsInv
<1>2. EipsInv' /\ \A e \in Eips : Api(eips'[e]) = Api(eips[e])
  BY <1>1, ZenonT(30) DEF Crash, EipsInv
<1>3. SvcsInv'
  <2>1. \A s \in Svcs : Api(svcs[s]) \in SvcObj
    BY SvcEnds, SMTT(30) DEF IInv
  <2>. QED
    BY <2>1 DEF Crash, SvcsInv
<1>4. LbInv' /\ EwInv' /\ CopyInv'
  BY LbIdleOK, EwIdleOK, Zenon DEF Crash
<1>5. QueuesInv' /\ HeldInv' /\ BoundsInv'
  BY BoundsAssumption DEF Crash, QueuesInv, HeldInv, BoundsInv, IInv
<1>. QED
  BY <1>2, <1>3, <1>4, <1>5, Zenon DEF IInv

\* A stuttering step keeps the invariant.
LEMMA StutterKeeps ==
  ASSUME IInv, UNCHANGED vars
  PROVE  IInv'
  BY Zenon DEF vars, IInv, EipsInv, SvcsInv, LbInv, EwInv, QueuesInv, HeldInv, BoundsInv, CopyInv

\* Every step keeps the invariant.
LEMMA NextKeeps == ASSUME Counting PROVE IInv /\ [Next]_vars => IInv'
<1>. SUFFICES ASSUME IInv, [Next]_vars PROVE IInv'
  OBVIOUS
<1>1. CASE LbWorker
  BY <1>1, ReconcileKeeps, ReleaseIPKeeps, AssignIPKeeps, UpdateServiceKeeps, UpdateServiceStatusKeeps, Zenon
     DEF LbWorker
<1>2. CASE EipWorker
  BY <1>2, ReconcileEipKeeps, RemoveLabelKeeps, RemoveFinalizerKeeps, AddFinalizerKeeps, SyncStatusKeeps, Zenon
     DEF EipWorker
<1>3. CASE Watches
  BY <1>3, DeliverEipKeeps, DeliverSvcKeeps, Zenon DEF Watches
<1>4. CASE Users
  BY <1>4, NodeChangeKeeps, UsersSvcKeeps, UsersEipKeeps, Zenon DEF Users
<1>5. CASE Crash
  BY <1>5, CrashKeeps, Zenon
<1>6. CASE UNCHANGED vars
  BY <1>6, StutterKeeps, Zenon
<1>. QED
  BY <1>1, <1>2, <1>3, <1>4, <1>5, <1>6, Zenon DEF Next

------------------------------------------------------------------------------
(* The theorems.                                                           *)

\* The inductive invariant holds in every state of the two reconcilers.
LEMMA Invariance == ASSUME Counting PROVE Spec => []IInv
  BY InitEstablishes, NextKeeps, PTL DEF Spec

------------------------------------------------------------------------------
(* What a step does to the records.                                        *)

Untouched == \A e \in Eips : Api(eips'[e]) = Api(eips[e])

\* A step that leaves the API server alone keeps all records.
LEMMA UntouchedRecords ==
  ASSUME Untouched
  PROVE  RecordKept /\ SharedOnRequest
<1>1. \A a \in Addrs : a[1] \in Eips
  BY SMTT(30) DEF Addrs, AddrsOf
<1>. QED
  BY <1>1, Zenon DEF Untouched, RecordKept, SharedOnRequest

\* The records that new lacks and those it has more than from, for good reasons.
Justified(e, from, new) ==
    \A i \in Offsets(e) :
      /\ \A s \in from.used[i] :
           \/ s \in new.used[i]
           \/ lb.pc = "release" /\ lb.svc = s
           \/ ew.pc = "sync" /\ ~Cached(svcs[s]).exists
           \/ ~new.exists
      /\ from.used[i] # {} /\ ~(new.used[i] \subseteq from.used[i])
           => lb.pc = "assign" /\ lb.req.ip = <<e, i>>

\* A write that drops and adds records of its own pool for good reasons only.
LEMMA WriteRecords ==
  ASSUME NEW e \in Eips, NEW from, NEW new, Wrote(e, from, new), Justified(e, from, new)
  PROVE  RecordKept /\ SharedOnRequest
<1>. SUFFICES ASSUME NEW a \in Addrs
              PROVE  /\ \A s \in Api(eips[a[1]]).used[a[2]] :
                          \/ s \in Api(eips'[a[1]]).used[a[2]]
                          \/ lb.pc = "release" /\ lb.svc = s
                          \/ ew.pc = "sync" /\ ~Cached(svcs[s]).exists
                          \/ ~Api(eips'[a[1]]).exists
                     /\ LET before == Api(eips[a[1]]).used[a[2]]
                            after == Api(eips'[a[1]]).used[a[2]]
                        IN before # {} /\ ~(after \subseteq before) => lb.pc = "assign" /\ lb.req.ip = a
  BY SMTT(30) DEF RecordKept, SharedOnRequest
<1>1. a[1] \in Eips /\ a[2] \in Offsets(a[1]) /\ a = <<a[1], a[2]>>
  BY DEF Addrs, AddrsOf
<1>2. CASE a[1] = e
  <2>1. Api(eips[a[1]]) = from /\ Api(eips'[a[1]]) = new
    BY <1>2, SMTT(30) DEF Wrote
  <2>2. a = <<e, a[2]>> /\ a[2] \in Offsets(e)
    BY <1>1, <1>2, Zenon
  <2>. QED
    BY <2>1, <2>2, Zenon DEF Justified
<1>3. CASE a[1] # e
  <2>1. eips'[a[1]] = eips[a[1]]
    BY <1>1, <1>3, Zenon DEF Wrote
  <2>. QED
    BY <2>1, Zenon
<1>. QED
  BY <1>2, <1>3, ZenonT(30)

\* ReleaseIP drops the records of its own Service only.
LEMMA ReleaseIPRecords ==
  ASSUME Counting, IInv, ReleaseIP
  PROVE  RecordKept /\ SharedOnRequest
<1>. DEFINE e == lb.req.from
            old == CachedEip(e)
            new == releaseIPFromEip(e, old, lb.svc)
<1>1. CASE UNCHANGED eips
  BY <1>1, UntouchedRecords, Zenon DEF Untouched
<1>2. CASE ~UNCHANGED eips
  <2>1. lb.svc \in Svcs /\ lb.req \in Request /\ lb.pc = "release"
    BY Zenon DEF IInv, LbInv, LbState, ReleaseIP
  <2>2. PICK ok \in BOOLEAN : e # Nil /\ old.exists /\ EipStatusUpdate(e, new, ok)
    BY <1>2, Zenon DEF ReleaseIP
  <2>3. e \in Eips
    BY <2>1, <2>2, Zenon DEF Request
  <2>4. GoodEip(e, old)
    BY <2>3, GoodEnds, SMTT(30) DEF IInv, EipsInv, CachedEip
  <2>5. Released(e, old, lb.svc, new)
    BY <2>1, <2>2, <2>3, <2>4, ReleaseGood, Zenon
  <2>6. old = Cached(eips[e]) /\ EipsInv /\ HeldInv /\ BoundsInv
    BY Zenon DEF CachedEip, IInv
  <2>. HIDE DEF new, e, old
  <2>7. Wrote(e, old, new)
    BY <1>2, <2>2, <2>3, <2>5, <2>6, EipStatusUpdateKeeps, Zenon DEF Released
  <2>8. Justified(e, old, new)
    BY <2>1, <2>5, Zenon DEF Released, Justified
  <2>. QED
    BY <2>3, <2>7, <2>8, WriteRecords, Zenon
<1>. QED
  BY <1>1, <1>2, Zenon

\* AssignIP adds a record to an address in use only when it was asked for.
LEMMA AssignIPRecords ==
  ASSUME Counting, IInv, AssignIP
  PROVE  RecordKept /\ SharedOnRequest
<1>. DEFINE e == lb.req.eip
            old == CachedEip(e)
            out == assignIPFromEip(e, old, lb.req.ip, lb.svc)
<1>1. CASE UNCHANGED eips
  BY <1>1, UntouchedRecords, Zenon DEF Untouched
<1>2. CASE ~UNCHANGED eips
  <2>1. lb.svc \in Svcs /\ lb.req.ip \in Addrs \cup {Nil} /\ e \in Eips /\ lb.pc = "assign"
    BY Zenon DEF IInv, LbInv, LbState, Request, AssignIP
  <2>2. PICK ok \in BOOLEAN : old.exists /\ EipStatusUpdate(e, out.obj, ok)
    BY <1>2, Zenon DEF AssignIP
  <2>3. GoodEip(e, old)
    BY <2>1, GoodEnds, Zenon DEF IInv, EipsInv, CachedEip
  <2>a. Assigned(e, old, lb.req.ip, out)
    BY <2>1, <2>3, AssignGood, Zenon
  <2>b. old = Cached(eips[e]) /\ EipsInv /\ HeldInv /\ BoundsInv
    BY Zenon DEF CachedEip, IInv
  <2>. HIDE DEF out, e, old
  <2>4. /\ GoodEip(e, out.obj)
        /\ \A i \in Offsets(e) :
             /\ old.used[i] \subseteq out.obj.used[i]
             /\ old.used[i] # {} /\ out.obj.used[i] # old.used[i] => lb.req.ip = <<e, i>>
    BY <2>2, <2>a, Zenon DEF Assigned
  <2>5. Wrote(e, old, out.obj)
    BY <1>2, <2>1, <2>2, <2>4, <2>b, EipStatusUpdateKeeps, Zenon
  <2>6. Justified(e, old, out.obj)
    BY <2>1, <2>4, Zenon DEF Justified
  <2>. QED
    BY <2>1, <2>5, <2>6, WriteRecords, Zenon
<1>. QED
  BY <1>1, <1>2, Zenon

\* The Eip reconciler drops records only of Services it does not see, or with the
\* Eip.
LEMMA EipWorkerRecords ==
  ASSUME Counting, IInv, RemoveFinalizer \/ AddFinalizer \/ SyncStatus
  PROVE  RecordKept /\ SharedOnRequest
<1>. DEFINE e == ew.eip
<1>1. CASE UNCHANGED eips
  BY <1>1, UntouchedRecords, Zenon DEF Untouched
<1>2. CASE ~UNCHANGED eips
  <2>1. ew.pc # "idle" /\ e \in Eips /\ GoodEip(e, ew.obj)
    BY ZenonT(30) DEF RemoveFinalizer, AddFinalizer, SyncStatus, IInv, EwInv
  <2>2. \A new : GoodEip(e, new) /\ (\E ok \in BOOLEAN : EwUpdate(new, ok)) => Wrote(e, ew.obj, new)
    BY <1>2, <2>1, EwUpdateKeeps, Zenon DEF IInv
  <2>3. CASE RemoveFinalizer
    <3>1. /\ GoodEip(e, GoneEip(e)) /\ ~GoneEip(e).exists
          /\ \A i \in Offsets(e) : GoneEip(e).used[i] = {}
      BY <2>1, EmptyPools, EmptyNoGhost, SMTT(30) DEF GoodEip, GoneEip
    <3>2. Wrote(e, ew.obj, GoneEip(e))
      BY <2>2, <2>3, <3>1, Zenon DEF RemoveFinalizer
    <3>3. Justified(e, ew.obj, GoneEip(e))
      BY <3>1, Zenon DEF Justified
    <3>. QED
      BY <2>1, <3>2, <3>3, WriteRecords, ZenonT(30)
  <2>4. CASE AddFinalizer
    <3>. DEFINE new == [ew.obj EXCEPT !.fin = TRUE]
    <3>1. GoodEip(e, new) /\ new.used = ew.obj.used
      BY <2>1, ZenonT(30) DEF GoodEip, EipObj, StatusOK, NoGhost
    <3>2. \E ok \in BOOLEAN : EwUpdate(new, ok)
      BY <2>4, Zenon DEF AddFinalizer
    <3>. HIDE DEF new
    <3>3. Wrote(e, ew.obj, new)
      BY <2>2, <3>1, <3>2, Zenon
    <3>4. Justified(e, ew.obj, new)
      BY <3>1, ZenonT(30) DEF Justified
    <3>. QED
      BY <2>1, <3>3, <3>4, WriteRecords, Zenon
  <2>5. CASE SyncStatus
    <3>. DEFINE present == {s \in Svcs : Cached(svcs[s]).exists}
                new == updateEip(e, ew.obj, present)
    <3>1. GoodEip(e, new) /\ \A i \in Offsets(e) : new.used[i] = ew.obj.used[i] \cap present
      BY <2>1, UpdateGood
    <3>2. \A i \in Offsets(e) : ew.obj.used[i] \subseteq Svcs
      BY <2>1, Zenon DEF GoodEip, EipObj
    <3>3. \E ok \in BOOLEAN : EwUpdate(new, ok)
      BY <1>2, <2>5, ZenonT(30) DEF SyncStatus
    <3>. HIDE DEF new
    <3>4. Wrote(e, ew.obj, new)
      BY <2>2, <3>1, <3>3, ZenonT(30)
    <3>5. ew.pc = "sync"
      BY <2>5, SMTT(30) DEF SyncStatus
    <3>6. Justified(e, ew.obj, new)
      BY <3>1, <3>2, <3>5, Zenon DEF Justified
    <3>. QED
      BY <2>1, <3>4, <3>6, WriteRecords, Zenon
  <2>. QED
    BY <2>3, <2>4, <2>5, Zenon
<1>. QED
  BY <1>1, <1>2, Zenon

\* Users drop records only with the Eip.
LEMMA UsersRecords ==
  ASSUME Counting, IInv, NEW e \in Eips, CreateEip(e) \/ ToggleEip(e) \/ DeleteEip(e)
  PROVE  RecordKept /\ SharedOnRequest
<1>1. PICK obj \in EipObj(e) :
        /\ Wrote(e, Api(eips[e]), obj)
        /\ ~obj.exists \/ obj.used = Api(eips[e]).used
        /\ \A i \in Offsets(e) : obj.used[i] \subseteq Api(eips[e]).used[i]
  BY UsersEipKeeps, Zenon
<1>2. Justified(e, Api(eips[e]), obj)
  BY <1>1, Zenon DEF Justified
<1>. QED
  BY <1>1, <1>2, WriteRecords, Zenon

\* The two action properties hold of every step from the invariant.
LEMMA NextRecords == ASSUME Counting PROVE IInv /\ [Next]_vars => RecordKept /\ SharedOnRequest
<1>. SUFFICES ASSUME IInv, [Next]_vars PROVE RecordKept /\ SharedOnRequest
  OBVIOUS
<1>1. CASE UNCHANGED eips
  BY <1>1, UntouchedRecords, Zenon DEF Untouched
<1>2. CASE \E e \in Eips : DeliverEip(e)
  <2>1. PICK e \in Eips : DeliverEip(e)
    BY <1>2, Zenon
  <2>2. Api(Tail(eips[e])) = Api(eips[e])
    BY <2>1, GoodTail, Zenon DEF DeliverEip, IInv, EipsInv
  <2>3. Untouched
    BY <2>1, <2>2, Zenon DEF Untouched, DeliverEip, IInv, EipsInv
  <2>. QED
    BY <2>3, UntouchedRecords, Zenon
<1>3. CASE Crash
  BY <1>3, CrashKeeps, UntouchedRecords, Zenon DEF Untouched
<1>4. CASE \E e \in Eips : CreateEip(e) \/ ToggleEip(e) \/ DeleteEip(e)
  BY <1>4, UsersRecords, Zenon
<1>5. CASE RemoveFinalizer \/ AddFinalizer \/ SyncStatus
  BY <1>5, EipWorkerRecords, Zenon
<1>6. CASE ReleaseIP \/ AssignIP
  BY <1>6, ReleaseIPRecords, AssignIPRecords, Zenon
<1>7. CASE (\E s \in Svcs : Reconcile(s)) \/ UpdateService \/ UpdateServiceStatus
  BY <1>1, <1>7, Zenon DEF Reconcile, UpdateService, UpdateServiceStatus
<1>8. CASE (\E e \in Eips : ReconcileEip(e)) \/ (\E s \in Svcs : RemoveLabel(s) \/ DeliverSvc(s))
  BY <1>1, <1>8, Zenon DEF ReconcileEip, RemoveLabel, DeliverSvc
<1>9. CASE NodeChange \/ \E s \in Svcs : CreateSvc(s) \/ EditSvc(s) \/ DeleteSvc(s)
  BY <1>1, <1>9, Zenon DEF NodeChange, CreateSvc, EditSvc, DeleteSvc
<1>10. CASE UNCHANGED vars
  BY <1>1, <1>10, Zenon DEF vars
<1>. QED
  BY <1>2, <1>3, <1>4, <1>5, <1>6, <1>7, <1>8, <1>9, <1>10, SMTT(30) DEF Next, LbWorker, EipWorker, Watches, Users
==============================================================================
