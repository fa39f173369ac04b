-------------------------- MODULE EipAdmissionProofs ---------------------------
(***************************************************************************)
(* The arithmetic of pools is exact for pools whose size is a machine      *)
(* integer, whatever its width, and the webhook keeps such pools apart,    *)
(* and the default Eip single, for every set of Eips that users submit.    *)
(* The bitmap of ids implements a set of ids, whatever its size.           *)
(***************************************************************************)
EXTENDS EipAdmission, Sequences, NaturalsInduction, WellFoundedInduction, TLAPS

------------------------------------------------------------------------------
(* Arithmetic.                                                             *)

\* Int64 changes nothing that fits.
LEMMA Int64Exact ==
  ASSUME MaxInt \in Nat \ {0}, NEW x \in Int, -MaxInt - 1 <= x, x <= MaxInt
  PROVE  Int64(x) = x
BY DEF Int64

\* The first address of a network is a number.
LEMMA MaskedInt ==
  ASSUME NEW ip \in IP, NEW hosts \in Nat \ {0}
  PROVE  Masked(ip, hosts) \in Int
<1>1. ip.n \in Nat
  BY DEF IP
<1>2. ip.n % hosts \in Int
  BY <1>1
<1>. QED
  BY <1>1, <1>2 DEF Masked

\* GetSize, LastIP and ParseRange agree on a pool that fits.
LEMMA FitsExact ==
  ASSUME ConstantsOK, NEW t \in Text, Fits(t)
  PROVE  LET r == ParseRange(t) s == GetSize(t)
         IN /\ r.v4 = t.first.v4 /\ r.start \in Int /\ r.end \in Int /\ r.start <= r.end
            /\ s.ok = TRUE /\ s.base = r.start /\ s.size = r.end - r.start + 1 /\ s.size <= MaxInt
            /\ LastIP(t) = r.end
<1>1. MaxInt \in Nat \ {0}
  BY DEF ConstantsOK
<1>2. t.first.n \in Nat /\ t.last.n \in Nat /\ t.hosts \in Nat \ {0} /\ t.first \in IP
  BY DEF Text, IP
<1>3. t.form \in {"ip", "cidr", "range", "bad"}
  BY SMTT(30) DEF Text
<1>4. CASE t.form = "ip"
  <2>1. ParseRange(t) = [ok |-> t.first.n >= t.first.n, v4 |-> t.first.v4, start |-> t.first.n, end |-> t.first.n]
    BY <1>4 DEF ParseRange, NewRange
  <2>2. GetSize(t) = [ok |-> TRUE, base |-> t.first.n, size |-> 1]
    BY <1>4 DEF GetSize, Sized, IPToBigInt
  <2>3. Int64(0) = 0
    BY <1>1, Int64Exact
  <2>4. LastIP(t) = t.first.n
    BY <1>2, <2>2, <2>3, SMTT(30) DEF LastIP
  <2>. QED
    BY <1>1, <1>2, <2>1, <2>2, <2>4
<1>5. CASE t.form = "cidr"
  <2>. DEFINE net == Masked(t.first, t.hosts)
  <2>1. ParseRange(t) = [ok |-> net + t.hosts - 1 >= net, v4 |-> t.first.v4, start |-> net,
                         end |-> net + t.hosts - 1]
    BY <1>5 DEF ParseRange, NewRange
  <2>2. net \in Int
    BY <1>2, MaskedInt
  <2>. HIDE DEF net
  <2>3. t.hosts <= MaxInt
    BY <1>1, <1>2, <2>1, <2>2 DEF Fits
  <2>4. Int64(t.hosts) = t.hosts /\ Int64(t.hosts - 1) = t.hosts - 1
    BY <1>1, <1>2, <2>3, Int64Exact
  <2>5. GetSize(t) = [ok |-> TRUE, base |-> net, size |-> t.hosts]
    BY <1>5, <2>4 DEF GetSize, Sized, net
  <2>6. LastIP(t) = net + t.hosts - 1
    BY <1>2, <2>2, <2>4, <2>5, SMTT(30) DEF LastIP
  <2>. QED
    BY <1>2, <2>1, <2>2, <2>3, <2>5, <2>6
<1>6. CASE t.form = "range"
  <2>. DEFINE d == t.last.n - t.first.n
  <2>1. /\ ParseRange(t).ok => t.last.n >= t.first.n
        /\ ParseRange(t).v4 = t.first.v4
        /\ ParseRange(t).start = t.first.n /\ ParseRange(t).end = t.last.n
    BY <1>6, Zenon DEF ParseRange, NewRange
  <2>2. t.last.n >= t.first.n /\ t.last.n - t.first.n < MaxInt
    BY <2>1 DEF Fits
  <2>3. d \in Int /\ 0 <= d /\ d < MaxInt /\ t.first.n + d = t.last.n
    BY <1>1, <1>2, <2>2
  <2>4. GetSize(t) = [ok |-> Int64(d) >= 0, base |-> t.first.n, size |-> Int64(Int64(d) + 1)]
    BY <1>6 DEF GetSize, IPToBigInt
  <2>. HIDE DEF d
  <2>5. Int64(d) = d /\ Int64(d + 1) = d + 1 /\ d + 1 - 1 = d
    BY <1>1, <2>3, Int64Exact
  <2>6. GetSize(t) = [ok |-> TRUE, base |-> t.first.n, size |-> d + 1]
    BY <2>3, <2>4, <2>5, Zenon
  <2>7. LastIP(t) = t.last.n
    BY <2>3, <2>5, <2>6 DEF LastIP
  <2>8. d + 1 = t.last.n - t.first.n + 1 /\ d + 1 <= MaxInt
    BY <1>1, <1>2, <2>3
  <2>. QED
    BY <1>2, <2>1, <2>2, <2>6, <2>7, <2>8
<1>7. CASE t.form = "bad"
  BY <1>7 DEF Fits, ParseRange
<1>. QED
  BY <1>3, <1>4, <1>5, <1>6, <1>7, Zenon

\* IsOverlap sees every common address of two pools that fit.
LEMMA OverlapSeen ==
  ASSUME ConstantsOK, NEW s \in Text, NEW t \in Text, Fits(s), Fits(t), Intersect(s, t)
  PROVE  IsOverlap(s, t)
<1>1. /\ GetSize(s).base = ParseRange(s).start /\ LastIP(s) = ParseRange(s).end
      /\ ParseRange(s).start \in Int /\ ParseRange(s).end \in Int
  BY FitsExact, Zenon
<1>2. /\ GetSize(t).base = ParseRange(t).start /\ LastIP(t) = ParseRange(t).end
      /\ ParseRange(t).start \in Int /\ ParseRange(t).end \in Int
  BY FitsExact, Zenon
<1>. QED
  BY <1>1, <1>2 DEF IsOverlap, Intersect

------------------------------------------------------------------------------
(* The webhook.                                                            *)

View == [Names -> Eips \cup {Nil}]

\* A write on its way was judged against the list it carries.
Valid(q) ==
    /\ q.name \in Names /\ q.eip \in Eips /\ q.old \in Eips \cup {Nil} /\ q.list \in View
    /\ IF q.old = Nil THEN ValidateCreate(q.name, q.eip, q.list)
       ELSE ValidateUpdate(q.name, q.eip, q.old, q.list)

Typed ==
    /\ eips \in View /\ cache \in View
    /\ \A r \in Requests : req[r] = NoReq \/ (req[r].pc = "store" /\ Valid(req[r]))
    /\ DOMAIN req = Requests
    /\ missed \in [Names -> SUBSET Names]

Inv == Typed /\ Disjoint /\ OneDefault

\* Every step keeps the types, and carries only judged writes.
LEMMA TypedStep == ASSUME ConstantsOK, Typed, [Next]_vars PROVE Typed'
<1>. SUFFICES ASSUME Next PROVE Typed'
  BY DEF vars, Typed
<1>. USE DEF Typed
<1>1. ASSUME NEW r \in Requests, NEW e \in Names, NEW eip \in Eips, Admit(r, e, eip) PROVE Typed'
  <2>. DEFINE q == [pc |-> "store", name |-> e, eip |-> eip, old |-> eips[e], list |-> cache]
  <2>1. req' = [req EXCEPT ![r] = q] /\ eips' = eips /\ cache' = cache /\ missed' = missed
    BY <1>1, SMTT(30) DEF Admit
  <2>2. Valid(q)
    BY <1>1 DEF Admit, Valid, View
  <2>3. \A s \in Requests : req'[s] = IF s = r THEN q ELSE req[s]
    BY <2>1
  <2>4. q.pc = "store"
    OBVIOUS
  <2>. HIDE DEF q
  <2>5. \A s \in Requests : req'[s] = NoReq \/ (req'[s].pc = "store" /\ Valid(req'[s]))
    BY <2>2, <2>3, <2>4
  <2>. QED
    BY <2>1, <2>5, SMTT(30)
<1>2. ASSUME NEW r \in Requests, req' = [req EXCEPT ![r] = NoReq]
      PROVE  /\ \A s \in Requests : req'[s] = NoReq \/ (req'[s].pc = "store" /\ Valid(req'[s]))
             /\ DOMAIN req' = Requests
  <2>1. \A s \in Requests : req'[s] = IF s = r THEN NoReq ELSE req[s]
    BY <1>2
  <2>. QED
    BY <1>2, <2>1
<1>3. ASSUME NEW r \in Requests, Store(r) PROVE Typed'
  <2>1. Valid(req[r])
    BY <1>3, SMTT(30) DEF Store, NoReq
  <2>2. eips' = [eips EXCEPT ![req[r].name] = req[r].eip] /\ req' = [req EXCEPT ![r] = NoReq] /\ cache' = cache
    BY <1>3, SMTT(30) DEF Store
  <2>3. eips' \in View
    BY <2>1, <2>2, SMTT(30) DEF Valid, View
  <2>4. missed' \in [Names -> SUBSET Names]
    BY <1>3, <2>1, SMTT(30) DEF Store, Valid
  <2>. QED
    BY <1>2, <2>2, <2>3, <2>4, SMTT(30)
<1>4. ASSUME NEW r \in Requests, Conflict(r) PROVE Typed'
  BY <1>2, <1>4, SMTT(30) DEF Conflict
<1>5. ASSUME NEW e \in Names, Delete(e) PROVE Typed'
  BY <1>5 DEF Delete, View
<1>6. CASE Sync
  BY <1>6 DEF Sync
<1>. QED
  BY <1>1, <1>3, <1>4, <1>5, <1>6, SMTT(30) DEF Next

\* Store: what the property says of the stored Eip e and another f.
LEMMA StoreKeeps ==
  ASSUME ConstantsOK, Inv, NEW r \in Requests, Store(r)
  PROVE  Disjoint' /\ OneDefault'
<1>. DEFINE q == req[r]
            e == q.name
            since == {f \in Names \ {e} : eips[f] # Nil /\ eips[f] # q.list[f]}
<1>1. Valid(q) /\ Typed
  BY SMTT(30) DEF Store, NoReq, Inv, Typed
<1>2. /\ eips[e] = q.old /\ eips' = [eips EXCEPT ![e] = q.eip]
      /\ missed' = IF Judged(q.eip, q.old) THEN [missed EXCEPT ![e] = @ \cup since] ELSE missed
  BY DEF Store
<1>. HIDE DEF q
<1>3. e \in Names /\ q.eip \in Eips /\ q.eip # Nil /\ q.list \in View
  BY <1>1, SMTT(30) DEF Valid, ConstantsOK
<1>4. \A f \in Names : eips'[f] = IF f = e THEN q.eip ELSE eips[f]
  BY <1>1, <1>2, <1>3, SMTT(30) DEF Typed, View
<1>5. \A f \in Names : missed[f] \subseteq missed'[f]
  BY <1>1, <1>2, <1>3, SMTT(30) DEF Typed
<1>6. Judged(q.eip, q.old) => since \subseteq missed'[e]
  BY <1>1, <1>2, <1>3, SMTT(30) DEF Typed
<1>7. ASSUME NEW f \in Names, f # e, eips[f] # Nil, f \notin missed'[e], e \notin missed'[f], Judged(q.eip, q.old)
      PROVE  q.list[f] = eips[f]
  BY <1>6, <1>7, SMTT(30)
<1>. HIDE DEF since, e
<1>8. \A g \in Names : eips[g] # Nil => eips[g] \in Eip
  BY <1>1 DEF Typed, View, ConstantsOK
<1>9. q.eip \in Eip
  BY <1>3, SMTT(30) DEF ConstantsOK
<1>10. ASSUME NEW f \in Names, f # e, eips[f] # Nil, f \notin missed'[e], e \notin missed'[f],
              Fits(q.eip.address), Fits(eips[f].address)
       PROVE  ~Intersect(q.eip.address, eips[f].address) /\ ~Intersect(eips[f].address, q.eip.address)
  <2>1. Intersect(q.eip.address, eips[f].address) <=> Intersect(eips[f].address, q.eip.address)
    BY Zenon DEF Intersect
  <2>2. CASE q.old = Nil
    <3>1. Judged(q.eip, q.old)
      BY <2>2, SMTT(30) DEF Judged
    <3>2. q.list[f] = eips[f]
      BY <1>7, <1>10, <3>1, SMTT(30)
    <3>3. ~IsOverlap(q.eip.address, eips[f].address)
      BY <1>1, <1>10, <2>2, <3>2, SMTT(30) DEF Valid, ValidateCreate, validateOverlap, e
    <3>4. q.eip.address \in Text /\ eips[f].address \in Text
      BY <1>8, <1>9, <1>10, SMTT(30) DEF Eip
    <3>. QED
      BY <1>10, <2>1, <3>3, <3>4, OverlapSeen, SMTT(30)
  <2>3. CASE q.old # Nil
    <3>1. q.eip.address = eips[e].address /\ eips[e] # Nil
      BY <1>1, <1>2, <2>3, SMTT(30) DEF Valid, ValidateUpdate
    <3>2. f \notin missed[e] /\ e \notin missed[f]
      BY <1>3, <1>5, <1>10, SMTT(30)
    <3>. QED
      BY <1>3, <1>10, <2>1, <3>1, <3>2, SMTT(30) DEF Inv, Disjoint
  <2>. QED
    BY <2>2, <2>3
<1>11. ASSUME NEW f \in Names, f # e, eips[f] # Nil, f \notin missed'[e], e \notin missed'[f]
       PROVE  ~(IsDefault(q.eip) /\ IsDefault(eips[f]))
  <2>1. CASE Judged(q.eip, q.old)
    <3>1. q.list[f] = eips[f]
      BY <1>7, <1>11, <2>1, SMTT(30)
    <3>2. validateDefault(e, q.eip, q.list)
      BY <1>1, <2>1, SMTT(30) DEF Valid, ValidateCreate, ValidateUpdate, Judged, e
    <3>. QED
      BY <1>11, <3>1, <3>2, SMTT(30) DEF validateDefault, HasDefault, IsDefault
  <2>2. CASE ~Judged(q.eip, q.old)
    <3>1. eips[e] # Nil /\ q.eip.default = eips[e].default
      BY <1>2, <2>2, SMTT(30) DEF Judged
    <3>2. f \notin missed[e] /\ e \notin missed[f]
      BY <1>3, <1>5, <1>11, SMTT(30)
    <3>. QED
      BY <1>3, <1>11, <3>1, <3>2, SMTT(30) DEF Inv, OneDefault, IsDefault
  <2>. QED
    BY <2>1, <2>2
<1>12. Disjoint'
  BY <1>3, <1>4, <1>5, <1>10, SMTT(30) DEF Inv, Disjoint
<1>13. OneDefault'
  BY <1>3, <1>4, <1>5, <1>11, SMTT(30) DEF Inv, OneDefault
<1>. QED
  BY <1>12, <1>13, SMTT(30)

\* Every step keeps the invariant: only Store writes an Eip, and Delete takes one away.
LEMMA InvStep == ASSUME ConstantsOK, Inv, [Next]_vars PROVE Inv'
<1>1. Typed'
  BY TypedStep, SMTT(30) DEF Inv
<1>2. ASSUME eips' = eips, missed' = missed PROVE Disjoint' /\ OneDefault'
  BY <1>2 DEF Inv, Disjoint, OneDefault
<1>3. ASSUME NEW e \in Names, Delete(e) PROVE Disjoint' /\ OneDefault'
  <2>1. \A f \in Names : eips'[f] = IF f = e THEN Nil ELSE eips[f]
    BY <1>3 DEF Delete, Inv, Typed, View
  <2>2. \A f \in Names : missed'[f] = IF f = e THEN {} ELSE missed[f] \ {e}
    BY <1>3 DEF Delete
  <2>. QED
    BY <2>1, <2>2, Zenon DEF Inv, Disjoint, OneDefault
<1>4. CASE UNCHANGED vars
  BY <1>1, <1>2, <1>4, SMTT(30) DEF vars, Inv
<1>5. CASE Next
  BY <1>1, <1>2, <1>3, <1>5, StoreKeeps DEF Next, Admit, Conflict, Sync, Inv
<1>. QED
  BY <1>4, <1>5

\* The invariant holds in every state.
LEMMA Invariant == ASSUME ConstantsOK PROVE Spec => []Inv
<1>1. Init => Inv
  BY DEF Init, Inv, Typed, View, Disjoint, OneDefault
<1>2. Inv /\ [Next]_vars => Inv'
  BY InvStep
<1>. QED
  BY <1>1, <1>2, PTL DEF Spec

\* validateOverlap: stored pools that fit have no address in common, except with one
\* that was written while the other was on its way.
THEOREM EipsDisjoint == ASSUME ConstantsOK PROVE Spec => []Disjoint
<1>1. Inv => Disjoint
  BY DEF Inv
<1>. QED
  BY <1>1, Invariant, PTL

\* validateDefault: there is one default Eip, with the same exception.
THEOREM EipsOneDefault == ASSUME ConstantsOK PROVE Spec => []OneDefault
<1>1. Inv => OneDefault
  BY SMTT(30) DEF Inv
<1>. QED
  BY <1>1, Invariant, PTL

\* GetSize, Contains, IPToOrdinal and ParseRange mean the same addresses by a pool that fits.
LEMMA PoolExact ==
  ASSUME ConstantsOK, NEW t \in Text, Fits(t), NEW ip \in IP, ip.v4 = t.first.v4,
         Int64(ip.n - GetSize(t).base) = ip.n - GetSize(t).base
  PROVE  /\ Contains(t, ip) <=> RangeContains(t, ip)
         /\ Contains(t, ip) => GetSize(t).base + IPToOrdinal(t, ip) = ip.n
         /\ ~Contains(t, ip) => IPToOrdinal(t, ip) = -1
<1>. DEFINE r == ParseRange(t)
            s == GetSize(t)
<1>1. /\ r.v4 = t.first.v4 /\ r.start \in Int /\ r.end \in Int /\ r.start <= r.end
      /\ s.ok = TRUE /\ s.base = r.start /\ s.size = r.end - r.start + 1
      /\ LastIP(t) = r.end
  BY FitsExact, Zenon
<1>2. ip.n \in Nat
  BY SMTT(30) DEF IP
<1>3. Contains(t, ip) <=> r.start <= ip.n /\ ip.n <= r.end
  BY <1>1, <1>2, SMTT(30) DEF Contains, IPToBigInt
<1>4. RangeContains(t, ip) <=> r.start <= ip.n /\ ip.n <= r.end
  BY <1>1, SMTT(30) DEF RangeContains
<1>5. IPToOrdinal(t, ip) = IF ip.n - r.start < 0 \/ ip.n - r.start >= s.size THEN -1 ELSE ip.n - r.start
  BY <1>1, SMTT(30) DEF IPToOrdinal, IPToBigInt
<1>. HIDE DEF r, s
<1>. QED
  BY <1>1, <1>2, <1>3, <1>4, <1>5 DEF s

\* GetSize, Contains, IPToOrdinal, ParseRange: the controller and the speaker agree on
\* the addresses of every stored pool that fits.
THEOREM EipsPoolsAgree == ASSUME ConstantsOK PROVE Spec => []PoolsAgree
<1>1. ASSUME Inv PROVE PoolsAgree
  <2>. SUFFICES ASSUME NEW e \in Names, eips[e] # Nil, Fits(eips[e].address), NEW ip \in IPs,
                       ip.v4 = eips[e].address.first.v4,
                       Int64(ip.n - GetSize(eips[e].address).base) = ip.n - GetSize(eips[e].address).base
                PROVE  LET t == eips[e].address
                       IN /\ Contains(t, ip) <=> RangeContains(t, ip)
                          /\ Contains(t, ip) => GetSize(t).base + IPToOrdinal(t, ip) = ip.n
                          /\ ~Contains(t, ip) => IPToOrdinal(t, ip) = -1
    BY SMTT(30) DEF PoolsAgree
  <2>1. eips[e] \in Eip /\ ip \in IP
    BY <1>1, SMTT(30) DEF Inv, Typed, View, ConstantsOK
  <2>2. eips[e].address \in Text
    BY <2>1 DEF Eip
  <2>. QED
    BY <2>1, <2>2, PoolExact, SMTT(30)
<1>. QED
  BY <1>1, Invariant, PTL

------------------------------------------------------------------------------
(***************************************************************************)
(* The ids.  The bitmap of IdAlloc implements the set of ids that IdPool   *)
(* describes and the speaker uses, for every size of a block and every     *)
(* number of blocks.                                                       *)
(***************************************************************************)
CONSTANTS BlockBits, MaxBlocks, Hashes

VARIABLES bits, given, turn

M == INSTANCE IdAlloc WITH id <- given, call <- turn

------------------------------------------------------------------------------
(* Numbers.                                                                *)

\* What \div and % are.
LEMMA DivMod ==
  ASSUME NEW i \in Nat, NEW b \in Nat \ {0}
  PROVE  i \div b \in Nat /\ i % b \in 0 .. b - 1 /\ i = b * (i \div b) + (i % b)
  BY SMT

\* Products grow with their factors.
LEMMA Monotone ==
  ASSUME NEW b \in Nat, NEW m \in Nat, NEW n \in Nat, m <= n
  PROVE  b * m \in Nat /\ b * n \in Nat /\ b * m <= b * n
<1>1. PICK d \in Nat : n = m + d
  <2>1. n - m \in Nat /\ n = m + (n - m)
    OBVIOUS
  <2>. QED
    BY <2>1
<1>2. b * n = b * m + b * d /\ b * d \in Nat /\ b * m \in Nat
  BY <1>1
<1>. QED
  BY <1>2

\* A number below n blocks is in one of them.
LEMMA BlockBelow ==
  ASSUME NEW i \in Nat, NEW b \in Nat \ {0}, NEW n \in Nat
  PROVE  i < b * n <=> i \div b < n
<1>. DEFINE q == i \div b
            r == i % b
<1>1. q \in Nat /\ r \in 0 .. b - 1 /\ i = b * q + r
  BY DivMod, Zenon
<1>. HIDE DEF q, r
<1>2. CASE q < n
  <2>1. b * (q + 1) <= b * n /\ b * n \in Nat
    BY <1>1, <1>2, Monotone
  <2>2. b * (q + 1) = b * q + b /\ b * q \in Nat
    BY <1>1
  <2>3. i < b * n
    BY <1>1, <2>1, <2>2
  <2>. QED
    BY <1>2, <2>3 DEF q
<1>3. CASE ~(q < n)
  <2>1. b * n <= b * q /\ b * n \in Nat /\ b * q \in Nat
    BY <1>1, <1>3, Monotone
  <2>2. ~(i < b * n)
    BY <1>1, <2>1
  <2>. QED
    BY <1>3, <2>2 DEF q
<1>. QED
  BY <1>2, <1>3

\* A number has one quotient and one remainder.
LEMMA DivUnique ==
  ASSUME NEW b \in Nat \ {0}, NEW q \in Nat, NEW r \in 0 .. b - 1
  PROVE  b * q + r \in Nat /\ (b * q + r) \div b = q /\ (b * q + r) % b = r
<1>. DEFINE i == b * q + r
<1>1. b * q \in Nat /\ i \in Nat /\ b * (q + 1) = b * q + b /\ i < b * (q + 1)
  OBVIOUS
<1>2. ~(i < b * q)
  BY <1>1
<1>. HIDE DEF i
<1>3. i \div b < q + 1 /\ ~(i \div b < q) /\ i \div b \in Nat
  <2>1. q + 1 \in Nat
    OBVIOUS
  <2>2. (i < b * (q + 1) <=> i \div b < q + 1) /\ (i < b * q <=> i \div b < q)
    BY <1>1, <2>1, BlockBelow, Zenon
  <2>3. i \div b \in Nat
    BY <1>1, DivMod, Zenon
  <2>. QED
    BY <1>1, <1>2, <2>2, <2>3, Zenon
<1>4. i \div b = q
  BY <1>3
<1>5. i = b * q + (i % b) /\ i % b \in Nat
  <2>1. i % b \in 0 .. b - 1 /\ i = b * (i \div b) + (i % b)
    BY <1>1, DivMod, Zenon
  <2>2. i % b \in Nat
    BY <2>1
  <2>. QED
    BY <1>4, <2>1, <2>2, Zenon
<1>6. i % b = r
  BY <1>1, <1>5 DEF i
<1>. QED
  BY <1>1, <1>4, <1>6 DEF i

\* The remainder of a sum does not change with the remainder of a summand.
LEMMA ModSum ==
  ASSUME NEW h \in Nat, NEW i \in Nat, NEW t \in Nat \ {0}
  PROVE  ((h % t) + i) % t = (h + i) % t
<1>. DEFINE p == h \div t
            s == (h % t) + i
            q == s \div t
            r == s % t
<1>1. p \in Nat /\ h % t \in Nat /\ h = t * p + (h % t)
  BY DivMod
<1>2. s \in Nat
  BY <1>1
<1>3. q \in Nat /\ r \in 0 .. t - 1 /\ s = t * q + r
  BY <1>2, DivMod, Zenon
<1>. HIDE DEF p, q, r
<1>4. h + i = t * (p + q) + r
  <2>1. h + i = t * p + s
    BY <1>1
  <2>2. t * (p + q) = t * p + t * q /\ t * p \in Nat /\ t * q \in Nat
    BY <1>1, <1>3
  <2>. HIDE DEF s
  <2>. QED
    BY <1>2, <1>3, <2>1, <2>2
<1>5. p + q \in Nat
  BY <1>1, <1>3
<1>6. (t * (p + q) + r) % t = r
  BY <1>3, <1>5, DivUnique
<1>. QED
  BY <1>4, <1>6 DEF r

------------------------------------------------------------------------------
(* The bitmap.                                                             *)

Block == 0 .. BlockBits - 1

Bitmap(b) == b \in Seq(SUBSET Block) /\ Len(b) \in 1 .. MaxBlocks

\* An id is in a block there may be.
LEMMA InBlock ==
  ASSUME M!ConstantsOK, NEW i \in 0 .. M!Total - 1
  PROVE  /\ i \in Nat /\ i \div BlockBits \in 0 .. MaxBlocks - 1 /\ i % BlockBits \in Block
         /\ i = BlockBits * (i \div BlockBits) + (i % BlockBits)
<1>1. BlockBits \in Nat \ {0} /\ MaxBlocks \in Nat /\ BlockBits * MaxBlocks \in Nat
  BY DEF M!ConstantsOK
<1>2. i \in Nat /\ i < BlockBits * MaxBlocks
  BY <1>1 DEF M!Total
<1>3. i \div BlockBits < MaxBlocks
  BY <1>1, <1>2, BlockBelow, Zenon
<1>4. i \div BlockBits \in Nat /\ i % BlockBits \in Block /\ i = BlockBits * (i \div BlockBits) + (i % BlockBits)
  BY <1>1, <1>2, DivMod, Zenon DEF Block
<1>. QED
  BY <1>1, <1>2, <1>3, <1>4

\* A changed bit is the bit of one id.
LEMMA OneBit ==
  ASSUME M!ConstantsOK, Bitmap(bits), NEW i \in 0 .. M!Total - 1, i \div BlockBits < Len(bits), NEW S \in SUBSET Block,
         bits' = [bits EXCEPT ![i \div BlockBits + 1] = S],
         \A r \in Block : r # i % BlockBits => (r \in S <=> r \in bits[i \div BlockBits + 1])
  PROVE  /\ Bitmap(bits)' /\ Len(bits') = Len(bits)
         /\ M!Used' \ {i} = M!Used \ {i} /\ (i \in M!Used' <=> i % BlockBits \in S)
<1>. DEFINE B(j) == j \div BlockBits
<1>1. \A j \in 0 .. M!Total - 1 : /\ j \in Nat /\ B(j) \in 0 .. MaxBlocks - 1 /\ j % BlockBits \in Block
                               /\ j = BlockBits * B(j) + (j % BlockBits)
  BY InBlock
<1>. HIDE DEF B
<1>2. B(i) + 1 \in 1 .. Len(bits) /\ bits' = [bits EXCEPT ![B(i) + 1] = S] /\ B(i) < Len(bits)
  BY <1>1 DEF B, Bitmap
<1>3. /\ bits' \in Seq(SUBSET Block) /\ Len(bits') = Len(bits) /\ bits'[B(i) + 1] = S
      /\ \A z \in 1 .. Len(bits) : z # B(i) + 1 => bits'[z] = bits[z]
  <2>. DEFINE at == B(i) + 1
  <2>1. bits \in Seq(SUBSET Block) /\ at \in 1 .. Len(bits) /\ bits' = [bits EXCEPT ![at] = S]
    BY <1>2, Zenon DEF Bitmap
  <2>. HIDE DEF at
  <2>. DEFINE new == [bits EXCEPT ![at] = S]
  <2>2. /\ new \in Seq(SUBSET Block) /\ Len(new) = Len(bits)
        /\ \A z \in 1 .. Len(bits) : new[z] = IF z = at THEN S ELSE bits[z]
    BY <2>1, SMTT(30)
  <2>3. bits' = new
    BY <2>1, Zenon
  <2>. HIDE DEF new
  <2>. QED
    BY <2>1, <2>2, <2>3, Zenon DEF at
<1>4. ASSUME NEW j \in 0 .. M!Total - 1, B(j) < Len(bits), j # i
      PROVE  j % BlockBits \in bits'[B(j) + 1] <=> j % BlockBits \in bits[B(j) + 1]
  <2>1. CASE B(j) = B(i)
    <3>1. j % BlockBits # i % BlockBits
      BY <1>1, <1>4, <2>1
    <3>. QED
      BY <1>1, <1>3, <2>1, <3>1 DEF B
  <2>2. CASE B(j) # B(i)
    <3>1. B(j) + 1 \in 1 .. Len(bits) /\ B(j) + 1 # B(i) + 1
      BY <1>1, <1>4, <2>2 DEF Bitmap
    <3>. QED
      BY <1>3, <3>1, SMTT(30)
  <2>. QED
    BY <2>1, <2>2
<1>5. /\ M!Used = {j \in 0 .. M!Total - 1 : B(j) < Len(bits) /\ j % BlockBits \in bits[B(j) + 1]}
      /\ M!Used' = {j \in 0 .. M!Total - 1 : B(j) < Len(bits) /\ j % BlockBits \in bits'[B(j) + 1]}
  BY <1>3, Zenon DEF M!Used, M!Bit, B, M!Total
<1>6. M!Used' \ {i} = M!Used \ {i}
  BY <1>4, <1>5, Zenon
<1>7. i \in M!Used' <=> i % BlockBits \in S
  BY <1>2, <1>3, <1>5, Zenon
<1>8. Bitmap(bits)'
  BY <1>3 DEF Bitmap, Block
<1>. QED
  BY <1>3, <1>6, <1>7, <1>8

\* Growing adds blocks without a bit, and fails only for the largest bitmap.
LEMMA Grown ==
  ASSUME M!ConstantsOK, Bitmap(bits)
  PROVE  /\ M!grow(bits) = bits <=> Len(bits) = MaxBlocks
         /\ bits' = M!grow(bits) => /\ Bitmap(bits)' /\ M!Used' = M!Used /\ Len(bits) <= Len(bits')
                                    /\ M!grow(bits) # bits => Len(bits) < Len(bits')
                                    /\ \A z \in 1 .. Len(bits) : bits'[z] = bits[z]
<1>. DEFINE n == Len(bits)
            m == IF 2 * n > MaxBlocks THEN MaxBlocks - n ELSE n
            new == [z \in 1 .. m |-> {}]
<1>1. n \in 1 .. MaxBlocks /\ MaxBlocks \in Nat /\ bits \in Seq(SUBSET Block)
  BY DEF Bitmap, M!ConstantsOK
<1>2. CASE n >= MaxBlocks
  <2>1. M!grow(bits) = bits
    BY <1>2 DEF M!grow
  <2>2. n = MaxBlocks
    BY <1>1, <1>2
  <2>3. ASSUME bits' = bits PROVE Bitmap(bits)' /\ M!Used' = M!Used
    BY <2>3 DEF Bitmap, Block, M!Used, M!Bit, M!Total
  <2>. QED
    BY <1>1, <2>1, <2>2, <2>3
<1>3. CASE ~(n >= MaxBlocks)
  <2>1. M!grow(bits) = bits \o new /\ m \in Nat \ {0} /\ n + m <= MaxBlocks /\ n # MaxBlocks
    BY <1>1, <1>3 DEF M!grow
  <2>. HIDE DEF m
  <2>2. new \in Seq(SUBSET Block) /\ Len(new) = m
    BY <2>1
  <2>3. /\ bits \o new \in Seq(SUBSET Block) /\ Len(bits \o new) = n + m
        /\ \A z \in 1 .. n : (bits \o new)[z] = bits[z]
        /\ \A z \in n + 1 .. n + m : (bits \o new)[z] = {}
    BY <1>1, <2>1, <2>2
  <2>. HIDE DEF new
  <2>4. M!grow(bits) # bits
    BY <1>1, <2>1, <2>3
  <2>5. ASSUME bits' = M!grow(bits) PROVE M!Used' = M!Used
    <3>1. ASSUME NEW i \in 0 .. M!Total - 1
          PROVE  (i \div BlockBits < n /\ M!Bit(bits, i)) <=> (i \div BlockBits < n + m /\ M!Bit(bits, i)')
      <4>. DEFINE c == i \div BlockBits
      <4>1. c \in Nat
        BY InBlock
      <4>2. M!Bit(bits, i)' <=> i % BlockBits \in bits'[c + 1]
        BY Zenon DEF M!Bit
      <4>3. M!Bit(bits, i) <=> i % BlockBits \in bits[c + 1]
        BY Zenon DEF M!Bit
      <4>. HIDE DEF c
      <4>4. CASE c < n
        <5>1. c + 1 \in 1 .. n /\ c < n + m
          BY <1>1, <2>1, <4>1, <4>4, SMTT(30)
        <5>2. bits'[c + 1] = bits[c + 1]
          BY <2>1, <2>3, <2>5, <5>1
        <5>. QED
          BY <4>2, <4>3, <4>4, <5>1, <5>2, SMTT(30) DEF c
      <4>5. CASE ~(c < n)
        <5>1. c < n + m => c + 1 \in n + 1 .. n + m
          BY <1>1, <2>1, <4>1, <4>5
        <5>2. c < n + m => bits'[c + 1] = {}
          BY <2>1, <2>3, <2>5, <5>1, Zenon
        <5>. QED
          BY <4>2, <4>5, <5>2, Zenon DEF c
      <4>. QED
        BY <4>4, <4>5
    <3>2. Len(bits') = n + m
      BY <2>1, <2>3, <2>5
    <3>. QED
      BY <3>1, <3>2, Zenon DEF M!Used, M!Total
  <2>6. ASSUME bits' = M!grow(bits) PROVE Bitmap(bits)'
    <3>1. bits' \in Seq(SUBSET Block) /\ Len(bits') \in 1 .. MaxBlocks
      BY <1>1, <2>1, <2>3, <2>6
    <3>. QED
      BY <3>1 DEF Bitmap, Block
  <2>. QED
    BY <1>1, <2>1, <2>3, <2>4, <2>5, <2>6, SMTT(30)
<1>. QED
  BY <1>2, <1>3

------------------------------------------------------------------------------
(* The id that is handed out.                                              *)

\* A set of numbers that is not empty has a least element.
LEMMA Least ==
  ASSUME NEW S \in SUBSET Nat, S # {}
  PROVE  \E i \in S : \A j \in S : i <= j
<1>. DEFINE R == {ss \in Nat \X Nat : ss[1] < ss[2]}
<1>1. IsWellFoundedOn(R, Nat)
  BY NatLessThanWellFounded, Zenon DEF OpToRel
<1>2. \E x \in S : \A y \in S : ~(<<y, x>> \in R)
  BY <1>1, WFMin, Zenon
<1>3. PICK i \in S : \A j \in S : ~(<<j, i>> \in R)
  BY <1>2, Zenon
<1>4. ASSUME NEW j \in S PROVE i <= j
  <2>1. i \in Nat /\ j \in Nat
    OBVIOUS
  <2>2. <<j, i>> \notin R
    BY <1>3, Zenon
  <2>. QED
    BY <2>1, <2>2
<1>. QED
  BY <1>3, <1>4, Zenon

\* The first free id is the one before which all are used, and there is none when all are.
LEMMA FirstFreeIs ==
  ASSUME NEW used, NEW h \in Nat, NEW z \in 0 .. M!Total, \A j \in 0 .. z - 1 : (h + j) % M!Total \in used,
         M!Total \in Nat
  PROVE  /\ z = M!Total => M!Pool!FirstFree(used, h) = M!Total
         /\ z < M!Total /\ (h + z) % M!Total \notin used => M!Pool!FirstFree(used, h) = (h + z) % M!Total
<1>. DEFINE free == {i \in 0 .. M!Total - 1 : (h + i) % M!Total \notin used}
            first == CHOOSE i \in free : \A j \in free : i <= j
<1>1. M!Pool!FirstFree(used, h) = IF free = {} THEN M!Total ELSE (h + first) % M!Total
  BY DEF M!Pool!FirstFree, M!Pool!Ids, M!Pool!Exhausted
<1>2. CASE z = M!Total
  <2>1. free = {}
    BY <1>2
  <2>. QED
    BY <1>1, <1>2, <2>1
<1>3. CASE z < M!Total /\ (h + z) % M!Total \notin used
  <2>1. z \in free /\ (\A j \in free : z <= j) /\ free \subseteq Int
    <3>1. z \in 0 .. M!Total - 1
      BY <1>3
    <3>2. ASSUME NEW j \in free PROVE z <= j /\ j \in Int
      <4>1. j \in 0 .. M!Total - 1 /\ j \notin 0 .. z - 1
        OBVIOUS
      <4>. QED
        BY <4>1
    <3>. QED
      BY <1>3, <3>1, <3>2
  <2>. HIDE DEF free
  <2>2. first \in free /\ \A j \in free : first <= j
    BY <2>1, Zenon
  <2>. HIDE DEF first
  <2>3. first = z
    BY <2>1, <2>2
  <2>. QED
    BY <1>1, <1>3, <2>1, <2>3
<1>. QED
  BY <1>2, <1>3

------------------------------------------------------------------------------
(* The refinement.                                                         *)

\* What the allocation that runs has tried is used, and of the ids before that of Allocate none is free.
Tried ==
    /\ Bitmap(bits)
    /\ turn \in [op: {"idle", "hash", "scan"}, from: Nat, i: Nat]
    /\ turn.op = "hash" => /\ turn.i <= M!Total /\ \E h \in Hashes : turn.from = h % M!Total
                           /\ \A j \in 0 .. turn.i - 1 : (turn.from + j) % M!Total \in M!Used
    /\ turn.op = "scan" => turn.i < Len(bits) /\ \A z \in 1 .. turn.i : bits[z] = Block

\* Between the calls nothing has been tried.
LEMMA IdleInv == ASSUME Bitmap(bits), turn = M!Idle PROVE Tried
BY DEF Tried, M!Idle

\* The number of ids.
LEMMA TotalNat == ASSUME M!ConstantsOK PROVE M!Total \in Nat \ {0} /\ BlockBits \in Nat \ {0} /\ MaxBlocks \in Nat \ {0}
BY DEF M!ConstantsOK, M!Total

\* New: only id 0 is used.
LEMMA InitPool == ASSUME M!ConstantsOK, M!Init PROVE Tried /\ M!Pool!Init
<1>1. bits = <<{0}>> /\ Len(bits) = 1 /\ bits[1] = {0} /\ given = 0 /\ turn = M!Idle
  BY DEF M!Init
<1>2. Bitmap(bits)
  BY <1>1, TotalNat DEF Bitmap, Block
<1>3. ASSUME NEW i \in 0 .. M!Total - 1
      PROVE  (i \div BlockBits < Len(bits) /\ M!Bit(bits, i)) <=> i = 0
  <2>. DEFINE c == i \div BlockBits
              r == i % BlockBits
  <2>1. c \in Nat /\ r \in Nat /\ i = BlockBits * c + r
    BY InBlock, TotalNat DEF Block
  <2>2. M!Bit(bits, i) <=> r \in bits[c + 1]
    BY DEF M!Bit
  <2>. HIDE DEF c, r
  <2>3. c < 1 /\ r \in bits[c + 1] => i = 0
    BY <1>1, <2>1, TotalNat
  <2>4. i = 0 => c < 1 /\ r \in bits[c + 1]
    <3>1. ASSUME i = 0 PROVE c = 0 /\ r = 0
      <4>1. BlockBits * 0 + 0 = 0 /\ 0 \in 0 .. BlockBits - 1
        BY TotalNat
      <4>2. (BlockBits * 0 + 0) \div BlockBits = 0 /\ (BlockBits * 0 + 0) % BlockBits = 0
        BY <4>1, TotalNat, DivUnique
      <4>. QED
        BY <3>1, <4>1, <4>2 DEF c, r
    <3>. QED
      BY <1>1, <3>1
  <2>. QED
    BY <1>1, <2>2, <2>3, <2>4 DEF c
<1>4. M!Used = {0}
  <2>1. 0 \in 0 .. M!Total - 1
    BY TotalNat
  <2>. QED
    BY <1>3, <2>1, Zenon DEF M!Used
<1>. QED
  BY <1>1, <1>2, <1>4, IdleInv DEF M!Pool!Init

\* A call that returns an id takes it.
LEMMA ReturnUsed ==
  ASSUME M!ConstantsOK, Bitmap(bits), NEW new \in 0 .. M!Total - 1, new \div BlockBits < Len(bits),
         M!Return(M!SetBit(bits, new), new)
  PROVE  Tried' /\ given' = new /\ M!Used' = M!Used \cup {new} /\ new # M!Total
<1>. DEFINE at == new \div BlockBits + 1
            S == bits[at] \cup {new % BlockBits}
<1>1. new % BlockBits \in Block /\ at \in 1 .. Len(bits)
  BY InBlock DEF Bitmap
<1>2. bits[at] \subseteq Block
  BY <1>1 DEF Bitmap
<1>3. bits' = [bits EXCEPT ![at] = S] /\ given' = new /\ turn' = M!Idle
  BY DEF M!Return, M!SetBit
<1>4. S \in SUBSET Block /\ \A r \in Block : r # new % BlockBits => (r \in S <=> r \in bits[at])
  BY <1>1, <1>2
<1>5. /\ Bitmap(bits)' /\ M!Used' \ {new} = M!Used \ {new} /\ (new \in M!Used' <=> new % BlockBits \in S)
  <2>. HIDE DEF S
  <2>. QED
    BY <1>3, <1>4, OneBit, Zenon
<1>6. new % BlockBits \in S
  OBVIOUS
<1>7. M!Used' = M!Used \cup {new}
  BY <1>5, <1>6, Zenon
<1>8. Tried'
  BY <1>3, <1>5 DEF Tried, M!Idle
<1>9. new # M!Total
  BY TotalNat
<1>. QED
  BY <1>3, <1>7, <1>8, <1>9

\* AllocateWithHash: a turn of its loops goes on, or returns the first free id from the hash on.
LEMMA ProbePool ==
  ASSUME M!ConstantsOK, Tried, M!Probe
  PROVE  Tried' /\ (UNCHANGED <<M!Used, given>> \/ \E h \in Hashes : M!Pool!AllocateWithHash(h))
<1>. DEFINE new == (turn.from + turn.i) % M!Total
<1>1. /\ Bitmap(bits) /\ turn.op = "hash" /\ turn.i \in 0 .. M!Total /\ turn.from \in Nat
      /\ turn \in [op: {"idle", "hash", "scan"}, from: Nat, i: Nat]
      /\ \A j \in 0 .. turn.i - 1 : (turn.from + j) % M!Total \in M!Used
  BY TotalNat DEF Tried, M!Probe
<1>2. PICK h \in Hashes : turn.from = h % M!Total
  BY <1>1 DEF Tried
<1>3. h \in Nat /\ M!Total \in Nat \ {0}
  BY TotalNat DEF M!ConstantsOK
<1>4. ASSUME NEW j \in Nat PROVE (turn.from + j) % M!Total = (h + j) % M!Total
  <2>1. ((h % M!Total) + j) % M!Total = (h + j) % M!Total
    BY <1>3, ModSum, Zenon
  <2>. QED
    BY <1>2, <2>1, Zenon
<1>5. \A j \in 0 .. turn.i - 1 : (h + j) % M!Total \in M!Used
  <2>. SUFFICES ASSUME NEW j \in 0 .. turn.i - 1 PROVE (h + j) % M!Total \in M!Used
    OBVIOUS
  <2>1. j \in Nat
    BY <1>1
  <2>. QED
    BY <1>1, <1>4, <2>1, Zenon
<1>6. new \in 0 .. M!Total - 1
  <2>1. turn.from + turn.i \in Nat
    BY <1>1
  <2>. QED
    BY <1>3, <2>1, DivMod, Zenon
<1>. HIDE DEF new
<1>7. CASE turn.i = M!Total /\ M!Return(bits, M!IDMaxLimit)
  <2>1. M!Pool!FirstFree(M!Used, h) = M!Total
    BY <1>1, <1>3, <1>5, <1>7, FirstFreeIs, Zenon
  <2>2. bits' = bits /\ given' = M!Total /\ turn' = M!Idle
    BY <1>7, SMTT(30) DEF M!Return, M!IDMaxLimit
  <2>3. M!Used' = M!Used /\ Tried'
    BY <1>1, <2>2 DEF M!Used, M!Bit, M!Total, Tried, M!Idle, Bitmap, Block
  <2>4. M!Pool!AllocateWithHash(h)
    BY <2>1, <2>2, <2>3 DEF M!Pool!AllocateWithHash, M!Pool!Take, M!Pool!Exhausted
  <2>. QED
    BY <2>3, <2>4
<1>8. CASE /\ turn.i < M!Total /\ ~(new \div BlockBits < Len(bits))
           /\ IF M!grow(bits) = bits THEN M!Return(bits, M!IDMaxLimit) ELSE bits' = M!grow(bits) /\ UNCHANGED <<given, turn>>
  <2>1. new \div BlockBits \in 0 .. MaxBlocks - 1
    BY <1>6, InBlock
  <2>2. Len(bits) # MaxBlocks
    BY <1>1, <1>8, <2>1 DEF Bitmap
  <2>3. bits' = M!grow(bits) /\ UNCHANGED <<given, turn>>
    BY <1>1, <1>8, <2>2, Grown
  <2>4. Bitmap(bits)' /\ M!Used' = M!Used
    BY <1>1, <2>3, Grown, SMTT(30)
  <2>5. Tried'
    BY <1>1, <1>2, <2>3, <2>4 DEF Tried, M!Total
  <2>. QED
    BY <2>3, <2>4, <2>5
<1>9. CASE /\ turn.i < M!Total /\ new \div BlockBits < Len(bits) /\ M!Bit(bits, new)
           /\ turn' = [turn EXCEPT !.i = @ + 1] /\ UNCHANGED <<bits, given>>
  <2>1. new \in M!Used
    BY <1>6, <1>9 DEF M!Used
  <2>2. M!Used' = M!Used /\ Bitmap(bits)'
    BY <1>1, <1>9 DEF M!Used, M!Bit, M!Total, Bitmap, Block
  <2>3. /\ turn'.i = turn.i + 1 /\ turn'.from = turn.from /\ turn'.op = "hash"
        /\ turn' \in [op: {"idle", "hash", "scan"}, from: Nat, i: Nat] /\ turn'.i <= M!Total
    BY <1>1, <1>3, <1>9
  <2>4. ASSUME NEW j \in 0 .. turn'.i - 1 PROVE (turn.from + j) % M!Total \in M!Used
    <3>1. j \in 0 .. turn.i - 1 \/ j = turn.i
      BY <1>1, <2>3, SMTT(30)
    <3>. QED
      BY <1>1, <2>1, <3>1 DEF new
  <2>5. Tried'
    BY <1>2, <2>2, <2>3, <2>4 DEF Tried, M!Total
  <2>. QED
    BY <1>9, <2>2, <2>5
<1>10. CASE /\ turn.i < M!Total /\ new \div BlockBits < Len(bits) /\ ~M!Bit(bits, new)
            /\ M!Return(M!SetBit(bits, new), new)
  <2>1. Tried' /\ given' = new /\ M!Used' = M!Used \cup {new} /\ new # M!Total
    BY <1>1, <1>6, <1>10, ReturnUsed, SMTT(30)
  <2>2. new \notin M!Used /\ new = (h + turn.i) % M!Total
    BY <1>1, <1>4, <1>10 DEF M!Used, new
  <2>3. M!Pool!FirstFree(M!Used, h) = new
    BY <1>1, <1>3, <1>5, <1>10, <2>2, FirstFreeIs, Zenon
  <2>4. M!Pool!AllocateWithHash(h)
    BY <2>1, <2>3 DEF M!Pool!AllocateWithHash, M!Pool!Take, M!Pool!Exhausted
  <2>. QED
    BY <2>1, <2>4
<1>. QED
  BY <1>7, <1>8, <1>9, <1>10, SMTT(30) DEF M!Probe, new
\* The ids of full blocks are used.
LEMMA FullUsed ==
  ASSUME M!ConstantsOK, Bitmap(bits), NEW n \in 0 .. Len(bits), \A z \in 1 .. n : bits[z] = Block,
         NEW j \in 0 .. M!Total - 1, j \div BlockBits < n
  PROVE  j \in M!Used
<1>1. j \div BlockBits \in Nat /\ j % BlockBits \in Block
  BY InBlock
<1>2. j \div BlockBits + 1 \in 1 .. n /\ j \div BlockBits < Len(bits)
  <2>. DEFINE c == j \div BlockBits
  <2>1. c \in Nat /\ c < n /\ Len(bits) \in Nat
    BY <1>1 DEF Bitmap
  <2>. HIDE DEF c
  <2>2. c + 1 \in 1 .. n /\ c < Len(bits)
    BY <2>1
  <2>. QED
    BY <2>2 DEF c
<1>. QED
  BY <1>1, <1>2, Zenon DEF M!Used, M!Bit

\* A number below the number of ids is its own remainder.
LEMMA SmallMod == ASSUME M!ConstantsOK, NEW j \in 0 .. M!Total - 1 PROVE (0 + j) % M!Total = j
<1>1. M!Total \in Nat \ {0} /\ M!Total * 0 + j = 0 + j /\ 0 \in Nat
  BY TotalNat
<1>. QED
  BY <1>1, DivUnique

\* Allocate: a turn of its loop goes on, or returns the lowest id that is free.
LEMMA ScanPool ==
  ASSUME M!ConstantsOK, Tried, M!Scan
  PROVE  Tried' /\ (UNCHANGED <<M!Used, given>> \/ M!Pool!Allocate)
<1>. DEFINE i == turn.i
            clear == (0 .. BlockBits - 1) \ bits[i + 1]
            low == CHOOSE x \in clear : \A y \in clear : x <= y
            new == i * BlockBits + low
            last == i + 1 = Len(bits)
<1>1. /\ Bitmap(bits) /\ turn.op = "scan" /\ i \in Nat /\ i < Len(bits) /\ Len(bits) \in 1 .. MaxBlocks
      /\ turn \in [op: {"idle", "hash", "scan"}, from: Nat, i: Nat]
      /\ \A z \in 1 .. i : bits[z] = Block
  BY DEF Tried, M!Scan, Bitmap
<1>2. i + 1 \in 1 .. Len(bits) /\ bits[i + 1] \subseteq Block
  <2>1. i + 1 \in 1 .. Len(bits) /\ bits \in Seq(SUBSET Block)
    BY <1>1 DEF Bitmap
  <2>. QED
    BY <2>1
<1>3. CASE clear # {} /\ M!Return(M!SetBit(bits, new), new)
  <2>1. low \in clear /\ \A y \in clear : low <= y
    <3>1. clear \in SUBSET Nat
      OBVIOUS
    <3>. HIDE DEF clear
    <3>2. \E x \in clear : \A y \in clear : x <= y
      BY <1>3, <3>1, Least
    <3>. QED
      BY <3>2, Zenon
  <2>2. low \in 0 .. BlockBits - 1 /\ low \notin bits[i + 1]
    BY <2>1
  <2>. HIDE DEF low
  <2>3. new = BlockBits * i + low /\ BlockBits * i \in Nat
    BY <1>1, <2>2, TotalNat, SMTT(30)
  <2>4. new \in Nat /\ new \div BlockBits = i /\ new % BlockBits = low
    <3>1. /\ BlockBits * i + low \in Nat /\ (BlockBits * i + low) \div BlockBits = i
          /\ (BlockBits * i + low) % BlockBits = low
      BY <1>1, <2>2, TotalNat, DivUnique, Zenon
    <3>2. new = BlockBits * i + low
      BY <2>3
    <3>. HIDE DEF new
    <3>. QED
      BY <3>1, <3>2, Zenon
  <2>5. new \in 0 .. M!Total - 1
    <3>1. i < MaxBlocks
      BY <1>1, TotalNat
    <3>2. new < BlockBits * MaxBlocks
      BY <2>4, <3>1, TotalNat, BlockBelow, Zenon
    <3>. QED
      BY <2>4, <3>2, TotalNat DEF M!Total
  <2>. DEFINE n == new
  <2>6. n \in 0 .. M!Total - 1 /\ n \div BlockBits = i /\ n % BlockBits = low /\ M!Return(M!SetBit(bits, n), n)
    BY <1>3, <2>4, <2>5, Zenon
  <2>. HIDE DEF new, n
  <2>7. Tried' /\ given' = n /\ M!Used' = M!Used \cup {n} /\ n # M!Total
    BY <1>1, <2>6, ReturnUsed
  <2>8. n \notin M!Used
    BY <2>2, <2>6, Zenon DEF M!Used, M!Bit
  <2>9. ASSUME NEW j \in 0 .. n - 1 PROVE (0 + j) % M!Total \in M!Used
    <3>1. j \in 0 .. M!Total - 1 /\ j < n /\ j \in Nat
      BY <2>6, TotalNat
    <3>. DEFINE c == j \div BlockBits
                r == j % BlockBits
    <3>2. c \in Nat /\ r \in Block /\ j = BlockBits * c + r
      BY <3>1, InBlock
    <3>3. n = BlockBits * i + low
      BY <2>3 DEF n, new
    <3>. HIDE DEF c, r
    <3>4. c <= i
      <4>1. SUFFICES ASSUME i + 1 <= c PROVE FALSE
        BY <1>1, <3>2
      <4>2. BlockBits * (i + 1) <= BlockBits * c
        BY <1>1, <3>2, <4>1, TotalNat, Monotone, SMTT(30)
      <4>3. BlockBits * (i + 1) = BlockBits * i + BlockBits /\ BlockBits * c \in Nat
        BY <1>1, <3>2, TotalNat, SMTT(30)
      <4>. QED
        BY <2>2, <2>3, <3>1, <3>2, <3>3, <4>2, <4>3, TotalNat, SMTT(30) DEF Block
    <3>5. j \in M!Used
      <4>1. CASE c < i
        <5>1. i \in 0 .. Len(bits) /\ j \div BlockBits < i
          BY <1>1, <4>1 DEF c
        <5>. QED
          BY <1>1, <3>1, <5>1, FullUsed
      <4>2. CASE c = i
        <5>1. r < low /\ r \in 0 .. BlockBits - 1
          BY <2>2, <2>3, <3>1, <3>2, <3>3, <4>2, TotalNat, SMTT(30) DEF Block
        <5>2. r \in bits[i + 1]
          BY <2>1, <2>2, <5>1
        <5>. QED
          BY <1>1, <3>1, <4>2, <5>2, Zenon DEF M!Used, M!Bit, c, r
      <4>. QED
        BY <1>1, <3>2, <3>4, <4>1, <4>2, SMTT(30)
    <3>. QED
      BY <3>1, <3>5, SmallMod, Zenon
  <2>10. M!Pool!FirstFree(M!Used, 0) = n
    <3>1. n \in 0 .. M!Total /\ n < M!Total /\ M!Total \in Nat /\ 0 \in Nat
      BY <2>6, TotalNat
    <3>2. (0 + n) % M!Total = n
      BY <2>6, SmallMod
    <3>. QED
      BY <2>8, <2>9, <3>1, <3>2, FirstFreeIs, Zenon
  <2>11. M!Pool!Allocate
    BY <2>7, <2>10 DEF M!Pool!Allocate, M!Pool!Take, M!Pool!Exhausted
  <2>. QED
    BY <2>7, <2>11
<1>4. ASSUME clear = {} PROVE \A z \in 1 .. i + 1 : bits[z] = Block
  <2>1. bits[i + 1] = Block
    BY <1>2, <1>4, Zenon DEF Block
  <2>2. \A z \in 1 .. i + 1 : z \in 1 .. i \/ z = i + 1
    BY <1>1
  <2>. QED
    BY <1>1, <2>1, <2>2
<1>5. CASE clear = {} /\ last /\ M!grow(bits) = bits /\ M!Return(bits, M!IDMaxLimit)
  <2>1. i + 1 = MaxBlocks /\ MaxBlocks \in 0 .. Len(bits)
    BY <1>1, <1>5, Grown
  <2>2. ASSUME NEW j \in 0 .. M!Total - 1 PROVE (0 + j) % M!Total \in M!Used
    <3>1. j \div BlockBits < MaxBlocks
      BY InBlock, TotalNat, SMTT(30)
    <3>2. j \in M!Used
      BY <1>1, <1>4, <1>5, <2>1, <3>1, FullUsed
    <3>. QED
      BY <3>2, SmallMod
  <2>3. M!Pool!FirstFree(M!Used, 0) = M!Total
    <3>1. M!Total \in 0 .. M!Total /\ M!Total \in Nat /\ 0 \in Nat
      BY TotalNat
    <3>. QED
      BY <2>2, <3>1, FirstFreeIs, Zenon
  <2>4. bits' = bits /\ given' = M!Total /\ turn' = M!Idle
    BY <1>5, SMTT(30) DEF M!Return, M!IDMaxLimit
  <2>5. M!Used' = M!Used /\ Tried'
    BY <1>1, <2>4 DEF M!Used, M!Bit, M!Total, Tried, M!Idle, Bitmap, Block
  <2>6. M!Pool!Allocate
    BY <2>3, <2>4, <2>5 DEF M!Pool!Allocate, M!Pool!Take, M!Pool!Exhausted
  <2>. QED
    BY <2>5, <2>6
<1>6. CASE /\ clear = {} /\ (last => M!grow(bits) # bits)
           /\ bits' = (IF last THEN M!grow(bits) ELSE bits)
           /\ turn' = [turn EXCEPT !.i = @ + 1] /\ UNCHANGED given
  <2>1. /\ turn'.i = i + 1 /\ turn'.op = "scan" /\ turn' \in [op: {"idle", "hash", "scan"}, from: Nat, i: Nat]
    BY <1>1, <1>6
  <2>2. /\ Bitmap(bits)' /\ M!Used' = M!Used /\ i + 1 < Len(bits') /\ \A z \in 1 .. Len(bits) : bits'[z] = bits[z]
    <3>1. CASE last
      <4>1. bits' = M!grow(bits) /\ M!grow(bits) # bits
        BY <1>6, <3>1
      <4>2. /\ Bitmap(bits)' /\ M!Used' = M!Used /\ Len(bits) < Len(bits') /\ \A z \in 1 .. Len(bits) : bits'[z] = bits[z]
        BY <1>1, <4>1, Grown, SMTT(30)
      <4>. QED
        BY <3>1, <4>2
    <3>2. CASE ~last
      <4>1. bits' = bits /\ i + 1 < Len(bits)
        BY <1>1, <1>6, <3>2
      <4>. QED
        BY <1>1, <4>1 DEF M!Used, M!Bit, M!Total, Bitmap, Block
    <3>. QED
      BY <3>1, <3>2
  <2>3. \A z \in 1 .. i + 1 : bits'[z] = Block
    <3>1. \A z \in 1 .. i + 1 : z \in 1 .. Len(bits)
      BY <1>1
    <3>2. \A z \in 1 .. i + 1 : bits[z] = Block
      BY <1>4, <1>6
    <3>. QED
      BY <2>2, <3>1, <3>2
  <2>4. Tried'
    BY <2>1, <2>2, <2>3, SMTT(30) DEF Tried, Block
  <2>. QED
    BY <1>6, <2>2, <2>4
<1>. QED
  BY <1>3, <1>5, <1>6 DEF M!Scan

\* Free gives back the id it is called with, and no other.
LEMMA FreePool ==
  ASSUME M!ConstantsOK, Tried, NEW i \in 1 .. M!Total - 1, M!Free(i)
  PROVE  Tried' /\ M!Pool!Free(i)
<1>. DEFINE at == i \div BlockBits + 1
            S == bits[at] \ {i % BlockBits}
<1>1. Bitmap(bits) /\ i \in 0 .. M!Total - 1 /\ i # 0
  BY DEF Tried
<1>2. i % BlockBits \in Block /\ i \div BlockBits < Len(bits) /\ at \in 1 .. Len(bits) /\ bits[at] \subseteq Block
  <2>1. i % BlockBits \in Block /\ i \div BlockBits < Len(bits) /\ at \in 1 .. Len(bits)
    BY <1>1, InBlock DEF M!Free, Bitmap
  <2>. QED
    BY <1>1, <2>1 DEF Bitmap
<1>3. bits' = [bits EXCEPT ![at] = S] /\ UNCHANGED <<given, turn>> /\ turn = M!Idle
  BY DEF M!Free
<1>4. S \in SUBSET Block /\ \A r \in Block : r # i % BlockBits => (r \in S <=> r \in bits[at])
  BY <1>2
<1>5. Bitmap(bits)' /\ M!Used' \ {i} = M!Used \ {i} /\ (i \in M!Used' <=> i % BlockBits \in S)
  <2>. HIDE DEF S
  <2>. QED
    BY <1>1, <1>2, <1>3, <1>4, OneBit, Zenon
<1>6. i \in M!Used
  BY <1>1, <1>2 DEF M!Free, M!Used
<1>7. M!Used' = M!Used \ {i}
  BY <1>5
<1>. QED
  BY <1>1, <1>3, <1>5, <1>6, <1>7, SMTT(30) DEF Tried, M!Idle, M!Pool!Free

\* Every step of the bitmap is a step of the set of ids, or leaves it and the last result alone.
LEMMA StepPool ==
  ASSUME M!ConstantsOK, Tried, [M!Next]_M!vars
  PROVE  Tried' /\ [M!Pool!Next]_<<M!Used, given>>
<1>1. ASSUME NEW h \in Hashes, M!AllocateWithHash(h) PROVE Tried' /\ UNCHANGED <<M!Used, given>>
  <2>1. h \in Nat /\ M!Total \in Nat \ {0}
    BY TotalNat DEF M!ConstantsOK
  <2>2. h % M!Total \in Nat
    <3>1. h % M!Total \in 0 .. M!Total - 1
      BY <2>1, DivMod
    <3>. QED
      BY <2>1, <3>1
  <2>3. turn' = [op |-> "hash", from |-> h % M!Total, i |-> 0] /\ bits' = bits /\ given' = given
    BY <1>1, SMTT(30) DEF M!AllocateWithHash
  <2>. QED
    BY <2>1, <2>2, <2>3 DEF Tried, M!Used, M!Bit, M!Total, Bitmap, Block
<1>2. ASSUME M!Allocate PROVE Tried' /\ UNCHANGED <<M!Used, given>>
  BY <1>2 DEF M!Allocate, Tried, M!Used, M!Bit, M!Total, Bitmap, Block
<1>3. CASE M!Probe
  BY <1>3, ProbePool, Zenon DEF M!Pool!Next
<1>4. CASE M!Scan
  BY <1>4, ScanPool, Zenon DEF M!Pool!Next
<1>5. ASSUME NEW i \in 1 .. M!Total - 1, M!Free(i) PROVE Tried' /\ M!Pool!Next
  <2>1. Tried' /\ M!Pool!Free(i)
    BY <1>5, FreePool
  <2>2. i \in M!Pool!Ids
    BY SMTT(30) DEF M!Pool!Ids
  <2>. QED
    BY <2>1, <2>2 DEF M!Pool!Next
<1>6. CASE UNCHANGED M!vars
  BY <1>6 DEF M!vars, Tried, M!Used, M!Bit, M!Total, Bitmap, Block
<1>. QED
  BY <1>1, <1>2, <1>3, <1>4, <1>5, <1>6, SMTT(30) DEF M!Next

\* The bitmap implements the set of ids: whatever the size of a block and the number of
\* blocks, growing, the last block, the wrap-around and the full bitmap make no difference to
\* which id is handed out, and an allocation fails only when every id is in use.
THEOREM BitmapIsIdPool == ASSUME M!ConstantsOK PROVE M!Spec => M!IsIdPool
<1>1. M!Init => Tried /\ M!Pool!Init
  BY InitPool
<1>2. Tried /\ [M!Next]_M!vars => Tried' /\ [M!Pool!Next]_<<M!Used, given>>
  BY StepPool
<1>. QED
  BY <1>1, <1>2, PTL DEF M!Spec, M!IsIdPool, M!Pool!Spec
===============================================================================
