--------------------------- MODULE KeepalivedProofs ----------------------------
(***************************************************************************)
(* The VIP speaker keeps its books, for every set of nodes, addresses and  *)
(* interfaces, every number of ids and every hash: an address is in one    *)
(* instance, ids are neither given twice nor lost, calls do what the       *)
(* manager relies on (Speaker), and the process serves what was asked for. *)
(***************************************************************************)
EXTENDS Keepalived, NaturalsInduction, WellFoundedInduction, TLAPS

Books == [configs: [Eips -> Ifaces \cup {Nil}], vips: [Addrs -> Names \cup {Nil}],
          svcips: [Names -> [Addrs -> Nat]], routeid: [Names -> P!Ids \cup {Nil}], ids: SUBSET P!Ids]

\* OneInstance and RouterIds, said of any books b.
InOne(b) ==
    /\ \A n \in Names, a \in Addrs :
         b.svcips[n][a] \in {0, 1} /\ (b.svcips[n][a] = 1 => b.vips[a] = n)
    /\ \A n \in Names : b.routeid[n] # Nil <=> \E a \in Addrs : b.svcips[n][a] = 1

IdsKept(b) ==
    /\ b.ids = {0} \cup {b.routeid[n] : n \in {m \in Names : b.routeid[m] # Nil}}
    /\ \A m, n \in Names : b.routeid[m] = b.routeid[n] /\ m # n => b.routeid[m] = Nil
    /\ \A n \in Names : b.routeid[n] \in {Nil} \cup (P!Ids \ {0})

Good(b) == b \in Books /\ InOne(b) /\ IdsKept(b)

Inv == Good(k) /\ call \in [Callers -> Addrs \cup {Nil}]

------------------------------------------------------------------------------
(* The id that is handed out.                                              *)

\* A set of numbers that is not empty has a least element.
LEMMA Least ==
  ASSUME NEW S \in SUBSET Nat, S # {}
  PROVE  \E i \in S : \A j \in S : i <= j
<1>. DEFINE R == {ss \in Nat \X Nat : ss[1] < ss[2]}
<1>1. IsWellFoundedOn(R, Nat)
  BY NatLessThanWellFounded, Zenon DEF OpToRel
<1>2. \E x \in S : \A y \in S : ~(<<y, x>> \in R)
  BY <1>1, WFMin, Zenon
<1>3. PICK i \in S : \A j \in S : ~(<<j, i>> \in R)
  BY <1>2, Zenon
<1>4. ASSUME NEW j \in S PROVE i <= j
  <2>1. i \in Nat /\ j \in Nat
    OBVIOUS
  <2>2. <<j, i>> \notin R
    BY <1>3, Zenon
  <2>. QED
    BY <2>1, <2>2
<1>. QED
  BY <1>3, <1>4, Zenon

\* AllocateWithHash: an id that is handed out is an id, and was free.
LEMMA FirstFreeIsFree ==
  ASSUME ConstantsOK, NEW used \in SUBSET P!Ids, NEW h \in Nat,
         P!FirstFree(used, h) # P!Exhausted
  PROVE  P!FirstFree(used, h) \in P!Ids \ used
<1>. DEFINE free == {i \in P!Ids : (h + i) % NumIDs \notin used}
            least == CHOOSE i \in free : \A j \in free : i <= j
<1>1. NumIDs \in Nat \ {0}
  BY DEF ConstantsOK
<1>2. free # {}
  BY DEF P!FirstFree
<1>3. free \in SUBSET Nat
  BY <1>1 DEF P!Ids
<1>4. \E i \in free : \A j \in free : i <= j
  BY <1>2, <1>3, Least, Zenon
<1>5. least \in free
  BY <1>4, Zenon
<1>6. P!FirstFree(used, h) = (h + least) % NumIDs
  BY <1>2 DEF P!FirstFree
<1>7. least \in Nat /\ (h + least) % NumIDs \notin used
  BY <1>3, <1>5, Zenon
<1>. HIDE DEF least, free
<1>8. (h + least) % NumIDs \in P!Ids
  BY <1>1, <1>7 DEF P!Ids
<1>. QED
  BY <1>6, <1>7, <1>8

------------------------------------------------------------------------------
(* cleanRecord and AddRecord.                                              *)

\* c are the books b without address a.
Without(b, c, a) ==
    /\ \A x \in Addrs : x # a => c.vips[x] = b.vips[x]
    /\ \A n \in Names, x \in Addrs : c.svcips[n][x] = IF x = a THEN 0 ELSE b.svcips[n][x]

\* cleanRecord: an address that is not in the instance vips names is in none.
LEMMA CleanNothing ==
  ASSUME ConstantsOK, NEW b, Good(b), NEW a \in Addrs,
         b.vips[a] = Nil \/ b.routeid[b.vips[a]] = Nil
  PROVE  Without(b, b, a)
<1>1. ASSUME NEW n \in Names PROVE b.svcips[n][a] = 0
  <2>1. b.svcips[n][a] \in {0, 1} /\ (b.svcips[n][a] = 1 => b.vips[a] = n)
    BY DEF Good, InOne
  <2>2. b.svcips[n][a] = 1 => b.routeid[n] # Nil
    BY DEF Good, InOne
  <2>3. Nil # n
    BY DEF ConstantsOK
  <2>. QED
    BY <2>1, <2>2, <2>3
<1>. QED
  BY <1>1 DEF Without

\* cleanRecord takes the address out of its instance, and the id back with the last one.
LEMMA CleanGood ==
  ASSUME ConstantsOK, NEW b, Good(b), NEW a \in Addrs
  PROVE  Good(cleanRecord(b, a, b.vips[a])) /\ Without(b, cleanRecord(b, a, b.vips[a]), a)
<1>. DEFINE v == b.vips[a]
            c == cleanRecord(b, a, v)
<1>1. CASE v = Nil \/ b.routeid[v] = Nil
  <2>1. c = b
    BY <1>1 DEF cleanRecord
  <2>2. Without(b, b, a)
    BY <1>1, CleanNothing
  <2>. QED
    BY <2>1, <2>2, SMTT(30)
<1>2. CASE v # Nil /\ b.routeid[v] # Nil
  <2>. DEFINE ips == [b.svcips[v] EXCEPT ![a] = IF @ > 0 THEN @ - 1 ELSE 0]
              empty == \A x \in Addrs : ips[x] = 0
  <2>1. b \in Books /\ v \in Names
    BY <1>2 DEF Good, Books
  <2>2. c = [b EXCEPT !.svcips[v] = ips, !.routeid[v] = IF empty THEN Nil ELSE @,
                      !.ids = IF empty THEN @ \ {b.routeid[v]} ELSE @]
    BY <1>2, Zenon DEF cleanRecord
  <2>3. b.svcips[v] \in [Addrs -> Nat] /\ b.svcips[v][a] \in {0, 1}
    BY <2>1, SMTT(30) DEF Books, Good, InOne
  <2>4. ips \in [Addrs -> Nat] /\ \A x \in Addrs : ips[x] = IF x = a THEN 0 ELSE b.svcips[v][x]
    BY <2>3
  <2>. HIDE DEF ips
  <2>5. /\ c.configs = b.configs /\ c.vips = b.vips
        /\ c.svcips = [b.svcips EXCEPT ![v] = ips]
        /\ c.routeid = [b.routeid EXCEPT ![v] = IF empty THEN Nil ELSE @]
        /\ c.ids = IF empty THEN b.ids \ {b.routeid[v]} ELSE b.ids
    BY <2>1, <2>2, SMTT(30) DEF Books
  <2>6. c \in Books
    <3>1. /\ [b.svcips EXCEPT ![v] = ips] \in [Names -> [Addrs -> Nat]]
          /\ [b.routeid EXCEPT ![v] = IF empty THEN Nil ELSE @] \in [Names -> P!Ids \cup {Nil}]
          /\ (IF empty THEN b.ids \ {b.routeid[v]} ELSE b.ids) \in SUBSET P!Ids
      BY <2>1, <2>4 DEF Books
    <3>. QED
      BY <2>1, <2>2, <3>1, Zenon DEF Books
  <2>7. ASSUME NEW n \in Names, NEW x \in Addrs, x # a PROVE c.svcips[n][x] = b.svcips[n][x]
    BY <2>1, <2>4, <2>5, <2>7 DEF Books
  <2>8. ASSUME NEW n \in Names PROVE c.svcips[n][a] = 0
    <3>1. n # v => c.svcips[n][a] = b.svcips[n][a]
      BY <2>1, <2>5 DEF Books
    <3>2. n # v => b.svcips[n][a] = 0
      BY DEF Good, InOne
    <3>3. n = v => c.svcips[n][a] = 0
      BY <2>1, <2>4, <2>5 DEF Books
    <3>. QED
      BY <3>1, <3>2, <3>3
  <2>9. Without(b, c, a)
    BY <2>5, <2>7, <2>8 DEF Without
  <2>10. /\ \A n \in Names : n # v => c.routeid[n] = b.routeid[n]
         /\ c.routeid[v] = IF empty THEN Nil ELSE b.routeid[v]
    BY <2>1, <2>5 DEF Books
  <2>11. empty <=> ~ \E x \in Addrs : c.svcips[v][x] = 1
    BY <2>1, <2>4, <2>5 DEF Good, InOne, Books
  <2>. HIDE DEF empty, c
  <2>12. InOne(c)
    <3>1. ASSUME NEW n \in Names, NEW x \in Addrs
          PROVE  c.svcips[n][x] \in {0, 1} /\ (c.svcips[n][x] = 1 => c.vips[x] = n)
      BY <2>5, <2>7, <2>8 DEF Good, InOne
    <3>2. ASSUME NEW n \in Names PROVE c.routeid[n] # Nil <=> \E x \in Addrs : c.svcips[n][x] = 1
      <4>1. CASE n = v
        BY <1>2, <2>10, <2>11, <4>1
      <4>2. CASE n # v
        <5>1. \A x \in Addrs : c.svcips[n][x] = b.svcips[n][x]
          BY <4>2, <2>7, <2>8 DEF Good, InOne
        <5>. QED
          BY <4>2, <5>1, <2>10 DEF Good, InOne
      <4>. QED
        BY <4>1, <4>2
    <3>. QED
      BY <3>1, <3>2 DEF InOne
  <2>13. IdsKept(c)
    <3>1. \A m, n \in Names : c.routeid[m] = c.routeid[n] /\ m # n => c.routeid[m] = Nil
      BY <2>1, <2>10 DEF Good, IdsKept
    <3>2. \A n \in Names : c.routeid[n] \in {Nil} \cup (P!Ids \ {0})
      BY <2>1, <2>10, SMTT(30) DEF Good, IdsKept
    <3>3. c.ids = {0} \cup {c.routeid[n] : n \in {m \in Names : c.routeid[m] # Nil}}
      BY <1>2, <2>1, <2>5, <2>10 DEF Good, IdsKept
    <3>. QED
      BY <3>1, <3>2, <3>3 DEF IdsKept
  <2>. QED
    BY <2>6, <2>9, <2>12, <2>13 DEF Good, c
<1>. QED
  BY <1>1, <1>2

\* c are the books b with address a in instance n.
With(b, c, a, n) ==
    /\ c.vips = [b.vips EXCEPT ![a] = n]
    /\ \A m \in Names, x \in Addrs :
         c.svcips[m][x] = IF x = a /\ m = n THEN 1 ELSE b.svcips[m][x]

\* SetBalancer: the id of the instance, or one that was free, keeps the books good.
LEMMA AddGood ==
  ASSUME ConstantsOK, NEW b, Good(b), NEW a \in Addrs, NEW n \in Names, NEW id \in P!Ids \ {0},
         \A m \in Names : b.svcips[m][a] = 0,
         b.routeid[n] # Nil => id = b.routeid[n],
         b.routeid[n] = Nil => id \notin b.ids
  PROVE  Good(AddRecord(b, a, n, id)) /\ With(b, AddRecord(b, a, n, id), a, n)
<1>. DEFINE c == AddRecord(b, a, n, id)
<1>1. b \in Books
  BY DEF Good
<1>2. /\ c.configs = b.configs
      /\ c.vips = [b.vips EXCEPT ![a] = n]
      /\ c.svcips = [b.svcips EXCEPT ![n][a] = @ + 1]
      /\ c.routeid = [b.routeid EXCEPT ![n] = id]
      /\ c.ids = b.ids \cup {id}
  BY <1>1 DEF AddRecord, Books
<1>3. c \in Books
  <2>1. /\ [b.vips EXCEPT ![a] = n] \in [Addrs -> Names \cup {Nil}]
        /\ [b.svcips EXCEPT ![n][a] = @ + 1] \in [Names -> [Addrs -> Nat]]
        /\ [b.routeid EXCEPT ![n] = id] \in [Names -> P!Ids \cup {Nil}]
        /\ b.ids \cup {id} \in SUBSET P!Ids
    BY <1>1 DEF Books
  <2>. QED
    BY <1>1, <2>1, Zenon DEF Books, AddRecord
<1>4. id \in Nat /\ id # Nil /\ Nil \notin P!Ids
  BY DEF ConstantsOK, P!Ids
<1>5. ASSUME NEW m \in Names, NEW x \in Addrs
      PROVE  c.svcips[m][x] = IF x = a /\ m = n THEN 1 ELSE b.svcips[m][x]
  <2>1. b.svcips[n] \in [Addrs -> Nat] /\ b.svcips \in [Names -> [Addrs -> Nat]]
    BY <1>1 DEF Books
  <2>2. b.svcips[n][a] = 0
    OBVIOUS
  <2>. QED
    BY <1>2, <2>1, <2>2
<1>6. \A m \in Names : c.routeid[m] = IF m = n THEN id ELSE b.routeid[m]
  BY <1>1, <1>2 DEF Books
<1>7. \A x \in Addrs : c.vips[x] = IF x = a THEN n ELSE b.vips[x]
  BY <1>1, <1>2 DEF Books
<1>8. With(b, c, a, n)
  BY <1>2, <1>5 DEF With
<1>. HIDE DEF c
<1>9. InOne(c)
  <2>1. ASSUME NEW m \in Names, NEW x \in Addrs
        PROVE  c.svcips[m][x] \in {0, 1} /\ (c.svcips[m][x] = 1 => c.vips[x] = m)
    <3>1. b.svcips[m][x] \in {0, 1} /\ (b.svcips[m][x] = 1 => b.vips[x] = m)
      BY DEF Good, InOne
    <3>. QED
      BY <1>5, <1>7, <3>1
  <2>2. ASSUME NEW m \in Names PROVE c.routeid[m] # Nil <=> \E x \in Addrs : c.svcips[m][x] = 1
    <3>1. CASE m = n
      BY <1>4, <1>5, <1>6, <3>1
    <3>2. CASE m # n
      <4>1. \A x \in Addrs : c.svcips[m][x] = b.svcips[m][x]
        BY <1>5, <3>2
      <4>2. c.routeid[m] = b.routeid[m]
        BY <1>6, <3>2
      <4>. QED
        BY <4>1, <4>2 DEF Good, InOne
    <3>. QED
      BY <3>1, <3>2
  <2>. QED
    BY <2>1, <2>2 DEF InOne
<1>10. IdsKept(c)
  <2>1. IdsKept(b)
    BY DEF Good
  <2>2. ASSUME NEW m \in Names, b.routeid[m] # Nil PROVE b.routeid[m] \in b.ids
    BY <2>1, <2>2 DEF IdsKept
  <2>3. \A l, m \in Names : c.routeid[l] = c.routeid[m] /\ l # m => c.routeid[l] = Nil
    <3>1. ASSUME NEW m \in Names, m # n PROVE b.routeid[m] # id
      BY <1>4, <2>1, <2>2, <3>1 DEF IdsKept
    <3>. QED
      BY <1>6, <2>1, <3>1 DEF IdsKept
  <2>4. \A m \in Names : c.routeid[m] \in {Nil} \cup (P!Ids \ {0})
    BY <1>6, <2>1 DEF IdsKept
  <2>5. c.ids = {0} \cup {c.routeid[m] : m \in {l \in Names : c.routeid[l] # Nil}}
    BY <1>2, <1>4, <1>6, <2>1, SMTT(30) DEF IdsKept
  <2>. QED
    BY <2>3, <2>4, <2>5 DEF IdsKept
<1>. QED
  BY <1>3, <1>8, <1>9, <1>10 DEF Good, c

------------------------------------------------------------------------------
(* Every step keeps the books good.                                        *)

\* What a call of c about address a may do to the books and to the caller.
Moved(c, a, n) ==
    /\ \E b : Good(b) /\ Without(k, b, a) /\ With(b, k', a, n)
    /\ call' \in {call, [call EXCEPT ![c] = a]}

Removed(c, a) == Without(k, k', a) /\ call' \in {call, [call EXCEPT ![c] = a]}

\* SetBalancer: the address is as it was, is gone, or is in the instance of the nodes.
LEMMA SetBalancerGood ==
  ASSUME ConstantsOK, Inv, NEW c \in Callers, NEW a \in Addrs, NEW ns \in (SUBSET Nodes) \ {{}},
         SetBalancer(c, a, ns)
  PROVE  /\ Good(k')
         /\ \/ k' = k /\ UNCHANGED <<asked, call, cfg>>
            \/ Removed(c, a) /\ asked' = [asked EXCEPT ![a] = Nil] /\ UNCHANGED <<call, cfg>>
            \/ (\E iface \in Ifaces : Moved(c, a, <<ns, iface>>)) /\ WriteCfg(c, a, ns)
<1>. DEFINE iface == k.configs[PoolOf[a]]
            clean == cleanRecord(k, a, k.vips[a])
            n == <<ns, iface>>
            id == IF clean.routeid[n] # Nil THEN clean.routeid[n] ELSE P!FirstFree(clean.ids, Hash[ns])
<1>1. Good(clean) /\ Without(k, clean, a)
  BY CleanGood DEF Inv
<1>. HIDE DEF clean
<1>2. CASE iface = Nil /\ UNCHANGED <<k, asked, call, cfg, faults>>
  BY <1>2 DEF Inv
<1>3. CASE k' = clean /\ asked' = [asked EXCEPT ![a] = Nil] /\ UNCHANGED <<call, cfg>>
  BY <1>1, <1>3, SMTT(30) DEF Removed
<1>4. CASE iface # Nil /\ id # P!Exhausted /\ k' = AddRecord(clean, a, n, id) /\ WriteCfg(c, a, ns)
  <2>1. iface \in Ifaces
    <3>1. k.configs \in [Eips -> Ifaces \cup {Nil}] /\ PoolOf[a] \in Eips
      BY DEF Inv, Good, Books, ConstantsOK
    <3>. QED
      BY <3>1, <1>4
  <2>2. n \in Names
    BY <2>1 DEF Names
  <2>3. clean.ids \in SUBSET P!Ids /\ clean.routeid \in [Names -> P!Ids \cup {Nil}] /\ 0 \in clean.ids
    BY <1>1 DEF Good, Books, IdsKept
  <2>4. Hash[ns] \in Nat
    BY DEF ConstantsOK
  <2>6. clean.routeid[n] = Nil => id \in P!Ids \ clean.ids
    BY <1>4, <2>3, <2>4, FirstFreeIsFree, SMTT(30)
  <2>7. clean.routeid[n] # Nil => id \in P!Ids \ {0} /\ id = clean.routeid[n]
    BY <1>1, <2>2, <2>3, SMTT(30) DEF Good, IdsKept
  <2>8. id \in P!Ids \ {0}
    BY <2>3, <2>6, <2>7
  <2>9. \A m \in Names : clean.svcips[m][a] = 0
    BY <1>1 DEF Without
  <2>. HIDE DEF id, n
  <2>10. Good(AddRecord(clean, a, n, id)) /\ With(clean, AddRecord(clean, a, n, id), a, n)
    BY <1>1, <2>2, <2>6, <2>7, <2>8, <2>9, AddGood, SMTT(30)
  <2>11. call' \in {call, [call EXCEPT ![c] = a]}
    BY <1>4, SMTT(30) DEF WriteCfg
  <2>12. Moved(c, a, n)
    BY <1>1, <1>4, <2>10, <2>11 DEF Moved
  <2>. QED
    BY <1>4, <2>1, <2>10, <2>12, SMTT(30) DEF n
<1>. QED
  BY <1>2, <1>3, <1>4 DEF SetBalancer, clean

\* DelBalancer: an address that is in no instance may lose its entry in vips.
LEMMA ForgetGood ==
  ASSUME ConstantsOK, NEW b, Good(b), NEW a \in Addrs, \A m \in Names : b.svcips[m][a] = 0
  PROVE  Good([b EXCEPT !.vips[a] = Nil]) /\ Without(b, [b EXCEPT !.vips[a] = Nil], a)
<1>. DEFINE c == [b EXCEPT !.vips[a] = Nil]
<1>1. b \in Books
  BY DEF Good
<1>2. /\ c.vips = [b.vips EXCEPT ![a] = Nil]
      /\ c.svcips = b.svcips /\ c.routeid = b.routeid /\ c.ids = b.ids
  BY <1>1 DEF Books
<1>3. c \in Books
  <2>1. [b.vips EXCEPT ![a] = Nil] \in [Addrs -> Names \cup {Nil}]
    BY <1>1 DEF Books
  <2>. QED
    BY <1>1, <2>1, Zenon DEF Books
<1>4. \A x \in Addrs : x # a => c.vips[x] = b.vips[x]
  BY <1>1, <1>2 DEF Books
<1>. HIDE DEF c
<1>5. InOne(c)
  <2>1. ASSUME NEW n \in Names, NEW x \in Addrs
        PROVE  c.svcips[n][x] \in {0, 1} /\ (c.svcips[n][x] = 1 => c.vips[x] = n)
    BY <1>2, <1>4 DEF Good, InOne
  <2>. QED
    BY <1>2, <2>1 DEF Good, InOne
<1>6. IdsKept(c)
  BY <1>2 DEF Good, IdsKept
<1>7. Without(b, c, a)
  BY <1>2, <1>4, SMTT(30) DEF Without
<1>. QED
  BY <1>3, <1>5, <1>6, <1>7 DEF Good, c

\* DelBalancer: the address is gone, whether the file could be written or not.
LEMMA DelBalancerGood ==
  ASSUME ConstantsOK, Inv, NEW c \in Callers, NEW a \in Addrs, DelBalancer(c, a)
  PROVE  /\ Good(k') /\ Removed(c, a)
         /\ WriteCfg(c, a, {}) \/ (k'.svcips = k.svcips /\ UNCHANGED <<asked, call, cfg>>)
<1>. DEFINE n == k.vips[a]
            clean == cleanRecord(k, a, n)
<1>1. CASE n = Nil \/ k.routeid[n] = Nil
  <2>1. k' = [k EXCEPT !.vips[a] = Nil] /\ UNCHANGED <<asked, call, cfg>>
    BY <1>1 DEF DelBalancer
  <2>2. Without(k, k, a)
    BY <1>1, CleanNothing DEF Inv
  <2>3. \A m \in Names : k.svcips[m][a] = 0
    BY <2>2 DEF Without
  <2>4. k'.svcips = k.svcips
    BY <2>1 DEF Inv, Good, Books
  <2>. QED
    BY <2>1, <2>3, <2>4, ForgetGood DEF Inv, Removed
<1>2. CASE ~(n = Nil \/ k.routeid[n] = Nil)
  <2>1. k' = [clean EXCEPT !.vips[a] = Nil] /\ WriteCfg(c, a, {})
    BY <1>2 DEF DelBalancer
  <2>2. Good(clean) /\ Without(k, clean, a)
    BY CleanGood DEF Inv
  <2>. HIDE DEF clean
  <2>3. \A m \in Names : clean.svcips[m][a] = 0
    BY <2>2 DEF Without
  <2>4. Good(k') /\ Without(clean, k', a)
    BY <2>1, <2>2, <2>3, ForgetGood
  <2>5. Without(k, k', a)
    BY <2>2, <2>4 DEF Without
  <2>6. call' \in {call, [call EXCEPT ![c] = a]}
    BY <2>1 DEF WriteCfg
  <2>. QED
    BY <2>1, <2>4, <2>5, <2>6 DEF Removed
<1>. QED
  BY <1>1, <1>2

\* ConfigureWithEIP changes neither instances nor ids.
LEMMA ConfigureGood ==
  ASSUME Inv, NEW c \in Callers, NEW e \in Eips, NEW iface \in Ifaces \cup {Nil},
         ConfigureWithEIP(c, e, iface)
  PROVE  Good(k') /\ k'.vips = k.vips /\ k'.svcips = k.svcips /\ call' = call
<1>1. k \in Books /\ k' = [k EXCEPT !.configs[e] = iface] /\ call' = call
  BY DEF Inv, Good, ConfigureWithEIP
<1>2. k'.vips = k.vips /\ k'.svcips = k.svcips /\ k'.routeid = k.routeid /\ k'.ids = k.ids
  BY <1>1 DEF Books
<1>3. k' \in Books
  <2>1. [k.configs EXCEPT ![e] = iface] \in [Eips -> Ifaces \cup {Nil}]
    BY <1>1, SMTT(30) DEF Books
  <2>. QED
    BY <1>1, <2>1, Zenon DEF Books
<1>4. InOne(k') /\ IdsKept(k')
  BY <1>2 DEF Inv, Good, InOne, IdsKept
<1>. QED
  BY <1>1, <1>2, <1>3, <1>4 DEF Good

\* An empty set of books is good.
LEMMA InitGood == ASSUME ConstantsOK, Init PROVE Inv
<1>1. 0 \in P!Ids
  BY DEF ConstantsOK, P!Ids
<1>2. New \in Books
  BY <1>1 DEF New, Books
<1>3. InOne(New)
  BY DEF New, InOne
<1>4. IdsKept(New)
  BY DEF New, IdsKept
<1>. QED
  BY <1>2, <1>3, <1>4 DEF Good, Inv, Init

\* Steps of the process and of waiting calls leave the books alone.
LEMMA SystemGood ==
  ASSUME Inv, System \/ Crash \/ Stop
  PROVE  k' = k /\ (call' = call \/ \E c \in Callers : call[c] # Nil /\ call' = [call EXCEPT ![c] = Nil])
BY Zenon DEF System, Crash, Stop, Reload, Start, Boot, ReadAgain, Restart, ProcessStep

\* Every step keeps the books good.
LEMMA NextGood == ASSUME ConstantsOK, Inv, [Next]_vars PROVE Inv'
<1>. SUFFICES ASSUME Next PROVE Inv'
  BY DEF vars, Inv, Good, InOne, IdsKept
<1>1. call \in [Callers -> Addrs \cup {Nil}]
  BY DEF Inv
<1>2. ASSUME NEW c \in Callers, NEW a \in Addrs, call' \in {call, [call EXCEPT ![c] = a]}
      PROVE  call' \in [Callers -> Addrs \cup {Nil}]
  BY <1>1, <1>2
<1>3. ASSUME NEW c \in Callers, NEW a \in Addrs, NEW ns \in (SUBSET Nodes) \ {{}}, SetBalancer(c, a, ns)
      PROVE  Inv'
  BY <1>1, <1>2, <1>3, SetBalancerGood, Zenon DEF Inv, Moved, Removed
<1>4. ASSUME NEW c \in Callers, NEW a \in Addrs, DelBalancer(c, a) PROVE Inv'
  BY <1>1, <1>2, <1>4, DelBalancerGood DEF Inv, Removed
<1>5. ASSUME NEW c \in Callers, NEW e \in Eips, NEW iface \in Ifaces \cup {Nil}, ConfigureWithEIP(c, e, iface)
      PROVE  Inv'
  BY <1>1, <1>5, ConfigureGood DEF Inv
<1>6. CASE System \/ Crash \/ Stop
  <2>1. k' = k /\ call' \in [Callers -> Addrs \cup {Nil}]
    BY <1>1, <1>6, SystemGood
  <2>. QED
    BY <2>1 DEF Inv
<1>. QED
  BY <1>3, <1>4, <1>5, <1>6, SMTT(30) DEF Next, CallStep

\* The books are good in every state.
THEOREM KeepalivedGood == ASSUME ConstantsOK PROVE Spec => []Inv
<1>1. Init => Inv
  BY InitGood
<1>2. Inv /\ [Next]_vars => Inv'
  BY NextGood
<1>. QED
  BY <1>1, <1>2, PTL DEF Spec

\* cleanRecord and SetBalancer: an address is in the one instance that vips names,
\* and there is no instance without address.
THEOREM KeepalivedOneInstance == ASSUME ConstantsOK PROVE Spec => []OneInstance
<1>1. Inv => OneInstance
  BY DEF Inv, Good, InOne, OneInstance
<1>. QED
  BY <1>1, KeepalivedGood, PTL

\* AllocateWithHash and Free: router ids are neither given twice nor lost.
THEOREM KeepalivedRouterIds == ASSUME ConstantsOK PROVE Spec => []RouterIds
<1>1. Inv => RouterIds
  BY DEF Inv, Good, IdsKept, RouterIds
<1>. QED
  BY <1>1, KeepalivedGood, PTL

------------------------------------------------------------------------------
(* The refinement of Speaker.                                              *)

\* What the books b announce, as Abstract reads them.
AnnouncedBy(b) ==
    [a \in Addrs |-> IF {n \in Names : b.svcips[n][a] > 0} = {} THEN {} ELSE b.vips[a][1]]

Waiting == {c \in Callers : call[c] # Nil}

\* An address that is in no instance is not announced, and the others are as before.
LEMMA WithoutAnnounced ==
  ASSUME NEW b, NEW c, NEW a \in Addrs, Without(b, c, a)
  PROVE  AnnouncedBy(c) = [AnnouncedBy(b) EXCEPT ![a] = {}]
<1>1. \A n \in Names : c.svcips[n][a] = 0
  BY DEF Without
<1>2. ASSUME NEW x \in Addrs, x # a
      PROVE  /\ {n \in Names : c.svcips[n][x] > 0} = {n \in Names : b.svcips[n][x] > 0}
             /\ c.vips[x] = b.vips[x]
  BY <1>2 DEF Without
<1>3. {n \in Names : c.svcips[n][a] > 0} = {}
  BY <1>1
<1>. QED
  BY <1>2, <1>3, Zenon DEF AnnouncedBy

\* An address that is put into an instance is announced by its nodes.
LEMMA WithAnnounced ==
  ASSUME NEW b, Good(b), NEW c, NEW a \in Addrs, NEW n \in Names, With(b, c, a, n)
  PROVE  AnnouncedBy(c) = [AnnouncedBy(b) EXCEPT ![a] = n[1]]
<1>1. \A x \in Addrs : c.vips[x] = IF x = a THEN n ELSE b.vips[x]
  BY DEF With, Good, Books
<1>2. {m \in Names : c.svcips[m][a] > 0} # {}
  <2>1. c.svcips[n][a] = 1
    BY DEF With
  <2>. QED
    BY <2>1
<1>3. ASSUME NEW x \in Addrs, x # a
      PROVE  {m \in Names : c.svcips[m][x] > 0} = {m \in Names : b.svcips[m][x] > 0}
  BY <1>3 DEF With
<1>. QED
  BY <1>1, <1>2, <1>3, Zenon DEF AnnouncedBy

\* A caller waits after a call whose address is not Nil.
LEMMA CallWaits ==
  ASSUME ConstantsOK, Inv, NEW c \in Callers, NEW a \in Addrs, call[c] = Nil,
         call' \in {call, [call EXCEPT ![c] = a]}
  PROVE  c \notin Waiting /\ Waiting' \in {Waiting, Waiting \cup {c}}
<1>1. call \in [Callers -> Addrs \cup {Nil}] /\ a # Nil
  BY DEF Inv, ConstantsOK
<1>. QED
  BY <1>1 DEF Waiting

\* A call whose effect on the announcements is ns for one address is a call of Speaker.
LEMMA CallIsSpeakerCall ==
  ASSUME ConstantsOK, Inv, NEW c \in Callers, NEW a \in Addrs, NEW ns \in SUBSET Nodes, call[c] = Nil,
         call' \in {call, [call EXCEPT ![c] = a]},
         AnnouncedBy(k') = [AnnouncedBy(k) EXCEPT ![a] = ns]
  PROVE  Abstract!Next
<1>1. c \notin Waiting /\ Waiting' \in {Waiting, Waiting \cup {c}}
  BY CallWaits, SMTT(30)
<1>2. Abstract!Effect(c, a, ns) \/ Abstract!Fails(c, a, ns)
  BY <1>1 DEF Abstract!Effect, Abstract!Fails, AnnouncedBy, Waiting, InstanceOf
<1>. QED
  BY <1>2 DEF Abstract!Next

\* Every step of the speaker is a step of Speaker, or changes nothing it speaks of.
LEMMA StepIsSpeakerStep ==
  ASSUME ConstantsOK, Inv, [Next]_vars
  PROVE  Abstract!Next \/ (AnnouncedBy(k)' = AnnouncedBy(k) /\ Waiting' = Waiting)
<1>. SUFFICES ASSUME Next
              PROVE  Abstract!Next \/ (AnnouncedBy(k)' = AnnouncedBy(k) /\ Waiting' = Waiting)
  BY DEF vars, AnnouncedBy, Waiting
<1>1. ASSUME NEW c \in Callers, NEW a \in Addrs, Removed(c, a), call[c] = Nil PROVE Abstract!Next
  <2>1. AnnouncedBy(k') = [AnnouncedBy(k) EXCEPT ![a] = {}]
    BY <1>1, WithoutAnnounced DEF Removed
  <2>. QED
    BY <1>1, <2>1, CallIsSpeakerCall, Zenon DEF Removed
<1>2. ASSUME NEW c \in Callers, NEW a \in Addrs, NEW ns \in (SUBSET Nodes) \ {{}}, SetBalancer(c, a, ns)
      PROVE  Abstract!Next \/ (AnnouncedBy(k)' = AnnouncedBy(k) /\ Waiting' = Waiting)
  <2>1. call[c] = Nil
    BY <1>2, SMTT(30) DEF SetBalancer, Called
  <2>2. CASE k' = k /\ call' = call
    BY <2>2, Zenon DEF AnnouncedBy, Waiting
  <2>3. ASSUME NEW iface \in Ifaces, Moved(c, a, <<ns, iface>>) PROVE Abstract!Next
    <3>1. PICK b : Good(b) /\ Without(k, b, a) /\ With(b, k', a, <<ns, iface>>)
      BY <2>3 DEF Moved
    <3>2. <<ns, iface>> \in Names /\ <<ns, iface>>[1] = ns
      BY DEF Names
    <3>3. AnnouncedBy(b) = [AnnouncedBy(k) EXCEPT ![a] = {}]
      BY <3>1, WithoutAnnounced
    <3>4. AnnouncedBy(k') = [AnnouncedBy(b) EXCEPT ![a] = ns]
      BY <3>1, <3>2, WithAnnounced
    <3>5. AnnouncedBy(k') = [AnnouncedBy(k) EXCEPT ![a] = ns]
      BY <3>3, <3>4, Zenon DEF AnnouncedBy
    <3>. QED
      BY <2>1, <2>3, <3>5, CallIsSpeakerCall, Zenon DEF Moved
  <2>. QED
    BY <1>1, <1>2, <2>1, <2>2, <2>3, SetBalancerGood, ZenonT(30)
<1>3. ASSUME NEW c \in Callers, NEW a \in Addrs, DelBalancer(c, a) PROVE Abstract!Next
  <2>1. call[c] = Nil
    BY <1>3, SMTT(30) DEF DelBalancer, Called
  <2>. QED
    BY <1>1, <1>3, <2>1, DelBalancerGood
<1>4. ASSUME NEW c \in Callers, NEW e \in Eips, NEW iface \in Ifaces \cup {Nil}, ConfigureWithEIP(c, e, iface)
      PROVE  AnnouncedBy(k)' = AnnouncedBy(k) /\ Waiting' = Waiting
  BY <1>4, ConfigureGood DEF AnnouncedBy, Waiting
<1>5. CASE System \/ Crash \/ Stop
  <2>1. AnnouncedBy(k)' = AnnouncedBy(k)
    BY <1>5, SystemGood DEF AnnouncedBy
  <2>2. CASE call' = call
    BY <2>1, <2>2 DEF Waiting
  <2>3. ASSUME NEW c \in Callers, call[c] # Nil, call' = [call EXCEPT ![c] = Nil] PROVE Abstract!Next
    <3>1. call \in [Callers -> Addrs \cup {Nil}]
      BY DEF Inv
    <3>2. c \in Waiting /\ Waiting' = Waiting \ {c}
      BY <2>3, <3>1, SMTT(30) DEF Waiting
    <3>3. Abstract!Returns(c)
      BY <2>1, <3>2 DEF Abstract!Returns, AnnouncedBy, Waiting, InstanceOf
    <3>. QED
      BY <3>3 DEF Abstract!Next
  <2>. QED
    BY <1>5, <2>2, <2>3, SystemGood
<1>. QED
  BY <1>2, <1>3, <1>4, <1>5, SMTT(30) DEF Next, CallStep

\* SetBalancer and DelBalancer do what the manager relies on: a call changes the
\* announcement of its address only, and nothing changes by itself.
THEOREM KeepalivedIsSpeaker == ASSUME ConstantsOK PROVE Spec => IsSpeaker
<1>1. Init => Abstract!Init
  BY SMTT(30) DEF Init, New, Abstract!Init, InstanceOf
<1>2. Inv /\ [Next]_vars => [Abstract!Next]_<<[a \in Addrs |-> IF InstanceOf(a) = {} THEN {} ELSE k.vips[a][1]],
                                              {c \in Callers : call[c] # Nil}>>
  BY StepIsSpeakerStep DEF AnnouncedBy, Waiting, InstanceOf
<1>. QED
  BY <1>1, <1>2, KeepalivedGood, PTL DEF Spec, IsSpeaker, Abstract!Spec
------------------------------------------------------------------------------
(* The file and the process.                                               *)

\* The books b have address a in an instance of the nodes ns and in no other.
Recorded(b, a, ns) ==
    /\ \A n \in Names : b.svcips[n][a] > 0 => n[1] = ns
    /\ Me \in ns => \E n \in Names : b.svcips[n][a] > 0

\* What was rendered has address a in an instance of the nodes ns, if this node is one, and in no other.
Shown(S, a, ns) ==
    /\ \A t \in S : t[3] = a => t[1][1] = ns
    /\ Me \in ns => \E t \in S : t[3] = a

\* The books and a file that is whole are right for every address whose last call has not failed.
Faithful ==
    /\ asked \in [Addrs -> (SUBSET Nodes) \cup {Nil}]
    /\ \A a \in Addrs : asked[a] # Nil => Recorded(k, a, asked[a]) /\ (cfg # Nil => Shown(cfg, a, asked[a]))

Waits == \E c \in Callers : call[c] # Nil

\* The process has read the file, or will be told to.
Current == proc = "up" /\ ~hup /\ cfg # Nil /\ ~Waits => loaded = cfg

\* WriteCfg: the file shows what the books record.
LEMMA RenderedShows ==
  ASSUME NEW b, Good(b), NEW a \in Addrs, NEW ns, Recorded(b, a, ns)
  PROVE  Shown(Rendered(b), a, ns)
<1>1. ASSUME NEW t \in Rendered(b), t[3] = a PROVE t[1][1] = ns
  BY <1>1 DEF Rendered, Recorded
<1>2. ASSUME Me \in ns PROVE \E t \in Rendered(b) : t[3] = a
  <2>1. PICK n \in Names : b.svcips[n][a] > 0
    BY <1>2 DEF Recorded
  <2>2. b.svcips[n][a] = 1 /\ b.routeid[n] # Nil /\ n[1] = ns
    BY <2>1 DEF Good, InOne, Recorded
  <2>3. b.routeid[n] \in P!Ids
    BY <2>2 DEF Good, Books
  <2>4. <<n, b.routeid[n], a>> \in Rendered(b)
    BY <1>2, <2>1, <2>2, <2>3 DEF Rendered
  <2>. QED
    BY <2>4
<1>. QED
  BY <1>1, <1>2 DEF Shown

\* A call about address a leaves the records of the others, and writes what it has
\* recorded, or fails.
LEMMA CallFaithful ==
  ASSUME Faithful, Good(k'), NEW c \in Callers, NEW a \in Addrs, NEW ns \in SUBSET Nodes,
         \A x \in Addrs : x # a => \A n \in Names : k'.svcips[n][x] = k.svcips[n][x],
         \/ asked' = [asked EXCEPT ![a] = Nil] /\ UNCHANGED <<call, cfg>>
         \/ Recorded(k', a, ns) /\ WriteCfg(c, a, ns)
  PROVE  Faithful'
<1>1. /\ asked' \in [Addrs -> (SUBSET Nodes) \cup {Nil}] /\ asked'[a] \in {Nil, ns}
      /\ \A x \in Addrs : x # a => asked'[x] = asked[x]
  BY DEF Faithful, WriteCfg
<1>2. cfg' = cfg \/ cfg' = Nil \/ cfg' = Rendered(k')
  BY SMTT(30) DEF WriteCfg
<1>3. ASSUME NEW x \in Addrs, asked'[x] # Nil PROVE Recorded(k', x, asked'[x])
  <2>1. CASE x = a
    BY <1>1, <1>3, <2>1, SMTT(30) DEF WriteCfg, Faithful
  <2>2. CASE x # a
    <3>1. Recorded(k, x, asked[x]) /\ asked'[x] = asked[x]
      BY <1>1, <1>3, <2>2, SMTT(30) DEF Faithful
    <3>. QED
      BY <2>2, <3>1 DEF Recorded
  <2>. QED
    BY <2>1, <2>2
<1>4. ASSUME NEW x \in Addrs, asked'[x] # Nil, cfg' # Nil PROVE Shown(cfg', x, asked'[x])
  <2>1. CASE cfg' = Rendered(k')
    BY <1>3, <1>4, <2>1, RenderedShows, SMTT(30)
  <2>2. CASE cfg' = cfg /\ x # a
    BY <1>1, <1>4, <2>2, SMTT(30) DEF Faithful
  <2>3. CASE cfg' # Rendered(k')
    <3>1. asked'[a] = Nil
      BY <2>3 DEF WriteCfg, Faithful
    <3>. QED
      BY <1>2, <1>4, <2>2, <2>3, <3>1, SMTT(30)
  <2>. QED
    BY <2>1, <2>3, SMTT(30)
<1>. QED
  BY <1>1, <1>3, <1>4 DEF Faithful
\* A call about an address in no instance but, it may be, that of the nodes asked for has it recorded.
LEMMA MovedRecorded ==
  ASSUME NEW c \in Callers, NEW a \in Addrs, NEW n \in Names, Moved(c, a, n)
  PROVE  /\ Recorded(k', a, n[1])
         /\ \A x \in Addrs : x # a => \A m \in Names : k'.svcips[m][x] = k.svcips[m][x]
<1>1. PICK b : Good(b) /\ Without(k, b, a) /\ With(b, k', a, n)
  BY DEF Moved
<1>2. \A m \in Names : k'.svcips[m][a] = IF m = n THEN 1 ELSE 0
  BY <1>1, SMTT(30) DEF Without, With
<1>3. \A x \in Addrs : x # a => \A m \in Names : k'.svcips[m][x] = k.svcips[m][x]
  BY <1>1 DEF Without, With
<1>. QED
  BY <1>2, <1>3 DEF Recorded

\* Every call keeps books and file faithful.
LEMMA CallStepFaithful == ASSUME ConstantsOK, Inv, Faithful, CallStep PROVE Faithful'
<1>1. ASSUME k'.svcips = k.svcips, UNCHANGED <<asked, cfg>> PROVE Faithful'
  BY <1>1 DEF Faithful, Recorded
<1>2. ASSUME NEW c \in Callers, NEW a \in Addrs, NEW ns \in (SUBSET Nodes) \ {{}}, SetBalancer(c, a, ns)
      PROVE  Faithful'
  <2>1. Good(k')
    BY <1>2, SetBalancerGood
  <2>2. CASE k' = k /\ UNCHANGED <<asked, call, cfg>>
    BY <1>1, <2>2, SMTT(30)
  <2>3. CASE Removed(c, a) /\ asked' = [asked EXCEPT ![a] = Nil] /\ UNCHANGED <<call, cfg>>
    <3>1. \A x \in Addrs : x # a => \A n \in Names : k'.svcips[n][x] = k.svcips[n][x]
      BY <2>3 DEF Removed, Without
    <3>. QED
      BY <2>1, <2>3, <3>1, CallFaithful, Zenon
  <2>4. ASSUME NEW iface \in Ifaces, Moved(c, a, <<ns, iface>>), WriteCfg(c, a, ns) PROVE Faithful'
    <3>1. <<ns, iface>> \in Names /\ <<ns, iface>>[1] = ns
      BY DEF Names
    <3>. QED
      BY <2>1, <2>4, <3>1, MovedRecorded, CallFaithful
  <2>. QED
    BY <1>2, <2>2, <2>3, <2>4, SetBalancerGood, Zenon
<1>3. ASSUME NEW c \in Callers, NEW a \in Addrs, DelBalancer(c, a) PROVE Faithful'
  <2>1. Good(k') /\ Without(k, k', a)
    BY <1>3, DelBalancerGood DEF Removed
  <2>2. /\ \A n \in Names : k'.svcips[n][a] = 0
        /\ \A x \in Addrs : x # a => \A n \in Names : k'.svcips[n][x] = k.svcips[n][x]
    BY <2>1 DEF Without
  <2>3. Recorded(k', a, {})
    BY <2>2, SMTT(30) DEF Recorded
  <2>4. CASE WriteCfg(c, a, {})
    BY <2>1, <2>2, <2>3, <2>4, CallFaithful
  <2>. QED
    BY <1>1, <1>3, <2>4, DelBalancerGood
<1>4. ASSUME NEW c \in Callers, NEW e \in Eips, NEW iface \in Ifaces \cup {Nil}, ConfigureWithEIP(c, e, iface)
      PROVE  Faithful'
  BY <1>1, <1>4, ConfigureGood DEF ConfigureWithEIP
<1>. QED
  BY <1>2, <1>3, <1>4, SMTT(30) DEF CallStep

\* Start writes the file from the books; Reload may report an error; nothing else touches either.
LEMMA SystemFaithful == ASSUME Inv, Faithful, System \/ Crash \/ Stop PROVE Faithful'
<1>1. ASSUME k' = k, asked' = asked, cfg' \in {cfg, Nil, Rendered(k)} PROVE Faithful'
  <2>1. \A a \in Addrs : asked[a] # Nil => Shown(Rendered(k), a, asked[a])
    BY RenderedShows DEF Faithful, Inv
  <2>. QED
    BY <1>1, <2>1 DEF Faithful
<1>2. ASSUME NEW c \in Callers, Reload(c) PROVE Faithful'
  <2>1. k' = k /\ cfg' = cfg /\ asked' \in {asked, [asked EXCEPT ![call[c]] = Nil]}
    BY <1>2 DEF Reload
  <2>. QED
    BY <2>1 DEF Faithful
<1>3. CASE Start \/ Boot \/ ReadAgain \/ Restart \/ Crash \/ Stop
  <2>1. k' = k /\ asked' = asked /\ cfg' \in {cfg, Nil, Rendered(k)}
    BY <1>3, Zenon DEF Start, Boot, ReadAgain, Restart, Crash, Stop, ProcessStep
  <2>. QED
    BY <1>1, <2>1
<1>. QED
  BY <1>2, <1>3 DEF System

\* WriteCfg makes its caller wait, and Reload signals the process when it is up.
LEMMA NextCurrent == ASSUME ConstantsOK, Inv, Current, Next PROVE Current'
<1>1. call \in [Callers -> Addrs \cup {Nil}] /\ Nil \notin Addrs
  BY DEF Inv, ConstantsOK
<1>2. ASSUME NEW c \in Callers, NEW a \in Addrs, NEW ns, WriteCfg(c, a, ns), UNCHANGED process PROVE Current'
  <2>1. CASE cfg' = Rendered(k') /\ call' = [call EXCEPT ![c] = a]
    <3>1. call'[c] = a /\ a # Nil
      BY <1>1, <2>1
    <3>. QED
      BY <3>1 DEF Current, Waits
  <2>2. CASE cfg' \in {cfg, Nil} /\ call' = call
    BY <1>2, <2>2 DEF Current, Waits, process
  <2>. QED
    BY <1>2, <2>1, <2>2 DEF WriteCfg
<1>3. ASSUME UNCHANGED <<call, cfg, process>> PROVE Current'
  BY <1>3 DEF Current, Waits, process
<1>4. ASSUME NEW c \in Callers, NEW a \in Addrs, NEW ns \in (SUBSET Nodes) \ {{}}, SetBalancer(c, a, ns)
      PROVE  Current'
  BY <1>2, <1>3, <1>4, Zenon DEF SetBalancer
<1>5. ASSUME NEW c \in Callers, NEW a \in Addrs, DelBalancer(c, a) PROVE Current'
  BY <1>2, <1>3, <1>5, Zenon DEF DelBalancer
<1>6. ASSUME NEW c \in Callers, NEW e \in Eips, NEW iface \in Ifaces \cup {Nil}, ConfigureWithEIP(c, e, iface)
      PROVE  Current'
  BY <1>3, <1>6 DEF ConfigureWithEIP
<1>7. ASSUME NEW c \in Callers, Reload(c) PROVE Current'
  BY <1>7, Zenon DEF Reload, Current
<1>8. CASE Start \/ Restart \/ Crash \/ Stop
  <2>1. proc' # "up"
    BY <1>8, Zenon DEF Start, Restart, Crash, Stop
  <2>. QED
    BY <2>1 DEF Current
<1>9. CASE Boot \/ ReadAgain
  BY <1>9 DEF Boot, ReadAgain, Read, Current
<1>. QED
  BY <1>4, <1>5, <1>6, <1>7, <1>8, <1>9 DEF Next, CallStep, System

\* WriteCfg, Reload and Start: when no call waits and no signal is pending, the process serves
\* every address through the nodes it was last set to, and none that was withdrawn, for every
\* number of calls, of callers, of writes that fail and of crashes of the process.
THEOREM KeepalivedServesAsked == ASSUME ConstantsOK PROVE Spec => []ServesAsked
<1>1. Init => Faithful /\ Current
  BY DEF Init, New, Faithful, Recorded, Shown, Current
<1>2. Inv /\ Faithful /\ Current /\ [Next]_vars => Faithful' /\ Current'
  <2>1. ASSUME Faithful, Current, UNCHANGED vars PROVE Faithful' /\ Current'
    BY <2>1, SMTT(30) DEF vars, process, Faithful, Recorded, Current, Waits
  <2>. QED
    BY <2>1, CallStepFaithful, SystemFaithful, NextCurrent, SMTT(30) DEF Next
<1>3. Faithful /\ Current => ServesAsked
  BY DEF Faithful, Current, Waits, Shown, ServesAsked
<1>. QED
  BY <1>1, <1>2, <1>3, KeepalivedGood, PTL DEF Spec
===============================================================================
