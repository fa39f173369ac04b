------------------------------ MODULE EipStatus ------------------------------
(***************************************************************************)
(* The Eip object and the bookkeeping on its status: which address of the  *)
(* pool is held by which services (api/v1alpha2/eip_types.go,              *)
(* pkg/controllers/ipam).  Everything here is an operator on one object;   *)
(* who calls it, on which copy, and what happens to the result is the      *)
(* business of module Ipam.                                                *)
(*                                                                         *)
(* An address is the pair <<e, i>> of a pool and an offset from FirstIP:   *)
(* the pools of different Eips do not overlap, which is what               *)
(* validateOverlap in eip_types.go asks of a new Eip.  The string that     *)
(* Status.Used keeps for an address, "ns/a;ns/b", is the set of the keys   *)
(* it lists; the empty set stands for an address that is not in the map.   *)
(***************************************************************************)
EXTENDS Integers, FiniteSets

CONSTANTS Eips,      \* names of Eip objects
          Svcs,      \* keys (namespace/name) of Services
          Size,      \* Size[e]: number of addresses of pool e
          Nil        \* an empty string, or a nil pointer

ASSUME SizeAssumption == Size \in [Eips -> Nat \ {0}]

Offsets(e) == 0 .. Size[e] - 1

AddrsOf(pools) == UNION {{e} \X Offsets(e) : e \in pools}

ASSUME NilAssumption == Nil \notin Eips \cup Svcs \cup AddrsOf(Eips)
ASSUME NamesAssumption == Eips \cap Svcs = {} /\ IsFiniteSet(Eips) /\ IsFiniteSet(Svcs)

\* The values of the object named e.  "ready" is Status.FirstIP # "".
EipObj(e) == [exists: BOOLEAN, deleting: BOOLEAN, fin: BOOLEAN, disable: BOOLEAN,
              ready: BOOLEAN, used: [Offsets(e) -> SUBSET Svcs],
              usage: Nat, occupied: BOOLEAN]

GoneEip(e) == [exists |-> FALSE, deleting |-> FALSE, fin |-> FALSE, disable |-> FALSE,
               ready |-> FALSE, used |-> [i \in Offsets(e) |-> {}],
               usage |-> 0, occupied |-> FALSE]

NewEip(e) == [GoneEip(e) EXCEPT !.exists = TRUE]

\* obj with another status.
WithStatus(obj, ready, used, usage, occupied) ==
    [exists |-> obj.exists, deleting |-> obj.deleting, fin |-> obj.fin, disable |-> obj.disable,
     ready |-> ready, used |-> used, usage |-> usage, occupied |-> occupied]

\* Status.PoolSize, which updateEip sets together with FirstIP.
PoolSize(e, obj) == IF obj.ready THEN Size[e] ELSE 0

\* len(Status.Used)
Taken(used) == {i \in DOMAIN used : used[i] # {}}

LenUsed(used) == Cardinality(Taken(used))

(***************************************************************************)
(* assignIPFromEip: the outcome of asking pool e for address ip (an offset *)
(* or Nil) on behalf of service s.  at is Nil when the call returns an     *)
(* error; obj is the object as the call leaves it.  An automatic request   *)
(* takes the first address nobody holds; a request for an address that     *)
(* somebody holds shares it.                                               *)
(***************************************************************************)
Refused(obj) == [at |-> Nil, obj |-> obj]

Granted(e, obj, i, s) ==
    LET used == [obj.used EXCEPT ![i] = @ \cup {s}]
        fresh == obj.used[i] = {}
    IN [at |-> <<e, i>>,
        obj |-> WithStatus(obj, obj.ready, used,
                           IF fresh THEN LenUsed(used) ELSE obj.usage,
                           obj.occupied \/ (fresh /\ LenUsed(used) = PoolSize(e, obj)))]

\* Mutant of FirstFree: it does not look whether the address is in use.
FirstFree_Taken(e, obj) == {i \in Offsets(e) : i < PoolSize(e, obj) /\ i = 0}

FirstFree(e, obj) ==
    {i \in Offsets(e) : i < PoolSize(e, obj) /\ obj.used[i] = {}
                        /\ \A j \in Offsets(e) : j < i => obj.used[j] # {}}

assignIPFromEip(e, obj, ip, s) ==
    IF obj.deleting \/ obj.disable THEN Refused(obj)
    ELSE IF ip # Nil
    THEN IF ip[1] # e \/ ~obj.ready THEN Refused(obj)
         ELSE Granted(e, obj, ip[2], s)
    ELSE IF FirstFree(e, obj) = {} THEN Refused(obj)
    ELSE Granted(e, obj, CHOOSE i \in FirstFree(e, obj) : TRUE, s)

\* Mutant of releaseIPFromEip: Occupied is never taken back.
releaseIPFromEip_StaysOccupied(e, obj, s) ==
    LET used == [i \in Offsets(e) |-> obj.used[i] \ {s}]
    IN IF obj.deleting THEN obj ELSE WithStatus(obj, obj.ready, used, LenUsed(used), obj.occupied)

(***************************************************************************)
(* releaseIPFromEip: drop service s from every address of pool e.          *)
(***************************************************************************)
releaseIPFromEip(e, obj, s) ==
    LET used == [i \in Offsets(e) |-> obj.used[i] \ {s}]
        freed == \E i \in Offsets(e) : obj.used[i] = {s}
    IN IF obj.deleting THEN obj
       ELSE WithStatus(obj, obj.ready, used,
                       IF freed THEN LenUsed(used) ELSE obj.usage,
                       obj.occupied /\ ~(freed /\ LenUsed(used) # PoolSize(e, obj)))

(***************************************************************************)
(* updateEip, with syncEip: size the pool on first sight, forget the       *)
(* services that are not in present, recount.                              *)
(***************************************************************************)
updateEip(e, obj, present) ==
    LET used == [i \in Offsets(e) |-> obj.used[i] \cap present]
    IN WithStatus(obj, TRUE, used, LenUsed(used), LenUsed(used) >= Size[e])

(***************************************************************************)
(* What the status of every version of an Eip that is ever stored tells:   *)
(* Usage counts the addresses in use, Occupied is set exactly when the     *)
(* sized pool has none left, and an unsized pool has handed out nothing.   *)
(***************************************************************************)
StatusOK(e, obj) ==
    /\ obj.usage = LenUsed(obj.used)
    /\ obj.occupied <=> obj.ready /\ obj.usage = Size[e]
    /\ ~obj.ready => obj.usage = 0
==============================================================================
