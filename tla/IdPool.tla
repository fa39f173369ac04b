-------------------------------- MODULE IdPool --------------------------------
(***************************************************************************)
(* What pkg/util/idalloc promises: a set of ids in use, from which ids are *)
(* taken by hash or in order, and to which they are given back.  IdAlloc   *)
(* is the bitmap that implements it, Keepalived the user.                  *)
(***************************************************************************)
EXTENDS Integers

CONSTANTS NumIDs,   \* number of ids; id 0 is never handed out
          Hashes    \* the hashes, as numbers

VARIABLES ids,      \* the ids in use
          got       \* the result of the last allocation

Ids == 0 .. NumIDs - 1

Exhausted == NumIDs     \* IDMaxLimit with ErrIDsExhausted

\* The first id not in use from the one the hash points at, cyclically.
FirstFree(used, h) ==
    LET free == {i \in Ids : (h + i) % NumIDs \notin used}
    IN IF free = {} THEN Exhausted
       ELSE (h + CHOOSE i \in free : \A j \in free : i <= j) % NumIDs

Take(used, id) == IF id = Exhausted THEN used ELSE used \cup {id}

------------------------------------------------------------------------------
Init == ids = {0} /\ got = 0

AllocateWithHash(h) ==
    /\ got' = FirstFree(ids, h)
    /\ ids' = Take(ids, got')

Allocate ==
    /\ got' = FirstFree(ids, 0)
    /\ ids' = Take(ids, got')

Free(id) == id \in ids \ {0} /\ ids' = ids \ {id} /\ UNCHANGED got

Next == (\E h \in Hashes : AllocateWithHash(h)) \/ Allocate \/ (\E id \in Ids : Free(id))

Spec == Init /\ [][Next]_<<ids, got>>
===============================================================================
