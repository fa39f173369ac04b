------------------------------- MODULE IdAlloc --------------------------------
(***************************************************************************)
(* The id allocator (pkg/util/idalloc/idalloc.go): a bitmap in blocks of   *)
(* BlockBits bits that grows on demand.  A block is the set of its bits    *)
(* that are set; blocks count from 0 in the code, from 1 here.  The loops  *)
(* of an allocation go a turn at a time.                                   *)
(***************************************************************************)
EXTENDS Integers, Sequences

CONSTANTS BlockBits,    \* bits.UintSize
          MaxBlocks,    \* IDAllocator.maxBlocks
          Hashes

\* There is room for the first block.
ConstantsOK == BlockBits \in Nat \ {0} /\ MaxBlocks \in Nat \ {0} /\ Hashes \subseteq Nat

VARIABLES bits,     \* IDAllocator.bits
          id,       \* the id the last allocation returned
          call      \* the allocation that runs: [op, from, i], with its loop variable

vars == <<bits, id, call>>

Idle == [op |-> "idle", from |-> 0, i |-> 0]

Total == BlockBits * MaxBlocks

IDMaxLimit == Total     \* stands for math.MaxUint32, which is no id

Bit(b, i) == i % BlockBits \in b[i \div BlockBits + 1]

SetBit(b, i) == [b EXCEPT ![i \div BlockBits + 1] = @ \cup {i % BlockBits}]

\* Mutant of grow: the last block is left out when doubling would exceed the maximum.
grow_Short(b) ==
    LET n == Len(b)
    IN IF n >= MaxBlocks \/ 2 * n > MaxBlocks THEN b ELSE b \o [k \in 1 .. n |-> {}]

\* grow: twice the blocks, or as many as there may be; unchanged if it fails.
grow(b) ==
    LET n == Len(b)
    IN IF n >= MaxBlocks THEN b
       ELSE b \o [k \in 1 .. (IF 2 * n > MaxBlocks THEN MaxBlocks - n ELSE n) |-> {}]

Return(b, result) == bits' = b /\ id' = result /\ call' = Idle

------------------------------------------------------------------------------
\* New: one block, with id 0 taken.
Init == bits = <<{0}>> /\ id = 0 /\ call = Idle

AllocateWithHash(h) ==
    call = Idle /\ call' = [op |-> "hash", from |-> h % Total, i |-> 0] /\ UNCHANGED <<bits, id>>

Allocate == call = Idle /\ call' = [op |-> "scan", from |-> 0, i |-> 0] /\ UNCHANGED <<bits, id>>

\* A turn of the loops of AllocateWithHash: the block of the next id is made, if need be and
\* if it can be, and the id is taken, if it is free.
Probe ==
    LET new == (call.from + call.i) % Total
        there == new \div BlockBits < Len(bits)
    IN /\ call.op = "hash"
       /\ \/ call.i = Total /\ Return(bits, IDMaxLimit)
          \/ /\ call.i < Total /\ ~there
             /\ IF grow(bits) = bits THEN Return(bits, IDMaxLimit)
                ELSE bits' = grow(bits) /\ UNCHANGED <<id, call>>
          \/ /\ call.i < Total /\ there /\ Bit(bits, new)
             /\ call' = [call EXCEPT !.i = @ + 1] /\ UNCHANGED <<bits, id>>
          \/ call.i < Total /\ there /\ ~Bit(bits, new) /\ Return(SetBit(bits, new), new)

\* A turn of the loop of Allocate: the lowest clear bit of the block is taken, or the loop
\* goes on to the next block, which may have to be made.
Scan ==
    LET clear == (0 .. BlockBits - 1) \ bits[call.i + 1]
        new == call.i * BlockBits + CHOOSE x \in clear : \A y \in clear : x <= y
        last == call.i + 1 = Len(bits)
    IN /\ call.op = "scan"
       /\ \/ clear # {} /\ Return(SetBit(bits, new), new)
          \/ clear = {} /\ last /\ grow(bits) = bits /\ Return(bits, IDMaxLimit)
          \/ /\ clear = {} /\ (last => grow(bits) # bits)
             /\ bits' = IF last THEN grow(bits) ELSE bits
             /\ call' = [call EXCEPT !.i = @ + 1] /\ UNCHANGED id

\* Free, for an id that was handed out before.
Free(i) ==
    /\ call = Idle /\ i \div BlockBits < Len(bits) /\ Bit(bits, i)
    /\ bits' = [bits EXCEPT ![i \div BlockBits + 1] = @ \ {i % BlockBits}]
    /\ UNCHANGED <<id, call>>

Next ==
    \/ \E h \in Hashes : AllocateWithHash(h)
    \/ Allocate \/ Probe \/ Scan
    \/ \E i \in 1 .. Total - 1 : Free(i)

Spec == Init /\ [][Next]_vars

------------------------------------------------------------------------------
\* The ids whose bit is set.
Used == {i \in 0 .. Total - 1 : i \div BlockBits < Len(bits) /\ Bit(bits, i)}

Pool == INSTANCE IdPool WITH NumIDs <- Total, got <- id, ids <- Used

\* The bitmap implements the set of ids: growing, the last block, the wrap-around
\* and the full bitmap make no difference to which id is handed out, and an
\* allocation fails only when every id is in use.
IsIdPool == Pool!Spec
===============================================================================
