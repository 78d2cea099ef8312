-------------------------------- MODULE ByteRing --------------------------------
(***************************************************************************)
(* The ring between the machine's chips (byte_ring, common.c).  Its two    *)
(* indices count for ever, in a machine word, and are masked when used.    *)
(***************************************************************************)
EXTENDS Integers, Sequences

CONSTANTS
  Byte,
  Cap,    \* cells: a power of two in every ring of the machine
  Word    \* the values of an index, 2^32 in the code: a multiple of Cap, and more than it

VARIABLES buf, head, tail, out

vars == <<buf, head, tail, out>>

\* The memory of a ring is part of a zeroed structure.
Init == /\ \E b \in Byte : buf = [i \in 0..(Cap - 1) |-> b]
        /\ head = 0 /\ tail = 0 /\ out = <<>>

\* r->head - r->tail, in a word.  The other is the comparison that forgets the wrap.
LengthUnwrapped == IF head < tail THEN 0 ELSE head - tail
Length == (head - tail) % Word
Slot(i) == i % Cap

Push == /\ Length # Cap
        /\ \E b \in Byte : buf' = [buf EXCEPT ![Slot(head)] = b]
        /\ head' = (head + 1) % Word
        /\ UNCHANGED <<tail, out>>
Pop == /\ head # tail
       /\ out' = <<buf[Slot(tail)]>>
       /\ tail' = (tail + 1) % Word
       /\ UNCHANGED <<buf, head>>

Next == Push \/ Pop
Spec == Init /\ [][Next]_vars

\* What the ring holds, the oldest byte first.
Items == [i \in 1..Length |-> buf[Slot((tail + i - 1) % Word)]]

\* common.c: the ring is a queue, when it is full, when its cells are used again and when its
\* indices pass the end of their word.
Queue == INSTANCE Fifo WITH items <- Items
IsFifo == Queue!Spec
=============================================================================
