---------------------------------- MODULE Fifo ----------------------------------
(***************************************************************************)
(* What a queue of bytes promises: they come out in the order they went    *)
(* in, each once.  A queue may refuse a byte: that is a step that changes  *)
(* nothing.                                                                *)
(***************************************************************************)
EXTENDS Sequences

CONSTANT Byte

VARIABLES
  items,   \* the bytes in the queue, the oldest first
  out      \* the byte that came out last, or <<>>

Init == items = <<>> /\ out = <<>>

Push == \E b \in Byte : items' = Append(items, b) /\ out' = out
Pop  == items # <<>> /\ out' = <<Head(items)>> /\ items' = Tail(items)

Next == Push \/ Pop
Spec == Init /\ [][Next]_<<items, out>>
=============================================================================
