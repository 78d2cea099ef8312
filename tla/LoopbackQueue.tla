----------------------------- MODULE LoopbackQueue -----------------------------
(***************************************************************************)
(* The queue of a loopback session (loopback_queue, ssu/chan.c): a ring    *)
(* that doubles when it is full, if memory allows, and drops the byte if   *)
(* not.  Both its ends belong to the emulation thread.                     *)
(***************************************************************************)
EXTENDS Integers, Sequences

CONSTANTS
  Byte,
  FirstCap,   \* its first capacity, 64 in the code
  MaxCap      \* bound: no larger buffer is allocated

VARIABLES buf, head, len, cap, out

vars == <<buf, head, len, cap, out>>

Init == buf = <<>> /\ head = 0 /\ len = 0 /\ cap = 0 /\ out = <<>>

Junk == "junk"    \* what memory holds that was allocated and not written

\* realloc: what there was, and junk behind it.  Cells count from 0.
Cells(n) == 0..(n - 1)
Extended(n) == [i \in Cells(n) |-> IF i < cap THEN buf[i] ELSE Junk]
NewCap == IF cap = 0 THEN FirstCap ELSE 2 * cap

\* loopback_grow: a wrapped queue has the segment from its head moved to the end.
Wrapped == head + len > cap
Grown ==
  LET nb == Extended(NewCap)
      by == NewCap - cap
  IN IF Wrapped
     THEN [buf |-> [i \in Cells(NewCap) |-> IF i >= head + by THEN nb[i - by] ELSE nb[i]],
           head |-> head + by, cap |-> NewCap]
     ELSE [buf |-> nb, head |-> head, cap |-> NewCap]

Store(q, b) == /\ buf' = [q.buf EXCEPT ![(q.head + len) % q.cap] = b]
               /\ head' = q.head /\ cap' = q.cap /\ len' = len + 1

Push == /\ len < cap
        /\ \E b \in Byte : Store([buf |-> buf, head |-> head, cap |-> cap], b)
        /\ UNCHANGED out
\* The queue is full: it grows, or, without memory, drops the byte and stays as it is.
PushGrowing == /\ len = cap /\ NewCap <= MaxCap
               /\ \E b \in Byte : Store(Grown, b)
               /\ UNCHANGED out
PushDropping == len = cap /\ UNCHANGED vars

Pop == /\ len # 0
       /\ out' = <<buf[head]>>
       /\ head' = (head + 1) % cap /\ len' = len - 1
       /\ UNCHANGED <<buf, cap>>

Next == Push \/ PushGrowing \/ PushDropping \/ Pop
Spec == Init /\ [][Next]_vars

\* What the queue holds, the oldest byte first.
Items == [i \in 1..len |-> buf[(head + i - 1) % cap]]

\* chan.c: what a loopback session sends comes back complete and in order, wherever in the
\* buffer the queue stands when it has to grow.
Queue == INSTANCE Fifo WITH items <- Items
IsFifo == Queue!Spec
=============================================================================
