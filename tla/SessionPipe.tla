---------------------------- MODULE SessionPipe ----------------------------
(***************************************************************************)
(* What one direction of a session promises to the terminal: a bounded     *)
(* FIFO pipe.  Byte number k is represented by k, so the k-th byte put in  *)
(* is k and the pipe is in order, loss-free and duplication-free exactly   *)
(* when the last byte taken out is always the number of bytes taken out.   *)
(* Once the pipe has ended it delivers nothing more.                       *)
(***************************************************************************)
EXTENDS Naturals

CONSTANT Depth  \* how many bytes may be inside the pipe at once

VARIABLES accepted,   \* number of the last byte put in
          delivered,  \* number of the last byte taken out
          ended       \* the consumer has been told that the pipe is over

vars == <<accepted, delivered, ended>>

Init == accepted = 0 /\ delivered = 0 /\ ended = FALSE

Accept == /\ accepted - delivered < Depth
          /\ accepted' = accepted + 1
          /\ UNCHANGED <<delivered, ended>>

Deliver == /\ ~ended
           /\ delivered < accepted
           /\ delivered' = delivered + 1
           /\ UNCHANGED <<accepted, ended>>

\* The consumer learns of the end only when nothing is left inside.
End == /\ delivered = accepted
       /\ ended' = TRUE
       /\ UNCHANGED <<accepted, delivered>>

Next == Accept \/ Deliver \/ End

Spec == Init /\ [][Next]_vars
=============================================================================
