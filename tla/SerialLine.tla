----------------------------- MODULE SerialLine -----------------------------
(***************************************************************************)
(* One serial line of the terminal: a channel of the SCN2681 DUART         *)
(* (machine/duart.c), its two byte rings, the comm session that moves one  *)
(* byte each way per step (host/comm.c), the XON/XOFF gate (ssu/xonoff.c)  *)
(* and, behind the gate, a session and its peer.                           *)
(*                                                                         *)
(* vt420_system_step runs, in this order and on one thread, a CPU          *)
(* instruction (at most one register access), the DUART tick, the comm     *)
(* tick and the DTR update; "phase" is the place in that order.  The       *)
(* session is a bounded pipe each way (IoSession shows it is one); its     *)
(* peer moves at any time.                                                 *)
(***************************************************************************)
EXTENDS Integers, Sequences

CONSTANTS RingCap,     \* DUART_RING_CAP
          Cooldown,    \* DUART_COOLDOWN_TICKS
          ResetSleep,  \* DUART_RESET_SLEEP
          SessCap,     \* how many bytes the session holds each way
          PeerCap,     \* how many bytes the peer has read and not dealt with
          MaxOut,      \* bound: bytes the firmware ever writes to THR
          MaxIn,       \* bound: bytes the peer ever writes
          Kinds        \* bound: the kinds of bytes the firmware writes

ASSUME SerialAssumption ==
  /\ {RingCap, Cooldown, SessCap, PeerCap} \subseteq Nat \ {0}
  /\ {ResetSleep, MaxOut, MaxIn} \subseteq Nat
  /\ Kinds \subseteq {"data", "xon", "xoff"}

VARIABLES
  phase,                    \* place in vt420_system_step
  resetSleep, cooldown,     \* ticks left
  thr, rhr,                 \* tx_byte and rx_byte, or None
  mrPtr, loop,              \* MR pointer; local loopback (MR2 bit 7)
  dtrPin, dtr,              \* what the OPR says; the flag both ends share
  outRing, inRing,          \* a2b and b2a
  pendingRx, pendingTx,     \* what the comm session holds back
  xon,                      \* the gate
  toPeer, fromPeer, owes,   \* bytes in the session each way, and in the peer
  hung,                     \* the peer has hung up
  written, sent,            \* history: last byte written to THR, passed on
  got, gone,                \* history: last byte received from the session, out of RHR
  refusals, dropped         \* history: WOULD_BLOCK answers (counted to RingCap), a ring overflow

duartVars == <<resetSleep, cooldown, thr, rhr, mrPtr, loop, dtrPin>>
ringVars  == <<outRing, inRing>>
commVars  == <<pendingRx, pendingTx, xon>>
peerVars  == <<toPeer, fromPeer, owes, hung>>
histVars  == <<written, sent, got, gone, refusals, dropped>>
vars == <<phase, duartVars, dtr, ringVars, commVars, peerVars, histVars>>

\* A byte is its kind and its number in its direction.
None == [kind |-> "none", n |-> 0]

Init ==
  /\ phase = "cpu" /\ resetSleep = ResetSleep /\ cooldown = 0
  /\ thr = None /\ rhr = None /\ mrPtr = FALSE /\ loop = FALSE
  /\ dtrPin = FALSE /\ dtr = TRUE   \* up until the first step ends
  /\ outRing = <<>> /\ inRing = <<>>
  /\ pendingRx = None /\ pendingTx = None
  /\ xon = FALSE            \* the gate starts closed
  /\ toPeer = 0 /\ fromPeer = 0 /\ owes = 0 /\ hung = FALSE
  /\ written = 0 /\ sent = 0 /\ got = 0 /\ gone = 0 /\ refusals = 0 /\ dropped = FALSE

\* The number of the last inbound byte out of the receive register once b has left it.
Leaves(b) == IF b.kind = "in" THEN b.n ELSE gone

(***************************************************************************)
(* The firmware: the register accesses of one instruction.                 *)
(***************************************************************************)
Instruction == /\ phase = "cpu" /\ phase' = "duart"
               /\ UNCHANGED <<resetSleep, cooldown, dtr, ringVars, commVars, peerVars,
                              sent, got, refusals, dropped>>

NoAccess == Instruction /\ UNCHANGED <<thr, rhr, mrPtr, loop, dtrPin, written, gone>>

\* THR is overwritten, sent or not.
WriteTHR(kind) ==
  /\ written < MaxOut
  /\ Instruction
  /\ thr' = [kind |-> kind, n |-> written + 1]
  /\ written' = written + 1
  /\ UNCHANGED <<rhr, mrPtr, loop, dtrPin, gone>>

ReadRHR ==
  /\ rhr # None
  /\ Instruction
  /\ rhr' = None /\ gone' = Leaves(rhr)
  /\ UNCHANGED <<thr, mrPtr, loop, dtrPin, written>>

ResetMRPointer == Instruction /\ mrPtr' = FALSE
                  /\ UNCHANGED <<thr, rhr, loop, dtrPin, written, gone>>

ResetReceiver == Instruction /\ rhr' = None /\ gone' = Leaves(rhr)
                 /\ UNCHANGED <<thr, mrPtr, loop, dtrPin, written>>

ResetTransmitter == Instruction /\ thr' = None
                    /\ UNCHANGED <<rhr, mrPtr, loop, dtrPin, written, gone>>

\* The first access after a pointer reset is MR1, every later one MR2.
AccessMR == /\ Instruction /\ mrPtr' = TRUE
            /\ loop' \in IF mrPtr THEN BOOLEAN ELSE {loop}
            /\ UNCHANGED <<thr, rhr, dtrPin, written, gone>>

\* SET_OUTPUT_BITS and RESET_OUTPUT_BITS.
SwitchDTR == /\ Instruction /\ dtrPin' = ~dtrPin
             /\ UNCHANGED <<thr, rhr, mrPtr, loop, written, gone>>

Firmware == \/ NoAccess \/ ReadRHR \/ ResetMRPointer \/ ResetReceiver \/ ResetTransmitter
            \/ AccessMR \/ SwitchDTR
            \/ \E kind \in Kinds : WriteTHR(kind)

(***************************************************************************)
(* duart_tick, for this channel.                                           *)
(***************************************************************************)
Asleep == /\ resetSleep > 0
          /\ resetSleep' = resetSleep - 1
          /\ UNCHANGED <<cooldown, thr, rhr, ringVars, gone, dropped>>

\* The transmitted byte overwrites the received one.
LocalLoopback ==
  /\ resetSleep = 0 /\ loop
  /\ IF thr # None THEN rhr' = thr /\ thr' = None /\ gone' = Leaves(rhr)
                   ELSE UNCHANGED <<rhr, thr, gone>>
  /\ UNCHANGED <<resetSleep, cooldown, ringVars, dropped>>

TransmitKeepingThr ==
  /\ UNCHANGED thr
  /\ outRing' = IF thr # None /\ Len(outRing) < RingCap THEN Append(outRing, thr) ELSE outRing
  /\ dropped' = (dropped \/ (thr # None /\ Len(outRing) = RingCap))
Transmit ==
  /\ thr' = None
  /\ outRing' = IF thr # None /\ Len(outRing) < RingCap THEN Append(outRing, thr) ELSE outRing
  /\ dropped' = (dropped \/ (thr # None /\ Len(outRing) = RingCap))

Receive ==
  LET left == IF cooldown = 0 THEN 0 ELSE cooldown - 1 IN
  IF rhr = None /\ dtr /\ left = 0 /\ inRing # <<>>
  THEN rhr' = Head(inRing) /\ inRing' = Tail(inRing) /\ cooldown' = Cooldown
  ELSE cooldown' = left /\ UNCHANGED <<rhr, inRing>>

Normal == /\ resetSleep = 0 /\ ~loop
          /\ Transmit /\ Receive
          /\ UNCHANGED <<resetSleep, gone>>

DuartTick == /\ phase = "duart" /\ phase' = "send"
             /\ Asleep \/ LocalLoopback \/ Normal
             /\ UNCHANGED <<mrPtr, loop, dtrPin, dtr, commVars, peerVars,
                            written, sent, got, refusals>>

(***************************************************************************)
(* comm_session_tick: first the way out, then the way in.                  *)
(***************************************************************************)
\* What session.send answers; control bytes go no further than the gate.
SendStatus(b) == IF b.kind \in {"xon", "xoff"} THEN "OK"
                 ELSE IF hung THEN "ERR"
                 ELSE IF toPeer = SessCap THEN "WOULD_BLOCK" ELSE "OK"

GateAfter(b) == CASE b.kind = "xon" -> TRUE [] b.kind = "xoff" -> FALSE [] OTHER -> xon
Forwarded(b) == b.kind \notin {"xon", "xoff"} /\ SendStatus(b) = "OK"

\* Pass b on, or hold it back.  A dead session loses it.
PassOnRetryingErrors(b) ==
  /\ xon' = GateAfter(b)
  /\ toPeer' = IF Forwarded(b) THEN toPeer + 1 ELSE toPeer
  /\ pendingRx' = IF SendStatus(b) = "OK" THEN None ELSE b
  /\ sent' = IF SendStatus(b) = "OK" THEN b.n ELSE sent
  /\ refusals' = IF SendStatus(b) = "WOULD_BLOCK" /\ refusals < RingCap
               THEN refusals + 1 ELSE refusals
PassOn(b) ==
  /\ xon' = GateAfter(b)
  /\ toPeer' = IF Forwarded(b) THEN toPeer + 1 ELSE toPeer
  /\ \/ /\ SendStatus(b) = "WOULD_BLOCK"
        /\ pendingRx' = b /\ UNCHANGED sent
        /\ refusals' = IF refusals < RingCap THEN refusals + 1 ELSE refusals
     \/ /\ SendStatus(b) # "WOULD_BLOCK"
        /\ pendingRx' = None /\ sent' = b.n /\ UNCHANGED refusals

CommSendWithoutRetry ==
  /\ phase = "send" /\ phase' = "recv"
  /\ \/ /\ pendingRx = None /\ outRing # <<>>
        /\ PassOn(Head(outRing)) /\ outRing' = Tail(outRing)
     \/ /\ pendingRx # None \/ outRing = <<>>
        /\ UNCHANGED <<xon, toPeer, pendingRx, sent, refusals, outRing>>
  /\ UNCHANGED <<duartVars, dtr, inRing, pendingTx, fromPeer, owes, hung,
                 written, got, gone, dropped>>
CommSend ==
  /\ phase = "send" /\ phase' = "recv"
  /\ \/ pendingRx # None /\ PassOn(pendingRx) /\ UNCHANGED outRing
     \/ /\ pendingRx = None /\ outRing # <<>>
        /\ PassOn(Head(outRing)) /\ outRing' = Tail(outRing)
     \/ /\ pendingRx = None /\ outRing = <<>>
        /\ UNCHANGED <<xon, toPeer, pendingRx, sent, refusals, outRing>>
  /\ UNCHANGED <<duartVars, dtr, inRing, pendingTx, fromPeer, owes, hung,
                 written, got, gone, dropped>>

\* A byte received while the ring is full is held back.
PushInDropping(b) == IF Len(inRing) < RingCap THEN inRing' = Append(inRing, b) /\ pendingTx' = None
                     ELSE UNCHANGED inRing /\ pendingTx' = None
PushIn(b) == IF Len(inRing) < RingCap THEN inRing' = Append(inRing, b) /\ pendingTx' = None
             ELSE UNCHANGED inRing /\ pendingTx' = b

\* The gate keeps the session's bytes queued while it is closed.
MayReceive == xon /\ fromPeer > 0

CommRecv ==
  /\ phase = "recv" /\ phase' = "dtr"
  /\ \/ pendingTx # None /\ PushIn(pendingTx) /\ UNCHANGED <<fromPeer, got>>
     \/ /\ pendingTx = None /\ MayReceive
        /\ PushIn([kind |-> "in", n |-> got + 1])
        /\ fromPeer' = fromPeer - 1 /\ got' = got + 1
     \/ /\ pendingTx = None /\ ~MayReceive
        /\ UNCHANGED <<inRing, pendingTx, fromPeer, got>>
  /\ UNCHANGED <<duartVars, dtr, outRing, pendingRx, xon, toPeer, owes, hung,
                 written, sent, gone, refusals, dropped>>

\* vt420_system_step copies the pin to the shared flag last.
UpdateDTR == /\ phase = "dtr" /\ phase' = "cpu"
             /\ dtr' = dtrPin
             /\ UNCHANGED <<duartVars, ringVars, commVars, peerVars, histVars>>

(***************************************************************************)
(* The peer.                                                               *)
(***************************************************************************)
Peer == UNCHANGED <<phase, duartVars, dtr, ringVars, commVars, histVars>>

PeerRead == /\ ~hung /\ toPeer > 0 /\ owes < PeerCap
            /\ toPeer' = toPeer - 1 /\ owes' = owes + 1
            /\ UNCHANGED <<fromPeer, hung>> /\ Peer

\* Answer a byte it read, or ignore it.
PeerAnswer == /\ ~hung /\ owes > 0
              /\ owes' = owes - 1
              /\ \/ /\ fromPeer < SessCap /\ got + fromPeer < MaxIn
                    /\ fromPeer' = fromPeer + 1
                 \/ got + fromPeer = MaxIn /\ UNCHANGED fromPeer
              /\ UNCHANGED <<toPeer, hung>> /\ Peer

PeerWrite == /\ ~hung /\ fromPeer < SessCap /\ got + fromPeer < MaxIn
             /\ fromPeer' = fromPeer + 1
             /\ UNCHANGED <<toPeer, owes, hung>> /\ Peer

HangUp == /\ ~hung /\ hung' = TRUE
          /\ UNCHANGED <<toPeer, fromPeer, owes>> /\ Peer

Next == \/ Firmware \/ DuartTick \/ CommSend \/ CommRecv \/ UpdateDTR
        \/ PeerRead \/ PeerAnswer \/ PeerWrite \/ HangUp

Spec == Init /\ [][Next]_vars

\* The emulation thread keeps stepping; the firmware comes back to RHR again and again (an
\* assumption on the ROM); the peer reads, and deals with what it has read.
StepFairness == WF_vars(Firmware \/ DuartTick \/ CommSend \/ CommRecv \/ UpdateDTR)
EchoSpec == Spec /\ StepFairness /\ SF_vars(ReadRHR) /\ WF_vars(PeerRead) /\ WF_vars(PeerAnswer)

-----------------------------------------------------------------------------
(***************************************************************************)
(* Properties.                                                             *)
(***************************************************************************)
OutByte == [kind : {"data", "xon", "xoff"}, n : 1..MaxOut]
InByte  == [kind : {"in"}, n : 1..MaxIn]

\* Every variable stays in its type; no ring exceeds its capacity.
TypeOK ==
  /\ phase \in {"cpu", "duart", "send", "recv", "dtr"}
  /\ resetSleep \in 0..ResetSleep /\ cooldown \in 0..Cooldown
  /\ {thr, pendingRx} \subseteq OutByte \cup {None} /\ pendingTx \in InByte \cup {None}
  /\ rhr \in InByte \cup OutByte \cup {None}    \* local loopback
  /\ {mrPtr, loop, dtrPin, dtr, xon, hung, dropped} \subseteq BOOLEAN
  /\ outRing \in Seq(OutByte) /\ Len(outRing) <= RingCap
  /\ inRing \in Seq(InByte) /\ Len(inRing) <= RingCap
  /\ toPeer \in 0..SessCap /\ fromPeer \in 0..SessCap /\ owes \in 0..PeerCap
  /\ written \in 0..MaxOut /\ sent \in 0..MaxOut
  /\ got \in 0..MaxIn /\ gone \in 0..MaxIn
  /\ refusals \in 0..RingCap

Held(b) == IF b = None THEN <<>> ELSE <<b>>

\* comm.c, duart.c: whatever the session refuses, a byte never overtakes another on its
\* way out, and none goes out twice -- the XON and XOFF that act on the gate included.
OutInOrder ==
  LET onTheWay == Held(pendingRx) \o outRing \o Held(thr)
  IN \A i \in 1..Len(onTheWay) :
       onTheWay[i].n > IF i = 1 THEN sent ELSE onTheWay[i-1].n

\* duart.c drops a byte when the ring is full and tells the firmware nothing.  That takes
\* at least RingCap refusals by the session: a session that accepts never costs a byte.
LossNeedsRefusals == dropped => refusals >= RingCap

\* The way in is a FIFO pipe of depth RingCap + 2: what comes from the session leaves the
\* receive register in order, none lost on the way however full ring and register are.
InPipe == INSTANCE SessionPipe
  WITH Depth <- RingCap + 2, accepted <- got, delivered <- gone, ended <- FALSE
InIsPipe == InPipe!Spec

\* A byte held back goes out in the end, even to a peer that stops reading until its own
\* answers are taken -- as long as the gate is open, DTR is up and local loopback is off.
\* (Behind a held byte an XON cannot reach the gate: with the gate closed, an echoing peer
\* and the terminal may wait for each other for ever.)
HeldByteLeaves == pendingRx # None ~> (pendingRx = None \/ ~xon \/ ~dtrPin \/ loop)

\* What is taken from the session reaches the firmware, to the last byte, while DTR is up and
\* loopback is off.  (The peer writes no more than MaxIn bytes: the firmware can catch up.)
GotIsRead == got > gone ~> (got = gone \/ ~dtrPin \/ loop)

\* No byte is held back for ever, in either direction.
BytesMoveOn == HeldByteLeaves /\ GotIsRead
=============================================================================
