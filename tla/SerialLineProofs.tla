--------------------------- MODULE SerialLineProofs ---------------------------
(***************************************************************************)
(* The safety of a serial line (SerialLine): for all capacities and any    *)
(* amount of traffic.                                                      *)
(***************************************************************************)
EXTENDS SerialLine, SequenceTheorems, TLAPS

\* The type invariant, in parts.
Flags == /\ mrPtr \in BOOLEAN /\ loop \in BOOLEAN /\ dtrPin \in BOOLEAN /\ dtr \in BOOLEAN
         /\ xon \in BOOLEAN /\ hung \in BOOLEAN /\ dropped \in BOOLEAN
Counters == /\ phase \in {"cpu", "duart", "send", "recv", "dtr"}
            /\ resetSleep \in 0..ResetSleep /\ cooldown \in 0..Cooldown
            /\ toPeer \in 0..SessCap /\ fromPeer \in 0..SessCap /\ owes \in 0..PeerCap
            /\ refusals \in 0..RingCap
OutPart == /\ thr \in OutByte \cup {None} /\ pendingRx \in OutByte \cup {None}
           /\ outRing \in Seq(OutByte) /\ Len(outRing) <= RingCap
           /\ written \in 0..MaxOut /\ sent \in 0..MaxOut
InPart  == /\ pendingTx \in InByte \cup {None} /\ rhr \in InByte \cup OutByte \cup {None}
           /\ inRing \in Seq(InByte) /\ Len(inRing) <= RingCap
           /\ got \in 0..MaxIn /\ gone \in 0..MaxIn
           /\ got + fromPeer <= MaxIn

\* The bytes on the way out are in the order in which they were written.
OutOrdered ==
  /\ sent <= written
  /\ pendingRx # None => sent < pendingRx.n /\ pendingRx.n <= written
  /\ \A i \in 1..Len(outRing) :
       /\ sent < outRing[i].n /\ outRing[i].n <= written
       /\ pendingRx # None => pendingRx.n < outRing[i].n
       /\ \A j \in 1..(i - 1) : outRing[j].n < outRing[i].n
  /\ thr # None => /\ sent < thr.n /\ thr.n <= written
                   /\ pendingRx # None => pendingRx.n < thr.n
                   /\ \A i \in 1..Len(outRing) : outRing[i].n < thr.n

\* What waits behind the session has been refused once for each byte of it; a byte that comes
\* in an iteration is accounted for when the comm session has had its turn.
HeldBack == Len(outRing) + IF pendingRx = None THEN 0 ELSE 1
Refused == \/ refusals = RingCap
           \/ HeldBack <= refusals
           \/ phase = "send" /\ HeldBack <= refusals + 1

\* The bytes on the way in: in the receive register, the ring and the comm session.
InRegister == IF rhr.kind = "in" THEN 1 ELSE 0
InHeld     == IF pendingTx = None THEN 0 ELSE 1
InNumbered ==
  /\ rhr.kind = "in" => rhr.n = gone + 1
  /\ \A i \in 1..Len(inRing) : inRing[i].n = gone + InRegister + i
  /\ pendingTx # None => pendingTx.n = gone + InRegister + Len(inRing) + 1
  /\ got = gone + InRegister + Len(inRing) + InHeld

SerialInv == /\ Flags /\ Counters /\ OutPart /\ InPart
             /\ OutOrdered /\ Refused /\ LossNeedsRefusals /\ InNumbered

LEMMA Constants ==
  /\ RingCap \in Nat \ {0} /\ Cooldown \in Nat \ {0} /\ SessCap \in Nat \ {0} /\ PeerCap \in Nat \ {0}
  /\ ResetSleep \in Nat /\ MaxOut \in Nat /\ MaxIn \in Nat
  /\ Kinds \subseteq {"data", "xon", "xoff"}
  BY SerialAssumption

LEMMA ByteFields ==
  /\ \A b \in OutByte : b.kind \in {"data", "xon", "xoff"} /\ b.n \in 1..MaxOut /\ b # None
  /\ \A b \in InByte : b.kind = "in" /\ b.n \in 1..MaxIn /\ b # None
  /\ None.kind = "none"
  BY DEF OutByte, InByte, None

LEMMA SerialBegins == Init => SerialInv
<1> SUFFICES ASSUME Init PROVE SerialInv
  OBVIOUS
<1> USE Constants
<1>1. Flags /\ Counters
  <2>1. Flags
    BY DEF Init, Flags
  <2>2. Counters
    BY DEF Init, Counters
  <2> QED
    BY <2>1, <2>2
<1>2. OutPart /\ InPart
  BY EmptySeq DEF Init, OutPart, InPart
<1>3. OutOrdered /\ Refused /\ LossNeedsRefusals
  BY EmptySeq DEF Init, OutOrdered, Refused, HeldBack, LossNeedsRefusals
<1>4. InNumbered
  BY EmptySeq, ByteFields DEF Init, InNumbered, InRegister, InHeld
<1> QED
  BY <1>1, <1>2, <1>3, <1>4 DEF SerialInv

-----------------------------------------------------------------------------
(***************************************************************************)
(* What each step does to the way out and to the way in.                   *)
(***************************************************************************)
LEMMA FirmwareStep == ASSUME SerialInv, Firmware PROVE SerialInv'
<1> USE DEF SerialInv
<1>1. /\ phase = "cpu" /\ phase' = "duart"
      /\ UNCHANGED <<resetSleep, cooldown, dtr, outRing, inRing, pendingRx, pendingTx, xon,
                     toPeer, fromPeer, owes, hung, sent, got, refusals, dropped>>
  BY DEF Firmware, NoAccess, ReadRHR, ResetMRPointer, ResetReceiver, ResetTransmitter, AccessMR, SwitchDTR,
     WriteTHR, Instruction, ringVars, commVars, peerVars
<1>2. mrPtr' \in {mrPtr, TRUE, FALSE} /\ loop' \in {loop, TRUE, FALSE} /\ dtrPin' \in {dtrPin, ~dtrPin}
  BY DEF Firmware, NoAccess, ReadRHR, ResetMRPointer, ResetReceiver, ResetTransmitter, AccessMR, SwitchDTR,
     WriteTHR
<1>3. \/ thr' \in {thr, None} /\ written' = written
      \/ \E k \in Kinds : /\ written < MaxOut /\ written' = written + 1
                          /\ thr' = [kind |-> k, n |-> written + 1]
  BY DEF Firmware, NoAccess, ReadRHR, ResetMRPointer, ResetReceiver, ResetTransmitter, AccessMR, SwitchDTR,
     WriteTHR
<1>4. \/ rhr' = rhr /\ gone' = gone
      \/ rhr' = None /\ gone' = Leaves(rhr)
  BY DEF Firmware, NoAccess, ReadRHR, ResetMRPointer, ResetReceiver, ResetTransmitter, AccessMR, SwitchDTR,
     WriteTHR
<1>5. Flags' /\ Counters' /\ LossNeedsRefusals' /\ Refused'
  <2>1. Flags'
    BY <1>1, <1>2 DEF Flags
  <2>2. Counters' /\ LossNeedsRefusals' /\ Refused'
    BY <1>1 DEF Counters, LossNeedsRefusals, Refused, HeldBack
  <2> QED
    BY <2>1, <2>2
<1>6. OutPart' /\ OutOrdered'
  <2>1. CASE thr' \in {thr, None} /\ written' = written
    BY <1>1, <2>1 DEF OutPart, OutOrdered
  <2>2. ASSUME NEW k \in Kinds, written < MaxOut, written' = written + 1,
               thr' = [kind |-> k, n |-> written + 1]
        PROVE  OutPart' /\ OutOrdered'
    <3>1. thr' \in OutByte /\ thr'.n = written + 1 /\ written' \in 0..MaxOut
      BY <2>2, Constants DEF OutByte, OutPart
    <3>2. \A i \in 1..Len(outRing) : outRing[i].n \in Nat
      BY ByteFields DEF OutPart
    <3>3. pendingRx # None => pendingRx.n \in Nat
      BY ByteFields DEF OutPart
    <3> QED
      BY <1>1, <2>2, <3>1, <3>2, <3>3, Constants DEF OutPart, OutOrdered
  <2> QED
    BY <1>3, <2>1, <2>2
<1>7. InPart' /\ InNumbered'
  <2>1. CASE rhr' = rhr /\ gone' = gone
    BY <1>1, <2>1 DEF InPart, InNumbered, InRegister, InHeld
  <2>2. CASE rhr' = None /\ gone' = Leaves(rhr)
    <3>1. gone' = gone + InRegister /\ InRegister' = 0
      <4>1. gone \in Nat /\ rhr'.kind = "none"
        BY <2>2, ByteFields DEF InPart
      <4> QED
        BY <2>2, <4>1 DEF Leaves, InRegister, InNumbered
    <3>2. gone' \in 0..MaxIn
      BY <2>2, ByteFields DEF Leaves, InPart
    <3>3. InPart'
      BY <1>1, <2>2, <3>2 DEF InPart
    <3>4. rhr'.kind # "in" /\ InHeld' = InHeld
      BY <1>1, <2>2, ByteFields DEF InHeld
    <3>5. InRegister \in 0..1 /\ InHeld \in 0..1
      BY DEF InRegister, InHeld
    <3>6. gone \in Nat /\ Len(inRing) \in Nat /\ got' = got /\ inRing' = inRing /\ pendingTx' = pendingTx
      BY <1>1 DEF InPart
    <3>7. InNumbered'
      BY <3>1, <3>4, <3>5, <3>6 DEF InNumbered
    <3> QED
      BY <3>3, <3>7
  <2> QED
    BY <1>4, <2>1, <2>2
<1> QED
  BY <1>5, <1>6, <1>7

\* A byte enters the outbound ring, or is dropped.
LEMMA TransmitStep ==
  ASSUME SerialInv, phase = "duart", Transmit, UNCHANGED <<pendingRx, written, sent, refusals>>,
         phase' = "send"
  PROVE  OutPart' /\ OutOrdered' /\ Refused' /\ LossNeedsRefusals' /\ dropped' \in BOOLEAN
<1> USE DEF SerialInv
<1>1. thr' = None /\ dropped' \in BOOLEAN
  BY DEF Transmit
<1>2. (dropped' => dropped \/ Len(outRing) = RingCap)
  BY DEF Transmit
<1>3. HeldBack \in Nat /\ Len(outRing) \in Nat /\ refusals \in 0..RingCap /\ HeldBack >= Len(outRing)
  BY DEF HeldBack, OutPart, Counters
<1>4. refusals = RingCap \/ HeldBack <= refusals
  BY DEF Refused
<1>5. LossNeedsRefusals'
  BY <1>2, <1>3, <1>4, Constants DEF LossNeedsRefusals
<1>6. CASE outRing' = outRing
  <2>1. OutPart' /\ OutOrdered'
    BY <1>1, <1>6 DEF OutPart, OutOrdered
  <2>2. Refused'
    BY <1>3, <1>4, <1>6 DEF Refused, HeldBack
  <2> QED
    BY <1>1, <1>5, <2>1, <2>2
<1>7. CASE thr # None /\ Len(outRing) < RingCap /\ outRing' = Append(outRing, thr)
  <2>1. /\ outRing \in Seq(OutByte) /\ thr \in OutByte
        /\ outRing' \in Seq(OutByte) /\ Len(outRing') = Len(outRing) + 1
        /\ outRing'[Len(outRing')] = thr
        /\ \A i \in 1..Len(outRing) : outRing'[i] = outRing[i]
    BY <1>7 DEF OutPart
  <2>2. OutPart'
    <3>1. Len(outRing') <= RingCap
      BY <1>3, <1>7, <2>1, Constants
    <3> QED
      BY <1>1, <2>1, <3>1 DEF OutPart
  <2>3. OutOrdered'
    <3>1. \A i \in 1..Len(outRing') : i \in 1..Len(outRing) \/ i = Len(outRing')
      BY <2>1
    <3>2. ASSUME NEW i \in 1..Len(outRing')
          PROVE  /\ sent < outRing'[i].n /\ outRing'[i].n <= written
                 /\ pendingRx # None => pendingRx.n < outRing'[i].n
                 /\ \A j \in 1..(i - 1) : outRing'[j].n < outRing'[i].n
      <4>1. CASE i \in 1..Len(outRing)
        <5>1. outRing'[i] = outRing[i] /\ \A j \in 1..(i - 1) : outRing'[j] = outRing[j]
          BY <2>1, <4>1
        <5> QED
          BY <4>1, <5>1 DEF OutOrdered
      <4>2. CASE i = Len(outRing')
        <5>1. outRing'[i] = thr /\ \A j \in 1..(i - 1) : j \in 1..Len(outRing) /\ outRing'[j] = outRing[j]
          BY <2>1, <4>2
        <5> QED
          BY <1>7, <5>1 DEF OutOrdered
      <4> QED
        BY <3>1, <4>1, <4>2
    <3> QED
      BY <1>1, <3>2 DEF OutOrdered
  <2>4. Refused'
    <3>1. HeldBack' = HeldBack + 1
      BY <1>3, <2>1 DEF HeldBack
    <3> QED
      BY <1>3, <1>4, <3>1 DEF Refused
  <2> QED
    BY <1>1, <1>5, <2>2, <2>3, <2>4
<1> QED
  BY <1>6, <1>7 DEF Transmit

LEMMA ReceiveStep ==
  ASSUME SerialInv, Receive, UNCHANGED <<pendingTx, got, gone, fromPeer>>
  PROVE  InPart' /\ InNumbered' /\ cooldown' \in 0..Cooldown
<1> USE DEF SerialInv
<1>1. cooldown' \in 0..Cooldown
  BY Constants DEF Receive, Counters
<1>2. CASE rhr' = rhr /\ inRing' = inRing
  BY <1>1, <1>2 DEF InPart, InNumbered, InRegister, InHeld
<1>3. CASE rhr = None /\ inRing # <<>> /\ rhr' = Head(inRing) /\ inRing' = Tail(inRing)
  <2>1. /\ inRing \in Seq(InByte) /\ rhr' = inRing[1] /\ rhr' \in InByte
        /\ inRing' \in Seq(InByte) /\ Len(inRing') = Len(inRing) - 1
        /\ \A i \in 1..Len(inRing') : i + 1 \in 1..Len(inRing) /\ inRing'[i] = inRing[i + 1]
    BY <1>3 DEF InPart
  <2>2. InPart'
    BY <1>3, <2>1, Constants DEF InPart
  <2>3. InRegister = 0 /\ InRegister' = 1 /\ InHeld' = InHeld /\ InHeld \in 0..1
    BY <1>3, <2>1, ByteFields DEF InRegister, InHeld
  <2>4. gone \in Nat /\ Len(inRing) \in Nat
    BY DEF InPart
  <2>5. rhr'.n = gone' + 1
    BY <1>3, <2>1, <2>3, <2>4 DEF InNumbered
  <2>6. ASSUME NEW i \in 1..Len(inRing') PROVE inRing'[i].n = gone' + InRegister' + i
    <3>1. inRing'[i] = inRing[i + 1] /\ inRing[i + 1].n = gone + InRegister + (i + 1)
      BY <2>1 DEF InNumbered
    <3>2. i \in Nat /\ gone' = gone
      BY <2>1, <2>4
    <3> QED
      BY <2>3, <2>4, <3>1, <3>2
  <2>7. /\ pendingTx' # None => pendingTx'.n = gone' + InRegister' + Len(inRing') + 1
        /\ got' = gone' + InRegister' + Len(inRing') + InHeld'
    BY <2>1, <2>3, <2>4 DEF InNumbered
  <2> QED
    BY <1>1, <2>2, <2>5, <2>6, <2>7 DEF InNumbered
<1> QED
  BY <1>2, <1>3 DEF Receive

LEMMA DuartStep == ASSUME SerialInv, DuartTick PROVE SerialInv'
<1> USE DEF SerialInv
<1>1. /\ phase = "duart" /\ phase' = "send"
      /\ UNCHANGED <<mrPtr, loop, dtrPin, dtr, pendingRx, pendingTx, xon, toPeer, fromPeer, owes, hung,
                     written, sent, got, refusals>>
  BY DEF DuartTick, commVars, peerVars
<1>2. CASE Asleep
  <2>1. resetSleep' \in 0..ResetSleep /\ UNCHANGED <<cooldown, thr, rhr, outRing, inRing, gone, dropped>>
    BY <1>2, Constants DEF Asleep, ringVars, Counters
  <2>2. Flags' /\ OutPart' /\ InPart' /\ LossNeedsRefusals'
    BY <1>1, <2>1 DEF Flags, OutPart, InPart, LossNeedsRefusals
  <2>3. OutOrdered'
    BY <1>1, <2>1 DEF OutOrdered
  <2>4. InNumbered'
    BY <1>1, <2>1 DEF InNumbered, InRegister, InHeld
  <2>5. Counters' /\ Refused'
    BY <1>1, <2>1 DEF Counters, Refused, HeldBack, OutPart
  <2> QED
    BY <2>2, <2>3, <2>4, <2>5
<1>3. CASE LocalLoopback
  <2>1. UNCHANGED <<resetSleep, cooldown, outRing, inRing, dropped>>
    BY <1>3 DEF LocalLoopback, ringVars
  <2>2. \/ thr # None /\ rhr' = thr /\ thr' = None /\ gone' = Leaves(rhr)
        \/ UNCHANGED <<rhr, thr, gone>>
    BY <1>3 DEF LocalLoopback
  <2>3. Flags' /\ LossNeedsRefusals'
    BY <1>1, <2>1 DEF Flags, LossNeedsRefusals
  <2>4. Counters' /\ Refused'
    BY <1>1, <2>1 DEF Counters, Refused, HeldBack, OutPart
  <2>5. OutPart' /\ OutOrdered'
    BY <1>1, <2>1, <2>2 DEF OutPart, OutOrdered
  <2>6. InPart' /\ InNumbered'
    <3>1. CASE UNCHANGED <<rhr, thr, gone>>
      BY <1>1, <2>1, <3>1 DEF InPart, InNumbered, InRegister, InHeld
    <3>2. CASE thr # None /\ rhr' = thr /\ thr' = None /\ gone' = Leaves(rhr)
      <4>1. rhr' \in OutByte /\ rhr'.kind # "in"
        BY <3>2, ByteFields DEF OutPart
      <4>2. gone \in Nat /\ Len(inRing) \in Nat
        BY DEF InPart
      <4>3. gone' = gone + InRegister /\ InRegister' = 0 /\ InHeld' = InHeld
        BY <1>1, <3>2, <4>1, <4>2 DEF Leaves, InRegister, InNumbered, InHeld
      <4>4. gone' \in 0..MaxIn
        BY <3>2, ByteFields DEF Leaves, InPart
      <4>5. InRegister \in 0..1 /\ InHeld \in 0..1
        BY DEF InRegister, InHeld
      <4>6. InNumbered'
        BY <1>1, <2>1, <4>1, <4>2, <4>3, <4>5 DEF InNumbered
      <4> QED
        BY <1>1, <2>1, <4>1, <4>4, <4>6 DEF InPart
    <3> QED
      BY <2>2, <3>1, <3>2
  <2> QED
    BY <2>3, <2>4, <2>5, <2>6
<1>4. CASE Normal
  <2>1. Transmit /\ Receive /\ UNCHANGED <<resetSleep, gone>>
    BY <1>4 DEF Normal
  <2>2. OutPart' /\ OutOrdered' /\ Refused' /\ LossNeedsRefusals' /\ dropped' \in BOOLEAN
    BY <1>1, <2>1, TransmitStep
  <2>3. InPart' /\ InNumbered' /\ cooldown' \in 0..Cooldown
    BY <1>1, <2>1, ReceiveStep
  <2>4. Flags'
    BY <1>1, <2>2 DEF Flags
  <2>5. Counters'
    BY <1>1, <2>1, <2>3 DEF Counters
  <2> QED
    BY <2>2, <2>3, <2>4, <2>5
<1> QED
  BY <1>2, <1>3, <1>4 DEF DuartTick

\* A byte b that is next to go out is passed on or held back.
LEMMA PassOnStep ==
  ASSUME SerialInv, NEW b \in OutByte, PassOn(b)
  PROVE  /\ xon' \in BOOLEAN /\ toPeer' \in 0..SessCap /\ refusals' \in 0..RingCap
         /\ \/ pendingRx' = b /\ sent' = sent /\ refusals' = (IF refusals < RingCap THEN refusals + 1 ELSE refusals)
            \/ pendingRx' = None /\ sent' = b.n /\ refusals' = refusals
<1>1. xon \in BOOLEAN /\ toPeer \in 0..SessCap /\ refusals \in 0..RingCap
  BY DEF SerialInv, Flags, Counters
<1>2. xon' \in BOOLEAN
  BY <1>1 DEF PassOn, GateAfter
<1>3. toPeer' \in 0..SessCap
  BY <1>1, Constants DEF PassOn, Forwarded, SendStatus
<1>4. \/ pendingRx' = b /\ sent' = sent /\ refusals' = (IF refusals < RingCap THEN refusals + 1 ELSE refusals)
      \/ pendingRx' = None /\ sent' = b.n /\ refusals' = refusals
  BY DEF PassOn
<1>5. refusals' \in 0..RingCap
  BY <1>1, <1>4, Constants
<1> QED
  BY <1>2, <1>3, <1>4, <1>5

LEMMA CommSendStep == ASSUME SerialInv, CommSend PROVE SerialInv'
<1> USE DEF SerialInv
<1>1. /\ phase = "send" /\ phase' = "recv"
      /\ UNCHANGED <<resetSleep, cooldown, thr, rhr, mrPtr, loop, dtrPin, dtr, inRing, pendingTx, fromPeer,
                     owes, hung, written, got, gone, dropped>>
  BY DEF CommSend, duartVars
<1>2. InPart' /\ InNumbered'
  BY <1>1 DEF InPart, InNumbered, InRegister, InHeld
<1>3. /\ Len(outRing) \in Nat /\ refusals \in 0..RingCap /\ outRing \in Seq(OutByte)
      /\ sent \in Nat /\ Len(outRing) <= RingCap
  BY DEF OutPart, Counters
<1>4. refusals = RingCap \/ HeldBack <= refusals + 1
  BY <1>3 DEF Refused, HeldBack
<1> DEFINE Held1(b) == /\ pendingRx' = b /\ sent' = sent
                       /\ refusals' = (IF refusals < RingCap THEN refusals + 1 ELSE refusals)
           Passed(b) == pendingRx' = None /\ sent' = b.n /\ refusals' = refusals
           Others == xon' \in BOOLEAN /\ toPeer' \in 0..SessCap /\ refusals' \in 0..RingCap
<1>5. ASSUME Others, dropped => refusals' >= RingCap PROVE Flags' /\ Counters' /\ LossNeedsRefusals'
  <2>1. Flags'
    BY <1>1, <1>5 DEF Flags
  <2>2. Counters'
    BY <1>1, <1>5 DEF Counters
  <2> QED
    BY <1>1, <1>5, <2>1, <2>2 DEF LossNeedsRefusals
<1>6. CASE pendingRx # None /\ PassOn(pendingRx) /\ UNCHANGED outRing
  <2>1. pendingRx \in OutByte
    BY <1>6 DEF OutPart
  <2>2. Others /\ (Held1(pendingRx) \/ Passed(pendingRx))
    BY <1>6, <2>1, PassOnStep
  <2>3. pendingRx.n \in 1..MaxOut
    BY <2>1, ByteFields
  <2>4. OutPart'
    BY <1>1, <1>6, <2>2, <2>3, Constants DEF OutPart
  <2>5. OutOrdered'
    <3>1. CASE Held1(pendingRx)
      BY <1>1, <1>6, <3>1 DEF OutOrdered
    <3>2. CASE Passed(pendingRx)
      BY <1>1, <1>6, <3>2 DEF OutOrdered
    <3> QED
      BY <2>2, <3>1, <3>2
  <2>6. Refused'
    <3>1. HeldBack = Len(outRing) + 1
      BY <1>6 DEF HeldBack
    <3>2. CASE Held1(pendingRx)
      <4>1. HeldBack' = Len(outRing) + 1
        BY <1>6, <3>2 DEF HeldBack
      <4> QED
        BY <1>3, <1>4, <3>1, <3>2, <4>1, Constants DEF Refused
    <3>3. CASE Passed(pendingRx)
      <4>1. HeldBack' = Len(outRing)
        BY <1>3, <1>6, <3>3 DEF HeldBack
      <4> QED
        BY <1>3, <1>4, <3>1, <3>3, <4>1, Constants DEF Refused
    <3> QED
      BY <2>2, <3>2, <3>3
  <2>7. dropped => refusals' >= RingCap
    BY <1>3, <2>2, Constants DEF LossNeedsRefusals
  <2> QED
    BY <1>2, <1>5, <2>2, <2>4, <2>5, <2>6, <2>7
<1>7. CASE /\ pendingRx = None /\ outRing # <<>>
           /\ PassOn(Head(outRing)) /\ outRing' = Tail(outRing)
  <2> DEFINE b == outRing[1]
  <2>1. /\ b \in OutByte /\ Head(outRing) = b /\ 1 \in 1..Len(outRing)
        /\ outRing' \in Seq(OutByte) /\ Len(outRing') = Len(outRing) - 1
        /\ \A i \in 1..Len(outRing') : i + 1 \in 1..Len(outRing) /\ outRing'[i] = outRing[i + 1]
    BY <1>3, <1>7
  <2> HIDE DEF b
  <2>2. Others /\ (Held1(b) \/ Passed(b))
    BY <1>7, <2>1, PassOnStep
  <2>3. b.n \in 1..MaxOut /\ b # None
    BY <2>1, ByteFields
  <2>4. OutPart'
    BY <1>1, <1>3, <2>1, <2>2, <2>3, Constants DEF OutPart
  <2>5. OutOrdered'
    <3>1. sent < b.n /\ b.n <= written
      BY <2>1 DEF OutOrdered, b
    <3>2. thr # None => b.n < thr.n /\ thr.n <= written /\ \A i \in 1..Len(outRing') : outRing'[i].n < thr.n
      BY <2>1 DEF OutOrdered, b
    <3>3. ASSUME NEW i \in 1..Len(outRing')
          PROVE  /\ b.n < outRing'[i].n /\ outRing'[i].n <= written
                 /\ \A j \in 1..(i - 1) : outRing'[j].n < outRing'[i].n
      <4>1. i + 1 \in 1..Len(outRing) /\ outRing'[i] = outRing[i + 1] /\ 1 \in 1..((i + 1) - 1)
        BY <2>1
      <4>2. b.n < outRing'[i].n /\ outRing'[i].n <= written
        BY <4>1 DEF OutOrdered, b
      <4>3. ASSUME NEW j \in 1..(i - 1) PROVE outRing'[j].n < outRing'[i].n
        <5>1. j \in 1..Len(outRing') /\ j + 1 \in 1..((i + 1) - 1)
          BY <2>1
        <5>2. outRing'[j] = outRing[j + 1]
          BY <2>1, <5>1
        <5> QED
          BY <4>1, <5>1, <5>2 DEF OutOrdered
      <4> QED
        BY <4>2, <4>3
    <3>4. \A i \in 1..Len(outRing') : outRing'[i].n \in Nat
      BY <2>1, ByteFields
    <3>5. thr \in OutByte \cup {None} /\ (thr # None => thr.n \in Nat)
      BY ByteFields DEF OutPart
    <3>6. CASE Held1(b)
      BY <1>1, <1>3, <2>3, <3>1, <3>2, <3>3, <3>4, <3>5, <3>6 DEF OutOrdered, OutPart
    <3>7. CASE Passed(b)
      BY <1>1, <1>3, <2>3, <3>1, <3>2, <3>3, <3>4, <3>5, <3>7 DEF OutOrdered, OutPart
    <3> QED
      BY <2>2, <3>6, <3>7
  <2>6. Refused'
    <3>1. HeldBack = Len(outRing)
      BY <1>3, <1>7 DEF HeldBack
    <3>2. HeldBack' = IF pendingRx' = None THEN Len(outRing) - 1 ELSE Len(outRing)
      BY <1>3, <2>1 DEF HeldBack
    <3> QED
      BY <1>3, <1>4, <2>2, <2>3, <3>1, <3>2, Constants DEF Refused
  <2>7. dropped => refusals' >= RingCap
    BY <1>3, <2>2, Constants DEF LossNeedsRefusals
  <2> QED
    BY <1>2, <1>5, <2>2, <2>4, <2>5, <2>6, <2>7
<1>8. CASE pendingRx = None /\ outRing = <<>> /\ UNCHANGED <<xon, toPeer, pendingRx, sent, refusals, outRing>>
  <2>1. Others /\ (dropped => refusals' >= RingCap)
    BY <1>8 DEF Flags, Counters, LossNeedsRefusals
  <2>2. OutPart' /\ OutOrdered'
    BY <1>1, <1>8 DEF OutPart, OutOrdered
  <2>3. Refused'
    BY <1>3, <1>8, EmptySeq DEF Refused, HeldBack
  <2> QED
    BY <1>2, <1>5, <2>1, <2>2, <2>3
<1> QED
  BY <1>6, <1>7, <1>8 DEF CommSend

\* The byte with the next number enters the inbound ring or is held back.
LEMMA PushInStep ==
  ASSUME SerialInv, NEW b \in InByte, NEW g \in 0..1, PushIn(b),
         b.n = gone + InRegister + Len(inRing) + 1,
         got' = gone + InRegister + Len(inRing) + 1, got' \in 0..MaxIn, got' + fromPeer' <= MaxIn,
         UNCHANGED <<rhr, gone>>
  PROVE  InPart' /\ InNumbered'
<1> USE DEF SerialInv
<1>1. /\ inRing \in Seq(InByte) /\ Len(inRing) \in Nat /\ Len(inRing) <= RingCap
      /\ gone \in Nat /\ InRegister \in 0..1 /\ InRegister' = InRegister /\ b # None
  BY ByteFields DEF InPart, InRegister
<1>2. CASE Len(inRing) < RingCap /\ inRing' = Append(inRing, b) /\ pendingTx' = None
  <2>1. /\ inRing' \in Seq(InByte) /\ Len(inRing') = Len(inRing) + 1
        /\ \A i \in 1..Len(inRing') : inRing'[i] = IF i <= Len(inRing) THEN inRing[i] ELSE b
    BY <1>1, <1>2
  <2>2. Len(inRing') <= RingCap
    BY <1>1, <1>2, <2>1, Constants
  <2>3. InPart'
    BY <1>2, <2>1, <2>2 DEF InPart
  <2>4. ASSUME NEW i \in 1..Len(inRing') PROVE inRing'[i].n = gone' + InRegister' + i
    <3>1. CASE i <= Len(inRing)
      <4>1. i \in 1..Len(inRing) /\ inRing'[i] = inRing[i]
        BY <1>1, <2>1, <3>1
      <4> QED
        BY <1>1, <4>1 DEF InNumbered
    <3>2. CASE ~(i <= Len(inRing))
      <4>1. i = Len(inRing) + 1 /\ inRing'[i] = b
        BY <1>1, <2>1, <3>2
      <4> QED
        BY <1>1, <4>1
    <3> QED
      BY <3>1, <3>2
  <2>5. got' = gone' + InRegister' + Len(inRing') + InHeld'
    BY <1>1, <1>2, <2>1 DEF InHeld
  <2>6. rhr'.kind = "in" => rhr'.n = gone' + 1
    BY DEF InNumbered
  <2> QED
    BY <1>2, <2>3, <2>4, <2>5, <2>6 DEF InNumbered
<1>3. CASE inRing' = inRing /\ pendingTx' = b
  <2>1. InPart'
    BY <1>3 DEF InPart
  <2>2. \A i \in 1..Len(inRing') : inRing'[i].n = gone' + InRegister' + i
    BY <1>1, <1>3 DEF InNumbered
  <2>3. got' = gone' + InRegister' + Len(inRing') + InHeld' /\ pendingTx'.n = gone' + InRegister' + Len(inRing') + 1
    BY <1>1, <1>3 DEF InHeld
  <2>4. rhr'.kind = "in" => rhr'.n = gone' + 1
    BY DEF InNumbered
  <2> QED
    BY <2>1, <2>2, <2>3, <2>4 DEF InNumbered
<1> QED
  BY <1>2, <1>3 DEF PushIn

LEMMA CommRecvStep == ASSUME SerialInv, CommRecv PROVE SerialInv'
<1> USE DEF SerialInv
<1>1. /\ phase = "recv" /\ phase' = "dtr"
      /\ UNCHANGED <<resetSleep, cooldown, thr, rhr, mrPtr, loop, dtrPin, dtr, outRing, pendingRx, xon, toPeer,
                     owes, hung, written, sent, gone, refusals, dropped>>
  BY DEF CommRecv, duartVars
<1>2. fromPeer' \in 0..SessCap
  <2>1. fromPeer' = fromPeer \/ (fromPeer > 0 /\ fromPeer' = fromPeer - 1)
    BY DEF CommRecv, MayReceive
  <2> QED
    BY <2>1, Constants DEF Counters
<1>3. Flags'
  BY <1>1 DEF Flags
<1>4. Counters'
  BY <1>1, <1>2 DEF Counters
<1>5. OutPart' /\ OutOrdered' /\ Refused' /\ LossNeedsRefusals'
  BY <1>1 DEF OutPart, OutOrdered, Refused, HeldBack, LossNeedsRefusals
<1>6. /\ gone \in Nat /\ Len(inRing) \in Nat /\ InRegister \in 0..1 /\ fromPeer \in Nat /\ got \in 0..MaxIn
      /\ got + fromPeer <= MaxIn
  BY DEF InPart, Counters, InRegister
<1>7. InPart' /\ InNumbered'
  <2>1. CASE pendingTx # None /\ PushIn(pendingTx) /\ UNCHANGED <<fromPeer, got>>
    <3>1. pendingTx \in InByte /\ pendingTx.n = gone + InRegister + Len(inRing) + 1
      BY <2>1 DEF InPart, InNumbered
    <3>2. got' = gone + InRegister + Len(inRing) + 1
      BY <2>1 DEF InNumbered, InHeld
    <3> QED
      BY <1>1, <1>6, <2>1, <3>1, <3>2, PushInStep
  <2>2. CASE /\ pendingTx = None /\ MayReceive
             /\ PushIn([kind |-> "in", n |-> got + 1])
             /\ fromPeer' = fromPeer - 1 /\ got' = got + 1
    <3>1. got = gone + InRegister + Len(inRing) /\ fromPeer > 0
      BY <1>6, <2>2 DEF InNumbered, InHeld, MayReceive
    <3>2. got' \in 1..MaxIn /\ got' + fromPeer' <= MaxIn
      BY <1>6, <2>2, <3>1, Constants
    <3>3. [kind |-> "in", n |-> got + 1] \in InByte
      BY <2>2, <3>2 DEF InByte
    <3> QED
      BY <1>1, <1>6, <2>2, <3>1, <3>2, <3>3, PushInStep
  <2>3. CASE UNCHANGED <<inRing, pendingTx, fromPeer, got>>
    BY <1>1, <2>3 DEF InPart, InNumbered, InRegister, InHeld
  <2> QED
    BY <2>1, <2>2, <2>3 DEF CommRecv
<1> QED
  BY <1>3, <1>4, <1>5, <1>7

LEMMA UpdateDTRStep == ASSUME SerialInv, UpdateDTR PROVE SerialInv'
<1> USE DEF SerialInv
<1>1. /\ phase = "dtr" /\ phase' = "cpu" /\ dtr' = dtrPin
      /\ UNCHANGED <<resetSleep, cooldown, thr, rhr, mrPtr, loop, dtrPin, outRing, inRing, pendingRx, pendingTx,
                     xon, toPeer, fromPeer, owes, hung, written, sent, got, gone, refusals, dropped>>
  BY DEF UpdateDTR, duartVars, ringVars, commVars, peerVars, histVars
<1>2. Flags' /\ Counters'
  <2>1. Flags'
    BY <1>1 DEF Flags
  <2>2. Counters'
    BY <1>1 DEF Counters
  <2> QED
    BY <2>1, <2>2
<1>3. OutPart' /\ OutOrdered' /\ Refused' /\ LossNeedsRefusals'
  BY <1>1 DEF OutPart, OutOrdered, Refused, HeldBack, LossNeedsRefusals
<1>4. InPart' /\ InNumbered'
  BY <1>1 DEF InPart, InNumbered, InRegister, InHeld
<1> QED
  BY <1>2, <1>3, <1>4

LEMMA PeerStep ==
  ASSUME SerialInv, PeerRead \/ PeerAnswer \/ PeerWrite \/ HangUp
  PROVE  SerialInv'
<1> USE DEF SerialInv
<1>1. UNCHANGED <<phase, resetSleep, cooldown, thr, rhr, mrPtr, loop, dtrPin, dtr, outRing, inRing, pendingRx,
                  pendingTx, xon, written, sent, got, gone, refusals, dropped>>
  BY DEF PeerRead, PeerAnswer, PeerWrite, HangUp, Peer, duartVars, ringVars, commVars, histVars
<1>2. hung' \in {hung, TRUE}
  BY DEF PeerRead, PeerAnswer, PeerWrite, HangUp
<1>3. /\ toPeer \in 0..SessCap /\ fromPeer \in 0..SessCap /\ owes \in 0..PeerCap /\ got \in 0..MaxIn
      /\ got + fromPeer <= MaxIn
  BY DEF Counters, InPart
<1>4. toPeer' \in 0..SessCap /\ owes' \in 0..PeerCap
  BY <1>3, Constants DEF PeerRead, PeerAnswer, PeerWrite, HangUp
<1>5. fromPeer' \in 0..SessCap /\ got + fromPeer' <= MaxIn
  BY <1>3, Constants DEF PeerRead, PeerAnswer, PeerWrite, HangUp
<1>6. Flags'
  BY <1>1, <1>2 DEF Flags
<1>7. Counters'
  BY <1>1, <1>4, <1>5 DEF Counters
<1>8. OutPart' /\ OutOrdered' /\ Refused' /\ LossNeedsRefusals'
  BY <1>1 DEF OutPart, OutOrdered, Refused, HeldBack, LossNeedsRefusals
<1>9. InPart' /\ InNumbered'
  BY <1>1, <1>5 DEF InPart, InNumbered, InRegister, InHeld
<1> QED
  BY <1>6, <1>7, <1>8, <1>9

-----------------------------------------------------------------------------
LEMMA SerialInductive == Spec => []SerialInv
<1>1. SerialInv /\ [Next]_vars => SerialInv'
  <2> SUFFICES ASSUME SerialInv, [Next]_vars PROVE SerialInv'
    OBVIOUS
  <2>1. CASE Next
    BY <2>1, FirmwareStep, DuartStep, CommSendStep, CommRecvStep, UpdateDTRStep, PeerStep DEF Next
  <2>2. CASE UNCHANGED vars
    <3>1. Flags' /\ Counters' /\ OutPart' /\ InPart'
      BY <2>2 DEF vars, duartVars, ringVars, commVars, peerVars, histVars, SerialInv, Flags, Counters, OutPart,
         InPart
    <3>2. OutOrdered' /\ Refused' /\ LossNeedsRefusals' /\ InNumbered'
      BY <2>2 DEF vars, duartVars, ringVars, commVars, peerVars, histVars, SerialInv, OutOrdered, Refused,
         HeldBack, LossNeedsRefusals, InNumbered, InRegister, InHeld
    <3> QED
      BY <3>1, <3>2 DEF SerialInv
  <2> QED
    BY <2>1, <2>2
<1> QED
  BY <1>1, SerialBegins, PTL DEF Spec

\* Every variable of a serial line stays in its type, and no ring exceeds its capacity.
THEOREM SerialTypeCorrect == Spec => []TypeOK
<1>1. SerialInv => TypeOK
  BY DEF SerialInv, Flags, Counters, OutPart, InPart, TypeOK
<1> QED
  BY <1>1, SerialInductive, PTL

\* duart.c, comm.c: for every capacity, the firmware loses a byte only after the session has
\* refused as many bytes as the ring holds.
THEOREM SerialLosses == Spec => []LossNeedsRefusals
<1>1. SerialInv => LossNeedsRefusals
  BY DEF SerialInv
<1> QED
  BY <1>1, SerialInductive, PTL

LEMMA BytesOfConcat ==
  ASSUME NEW a \in Seq(OutByte), NEW b \in Seq(OutByte)
  PROVE  /\ Len(a \o b) = Len(a) + Len(b)
         /\ \A i \in 1..Len(a \o b) : (a \o b)[i] = IF i <= Len(a) THEN a[i] ELSE b[i - Len(a)]
  BY ConcatProperties

\* comm.c, duart.c: for every capacity and any traffic, bytes go out in order and once.
THEOREM SerialOrder == Spec => []OutInOrder
<1>1. SerialInv => OutInOrder
  <2> SUFFICES ASSUME SerialInv PROVE OutInOrder
    OBVIOUS
  <2> DEFINE p == Held(pendingRx)
             q == Held(thr)
             s == p \o outRing
             all == s \o q
  <2>1. p \in Seq(OutByte) /\ q \in Seq(OutByte) /\ outRing \in Seq(OutByte)
    BY DEF Held, SerialInv, OutPart
  <2>2. /\ pendingRx # None => Len(p) = 1 /\ p[1] = pendingRx
        /\ pendingRx = None => Len(p) = 0
        /\ thr # None => Len(q) = 1 /\ q[1] = thr
        /\ thr = None => Len(q) = 0
    BY DEF Held
  <2> HIDE DEF p, q
  <2>3. /\ s \in Seq(OutByte) /\ Len(s) = Len(p) + Len(outRing)
        /\ \A i \in 1..Len(s) : s[i] = IF i <= Len(p) THEN p[i] ELSE outRing[i - Len(p)]
    BY <2>1
  <2> HIDE DEF s
  <2>4. /\ Len(all) = Len(s) + Len(q)
        /\ \A i \in 1..Len(all) : all[i] = IF i <= Len(s) THEN s[i] ELSE q[i - Len(s)]
    BY <2>1, <2>3, BytesOfConcat
  <2> HIDE DEF all
  <2>5. Len(p) \in 0..1 /\ Len(q) \in 0..1 /\ Len(outRing) \in Nat
    BY <2>1, <2>2
  <2>6. ASSUME NEW i \in 1..Len(all) PROVE all[i].n > IF i = 1 THEN sent ELSE all[i-1].n
    <3>1. CASE i <= Len(p)
      BY <2>2, <2>3, <2>4, <2>5, <3>1 DEF SerialInv, OutOrdered
    <3>2. CASE Len(p) < i /\ i <= Len(s)
      <4>1. i - Len(p) \in 1..Len(outRing) /\ all[i] = outRing[i - Len(p)]
        BY <2>3, <2>4, <2>5, <3>2
      <4>2. CASE i = 1
        BY <4>1, <4>2 DEF SerialInv, OutOrdered
      <4>3. CASE i # 1 /\ i - 1 <= Len(p)
        <5>1. all[i - 1] = pendingRx /\ pendingRx # None
          BY <2>2, <2>3, <2>4, <2>5, <3>2, <4>3
        <5> QED
          BY <4>1, <4>3, <5>1 DEF SerialInv, OutOrdered
      <4>4. CASE i # 1 /\ i - 1 > Len(p)
        <5>1. i - 1 \in 1..Len(s) /\ i - 1 \in 1..Len(all) /\ ~(i - 1 <= Len(p)) /\ i - 1 <= Len(s)
          BY <2>3, <2>4, <2>5, <3>2, <4>4
        <5>2. all[i - 1] = s[i - 1] /\ s[i - 1] = outRing[(i - 1) - Len(p)]
          BY <2>3, <2>4, <5>1
        <5>3. (i - 1) - Len(p) \in 1..((i - Len(p)) - 1)
          BY <2>5, <5>1
        <5> QED
          BY <4>1, <4>4, <5>2, <5>3 DEF SerialInv, OutOrdered
      <4> QED
        BY <2>5, <4>2, <4>3, <4>4
    <3>3. CASE i > Len(s)
      <4>1. all[i] = thr /\ thr # None /\ i = Len(s) + 1
        BY <2>2, <2>3, <2>4, <2>5, <3>3
      <4>2. CASE i = 1
        BY <4>1, <4>2 DEF SerialInv, OutOrdered
      <4>3. CASE i # 1 /\ i - 1 <= Len(p)
        <5>1. all[i - 1] = pendingRx /\ pendingRx # None
          BY <2>2, <2>3, <2>4, <2>5, <4>1, <4>3
        <5> QED
          BY <4>1, <4>3, <5>1 DEF SerialInv, OutOrdered
      <4>4. CASE i # 1 /\ i - 1 > Len(p)
        <5>1. all[i - 1] = outRing[(i - 1) - Len(p)] /\ (i - 1) - Len(p) \in 1..Len(outRing)
          BY <2>3, <2>4, <2>5, <4>1, <4>4
        <5> QED
          BY <4>1, <4>4, <5>1 DEF SerialInv, OutOrdered
      <4> QED
        BY <2>5, <4>2, <4>3, <4>4
    <3> QED
      BY <2>3, <2>5, <3>1, <3>2, <3>3
  <2> QED
    BY <2>6 DEF OutInOrder, all, s, p, q
<1> QED
  BY <1>1, SerialInductive, PTL

\* The state of the bounded pipe that the way in implements.
LEMMA InWithinDepth ==
  ASSUME SerialInv
  PROVE  got \in Nat /\ gone \in Nat /\ gone <= got /\ (pendingTx = None => got - gone < RingCap + 2)
<1>1. got \in Nat /\ gone \in Nat /\ Len(inRing) \in Nat /\ Len(inRing) <= RingCap
  BY DEF SerialInv, InPart
<1>2. InRegister \in 0..1 /\ InHeld \in 0..1 /\ (pendingTx = None => InHeld = 0)
  BY DEF InRegister, InHeld
<1>3. got = gone + InRegister + Len(inRing) + InHeld
  BY DEF SerialInv, InNumbered
<1> QED
  BY <1>1, <1>2, <1>3, Constants

\* duart.c, comm.c: for every capacity, the way in is a FIFO pipe that loses nothing.
THEOREM SerialInput == Spec => InIsPipe
<1>1. Init => InPipe!Init
  BY DEF Init, InPipe!Init
<1>2. ASSUME SerialInv, [Next]_vars PROVE [InPipe!Next]_InPipe!vars
  <2>1. ASSUME gone' = Leaves(rhr), UNCHANGED got PROVE [InPipe!Next]_InPipe!vars
    <3>1. CASE rhr.kind = "in"
      <4>1. gone' = gone + 1 /\ gone < got
        <5>1. InRegister = 1 /\ InHeld \in 0..1 /\ Len(inRing) \in Nat /\ gone \in Nat
          BY <1>2, <3>1 DEF InRegister, InHeld, SerialInv, InPart
        <5>2. rhr.n = gone + 1 /\ got = gone + InRegister + Len(inRing) + InHeld
          BY <1>2, <3>1 DEF SerialInv, InNumbered
        <5> QED
          BY <2>1, <3>1, <5>1, <5>2 DEF Leaves
      <4> QED
        BY <2>1, <4>1 DEF InPipe!Next, InPipe!Deliver
    <3>2. CASE rhr.kind # "in"
      BY <2>1, <3>2 DEF Leaves, InPipe!vars
    <3> QED
      BY <3>1, <3>2
  <2>2. CASE Firmware
    <3>1. UNCHANGED got /\ (gone' = gone \/ gone' = Leaves(rhr))
      BY <2>2 DEF Firmware, NoAccess, ReadRHR, ResetMRPointer, ResetReceiver, ResetTransmitter, AccessMR,
         SwitchDTR, WriteTHR, Instruction
    <3> QED
      BY <2>1, <3>1 DEF InPipe!vars
  <2>3. CASE DuartTick
    <3>1. UNCHANGED got /\ (gone' = gone \/ gone' = Leaves(rhr))
      BY <2>3 DEF DuartTick, Asleep, LocalLoopback, Normal
    <3> QED
      BY <2>1, <3>1 DEF InPipe!vars
  <2>4. CASE CommRecv
    <3>1. gone' = gone /\ (got' = got \/ (pendingTx = None /\ got' = got + 1))
      BY <2>4 DEF CommRecv
    <3> QED
      BY <1>2, <3>1, InWithinDepth DEF InPipe!vars, InPipe!Next, InPipe!Accept
  <2>5. CASE CommSend \/ UpdateDTR \/ PeerRead \/ PeerAnswer \/ PeerWrite \/ HangUp \/ UNCHANGED vars
    <3>1. UNCHANGED <<got, gone>>
      BY <2>5 DEF CommSend, UpdateDTR, PeerRead, PeerAnswer, PeerWrite, HangUp, Peer, vars, histVars
    <3> QED
      BY <3>1 DEF InPipe!vars
  <2> QED
    BY <1>2, <2>2, <2>3, <2>4, <2>5 DEF Next
<1> QED
  BY <1>1, <1>2, SerialInductive, PTL DEF Spec, InIsPipe, InPipe!Spec
=============================================================================
