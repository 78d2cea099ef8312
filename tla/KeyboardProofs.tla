---------------------------- MODULE KeyboardProofs ----------------------------
(***************************************************************************)
(* The safety of the keyboard line (KeyboardLink): for all capacities,     *)
(* frame lengths and any amount of traffic.                                *)
(***************************************************************************)
EXTENDS KeyboardLink, SequenceTheorems, WellFoundedInduction, TLAPS

LEMMA FrameBounds ==
  /\ Longest \in Nat \ {0} /\ Shortest \in Nat \ {0}
  /\ \A f \in Frames : f \in Nat \ {0} /\ f <= Longest /\ f >= Shortest
  /\ Longest \in Frames /\ Shortest \in Frames
<1>1. \A f \in Frames : f \in Nat \ {0}
  BY KeyboardAssumption
<1>2. Longest \in Frames /\ \A f \in Frames : Longest >= f
  BY KeyboardAssumption DEF Longest
<1>3. Shortest \in Frames /\ \A f \in Frames : Shortest <= f
  BY KeyboardAssumption DEF Shortest
<1> QED
  BY <1>1, <1>2, <1>3

\* The time of i frames.
LEMMA LongestIsLinear ==
  /\ \A i, j \in Nat : i <= j => i * Longest <= j * Longest
  /\ \A i \in Nat \ {0} : (i - 1) * Longest \in Nat /\ (i - 1) * Longest + Longest = i * Longest
<1>1. ASSUME NEW L \in Nat, NEW i \in Nat, NEW j \in Nat, i <= j PROVE i * L <= j * L
  <2>1. j - i \in Nat
    BY <1>1
  <2>2. (j - i) * L \in Nat /\ j * L = (j - i) * L + i * L /\ i * L \in Nat
    BY <1>1, <2>1
  <2> QED
    BY <2>2
<1>2. ASSUME NEW L \in Nat, NEW i \in Nat \ {0} PROVE (i - 1) * L \in Nat /\ (i - 1) * L + L = i * L
  BY <1>2
<1> QED
  BY <1>1, <1>2, FrameBounds

\* The type invariant, in parts.
Codes == {"key", "marked", "reply"}
Flags == /\ ren \in BOOLEAN /\ ri \in BOOLEAN /\ ti \in BOOLEAN /\ rash \in BOOLEAN
Port  == /\ phase \in {"cpu", "keyboard", "serial"} /\ frame \in Frames
         /\ sendTicks \in 0..Longest /\ recvTicks \in 0..Longest
         /\ sending \in Kinds \cup {None} /\ buffered \in Kinds \cup {None}
         /\ riAge \in 0..Longest
         /\ replies \in Nat /\ raised \in Nat /\ pushed \in Nat
Rings == /\ down \in Seq(Kinds) /\ Len(down) <= RingCap
         /\ up \in Seq(Codes) /\ Len(up) <= RingCap
         /\ queue \in Seq(Kinds) /\ Len(queue) <= QueueCap
         /\ written \in Seq(Kinds) /\ heard \in Seq(Kinds)

\* The transmitter is idle, or sends a byte while another may wait.
Transmitter == /\ sending = None <=> sendTicks = 0
               /\ sending = None => buffered = None

\* Between two ticks of the keyboard at most one byte arrives.
Emptied == /\ phase = "serial" => down = <<>>
           /\ Len(down) <= 1

Underway == (IF sending = None THEN 0 ELSE 1) + (IF buffered = None THEN 0 ELSE 1)

\* As long as at most two bytes are on their way, the flag TI is raised once for each byte.
Counted == ~rash => Len(written) = raised + Underway

\* The marked key leaves the ring after the frame in progress and those of the keys before it.
FrameLeft == IF recvTicks = 0 THEN 1 ELSE recvTicks
OnTime == \A i \in 1..Len(up) :
            up[i] = "marked" => age + FrameLeft + (i - 1) * Longest <= RingCap * Longest

\* A frame that was in progress, or starts, while RI is set still takes the rest of the
\* shortest frame.
Warned == ri => \/ recvTicks = 0
                \/ riAge >= Shortest
                \/ recvTicks + riAge >= IF phase = "cpu" THEN Shortest ELSE Shortest + 1

KeyboardInv == /\ Flags /\ Port /\ Rings /\ age \in 0..(RingCap * Longest + 1)
               /\ Transmitter /\ Emptied /\ Counted /\ CommandsAreHeard
               /\ OnTime /\ Warned

-----------------------------------------------------------------------------
(***************************************************************************)
(* Rings.                                                                  *)
(***************************************************************************)
LEMMA EnqueueFits ==
  ASSUME NEW S, NEW r \in Seq(S), NEW b \in S, Len(r) <= RingCap
  PROVE  Enqueue(r, b) \in Seq(S) /\ Len(Enqueue(r, b)) <= RingCap
  BY KeyboardAssumption DEF Enqueue

LEMMA AnswersFit ==
  ASSUME NEW r \in Seq(Codes), NEW n \in Nat, Len(r) <= RingCap
  PROVE  /\ Answered(r, n) \in Seq(Codes) /\ Len(Answered(r, n)) <= RingCap
         /\ \A i \in 1..Len(Answered(r, n)) :
              Answered(r, n)[i] = "marked" => i <= Len(r) /\ r[i] = "marked"
<1> DEFINE room == RingCap - Len(r)
           m == IF n < room THEN n ELSE room
           added == [i \in 1..m |-> "reply"]
<1>1. m \in Nat /\ m <= RingCap - Len(r) /\ RingCap \in Nat /\ Len(r) \in Nat
  BY KeyboardAssumption
<1>2. Answered(r, n) = r \o added
  BY DEF Answered
<1> HIDE DEF m
<1>3. added \in [1..m -> Codes]
  BY DEF Codes
<1>4. added \in Seq(Codes) /\ Len(added) = m
  BY <1>1, <1>3
<1>5. \A i \in 1..m : added[i] # "marked"
  OBVIOUS
<1> HIDE DEF added
<1>6. r \o added \in Seq(Codes) /\ Len(r \o added) = Len(r) + m
  BY <1>4
<1>7. \A i \in 1..Len(r \o added) : (r \o added)[i] = IF i <= Len(r) THEN r[i] ELSE added[i - Len(r)]
  BY <1>4, <1>6
<1>8. ASSUME NEW i \in 1..Len(r \o added), (r \o added)[i] = "marked"
      PROVE  i <= Len(r) /\ r[i] = "marked"
  <2>1. CASE i <= Len(r)
    BY <1>7, <1>8, <2>1
  <2>2. CASE ~(i <= Len(r))
    <3>1. i - Len(r) \in 1..m
      BY <1>1, <1>6, <2>2
    <3> QED
      BY <1>5, <1>7, <1>8, <2>2, <3>1
  <2> QED
    BY <2>1, <2>2
<1> QED
  BY <1>1, <1>2, <1>6, <1>8

LEMMA QueuesAreShort ==
  ASSUME NEW q \in Seq(Kinds), Len(q) <= QueueCap
  PROVE  q \in Queues
<1>1. Len(q) \in 0..QueueCap /\ q \in [1..Len(q) -> Kinds]
  BY LenProperties, KeyboardAssumption
<1> QED
  BY <1>1 DEF Queues

-----------------------------------------------------------------------------
LEMMA KeyboardBegins == Init => KeyboardInv
<1> SUFFICES ASSUME Init PROVE KeyboardInv
  OBVIOUS
<1>1. Flags /\ Port /\ Transmitter /\ Emptied
  <2>1. Flags
    BY DEF Init, Flags
  <2>2. frame \in Frames /\ 0 \in 0..Longest
    BY FrameBounds DEF Init
  <2>3. Port
    BY <2>2 DEF Init, Port
  <2>4. Transmitter /\ Emptied
    BY DEF Init, Transmitter, Emptied
  <2> QED
    BY <2>1, <2>3, <2>4
<1>2. Rings
  BY KeyboardAssumption DEF Init, Rings
<1>3. age \in 0..(RingCap * Longest + 1)
  <2>1. RingCap * Longest \in Nat
    BY FrameBounds, KeyboardAssumption
  <2> QED
    BY <2>1 DEF Init
<1>4. Counted /\ OnTime /\ Warned
  BY DEF Init, Counted, Underway, OnTime, Warned
<1>5. CommandsAreHeard
  <2>1. Held(sending) = <<>> /\ Held(buffered) = <<>> /\ written = <<>> /\ heard = <<>> /\ down = <<>>
    BY DEF Init, Held
  <2>2. <<>> \o <<>> = <<>>
    BY EmptySeq, ConcatEmptySeq
  <2> QED
    BY <2>1, <2>2 DEF CommandsAreHeard
<1> QED
  BY <1>1, <1>2, <1>3, <1>4, <1>5 DEF KeyboardInv

-----------------------------------------------------------------------------
(***************************************************************************)
(* The commands: what the firmware writes is what the keyboard hears.      *)
(***************************************************************************)
LEMMA HeldIsShort ==
  ASSUME NEW b \in Kinds \cup {None}
  PROVE  Held(b) \in Seq(Kinds) /\ (b # None => Held(b) = <<b>>) /\ Held(None) = <<>>
  BY DEF Held

\* A byte is written behind those that are on their way.
LEMMA HeardAfterWriting ==
  ASSUME NEW s \in Seq(Kinds), NEW b \in Kinds, NEW x \in Kinds
  PROVE  /\ Append((s \o <<>>) \o <<>>, b) = (s \o <<b>>) \o <<>>
         /\ Append((s \o <<x>>) \o <<>>, b) = (s \o <<x>>) \o <<b>>
<1>1. s \o <<>> = s /\ (s \o <<b>>) \o <<>> = s \o <<b>> /\ (s \o <<x>>) \o <<>> = s \o <<x>>
  <2>1. s \o <<b>> \in Seq(Kinds) /\ s \o <<x>> \in Seq(Kinds)
    OBVIOUS
  <2> QED
    BY <2>1, ConcatEmptySeq
<1>2. Append(s, b) = s \o <<b>> /\ Append(s \o <<x>>, b) = (s \o <<x>>) \o <<b>>
  <2>1. s \o <<x>> \in Seq(Kinds)
    OBVIOUS
  <2> QED
    BY <2>1, AppendIsConcat
<1> QED
  BY <1>1, <1>2

\* The keyboard takes what has arrived.
LEMMA HeardAfterTaking ==
  ASSUME NEW h \in Seq(Kinds), NEW d \in Seq(Kinds), NEW x \in Seq(Kinds), NEW y \in Seq(Kinds)
  PROVE  ((h \o d) \o x) \o y = (((h \o d) \o <<>>) \o x) \o y
<1>1. h \o d \in Seq(Kinds)
  OBVIOUS
<1> QED
  BY <1>1, ConcatEmptySeq

\* A frame ends: its byte arrives and the next one is sent.
LEMMA HeardAfterSending ==
  ASSUME NEW h \in Seq(Kinds), NEW b \in Kinds, NEW y \in Seq(Kinds)
  PROVE  ((h \o <<>>) \o <<b>>) \o y = ((h \o Append(<<>>, b)) \o y) \o <<>>
<1>1. h \o <<>> = h /\ Append(<<>>, b) = <<b>>
  BY ConcatEmptySeq
<1>2. (h \o <<b>>) \o y \in Seq(Kinds)
  OBVIOUS
<1> QED
  BY <1>1, <1>2, ConcatEmptySeq

-----------------------------------------------------------------------------
(***************************************************************************)
(* The steps.                                                              *)
(***************************************************************************)
LEMMA PressStep ==
  ASSUME KeyboardInv, NEW b \in {"key", "marked"}, Press(b)
  PROVE  KeyboardInv'
<1> USE DEF KeyboardInv
<1>1. /\ phase = "cpu" /\ up' = Enqueue(up, b) /\ pushed' = pushed + 1
      /\ age' = (IF b = "marked" THEN 0 ELSE age)
      /\ b = "marked" => ~Marked(up)
      /\ UNCHANGED <<phase, frame, ren, ri, ti, sendTicks, sending, buffered, recvTicks, down, queue,
                     written, heard, replies, raised, rash, riAge>>
  BY DEF Press, sconVars, sendVars
<1>2. Flags' /\ Port' /\ Transmitter' /\ Emptied' /\ Counted' /\ Warned'
  BY <1>1 DEF Flags, Port, Transmitter, Emptied, Counted, Underway, Warned
<1>3. Rings'
  BY <1>1, EnqueueFits DEF Rings, Codes
<1>4. CommandsAreHeard'
  BY <1>1 DEF CommandsAreHeard
<1>5. RingCap * Longest \in Nat
  BY FrameBounds, KeyboardAssumption
<1>6. age' \in 0..(RingCap * Longest + 1)
  BY <1>1, <1>5
<1>7. OnTime'
  <2> SUFFICES ASSUME NEW i \in 1..Len(up'), up'[i] = "marked"
               PROVE  age' + FrameLeft' + (i - 1) * Longest <= RingCap * Longest
    BY DEF OnTime
  <2>1. FrameLeft' = FrameLeft
    BY <1>1 DEF FrameLeft
  <2>2. up \in Seq(Codes) /\ Len(up) <= RingCap /\ Len(up') <= RingCap
    BY <1>3 DEF Rings
  <2>3. CASE b = "key"
    <3>1. i \in 1..Len(up) /\ up[i] = "marked"
      BY <1>1, <2>2, <2>3 DEF Enqueue
    <3> QED
      BY <1>1, <2>1, <2>3, <3>1 DEF OnTime
  <2>4. CASE b = "marked"
    <3>1. FrameLeft \in 1..Longest
      BY FrameBounds DEF FrameLeft, Port
    <3>2. i \in 1..RingCap /\ RingCap \in Nat
      BY <2>2, KeyboardAssumption
    <3>3. (i - 1) * Longest + Longest <= RingCap * Longest
      <4>1. i \in Nat \ {0} /\ i <= RingCap
        BY <3>2
      <4>2. i * Longest <= RingCap * Longest /\ (i - 1) * Longest + Longest = i * Longest
        BY <3>2, <4>1, LongestIsLinear
      <4> QED
        BY <4>2
    <3> QED
      BY <1>1, <2>1, <2>4, <3>1, <3>2, <3>3, <1>5, FrameBounds
  <2> QED
    BY <2>3, <2>4
<1> QED
  BY <1>2, <1>3, <1>4, <1>6, <1>7

\* What an instruction leaves alone, and how it ages RI.
Beside == UNCHANGED <<recvTicks, down, up, queue, heard, replies, raised, age, pushed>>

LEMMA InstructionStep ==
  ASSUME KeyboardInv, Instruction, ri' \in {FALSE, ri}
  PROVE  /\ phase' = "keyboard" /\ riAge' \in 0..Longest /\ Beside
         /\ Emptied' /\ Warned' /\ OnTime'
<1> USE DEF KeyboardInv
<1>1. /\ phase = "cpu" /\ phase' = "keyboard" /\ Beside
      /\ riAge' = (IF ri THEN UpTo(riAge, Longest) ELSE 0)
  BY DEF Instruction, Beside
<1>2. riAge' \in 0..Longest
  BY <1>1, FrameBounds DEF Port, UpTo
<1>3. Emptied' /\ OnTime'
  BY <1>1 DEF Beside, Emptied, OnTime, FrameLeft
<1>4. Warned'
  <2> SUFFICES ASSUME ri' PROVE recvTicks = 0 \/ riAge' >= Shortest \/ recvTicks + riAge' >= Shortest + 1
    BY <1>1 DEF Warned, Beside
  <2>1. ri /\ riAge' = UpTo(riAge, Longest)
    BY <1>1 DEF Flags
  <2>2. recvTicks = 0 \/ riAge >= Shortest \/ recvTicks + riAge >= Shortest
    BY <1>1, <2>1 DEF Warned
  <2>3. Longest >= Shortest /\ Longest \in Nat /\ Shortest \in Nat /\ riAge \in Nat /\ recvTicks \in Nat
    BY FrameBounds DEF Port
  <2> QED
    BY <2>1, <2>2, <2>3 DEF UpTo
<1> QED
  BY <1>1, <1>2, <1>3, <1>4

LEMMA NoAccessStep == ASSUME KeyboardInv, NoAccess PROVE KeyboardInv'
<1> USE DEF KeyboardInv
<1>1. /\ Instruction
      /\ UNCHANGED <<frame, ren, ri, ti, sendTicks, sending, buffered, written, rash>>
  BY DEF NoAccess, sconVars, sendVars
<1>2. phase' = "keyboard" /\ riAge' \in 0..Longest /\ Beside /\ Emptied' /\ Warned' /\ OnTime'
  BY <1>1, InstructionStep
<1>3. Flags' /\ Port' /\ Rings' /\ Transmitter'
  BY <1>1, <1>2 DEF Beside, Flags, Port, Rings, Transmitter
<1>4. Counted' /\ CommandsAreHeard'
  BY <1>1, <1>2 DEF Beside, Counted, Underway, CommandsAreHeard
<1> QED
  BY <1>2, <1>3, <1>4 DEF Beside

LEMMA WriteSCONStep == ASSUME KeyboardInv, WriteSCON PROVE KeyboardInv'
<1> USE DEF KeyboardInv
<1>1. /\ Instruction /\ frame' \in Frames /\ ren' \in BOOLEAN /\ ti' \in BOOLEAN /\ ri' \in {FALSE, ri}
      /\ UNCHANGED <<sendTicks, sending, buffered, written, rash>>
  BY DEF WriteSCON, sendVars
<1>2. phase' = "keyboard" /\ riAge' \in 0..Longest /\ Beside /\ Emptied' /\ Warned' /\ OnTime'
  BY <1>1, InstructionStep
<1>3. Flags'
  BY <1>1 DEF Flags
<1>4. Port' /\ Rings' /\ Transmitter'
  BY <1>1, <1>2 DEF Beside, Port, Rings, Transmitter
<1>5. Counted' /\ CommandsAreHeard'
  BY <1>1, <1>2 DEF Beside, Counted, Underway, CommandsAreHeard
<1> QED
  BY <1>2, <1>3, <1>4, <1>5 DEF Beside

LEMMA WriteSBUFStep ==
  ASSUME KeyboardInv, NEW b \in Kinds, WriteSBUF(b)
  PROVE  KeyboardInv'
<1> USE DEF KeyboardInv
<1>1. /\ Instruction
      /\ \/ sendTicks = 0 /\ sending' = b /\ sendTicks' = frame /\ buffered' = buffered
         \/ sendTicks # 0 /\ buffered' = b /\ sending' = sending /\ sendTicks' = sendTicks
      /\ written' = Append(written, b)
      /\ rash' <=> (rash \/ Len(written) - raised >= 2)
      /\ rash' \in BOOLEAN
      /\ UNCHANGED <<frame, ren, ri, ti>>
  BY DEF WriteSBUF, sconVars
<1>2. phase' = "keyboard" /\ riAge' \in 0..Longest /\ Beside /\ Emptied' /\ Warned' /\ OnTime'
  BY <1>1, InstructionStep DEF Flags
<1>3. Flags'
  BY <1>1 DEF Flags
<1>4. None \notin Kinds
  BY DEF None, Kinds
<1>5. Port' /\ Transmitter'
  BY <1>1, <1>2, <1>4, FrameBounds DEF Beside, Port, Transmitter
<1>6. Rings'
  BY <1>1, <1>2 DEF Beside, Rings
<1>7. Counted' /\ CommandsAreHeard'
  <2> SUFFICES ASSUME ~rash' PROVE Counted' /\ CommandsAreHeard'
    BY DEF Counted, CommandsAreHeard
  <2>1. ~rash /\ Underway < 2 /\ Len(written) = raised + Underway
    BY <1>1 DEF Counted, Underway, Rings, Port
  <2>2. buffered = None /\ sending' # None
    BY <1>1, <1>4, <2>1 DEF Underway, Transmitter, Port
  <2>3. Len(written') = Len(written) + 1
    BY <1>1 DEF Rings
  <2>4. Counted'
    <3>1. Underway' = Underway + 1
      BY <1>1, <1>4, <2>2 DEF Underway, Transmitter
    <3> QED
      BY <1>2, <2>1, <2>3, <3>1 DEF Counted, Underway, Beside, Port
  <2>5. heard \o down \in Seq(Kinds) /\ heard' = heard /\ down' = down
    BY <1>2 DEF Rings, Beside
  <2>6. written = ((heard \o down) \o Held(sending)) \o <<>>
    BY <2>1, <2>2 DEF CommandsAreHeard, Held
  <2>7. CASE sendTicks = 0
    <3>1. Held(sending) = <<>> /\ Held(sending') = <<b>> /\ Held(buffered') = <<>>
      BY <1>1, <1>4, <2>2, <2>7 DEF Held, Transmitter
    <3> QED
      BY <1>1, <2>4, <2>5, <2>6, <3>1, HeardAfterWriting DEF CommandsAreHeard
  <2>8. CASE sendTicks # 0
    <3>1. /\ sending \in Kinds /\ Held(sending) = <<sending>> /\ Held(sending') = <<sending>>
          /\ Held(buffered') = <<b>>
      BY <1>1, <1>4, <2>2, <2>8 DEF Held, Transmitter, Port
    <3> QED
      BY <1>1, <2>4, <2>5, <2>6, <3>1, HeardAfterWriting DEF CommandsAreHeard
  <2> QED
    BY <2>7, <2>8
<1> QED
  BY <1>2, <1>3, <1>5, <1>6, <1>7 DEF Beside

LEMMA TakenFits ==
  ASSUME KeyboardInv
  PROVE  Taken \in Seq(Kinds) /\ Len(Taken) <= QueueCap
<1> DEFINE all == queue \o down
           n == IF Len(all) < QueueCap THEN Len(all) ELSE QueueCap
<1>1. all \in Seq(Kinds) /\ Len(all) \in Nat
  BY DEF KeyboardInv, Rings
<1> HIDE DEF all
<1>2. n \in 0..Len(all) /\ n <= QueueCap
  BY <1>1, KeyboardAssumption
<1> HIDE DEF n
<1>3. SubSeq(all, 1, n) \in Seq(Kinds) /\ Len(SubSeq(all, 1, n)) = n
  BY <1>1, <1>2
<1> QED
  BY <1>2, <1>3 DEF Taken, all, n

LEMMA KeyboardTickStep == ASSUME KeyboardInv, KeyboardTick PROVE KeyboardInv'
<1> USE DEF KeyboardInv
<1> DEFINE run == down # <<>> /\ Complete(Taken)
           n == IF run THEN ReplyLen(Head(Taken)) ELSE 0
<1>1. /\ phase = "keyboard" /\ phase' = "serial"
      /\ down' = <<>> /\ heard' = heard \o down
      /\ queue' = (IF run THEN [q \in Queues |-> SubSeq(q, CommandLen(Head(q)) + 1, Len(q))][Taken]
                          ELSE Taken)
      /\ up' = Answered(up, n) /\ replies' = replies + n
      /\ UNCHANGED <<frame, ren, ri, ti, sendTicks, sending, buffered, recvTicks, written, raised, rash,
                     age, riAge, pushed>>
  BY DEF KeyboardTick, Execute, sconVars, sendVars
<1>2. n \in Nat
  BY KeyboardAssumption DEF ReplyLen
<1>3. queue' \in Seq(Kinds) /\ Len(queue') <= QueueCap
  <2>1. CASE ~run
    BY <1>1, <2>1, TakenFits
  <2>2. CASE run
    <3> DEFINE k == CommandLen(Head(Taken))
    <3>1. Taken \in Queues
      BY TakenFits, QueuesAreShort
    <3>2. queue' = SubSeq(Taken, k + 1, Len(Taken))
      BY <1>1, <2>2, <3>1
    <3>3. k \in 1..3 /\ k <= Len(Taken) /\ Len(Taken) \in Nat
      BY <2>2, TakenFits DEF CommandLen, Complete
    <3> HIDE DEF k
    <3>4. /\ SubSeq(Taken, k + 1, Len(Taken)) \in Seq(Kinds)
          /\ Len(SubSeq(Taken, k + 1, Len(Taken))) = Len(Taken) - k
      BY <3>3, TakenFits
    <3> QED
      BY <3>2, <3>3, <3>4, TakenFits, KeyboardAssumption
  <2> QED
    BY <2>1, <2>2
<1> HIDE DEF n, run
<1>4. /\ up' \in Seq(Codes) /\ Len(up') <= RingCap
      /\ \A i \in 1..Len(up') : up'[i] = "marked" => i <= Len(up) /\ up[i] = "marked"
  BY <1>1, <1>2, AnswersFit DEF Rings
<1>5. Flags' /\ Port' /\ Transmitter' /\ Emptied' /\ Warned'
  <2>1. Flags' /\ Transmitter' /\ Emptied'
    BY <1>1 DEF Flags, Transmitter, Emptied
  <2>2. Port'
    BY <1>1, <1>2 DEF Port
  <2>3. Warned'
    BY <1>1 DEF Warned
  <2> QED
    BY <2>1, <2>2, <2>3
<1>6. Rings'
  <2>1. down' \in Seq(Kinds) /\ Len(down') <= RingCap
    BY <1>1, KeyboardAssumption
  <2>2. heard' \in Seq(Kinds) /\ written' \in Seq(Kinds)
    BY <1>1 DEF Rings
  <2> QED
    BY <1>3, <1>4, <2>1, <2>2 DEF Rings
<1>7. Counted'
  BY <1>1 DEF Counted, Underway
<1>8. CommandsAreHeard'
  <2>1. Held(sending) \in Seq(Kinds) /\ Held(buffered) \in Seq(Kinds)
    BY HeldIsShort DEF Port
  <2>2. heard \in Seq(Kinds) /\ down \in Seq(Kinds)
    BY DEF Rings
  <2>3. Held(sending)' = Held(sending) /\ Held(buffered)' = Held(buffered)
    BY <1>1 DEF Held
  <2> QED
    BY <1>1, <2>1, <2>2, <2>3, HeardAfterTaking DEF CommandsAreHeard
<1>9. OnTime'
  <2> SUFFICES ASSUME NEW i \in 1..Len(up'), up'[i] = "marked"
               PROVE  age' + FrameLeft' + (i - 1) * Longest <= RingCap * Longest
    BY DEF OnTime
  <2>1. i \in 1..Len(up) /\ up[i] = "marked"
    BY <1>4 DEF Rings
  <2> QED
    BY <1>1, <2>1 DEF OnTime, FrameLeft
<1> QED
  BY <1>1, <1>5, <1>6, <1>7, <1>8, <1>9

LEMMA SerialTickStep == ASSUME KeyboardInv, SerialTick PROVE KeyboardInv'
<1> USE DEF KeyboardInv
<1>1. /\ phase = "serial" /\ phase' = "cpu" /\ down = <<>>
      /\ age' = (IF Marked(up) THEN UpTo(age, RingCap * Longest + 1) ELSE 0)
      /\ UNCHANGED <<frame, ren, queue, written, heard, replies, rash, pushed>>
  BY DEF SerialTick, Emptied
<1>2. /\ ri' = (ri \/ (recvTicks = 1 /\ ren))
      /\ riAge' = (IF ri THEN riAge ELSE 0)
  BY DEF SerialTick, Arrive, FrameEnds
<1>3. \/ recvTicks <= 1 /\ up # <<>> /\ up' = Tail(up) /\ recvTicks' = frame
      \/ /\ recvTicks > 1 \/ up = <<>>
         /\ up' = up /\ recvTicks' = (IF recvTicks = 0 THEN 0 ELSE recvTicks - 1)
  BY DEF SerialTick, Start, StartOn, LineFree, Port
<1>4. \/ /\ sendTicks = 1 /\ down' = Enqueue(<<>>, sending) /\ ti' = TRUE /\ raised' = raised + 1
         /\ sending' = buffered /\ buffered' = None
         /\ sendTicks' = (IF buffered = None THEN 0 ELSE frame)
      \/ /\ sendTicks # 1 /\ sendTicks' = (IF sendTicks = 0 THEN 0 ELSE sendTicks - 1)
         /\ UNCHANGED <<down, ti, raised, sending, buffered>>
  BY <1>1 DEF SerialTick, SendDone, Sending
<1>5. Flags'
  BY <1>1, <1>2, <1>4 DEF Flags
<1>6. Port' /\ Transmitter'
  <2>1. sendTicks' \in 0..Longest /\ recvTicks' \in 0..Longest
    BY <1>3, <1>4, FrameBounds DEF Port
  <2>2. riAge' \in 0..Longest /\ raised' \in Nat
    BY <1>2, <1>4, FrameBounds DEF Port
  <2>3. sending' \in Kinds \cup {None} /\ buffered' \in Kinds \cup {None} /\ Transmitter'
    BY <1>4, FrameBounds DEF Port, Transmitter
  <2> QED
    BY <1>1, <2>1, <2>2, <2>3 DEF Port
<1>7. Rings' /\ Emptied'
  <2>1. sendTicks = 1 => sending \in Kinds
    BY DEF Transmitter, Port
  <2>2. sendTicks = 1 => down' = Append(<<>>, sending)
    BY <1>4, KeyboardAssumption DEF Enqueue
  <2>3. down' \in Seq(Kinds) /\ Len(down') <= 1
    <3>1. CASE sendTicks = 1
      <4>1. ASSUME NEW s \in Seq(Kinds), Len(s) = 0, NEW b \in Kinds
            PROVE  Append(s, b) \in Seq(Kinds) /\ Len(Append(s, b)) <= 1
        BY <4>1
      <4>2. <<>> \in Seq(Kinds) /\ Len(<<>>) = 0
        BY EmptySeq
      <4>3. Append(<<>>, sending) \in Seq(Kinds) /\ Len(Append(<<>>, sending)) <= 1
        BY <2>1, <3>1, <4>1, <4>2
      <4> QED
        BY <2>2, <3>1, <4>3
    <3>2. CASE sendTicks # 1
      <4>1. down' = down
        BY <1>4, <3>2
      <4> QED
        BY <4>1 DEF Rings, Emptied
    <3> QED
      BY <3>1, <3>2
  <2>4. up' \in Seq(Codes) /\ Len(up') <= RingCap
    <3>1. up \in Seq(Codes) /\ Len(up) <= RingCap /\ Len(up) \in Nat /\ RingCap \in Nat
      BY KeyboardAssumption DEF Rings
    <3>2. CASE up # <<>> /\ up' = Tail(up)
      BY <3>1, <3>2
    <3> QED
      BY <1>3, <3>1, <3>2
  <2> QED
    BY <1>1, <2>3, <2>4, KeyboardAssumption DEF Rings, Emptied
<1>8. RingCap * Longest \in Nat
  BY FrameBounds, KeyboardAssumption
<1>9. age' \in 0..(RingCap * Longest + 1)
  BY <1>1, <1>8 DEF UpTo
<1>10. Counted' /\ CommandsAreHeard'
  <2>1. CASE sendTicks # 1
    BY <1>1, <1>4, <2>1 DEF Counted, Underway, CommandsAreHeard
  <2>2. CASE sendTicks = 1
    <3>1. /\ sending \in Kinds /\ sending # None /\ down' = Append(<<>>, sending)
          /\ sending' = buffered /\ buffered' = None /\ raised' = raised + 1
      BY <1>4, <2>2, KeyboardAssumption DEF Enqueue, Transmitter, Port, None, Kinds
    <3>2. Counted'
      BY <1>1, <3>1 DEF Counted, Underway, Port
    <3>3. Held(sending) = <<sending>> /\ Held(sending') = Held(buffered) /\ Held(buffered') = <<>>
          /\ Held(buffered) \in Seq(Kinds)
      BY <3>1, HeldIsShort DEF Port, Held
    <3>4. CommandsAreHeard'
      BY <1>1, <3>1, <3>3, HeardAfterSending DEF CommandsAreHeard, Rings
    <3> QED
      BY <3>2, <3>4
  <2> QED
    BY <2>1, <2>2
<1>11. OnTime'
  <2> SUFFICES ASSUME NEW i \in 1..Len(up'), up'[i] = "marked"
               PROVE  age' + FrameLeft' + (i - 1) * Longest <= RingCap * Longest
    BY DEF OnTime
  <2> DEFINE bound == RingCap * Longest
             wait(n) == (n - 1) * Longest
  <2>1. i \in Nat \ {0} /\ up \in Seq(Codes)
    BY <1>7 DEF Rings
  <2>2. wait(i) \in Nat /\ wait(i + 1) = wait(i) + Longest
    BY <2>1, LongestIsLinear
  <2>3. CASE recvTicks <= 1 /\ up # <<>> /\ up' = Tail(up) /\ recvTicks' = frame
    <3>1. i + 1 \in 1..Len(up) /\ up[i + 1] = "marked"
      BY <2>1, <2>3
    <3>2. Marked(up) /\ FrameLeft = 1 /\ FrameLeft' \in 1..Longest
      BY <2>3, <3>1, FrameBounds DEF Marked, FrameLeft, Port
    <3>3. age + 1 + wait(i + 1) <= bound
      BY <3>1, <3>2 DEF OnTime
    <3> HIDE DEF wait, bound
    <3>4. age' = age + 1
      BY <1>1, <1>8, <2>1, <2>2, <3>2, <3>3, FrameBounds DEF UpTo, bound
    <3>5. age' + FrameLeft' + wait(i) <= bound
      BY <1>8, <2>2, <3>2, <3>3, <3>4, FrameBounds DEF bound
    <3> QED
      BY <3>5 DEF wait, bound
  <2>4. CASE /\ recvTicks > 1 \/ up = <<>>
             /\ up' = up /\ recvTicks' = (IF recvTicks = 0 THEN 0 ELSE recvTicks - 1)
    <3>1. i \in 1..Len(up) /\ up[i] = "marked" /\ up # <<>>
      BY <2>1, <2>4
    <3>2. Marked(up) /\ FrameLeft = recvTicks /\ FrameLeft' = recvTicks - 1 /\ recvTicks \in 2..Longest
      BY <2>4, <3>1, FrameBounds DEF Marked, FrameLeft, Port
    <3>3. age + recvTicks + wait(i) <= bound
      BY <3>1, <3>2 DEF OnTime
    <3> HIDE DEF wait, bound
    <3>4. age' = age + 1
      BY <1>1, <1>8, <2>2, <3>2, <3>3, FrameBounds DEF UpTo, bound
    <3>5. age' + FrameLeft' + wait(i) <= bound
      BY <1>8, <2>2, <3>2, <3>3, <3>4, FrameBounds DEF bound
    <3> QED
      BY <3>5 DEF wait, bound
  <2> QED
    BY <1>3, <2>3, <2>4
<1>12. Warned'
  <2>1. frame \in Nat /\ frame >= Shortest /\ Shortest \in Nat /\ recvTicks \in Nat /\ riAge \in Nat
    BY FrameBounds DEF Port
  <2>2. CASE ri
    <3>1. riAge' = riAge
      BY <1>2, <2>2
    <3>2. recvTicks = 0 \/ riAge >= Shortest \/ recvTicks + riAge >= Shortest + 1
      BY <1>1, <2>2 DEF Warned
    <3>3. recvTicks' = 0 \/ riAge' >= Shortest \/ recvTicks' + riAge' >= Shortest
      BY <1>3, <2>1, <3>1, <3>2
    <3> QED
      BY <1>1, <3>3 DEF Warned
  <2>3. CASE ~ri /\ recvTicks = 1
    <3>1. recvTicks' = 0 \/ recvTicks' = frame
      BY <1>3, <2>3
    <3>2. recvTicks' = 0 \/ recvTicks' + riAge' >= Shortest
      BY <1>2, <2>1, <2>3, <3>1
    <3> QED
      BY <1>1, <3>2 DEF Warned
  <2>4. CASE ~ri /\ recvTicks # 1
    <3>1. ~ri'
      BY <1>2, <2>4
    <3> QED
      BY <3>1 DEF Warned
  <2> QED
    BY <2>2, <2>3, <2>4 DEF Flags
<1> QED
  BY <1>5, <1>6, <1>7, <1>9, <1>10, <1>11, <1>12

-----------------------------------------------------------------------------
LEMMA KeyboardInductive == Spec => []KeyboardInv
<1>1. KeyboardInv /\ [Next]_vars => KeyboardInv'
  <2> SUFFICES ASSUME KeyboardInv, [Next]_vars PROVE KeyboardInv'
    OBVIOUS
  <2>1. CASE Next
    BY <2>1, PressStep, NoAccessStep, WriteSCONStep, WriteSBUFStep, KeyboardTickStep, SerialTickStep
       DEF Next, Firmware
  <2>2. CASE UNCHANGED vars
    BY <2>2 DEF vars, sconVars, sendVars, KeyboardInv, Flags, Port, Rings, Transmitter, Emptied, Counted,
       Underway, CommandsAreHeard, Held, OnTime, FrameLeft, Warned
  <2> QED
    BY <2>1, <2>2
<1> QED
  BY <1>1, KeyboardBegins, PTL DEF Spec

\* Every variable of the keyboard line stays in its type, and no ring exceeds its capacity.
THEOREM KeyboardTypeCorrect == Spec => []TypeOK
<1>1. KeyboardInv => TypeOK
  BY DEF KeyboardInv, Flags, Port, Rings, Transmitter, TypeOK, Codes
<1> QED
  BY <1>1, KeyboardInductive, PTL

\* peripheral.c, lk201.c: no byte of the firmware is lost or reordered on its way to the keyboard.
THEOREM KeyboardHears == Spec => []CommandsAreHeard
<1>1. KeyboardInv => CommandsAreHeard
  BY DEF KeyboardInv
<1> QED
  BY <1>1, KeyboardInductive, PTL

\* ctl.c: a pressed key leaves the ring within RingCap frames.
THEOREM KeyLeavesInTime == Spec => []KeysLeaveInTime
<1>1. KeyboardInv => KeysLeaveInTime
  <2> SUFFICES ASSUME KeyboardInv, NEW i \in 1..Len(up), up[i] = "marked"
               PROVE  age <= RingCap * Longest
    BY DEF KeysLeaveInTime, Marked
  <2>1. age + FrameLeft + (i - 1) * Longest <= RingCap * Longest
    BY DEF KeyboardInv, OnTime
  <2>2. i \in Nat \ {0}
    BY DEF KeyboardInv, Rings
  <2>3. (i - 1) * Longest \in Nat /\ RingCap * Longest \in Nat
    BY <2>2, LongestIsLinear, FrameBounds, KeyboardAssumption
  <2>4. FrameLeft \in Nat /\ age \in Nat
    BY <2>3 DEF KeyboardInv, FrameLeft, Port
  <2> HIDE DEF FrameLeft
  <2> QED
    BY <2>1, <2>3, <2>4
<1> QED
  BY <1>1, KeyboardInductive, PTL

\* peripheral.c: a byte from the keyboard is lost only if the firmware left RI set for a frame.
THEOREM OverrunsAreLate == Spec => OverrunNeedsLateFirmware
<1>1. KeyboardInv /\ [Next]_vars => [(SerialTick /\ Overrun) => riAge >= Shortest]_vars
  <2> SUFFICES ASSUME KeyboardInv, SerialTick, Overrun PROVE riAge >= Shortest
    OBVIOUS
  <2>1. phase = "serial" /\ recvTicks = 1 /\ ri
    BY DEF SerialTick, Overrun, FrameEnds
  <2>2. recvTicks = 0 \/ riAge >= Shortest \/ recvTicks + riAge >= Shortest + 1
    BY <2>1 DEF KeyboardInv, Warned
  <2> QED
    BY <2>1, <2>2, FrameBounds DEF KeyboardInv, Port
<1> QED
  BY <1>1, KeyboardInductive, PTL DEF Spec, OverrunNeedsLateFirmware

-----------------------------------------------------------------------------
(***************************************************************************)
(* Commands, and the fold that reads a stream of them.                     *)
(***************************************************************************)
\* Induction, for sets of numbers: the least number outside would have its predecessor inside.
LEMMA Induction ==
  ASSUME NEW T, 0 \in T, \A n \in Nat : n \in T => n + 1 \in T
  PROVE  \A n \in Nat : n \in T
<1> DEFINE Out == {n \in Nat : n \notin T}
<1> SUFFICES ASSUME Out # {} PROVE FALSE
  OBVIOUS
<1>1. PICK x \in Out : \A y \in Out : ~(<<y, x>> \in OpToRel(<, Nat))
  <2>1. Out \subseteq Nat
    OBVIOUS
  <2> HIDE DEF Out
  <2> QED
    BY <2>1, NatLessThanWellFounded, WFMin
<1>2. x \in Nat /\ x # 0 /\ x - 1 \in Nat /\ x - 1 \in T => FALSE
  OBVIOUS
<1>3. x - 1 \in Out
  BY <1>2
<1>4. <<x - 1, x>> \in OpToRel(<, Nat)
  BY <1>3 DEF OpToRel
<1> QED
  BY <1>1, <1>3, <1>4

\* The function that folds Feed over the bytes numbered by a set, the last one last.
Unread == [rest |-> <<>>, replies |-> 0]
Folds(g, D, s) ==
  g = [t \in SUBSET D |-> IF t = {} THEN Unread ELSE Feed(g[t \ {Max(t)}], s[Max(t)])]

Steps(g, D, s) ==
  \A t \in SUBSET D : g[t] = IF t = {} THEN Unread ELSE Feed(g[t \ {Max(t)}], s[Max(t)])

LEMMA FoldsAt == ASSUME NEW g, NEW D, NEW s, Folds(g, D, s) PROVE Steps(g, D, s)
  BY Zenon DEF Folds, Steps

LEMMA LastOf ==
  ASSUME NEW n \in Nat, NEW t \in SUBSET (1..(n + 1)), n + 1 \in t
  PROVE  Max(t) = n + 1 /\ t \ {n + 1} \in SUBSET (1..n) /\ n + 1 \notin t \ {n + 1}
<1>1. \A y \in t : y \in 1..(n + 1) /\ n + 1 >= y
  OBVIOUS
<1>2. Max(t) \in t /\ \A y \in t : Max(t) >= y
  BY <1>1, Zenon DEF Max
<1>3. Max(t) \in 1..(n + 1) /\ Max(t) >= n + 1
  BY <1>1, <1>2
<1>4. ASSUME NEW y \in t \ {n + 1} PROVE y \in 1..n
  BY <1>1
<1> QED
  BY <1>3, <1>4

LEMMA NotLast ==
  ASSUME NEW n \in Nat, NEW t \in SUBSET (1..(n + 1)), n + 1 \notin t
  PROVE  t \in SUBSET (1..n) /\ \A x : t \ {x} \in SUBSET (1..n) /\ n + 1 \notin t \ {x}
<1>1. ASSUME NEW y \in t PROVE y \in 1..n
  <2>1. y \in 1..(n + 1) /\ y # n + 1
    OBVIOUS
  <2> QED
    BY <2>1
<1> QED
  BY <1>1

LEMMA FoldExists == ASSUME NEW s, NEW n \in Nat PROVE \E g : Folds(g, 1..n, s)
<1> DEFINE T == {k \in Nat : \E g : Folds(g, 1..k, s)}
<1>1. 0 \in T
  <2> DEFINE g == [t \in SUBSET (1..0) |-> Unread]
  <2>1. 1..0 = {}
    OBVIOUS
  <2>2. g = [t \in SUBSET (1..0) |-> IF t = {} THEN Unread ELSE Feed(g[t \ {Max(t)}], s[Max(t)])]
    BY <2>1
  <2> HIDE DEF g
  <2>3. Folds(g, 1..0, s)
    BY <2>2, Zenon DEF Folds
  <2> QED
    BY <2>3
<1>2. ASSUME NEW k \in Nat, k \in T PROVE k + 1 \in T
  <2>1. PICK g : Folds(g, 1..k, s)
    BY <1>2
  <2> DEFINE h == [t \in SUBSET (1..(k + 1)) |->
                     IF k + 1 \in t THEN Feed(g[t \ {k + 1}], s[k + 1]) ELSE g[t]]
  <2>c. Steps(g, 1..k, s) /\ {} \in SUBSET (1..k)
    BY <2>1, FoldsAt
  <2>a. SUBSET (1..k) \subseteq SUBSET (1..(k + 1))
    OBVIOUS
  <2>b. /\ \A t \in SUBSET (1..(k + 1)) : k + 1 \in t => h[t] = Feed(g[t \ {k + 1}], s[k + 1])
        /\ \A t \in SUBSET (1..(k + 1)) : k + 1 \notin t => h[t] = g[t]
    BY Zenon
  <2> HIDE DEF h
  <2>2. ASSUME NEW t \in SUBSET (1..(k + 1))
        PROVE  h[t] = IF t = {} THEN Unread ELSE Feed(h[t \ {Max(t)}], s[Max(t)])
    <3>1. CASE k + 1 \in t
      <4>1. Max(t) = k + 1 /\ t \ {k + 1} \in SUBSET (1..k) /\ k + 1 \notin t \ {k + 1}
        BY <3>1, LastOf
      <4>2. h[t \ {k + 1}] = g[t \ {k + 1}] /\ h[t] = Feed(g[t \ {k + 1}], s[k + 1])
        BY <3>1, <4>1, <2>a, <2>b
      <4> QED
        BY <3>1, <4>1, <4>2
    <3>2. CASE k + 1 \notin t
      <4>1. t \in SUBSET (1..k) /\ t \ {Max(t)} \in SUBSET (1..(k + 1)) /\ k + 1 \notin t \ {Max(t)}
        BY <3>2, NotLast, <2>a
      <4>2. h[t] = g[t] /\ h[t \ {Max(t)}] = g[t \ {Max(t)}]
        BY <3>2, <4>1, <2>b
      <4>3. g[{}] = Unread /\ (t # {} => g[t] = Feed(g[t \ {Max(t)}], s[Max(t)]))
        BY <2>c, <4>1, Zenon DEF Steps
      <4> QED
        BY <4>2, <4>3
    <3> QED
      BY <3>1, <3>2
  <2>3. h = [t \in SUBSET (1..(k + 1)) |-> h[t]]
    BY DEF h
  <2>4. Folds(h, 1..(k + 1), s)
    BY <2>2, <2>3, Zenon DEF Folds
  <2> QED
    BY <2>4
<1> HIDE DEF T
<1>3. n \in T
  BY <1>1, <1>2, Induction
<1> QED
  BY <1>3 DEF T

\* A byte more changes nothing in what is folded of the bytes before it.
LEMMA FoldsAgree ==
  ASSUME NEW n \in Nat, NEW s, NEW r, \A i \in 1..n : r[i] = s[i],
         NEW g, Folds(g, 1..n, s), NEW h, Folds(h, 1..(n + 1), r)
  PROVE  h[1..n] = g[1..n]
<1> DEFINE T == {k \in Nat : k <= n => \A t \in SUBSET (1..k) : h[t] = g[t]}
<1>1. /\ g[{}] = Unread /\ h[{}] = Unread
      /\ \A t \in SUBSET (1..n) : t # {} => /\ g[t] = Feed(g[t \ {Max(t)}], s[Max(t)])
                                           /\ h[t] = Feed(h[t \ {Max(t)}], r[Max(t)])
  <2>1. SUBSET (1..n) \subseteq SUBSET (1..(n + 1))
    OBVIOUS
  <2>4. Steps(g, 1..n, s) /\ Steps(h, 1..(n + 1), r) /\ {} \in SUBSET (1..n) /\ {} \in SUBSET (1..(n + 1))
    BY FoldsAt
  <2>2. g[{}] = Unread /\ \A t \in SUBSET (1..n) : t # {} => g[t] = Feed(g[t \ {Max(t)}], s[Max(t)])
    BY <2>4, Zenon DEF Steps
  <2>3. h[{}] = Unread /\ \A t \in SUBSET (1..(n + 1)) : t # {} => h[t] = Feed(h[t \ {Max(t)}], r[Max(t)])
    BY <2>4, Zenon DEF Steps
  <2> QED
    BY <2>1, <2>2, <2>3
<1>2. 0 \in T
  <2>1. \A t \in SUBSET (1..0) : t = {}
    OBVIOUS
  <2> QED
    BY <1>1, <2>1
<1>3. ASSUME NEW k \in Nat, k \in T, k + 1 <= n, NEW t \in SUBSET (1..(k + 1)) PROVE h[t] = g[t]
  <2>1. CASE k + 1 \in t
    <3>1. Max(t) = k + 1 /\ t \ {k + 1} \in SUBSET (1..k) /\ t # {}
      BY <1>3, <2>1, LastOf
    <3>4. t \in SUBSET (1..n)
      BY <1>3
    <3>2. h[t \ {k + 1}] = g[t \ {k + 1}] /\ r[k + 1] = s[k + 1]
      BY <1>3, <3>1
    <3> QED
      BY <1>1, <3>1, <3>2, <3>4
  <2>2. CASE k + 1 \notin t
    BY <1>3, <2>2, NotLast
  <2> QED
    BY <2>1, <2>2
<1> HIDE DEF T
<1>4. ASSUME NEW k \in Nat, k \in T PROVE k + 1 \in T
  <2>1. k + 1 \in Nat
    OBVIOUS
  <2>2. k + 1 <= n => \A t \in SUBSET (1..(k + 1)) : h[t] = g[t]
    BY <1>3, <1>4
  <2> QED
    BY <2>1, <2>2, Zenon DEF T
<1>5. n \in T
  BY <1>2, <1>4, Induction
<1> QED
  BY <1>5 DEF T

LEMMA ParsedIsFold ==
  ASSUME NEW s \in Seq(Kinds), NEW n \in Nat, n = Len(s)
  PROVE  \E g : Folds(g, 1..n, s) /\ Parsed(s) = g[1..n]
<1> DEFINE G == CHOOSE g : Folds(g, 1..n, s)
<1>1. Parsed(s) = G[1..n]
  <2>1. DOMAIN s = 1..n
    OBVIOUS
  <2>2. Parsed(s) = (CHOOSE g : Folds(g, DOMAIN s, s))[DOMAIN s]
    BY DEF Parsed, FoldLeft, MapThenFoldSet, Folds, Unread
  <2> QED
    BY <2>1, <2>2
<1>2. \E g : Folds(g, 1..n, s)
  BY FoldExists
<1>3. Folds(G, 1..n, s)
  BY <1>2, Zenon
<1> QED
  BY <1>1, <1>3

\* What a stream means grows byte by byte.
LEMMA ParsedGrows ==
  /\ Parsed(<<>>) = Unread
  /\ \A s \in Seq(Kinds), b \in Kinds : Parsed(Append(s, b)) = Feed(Parsed(s), b)
<1>1. Parsed(<<>>) = Unread
  <2> DEFINE none == <<>>
  <2>3. none \in Seq(Kinds) /\ 0 = Len(none) /\ Len(none) \in Nat
    OBVIOUS
  <2> HIDE DEF none
  <2>1. PICK g : Folds(g, 1..0, none) /\ Parsed(none) = g[1..0]
    <3>1. \E g : Folds(g, 1..Len(none), none) /\ Parsed(none) = g[1..Len(none)]
      BY <2>3, ParsedIsFold
    <3> QED
      BY <2>3, <3>1
  <2>2. 1..0 = {}
    OBVIOUS
  <2>4. g[{}] = Unread
    <3>1. Steps(g, 1..0, none) /\ {} \in SUBSET (1..0)
      BY <2>1, FoldsAt
    <3> QED
      BY <3>1, Zenon DEF Steps
  <2>5. Parsed(none) = Unread
    BY <2>1, <2>2, <2>4
  <2> QED
    BY <2>5 DEF none
<1>2. ASSUME NEW s \in Seq(Kinds), NEW b \in Kinds PROVE Parsed(Append(s, b)) = Feed(Parsed(s), b)
  <2> DEFINE n == Len(s)
             r == Append(s, b)
  <2>1. n \in Nat /\ r \in Seq(Kinds) /\ Len(r) = n + 1 /\ r[n + 1] = b /\ \A i \in 1..n : r[i] = s[i]
    OBVIOUS
  <2>a. n = Len(s) /\ r = Append(s, b)
    OBVIOUS
  <2> HIDE DEF n, r
  <2>2. PICK g : Folds(g, 1..n, s) /\ Parsed(s) = g[1..n]
    BY <2>1, <2>a, ParsedIsFold
  <2>3. PICK h : Folds(h, 1..(n + 1), r) /\ Parsed(r) = h[1..(n + 1)]
    BY <2>1, ParsedIsFold
  <2>4. h[1..n] = g[1..n]
    BY <2>1, <2>2, <2>3, FoldsAgree
  <2>5. n + 1 \in 1..(n + 1)
    BY <2>1
  <2>6. Max(1..(n + 1)) = n + 1
    BY <2>1, <2>5, LastOf
  <2>7. h[1..(n + 1)] = Feed(h[1..(n + 1) \ {Max(1..(n + 1))}], r[Max(1..(n + 1))])
    <3>1. Steps(h, 1..(n + 1), r) /\ 1..(n + 1) \in SUBSET (1..(n + 1)) /\ 1..(n + 1) # {}
      BY <2>3, <2>5, FoldsAt
    <3> QED
      BY <3>1, Zenon DEF Steps
  <2>8. ((1..(n + 1)) \ {n + 1}) = 1..n
    BY <2>1
  <2>9. Parsed(r) = Feed(h[1..n], b)
    BY <2>1, <2>3, <2>6, <2>7, <2>8
  <2> QED
    BY <2>2, <2>4, <2>9, <2>a
<1> QED
  BY <1>1, <1>2

-----------------------------------------------------------------------------
(***************************************************************************)
(* Commands: each is executed in the tick of its last byte.                *)
(***************************************************************************)
\* What is queued is the unfinished command of what has been heard.
Executed == queue = Parsed(heard).rest /\ replies = Parsed(heard).replies
Unfinished == ~Complete(queue)

LEMMA ExecutedBegins == Init => Executed /\ Unfinished
  BY ParsedGrows DEF Init, Executed, Unfinished, Complete, Unread

\* A byte that completes a command is its last one.
LEMMA CompletedExactly ==
  ASSUME NEW q \in Seq(Kinds), NEW b \in Kinds, ~Complete(q), Complete(Append(q, b))
  PROVE  Len(Append(q, b)) = CommandLen(Head(Append(q, b)))
<1>1. CommandLen(Head(Append(q, b))) \in 1..3 /\ Len(q) \in Nat /\ Len(Append(q, b)) = Len(q) + 1
  BY DEF CommandLen
<1>2. CASE q = <<>>
  BY <1>1, <1>2 DEF Complete
<1>3. CASE q # <<>>
  <2>1. Head(Append(q, b)) = Head(q)
    BY <1>3
  <2> QED
    BY <1>1, <1>3, <2>1 DEF Complete
<1> QED
  BY <1>2, <1>3

LEMMA IncompleteIsShort == ASSUME NEW q \in Seq(Kinds), ~Complete(q) PROVE Len(q) \in 0..2
<1>1. PICK c \in 1..3 : c = CommandLen(Head(q))
  BY DEF CommandLen
<1>2. PICK l \in Nat : l = Len(q)
  OBVIOUS
<1>3. q = <<>> => l = 0
  BY <1>2
<1>4. l < c \/ l = 0
  BY <1>1, <1>2, <1>3 DEF Complete
<1>5. l \in 0..2
  BY <1>4
<1> QED
  BY <1>2, <1>5

LEMMA ExecutedStep ==
  ASSUME KeyboardInv, Executed, Unfinished, KeyboardTick
  PROVE  Executed' /\ Unfinished'
<1> DEFINE run == down # <<>> /\ Complete(Taken)
<1>1. /\ heard' = heard \o down
      /\ queue' = (IF run THEN [q \in Queues |-> SubSeq(q, CommandLen(Head(q)) + 1, Len(q))][Taken]
                          ELSE Taken)
      /\ replies' = replies + (IF run THEN ReplyLen(Head(Taken)) ELSE 0)
  BY DEF KeyboardTick, Execute
<1>2. /\ queue \in Seq(Kinds) /\ heard \in Seq(Kinds) /\ down \in Seq(Kinds) /\ Len(down) <= 1
      /\ replies \in Nat /\ QueueCap \in Nat /\ QueueCap >= 3
  BY KeyboardAssumption DEF KeyboardInv, Rings, Emptied, Port
<1>3. /\ Len(queue) \in 0..2 /\ ~Complete(queue)
      /\ Len(queue) \in Nat /\ Len(queue) < QueueCap /\ Len(queue) + 1 <= QueueCap
  <2>1. Len(queue) \in 0..2 /\ ~Complete(queue)
    BY <1>2, IncompleteIsShort DEF Unfinished
  <2>2. PICK l \in Nat : l = Len(queue)
    BY <1>2
  <2>3. l \in 0..2 /\ QueueCap \in Nat /\ QueueCap >= 3
    BY <1>2, <2>1, <2>2
  <2>4. l < QueueCap /\ l + 1 <= QueueCap
    BY <2>3
  <2> QED
    BY <2>1, <2>2, <2>4
<1>4. CASE down = <<>>
  <2>1. queue \o down = queue /\ heard \o down = heard
    BY <1>2, <1>4, ConcatEmptySeq
  <2>2. Taken = queue
    <3>1. SubSeq(queue, 1, Len(queue)) = queue /\ Len(queue) < QueueCap
      BY <1>2, <1>3
    <3> QED
      BY <2>1, <3>1 DEF Taken
  <2>3. queue' = queue /\ heard' = heard /\ replies' = replies
    BY <1>1, <1>2, <1>4, <2>1, <2>2
  <2> QED
    BY <2>3 DEF Executed, Unfinished, Complete
<1>5. CASE down # <<>>
  <2>1. PICK b \in Kinds : down = <<b>>
    <3>1. Len(down) = 1 /\ down[1] \in Kinds
      <4>1. PICK l \in Nat : l = Len(down)
        BY <1>2
      <4>2. l <= 1 /\ l # 0
        BY <1>2, <1>5, <4>1, EmptySeq
      <4>3. l = 1
        BY <4>2
      <4>4. Len(down) = 1
        BY <4>1, <4>3
      <4>5. 1 \in 1..Len(down)
        BY <4>4
      <4>6. down[1] \in Kinds
        BY <1>2, <4>5, ElementOfSeq
      <4> QED
        BY <4>4, <4>6
    <3>2. down = <<down[1]>>
      <4>1. <<down[1]>> \in Seq(Kinds) /\ Len(<<down[1]>>) = 1 /\ <<down[1]>>[1] = down[1]
        BY <3>1
      <4>2. \A i \in 1..Len(down) : down[i] = <<down[1]>>[i]
        BY <3>1
      <4> QED
        BY <1>2, <3>1, <4>1, <4>2, SeqEqual
    <3> QED
      BY <3>1, <3>2
  <2> DEFINE q == Append(queue, b)
  <2>2. queue \o down = q /\ heard \o down = Append(heard, b)
    BY <1>2, <2>1, AppendIsConcat
  <2>3. q \in Seq(Kinds) /\ Len(q) = Len(queue) + 1 /\ q # <<>>
    BY <1>2
  <2>4. Taken = q
    <3> HIDE DEF q
    <3>1. SubSeq(q, 1, Len(q)) = q
      BY <2>3
    <3>2. Len(q) <= QueueCap /\ Len(q) \in Nat
      BY <1>2, <1>3, <2>3
    <3> QED
      BY <1>2, <2>2, <3>1, <3>2 DEF Taken
  <2>5. Parsed(heard') = Feed(Parsed(heard), b)
    BY <1>1, <1>2, <2>2, ParsedGrows
  <2>6. CASE Complete(q)
    <3>1. Len(q) = CommandLen(Head(q))
      BY <1>2, <1>3, <2>6, CompletedExactly
    <3>2. q \in Queues
      BY <1>2, <1>3, <2>3, QueuesAreShort
    <3>3. Parsed(heard') = [rest |-> <<>>, replies |-> replies + ReplyLen(Head(q))]
      BY <2>5, <2>6 DEF Feed, Executed
    <3> HIDE DEF q
    <3>4. queue' = SubSeq(q, Len(q) + 1, Len(q)) /\ replies' = replies + ReplyLen(Head(q))
      BY <1>1, <1>5, <2>4, <2>6, <3>1, <3>2
    <3>5. SubSeq(q, Len(q) + 1, Len(q)) = <<>>
      BY <2>3
    <3> QED
      BY <3>3, <3>4, <3>5 DEF Executed, Unfinished, Complete
  <2>7. CASE ~Complete(q)
    <3>1. Parsed(heard') = [rest |-> q, replies |-> replies]
      BY <2>5, <2>7 DEF Feed, Executed
    <3> HIDE DEF q
    <3>2. queue' = q /\ replies' = replies
      BY <1>1, <1>2, <2>4, <2>7
    <3>3. Executed'
      BY <3>1, <3>2 DEF Executed
    <3>4. Unfinished'
      BY <2>7, <3>2 DEF Unfinished, Complete
    <3> QED
      BY <3>3, <3>4
  <2> QED
    BY <2>6, <2>7
<1> QED
  BY <1>4, <1>5

\* lk201.c: every command is executed in the tick of its last byte, once, and no other command
\* is: what is queued is the unfinished command.
THEOREM KeyboardExecutes == Spec => []CommandsAreExecuted
<1>1. KeyboardInv /\ Executed /\ Unfinished /\ [Next]_vars => (Executed /\ Unfinished)'
  <2> SUFFICES ASSUME KeyboardInv, Executed, Unfinished, [Next]_vars PROVE (Executed /\ Unfinished)'
    OBVIOUS
  <2>1. CASE KeyboardTick
    BY <2>1, ExecutedStep
  <2>2. CASE UNCHANGED <<queue, heard, replies>>
    BY <2>2 DEF Executed, Unfinished, Complete
  <2>3. KeyboardTick \/ UNCHANGED <<queue, heard, replies>>
    BY DEF Next, vars, Press, Firmware, NoAccess, WriteSCON, WriteSBUF, Instruction, SerialTick
  <2> QED
    BY <2>1, <2>2, <2>3
<1>2. Executed => CommandsAreExecuted
  BY DEF Executed, CommandsAreExecuted
<1> QED
  BY <1>1, <1>2, ExecutedBegins, KeyboardInductive, PTL DEF Spec
=============================================================================
