---------------------------- MODULE KeyboardLink ----------------------------
(***************************************************************************)
(* The keyboard line: the CPU's serial port (i8051/peripheral.c), the two  *)
(* rings and the LK201 keyboard (lk201/lk201.c).                           *)
(*                                                                         *)
(* vt420_system_step runs, in this order and on one thread, a CPU          *)
(* instruction, the keyboard tick and the serial port's tick; the host     *)
(* pushes key bytes between two steps.  Down is towards the keyboard, up   *)
(* towards the firmware.                                                   *)
(***************************************************************************)
EXTENDS Integers, Sequences, SequencesExt

CONSTANTS RingCap,      \* KBD_RING_CAP
          QueueCap,     \* LK201_QUEUE_CAP
          Frames,       \* the lengths of a frame in ticks, one per serial mode
          PowerUpReply, \* how many bytes the longest response has
          MaxDown,      \* bound: bytes the firmware ever writes to SBUF
          MaxUp         \* bound: bytes the host ever pushes

ASSUME KeyboardAssumption ==
  /\ {RingCap, QueueCap, PowerUpReply} \subseteq Nat \ {0} /\ QueueCap >= 3
  /\ Frames \subseteq Nat \ {0}
  /\ \E f \in Frames : \A g \in Frames : f >= g
  /\ \E f \in Frames : \A g \in Frames : f <= g
  /\ {MaxDown, MaxUp} \subseteq Nat

VARIABLES
  phase,                    \* place in vt420_system_step
  frame, ren, ri, ti,       \* SCON: the mode's frame length; the flags
  sendTicks, sending, buffered,   \* transmitter: countdown, byte, double buffer
  recvTicks,                \* receiver: countdown
  down, up,                 \* term_to_kbd and kbd_to_term
  queue,                    \* the keyboard's bytes of an unfinished command
  written, heard,           \* history: bytes written to SBUF, taken by the keyboard
  replies,                  \* history: response bytes the keyboard sent
  raised,                   \* history: times TI was raised
  rash,                     \* history: SBUF was written with two bytes on their way
  age, riAge,               \* history: ticks of the marked byte, instructions since RI
  pushed                    \* history: bytes pushed by the host

sconVars == <<frame, ren, ri, ti>>
sendVars == <<sendTicks, sending, buffered>>
vars == <<phase, sconVars, sendVars, recvTicks, down, up, queue,
          written, heard, replies, raised, rash, age, riAge, pushed>>

\* Command bytes by the command they start: of one, two or three bytes, or one that is
\* answered by a whole status report.
Kinds == {"one", "two", "three", "power_up"}
None  == "none"
Longest  == CHOOSE f \in Frames : \A g \in Frames : f >= g
Shortest == CHOOSE f \in Frames : \A g \in Frames : f <= g

Init ==
  /\ phase = "cpu"
  /\ frame = Shortest /\ ren = FALSE /\ ri = FALSE /\ ti = FALSE    \* SCON = 0 is mode 0
  /\ sendTicks = 0 /\ sending = None /\ buffered = None /\ recvTicks = 0
  /\ down = <<>> /\ up = <<>> /\ queue = <<>>
  /\ written = <<>> /\ heard = <<>> /\ replies = 0 /\ raised = 0 /\ rash = FALSE
  /\ age = 0 /\ riAge = 0 /\ pushed = 0

Enqueue(ring, b) == IF Len(ring) < RingCap THEN Append(ring, b) ELSE ring
\* An answer of n bytes: those that find no room are dropped.
Answered(ring, n) ==
  LET room == RingCap - Len(ring)
  IN ring \o [i \in 1..(IF n < room THEN n ELSE room) |-> "reply"]
Held(b) == IF b = None THEN <<>> ELSE <<b>>
UpTo(n, max) == IF n < max THEN n + 1 ELSE max

(***************************************************************************)
(* The host presses keys: any number of bytes between two steps.  One of   *)
(* them may be marked, to follow it.                                       *)
(***************************************************************************)
Marked(ring) == \E i \in 1..Len(ring) : ring[i] = "marked"
Press(b) == /\ phase = "cpu" /\ pushed < MaxUp
            /\ b = "marked" => ~Marked(up)
            /\ up' = Enqueue(up, b) /\ pushed' = pushed + 1
            /\ age' = IF b = "marked" THEN 0 ELSE age
            /\ UNCHANGED <<phase, sconVars, sendVars, recvTicks, down, queue,
                           written, heard, replies, raised, rash, riAge>>

(***************************************************************************)
(* The firmware: the accesses to SCON and SBUF of one instruction.         *)
(***************************************************************************)
Instruction == /\ phase = "cpu" /\ phase' = "keyboard"
               /\ riAge' = IF ri THEN UpTo(riAge, Longest) ELSE 0
               /\ UNCHANGED <<recvTicks, down, up, queue, heard, replies, raised, age, pushed>>

NoAccess == Instruction /\ UNCHANGED <<sconVars, sendVars, written, rash>>

\* The ROM never sets RI itself.
WriteSCON == /\ Instruction
             /\ frame' \in Frames /\ ren' \in BOOLEAN /\ ti' \in BOOLEAN
             /\ ri' \in {FALSE, ri}
             /\ UNCHANGED <<sendVars, written, rash>>

\* A second byte waits in the double buffer; a third replaces it.
WriteSBUF(b) ==
  /\ Len(written) < MaxDown
  /\ Instruction
  /\ IF sendTicks = 0
     THEN sending' = b /\ sendTicks' = frame /\ UNCHANGED buffered
     ELSE buffered' = b /\ UNCHANGED <<sending, sendTicks>>
  /\ written' = Append(written, b)
  /\ rash' = (rash \/ Len(written) - raised >= 2)
  /\ UNCHANGED sconVars

Firmware == NoAccess \/ WriteSCON \/ \E b \in Kinds : WriteSBUF(b)

(***************************************************************************)
(* lk201_tick: take all bytes, then execute at most one command.           *)
(***************************************************************************)
CommandLen(b) == CASE b = "two" -> 2 [] b = "three" -> 3 [] OTHER -> 1
ReplyLen(b)   == CASE b = "power_up" -> PowerUpReply [] b = "two" -> 1 [] OTHER -> 0
Complete(q)   == q # <<>> /\ Len(q) >= CommandLen(Head(q))

Taken == SubSeq(queue \o down, 1, IF Len(queue \o down) < QueueCap
                                  THEN Len(queue \o down) ELSE QueueCap)

Execute(rest) ==
  /\ phase = "keyboard" /\ phase' = "serial"
  /\ down' = <<>> /\ heard' = heard \o down
  /\ LET q == Taken
         run == down # <<>> /\ Complete(q)
         n == IF run THEN ReplyLen(Head(q)) ELSE 0
     IN /\ queue' = IF run THEN rest[q] ELSE q
        /\ up' = Answered(up, n)
        /\ replies' = replies + n
  /\ UNCHANGED <<sconVars, sendVars, recvTicks, written, raised, rash, age, riAge, pushed>>

\* What is left of a queue whose first command has been executed.
Queues == UNION {[1..n -> Kinds] : n \in 0..QueueCap}
KeyboardTickForgetting == Execute([q \in Queues |-> Tail(q)])
KeyboardTick == Execute([q \in Queues |-> SubSeq(q, CommandLen(Head(q)) + 1, Len(q))])

(***************************************************************************)
(* i8051_serial_tick.                                                      *)
(***************************************************************************)
\* The frame ends: the byte is out, TI is raised, the buffered byte starts.
SendDoneLosingBuffer ==
  /\ sendTicks = 1
  /\ down' = Enqueue(down, sending) /\ ti' = TRUE /\ raised' = raised + 1
  /\ sending' = None /\ buffered' = None /\ sendTicks' = 0
SendDone ==
  /\ sendTicks = 1
  /\ down' = Enqueue(down, sending) /\ ti' = TRUE /\ raised' = raised + 1
  /\ sending' = buffered /\ buffered' = None
  /\ sendTicks' = IF buffered = None THEN 0 ELSE frame

Sending == /\ sendTicks # 1
           /\ sendTicks' = IF sendTicks = 0 THEN 0 ELSE sendTicks - 1
           /\ UNCHANGED <<down, ti, raised, sending, buffered>>

\* A byte whose frame ends with REN clear or RI set is ignored.
FrameEnds == recvTicks = 1
Overrun   == FrameEnds /\ ren /\ ri
Arrive == /\ ri' = (ri \/ (FrameEnds /\ ren))
          /\ riAge' = IF ri THEN riAge ELSE 0

\* The next frame starts as soon as the line is free, whatever REN says.
StartOn(ready, ticks) ==
  IF ready /\ up # <<>>
  THEN up' = Tail(up) /\ recvTicks' = ticks
  ELSE UNCHANGED up /\ recvTicks' = IF recvTicks = 0 THEN 0 ELSE recvTicks - 1
LineFree == recvTicks <= 1
StartIfEnabled == StartOn(LineFree /\ ren, frame)
StartEarly == StartOn(LineFree, 1)
Start == StartOn(LineFree, frame)

SerialTick == /\ phase = "serial" /\ phase' = "cpu"
              /\ SendDone \/ Sending
              /\ Arrive /\ Start
              /\ age' = IF Marked(up) THEN UpTo(age, RingCap * Longest + 1) ELSE 0
              /\ UNCHANGED <<frame, ren, queue, written, heard, replies, rash, pushed>>

Next == Firmware \/ KeyboardTick \/ SerialTick \/ \E b \in {"key", "marked"} : Press(b)

Spec == Init /\ [][Next]_vars

-----------------------------------------------------------------------------
(***************************************************************************)
(* Properties.                                                             *)
(***************************************************************************)
\* Every variable stays in its type.
TypeOK ==
  /\ phase \in {"cpu", "keyboard", "serial"}
  /\ frame \in Frames /\ {ren, ri, ti, rash} \subseteq BOOLEAN
  /\ sendTicks \in 0..Longest /\ recvTicks \in 0..Longest
  /\ {sending, buffered} \subseteq Kinds \cup {None} /\ (sending = None <=> sendTicks = 0)
  /\ down \in Seq(Kinds) /\ up \in Seq({"key", "marked", "reply"})
  /\ Len(down) <= RingCap /\ Len(up) <= RingCap
  /\ queue \in Seq(Kinds) /\ Len(queue) <= QueueCap
  /\ {written, heard} \subseteq Seq(Kinds)
  /\ {replies, raised, pushed} \subseteq Nat
  /\ age \in 0..(RingCap * Longest + 1) /\ riAge \in 0..Longest

\* peripheral.c, lk201.c: as long as the firmware never has more than two bytes on their way,
\* every command byte reaches the keyboard, in order and once: no ring in between overflows.
CommandsAreHeard ==
  ~rash => written = heard \o down \o Held(sending) \o Held(buffered)

\* The bytes of a stream that are not yet a whole command, and the replies to those that are.
Feed(s, b) == LET q == Append(s.rest, b)
              IN IF Complete(q) THEN [rest |-> <<>>, replies |-> s.replies + ReplyLen(Head(q))]
                                ELSE [rest |-> q, replies |-> s.replies]
Parsed(bytes) == FoldLeft(Feed, [rest |-> <<>>, replies |-> 0], bytes)

\* lk201.c executes one command per tick at most, and none in a tick without a byte.  Still
\* each command is executed in the tick of its last byte, once, however its bytes were spread
\* over ticks: what is queued is exactly the unfinished command.
CommandsAreExecuted ==
  phase = "serial" => queue = Parsed(heard).rest /\ replies = Parsed(heard).replies

\* peripheral.c ignores a byte that arrives while RI is set.  That takes a firmware which
\* has left RI set for at least the time of the shortest frame.
OverrunNeedsLateFirmware ==
  [][(SerialTick /\ Overrun) => riAge >= Shortest]_vars

\* ctl.c waits at most CTL_DRAIN_CAP steps for a key to leave the ring.  A key leaves it in at
\* most RingCap frames (256 * 660 steps, fewer than the 400000 of the cap), whether the
\* firmware listens or not.
KeysLeaveInTime ==
  Marked(up) => age <= RingCap * Longest
=============================================================================
