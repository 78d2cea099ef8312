--------------------------------- MODULE Typing ---------------------------------
(***************************************************************************)
(* Keys as the bytes that a keyboard would send (the senders of lk201.c    *)
(* and the typing functions of host/ctl.c), up to the terminal's view of   *)
(* what was typed.  A chord is a sequence of bytes: the modifiers that go  *)
(* down, the key, and one byte that lets go of them all.  The window and   *)
(* the text display push the bytes of a key at once.  The tool server      *)
(* pushes one, runs the machine until the ring is empty or it has waited   *)
(* long enough, and then for a gap, because the terminal's firmware        *)
(* mistracks modifiers that change faster than by hand.  The keyboard's    *)
(* own answers go through the same ring, and a receiver that is not ready  *)
(* ignores a byte.  Time is counted in frames of the serial line.          *)
(***************************************************************************)
EXTENDS Integers, Sequences, FiniteSets, SequencesExt

CONSTANTS
  RingCap,      \* KBD_RING_CAP
  KeyGap,       \* CTL_KEY_GAP, in frames
  DrainCap,     \* CTL_DRAIN_CAP, in frames
  MostAnswers,  \* bytes the keyboard answers in a frame, in which it can hear one command: 4
  MaxKeys,      \* bound: keys typed
  Typeable      \* bound: which they are

VARIABLES
  host,         \* which front end types: "window" or "tools"
  typed,        \* history: the keys typed, as meant
  todo,         \* bytes of the last of them that the tool server has yet to push
  wait, waited, \* what the tool server waits for: "none", "drain" or "gap"; frames so far
  gaveUp,       \* history: it has stopped waiting for the ring to drain
  ring,         \* kbd_to_term
  wire,         \* the byte whose frame is being received, if any
  sbuf,         \* the byte received and not taken yet, while RI is set
  quiet,        \* frames since a key's byte was last received, up to KeyGap
  pace,         \* history: key bytes came "apart", "hurried", or were "mistracked" because of it
  dropped,      \* history: the full ring or the receiver dropped a key's byte
  held,         \* the terminal: keys it believes are down
  heard         \* the terminal: the keys it took, with the modifiers it believed in

lineVars == <<wire, sbuf, quiet>>
waitVars == <<wait, waited, gaveUp>>
terminalVars == <<held, heard>>
typingVars == <<host, typed, todo, waitVars, ring, lineVars, pace, dropped, terminalVars>>

\* Keys with their modifiers: a character or special key, and one of F1 to F5, which the
\* keyboard reports going down and going up.
Modifiers == {"shift", "ctrl"}
Key == [key : {"char", "f1"}, with : SUBSET Modifiers]

TypingInit ==
  /\ host \in {"window", "tools"} /\ typed = <<>> /\ todo = <<>>
  /\ wait = "none" /\ waited = 0 /\ gaveUp = FALSE
  /\ ring = <<>> /\ wire = <<>> /\ sbuf = <<>> /\ quiet = KeyGap /\ pace = "apart"
  /\ dropped = FALSE /\ held = {} /\ heard = <<>>

\* lk201_send_char ... lk201_send_shift_ctrl_special_key, and their paced counterparts.
Down(k) == (IF "ctrl" \in k.with THEN <<"ctrl">> ELSE <<>>) \o (IF "shift" \in k.with THEN <<"shift">> ELSE <<>>)
Bytes(k) == Down(k) \o <<k.key>> \o (IF k.with # {} \/ k.key = "f1" THEN <<"all_up">> ELSE <<>>)

\* tx_push, for one byte after the other: those go in for which there is room.
Room == RingCap - Len(ring)
Fitting(bytes) == IF Len(bytes) <= Room THEN bytes ELSE SubSeq(bytes, 1, Room)
PushAll(bytes) == /\ ring' = ring \o Fitting(bytes)
                  /\ dropped' = (dropped \/ Fitting(bytes) # bytes)

\* A key typed in the window or in the text display.
TypeInWindow(k) ==
  /\ host = "window" /\ Len(typed) < MaxKeys
  /\ typed' = Append(typed, k) /\ PushAll(Bytes(k))
  /\ UNCHANGED <<host, todo, waitVars, lineVars, pace, terminalVars>>

\* ctl_type, ctl_key: the next key, once the last one's gap is over.
TypeByTool(k) ==
  /\ host = "tools" /\ todo = <<>> /\ wait = "none" /\ Len(typed) < MaxKeys
  /\ typed' = Append(typed, k) /\ todo' = Bytes(k)
  /\ UNCHANGED <<host, waitVars, ring, lineVars, pace, dropped, terminalVars>>

\* kbd_byte_locked: one byte, whatever the ring holds; then drain_kbd_locked.
PushByte ==
  /\ todo # <<>> /\ wait = "none"
  /\ PushAll(<<Head(todo)>>) /\ todo' = Tail(todo)
  /\ wait' = "drain" /\ waited' = 0
  /\ UNCHANGED <<host, typed, gaveUp, lineVars, pace, terminalVars>>

\* drain_kbd_locked stops waiting when the ring is empty, or when it has waited long enough.
EndDrainWithoutGap ==
  /\ wait = "drain" /\ (ring = <<>> \/ waited = DrainCap)
  /\ wait' = "none" /\ waited' = 0 /\ gaveUp' = (gaveUp \/ ring # <<>>)
  /\ UNCHANGED <<host, typed, todo, ring, lineVars, pace, dropped, terminalVars>>
EndDrain ==
  /\ wait = "drain" /\ (ring = <<>> \/ waited = DrainCap)
  /\ wait' = "gap" /\ waited' = 0 /\ gaveUp' = (gaveUp \/ ring # <<>>)
  /\ UNCHANGED <<host, typed, todo, ring, lineVars, pace, dropped, terminalVars>>
EndGap ==
  /\ wait = "gap" /\ waited = KeyGap
  /\ wait' = "none" /\ waited' = 0
  /\ UNCHANGED <<host, typed, todo, gaveUp, ring, lineVars, pace, dropped, terminalVars>>

\* The machine runs while the tool server has it run, and between two calls of it.
MachineRuns ==
  \/ wait = "none" /\ todo = <<>>
  \/ wait = "drain" /\ waited < DrainCap
  \/ wait = "gap" /\ waited < KeyGap

\* i8051_serial_tick, lk201_tick: a frame's time.  The byte on the line arrives and is ignored if
\* the receiver is off (~on) or still holds one; the keyboard answers with n bytes; the next byte
\* of the ring follows on the line.
Received == IF wire = <<>> THEN {} ELSE {wire[1]}
Arrives(on) ==
  /\ sbuf' = IF on /\ sbuf = <<>> THEN wire ELSE sbuf
  /\ dropped' = (dropped \/ (~(on /\ sbuf = <<>>) /\ Received \ {"reply"} # {}))
  /\ IF Received \ {"reply"} # {}
     THEN /\ quiet' = 0
          /\ pace' = IF quiet + 1 < KeyGap /\ pace = "apart" THEN "hurried" ELSE pace
     ELSE /\ quiet' = IF quiet < KeyGap THEN quiet + 1 ELSE KeyGap
          /\ UNCHANGED pace
Answered(n) == ring \o [i \in 1..n |-> "reply"]
Follows(bytes) == IF bytes = <<>> THEN wire' = <<>> /\ ring' = <<>>
                  ELSE wire' = <<Head(bytes)>> /\ ring' = Tail(bytes)
Frame ==
  /\ MachineRuns
  /\ \E on \in BOOLEAN : Arrives(on)
  /\ \E n \in 0..MostAnswers : Len(ring) + n <= RingCap /\ Follows(Answered(n))
  /\ waited' = IF wait = "none" THEN 0 ELSE waited + 1
  /\ UNCHANGED <<host, typed, todo, wait, gaveUp, terminalVars>>

\* The terminal takes a byte.  Modifiers and F1 to F5 say that they went down, or, when they
\* were, up; the byte for all of them lets go of them.  Once keys came too fast for it, it may miss
\* such a change.
Toggled(b) == IF b \in held THEN held \ {b} ELSE held \cup {b}
Hears(k) == heard' = Append(heard, [key |-> k, with |-> held \cap Modifiers])
Takes(b) ==
  \/ b = "all_up" /\ held' = {} /\ UNCHANGED heard
  \/ b \in Modifiers /\ held' = Toggled(b) /\ UNCHANGED heard
  \/ b = "f1" /\ held' = Toggled(b) /\ (IF b \in held THEN UNCHANGED heard ELSE Hears(b))
  \/ b = "char" /\ Hears(b) /\ UNCHANGED held
  \/ b = "reply" /\ UNCHANGED <<held, heard>>
Mistracks(b) == b \in Modifiers \cup {"all_up"} /\ pace # "apart" /\ pace' = "mistracked" /\ UNCHANGED terminalVars
Terminal ==
  /\ sbuf # <<>> /\ sbuf' = <<>>
  /\ \/ Takes(sbuf[1]) /\ UNCHANGED pace
     \/ Mistracks(sbuf[1])
  /\ UNCHANGED <<host, typed, todo, waitVars, ring, wire, quiet, dropped>>

TypingNext == \/ \E k \in Typeable : TypeInWindow(k) \/ TypeByTool(k)
              \/ PushByte \/ EndDrain \/ EndGap \/ Frame \/ Terminal

\* lk201.c, ctl.c: unless a byte was dropped or a change of modifiers was missed, the terminal
\* hears the keys typed, with the modifiers meant, whatever the keyboard says of itself between
\* their bytes, and believes no key down once all have arrived.  What a tool types comes spaced by
\* a gap, even if the wait for the ring was given up, so that no change is missed; and unless it
\* was, the ring has room for the rest of a chord once the chord is begun.
TypedIsHeard ==
  /\ ~dropped /\ pace # "mistracked" =>
       /\ IsPrefix(heard, typed)
       /\ sbuf = <<>> /\ wire = <<>> /\ ring = <<>> /\ todo = <<>> => heard = typed /\ held = {}
  /\ host = "tools" => pace = "apart"
  /\ host = "tools" /\ ~gaveUp /\ wait = "none" /\ todo # <<>> /\ todo # Bytes(Last(typed)) => Room > 0
=============================================================================
