--------------------------------- MODULE Parts ---------------------------------
(***************************************************************************)
(* Parts that share nothing, put side by side: in each behaviour one of    *)
(* them runs and the others rest.                                          *)
(***************************************************************************)
EXTENDS WindowLoop, EmulatorLoop, Sequences, FiniteSets

CONSTANTS
  Byte, Cap, Word,                                \* ByteRing
  FirstCap, MaxCap,                               \* LoopbackQueue
  WordLists,                                      \* SessionConfig
  Lines, StatusLines, ShortStatus, Heights, MaxRows, RowTables,   \* FrameLayout
  FirstEnd, SecondStart, SecondEnd,               \* RowCells
  Addresses, Values, HSync, HTotal, VSync, VPorch, VActive, VFront,   \* MemoryMap
  Sizes, Cell, Default,                           \* TextGrid
  RingCap, KeyGap, DrainCap, MostAnswers, MaxKeys, Typeable   \* Typing

\* byte_ring_push masks an index that counts in 32 bits: a ring has fewer cells than that, and a
\* number of them that divides it.
ASSUME RingAssumption ==
  /\ Byte # {} /\ Cap \in Nat \ {0} /\ Word \in Nat
  /\ Cap < Word /\ Word % Cap = 0

ASSUME QueueAssumption == FirstCap \in Nat \ {0} /\ MaxCap \in Nat

\* Words are sequences of pieces; no list of them is the mark of a string that says none.
ASSUME WordAssumption == \A l \in WordLists : l \in Seq(Seq(STRING)) /\ l # <<<<"broken">>>>

\* The screen has lines, every row has some, and the table of rows reaches over the screen; a short
\* status row fits in the lines below.
ASSUME FrameAssumption ==
  /\ Lines \in Nat \ {0} /\ StatusLines \in Nat /\ ShortStatus \in Nat /\ ShortStatus <= StatusLines
  /\ MaxRows \in Nat
  /\ \A h \in Heights : h \in Nat \ {0} /\ MaxRows * h >= Lines

\* A row's page has two parts, the first of whole pairs of characters, the second as far off
\* as the order of its bytes needs; together they hold the 132 columns.
ASSUME PageAssumption ==
  /\ FirstEnd \in Nat \ {0} /\ SecondStart \in Nat /\ SecondEnd \in Nat
  /\ FirstEnd < SecondStart /\ SecondStart < SecondEnd
  /\ FirstEnd % 3 = 0 /\ SecondStart % 3 = 2
  /\ 2 * (FirstEnd + SecondEnd - SecondStart) >= 3 * 132

\* The addresses are any of the 65536, but with an address of the two exchanged pages its partner.
ASSUME AddressAssumption ==
  \A a \in Addresses :
    /\ a \in Int /\ 0 <= a /\ a <= 65535
    /\ 512 <= a /\ a < 768 => a + 256 \in Addresses
    /\ 768 <= a /\ a < 1024 => a - 256 \in Addresses

\* The timings have a picture, and lines of at least a clock.
ASSUME TimingAssumption ==
  /\ HTotal \in Nat \ {0} /\ VSync \in Nat /\ VActive \in Nat \ {0}
  /\ VPorch \in [BOOLEAN -> Nat] /\ VFront \in [BOOLEAN -> Nat]

\* A cell that is composed is never the cell of a grid that has not been drawn.
ASSUME TextAssumption ==
  /\ Sizes \subseteq (Nat \ {0}) \X (Nat \ {0})
  /\ \A c \in Cell : c = [ch |-> c.ch, attr |-> c.attr] /\ c.ch # "never"

\* The ring has room for all that the keyboard can say of itself in a gap, and for one byte more;
\* a full ring runs empty before the wait for it is given up, if nothing comes after.
ASSUME TypingAssumption ==
  /\ RingCap \in Nat /\ KeyGap \in Nat \ {0} /\ DrainCap \in Nat /\ MostAnswers \in Nat
  /\ KeyGap * MostAnswers < RingCap /\ RingCap <= DrainCap
  /\ Typeable \subseteq [key : {"char", "f1"}, with : SUBSET {"shift", "ctrl"}]

VARIABLES
  part,                                           \* the part that runs
  rbuf, rhead, rtail, rout,                       \* the ring
  qbuf, qhead, qlen, qcap, qout,                  \* the loopback queue
  input, meant, at, quote, have, buf, words, args, phase, result,   \* the configuration
  rowKind, swapAt, height1, height2, onSecond, scroll, rows, row, top, high, frame,   \* the frame
  byteAt, carried, line,                          \* the characters of a row
  mapper, mapper2, bank, hz70, beamX, beamY, timing, csync,   \* memory and beam
  size, screen, cursor, pen, grid, front, cleared, stage, dropped, resized,   \* text display
  host, typed, todo, wait, waited, gaveUp, ring, wire, sbuf, quiet, pace, lost, held, heard   \* typing

ringVars == <<rbuf, rhead, rtail, rout>>
queueVars == <<qbuf, qhead, qlen, qcap, qout>>
configVars == <<input, meant, at, quote, have, buf, words, args, phase, result>>
frameVars == <<rowKind, swapAt, height1, height2, onSecond, scroll, rows, row, top, high, frame>>
cellVars == <<byteAt, carried, line>>
memoryVars == <<mapper, mapper2, bank, hz70, beamX, beamY, timing, csync>>
textVars == <<size, screen, cursor, pen, grid, front, cleared, stage, dropped, resized>>
typingVars == <<host, typed, todo, <<wait, waited, gaveUp>>, ring, <<wire, sbuf, quiet>>, pace, lost, <<held, heard>>>>
vars == <<part, ringVars, queueVars, configVars, frameVars, cellVars, memoryVars, textVars,
          typingVars, windowVars, emulatorVars>>

R == INSTANCE ByteRing WITH buf <- rbuf, head <- rhead, tail <- rtail, out <- rout
Q == INSTANCE LoopbackQueue WITH buf <- qbuf, head <- qhead, len <- qlen, cap <- qcap, out <- qout
G == INSTANCE SessionConfig
F == INSTANCE FrameLayout WITH kind <- rowKind
C == INSTANCE RowCells
M == INSTANCE MemoryMap
T == INSTANCE TextGrid
K == INSTANCE Typing WITH dropped <- lost

Parts == {"ring", "queue", "config", "frame", "cells", "memory", "text", "typing", "window", "emulator"}
FrameRests == /\ rowKind = <<>> /\ swapAt = {} /\ height1 = 0 /\ height2 = 0 /\ onSecond = FALSE /\ rows = 0 /\ row = 0
              /\ scroll = [first |-> 0, last |-> 0, by |-> 0] /\ top = 0 /\ high = 0 /\ frame = <<>>
Init == /\ part \in Parts
        /\ R!Init /\ Q!Init /\ G!Init /\ C!CellInit /\ M!MemoryInit /\ T!GridInit /\ K!TypingInit
        /\ WindowInit /\ EmulatorInit
        /\ part # "config" => meant = <<>> /\ input = <<>>
        /\ part # "ring" => rbuf[0] = CHOOSE b \in Byte : TRUE
        /\ part # "text" => size = CHOOSE s \in Sizes : TRUE
        /\ part # "typing" => host = "window"
        /\ part # "window" => age = 0
        /\ IF part = "frame" THEN F!FrameInit ELSE FrameRests

Next ==
  /\ UNCHANGED part
  /\ \/ part = "ring" /\ R!Next
     \/ part # "ring" /\ UNCHANGED ringVars
  /\ \/ part = "queue" /\ Q!Next
     \/ part # "queue" /\ UNCHANGED queueVars
  /\ \/ part = "config" /\ G!Next
     \/ part # "config" /\ UNCHANGED configVars
  /\ \/ part = "frame" /\ F!FrameNext
     \/ part # "frame" /\ UNCHANGED frameVars
  /\ \/ part = "cells" /\ C!CellNext
     \/ part # "cells" /\ UNCHANGED cellVars
  /\ \/ part = "memory" /\ M!MemoryNext
     \/ part # "memory" /\ UNCHANGED memoryVars
  /\ \/ part = "text" /\ T!GridNext
     \/ part # "text" /\ UNCHANGED textVars
  /\ \/ part = "typing" /\ K!TypingNext
     \/ part # "typing" /\ UNCHANGED typingVars
  /\ \/ part = "window" /\ WindowNext
     \/ part # "window" /\ UNCHANGED windowVars
  /\ \/ part = "emulator" /\ EmulatorNext
     \/ part # "emulator" /\ UNCHANGED emulatorVars
Spec == Init /\ [][Next]_vars

\* common.c: the ring is a queue, when it is full, when its cells are used again and when its
\* indices pass the end of their word.  chan.c: what a loopback session sends comes back
\* complete and in order, wherever in the buffer the queue stands when it has to grow.
QueuesAreFifos == R!IsFifo /\ Q!IsFifo

\* config.c: what a session's description means is what was meant, or it is refused.
ConfigUnderstood == part = "config" => G!Understood

\* video.c, fb_render.c: the frame shows every line where it belongs, and every character of a
\* row is put together from its own half bytes.
FrameIsRight == (part = "frame" => F!LinesInPlace) /\ (part = "cells" => C!CellsInPlace)

\* vt420.c: however the mapper is set, no two addresses share a byte, none leads out of the
\* memory and none is hidden.  generic.c: the beam sweeps each frame of the timing in use whole,
\* whenever the timing is changed.
MemoryIsSound == [](part = "memory" => M!AddressesDisjoint) /\ M!BeamInFrame

\* text.c: the host's terminal shows the frame composed, unless a write failed or the terminal
\* was resized and resized back.
ScreenIsFrame == part = "text" => T!ScreenIsFront

\* lk201.c, ctl.c: the terminal hears the keys typed with their modifiers, unless a byte was dropped
\* or keys came too fast for it; those a tool types do not.
KeysAreHeard == part = "typing" => K!TypedIsHeard
=============================================================================
