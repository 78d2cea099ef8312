------------------------------ MODULE NvrStore ------------------------------
(***************************************************************************)
(* The ER5911 serial EEPROM (machine/generic.c), the DUART output pins     *)
(* that drive it, and its image file (machine/vt420.c).                    *)
(*                                                                         *)
(* A step of the system is an instruction, which may move the pins, and    *)
(* the EEPROM's tick (one action here), then the check whether a write has *)
(* to be saved.  The process may be killed between any two actions and be  *)
(* started again.  Words and addresses may be narrower than the chip's 8   *)
(* and 7 bits.                                                             *)
(***************************************************************************)
EXTENDS Integers, Sequences, SequencesExt

CONSTANTS ABits, DBits   \* bits of an address and of a word

ASSUME NvrAssumption == {ABits, DBits} \subseteq Nat \ {0}

VARIABLES
  phase,            \* place in vt420_system_step, or why it is not running
  pins,             \* the pins that are high: cs, sk, di
  lastCs, lastSk,   \* CS and SK at the last tick
  chip,             \* the state of the chip and the fields valid in it
  wEnable, doLine,
  mem,              \* the EEPROM's words
  unsaved,          \* write_count > nvr_write
  file,             \* the image file's words, or Absent
  clocked, enabled, \* history: bits clocked in since CS rose; EWEN was last
  out,              \* history: bits clocked out since the READ
  ioFailed, erased  \* history: the last save failed; an ERAL since the last save

chipVars == <<lastCs, lastSk, chip, wEnable, doLine, mem>>
histVars == <<clocked, enabled, out, erased>>
vars == <<phase, pins, chipVars, unsaved, file, histVars, ioFailed>>

Size   == 2^ABits
Addr   == 0..(Size - 1)
Ones   == 2^DBits - 1              \* an erased word
Word   == 0..Ones
Bits   == {0, 1}
CmdLen == 1 + 1 + 4 + ABits        \* dummy, start, operation, address
Absent == <<-1>>
Factory == [i \in 1..Size |-> 0]   \* VT420_DEFAULT_NVR

Number(bits) == FoldLeft(LAMBDA n, b : 2 * n + b, 0, bits)
Bit(word, i) == (word \div 2^i) % 2

Idle == [kind |-> "idle"]
ShiftCmd(bits) == [kind |-> "shift_cmd", bits |-> bits]
ReadOut(a, pos) == [kind |-> "read_out", addr |-> a, pos |-> pos, data |-> mem[a]]
WriteData(a, bits) == [kind |-> "write_data", addr |-> a, bits |-> bits]
Busy(n) == [kind |-> "busy", left |-> n]

\* The operations, and the parts of a command.
READ  == {<<1, 0, 0, 0>>}
WRITE == {<<0, 1, 0, 0>>, <<1, 1, 0, 0>>}
EWEN  == {<<0, 0, 1, 1>>}
EWDS  == {<<0, 0, 1, 0>>}
ERAL  == {<<0, 0, 0, 1>>}
Started(c) == c[2] = 1
Op(c) == SubSeq(c, 3, 6)
AddrOf(c) == Number(SubSeq(c, 7, 6 + ABits))
Is(c, ops) == Started(c) /\ Op(c) \in ops

(***************************************************************************)
(* Starting and stopping.                                                  *)
(***************************************************************************)
\* A missing file is created with the factory image; a short one is padded with 0xFF.
Loaded(f) == LET g == IF f = Absent THEN Factory ELSE f
             IN [a \in Addr |-> IF a < Len(g) THEN g[a + 1] ELSE Ones]

\* Power-up: the DUART's output register is 0, so every pin is high.
Init == /\ phase = "new"
        /\ pins = {"cs", "sk", "di"} /\ lastCs = FALSE /\ lastSk = FALSE
        /\ chip = Idle /\ wEnable = FALSE /\ doLine = 0 /\ unsaved = FALSE
        /\ clocked = <<>> /\ enabled = FALSE /\ out = <<>>
        /\ erased = FALSE /\ ioFailed = FALSE
        /\ mem = Loaded(Absent)
        /\ file \in {Absent} \cup {SubSeq(Factory, 1, n) : n \in 0..Size}

\* vt420_system_new with a file (when the file cannot be read nothing runs).
PowerUp == /\ phase \in {"new", "off", "killed"} /\ phase' = "step"
           /\ file' = IF file = Absent THEN Factory ELSE file
           /\ erased' = FALSE /\ ioFailed' = FALSE
           /\ UNCHANGED <<pins, lastCs, lastSk, chip, wEnable, doLine, unsaved,
                          clocked, enabled, out>>

BootFromFactory == PowerUp /\ mem' = Loaded(Absent)
Boot == PowerUp /\ mem' = Loaded(file)

\* The process ends between two steps ("off") or inside one ("killed"); nothing is saved
\* on the way out.  What it held is lost: all is as it will be at the next power-up, but mem
\* and the histories of saving, which still tell what was lost.
Stop == /\ phase \in {"step", "save", "write"}
        /\ phase' = IF phase = "step" THEN "off" ELSE "killed"
        /\ pins' = {"cs", "sk", "di"} /\ lastCs' = FALSE /\ lastSk' = FALSE
        /\ chip' = Idle /\ wEnable' = FALSE /\ doLine' = 0 /\ unsaved' = FALSE
        /\ clocked' = <<>> /\ enabled' = FALSE /\ out' = <<>>
        /\ UNCHANGED <<mem, file, erased, ioFailed>>

(***************************************************************************)
(* The chip.                                                               *)
(***************************************************************************)
\* An instruction sets or resets some bits of the DUART's output register; the tick that
\* follows sees the pins it leaves.
MovePins == pins' \in {P \in SUBSET {"cs", "sk", "di"} : P \subseteq pins \/ pins \subseteq P}
cs == "cs" \in pins'
sk == "sk" \in pins'
di == IF "di" \in pins' THEN 1 ELSE 0

\* CS low: the chip forgets what it was doing.
Deselected ==
  /\ ~cs
  /\ chip' = Idle /\ doLine' = 0
  /\ clocked' = <<>> /\ out' = <<>>
  /\ UNCHANGED <<wEnable, mem, unsaved, enabled, erased>>

\* CS has just risen, or had risen before: the chip as the clock edges find it.
Selected == IF lastCs THEN chip ELSE ShiftCmd(<<>>)
Line == IF lastCs THEN doLine ELSE 0

\* History: the bits up to the end of a WRITE, or of another command.
Recorded == CmdLen + DBits
Record(c) == IF Len(c) > Recorded \/ (Len(c) = CmdLen /\ ~Is(c, WRITE))
             THEN [i \in 1..Recorded |-> 0] ELSE c
Clock(c) ==
  /\ clocked' = Record(c)
  /\ enabled' = IF Len(c) = CmdLen /\ Is(c, EWEN \cup EWDS) THEN Op(c) \in EWEN ELSE enabled

\* nvr_decode_command.  EWEN and EWDS leave the chip shifting, with all bits but the last.
DecodeIf(c, held, mayWrite) ==
  /\ chip' = CASE Is(c, READ)  -> ReadOut(AddrOf(c), 0)
               [] Is(c, WRITE) /\ mayWrite -> WriteData(AddrOf(c), <<>>)
               [] Is(c, EWEN \cup EWDS) -> ShiftCmd(held)
               [] Is(c, ERAL) /\ mayWrite -> Busy(2)
               [] OTHER -> Idle
  /\ wEnable' = IF Is(c, EWEN \cup EWDS) THEN Op(c) \in EWEN ELSE wEnable
  /\ doLine' = CASE Is(c, READ) -> 0 [] chip'.kind = "busy" -> 1 [] OTHER -> Line
  /\ mem' = IF chip'.kind = "busy" THEN [a \in Addr |-> Ones] ELSE mem
  /\ erased' = (erased \/ chip'.kind = "busy")
DecodeUnguarded(c, held) == DecodeIf(c, held, TRUE)
Decode(c, held) == DecodeIf(c, held, wEnable)

\* A bit of a command.
ShiftCommand ==
  LET c == Append(Selected.bits, di) IN
  /\ Selected.kind = "shift_cmd"
  /\ \/ Len(c) = CmdLen /\ Decode(c, Selected.bits)
     \/ Len(c) < CmdLen /\ chip' = ShiftCmd(c) /\ doLine' = Line
        /\ UNCHANGED <<wEnable, mem, erased>>
  /\ UNCHANGED unsaved

\* A bit of a word; the last one writes it.
ShiftData ==
  LET w == Append(chip.bits, di) IN
  /\ Selected.kind = "write_data"
  /\ \/ /\ Len(w) = DBits
        /\ unsaved' = TRUE
        /\ mem' = IF wEnable THEN [mem EXCEPT ![chip.addr] = Number(w)] ELSE mem
        /\ chip' = Busy(2) /\ doLine' = 1
     \/ /\ Len(w) < DBits
        /\ chip' = WriteData(chip.addr, w)
        /\ UNCHANGED <<unsaved, mem, doLine>>
  /\ UNCHANGED <<wEnable, erased>>

\* SK rises: sample DI.
Rise ==
  /\ cs /\ sk /\ ~lastSk
  /\ Clock(Append(IF lastCs THEN clocked ELSE <<>>, di))
  /\ \/ ShiftCommand
     \/ ShiftData
     \/ /\ Selected.kind \notin {"shift_cmd", "write_data"}
        /\ UNCHANGED <<chip, wEnable, doLine, mem, unsaved, erased>>
  /\ out' = IF chip'.kind = "read_out" THEN out ELSE <<>>

\* SK falls: clock a bit of the word out -- a 0 before each word -- or get on with a write.
ShiftOut(last, next) ==
  /\ Selected.kind = "read_out"
  /\ doLine' = IF chip.pos = 0 THEN 0 ELSE Bit(chip.data, DBits - chip.pos)
  /\ chip' = IF chip.pos = last THEN next ELSE [chip EXCEPT !.pos = @ + 1]
  /\ out' = IF Len(out) < 2 * (DBits + 1) THEN Append(out, doLine') ELSE out
NextAddr == (chip.addr + 1) % Size
NextBitOneMore == ShiftOut(DBits + 1, ReadOut(NextAddr, 0))
NextBitOfSameWord == ShiftOut(DBits, [chip EXCEPT !.addr = NextAddr, !.pos = 0])
NextBit == ShiftOut(DBits, ReadOut(NextAddr, 0))

GetReady ==
  /\ Selected.kind = "busy"
  /\ \/ chip.left = 1 /\ chip' = Idle /\ doLine' = 0
     \/ chip.left = 2 /\ chip' = Busy(1) /\ UNCHANGED doLine
  /\ UNCHANGED out

Fall ==
  /\ cs /\ ~sk /\ lastSk
  /\ clocked' = IF lastCs THEN clocked ELSE <<>>
  /\ \/ NextBit
     \/ GetReady
     \/ /\ Selected.kind \notin {"read_out", "busy"}
        /\ chip' = Selected /\ doLine' = Line /\ UNCHANGED out
  /\ UNCHANGED <<wEnable, mem, unsaved, enabled, erased>>

NoEdge ==
  /\ cs /\ sk = lastSk
  /\ chip' = Selected /\ doLine' = Line
  /\ clocked' = IF lastCs THEN clocked ELSE <<>>
  /\ UNCHANGED <<wEnable, mem, unsaved, enabled, out, erased>>

NvrTick == /\ phase = "step" /\ phase' = "save"
           /\ MovePins
           /\ Deselected \/ Rise \/ Fall \/ NoEdge
           /\ lastCs' = cs /\ lastSk' = sk
           /\ UNCHANGED <<file, ioFailed>>

(***************************************************************************)
(* The end of vt420_system_step: nvr_save_file truncates the file, then    *)
(* writes and closes it.  Each may fail; the write counts as saved.        *)
(***************************************************************************)
Save ==
  /\ phase = "save"
  /\ \/ ~unsaved /\ phase' = "step" /\ UNCHANGED <<file, unsaved, ioFailed>>
     \/ unsaved /\ phase' = "write" /\ file' = <<>> /\ UNCHANGED <<unsaved, ioFailed>>
     \/ unsaved /\ phase' = "step" /\ unsaved' = FALSE /\ ioFailed' = TRUE /\ UNCHANGED file
  /\ UNCHANGED <<pins, chipVars, histVars>>

Image == [i \in 1..Size |-> mem[i - 1]]

WriteImage ==
  /\ phase = "write" /\ phase' = "step"
  /\ unsaved' = FALSE
  /\ \/ file' = Image /\ ioFailed' = FALSE
     \/ ioFailed' = TRUE /\ \E n \in 0..(Size - 1) : file' = SubSeq(Image, 1, n)
  /\ erased' = FALSE
  /\ UNCHANGED <<pins, chipVars, clocked, enabled, out>>

Next == Boot \/ Stop \/ NvrTick \/ Save \/ WriteImage

Spec == Init /\ [][Next]_vars

-----------------------------------------------------------------------------
(***************************************************************************)
(* Properties.                                                             *)
(***************************************************************************)
\* Every variable stays in its type.
ChipType ==
  [kind : {"idle"}]
    \cup [kind : {"shift_cmd"}, bits : UNION {[1..n -> Bits] : n \in 0..(CmdLen - 1)}]
    \cup [kind : {"read_out"}, addr : Addr, pos : 0..DBits, data : Word]
    \cup [kind : {"write_data"}, addr : Addr, bits : UNION {[1..n -> Bits] : n \in 0..(DBits - 1)}]
    \cup [kind : {"busy"}, left : 1..2]
TypeOK ==
  /\ phase \in {"new", "off", "killed", "step", "save", "write"}
  /\ pins \subseteq {"cs", "sk", "di"}
  /\ {lastCs, lastSk, wEnable, unsaved, enabled, ioFailed, erased} \subseteq BOOLEAN
  /\ chip \in ChipType /\ doLine \in Bits
  /\ mem \in [Addr -> Word]
  /\ file = Absent \/ (file \in Seq(Word) /\ Len(file) <= Size)

\* generic.c: the memory changes only when the bits clocked in since CS rose spell a whole
\* WRITE, of that word at that address, or a whole ERAL, and the last of EWEN and EWDS
\* since power-up was EWEN -- however the pins moved, all of them high at power-up included.
WritesAreCommands ==
  [][(NvrTick /\ mem' # mem) =>
       LET c == Append(clocked, di) IN
       /\ enabled
       /\ \/ /\ Len(c) = CmdLen + DBits /\ Is(c, WRITE)
             /\ mem' = [mem EXCEPT ![AddrOf(c)] = Number(SubSeq(c, CmdLen + 1, CmdLen + DBits))]
          \/ /\ Len(c) = CmdLen /\ Is(c, ERAL)
             /\ mem' = [a \in Addr |-> Ones]]_vars

\* generic.c: a READ clocks out, for its address and then the following ones, a 0 and the
\* word, most significant bit first.
ReadsAreMemory ==
  chip.kind = "read_out" =>
    \E first \in Addr :
      /\ (Len(out) < 2 * (DBits + 1)) => chip.addr = (first + Len(out) \div (DBits + 1)) % Size
      /\ \A i \in 1..Len(out) :
           LET pos == (i - 1) % (DBits + 1)
               at  == (first + (i - 1) \div (DBits + 1)) % Size
           IN out[i] = IF pos = 0 THEN 0 ELSE Bit(mem[at], DBits - pos)

\* vt420.c: what the firmware wrote is there again after a restart, unless saving failed,
\* the process was killed inside a step, or the memory was erased (ERAL) and not written since.
SavedWritesSurvive ==
  [][(phase = "off" /\ phase' = "step" /\ ~ioFailed /\ ~erased) => mem' = mem]_vars

\* README.md: "Set-Up changes survive restarts" -- also when the change was an ERAL.
ChangesSurvive ==
  [][(phase = "off" /\ phase' = "step" /\ ~ioFailed) => mem' = mem]_vars
=============================================================================
