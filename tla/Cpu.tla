---------------------------------- MODULE Cpu ----------------------------------
(***************************************************************************)
(* The 8051 as the VT420 uses it: registers, memories and interrupts       *)
(* (i8051/cpu.c), the instructions (i8051/op.c), the two timers            *)
(* (i8051/peripheral.c) and the ports (machine/vt420.c).                   *)
(*                                                                         *)
(* vt420_system_step is two actions: the instruction, with the interrupt   *)
(* it may begin with, and the tick of what surrounds the processor.  The   *)
(* program is a constant; it does not touch SBUF, whose behaviour is the   *)
(* subject of KeyboardLink, and of external memory only cells that the     *)
(* mapper leaves in place.  The DUART's line to INT1, the keyboard's byte  *)
(* (RI) and the video's sync pulse (T0) are the environment's.             *)
(***************************************************************************)
EXTENDS Alu, Sequences

CONSTANTS
  RomSize,     \* how many bytes the ROM has
  Rom,         \* the program: the byte at each address, bank included
  XDatas,      \* the contents the external memory may start with
  Ram,         \* the cells of internal memory the program uses: any of the 256
  HandlerRam,  \* those it leaves to its handlers
  MaxEvents    \* bound on the requests and edges of the environment

ASSUME CpuAssumption == /\ RomSize \in Nat /\ Rom \in [0..(RomSize - 1) -> Byte]
                        /\ XDatas # {} /\ \A x \in XDatas : \A i \in DOMAIN x : x[i] \in Byte
                        /\ HandlerRam \subseteq Ram /\ Ram \subseteq Byte
                        /\ MaxEvents \in Nat

VARIABLES
  phase,    \* "step": the instruction is next; "tick": the peripherals are
  m,        \* registers and memories
  p3,       \* the pins of port 3 that are high
  prevP3,   \* port 3 as the timers last saw it
  saved,    \* history: what m was when the interrupt in progress was taken
  events    \* events of the environment so far

vars == <<phase, m, p3, prevP3, saved, events>>

\* Special function registers.
P0 == \h80
P1 == \h90
P2 == \hA0
P3 == \hB0
SP == \h81
DPL == \h82
DPH == \h83
IP == \hB8
IE == \hA8
TCON == \h88
TMOD == \h89
SCON == \h98
PSW == \hD0
ACC == \hE0
B == \hF0
TL(t) == \h8A + t
TH(t) == \h8C + t

Ports == {P0, P1, P2, P3}
\* Those outside the processor: the ports, the timers, SCON and plain memory for the rest.
IoSfrs == (128..255) \ {ACC, B, DPL, DPH, PSW, SP, IP, IE}

\* Bits: of PSW, IE, SCON, P3 and, for timer t, of TCON, TMOD and P3.
C == 7
AC == 6
RS1 == 4
RS0 == 3
OV == 2
P == 0
EA == 7
ES == 4
ET1 == 3
EX1 == 2
ET0 == 1
EX0 == 0
REN == 4
TI == 1
RI == 0
INT(t) == 2 + t
T(t) == 4 + t
TR(t) == 4 + 2*t
TF(t) == 5 + 2*t
CT(t) == 2 + 4*t
GATE(t) == 3 + 4*t

(***************************************************************************)
(* Registers and memories.                                                 *)
(***************************************************************************)
Init == /\ phase = "step" /\ p3 = 0..7 /\ prevP3 = {} /\ saved = <<>> /\ events = 0
        /\ \E x \in XDatas :
             m = [pc |-> 0, a |-> 0, b |-> 0, dpl |-> 0, dph |-> 0, psw |-> {}, sp |-> 7,
                  ip |-> 0, ie |-> {}, ram |-> [i \in Ram |-> 0], int |-> "none",
                  io |-> [i \in IoSfrs |-> IF i \in {P1, P2, P3} THEN 255 ELSE 0],
                  xdata |-> x, bank |-> 0]

\* Reading a register; of a port, its pins.  P1's are never driven, P2's follow the latch.
Sfr(c, x) == CASE x = ACC -> c.a [] x = B -> c.b [] x = DPL -> c.dpl [] x = DPH -> c.dph
               [] x = PSW -> ByteOf(c.psw) [] x = SP -> c.sp [] x = IP -> c.ip
               [] x = IE -> ByteOf(c.ie) [] x = P1 -> 255 [] x = P3 -> ByteOf(p3)
               [] OTHER -> c.io[x]
Latch(c, x) == c.io[x]

\* Writing one; ACC this way leaves the parity flag alone.
SetSfr(c, x, v) ==
  CASE x = ACC -> [c EXCEPT !.a = v]             [] x = B   -> [c EXCEPT !.b = v]
    [] x = DPL -> [c EXCEPT !.dpl = v]           [] x = DPH -> [c EXCEPT !.dph = v]
    [] x = PSW -> [c EXCEPT !.psw = BitsOf(v)]   [] x = SP  -> [c EXCEPT !.sp = v]
    [] x = IE  -> [c EXCEPT !.ie = BitsOf(v)]    [] x = IP  -> [c EXCEPT !.ip = v]
    [] OTHER   -> [c EXCEPT !.io[x] = v]

SetA(c, v) == [c EXCEPT !.a = v, !.psw = With(@, P, OddParity(v))]
SetFlag(c, flag, on) == [c EXCEPT !.psw = With(@, flag, on)]
Dptr(c) == 256 * c.dph + c.dpl
SetDptr(c, v) == [c EXCEPT !.dph = v \div 256, !.dpl = v % 256]

\* Where an operand is: a cell of the internal memory or a register.
Cell(i) == <<"ram", i>>
Direct(x) == IF x < 128 THEN Cell(x) ELSE <<"sfr", x>>
R(c, n) == Cell(n + 8 * One(RS0 \in c.psw) + 16 * One(RS1 \in c.psw))
At(c, n) == Cell(c.ram[R(c, n)[2]])                       \* @Rn

Get(c, place) == IF place[1] = "ram" THEN c.ram[place[2]] ELSE Sfr(c, place[2])
Put(c, place, v) == IF place[1] = "ram" THEN [c EXCEPT !.ram[place[2]] = v]
                    ELSE SetSfr(c, place[2], v)
IsPort(place) == place[1] = "sfr" /\ place[2] \in Ports
\* pdata_read: of a port, what both the latch and the pins have high.
GetLatched(c, place) ==
  IF IsPort(place) THEN And(Latch(c, place[2]), Get(c, place)) ELSE Get(c, place)

\* Bits: 0x20 to 0x2F of the internal memory, and every eighth register.
ByteOfBit(bit) == IF bit < 128 THEN Cell(32 + bit \div 8) ELSE <<"sfr", bit - (bit % 8)>>
GetBit(c, bit) == bit % 8 \in BitsOf(Get(c, ByteOfBit(bit)))
GetBitLatched(c, bit) == bit % 8 \in BitsOf(GetLatched(c, ByteOfBit(bit)))
PutBit(c, bit, on) ==
  LET place == ByteOfBit(bit)
  IN Put(c, place, ByteOf(With(BitsOf(Get(c, place)), bit % 8, on)))
\* i8051_write_bit_latch: the other bits of a port come from its latch, not from the pins.
PutBitLatched(c, bit, on) ==
  LET place == ByteOfBit(bit)
      old == IF IsPort(place) THEN Latch(c, place[2]) ELSE Get(c, place)
  IN Put(c, place, ByteOf(With(BitsOf(old), bit % 8, on)))

\* The stack grows upwards and wraps.
IncrementedWide(v) == v + 1
Incremented(v) == (v + 1) % 256
Push(c, v) == [c EXCEPT !.sp = Incremented(@), !.ram[Incremented(c.sp)] = v]
Pop(c) == [c EXCEPT !.sp = (@ - 1) % 256]
Top(c) == c.ram[c.sp]
PushPc(c, v) == Push(Push(c, v % 256), v \div 256)
PopPcHighLast(c) == [Pop(Pop(c)) EXCEPT !.pc = 256 * Top(Pop(c)) + Top(c)]
PopPc(c) == [Pop(Pop(c)) EXCEPT !.pc = 256 * Top(c) + Top(Pop(c))]

\* External memory.  Bit 2 of the mapper's register 5 selects the bank of the program.
BankRegister == \h7FF5
XWrite(c, x, v) ==
  [c EXCEPT !.xdata[x] = v, !.bank = IF x = BankRegister THEN One(2 \in BitsOf(v)) ELSE @]

(***************************************************************************)
(* Interrupts.                                                             *)
(***************************************************************************)
IeBit  == [serial |-> ES, timer0 |-> ET0, timer1 |-> ET1, ext0 |-> EX0, ext1 |-> EX1]
Vector == [ext0 |-> \h03, timer0 |-> \h0B, ext1 |-> \h13, timer1 |-> \h1B, serial |-> \h23]
Timer  == [timer0 |-> 0, timer1 |-> 1]

OrderExternalFirst == <<"ext0", "ext1", "serial", "timer0", "timer1">>
Order == <<"serial", "timer0", "timer1", "ext0", "ext1">>

Requested(c, s) == CASE s = "serial" -> {RI, TI} \cap BitsOf(c.io[SCON]) # {}
                     [] s \in DOMAIN Timer -> TF(Timer[s]) \in BitsOf(c.io[TCON])
                     [] s = "ext0" -> INT(0) \notin p3
                     [] s = "ext1" -> INT(1) \notin p3
Enabled(c, s) == {EA, IeBit[s]} \subseteq c.ie
Wanted(c) == {i \in 1..5 : Enabled(c, Order[i]) /\ Requested(c, Order[i])}

\* i8051_interrupt_raise.  Only taking the interrupt of a timer clears its request.
Clear(c, flags) == [c EXCEPT !.io[TCON] = ByteOf(BitsOf(@) \ flags)]
Raise(c, s) ==
  IF s \in DOMAIN Timer THEN Clear([PushPc(c, c.pc) EXCEPT !.int = s, !.pc = Vector[s]], {TF(Timer[s])})
  ELSE [PushPc(c, c.pc) EXCEPT !.int = s, !.pc = Vector[s]]

Flags(c) == {TF(Timer[s]) : s \in {t \in DOMAIN Timer : Enabled(c, t)}}
PollForgetful(c) == Clear(IF Wanted(c) = {} \/ c.int # "none" THEN c
                          ELSE Raise(c, Order[Min(Wanted(c))]), Flags(c))
\* One interrupt at a time, whatever its rank, until RETI.
Poll(c) == IF Wanted(c) = {} \/ c.int # "none" THEN c
           ELSE Raise(c, Order[Min(Wanted(c))])

(***************************************************************************)
(* Instructions.  An opcode's row is its high digit, its column the low    *)
(* one: a column tells the operand, for most rows, and a row what is done. *)
(* Every action below takes the machine c after the poll for interrupts.   *)
(***************************************************************************)
\* The code hook: beyond the end of the ROM there are ones.  Operands are read across banks.
RomByte(x) == IF x < RomSize THEN Rom[x] ELSE 255
Code(c, i) == RomByte(c.bank * 65536 + c.pc + i)
Opcode(c) == Code(c, 0)
Row(c) == Opcode(c) \div 16
Col(c) == Opcode(c) % 16
Op(c, row, cols) == Row(c) = row /\ Col(c) \in cols
Ri == {6, 7}      \* @R0, @R1
Rn == 8..15       \* R0 .. R7

\* The place the column names: a direct address, @Ri or Rn; the length that goes with it.
Place(c) == CASE Col(c) = 5  -> Direct(Code(c, 1))
              [] Col(c) \in Ri -> At(c, Col(c) - 6)
              [] Col(c) \in Rn -> R(c, Col(c) - 8)
Length(c) == IF Col(c) \in {4, 5} THEN 2 ELSE 1

After(c, n) == (c.pc + n) % 65536
Relative(c, n) == (c.pc + n + Signed(Code(c, n - 1))) % 65536
\* The instruction leaves r and goes n bytes on; or branches, its last byte the distance.
Then(c, r, n) == m' = [r EXCEPT !.pc = After(c, n)]
BranchIf(c, cond, r, n) == m' = [r EXCEPT !.pc = IF cond THEN Relative(c, n) ELSE After(c, n)]
Jump(r, x) == m' = [r EXCEPT !.pc = x]

\* AJMP, ACALL: within the page; LJMP, LCALL; SJMP, JMP; RET, RETI.
PageTarget(c) == 2048 * (c.pc \div 2048) + 256 * (Row(c) \div 2) + Code(c, 1)
FarTarget(c) == 256 * Code(c, 1) + Code(c, 2)
TableTarget(c) == (Dptr(c) + c.a) % 65536
Jumps(c) ==
  \/ Col(c) = 1 /\ Row(c) % 2 = 0 /\ Jump(c, PageTarget(c))
  \/ Col(c) = 1 /\ Row(c) % 2 = 1 /\ Jump(PushPc(c, After(c, 2)), PageTarget(c))
  \/ Opcode(c) = \h02 /\ Jump(c, FarTarget(c))
  \/ Opcode(c) = \h12 /\ Jump(PushPc(c, After(c, 3)), FarTarget(c))
  \/ Opcode(c) = \h80 /\ BranchIf(c, TRUE, c, 2)
  \/ Opcode(c) = \h73 /\ Jump(c, TableTarget(c))
Returns(c) == \/ Opcode(c) = \h22 /\ m' = PopPc(c)
              \/ Opcode(c) = \h32 /\ m' = [PopPc(c) EXCEPT !.int = "none"]

\* JC, JNC, JZ, JNZ; JB, JNB, JBC.
Branches(c) ==
  LET bit == Code(c, 1)
      on  == GetBitLatched(c, bit)
  IN \/ Opcode(c) \in {\h40, \h50} /\ BranchIf(c, C \in c.psw <=> Row(c) = 4, c, 2)
     \/ Opcode(c) \in {\h60, \h70} /\ BranchIf(c, c.a = 0 <=> Row(c) = 6, c, 2)
     \/ Opcode(c) \in {\h20, \h30} /\ BranchIf(c, on <=> Row(c) = 2, c, 3)
     \/ Opcode(c) = \h10 /\ BranchIf(c, on, IF on THEN PutBitLatched(c, bit, FALSE) ELSE c, 3)

\* DJNZ, which reads again what it wrote; CJNE.
Loops(c) ==
  /\ Op(c, 13, {5} \cup Rn)
  /\ LET r == Put(c, Place(c), (Get(c, Place(c)) - 1) % 256)
     IN BranchIf(c, Get(r, Place(c)) # 0, r, Length(c) + 1)
Compares(c) ==
  /\ Row(c) = 11 /\ Col(c) >= 4
  /\ LET x == IF Col(c) \in {4, 5} THEN c.a ELSE Get(c, Place(c))
         y == IF Col(c) = 5 THEN Get(c, Place(c)) ELSE Code(c, 1)
     IN BranchIf(c, x # y, SetFlag(c, C, x < y), 3)

\* MOV, but for bits; XCH, XCHD; PUSH, POP.  A direct source is read through the latch.
Moves(c) ==
  LET from(x) == IF x \in Rn \cup Ri THEN Get(c, Place(c)) ELSE GetLatched(c, Direct(Code(c, 1)))
  IN \/ Op(c, 7, {4}) /\ Then(c, SetA(c, Code(c, 1)), 2)
     \/ Op(c, 7, {5}) /\ Then(c, Put(c, Place(c), Code(c, 2)), 3)
     \/ Op(c, 7, Ri \cup Rn) /\ Then(c, Put(c, Place(c), Code(c, 1)), 2)
     \/ Op(c, 8, {5}) /\ Then(c, Put(c, Direct(Code(c, 2)), from(5)), 3)
     \/ Op(c, 8, Ri \cup Rn) /\ Then(c, Put(c, Direct(Code(c, 1)), from(Col(c))), 2)
     \/ Op(c, 10, Ri \cup Rn) /\ Then(c, Put(c, Place(c), from(5)), 2)
     \/ Op(c, 14, {5} \cup Ri \cup Rn) /\ Then(c, SetA(c, from(Col(c))), Length(c))
     \/ Op(c, 15, {5} \cup Ri \cup Rn) /\ Then(c, Put(c, Place(c), c.a), Length(c))
     \/ Op(c, 9, {0}) /\ Then(c, SetDptr(c, 256 * Code(c, 1) + Code(c, 2)), 3)
Exchanges(c) ==
  LET x == Get(c, Place(c))
      digit(v, low) == 16 * (v \div 16) + (low % 16)
  IN \/ /\ Op(c, 12, {5} \cup Ri \cup Rn)
        /\ Then(c, Put(SetA(c, x), Place(c), c.a), Length(c))
     \/ Op(c, 13, Ri) /\ Then(c, Put(SetA(c, digit(c.a, x)), Place(c), digit(x, c.a)), 1)
StackOps(c) ==
  \/ Opcode(c) = \hC0 /\ Then(c, Push(c, Get(c, Direct(Code(c, 1)))), 2)
  \/ Opcode(c) = \hD0 /\ Then(c, Put(Pop(c), Direct(Code(c, 1)), Top(c)), 2)

\* MOVX, through DPTR or through @Ri and P2; MOVC.
External(c) ==
  LET place == IF Col(c) = 0 THEN Dptr(c) ELSE 256 * Latch(c, P2) + Get(c, R(c, Col(c) - 2))
      code(x) == RomByte(c.bank * 65536 + (x % 65536))
  IN \/ Op(c, 14, {0, 2, 3}) /\ Then(c, SetA(c, c.xdata[place]), 1)
     \/ Op(c, 15, {0, 2, 3}) /\ Then(c, XWrite(c, place, c.a), 1)
     \/ Opcode(c) = \h93 /\ Then(c, SetA(c, code(Dptr(c) + c.a)), 1)
     \/ Opcode(c) = \h83 /\ Then(c, SetA(c, code(c.pc + 1 + c.a)), 1)

\* INC, DEC: of A, of a place, of DPTR.
Counts(c) ==
  LET step == IF Row(c) = 0 THEN 1 ELSE -1
  IN \/ Row(c) \in {0, 1} /\ Col(c) = 4 /\ Then(c, SetA(c, (c.a + step) % 256), 1)
     \/ /\ Row(c) \in {0, 1} /\ Col(c) >= 5
        /\ Then(c, Put(c, Place(c), (Get(c, Place(c)) + step) % 256), Length(c))
     \/ Opcode(c) = \hA3 /\ Then(c, SetDptr(c, (Dptr(c) + 1) % 65536), 1)

\* ADD, ADDC, SUBB; SUBB leaves OV and AC alone.
Sums(c) ==
  LET y == IF Col(c) = 4 THEN Code(c, 1) ELSE Get(c, Place(c))
      sum == AddWithCarry(c.a, y, Row(c) = 3 /\ C \in c.psw)
      diff == SubWithBorrow(c.a, y, C \in c.psw)
  IN /\ Col(c) >= 4
     /\ \/ /\ Row(c) \in {2, 3}
           /\ Then(c, SetFlag(SetFlag(SetFlag(SetA(c, sum.v), C, sum.c), OV, sum.ov), AC, sum.ac),
                   Length(c))
        \/ Row(c) = 9 /\ Then(c, SetFlag(SetA(c, diff.v), C, diff.c), Length(c))

\* MUL, DIV, DA.
Products(c) ==
  LET product(x) == Then(c, SetFlag(SetFlag([SetA(c, x.a) EXCEPT !.b = x.b], C, FALSE), OV, x.ov), 1)
      bcd == DecimalAdjust(c.a, C \in c.psw, AC \in c.psw)
  IN \/ Opcode(c) = \hA4 /\ product(MulAb(c.a, c.b))
     \/ Opcode(c) = \h84 /\ product(DivAb(c.a, c.b))
     \/ Opcode(c) = \hD4 /\ Then(c, SetFlag(SetFlag(SetA(c, bcd.v), C, bcd.c), AC, bcd.ac), 1)
\* The rotations, SWAP, CLR A, CPL A.
Rotations(c) ==
  LET through(x) == Then(c, SetFlag(SetA(c, x.v), C, x.c), 1)
  IN \/ Opcode(c) = \h33 /\ through(Rlc8(c.a, C \in c.psw))
     \/ Opcode(c) = \h13 /\ through(Rrc8(c.a, C \in c.psw))
     \/ Opcode(c) = \h23 /\ Then(c, SetA(c, Rl8(c.a)), 1)
     \/ Opcode(c) = \h03 /\ Then(c, SetA(c, Rr8(c.a)), 1)
     \/ Opcode(c) = \hC4 /\ Then(c, SetA(c, SwapNibbles(c.a)), 1)
     \/ Opcode(c) = \hE4 /\ Then(c, SetA(c, 0), 1)
     \/ Opcode(c) = \hF4 /\ Then(c, SetA(c, 255 - c.a), 1)

\* ORL, ANL, XRL: into A, its direct source read through the latch; into a direct place.
Logic(c) ==
  LET op(x, y) == CASE Row(c) = 4 -> Or(x, y) [] Row(c) = 5 -> And(x, y) [] Row(c) = 6 -> Xor(x, y)
      y == IF Col(c) = 4 THEN Code(c, 1) ELSE GetLatched(c, Place(c))
      place == Direct(Code(c, 1))
  IN /\ Row(c) \in {4, 5, 6}
     /\ \/ Col(c) >= 4 /\ Then(c, SetA(c, op(c.a, y)), Length(c))
        \/ Col(c) = 2 /\ Then(c, Put(c, place, op(Get(c, place), c.a)), 2)
        \/ Col(c) = 3 /\ Then(c, Put(c, place, op(Get(c, place), Code(c, 2))), 3)

\* MOV between the carry and a bit.  To a port's bit it writes back the pins of the others.
BitMoves(c) == \/ Opcode(c) = \hA2 /\ Then(c, SetFlag(c, C, GetBitLatched(c, Code(c, 1))), 2)
               \/ Opcode(c) = \h92 /\ Then(c, PutBit(c, Code(c, 1), C \in c.psw), 2)
\* ANL, ORL of the carry with a bit or its complement.
CarryLogic(c) ==
  LET on == GetBitLatched(c, Code(c, 1))
      carry == C \in c.psw
  IN \/ Opcode(c) = \h82 /\ Then(c, SetFlag(c, C, carry /\ on), 2)
     \/ Opcode(c) = \hB0 /\ Then(c, SetFlag(c, C, carry /\ ~on), 2)
     \/ Opcode(c) = \h72 /\ Then(c, SetFlag(c, C, carry \/ on), 2)
     \/ Opcode(c) = \hA0 /\ Then(c, SetFlag(c, C, carry \/ ~on), 2)
\* CLR, SETB, CPL of the carry or a bit.
BitSets(c) ==
  LET bit == Code(c, 1)
  IN \/ Opcode(c) \in {\hC3, \hD3} /\ Then(c, SetFlag(c, C, Row(c) = 13), 1)
     \/ Opcode(c) = \hB3 /\ Then(c, SetFlag(c, C, C \notin c.psw), 1)
     \/ Opcode(c) \in {\hC2, \hD2} /\ Then(c, PutBitLatched(c, bit, Row(c) = 13), 2)
     \/ Opcode(c) = \hB2 /\ Then(c, PutBitLatched(c, bit, ~GetBit(c, bit)), 2)

\* NOP, and 0xA5, which is no instruction.
Nothing(c) == Opcode(c) \in {\h00, \hA5} /\ Then(c, c, 1)

Dispatch(c) ==
  \/ Jumps(c) \/ Returns(c) \/ Branches(c) \/ Loops(c) \/ Compares(c) \/ Moves(c)
  \/ Exchanges(c) \/ StackOps(c) \/ External(c) \/ Counts(c) \/ Sums(c) \/ Products(c)
  \/ Rotations(c) \/ Logic(c) \/ BitMoves(c) \/ CarryLogic(c) \/ BitSets(c) \/ Nothing(c)

\* i8051_step: an interrupt may be taken, and its handler's first instruction is the next.
Step ==
  /\ phase = "step" /\ phase' = "tick"
  /\ \E c \in {Poll(m)} : Dispatch(c)
  /\ saved' = IF m'.int = "none" THEN <<>> ELSE IF m.int = "none" THEN m ELSE saved
  /\ UNCHANGED <<p3, prevP3, events>>

(***************************************************************************)
(* The tick.                                                               *)
(***************************************************************************)
Tcon(c) == BitsOf(c.io[TCON])
Tmod(c) == BitsOf(c.io[TMOD])
Mode(c, t) == (c.io[TMOD] \div 16^t) % 4
Overflow(c, t) == [c EXCEPT !.io[TCON] = ByteOf(BitsOf(@) \cup {TF(t)})]

\* A timer counts one: 16 bits, or 8 bits reloaded from TH; the other modes count nothing.
Counted(c, t) ==
  LET low  == Incremented(c.io[TL(t)])
      high == IF low = 0 THEN Incremented(c.io[TH(t)]) ELSE c.io[TH(t)]
      wide == [c EXCEPT !.io[TL(t)] = low, !.io[TH(t)] = high]
  IN CASE Mode(c, t) = 1 -> IF low = 0 /\ high = 0 THEN Overflow(wide, t) ELSE wide
       [] Mode(c, t) = 2 -> IF low = 0 THEN Overflow([c EXCEPT !.io[TL(t)] = c.io[TH(t)]], t)
                            ELSE [c EXCEPT !.io[TL(t)] = low]
       [] OTHER -> c

\* Port 3 as the timers see it: its pins, if a running timer needs them.
Seen(c, pins) == IF \E t \in {0, 1} : TR(t) \in Tcon(c) /\ {CT(t), GATE(t)} \cap Tmod(c) # {}
                 THEN pins ELSE prevP3
\* Whether a timer counts: it runs, its gate is open and, as a counter, its pin fell.
Ticks(c, t, seen) == /\ TR(t) \in Tcon(c)
                     /\ GATE(t) \in Tmod(c) => INT(t) \in seen
                     /\ CT(t) \in Tmod(c) => T(t) \in prevP3 \ seen
Timers(c, seen) ==
  LET c0 == IF Ticks(c, 0, seen) THEN Counted(c, 0) ELSE c
  IN IF Ticks(c, 1, seen) THEN Counted(c0, 1) ELSE c0

\* A byte of the keyboard arrives, if the receiver is on and empty; the DUART moves its line,
\* low to ask; the sync pulse changes.  All but the rise of the line are counted.
Received(c) == [c EXCEPT !.io[SCON] = ByteOf(BitsOf(@) \cup {RI})]
CanReceive(c) == BitsOf(c.io[SCON]) \cap {REN, RI} = {REN}
Tick ==
  /\ phase = "tick" /\ phase' = "step"
  /\ \E byte, high, pulse \in BOOLEAN :
       LET pins == With(With(p3, INT(1), high), T(0), pulse)
       IN /\ byte => CanReceive(m)
          /\ events' = events + One(byte) + Cardinality({INT(1)} \cap (p3 \ pins))
                         + One(pulse # (T(0) \in p3))
          /\ events' <= MaxEvents
          /\ p3' = pins /\ prevP3' = Seen(m, pins)
          /\ m' = Timers(IF byte THEN Received(m) ELSE m, Seen(m, pins))
  /\ UNCHANGED saved

Next == Step \/ Tick

\* The emulator's thread goes on: instruction and tick follow each other for ever.
Turns == phase' = IF phase = "step" THEN "tick" ELSE "step"
Spec == Init /\ [][Next]_vars /\ WF_phase(Turns)

-----------------------------------------------------------------------------
(***************************************************************************)
(* Properties.                                                             *)
(***************************************************************************)
Cpus == [pc : Word16, a : Byte, b : Byte, dpl : Byte, dph : Byte, psw : SUBSET (0..7),
         sp : Byte, ip : Byte, ie : SUBSET (0..7), ram : [Ram -> Byte],
         int : DOMAIN IeBit \cup {"none"}, io : [IoSfrs -> Byte],
         xdata : UNION {[DOMAIN x -> Byte] : x \in XDatas}, bank : {0, 1}]

\* Every variable stays in its type.
TypeOK ==
  /\ phase \in {"step", "tick"} /\ p3 \subseteq 0..7 /\ prevP3 \subseteq 0..7
  /\ events \in 0..MaxEvents
  /\ m \in Cpus
  /\ (saved = <<>>) <=> (m.int = "none")

Interrupted == IF m.int = "none" THEN m ELSE saved
\* cpu.c: the program comes back from an interrupt to what it was doing, all its registers,
\* its memory and its stack as they were, whatever the instruction it was about to execute.
InterruptsAreInvisible ==
  [][(phase = "step" /\ Opcode(Poll(m)) = \h32) =>
       LET old == Interrupted IN
       /\ \A f \in {"pc", "a", "b", "dpl", "dph", "psw", "sp", "ie"} : m'[f] = old[f]
       /\ \A i \in (Ram \cap 0..old.sp) \ HandlerRam : m'.ram[i] = old.ram[i]]_vars

\* The instruction writes bit i of register x: all of the register, or that bit.
ByteWriters == {\h05, \h15, \h42, \h43, \h52, \h53, \h62, \h63, \h75, \hC5, \hD0, \hD5, \hF5}
               \cup (\h86..\h8F)
BitWriters == {\h10, \h92, \hB2, \hC2, \hD2}
Writes(c, x, i) == \/ Opcode(c) \in ByteWriters /\ Code(c, 1) = x
                   \/ Opcode(c) = \h85 /\ Code(c, 2) = x
                   \/ Opcode(c) \in BitWriters /\ Code(c, 1) = x + i

\* cpu.c: the request of a timer lasts until its interrupt is taken, or the program writes it.
RequestsAreKept ==
  [][\A s \in DOMAIN Timer :
       (Requested(m, s) /\ ~Requested(m, s)') =>
          /\ phase = "step"
          /\ \/ m.int = "none" /\ Poll(m).int = s
             \/ Writes(Poll(m), TCON, TF(Timer[s]))]_vars

\* cpu.c: with the request of timer 0 enabled its interrupt is taken, though the DUART may
\* hold its own line for ever.
TimerServed == (Requested(m, "timer0") /\ Enabled(m, "timer0")) ~> (m.int = "timer0")

\* cpu.c: SETB, CLR, CPL and JBC of a port's bit leave the latches of its other bits alone, though
\* the pins read otherwise.
PortLatchKept ==
  [][(phase = "step" /\ Opcode(Poll(m)) \in {\h10, \hB2, \hC2, \hD2}) =>
       \A x \in Ports : Cardinality(BitsOf(m'.io[x]) \ BitsOf(m.io[x]))
                         + Cardinality(BitsOf(m.io[x]) \ BitsOf(m'.io[x])) <= 1]_vars
=============================================================================
