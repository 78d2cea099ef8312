------------------------------- MODULE CpuProofs -------------------------------
(***************************************************************************)
(* Proofs about the 8051.  Unlike the run, whose program is one image and  *)
(* whose memory a few cells, they hold for every program: Rom is any       *)
(* function from addresses to bytes.  Of the memories they ask that they   *)
(* are all there, as in the machine, so that no address misses them.       *)
(*                                                                         *)
(* An instruction makes of the machine c, as the poll for interrupts left  *)
(* it, a machine r: Keeps(c, r) says that r is well typed and has lost no  *)
(* timer's request but by a write.  There is a lemma for every group of    *)
(* opcodes, and DispatchKeeps puts them together.                          *)
(***************************************************************************)
EXTENDS Cpu, TLAPS, FiniteSetTheorems

\* The processor with all of its memories: 256 cells inside, 65536 outside.
Whole == Ram = Byte /\ XDatas \subseteq [Word16 -> Byte]

\* What TypeOK says of m, then.
Machine == [pc : Word16, a : Byte, b : Byte, dpl : Byte, dph : Byte, psw : SUBSET (0..7),
            sp : Byte, ip : Byte, ie : SUBSET (0..7), ram : [Byte -> Byte],
            int : DOMAIN IeBit \cup {"none"}, io : [IoSfrs -> Byte],
            xdata : [Word16 -> Byte], bank : {0, 1}]

LEMMA MachineIsCpus == ASSUME Whole PROVE Cpus = Machine
<1>1. UNION {[DOMAIN x -> Byte] : x \in XDatas} = [Word16 -> Byte]
  BY CpuAssumption DEF Whole
<1> QED BY <1>1 DEF Whole, Cpus, Machine

(***************************************************************************)
(* Bytes and bits.                                                         *)
(***************************************************************************)
LEMMA BitsOfIs == ASSUME NEW v \in Byte PROVE BitsOf(v) = {i \in 0..7 : (v \div 2^i) % 2 = 1}
  BY DEF BitsOf, BitsOfByte
LEMMA BitIs == ASSUME NEW v \in Byte, NEW i \in 0..7 PROVE i \in BitsOf(v) <=> (v \div 2^i) % 2 = 1
  BY BitsOfIs, Zenon
LEMMA BitsOfType == ASSUME NEW v \in Byte PROVE BitsOf(v) \in SUBSET (0..7)
  BY BitsOfIs, Zenon
LEMMA ByteOfType == ASSUME NEW bits \in SUBSET (0..7) PROVE ByteOf(bits) \in Byte
  BY SMT DEF ByteOf, Byte
LEMMA WithType == ASSUME NEW bits \in SUBSET (0..7), NEW i \in 0..7, NEW on PROVE With(bits, i, on) \in SUBSET (0..7)
  BY DEF With

LEMMA BitsOfByteOf == ASSUME NEW bits \in SUBSET (0..7) PROVE BitsOf(ByteOf(bits)) = bits
<1>1. ByteOf(bits) \in Byte BY ByteOfType
<1>2. /\ (ByteOf(bits) \div 1) % 2 = 1 <=> 0 \in bits
      /\ (ByteOf(bits) \div 2) % 2 = 1 <=> 1 \in bits
  BY SMT DEF ByteOf
<1>3. /\ (ByteOf(bits) \div 4) % 2 = 1 <=> 2 \in bits
      /\ (ByteOf(bits) \div 8) % 2 = 1 <=> 3 \in bits
  BY SMT DEF ByteOf
<1>4. /\ (ByteOf(bits) \div 16) % 2 = 1 <=> 4 \in bits
      /\ (ByteOf(bits) \div 32) % 2 = 1 <=> 5 \in bits
  BY SMT DEF ByteOf
<1>5. /\ (ByteOf(bits) \div 64) % 2 = 1 <=> 6 \in bits
      /\ (ByteOf(bits) \div 128) % 2 = 1 <=> 7 \in bits
  BY SMT DEF ByteOf
<1>6. /\ 2^0 = 1 /\ 2^1 = 2 /\ 2^2 = 4 /\ 2^3 = 8
      /\ 2^4 = 16 /\ 2^5 = 32 /\ 2^6 = 64 /\ 2^7 = 128
  BY SMT
<1>7. ASSUME NEW i \in 0..7 PROVE i \in BitsOf(ByteOf(bits)) <=> i \in bits
  <2>1. i = 0 \/ i = 1 \/ i = 2 \/ i = 3 \/ i = 4 \/ i = 5 \/ i = 6 \/ i = 7 BY SMT
  <2>2. i \in BitsOf(ByteOf(bits)) <=> (ByteOf(bits) \div 2^i) % 2 = 1 BY <1>1, BitIs
  <2>3. CASE i = 0 BY <2>3, <2>2, <1>2, <1>6, Zenon
  <2>4. CASE i = 1 BY <2>4, <2>2, <1>2, <1>6, Zenon
  <2>5. CASE i = 2 BY <2>5, <2>2, <1>3, <1>6, Zenon
  <2>6. CASE i = 3 BY <2>6, <2>2, <1>3, <1>6, Zenon
  <2>7. CASE i = 4 BY <2>7, <2>2, <1>4, <1>6, Zenon
  <2>8. CASE i = 5 BY <2>8, <2>2, <1>4, <1>6, Zenon
  <2>9. CASE i = 6 BY <2>9, <2>2, <1>5, <1>6, Zenon
  <2>10. CASE i = 7 BY <2>10, <2>2, <1>5, <1>6, Zenon
  <2> QED BY <2>1, <2>3, <2>4, <2>5, <2>6, <2>7, <2>8, <2>9, <2>10, Zenon
<1> QED BY <1>7, <1>1, BitsOfType

LEMMA LogicTypes == ASSUME NEW x \in Byte, NEW y \in Byte
                    PROVE And(x, y) \in Byte /\ Or(x, y) \in Byte /\ Xor(x, y) \in Byte
<1>1. BitsOf(x) \in SUBSET (0..7) BY BitsOfType
<1>2. BitsOf(y) \in SUBSET (0..7) BY BitsOfType
<1>0. ASSUME NEW p \in Byte, NEW q \in Byte, p >= q PROVE p - q \in Byte BY <1>0, SMT DEF Byte
<1>3. ASSUME NEW s \in SUBSET (0..7), NEW t \in SUBSET (0..7)
      PROVE /\ ByteOf(s \cap t) \in Byte /\ ByteOf(s \cup t) \in Byte
            /\ ByteOf(s \cup t) - ByteOf(s \cap t) \in Byte
  <2>1. ByteOf(s \cap t) \in Byte /\ ByteOf(s \cup t) \in Byte BY ByteOfType
  <2>2. ByteOf(s \cup t) >= ByteOf(s \cap t) BY SMT DEF ByteOf
  <2> QED BY <2>1, <2>2, <1>0
<1> QED BY <1>1, <1>2, <1>3 DEF And, Or, Xor

(***************************************************************************)
(* The arithmetic unit returns bytes.                                      *)
(***************************************************************************)
LEMMA SumTypes == ASSUME NEW x \in Byte, NEW y \in Byte, NEW c \in BOOLEAN
                  PROVE /\ AddWithCarry(x, y, c).v \in Byte
                        /\ SubWithBorrow(x, y, c).v \in Byte
  BY SMT DEF AddWithCarry, SubWithBorrow, One, Byte
LEMMA DecimalTypes == ASSUME NEW x \in Byte, NEW c \in BOOLEAN, NEW ac \in BOOLEAN
                      PROVE DecimalAdjust(x, c, ac).v \in Byte
  BY SMT DEF DecimalAdjust, Byte
LEMMA MulTypes == ASSUME NEW x \in Byte, NEW y \in Byte
                  PROVE MulAb(x, y).a \in Byte /\ MulAb(x, y).b \in Byte
<1>1. x * y \in Nat BY SMT DEF Byte
<1>2. x * y <= 255 * 255 BY SMT DEF Byte
<1>3. ASSUME NEW n \in Nat, n <= 255 * 255 PROVE n % 256 \in Byte /\ n \div 256 \in Byte
  BY <1>3, SMT DEF Byte
<1>4. (x * y) % 256 \in Byte /\ (x * y) \div 256 \in Byte BY <1>1, <1>2, <1>3
<1> QED BY <1>4 DEF MulAb
LEMMA DivTypes == ASSUME NEW x \in Byte, NEW y \in Byte
                  PROVE DivAb(x, y).a \in Byte /\ DivAb(x, y).b \in Byte
<1>1. CASE y = 0 BY <1>1, SMT DEF DivAb, Byte
<1>2. CASE y # 0
  <2>1. x \div y \in Byte BY <1>2, SMT DEF Byte
  <2>2. x % y \in Byte BY <1>2, SMT DEF Byte
  <2> QED BY <1>2, <2>1, <2>2 DEF DivAb
<1> QED BY <1>1, <1>2
LEMMA RotateTypes == ASSUME NEW x \in Byte, NEW c \in BOOLEAN
                     PROVE /\ Rl8(x) \in Byte /\ Rr8(x) \in Byte /\ SwapNibbles(x) \in Byte
                           /\ Rlc8(x, c).v \in Byte /\ Rrc8(x, c).v \in Byte
<1>1. Rl8(x) \in Byte /\ Rr8(x) \in Byte /\ SwapNibbles(x) \in Byte
  BY SMT DEF Rl8, Rr8, SwapNibbles, Byte
<1>2. Rlc8(x, c).v \in Byte /\ Rrc8(x, c).v \in Byte
  BY SMT DEF Rlc8, Rrc8, One, Byte
<1> QED BY <1>1, <1>2

(***************************************************************************)
(* Writing a part of the machine.                                          *)
(***************************************************************************)
LEMMA WordSplits == ASSUME NEW v \in Word16 PROVE v \div 256 \in Byte /\ v % 256 \in Byte
<1>1. v \div 256 \in Int /\ v % 256 \in 0..255 BY SMT DEF Word16
<1>2. v \div 256 >= 0 BY SMT DEF Word16
<1>3. v \div 256 <= 255 BY SMT DEF Word16
<1> QED BY <1>1, <1>2, <1>3, SMT DEF Byte
LEMMA ByteSteps == ASSUME NEW v \in Byte
                   PROVE (v + 1) % 256 \in Byte /\ (v - 1) % 256 \in Byte /\ 255 - v \in Byte
  BY SMT DEF Byte
LEMMA SetATypes == ASSUME NEW c \in Machine, NEW v \in Byte
                   PROVE SetA(c, v) \in Machine /\ SetA(c, v).io = c.io
<1>0. c.psw \in SUBSET (0..7) BY Zenon DEF Machine
<1>1. With(c.psw, P, OddParity(v)) \in SUBSET (0..7) BY <1>0, WithType DEF P
<1> QED BY <1>1, Zenon DEF SetA, Machine
LEMMA SetFlagTypes == ASSUME NEW c \in Machine, NEW flag \in 0..7, NEW on
                      PROVE SetFlag(c, flag, on) \in Machine /\ SetFlag(c, flag, on).io = c.io
<1>1. With(c.psw, flag, on) \in SUBSET (0..7) BY WithType DEF Machine
<1> QED BY <1>1, Zenon DEF SetFlag, Machine
LEMMA SetPcTypes == ASSUME NEW c \in Machine, NEW x \in Word16, NEW r, r = [c EXCEPT !.pc = x]
                    PROVE r \in Machine /\ r.io = c.io
  BY Zenon DEF Machine
LEMMA SetBTypes == ASSUME NEW c \in Machine, NEW v \in Byte, NEW r, r = [c EXCEPT !.b = v]
                   PROVE r \in Machine /\ r.io = c.io
  BY Zenon DEF Machine
LEMMA SetDptrTypes == ASSUME NEW c \in Machine, NEW v \in Word16
                      PROVE SetDptr(c, v) \in Machine /\ SetDptr(c, v).io = c.io
<1>1. v \div 256 \in Byte /\ v % 256 \in Byte BY WordSplits
<1>2. ASSUME NEW x \in Byte, NEW y \in Byte, NEW d, d = [c EXCEPT !.dph = x, !.dpl = y]
      PROVE d \in Machine /\ d.io = c.io
  BY <1>2, Zenon DEF Machine
<1> DEFINE h == v \div 256
<1> DEFINE l == v % 256
<1>3. SetDptr(c, v) = [c EXCEPT !.dph = h, !.dpl = l] BY DEF SetDptr
<1>4. h \in Byte /\ l \in Byte BY <1>1
<1> HIDE DEF h, l
<1> QED BY <1>2, <1>3, <1>4, Zenon
LEMMA PushTypes == ASSUME NEW c \in Machine, NEW v \in Byte
                   PROVE Push(c, v) \in Machine /\ Push(c, v).io = c.io
<1>1. c.sp \in Byte /\ c.ram \in [Byte -> Byte] BY DEF Machine
<1>2. Incremented(c.sp) \in Byte BY <1>1, ByteSteps DEF Incremented
<1>3. [c.ram EXCEPT ![Incremented(c.sp)] = v] \in [Byte -> Byte] BY <1>1, <1>2
<1> DEFINE sp == Incremented(c.sp)
<1> DEFINE ram == [c.ram EXCEPT ![Incremented(c.sp)] = v]
<1>4. Push(c, v) = [c EXCEPT !.sp = sp, !.ram = ram] BY Zenon DEF Push, Machine
<1>6. sp \in Byte /\ ram \in [Byte -> Byte] BY <1>2, <1>3
<1> HIDE DEF sp, ram
<1>5. ASSUME NEW s \in Byte, NEW r \in [Byte -> Byte], NEW d, d = [c EXCEPT !.sp = s, !.ram = r]
      PROVE d \in Machine /\ d.io = c.io
  BY <1>5, Zenon DEF Machine
<1> QED BY <1>4, <1>5, <1>6, Zenon
LEMMA PopTypes == ASSUME NEW c \in Machine
                  PROVE /\ Pop(c) \in Machine /\ Pop(c).io = c.io /\ Top(c) \in Byte
                        /\ c.sp \in Byte
<1>1. c.sp \in Byte /\ c.ram \in [Byte -> Byte] BY DEF Machine
<1>2. (c.sp - 1) % 256 \in Byte BY <1>1, ByteSteps
<1>3. c.ram[c.sp] \in Byte BY <1>1
<1> QED BY <1>1, <1>2, <1>3, Zenon DEF Pop, Top, Machine
LEMMA PushPcTypes == ASSUME NEW c \in Machine, NEW v \in Word16
                     PROVE PushPc(c, v) \in Machine /\ PushPc(c, v).io = c.io
<1> DEFINE h == v \div 256
<1> DEFINE l == v % 256
<1>1. h \in Byte /\ l \in Byte BY WordSplits
<1>2. PushPc(c, v) = Push(Push(c, l), h) BY DEF PushPc
<1> HIDE DEF h, l
<1>3. Push(c, l) \in Machine /\ Push(c, l).io = c.io BY <1>1, PushTypes
<1> QED BY <1>1, <1>2, <1>3, PushTypes
LEMMA InWord == ASSUME NEW n \in Int PROVE n \in Word16 <=> (n >= 0 /\ n <= 65535)
  BY SMT DEF Word16
LEMMA WordNat == ASSUME NEW n \in Word16 PROVE n \in Nat /\ n <= 65535
  BY SMT DEF Word16
LEMMA WordMod == ASSUME NEW x \in Int PROVE x % 65536 \in Word16
<1>1. x % 65536 \in Int /\ x % 65536 >= 0 /\ x % 65536 < 65536 BY SMT
<1> DEFINE n == x % 65536
<1> HIDE DEF n
<1>2. n >= 0 /\ n <= 65535 BY <1>1 DEF n
<1>3. n \in Word16 BY <1>2, <1>1, InWord DEF n
<1> QED BY <1>3 DEF n
LEMMA WordIs == ASSUME NEW h \in Byte, NEW l \in Byte PROVE 256 * h + l \in Word16
<1> DEFINE n == 256 * h + l
<1>1. n \in Int BY SMT DEF Byte
<1>2. n >= 0 BY SMT DEF Byte
<1>4. n <= 65535 BY SMT DEF Byte
<1> HIDE DEF n
<1>3. n \in Word16 BY <1>1, <1>2, <1>4, InWord
<1> QED BY <1>3 DEF n
LEMMA PopPcTypes == ASSUME NEW c \in Machine
                    PROVE PopPc(c) \in Machine /\ PopPc(c).io = c.io
<1> DEFINE d == Pop(c)
<1> DEFINE e == Pop(d)
<1>1. d \in Machine /\ d.io = c.io /\ Top(c) \in Byte BY PopTypes
<1>2. e \in Machine /\ e.io = d.io /\ Top(d) \in Byte BY <1>1, PopTypes
<1> DEFINE x == 256 * Top(c) + Top(d)
<1>3. x \in Word16 BY <1>1, <1>2, WordIs
<1>4. PopPc(c) = [e EXCEPT !.pc = x] BY DEF PopPc
<1> HIDE DEF d, e, x
<1>5. e \in Machine BY <1>2
<1>6. PopPc(c) \in Machine /\ PopPc(c).io = e.io BY <1>5, <1>3, <1>4, SetPcTypes
<1> QED BY <1>1, <1>2, <1>6
LEMMA XWriteTypes == ASSUME NEW c \in Machine, NEW x \in Word16, NEW v \in Byte
                     PROVE XWrite(c, x, v) \in Machine /\ XWrite(c, x, v).io = c.io
<1> DEFINE k == IF x = BankRegister THEN One(2 \in BitsOf(v)) ELSE c.bank
<1> DEFINE d == [c.xdata EXCEPT ![x] = v]
<1>1. k \in {0, 1} BY Zenon DEF One, Machine
<1>2. d \in [Word16 -> Byte] BY DEF Machine
<1>3. XWrite(c, x, v) = [c EXCEPT !.xdata = d, !.bank = k] BY Zenon DEF XWrite, Machine
<1> HIDE DEF d, k
<1>4. [c EXCEPT !.xdata = d, !.bank = k] \in Machine /\ [c EXCEPT !.xdata = d, !.bank = k].io = c.io
  BY <1>1, <1>2, Zenon DEF Machine
<1> QED BY <1>3, <1>4

(***************************************************************************)
(* Registers and places.                                                   *)
(***************************************************************************)
PinsOK == p3 \in SUBSET (0..7)

\* All registers but x are in r what they are in c.
Elsewhere(c, r, x) == \A y \in IoSfrs : y # x => r.io[y] = c.io[y]

LEMMA SfrTypes == ASSUME NEW c \in Machine, NEW x \in 128..255, PinsOK PROVE Sfr(c, x) \in Byte
<1>1. /\ c.a \in Byte /\ c.b \in Byte /\ c.dpl \in Byte /\ c.dph \in Byte /\ c.sp \in Byte
      /\ c.ip \in Byte /\ c.psw \in SUBSET (0..7) /\ c.ie \in SUBSET (0..7) /\ c.io \in [IoSfrs -> Byte]
  BY Zenon DEF Machine
<1>2. ByteOf(c.psw) \in Byte /\ ByteOf(c.ie) \in Byte /\ ByteOf(p3) \in Byte
  BY <1>1, ByteOfType DEF PinsOK
<1>3. 255 \in Byte BY SMT DEF Byte
<1>4. x \in IoSfrs \/ x \in {ACC, B, DPL, DPH, PSW, SP, IP, IE} BY Zenon DEF IoSfrs
<1>5. x \in IoSfrs => c.io[x] \in Byte BY <1>1
<1> HIDE DEF ACC, B
<1> QED BY <1>1, <1>2, <1>3, <1>4, <1>5, Zenon DEF Sfr

LEMMA SetSfrTypes == ASSUME NEW c \in Machine, NEW x \in 128..255, NEW v \in Byte
                     PROVE SetSfr(c, x, v) \in Machine /\ Elsewhere(c, SetSfr(c, x, v), x)
<1>1. x \in IoSfrs \/ x \in {ACC, B, DPL, DPH, PSW, SP, IP, IE} BY Zenon DEF IoSfrs
<1>2. BitsOf(v) \in SUBSET (0..7) BY BitsOfType
<1>3. /\ [c EXCEPT !.a = v] \in Machine /\ [c EXCEPT !.a = v].io = c.io
      /\ [c EXCEPT !.b = v] \in Machine /\ [c EXCEPT !.b = v].io = c.io
      /\ [c EXCEPT !.dpl = v] \in Machine /\ [c EXCEPT !.dpl = v].io = c.io
      /\ [c EXCEPT !.dph = v] \in Machine /\ [c EXCEPT !.dph = v].io = c.io
  BY Zenon DEF Machine
<1>4. /\ [c EXCEPT !.psw = BitsOf(v)] \in Machine /\ [c EXCEPT !.psw = BitsOf(v)].io = c.io
      /\ [c EXCEPT !.sp = v] \in Machine /\ [c EXCEPT !.sp = v].io = c.io
      /\ [c EXCEPT !.ie = BitsOf(v)] \in Machine /\ [c EXCEPT !.ie = BitsOf(v)].io = c.io
      /\ [c EXCEPT !.ip = v] \in Machine /\ [c EXCEPT !.ip = v].io = c.io
  BY <1>2, Zenon DEF Machine
<1>5. ASSUME x \in IoSfrs
      PROVE [c EXCEPT !.io[x] = v] \in Machine /\ Elsewhere(c, [c EXCEPT !.io[x] = v], x)
  <2> DEFINE i == [c.io EXCEPT ![x] = v]
  <2>1. c.io \in [IoSfrs -> Byte] BY Zenon DEF Machine
  <2>2. i \in [IoSfrs -> Byte] /\ \A y \in IoSfrs : y # x => i[y] = c.io[y] BY <2>1, <1>5
  <2>3. [c EXCEPT !.io[x] = v] = [c EXCEPT !.io = i] BY Zenon DEF Machine
  <2> HIDE DEF i
  <2>4. [c EXCEPT !.io = i] \in Machine /\ [c EXCEPT !.io = i].io = i BY <2>2, Zenon DEF Machine
  <2> QED BY <2>2, <2>3, <2>4 DEF Elsewhere
<1>6. ASSUME NEW r, r.io = c.io PROVE Elsewhere(c, r, x) BY <1>6 DEF Elsewhere
<1> QED BY <1>1, <1>3, <1>4, <1>5, <1>6, Zenon DEF SetSfr

\* A cell of the memory, or one of the registers.
Places == {Cell(i) : i \in Byte} \cup {<<"sfr", x>> : x \in 128..255}

LEMMA CellFacts == ASSUME NEW i
                   PROVE Cell(i)[1] = "ram" /\ Cell(i)[2] = i /\ ~IsPort(Cell(i))
  BY DEF Cell, IsPort
LEMMA RegisterFacts == ASSUME NEW x
                       PROVE /\ <<"sfr", x>>[1] = "sfr" /\ <<"sfr", x>>[2] = x
                             /\ <<"sfr", x>>[1] # "ram" /\ (IsPort(<<"sfr", x>>) <=> x \in Ports)
  BY DEF IsPort
LEMMA PlaceCases == ASSUME NEW place \in Places
                    PROVE \/ place[1] = "ram" /\ place[2] \in Byte /\ ~IsPort(place)
                          \/ /\ place[1] = "sfr" /\ place[1] # "ram" /\ place[2] \in 128..255
                             /\ IsPort(place) <=> place[2] \in Ports
  BY CellFacts, RegisterFacts DEF Places
LEMMA DirectPlaces == ASSUME NEW x \in Byte
                      PROVE /\ Direct(x) \in Places
                            /\ x < 128 => Direct(x) = Cell(x)
                            /\ x >= 128 => Direct(x)[1] # "ram" /\ Direct(x)[2] = x /\ x \in 128..255
<1>1. CASE x < 128
  <2>1. Direct(x) = Cell(x) BY <1>1 DEF Direct
  <2>2. ~(x >= 128) BY <1>1, SMT DEF Byte
  <2> QED BY <2>1, <2>2 DEF Places
<1>2. CASE ~(x < 128)
  <2>1. Direct(x) = <<"sfr", x>> BY <1>2, Zenon DEF Direct
  <2>2. x \in 128..255 BY <1>2, SMT DEF Byte
  <2>3. Direct(x)[1] # "ram" /\ Direct(x)[2] = x BY <2>1
  <2>4. Direct(x) \in Places BY <2>1, <2>2, Zenon DEF Places
  <2> QED BY <1>2, <2>2, <2>3, <2>4, Zenon
<1> QED BY <1>1, <1>2

LEMMA GetTypes == ASSUME NEW c \in Machine, NEW place \in Places, PinsOK
                  PROVE Get(c, place) \in Byte /\ GetLatched(c, place) \in Byte
<1>1. CASE place[1] = "ram" /\ place[2] \in Byte /\ ~IsPort(place)
  <2>1. c.ram[place[2]] \in Byte BY <1>1 DEF Machine
  <2> QED BY <1>1, <2>1, Zenon DEF Get, GetLatched
<1>2. CASE place[1] # "ram" /\ place[2] \in 128..255 /\ (IsPort(place) <=> place[2] \in Ports)
  <2>1. Sfr(c, place[2]) \in Byte BY <1>2, SfrTypes
  <2>2. Get(c, place) \in Byte BY <1>2, <2>1, Zenon DEF Get
  <2>3. CASE place[2] \in Ports
    <3>1. place[2] \in IoSfrs BY <2>3, SMT DEF Ports, IoSfrs, P0, P1, P2, P3, ACC, B, DPL, DPH, PSW, SP, IP, IE
    <3>2. c.io \in [IoSfrs -> Byte] BY Zenon DEF Machine
    <3>3. Latch(c, place[2]) \in Byte BY <3>1, <3>2, Zenon DEF Latch
    <3>4. And(Latch(c, place[2]), Get(c, place)) \in Byte BY <3>3, <2>2, LogicTypes
    <3> QED BY <2>2, <3>4, Zenon DEF GetLatched
  <2>4. CASE place[2] \notin Ports BY <2>4, <1>2, <2>2, Zenon DEF GetLatched
  <2> QED BY <2>3, <2>4
<1> QED BY <1>1, <1>2, PlaceCases

LEMMA PutCell == ASSUME NEW c \in Machine, NEW i \in Byte, NEW v \in Byte
                 PROVE Put(c, Cell(i), v) \in Machine /\ Put(c, Cell(i), v).io = c.io
<1> DEFINE ram == [c.ram EXCEPT ![i] = v]
<1>1. c.ram \in [Byte -> Byte] BY Zenon DEF Machine
<1>2. ram \in [Byte -> Byte] BY <1>1
<1>3. Put(c, Cell(i), v) = [c EXCEPT !.ram[i] = v] BY CellFacts DEF Put
<1>4. [c EXCEPT !.ram[i] = v] = [c EXCEPT !.ram = ram] BY Zenon DEF Machine
<1> HIDE DEF ram
<1>5. ASSUME NEW r \in [Byte -> Byte], NEW d, d = [c EXCEPT !.ram = r]
      PROVE d \in Machine /\ d.io = c.io
  BY <1>5, Zenon DEF Machine
<1> QED BY <1>2, <1>3, <1>4, <1>5
LEMMA PutDirect == ASSUME NEW c \in Machine, NEW x \in Byte, NEW v \in Byte
                   PROVE /\ Put(c, Direct(x), v) \in Machine
                         /\ Elsewhere(c, Put(c, Direct(x), v), x)
<1>1. CASE x < 128 BY <1>1, DirectPlaces, PutCell DEF Elsewhere
<1>2. CASE ~(x < 128)
  <2>1. x >= 128 BY <1>2, SMT DEF Byte
  <2>2. Put(c, Direct(x), v) = SetSfr(c, x, v) BY <2>1, DirectPlaces, Zenon DEF Put
  <2>3. x \in 128..255 BY <2>1, DirectPlaces
  <2> QED BY <2>2, <2>3, SetSfrTypes
<1> QED BY <1>1, <1>2

LEMMA BitPlaces == ASSUME NEW bit \in Byte
                   PROVE /\ ByteOfBit(bit) \in Places /\ bit % 8 \in 0..7
                         /\ bit < 128 => \E i \in Byte : ByteOfBit(bit) = Cell(i)
                         /\ bit >= 128 => /\ ByteOfBit(bit) = <<"sfr", bit - (bit % 8)>>
                                          /\ bit - (bit % 8) \in 128..255
<1>1. bit % 8 \in 0..7 BY SMT DEF Byte
<1>2. CASE bit < 128
  <2> DEFINE i == 32 + bit \div 8
  <2>1. i \in Byte BY <1>2, SMT DEF Byte
  <2>2. ByteOfBit(bit) = Cell(i) BY <1>2 DEF ByteOfBit
  <2>3. ~(bit >= 128) BY <1>2, SMT DEF Byte
  <2> HIDE DEF i
  <2> QED BY <1>1, <2>1, <2>2, <2>3 DEF Places
<1>3. CASE ~(bit < 128)
  <2> DEFINE x == bit - (bit % 8)
  <2>1. x \in 128..255 BY <1>3, SMT DEF Byte
  <2>2. ByteOfBit(bit) = <<"sfr", x>> BY <1>3, Zenon DEF ByteOfBit
  <2> HIDE DEF x
  <2>3. ByteOfBit(bit) \in Places BY <2>1, <2>2, Zenon DEF Places
  <2> QED BY <1>1, <1>3, <2>1, <2>2, <2>3, Zenon DEF x
<1> QED BY <1>2, <1>3

\* In r, register y is what it is in c but for the bit.
BitSet(c, r, y, i, on) == BitsOf(r.io[y]) = With(BitsOf(c.io[y]), i, on)

LEMMA PutBitTypes ==
  ASSUME NEW c \in Machine, NEW bit \in Byte, NEW on, NEW old \in Byte, NEW r,
         r = Put(c, ByteOfBit(bit), ByteOf(With(BitsOf(old), bit % 8, on)))
  PROVE /\ r \in Machine
        /\ Elsewhere(c, r, bit - (bit % 8))
        /\ \A y \in IoSfrs : (y = bit - (bit % 8) /\ old = c.io[y]) => BitSet(c, r, y, bit % 8, on)
<1> DEFINE i == bit % 8
<1> DEFINE x == bit - (bit % 8)
<1> DEFINE bits == With(BitsOf(old), i, on)
<1> DEFINE v == ByteOf(bits)
<1>1. i \in 0..7 BY BitPlaces
<1>2. bits \in SUBSET (0..7) BY <1>1, BitsOfType, WithType
<1> HIDE DEF i, bits
<1>3. v \in Byte /\ BitsOf(v) = bits BY <1>2, ByteOfType, BitsOfByteOf
<1>4. r = Put(c, ByteOfBit(bit), v) BY DEF i, bits
<1> HIDE DEF v
<1>5. CASE bit < 128
  <2>1. PICK k \in Byte : ByteOfBit(bit) = Cell(k) BY <1>5, BitPlaces
  <2>5. Put(c, Cell(k), v) \in Machine /\ Put(c, Cell(k), v).io = c.io BY <1>3, PutCell
  <2>2. r \in Machine /\ r.io = c.io BY <2>1, <2>5, <1>4
  <2>3. Elsewhere(c, r, x) BY <2>2 DEF Elsewhere
  <2>4. ASSUME NEW y \in IoSfrs PROVE y # x
    <3>1. x \in Int /\ x < 128 BY <1>5, SMT DEF Byte
    <3>2. y \in 128..255 BY Zenon DEF IoSfrs
    <3> HIDE DEF x
    <3> QED BY <3>1, <3>2, SMT
  <2> QED BY <2>2, <2>3, <2>4
<1>6. CASE ~(bit < 128)
  <2>1. bit >= 128 BY <1>6, SMT DEF Byte
  <2>2. ByteOfBit(bit) = <<"sfr", x>> /\ x \in 128..255 BY <2>1, BitPlaces
  <2> HIDE DEF x
  <2>3. r = SetSfr(c, x, v) BY <1>4, <2>2, RegisterFacts DEF Put
  <2>4. r \in Machine /\ Elsewhere(c, r, x) BY <2>2, <2>3, <1>3, SetSfrTypes
  <2>5. ASSUME x \in IoSfrs, old = c.io[x] PROVE BitSet(c, r, x, i, on)
    <3>1. r = [c EXCEPT !.io[x] = v] BY <2>3, <2>5, Zenon DEF SetSfr, IoSfrs
    <3>2. r.io[x] = v
      <4>1. c.io \in [IoSfrs -> Byte] BY Zenon DEF Machine
      <4>2. [c EXCEPT !.io[x] = v] = [c EXCEPT !.io = [c.io EXCEPT ![x] = v]] BY Zenon DEF Machine
      <4>3. r.io = [c.io EXCEPT ![x] = v] BY <3>1, <4>2, Zenon DEF Machine
      <4> QED BY <4>1, <4>3, <2>5
    <3> QED BY <3>2, <1>3, <2>5 DEF BitSet, bits
  <2> QED BY <2>4, <2>5 DEF i, x
<1> QED BY <1>5, <1>6

LEMMA PutBitLatchedTypes ==
  ASSUME NEW c \in Machine, NEW bit \in Byte, NEW on, PinsOK
  PROVE /\ PutBitLatched(c, bit, on) \in Machine
        /\ Elsewhere(c, PutBitLatched(c, bit, on), bit - (bit % 8))
        /\ \A y \in IoSfrs : y = bit - (bit % 8) =>
                               BitSet(c, PutBitLatched(c, bit, on), y, bit % 8, on)
<1> DEFINE place == ByteOfBit(bit)
<1> DEFINE old == IF IsPort(place) THEN Latch(c, place[2]) ELSE Get(c, place)
<1> DEFINE x == bit - (bit % 8)
<1>1. place \in Places BY BitPlaces
<1>2. c.io \in [IoSfrs -> Byte] BY Zenon DEF Machine
<1>3. ASSUME NEW y \in Ports PROVE y \in IoSfrs
  BY <1>3, SMT DEF Ports, IoSfrs, P0, P1, P2, P3, ACC, B, DPL, DPH, PSW, SP, IP, IE
<1>4. old \in Byte
  <2>1. CASE IsPort(place)
    <3>1. place[2] \in IoSfrs BY <2>1, <1>3 DEF IsPort
    <3> QED BY <3>1, <1>2, <2>1 DEF Latch
  <2>2. CASE ~IsPort(place) BY <2>2, <1>1, GetTypes
  <2> QED BY <2>1, <2>2
<1>5. PutBitLatched(c, bit, on) = Put(c, ByteOfBit(bit), ByteOf(With(BitsOf(old), bit % 8, on)))
  BY DEF PutBitLatched
<1>6. ASSUME x \in IoSfrs PROVE old = c.io[x]
  <2>1. bit >= 128 BY <1>6, SMT DEF IoSfrs, Byte
  <2>2. place = <<"sfr", x>> BY <2>1, BitPlaces
  <2> HIDE DEF x, place
  <2>3. CASE x \in Ports
    <3>1. IsPort(place) /\ place[2] = x BY <2>2, <2>3, RegisterFacts
    <3> QED BY <3>1 DEF Latch
  <2>4. CASE x \notin Ports
    <3>1. ~IsPort(place) /\ place[2] = x /\ place[1] # "ram" BY <2>2, <2>4, RegisterFacts
    <3>2. old = Sfr(c, x) BY <3>1 DEF Get
    <3>3. Sfr(c, x) = c.io[x] BY <1>6, <2>4, Zenon DEF Sfr, IoSfrs, Ports
    <3> QED BY <3>2, <3>3
  <2> QED BY <2>3, <2>4
<1> HIDE DEF old
<1> QED BY <1>4, <1>5, <1>6, PutBitTypes

(***************************************************************************)
(* Instructions.                                                           *)
(***************************************************************************)
LEMMA RomTypes == ASSUME NEW x \in Nat PROVE RomByte(x) \in Byte
<1>1. CASE x < RomSize
  <2>1. x \in 0..(RomSize - 1) BY <1>1, CpuAssumption, SMT
  <2> QED BY <1>1, <2>1, CpuAssumption DEF RomByte
<1>2. CASE ~(x < RomSize) BY <1>2, SMT DEF RomByte, Byte
<1> QED BY <1>1, <1>2
LEMMA CodeTypes == ASSUME NEW c \in Machine
                   PROVE /\ \A i \in Nat : Code(c, i) \in Byte
                         /\ Opcode(c) \in Byte /\ Opcode(c) = 16 * Row(c) + Col(c)
                         /\ Row(c) \in 0..15 /\ Col(c) \in 0..15
                         /\ c.pc \in Word16
<1>1. ASSUME NEW x \in Nat PROVE RomByte(x) \in Byte BY RomTypes
<1>2. c.bank \in {0, 1} /\ c.pc \in Word16 BY Zenon DEF Machine
<1>3. ASSUME NEW i \in Nat PROVE Code(c, i) \in Byte
  <2> DEFINE x == c.bank * 65536 + c.pc + i
  <2>3. c.pc \in Nat /\ (c.bank = 0 \/ c.bank = 1) BY <1>2, WordNat
  <2>1. x \in Nat BY <2>3, SMT
  <2> HIDE DEF x
  <2>2. RomByte(x) \in Byte BY <2>1, <1>1
  <2> QED BY <2>2 DEF Code, x
<1>4. Opcode(c) \in Byte BY <1>3 DEF Opcode
<1>5. ASSUME NEW v \in Byte PROVE v \div 16 \in 0..15 /\ v % 16 \in 0..15 /\ v = 16 * (v \div 16) + (v % 16)
  BY SMT DEF Byte
<1> QED BY <1>2, <1>3, <1>4, <1>5 DEF Row, Col

LEMMA AfterTypes == ASSUME NEW c \in Machine, NEW n \in Nat
                    PROVE After(c, n) \in Word16 /\ (n > 0 => Relative(c, n) \in Word16)
<1>1. ASSUME NEW x \in Int PROVE x % 65536 \in Word16 BY WordMod
<1>2. c.pc \in Int BY CodeTypes, WordNat
<1>3. After(c, n) \in Word16
  <2> DEFINE x == c.pc + n
  <2>1. x \in Int BY <1>2
  <2> HIDE DEF x
  <2>2. x % 65536 \in Word16 BY <2>1, <1>1
  <2> QED BY <2>2 DEF After, x
<1>4. ASSUME n > 0 PROVE Relative(c, n) \in Word16
  <2> DEFINE b == Code(c, n - 1)
  <2> DEFINE x == c.pc + n + Signed(b)
  <2>1. b \in Byte BY <1>4, CodeTypes
  <2> HIDE DEF b
  <2>2. Signed(b) \in Int BY <2>1, SMT DEF Signed, Byte
  <2>3. x \in Int BY <1>2, <2>2
  <2> HIDE DEF x
  <2>4. x % 65536 \in Word16 BY <2>3, <1>1
  <2> QED BY <2>4 DEF Relative, x, b
<1> QED BY <1>3, <1>4

\* The instruction c makes of c a machine r, and clears no timer's request but by writing it.
Keeps(c, r) ==
  /\ r \in Machine
  /\ \A t \in {0, 1} : TF(t) \in BitsOf(c.io[TCON]) =>
                         TF(t) \in BitsOf(r.io[TCON]) \/ Writes(c, TCON, TF(t))

LEMMA TconIsIo == TCON \in IoSfrs
  BY SMT DEF TCON, IoSfrs, ACC, B, DPL, DPH, PSW, SP, IP, IE
LEMMA KeepsSame == ASSUME NEW c \in Machine, NEW r \in Machine, r.io = c.io PROVE Keeps(c, r)
  BY DEF Keeps
LEMMA KeepsByte == ASSUME NEW c \in Machine, NEW r \in Machine, Opcode(c) \in ByteWriters,
                          Elsewhere(c, r, Code(c, 1))
                   PROVE Keeps(c, r)
<1>1. CASE Code(c, 1) = TCON BY <1>1 DEF Keeps, Writes
<1>2. CASE Code(c, 1) # TCON
  <2>1. r.io[TCON] = c.io[TCON] BY <1>2, TconIsIo DEF Elsewhere
  <2> QED BY <2>1 DEF Keeps
<1> QED BY <1>1, <1>2
LEMMA KeepsBit == ASSUME NEW c \in Machine, NEW r \in Machine, Opcode(c) \in BitWriters,
                         NEW on,
                         Elsewhere(c, r, Code(c, 1) - (Code(c, 1) % 8)),
                         TCON = Code(c, 1) - (Code(c, 1) % 8) =>
                           BitSet(c, r, TCON, Code(c, 1) % 8, on)
                  PROVE Keeps(c, r)
<1> DEFINE bit == Code(c, 1)
<1> DEFINE i == bit % 8
<1>1. bit \in Byte BY CodeTypes
<1>2. CASE bit - i # TCON
  <2>1. r.io[TCON] = c.io[TCON] BY <1>2, TconIsIo DEF Elsewhere
  <2> QED BY <2>1 DEF Keeps
<1>3. CASE bit - i = TCON
  <2>1. BitsOf(r.io[TCON]) = With(BitsOf(c.io[TCON]), i, on) BY <1>3 DEF BitSet
  <2>2. ASSUME NEW t \in {0, 1}, TF(t) \in BitsOf(c.io[TCON]), TF(t) \notin BitsOf(r.io[TCON])
        PROVE Writes(c, TCON, TF(t))
    <3>1. TF(t) = i BY <2>1, <2>2, Zenon DEF With
    <3>2. i \in Int BY <1>1, SMT DEF Byte
    <3> HIDE DEF i
    <3>3. bit = TCON + i BY <1>1, <3>2, <1>3, SMT DEF TCON, Byte
    <3> QED BY <3>1, <3>3 DEF Writes
  <2> QED BY <2>2 DEF Keeps
<1> QED BY <1>2, <1>3

LEMMA KeepsThen == ASSUME NEW c \in Machine, NEW r, Keeps(c, r), NEW n \in Nat, Then(c, r, n)
                   PROVE Keeps(c, m')
<1> DEFINE x == After(c, n)
<1> DEFINE q == m'
<1>1. x \in Word16 BY AfterTypes
<1>2. r \in Machine BY DEF Keeps
<1>3. q = [r EXCEPT !.pc = x] BY DEF Then
<1> HIDE DEF x, q
<1>4. q \in Machine /\ q.io = r.io BY <1>1, <1>2, <1>3, SetPcTypes
<1>5. Keeps(c, q) BY <1>4 DEF Keeps
<1> QED BY <1>5 DEF q
LEMMA KeepsJump == ASSUME NEW c \in Machine, NEW r, Keeps(c, r), NEW x \in Word16, Jump(r, x)
                   PROVE Keeps(c, m')
<1> DEFINE q == m'
<1>2. r \in Machine BY DEF Keeps
<1>3. q = [r EXCEPT !.pc = x] BY DEF Jump
<1> HIDE DEF q
<1>4. q \in Machine /\ q.io = r.io BY <1>2, <1>3, SetPcTypes
<1>5. Keeps(c, q) BY <1>4 DEF Keeps
<1> QED BY <1>5 DEF q
LEMMA KeepsBranch == ASSUME NEW c \in Machine, NEW r, Keeps(c, r), NEW n \in Nat, n > 0, NEW cond,
                            BranchIf(c, cond, r, n)
                     PROVE Keeps(c, m')
<1> DEFINE x == IF cond THEN Relative(c, n) ELSE After(c, n)
<1> DEFINE q == m'
<1>1. x \in Word16 BY AfterTypes
<1>2. r \in Machine BY DEF Keeps
<1>3. q = [r EXCEPT !.pc = x] BY DEF BranchIf
<1> HIDE DEF x, q
<1>4. q \in Machine /\ q.io = r.io BY <1>1, <1>2, <1>3, SetPcTypes
<1>5. Keeps(c, q) BY <1>4 DEF Keeps
<1> QED BY <1>5 DEF q

LEMMA RegisterPlaces == ASSUME NEW c \in Machine, NEW n \in 0..7
                        PROVE /\ \E i \in Byte : R(c, n) = Cell(i)
                              /\ \E i \in Byte : At(c, n) = Cell(i)
<1> DEFINE i == n + 8 * One(RS0 \in c.psw) + 16 * One(RS1 \in c.psw)
<1>1. One(RS0 \in c.psw) \in {0, 1} /\ One(RS1 \in c.psw) \in {0, 1} BY Zenon DEF One
<1>2. i \in Byte
  <2> DEFINE x == One(RS0 \in c.psw)
  <2> DEFINE y == One(RS1 \in c.psw)
  <2> HIDE DEF x, y
  <2>1. n + 8 * x + 16 * y \in Byte BY <1>1, SMT DEF x, y, Byte
  <2> QED BY <2>1 DEF x, y
<1>3. R(c, n) = Cell(i) BY DEF R
<1> HIDE DEF i
<1>4. c.ram \in [Byte -> Byte] BY Zenon DEF Machine
<1>5. c.ram[i] \in Byte BY <1>2, <1>4
<1>6. At(c, n) = Cell(c.ram[i]) BY <1>3, CellFacts DEF At
<1> QED BY <1>2, <1>3, <1>5, <1>6

LEMMA ColumnPlaces == ASSUME NEW c \in Machine
                      PROVE /\ Col(c) = 5 => Place(c) = Direct(Code(c, 1))
                            /\ Col(c) \in Ri \cup Rn => \E i \in Byte : Place(c) = Cell(i)
                            /\ Col(c) \in {5} \cup Ri \cup Rn => Place(c) \in Places
<1>0. Code(c, 1) \in Byte BY CodeTypes
<1>1. CASE Col(c) = 5
  <2>2. Col(c) \notin Ri /\ Col(c) \notin Rn BY <1>1, SMT DEF Ri, Rn
  <2>1. Place(c) = Direct(Code(c, 1)) BY <1>1, <2>2, Zenon DEF Place
  <2> QED BY <1>0, <2>1, <2>2, DirectPlaces
<1>2. CASE Col(c) \in Ri
  <2>1. Col(c) # 5 /\ Col(c) \notin Rn /\ Col(c) - 6 \in 0..7 BY <1>2, SMT DEF Ri, Rn
  <2> DEFINE n == Col(c) - 6
  <2>2. Place(c) = At(c, n) BY <2>1, <1>2, Zenon DEF Place
  <2> HIDE DEF n
  <2>3. \E i \in Byte : Place(c) = Cell(i) BY <2>1, <2>2, RegisterPlaces DEF n
  <2> QED BY <2>1, <2>3 DEF Places
<1>3. CASE Col(c) \in Rn
  <2>1. Col(c) # 5 /\ Col(c) \notin Ri /\ Col(c) - 8 \in 0..7 BY <1>3, SMT DEF Ri, Rn
  <2> DEFINE n == Col(c) - 8
  <2>2. Place(c) = R(c, n) BY <2>1, <1>3, Zenon DEF Place
  <2> HIDE DEF n
  <2>3. \E i \in Byte : Place(c) = Cell(i) BY <2>1, <2>2, RegisterPlaces DEF n
  <2> QED BY <2>1, <2>3 DEF Places
<1>4. CASE Col(c) \notin {5} \cup Ri \cup Rn BY <1>4
<1> QED BY <1>1, <1>2, <1>3, <1>4

\* The instructions with a direct operand that they write.
LEMMA Opcodes == ASSUME NEW c \in Machine
                 PROVE /\ Col(c) = 5 /\ Row(c) \in {0, 1, 7, 12, 13, 15} => Opcode(c) \in ByteWriters
                       /\ Col(c) \in {2, 3} /\ Row(c) \in {4, 5, 6} => Opcode(c) \in ByteWriters
                       /\ Col(c) \in Ri \cup Rn /\ Row(c) = 8 => Opcode(c) \in ByteWriters
                       /\ Col(c) = 5 /\ Row(c) = 8 => Opcode(c) = \h85
<1>1. Opcode(c) = 16 * Row(c) + Col(c) /\ Row(c) \in 0..15 /\ Col(c) \in 0..15 BY CodeTypes
<1>2. Col(c) = 5 /\ Row(c) \in {0, 1, 7, 12, 13, 15} => Opcode(c) \in ByteWriters
  BY <1>1, SMT DEF ByteWriters
<1>3. Col(c) \in {2, 3} /\ Row(c) \in {4, 5, 6} => Opcode(c) \in ByteWriters
  BY <1>1, SMT DEF ByteWriters
<1>4. Col(c) \in Ri \cup Rn /\ Row(c) = 8 => Opcode(c) \in ByteWriters
  BY <1>1, SMT DEF ByteWriters, Ri, Rn
<1>5. Col(c) = 5 /\ Row(c) = 8 => Opcode(c) = \h85 BY <1>1, SMT
<1> QED BY <1>2, <1>3, <1>4, <1>5

LEMMA KeepsDirect == ASSUME NEW c \in Machine, NEW b \in Machine, b.io = c.io, NEW v \in Byte,
                            Opcode(c) \in ByteWriters
                     PROVE Keeps(c, Put(b, Direct(Code(c, 1)), v))
<1> DEFINE x == Code(c, 1)
<1> DEFINE r == Put(b, Direct(x), v)
<1>1. x \in Byte BY CodeTypes
<1>2. r \in Machine /\ Elsewhere(b, r, x) BY <1>1, PutDirect
<1>3. Elsewhere(c, r, x) BY <1>2 DEF Elsewhere
<1> HIDE DEF r
<1>4. Keeps(c, r) BY <1>2, <1>3, KeepsByte
<1> QED BY <1>4 DEF r
LEMMA KeepsDirect2 == ASSUME NEW c \in Machine, NEW v \in Byte, Opcode(c) = \h85
                      PROVE Keeps(c, Put(c, Direct(Code(c, 2)), v))
<1> DEFINE x == Code(c, 2)
<1> DEFINE r == Put(c, Direct(x), v)
<1>1. x \in Byte BY CodeTypes
<1>2. r \in Machine /\ Elsewhere(c, r, x) BY <1>1, PutDirect
<1> HIDE DEF r
<1>3. ASSUME x = TCON PROVE Keeps(c, r) BY <1>2, <1>3 DEF Keeps, Writes
<1>4. ASSUME x # TCON PROVE Keeps(c, r)
  <2>1. r.io[TCON] = c.io[TCON] BY <1>2, <1>4, TconIsIo DEF Elsewhere
  <2> QED BY <1>2, <2>1 DEF Keeps
<1>5. Keeps(c, r) BY <1>3, <1>4
<1> QED BY <1>5 DEF r
LEMMA KeepsPlace == ASSUME NEW c \in Machine, NEW b \in Machine, b.io = c.io, NEW v \in Byte,
                           Col(c) \in {5} \cup Ri \cup Rn,
                           Col(c) = 5 => Opcode(c) \in ByteWriters
                    PROVE Keeps(c, Put(b, Place(c), v))
<1>1. CASE Col(c) = 5 BY <1>1, ColumnPlaces, KeepsDirect
<1>2. CASE Col(c) # 5
  <2>1. PICK i \in Byte : Place(c) = Cell(i) BY <1>2, ColumnPlaces
  <2>2. Put(b, Cell(i), v) \in Machine /\ Put(b, Cell(i), v).io = b.io BY PutCell
  <2> QED BY <2>1, <2>2, KeepsSame
<1> QED BY <1>1, <1>2

LEMMA DptrTypes == ASSUME NEW c \in Machine PROVE c.a \in Byte /\ Dptr(c) \in Word16
<1>1. c.dph \in Byte /\ c.dpl \in Byte /\ c.a \in Byte BY Zenon DEF Machine
<1> QED BY <1>1, WordIs DEF Dptr
LEMMA TargetTypes == ASSUME NEW c \in Machine
                     PROVE /\ PageTarget(c) \in Word16 /\ FarTarget(c) \in Word16
                           /\ TableTarget(c) \in Word16
<1>1. PageTarget(c) \in Word16
  <2> DEFINE p == c.pc
  <2> DEFINE q == Row(c)
  <2> DEFINE k == Code(c, 1)
  <2> DEFINE s == 2048 * (p \div 2048)
  <2> DEFINE t == 256 * (q \div 2)
  <2>1. p \in Nat /\ p <= 65535 /\ q \in 0..15 /\ k \in Byte BY CodeTypes, WordNat
  <2>2. PageTarget(c) = s + t + k BY DEF PageTarget
  <2> HIDE DEF p, q, k
  <2>3. s \in Nat /\ s <= 63488 BY <2>1, SMT
  <2>4. t \in Nat /\ t <= 1792 BY <2>1, SMT
  <2> HIDE DEF s, t
  <2> DEFINE n == PageTarget(c)
  <2>5. n = s + t + k BY <2>2
  <2> HIDE DEF n
  <2>6. n \in Int /\ n >= 0 /\ n <= 65535 BY <2>1, <2>3, <2>4, <2>5, SMT DEF Byte
  <2>7. n \in Word16 BY <2>6, InWord
  <2> QED BY <2>7 DEF n
<1>2. FarTarget(c) \in Word16 BY CodeTypes, WordIs DEF FarTarget
<1>3. TableTarget(c) \in Word16
  <2> DEFINE x == Dptr(c) + c.a
  <2>1. c.a \in Int BY DptrTypes, SMT DEF Byte
  <2>2. x \in Int BY <2>1, DptrTypes, WordNat
  <2> HIDE DEF x
  <2>3. x % 65536 \in Word16 BY <2>2, WordMod
  <2> QED BY <2>3 DEF x, TableTarget
<1> QED BY <1>1, <1>2, <1>3

LEMMA JumpsKeep == ASSUME NEW c \in Machine, Jumps(c) PROVE Keeps(c, m')
<1>1. PageTarget(c) \in Word16 /\ FarTarget(c) \in Word16 /\ TableTarget(c) \in Word16 BY TargetTypes
<1>2. \/ Jump(c, PageTarget(c))
      \/ Jump(PushPc(c, After(c, 2)), PageTarget(c))
      \/ Jump(c, FarTarget(c))
      \/ Jump(PushPc(c, After(c, 3)), FarTarget(c))
      \/ BranchIf(c, TRUE, c, 2)
      \/ Jump(c, TableTarget(c))
  BY DEF Jumps
<1>3. Keeps(c, c) BY KeepsSame
<1>4. Keeps(c, PushPc(c, After(c, 2))) /\ Keeps(c, PushPc(c, After(c, 3)))
  BY AfterTypes, PushPcTypes, KeepsSame
<1>5. BranchIf(c, TRUE, c, 2) => Keeps(c, m')
  <2> DEFINE always == TRUE
  <2> HIDE DEF always
  <2>1. BranchIf(c, always, c, 2) => Keeps(c, m') BY <1>3, KeepsBranch
  <2> QED BY <2>1 DEF always
<1>6. ASSUME NEW r, Keeps(c, r), NEW x \in Word16, Jump(r, x) PROVE Keeps(c, m')
  BY <1>6, KeepsJump
<1> QED BY <1>1, <1>2, <1>3, <1>4, <1>5, <1>6, Zenon

LEMMA ReturnsKeep == ASSUME NEW c \in Machine, Returns(c) PROVE Keeps(c, m')
<1>1. PopPc(c) \in Machine /\ PopPc(c).io = c.io BY PopPcTypes
<1>2. ASSUME NEW d \in Machine, NEW r, r = [d EXCEPT !.int = "none"] PROVE r \in Machine /\ r.io = d.io
  BY <1>2, Zenon DEF Machine
<1> DEFINE q == m'
<1>3. q = PopPc(c) \/ q = [PopPc(c) EXCEPT !.int = "none"] BY Zenon DEF Returns
<1> HIDE DEF q
<1>4. q \in Machine /\ q.io = c.io BY <1>1, <1>2, <1>3
<1>5. Keeps(c, q) BY <1>4, KeepsSame
<1> QED BY <1>5 DEF q

LEMMA KeepsPutBitLatched == ASSUME NEW c \in Machine, NEW on, PinsOK, Opcode(c) \in BitWriters
                            PROVE Keeps(c, PutBitLatched(c, Code(c, 1), on))
<1> DEFINE r == PutBitLatched(c, Code(c, 1), on)
<1>1. Code(c, 1) \in Byte BY CodeTypes
<1>2. /\ r \in Machine
      /\ Elsewhere(c, r, Code(c, 1) - (Code(c, 1) % 8))
      /\ TCON = Code(c, 1) - (Code(c, 1) % 8) => BitSet(c, r, TCON, Code(c, 1) % 8, on)
  BY <1>1, PutBitLatchedTypes, TconIsIo
<1> HIDE DEF r
<1>3. Keeps(c, r) BY <1>2, KeepsBit
<1> QED BY <1>3 DEF r

LEMMA BranchesKeep == ASSUME NEW c \in Machine, PinsOK, Branches(c) PROVE Keeps(c, m')
<1> DEFINE on == GetBitLatched(c, Code(c, 1))
<1> DEFINE r == IF on THEN PutBitLatched(c, Code(c, 1), FALSE) ELSE c
<1> DEFINE p == C \in c.psw <=> Row(c) = 4
<1> DEFINE q == c.a = 0 <=> Row(c) = 6
<1> DEFINE s == on <=> Row(c) = 2
<1>1. \/ BranchIf(c, p, c, 2) \/ BranchIf(c, q, c, 2) \/ BranchIf(c, s, c, 3)
      \/ Opcode(c) = \h10 /\ BranchIf(c, on, r, 3)
  BY Zenon DEF Branches
<1>2. Opcode(c) = \h10 => Keeps(c, PutBitLatched(c, Code(c, 1), FALSE))
  BY KeepsPutBitLatched DEF BitWriters
<1>3. Keeps(c, c) BY KeepsSame
<1>4. Opcode(c) = \h10 => Keeps(c, r) BY <1>2, <1>3, Zenon
<1> HIDE DEF p, q, s, r, on
<1> QED BY <1>1, <1>3, <1>4, KeepsBranch

LEMMA KeepsA == ASSUME NEW c \in Machine, NEW v \in Byte, NEW n \in Nat, Then(c, SetA(c, v), n)
                PROVE Keeps(c, m')
  BY SetATypes, KeepsSame, KeepsThen
LEMMA KeepsFlag == ASSUME NEW c \in Machine, NEW flag \in 0..7, NEW on, NEW n \in Nat,
                          Then(c, SetFlag(c, flag, on), n)
                   PROVE Keeps(c, m')
<1> DEFINE r == SetFlag(c, flag, on)
<1>1. r \in Machine /\ r.io = c.io BY SetFlagTypes
<1>2. Then(c, r, n) OBVIOUS
<1> HIDE DEF r
<1> QED BY <1>1, <1>2, KeepsSame, KeepsThen
LEMMA KeepsAFlag == ASSUME NEW c \in Machine, NEW v \in Byte, NEW flag \in 0..7, NEW on, NEW n \in Nat,
                           Then(c, SetFlag(SetA(c, v), flag, on), n)
                    PROVE Keeps(c, m')
<1> DEFINE a == SetA(c, v)
<1> DEFINE r == SetFlag(a, flag, on)
<1>1. a \in Machine /\ a.io = c.io BY SetATypes
<1>2. Then(c, r, n) OBVIOUS
<1>3. r \in Machine /\ r.io = a.io BY <1>1, SetFlagTypes
<1> HIDE DEF r, a
<1> QED BY <1>1, <1>2, <1>3, KeepsSame, KeepsThen

LEMMA LengthTypes == ASSUME NEW c PROVE Length(c) \in Nat /\ Length(c) + 1 \in Nat /\ Length(c) + 1 > 0
<1>1. Length(c) = 1 \/ Length(c) = 2 BY DEF Length
<1> QED BY <1>1, SMT
LEMMA PlaceTypes == ASSUME NEW c \in Machine, PinsOK, Col(c) \in {5} \cup Ri \cup Rn
                    PROVE /\ Get(c, Place(c)) \in Byte /\ GetLatched(c, Place(c)) \in Byte
                          /\ (Get(c, Place(c)) - 1) % 256 \in Byte
                          /\ (Get(c, Place(c)) + 1) % 256 \in Byte
  BY ColumnPlaces, GetTypes, ByteSteps
LEMMA Columns == ASSUME NEW c \in Machine PROVE Col(c) >= 5 <=> Col(c) \in {5} \cup Ri \cup Rn
  BY CodeTypes, SMT DEF Ri, Rn

LEMMA LoopsKeep == ASSUME NEW c \in Machine, PinsOK, Loops(c) PROVE Keeps(c, m')
<1> DEFINE v == (Get(c, Place(c)) - 1) % 256
<1> DEFINE r == Put(c, Place(c), v)
<1> DEFINE again == Get(r, Place(c)) # 0
<1>1. Row(c) = 13 /\ Col(c) \in {5} \cup Rn /\ BranchIf(c, again, r, Length(c) + 1)
  BY Zenon DEF Loops, Op
<1>2. v \in Byte BY <1>1, PlaceTypes
<1>3. Col(c) = 5 => Opcode(c) \in ByteWriters BY <1>1, Opcodes
<1> HIDE DEF v
<1>4. Keeps(c, r) BY <1>1, <1>2, <1>3, KeepsPlace
<1> HIDE DEF r, again
<1> DEFINE n == Length(c) + 1
<1>5. n \in Nat /\ n > 0 BY LengthTypes
<1>6. BranchIf(c, again, r, n) BY <1>1
<1> HIDE DEF n
<1> QED BY <1>4, <1>5, <1>6, KeepsBranch

LEMMA ComparesKeep == ASSUME NEW c \in Machine, Compares(c) PROVE Keeps(c, m')
<1> DEFINE x == IF Col(c) \in {4, 5} THEN c.a ELSE Get(c, Place(c))
<1> DEFINE y == IF Col(c) = 5 THEN Get(c, Place(c)) ELSE Code(c, 1)
<1> DEFINE less == x < y
<1> DEFINE differ == x # y
<1>1. BranchIf(c, differ, SetFlag(c, C, less), 3) BY Zenon DEF Compares
<1> HIDE DEF less, differ
<1> DEFINE r == SetFlag(c, C, less)
<1>2. C \in 0..7 BY SMT DEF C
<1>3. r \in Machine /\ r.io = c.io BY <1>2, SetFlagTypes
<1>4. BranchIf(c, differ, r, 3) BY <1>1
<1> HIDE DEF r
<1> QED BY <1>3, <1>4, KeepsSame, KeepsBranch

LEMMA MovesKeep == ASSUME NEW c \in Machine, PinsOK, Moves(c) PROVE Keeps(c, m')
<1> DEFINE from(x) == IF x \in Rn \cup Ri THEN Get(c, Place(c)) ELSE GetLatched(c, Direct(Code(c, 1)))
<1>1. \/ Op(c, 7, {4}) /\ Then(c, SetA(c, Code(c, 1)), 2)
      \/ Op(c, 7, {5}) /\ Then(c, Put(c, Place(c), Code(c, 2)), 3)
      \/ Op(c, 7, Ri \cup Rn) /\ Then(c, Put(c, Place(c), Code(c, 1)), 2)
      \/ Op(c, 8, {5}) /\ Then(c, Put(c, Direct(Code(c, 2)), from(5)), 3)
      \/ Op(c, 8, Ri \cup Rn) /\ Then(c, Put(c, Direct(Code(c, 1)), from(Col(c))), 2)
      \/ Op(c, 10, Ri \cup Rn) /\ Then(c, Put(c, Place(c), from(5)), 2)
      \/ Op(c, 14, {5} \cup Ri \cup Rn) /\ Then(c, SetA(c, from(Col(c))), Length(c))
      \/ Op(c, 15, {5} \cup Ri \cup Rn) /\ Then(c, Put(c, Place(c), c.a), Length(c))
      \/ Op(c, 9, {0}) /\ Then(c, SetDptr(c, 256 * Code(c, 1) + Code(c, 2)), 3)
  BY Zenon DEF Moves
<1>2. Code(c, 1) \in Byte /\ Code(c, 2) \in Byte /\ c.a \in Byte BY CodeTypes, DptrTypes
<1>3. from(5) \in Byte
  <2>1. Direct(Code(c, 1)) \in Places BY <1>2, DirectPlaces
  <2>2. 5 \notin Rn \cup Ri BY SMT DEF Rn, Ri
  <2> QED BY <2>1, <2>2, GetTypes
<1>4. Col(c) \in {5} \cup Ri \cup Rn => from(Col(c)) \in Byte
  <2>1. Col(c) \in Rn \cup Ri => Get(c, Place(c)) \in Byte BY PlaceTypes
  <2>2. Col(c) = 5 => from(Col(c)) \in Byte BY <1>3
  <2> QED BY <2>1, <2>2
<1> HIDE DEF from
<1>5. ASSUME NEW r, Keeps(c, r), NEW n \in Nat, Then(c, r, n) PROVE Keeps(c, m') BY <1>5, KeepsThen
<1>6. ASSUME Op(c, 7, {4}), Then(c, SetA(c, Code(c, 1)), 2) PROVE Keeps(c, m')
  BY <1>2, <1>6, KeepsA
<1>7. ASSUME Op(c, 7, {5}), Then(c, Put(c, Place(c), Code(c, 2)), 3) PROVE Keeps(c, m')
  <2>1. Keeps(c, Put(c, Place(c), Code(c, 2))) BY <1>2, <1>7, Opcodes, KeepsPlace DEF Op
  <2> QED BY <1>7, <2>1, <1>5
<1>8. ASSUME Op(c, 7, Ri \cup Rn), Then(c, Put(c, Place(c), Code(c, 1)), 2) PROVE Keeps(c, m')
  <2>1. Keeps(c, Put(c, Place(c), Code(c, 1))) BY <1>2, <1>8, Opcodes, KeepsPlace DEF Op
  <2> QED BY <1>8, <2>1, <1>5
<1>9. ASSUME Op(c, 8, {5}), Then(c, Put(c, Direct(Code(c, 2)), from(5)), 3) PROVE Keeps(c, m')
  <2>1. Keeps(c, Put(c, Direct(Code(c, 2)), from(5))) BY <1>3, <1>9, Opcodes, KeepsDirect2 DEF Op
  <2> QED BY <1>9, <2>1, <1>5
<1>10. ASSUME Op(c, 8, Ri \cup Rn), Then(c, Put(c, Direct(Code(c, 1)), from(Col(c))), 2)
       PROVE Keeps(c, m')
  <2>1. Keeps(c, Put(c, Direct(Code(c, 1)), from(Col(c)))) BY <1>4, <1>10, Opcodes, KeepsDirect DEF Op
  <2> QED BY <1>10, <2>1, <1>5
<1>11. ASSUME Op(c, 10, Ri \cup Rn), Then(c, Put(c, Place(c), from(5)), 2) PROVE Keeps(c, m')
  <2>1. Col(c) # 5 BY <1>11, SMT DEF Op, Ri, Rn
  <2>2. Keeps(c, Put(c, Place(c), from(5))) BY <1>3, <1>11, <2>1, KeepsPlace DEF Op
  <2> QED BY <1>11, <2>2, <1>5
<1>12. ASSUME Op(c, 14, {5} \cup Ri \cup Rn), Then(c, SetA(c, from(Col(c))), Length(c)) PROVE Keeps(c, m')
  BY <1>4, <1>12, LengthTypes, KeepsA DEF Op
<1>13. ASSUME Op(c, 15, {5} \cup Ri \cup Rn), Then(c, Put(c, Place(c), c.a), Length(c)) PROVE Keeps(c, m')
  <2>1. Keeps(c, Put(c, Place(c), c.a)) BY <1>2, <1>13, Opcodes, KeepsPlace DEF Op
  <2> QED BY <1>13, <2>1, <1>5, LengthTypes
<1>14. ASSUME Op(c, 9, {0}), Then(c, SetDptr(c, 256 * Code(c, 1) + Code(c, 2)), 3) PROVE Keeps(c, m')
  <2> DEFINE x == 256 * Code(c, 1) + Code(c, 2)
  <2> DEFINE r == SetDptr(c, x)
  <2>1. x \in Word16 BY <1>2, WordIs
  <2> HIDE DEF x
  <2>2. Keeps(c, r) BY <2>1, SetDptrTypes, KeepsSame
  <2> HIDE DEF r
  <2> QED BY <1>14, <2>2, <1>5 DEF r, x
<1> QED BY <1>1, <1>6, <1>7, <1>8, <1>9, <1>10, <1>11, <1>12, <1>13, <1>14

LEMMA ExchangesKeep == ASSUME NEW c \in Machine, PinsOK, Exchanges(c) PROVE Keeps(c, m')
<1> DEFINE x == Get(c, Place(c))
<1> DEFINE digit(v, low) == 16 * (v \div 16) + (low % 16)
<1> DEFINE p == digit(c.a, x)
<1> DEFINE q == digit(x, c.a)
<1>1. \/ /\ Op(c, 12, {5} \cup Ri \cup Rn)
         /\ Then(c, Put(SetA(c, x), Place(c), c.a), Length(c))
      \/ Op(c, 13, Ri) /\ Then(c, Put(SetA(c, p), Place(c), q), 1)
  BY Zenon DEF Exchanges
<1>2. c.a \in Byte BY DptrTypes
<1>3. Col(c) \in {5} \cup Ri \cup Rn => x \in Byte BY PlaceTypes
<1>4. ASSUME NEW v \in Byte, NEW w \in Byte PROVE 16 * (v \div 16) + (w % 16) \in Byte
  BY SMT DEF Byte
<1>5. x \in Byte => p \in Byte /\ q \in Byte BY <1>2, <1>4
<1> HIDE DEF x, p, q
<1>6. ASSUME NEW v \in Byte, NEW w \in Byte, Col(c) \in {5} \cup Ri \cup Rn,
             Col(c) = 5 => Opcode(c) \in ByteWriters, NEW n \in Nat,
             Then(c, Put(SetA(c, v), Place(c), w), n)
      PROVE Keeps(c, m')
  <2> DEFINE b == SetA(c, v)
  <2>1. b \in Machine /\ b.io = c.io BY SetATypes
  <2> HIDE DEF b
  <2>2. Keeps(c, Put(b, Place(c), w)) BY <1>6, <2>1, KeepsPlace
  <2> QED BY <1>6, <2>2, KeepsThen DEF b
<1>7. ASSUME Op(c, 12, {5} \cup Ri \cup Rn), Then(c, Put(SetA(c, x), Place(c), c.a), Length(c))
      PROVE Keeps(c, m')
  <2>1. Col(c) \in {5} \cup Ri \cup Rn /\ (Col(c) = 5 => Opcode(c) \in ByteWriters)
    BY <1>7, Opcodes DEF Op
  <2> QED BY <1>2, <1>3, <1>6, <1>7, <2>1, LengthTypes
<1>8. ASSUME Op(c, 13, Ri), Then(c, Put(SetA(c, p), Place(c), q), 1) PROVE Keeps(c, m')
  <2>1. Col(c) \in {5} \cup Ri \cup Rn /\ Col(c) # 5 BY <1>8, SMT DEF Op, Ri
  <2> QED BY <1>3, <1>5, <1>6, <1>8, <2>1
<1> QED BY <1>1, <1>7, <1>8

LEMMA StackOpsKeep == ASSUME NEW c \in Machine, PinsOK, StackOps(c) PROVE Keeps(c, m')
<1>1. \/ Opcode(c) = \hC0 /\ Then(c, Push(c, Get(c, Direct(Code(c, 1)))), 2)
      \/ Opcode(c) = \hD0 /\ Then(c, Put(Pop(c), Direct(Code(c, 1)), Top(c)), 2)
  BY Zenon DEF StackOps
<1>2. Code(c, 1) \in Byte BY CodeTypes
<1>3. Direct(Code(c, 1)) \in Places BY <1>2, DirectPlaces
<1>4. Get(c, Direct(Code(c, 1))) \in Byte BY <1>3, GetTypes
<1>5. Keeps(c, Push(c, Get(c, Direct(Code(c, 1))))) BY <1>4, PushTypes, KeepsSame
<1>6. Pop(c) \in Machine /\ Pop(c).io = c.io /\ Top(c) \in Byte BY PopTypes
<1>7. Opcode(c) = \hD0 => Keeps(c, Put(Pop(c), Direct(Code(c, 1)), Top(c)))
  <2>1. Opcode(c) = \hD0 => Opcode(c) \in ByteWriters BY SMT DEF ByteWriters
  <2> QED BY <1>6, <2>1, KeepsDirect
<1> QED BY <1>1, <1>5, <1>7, KeepsThen

LEMMA ExternalKeeps == ASSUME NEW c \in Machine, PinsOK, External(c) PROVE Keeps(c, m')
<1> DEFINE place == IF Col(c) = 0 THEN Dptr(c) ELSE 256 * Latch(c, P2) + Get(c, R(c, Col(c) - 2))
<1> DEFINE code(x) == RomByte(c.bank * 65536 + (x % 65536))
<1>1. \/ Op(c, 14, {0, 2, 3}) /\ Then(c, SetA(c, c.xdata[place]), 1)
      \/ Op(c, 15, {0, 2, 3}) /\ Then(c, XWrite(c, place, c.a), 1)
      \/ Then(c, SetA(c, code(Dptr(c) + c.a)), 1)
      \/ Then(c, SetA(c, code(c.pc + 1 + c.a)), 1)
  BY DEF External
<1>2. Col(c) \in {0, 2, 3} => place \in Word16
  <2>1. CASE Col(c) = 0 BY <2>1, DptrTypes
  <2>2. CASE Col(c) = 2 \/ Col(c) = 3
    <3> DEFINE n == Col(c) - 2
    <3>1. n \in 0..7 /\ Col(c) # 0 BY <2>2, SMT
    <3> HIDE DEF n
    <3>2. R(c, n) \in Places BY <3>1, RegisterPlaces DEF Places
    <3>3. Get(c, R(c, n)) \in Byte BY <3>2, GetTypes
    <3>4. P2 \in IoSfrs BY SMT DEF P2, IoSfrs, ACC, B, DPL, DPH, PSW, SP, IP, IE
    <3>5. c.io \in [IoSfrs -> Byte] BY Zenon DEF Machine
    <3>6. Latch(c, P2) \in Byte BY <3>4, <3>5 DEF Latch
    <3>7. 256 * Latch(c, P2) + Get(c, R(c, n)) \in Word16 BY <3>3, <3>6, WordIs
    <3> QED BY <3>1, <3>7 DEF n
  <2> QED BY <2>1, <2>2
<1>3. Code(c, 0) \in Byte /\ c.a \in Byte BY CodeTypes, DptrTypes
<1>4. c.bank \in {0, 1} BY Zenon DEF Machine
<1>5. ASSUME NEW x \in Int PROVE code(x) \in Byte
  <2> DEFINE y == x % 65536
  <2>1. y \in Word16 BY WordMod
  <2> HIDE DEF y
  <2>2. y \in Nat BY <2>1, WordNat
  <2> DEFINE z == c.bank * 65536 + y
  <2>3. c.bank = 0 \/ c.bank = 1 BY <1>4
  <2>4. z \in Nat BY <2>2, <2>3, SMT
  <2> HIDE DEF z
  <2>5. RomByte(z) \in Byte BY <2>4, RomTypes
  <2> QED BY <2>5 DEF z, y
<1>6. Dptr(c) + c.a \in Int /\ c.pc + 1 + c.a \in Int
  <2>1. Dptr(c) \in Int /\ c.pc \in Int BY DptrTypes, CodeTypes, WordNat
  <2>2. c.a \in Int BY <1>3, SMT DEF Byte
  <2> QED BY <2>1, <2>2
<1> DEFINE u == code(Dptr(c) + c.a)
<1> DEFINE v == code(c.pc + 1 + c.a)
<1>7. u \in Byte /\ v \in Byte BY <1>5, <1>6
<1>8. c.xdata \in [Word16 -> Byte] BY Zenon DEF Machine
<1> HIDE DEF place, u, v, code
<1>9. Col(c) \in {0, 2, 3} => c.xdata[place] \in Byte BY <1>2, <1>8
<1>10. Col(c) \in {0, 2, 3} => Keeps(c, XWrite(c, place, c.a)) BY <1>2, <1>3, XWriteTypes, KeepsSame
<1> QED BY <1>1, <1>7, <1>9, <1>10, KeepsA, KeepsThen DEF Op, u, v

LEMMA CountsKeep == ASSUME NEW c \in Machine, PinsOK, Counts(c) PROVE Keeps(c, m')
<1> DEFINE step == IF Row(c) = 0 THEN 1 ELSE -1
<1> DEFINE v == (c.a + step) % 256
<1> DEFINE w == (Get(c, Place(c)) + step) % 256
<1> DEFINE x == (Dptr(c) + 1) % 65536
<1>1. \/ Then(c, SetA(c, v), 1)
      \/ /\ Row(c) \in {0, 1} /\ Col(c) >= 5
         /\ Then(c, Put(c, Place(c), w), Length(c))
      \/ Then(c, SetDptr(c, x), 1)
  BY DEF Counts
<1>2. step \in Int OBVIOUS
<1> HIDE DEF step
<1>3. ASSUME NEW b \in Byte PROVE (b + step) % 256 \in Byte BY <1>2, SMT DEF Byte
<1>4. v \in Byte BY <1>3, DptrTypes
<1>5. Col(c) >= 5 => w \in Byte BY <1>3, PlaceTypes, Columns
<1>6. x \in Word16 
  <2>1. Dptr(c) \in Int BY DptrTypes, WordNat
  <2> DEFINE y == Dptr(c) + 1
  <2>2. y \in Int BY <2>1
  <2> HIDE DEF y
  <2>3. y % 65536 \in Word16 BY <2>2, WordMod
  <2> QED BY <2>3 DEF y
<1> HIDE DEF v, w, x
<1>7. Then(c, SetA(c, v), 1) => Keeps(c, m') BY <1>4, KeepsA
<1>8. Keeps(c, SetDptr(c, x)) BY <1>6, SetDptrTypes, KeepsSame
<1>9. Row(c) \in {0, 1} /\ Col(c) >= 5 => Keeps(c, Put(c, Place(c), w))
  BY <1>5, Columns, Opcodes, KeepsPlace
<1> QED BY <1>1, <1>7, <1>8, <1>9, LengthTypes, KeepsThen

LEMMA SumsKeep == ASSUME NEW c \in Machine, PinsOK, Sums(c) PROVE Keeps(c, m')
<1> DEFINE y == IF Col(c) = 4 THEN Code(c, 1) ELSE Get(c, Place(c))
<1> DEFINE with == Row(c) = 3 /\ C \in c.psw
<1> DEFINE borrow == C \in c.psw
<1> DEFINE sum == AddWithCarry(c.a, y, with)
<1> DEFINE diff == SubWithBorrow(c.a, y, borrow)
<1>1. /\ Col(c) >= 4
      /\ \/ Then(c, SetFlag(SetFlag(SetFlag(SetA(c, sum.v), C, sum.c), OV, sum.ov), AC, sum.ac), Length(c))
         \/ Then(c, SetFlag(SetA(c, diff.v), C, diff.c), Length(c))
  BY Zenon DEF Sums
<1>2. y \in Byte
  <2>1. CASE Col(c) = 4 BY <2>1, CodeTypes
  <2>2. CASE Col(c) # 4
    <3>1. Col(c) >= 5 BY <1>1, <2>2, CodeTypes, SMT
    <3> QED BY <3>1, <2>2, Columns, PlaceTypes
  <2> QED BY <2>1, <2>2
<1>3. c.a \in Byte /\ with \in BOOLEAN /\ borrow \in BOOLEAN BY DptrTypes
<1> HIDE DEF y, with, borrow
<1>4. sum.v \in Byte /\ diff.v \in Byte BY <1>2, <1>3, SumTypes
<1>5. C \in 0..7 /\ OV \in 0..7 /\ AC \in 0..7 BY SMT DEF C, OV, AC
<1> DEFINE p == sum.v
<1> DEFINE q == sum.c
<1> DEFINE s == sum.ov
<1> DEFINE t == sum.ac
<1> DEFINE r1 == SetFlag(SetA(c, p), C, q)
<1> DEFINE r2 == SetFlag(r1, OV, s)
<1> DEFINE r3 == SetFlag(r2, AC, t)
<1> DEFINE u == diff.v
<1> DEFINE w == diff.c
<1>6. Then(c, r3, Length(c)) \/ Then(c, SetFlag(SetA(c, u), C, w), Length(c)) BY <1>1
<1>7. p \in Byte /\ u \in Byte BY <1>4
<1> HIDE DEF sum, diff, p, q, s, t, u, w
<1>8. r1 \in Machine /\ r1.io = c.io BY <1>5, <1>7, SetATypes, SetFlagTypes
<1> HIDE DEF r1
<1>9. r2 \in Machine /\ r2.io = c.io BY <1>5, <1>8, SetFlagTypes
<1> HIDE DEF r2
<1>10. r3 \in Machine /\ r3.io = c.io BY <1>5, <1>9, SetFlagTypes
<1> HIDE DEF r3
<1> QED BY <1>5, <1>6, <1>7, <1>10, LengthTypes, KeepsSame, KeepsThen, KeepsAFlag

LEMMA ProductsKeep == ASSUME NEW c \in Machine, Products(c) PROVE Keeps(c, m')
<1> DEFINE carry == C \in c.psw
<1> DEFINE half == AC \in c.psw
<1> DEFINE bcd == DecimalAdjust(c.a, carry, half)
<1> DEFINE product(x) ==
      Then(c, SetFlag(SetFlag([SetA(c, x.a) EXCEPT !.b = x.b], C, FALSE), OV, x.ov), 1)
<1> DEFINE mul == MulAb(c.a, c.b)
<1> DEFINE div == DivAb(c.a, c.b)
<1>1. \/ product(mul) \/ product(div)
      \/ Then(c, SetFlag(SetFlag(SetA(c, bcd.v), C, bcd.c), AC, bcd.ac), 1)
  BY Zenon DEF Products
<1>2. c.a \in Byte /\ c.b \in Byte BY Zenon DEF Machine
<1>3. carry \in BOOLEAN /\ half \in BOOLEAN OBVIOUS
<1>4. C \in 0..7 /\ OV \in 0..7 /\ AC \in 0..7 BY SMT DEF C, OV, AC
<1>5. mul.a \in Byte /\ mul.b \in Byte BY <1>2, MulTypes
<1>6. div.a \in Byte /\ div.b \in Byte BY <1>2, DivTypes
<1> HIDE DEF carry, half, mul, div
<1>7. bcd.v \in Byte BY <1>2, <1>3, DecimalTypes
<1>8. ASSUME NEW x, x.a \in Byte, x.b \in Byte, product(x) PROVE Keeps(c, m')
  <2> DEFINE p == x.a
  <2> DEFINE q == x.b
  <2> DEFINE s == x.ov
  <2> DEFINE off == FALSE
  <2> DEFINE r1 == SetA(c, p)
  <2> DEFINE r2 == [r1 EXCEPT !.b = q]
  <2> DEFINE r3 == SetFlag(r2, C, off)
  <2> DEFINE r4 == SetFlag(r3, OV, s)
  <2>1. Then(c, r4, 1) /\ p \in Byte /\ q \in Byte BY <1>8
  <2> HIDE DEF p, q, s, off
  <2>2. r1 \in Machine /\ r1.io = c.io BY <2>1, SetATypes
  <2> HIDE DEF r1
  <2>3. r2 \in Machine /\ r2.io = c.io BY <2>1, <2>2, SetBTypes
  <2> HIDE DEF r2
  <2>4. r3 \in Machine /\ r3.io = c.io BY <1>4, <2>3, SetFlagTypes
  <2> HIDE DEF r3
  <2>5. r4 \in Machine /\ r4.io = c.io BY <1>4, <2>4, SetFlagTypes
  <2> HIDE DEF r4
  <2> QED BY <2>1, <2>5, KeepsSame, KeepsThen
<1>9. ASSUME Then(c, SetFlag(SetFlag(SetA(c, bcd.v), C, bcd.c), AC, bcd.ac), 1) PROVE Keeps(c, m')
  <2> DEFINE p == bcd.v
  <2> DEFINE q == bcd.c
  <2> DEFINE s == bcd.ac
  <2> DEFINE r1 == SetA(c, p)
  <2> DEFINE r2 == SetFlag(r1, C, q)
  <2> DEFINE r3 == SetFlag(r2, AC, s)
  <2>1. Then(c, r3, 1) /\ p \in Byte BY <1>7, <1>9
  <2> HIDE DEF p, q, s
  <2>2. r1 \in Machine /\ r1.io = c.io BY <2>1, SetATypes
  <2> HIDE DEF r1
  <2>3. r2 \in Machine /\ r2.io = c.io BY <1>4, <2>2, SetFlagTypes
  <2> HIDE DEF r2
  <2>4. r3 \in Machine /\ r3.io = c.io BY <1>4, <2>3, SetFlagTypes
  <2> HIDE DEF r3
  <2> QED BY <2>1, <2>4, KeepsSame, KeepsThen
<1> HIDE DEF product, bcd
<1> QED BY <1>1, <1>5, <1>6, <1>8, <1>9 DEF bcd

LEMMA RotationsKeep == ASSUME NEW c \in Machine, Rotations(c) PROVE Keeps(c, m')
<1> DEFINE carry == C \in c.psw
<1> DEFINE through(x) == Then(c, SetFlag(SetA(c, x.v), C, x.c), 1)
<1> DEFINE left == Rlc8(c.a, carry)
<1> DEFINE right == Rrc8(c.a, carry)
<1> DEFINE not == 255 - c.a
<1>1. \/ through(left) \/ through(right)
      \/ Then(c, SetA(c, Rl8(c.a)), 1) \/ Then(c, SetA(c, Rr8(c.a)), 1)
      \/ Then(c, SetA(c, SwapNibbles(c.a)), 1)
      \/ Then(c, SetA(c, 0), 1) \/ Then(c, SetA(c, not), 1)
  BY Zenon DEF Rotations
<1>2. c.a \in Byte /\ carry \in BOOLEAN BY DptrTypes
<1>3. C \in 0..7 /\ 0 \in Byte BY SMT DEF C, Byte
<1> HIDE DEF carry
<1>4. /\ Rl8(c.a) \in Byte /\ Rr8(c.a) \in Byte /\ SwapNibbles(c.a) \in Byte
      /\ left.v \in Byte /\ right.v \in Byte
  BY <1>2, RotateTypes
<1>5. not \in Byte BY <1>2, ByteSteps
<1> HIDE DEF left, right, not
<1>6. ASSUME NEW x, x.v \in Byte, through(x) PROVE Keeps(c, m')
  <2> DEFINE v == x.v
  <2> DEFINE on == x.c
  <2>1. Then(c, SetFlag(SetA(c, v), C, on), 1) /\ v \in Byte BY <1>6
  <2> HIDE DEF v, on
  <2> QED BY <1>3, <2>1, KeepsAFlag
<1> HIDE DEF through
<1>7. ASSUME NEW v \in Byte, Then(c, SetA(c, v), 1) PROVE Keeps(c, m') BY <1>7, KeepsA
<1> QED BY <1>1, <1>3, <1>4, <1>5, <1>6, <1>7

LEMMA LogicKeeps == ASSUME NEW c \in Machine, PinsOK, Logic(c) PROVE Keeps(c, m')
<1> DEFINE op(x, y) == CASE Row(c) = 4 -> Or(x, y) [] Row(c) = 5 -> And(x, y) [] Row(c) = 6 -> Xor(x, y)
<1> DEFINE y == IF Col(c) = 4 THEN Code(c, 1) ELSE GetLatched(c, Place(c))
<1> DEFINE place == Direct(Code(c, 1))
<1>1. /\ Row(c) \in {4, 5, 6}
      /\ \/ Col(c) >= 4 /\ Then(c, SetA(c, op(c.a, y)), Length(c))
         \/ Col(c) = 2 /\ Then(c, Put(c, place, op(Get(c, place), c.a)), 2)
         \/ Col(c) = 3 /\ Then(c, Put(c, place, op(Get(c, place), Code(c, 2))), 3)
  BY Zenon DEF Logic
<1>2. c.a \in Byte /\ Code(c, 1) \in Byte /\ Code(c, 2) \in Byte BY DptrTypes, CodeTypes
<1>3. ASSUME NEW x \in Byte, NEW z \in Byte PROVE op(x, z) \in Byte
  <2>1. And(x, z) \in Byte /\ Or(x, z) \in Byte /\ Xor(x, z) \in Byte BY LogicTypes
  <2>2. CASE Row(c) = 4 BY <2>1, <2>2, SMT
  <2>3. CASE Row(c) = 5 BY <2>1, <2>3, SMT
  <2>4. CASE Row(c) = 6 BY <2>1, <2>4, SMT
  <2> QED BY <1>1, <2>2, <2>3, <2>4
<1>4. Get(c, place) \in Byte BY <1>2, DirectPlaces, GetTypes
<1>5. Col(c) >= 4 => y \in Byte
  <2>1. Col(c) >= 4 => Col(c) = 4 \/ Col(c) >= 5 BY CodeTypes, SMT
  <2> QED BY <1>2, <2>1, Columns, PlaceTypes
<1>6. Col(c) \in {2, 3} => Opcode(c) \in ByteWriters BY <1>1, Opcodes
<1> DEFINE u == op(c.a, y)
<1> DEFINE v == op(Get(c, place), c.a)
<1> DEFINE w == op(Get(c, place), Code(c, 2))
<1>7. (Col(c) >= 4 => u \in Byte) /\ v \in Byte /\ w \in Byte BY <1>2, <1>3, <1>4, <1>5
<1>8. \/ Col(c) >= 4 /\ Then(c, SetA(c, u), Length(c))
      \/ Col(c) = 2 /\ Then(c, Put(c, place, v), 2)
      \/ Col(c) = 3 /\ Then(c, Put(c, place, w), 3)
  BY <1>1
<1> HIDE DEF op, y, u, v, w
<1>9. ASSUME NEW x \in Byte, Opcode(c) \in ByteWriters PROVE Keeps(c, Put(c, place, x))
  BY <1>9, KeepsDirect
<1> HIDE DEF place
<1> QED BY <1>6, <1>7, <1>8, <1>9, LengthTypes, KeepsA, KeepsThen

LEMMA KeepsPutBit == ASSUME NEW c \in Machine, NEW on, PinsOK, Opcode(c) \in BitWriters
                     PROVE Keeps(c, PutBit(c, Code(c, 1), on))
<1> DEFINE bit == Code(c, 1)
<1> DEFINE place == ByteOfBit(bit)
<1> DEFINE old == Get(c, place)
<1> DEFINE r == PutBit(c, bit, on)
<1>1. bit \in Byte BY CodeTypes
<1>2. place \in Places BY <1>1, BitPlaces
<1>3. old \in Byte BY <1>2, GetTypes
<1>4. r = Put(c, ByteOfBit(bit), ByteOf(With(BitsOf(old), bit % 8, on))) BY DEF PutBit
<1>5. ASSUME TCON = bit - (bit % 8) PROVE old = c.io[TCON]
  <2>1. bit >= 128 BY <1>1, <1>5, SMT DEF TCON, Byte
  <2>2. place = <<"sfr", bit - (bit % 8)>> BY <1>1, <2>1, BitPlaces
  <2>3. place = <<"sfr", TCON>> BY <2>2, <1>5
  <2> HIDE DEF place
  <2>4. place[1] # "ram" /\ place[2] = TCON BY <2>3, RegisterFacts
  <2>5. old = Sfr(c, TCON) BY <2>4 DEF Get
  <2>6. Sfr(c, TCON) = c.io[TCON]
    BY SMT DEF Sfr, TCON, ACC, B, DPL, DPH, PSW, SP, IP, IE, P1, P3
  <2> QED BY <2>5, <2>6
<1> HIDE DEF old, r
<1>6. /\ r \in Machine /\ Elsewhere(c, r, bit - (bit % 8))
      /\ \A y \in IoSfrs : (y = bit - (bit % 8) /\ old = c.io[y]) => BitSet(c, r, y, bit % 8, on)
  BY <1>1, <1>3, <1>4, PutBitTypes
<1>7. TCON = bit - (bit % 8) => BitSet(c, r, TCON, bit % 8, on) BY <1>5, <1>6, TconIsIo
<1>8. Keeps(c, r) BY <1>6, <1>7, KeepsBit
<1> QED BY <1>8 DEF r

LEMMA BitMovesKeep == ASSUME NEW c \in Machine, PinsOK, BitMoves(c) PROVE Keeps(c, m')
<1> DEFINE on == GetBitLatched(c, Code(c, 1))
<1> DEFINE carry == C \in c.psw
<1>1. \/ Then(c, SetFlag(c, C, on), 2)
      \/ Opcode(c) = \h92 /\ Then(c, PutBit(c, Code(c, 1), carry), 2)
  BY Zenon DEF BitMoves
<1>2. C \in 0..7 BY SMT DEF C
<1> HIDE DEF on, carry
<1>3. Then(c, SetFlag(c, C, on), 2) => Keeps(c, m') BY <1>2, KeepsFlag
<1>4. Opcode(c) = \h92 => Keeps(c, PutBit(c, Code(c, 1), carry))
  BY KeepsPutBit, SMT DEF BitWriters
<1> QED BY <1>1, <1>3, <1>4, KeepsThen

LEMMA CarryLogicKeeps == ASSUME NEW c \in Machine, CarryLogic(c) PROVE Keeps(c, m')
<1> DEFINE on == GetBitLatched(c, Code(c, 1))
<1> DEFINE carry == C \in c.psw
<1> DEFINE p == carry /\ on
<1> DEFINE q == carry /\ ~on
<1> DEFINE s == carry \/ on
<1> DEFINE t == carry \/ ~on
<1>1. \/ Then(c, SetFlag(c, C, p), 2) \/ Then(c, SetFlag(c, C, q), 2)
      \/ Then(c, SetFlag(c, C, s), 2) \/ Then(c, SetFlag(c, C, t), 2)
  BY Zenon DEF CarryLogic
<1>2. C \in 0..7 BY SMT DEF C
<1> HIDE DEF p, q, s, t
<1> QED BY <1>1, <1>2, KeepsFlag

LEMMA BitSetsKeep == ASSUME NEW c \in Machine, PinsOK, BitSets(c) PROVE Keeps(c, m')
<1> DEFINE set == Row(c) = 13
<1> DEFINE other == C \notin c.psw
<1> DEFINE turned == ~GetBit(c, Code(c, 1))
<1>1. \/ Then(c, SetFlag(c, C, set), 1) \/ Then(c, SetFlag(c, C, other), 1)
      \/ Opcode(c) \in {\hC2, \hD2} /\ Then(c, PutBitLatched(c, Code(c, 1), set), 2)
      \/ Opcode(c) = \hB2 /\ Then(c, PutBitLatched(c, Code(c, 1), turned), 2)
  BY Zenon DEF BitSets
<1>2. C \in 0..7 BY SMT DEF C
<1> HIDE DEF set, other, turned
<1>3. Opcode(c) \in {\hC2, \hD2} \/ Opcode(c) = \hB2 => Opcode(c) \in BitWriters
  BY SMT DEF BitWriters
<1>4. ASSUME Opcode(c) \in BitWriters, NEW on PROVE Keeps(c, PutBitLatched(c, Code(c, 1), on))
  BY <1>4, KeepsPutBitLatched
<1>5. Then(c, SetFlag(c, C, set), 1) => Keeps(c, m') BY <1>2, KeepsFlag
<1>6. Then(c, SetFlag(c, C, other), 1) => Keeps(c, m') BY <1>2, KeepsFlag
<1> QED BY <1>1, <1>3, <1>4, <1>5, <1>6, KeepsThen

LEMMA NothingKeeps == ASSUME NEW c \in Machine, Nothing(c) PROVE Keeps(c, m')
  BY KeepsSame, KeepsThen DEF Nothing

LEMMA DispatchKeeps == ASSUME NEW c \in Machine, PinsOK, Dispatch(c) PROVE Keeps(c, m')
  BY JumpsKeep, ReturnsKeep, BranchesKeep, LoopsKeep, ComparesKeep, MovesKeep, ExchangesKeep,
     StackOpsKeep, ExternalKeeps, CountsKeep, SumsKeep, ProductsKeep, RotationsKeep, LogicKeeps,
     BitMovesKeep, CarryLogicKeeps, BitSetsKeep, NothingKeeps, Zenon
  DEF Dispatch

(***************************************************************************)
(* The poll for interrupts.                                                *)
(***************************************************************************)
\* One register of input and output written.
SetIo(c, x, v) == [c EXCEPT !.io[x] = v]
LEMMA IoTypes == ASSUME NEW c \in Machine, NEW x \in IoSfrs, NEW v \in Byte
                 PROVE /\ SetIo(c, x, v) \in Machine /\ Elsewhere(c, SetIo(c, x, v), x)
                       /\ SetIo(c, x, v).io[x] = v /\ SetIo(c, x, v).int = c.int
<1> DEFINE i == [c.io EXCEPT ![x] = v]
<1> DEFINE r == SetIo(c, x, v)
<1>1. c.io \in [IoSfrs -> Byte] BY Zenon DEF Machine
<1>2. i \in [IoSfrs -> Byte] /\ i[x] = v /\ \A y \in IoSfrs : y # x => i[y] = c.io[y] BY <1>1
<1>3. r = [c EXCEPT !.io = i] BY Zenon DEF Machine, SetIo
<1> HIDE DEF i, r
<1>4. r \in Machine /\ r.io = i /\ r.int = c.int BY <1>2, <1>3, Zenon DEF Machine
<1>5. r \in Machine /\ Elsewhere(c, r, x) /\ r.io[x] = v /\ r.int = c.int
  BY <1>2, <1>4 DEF Elsewhere
<1> QED BY <1>5 DEF r

LEMMA IoBits == ASSUME NEW c \in Machine, NEW x \in IoSfrs, NEW bits \in SUBSET (0..7), NEW r,
                       r = SetIo(c, x, ByteOf(bits))
                PROVE /\ r \in Machine /\ Elsewhere(c, r, x) /\ r.int = c.int
                      /\ BitsOf(r.io[x]) = bits
<1>1. ByteOf(bits) \in Byte /\ BitsOf(ByteOf(bits)) = bits BY ByteOfType, BitsOfByteOf
<1> QED BY <1>1, IoTypes
LEMMA IoByte == ASSUME NEW c \in Machine, NEW x \in IoSfrs
                PROVE c.io[x] \in Byte /\ BitsOf(c.io[x]) \in SUBSET (0..7)
<1>1. c.io \in [IoSfrs -> Byte] BY Zenon DEF Machine
<1> QED BY <1>1, BitsOfType

LEMMA ClearTypes == ASSUME NEW c \in Machine, NEW flags
                    PROVE /\ Clear(c, flags) \in Machine /\ Clear(c, flags).int = c.int
                          /\ Elsewhere(c, Clear(c, flags), TCON)
                          /\ BitsOf(Clear(c, flags).io[TCON]) = BitsOf(c.io[TCON]) \ flags
<1> DEFINE bits == BitsOf(c.io[TCON]) \ flags
<1>1. bits \in SUBSET (0..7) BY IoByte, TconIsIo
<1>2. Clear(c, flags) = SetIo(c, TCON, ByteOf(bits)) BY Zenon DEF Clear, SetIo
<1> DEFINE r == Clear(c, flags)
<1> HIDE DEF bits, r
<1>3. r = SetIo(c, TCON, ByteOf(bits)) BY <1>2 DEF r
<1>4. /\ r \in Machine /\ Elsewhere(c, r, TCON) /\ r.int = c.int
      /\ BitsOf(r.io[TCON]) = bits
  BY <1>1, <1>3, TconIsIo, IoBits
<1> QED BY <1>4 DEF r, bits

LEMMA Sources == /\ DOMAIN Timer = {"timer0", "timer1"} /\ Timer["timer0"] = 0 /\ Timer["timer1"] = 1
                 /\ DOMAIN IeBit = {"serial", "timer0", "timer1", "ext0", "ext1"}
                 /\ \A i \in 1..5 : Order[i] \in DOMAIN IeBit
                 /\ \A s \in DOMAIN IeBit : Vector[s] \in Byte
<1>1. DOMAIN Timer = {"timer0", "timer1"} /\ Timer["timer0"] = 0 /\ Timer["timer1"] = 1
  BY DEF Timer
<1>2. DOMAIN IeBit = {"serial", "timer0", "timer1", "ext0", "ext1"} BY DEF IeBit
<1>3. ASSUME NEW i \in 1..5 PROVE Order[i] \in {"serial", "timer0", "timer1", "ext0", "ext1"}
  <2>1. i = 1 \/ i = 2 \/ i = 3 \/ i = 4 \/ i = 5 BY SMT
  <2> QED BY <2>1, SMT DEF Order
<1>4. Vector["serial"] \in Byte /\ Vector["timer0"] \in Byte /\ Vector["timer1"] \in Byte
      /\ Vector["ext0"] \in Byte /\ Vector["ext1"] \in Byte
  BY SMT DEF Vector, Byte
<1> QED BY <1>1, <1>2, <1>3, <1>4, Zenon
LEMMA ByteInWord == ASSUME NEW v \in Byte PROVE v \in Word16
<1>1. v \in Int /\ v >= 0 /\ v <= 65535 BY SMT DEF Byte
<1> QED BY <1>1, InWord

LEMMA FirstExists == ASSUME NEW S \in SUBSET (1..5), S # {} PROVE Min(S) \in S
<1>1. ASSUME NEW x \in S, \A y \in S : x <= y PROVE Min(S) \in S BY <1>1 DEF Min
<1>2. \E x \in S : \A y \in S : x <= y
  <2>1. CASE 1 \in S BY <2>1, SMT
  <2>2. CASE 1 \notin S /\ 2 \in S BY <2>2, SMT
  <2>3. CASE 1 \notin S /\ 2 \notin S /\ 3 \in S BY <2>3, SMT
  <2>4. CASE 1 \notin S /\ 2 \notin S /\ 3 \notin S /\ 4 \in S BY <2>4, SMT
  <2>5. CASE 1 \notin S /\ 2 \notin S /\ 3 \notin S /\ 4 \notin S
    <3>1. \A y \in S : y = 5 BY <2>5, SMT
    <3>2. PICK y \in S : TRUE OBVIOUS
    <3>3. 5 \in S BY <3>1, <3>2
    <3> QED BY <3>1, <3>3, SMT
  <2> QED BY <2>1, <2>2, <2>3, <2>4, <2>5
<1> QED BY <1>1, <1>2

\* Taking the interrupt of s leaves all requests but that of s.
LEMMA RaiseTypes == ASSUME NEW c \in Machine, NEW s \in DOMAIN IeBit
                    PROVE /\ Raise(c, s) \in Machine /\ Raise(c, s).int = s
                          /\ Elsewhere(c, Raise(c, s), TCON)
                          /\ BitsOf(Raise(c, s).io[TCON])
                               = BitsOf(c.io[TCON]) \ {TF(Timer[t]) : t \in DOMAIN Timer \cap {s}}
<1> DEFINE pushed == PushPc(c, c.pc)
<1> DEFINE x == Vector[s]
<1> DEFINE r == [pushed EXCEPT !.int = s, !.pc = x]
<1>1. pushed \in Machine /\ pushed.io = c.io BY CodeTypes, PushPcTypes
<1>2. x \in Word16 BY Sources, ByteInWord
<1>3. s \in DOMAIN IeBit \cup {"none"} OBVIOUS
<1>4. Raise(c, s) = IF s \in DOMAIN Timer THEN Clear(r, {TF(Timer[s])}) ELSE r BY DEF Raise
<1> HIDE DEF pushed, x
<1>5. r \in Machine /\ r.io = pushed.io /\ r.int = s BY <1>1, <1>2, <1>3, Zenon DEF Machine
<1> HIDE DEF r
<1>6. r.io = c.io BY <1>1, <1>5
<1>7. CASE s \in DOMAIN Timer
  <2>1. {TF(Timer[t]) : t \in DOMAIN Timer \cap {s}} = {TF(Timer[s])} BY <1>7, Zenon
  <2> DEFINE flags == {TF(Timer[s])}
  <2>2. Raise(c, s) = Clear(r, flags) BY <1>7, <1>4
  <2> HIDE DEF flags
  <2>3. /\ Raise(c, s) \in Machine /\ Raise(c, s).int = s /\ Elsewhere(c, Raise(c, s), TCON)
        /\ BitsOf(Raise(c, s).io[TCON]) = BitsOf(c.io[TCON]) \ flags
    BY <2>2, <1>5, <1>6, ClearTypes DEF Elsewhere
  <2> QED BY <2>3, <2>1 DEF flags
<1>8. CASE s \notin DOMAIN Timer
  <2>1. {TF(Timer[t]) : t \in DOMAIN Timer \cap {s}} = {} BY <1>8, Zenon
  <2>2. Raise(c, s) = r BY <1>8, <1>4
  <2> QED BY <2>1, <2>2, <1>5, <1>6 DEF Elsewhere
<1> QED BY <1>7, <1>8

\* The poll leaves all registers but TCON, and of TCON all but the request it answers.
LEMMA PollTypes == ASSUME NEW c \in Machine
                   PROVE /\ Poll(c) \in Machine /\ Elsewhere(c, Poll(c), TCON)
                         /\ \A t \in {0, 1} :
                              \/ TF(t) \in BitsOf(c.io[TCON]) => TF(t) \in BitsOf(Poll(c).io[TCON])
                              \/ c.int = "none" /\ Poll(c).int \in DOMAIN Timer /\ Timer[Poll(c).int] = t
<1>1. CASE Wanted(c) = {} \/ c.int # "none"
  <2>1. Poll(c) = c BY <1>1 DEF Poll
  <2> QED BY <2>1 DEF Elsewhere
<1>2. CASE ~(Wanted(c) = {} \/ c.int # "none")
  <2> DEFINE s == Order[Min(Wanted(c))]
  <2>1. Wanted(c) \in SUBSET (1..5) BY DEF Wanted
  <2>2. Min(Wanted(c)) \in 1..5 BY <1>2, <2>1, FirstExists
  <2>3. s \in DOMAIN IeBit BY <2>2, Sources
  <2>4. Poll(c) = Raise(c, s) BY <1>2 DEF Poll
  <2> HIDE DEF s
  <2> DEFINE r == Raise(c, s)
  <2>5. /\ r \in Machine /\ r.int = s /\ Elsewhere(c, r, TCON)
        /\ BitsOf(r.io[TCON]) = BitsOf(c.io[TCON]) \ {TF(Timer[t]) : t \in DOMAIN Timer \cap {s}}
    BY <2>3, RaiseTypes
  <2> HIDE DEF r
  <2>6. ASSUME NEW t \in {0, 1}, TF(t) \in BitsOf(c.io[TCON]), TF(t) \notin BitsOf(r.io[TCON])
        PROVE s \in DOMAIN Timer /\ Timer[s] = t
    <3>1. PICK u \in DOMAIN Timer \cap {s} : TF(t) = TF(Timer[u]) BY <2>5, <2>6, Zenon
    <3>2. Timer[u] \in {0, 1} BY <3>1, Sources
    <3>3. ASSUME NEW x \in {0, 1}, NEW y \in {0, 1}, TF(x) = TF(y) PROVE x = y
      BY <3>3, SMT DEF TF
    <3> QED BY <3>1, <3>2, <3>3
  <2>7. r = Poll(c) BY <2>4 DEF r
  <2> QED BY <2>5, <2>6, <2>7, <1>2
<1> QED BY <1>1, <1>2

(***************************************************************************)
(* The tick.                                                               *)
(***************************************************************************)
\* The tick makes of c the machine r: of TCON, it only sets bits.
Ticked(c, r) == /\ r \in Machine /\ r.int = c.int
                /\ BitsOf(c.io[TCON]) \subseteq BitsOf(r.io[TCON])

LEMMA TickedTwice == ASSUME NEW c, NEW d, NEW e, Ticked(c, d), Ticked(d, e) PROVE Ticked(c, e)
  BY Zenon DEF Ticked
LEMMA IoTicks == ASSUME NEW c \in Machine, NEW x \in IoSfrs, x # TCON, NEW v \in Byte
                 PROVE Ticked(c, SetIo(c, x, v))
<1> DEFINE r == SetIo(c, x, v)
<1>1. r \in Machine /\ Elsewhere(c, r, x) /\ r.int = c.int BY IoTypes
<1> HIDE DEF r
<1>2. r.io[TCON] = c.io[TCON] BY <1>1, TconIsIo DEF Elsewhere
<1>3. Ticked(c, r) BY <1>1, <1>2 DEF Ticked
<1> QED BY <1>3 DEF r
LEMMA TimerRegisters == ASSUME NEW t \in {0, 1}
                        PROVE /\ TL(t) \in IoSfrs /\ TH(t) \in IoSfrs /\ TL(t) # TCON /\ TH(t) # TCON
                              /\ TF(t) \in 0..7
  BY SMT DEF TL, TH, TF, TCON, IoSfrs, ACC, B, DPL, DPH, PSW, SP, IP, IE
LEMMA OverflowTicks == ASSUME NEW c \in Machine, NEW t \in {0, 1} PROVE Ticked(c, Overflow(c, t))
<1> DEFINE bits == BitsOf(c.io[TCON]) \cup {TF(t)}
<1> DEFINE r == Overflow(c, t)
<1>1. bits \in SUBSET (0..7) BY IoByte, TconIsIo, TimerRegisters
<1>2. r = SetIo(c, TCON, ByteOf(bits)) BY Zenon DEF Overflow, SetIo
<1>3. BitsOf(c.io[TCON]) \subseteq bits OBVIOUS
<1> HIDE DEF bits, r
<1>4. r \in Machine /\ r.int = c.int /\ BitsOf(r.io[TCON]) = bits
  BY <1>1, <1>2, TconIsIo, IoBits
<1>5. Ticked(c, r) BY <1>3, <1>4 DEF Ticked
<1> QED BY <1>5 DEF r

LEMMA CountedTicks == ASSUME NEW c \in Machine, NEW t \in {0, 1} PROVE Ticked(c, Counted(c, t))
<1> DEFINE low == Incremented(c.io[TL(t)])
<1> DEFINE high == IF low = 0 THEN Incremented(c.io[TH(t)]) ELSE c.io[TH(t)]
<1> DEFINE h == c.io[TH(t)]
<1> DEFINE once == SetIo(c, TL(t), low)
<1> DEFINE wide == SetIo(once, TH(t), high)
<1> DEFINE reloaded == SetIo(c, TL(t), h)
<1>1. h \in Byte /\ low \in Byte /\ Incremented(h) \in Byte
  BY IoByte, TimerRegisters, ByteSteps DEF Incremented
<1>2. high \in Byte BY <1>1
<1>3. [c EXCEPT !.io[TL(t)] = low, !.io[TH(t)] = high] = wide BY Zenon DEF SetIo
<1>4. Counted(c, t) =
        CASE Mode(c, t) = 1 -> IF low = 0 /\ high = 0
                               THEN Overflow([c EXCEPT !.io[TL(t)] = low, !.io[TH(t)] = high], t)
                               ELSE [c EXCEPT !.io[TL(t)] = low, !.io[TH(t)] = high]
          [] Mode(c, t) = 2 -> IF low = 0 THEN Overflow([c EXCEPT !.io[TL(t)] = h], t)
                               ELSE [c EXCEPT !.io[TL(t)] = low]
          [] OTHER -> c
  BY Zenon DEF Counted
<1>11. [c EXCEPT !.io[TL(t)] = h] = reloaded /\ [c EXCEPT !.io[TL(t)] = low] = once BY DEF SetIo
<1>5. Ticked(c, c) BY DEF Ticked
<1>6. Ticked(c, once) /\ Ticked(c, reloaded)
  <2> HIDE DEF low, h
  <2> QED BY <1>1, TimerRegisters, IoTicks
<1> HIDE DEF once, reloaded, low, high, h
<1>7. Ticked(once, wide) BY <1>2, <1>6, TimerRegisters, IoTicks DEF Ticked
<1> HIDE DEF wide
<1>8. Ticked(c, wide) BY <1>6, <1>7, TickedTwice
<1>9. Ticked(c, Overflow(wide, t))
  <2>1. wide \in Machine BY <1>8 DEF Ticked
  <2>2. Ticked(wide, Overflow(wide, t)) BY <2>1, OverflowTicks
  <2> QED BY <1>8, <2>2, TickedTwice
<1>10. Ticked(c, Overflow(reloaded, t))
  <2>1. reloaded \in Machine BY <1>6 DEF Ticked
  <2>2. Ticked(reloaded, Overflow(reloaded, t)) BY <2>1, OverflowTicks
  <2> QED BY <1>6, <2>2, TickedTwice
<1>12. CASE Mode(c, t) = 1 BY <1>12, <1>3, <1>4, <1>8, <1>9
<1>13. CASE Mode(c, t) = 2 BY <1>13, <1>4, <1>11, <1>6, <1>10
<1>14. CASE Mode(c, t) # 1 /\ Mode(c, t) # 2 BY <1>14, <1>4, <1>5
<1> QED BY <1>12, <1>13, <1>14

LEMMA TimersTick == ASSUME NEW c \in Machine, NEW seen PROVE Ticked(c, Timers(c, seen))
<1> DEFINE c0 == IF Ticks(c, 0, seen) THEN Counted(c, 0) ELSE c
<1>1. Ticked(c, c) BY DEF Ticked
<1>2. Ticked(c, c0)
  <2>1. Ticked(c, Counted(c, 0)) BY CountedTicks
  <2> QED BY <2>1, <1>1
<1>3. Timers(c, seen) = IF Ticks(c, 1, seen) THEN Counted(c0, 1) ELSE c0 BY Zenon DEF Timers
<1> HIDE DEF c0
<1>4. c0 \in Machine BY <1>2 DEF Ticked
<1>5. Ticked(c0, Counted(c0, 1)) BY <1>4, CountedTicks
<1>6. Ticked(c, Counted(c0, 1)) BY <1>2, <1>5, TickedTwice
<1> QED BY <1>2, <1>3, <1>6
LEMMA ReceivedTicks == ASSUME NEW c \in Machine PROVE Ticked(c, Received(c))
<1> DEFINE bits == BitsOf(c.io[SCON]) \cup {RI}
<1> DEFINE r == Received(c)
<1>0. SCON \in IoSfrs /\ RI \in 0..7 /\ SCON # TCON
  BY SMT DEF SCON, TCON, RI, IoSfrs, ACC, B, DPL, DPH, PSW, SP, IP, IE
<1>1. ByteOf(bits) \in Byte BY <1>0, IoByte, ByteOfType
<1>2. r = SetIo(c, SCON, ByteOf(bits)) BY Zenon DEF Received, SetIo
<1> HIDE DEF bits, r
<1>3. Ticked(c, r) BY <1>0, <1>1, <1>2, IoTicks
<1> QED BY <1>3 DEF r

LEMMA TickKeeps == ASSUME m \in Machine, PinsOK, prevP3 \in SUBSET (0..7), Tick
                   PROVE /\ Ticked(m, m') /\ p3' \in SUBSET (0..7) /\ prevP3' \in SUBSET (0..7)
<1>1. PICK byte \in BOOLEAN, high \in BOOLEAN, pulse \in BOOLEAN :
        /\ p3' = With(With(p3, INT(1), high), T(0), pulse)
        /\ prevP3' = Seen(m, With(With(p3, INT(1), high), T(0), pulse))
        /\ m' = Timers(IF byte THEN Received(m) ELSE m, Seen(m, With(With(p3, INT(1), high), T(0), pulse)))
  BY Zenon DEF Tick
<1>2. INT(1) \in 0..7 /\ T(0) \in 0..7 BY SMT DEF INT, T
<1>3. p3' \in SUBSET (0..7)
  <2>1. With(p3, INT(1), high) \in SUBSET (0..7) BY <1>2, WithType DEF PinsOK
  <2> QED BY <2>1, <1>1, <1>2, WithType
<1>4. prevP3' \in SUBSET (0..7)
  <2>1. prevP3' = p3' \/ prevP3' = prevP3 BY <1>1, Zenon DEF Seen
  <2> QED BY <2>1, <1>3
<1>5. Ticked(m, m')
  <2> DEFINE c == IF byte THEN Received(m) ELSE m
  <2> DEFINE q == m'
  <2>1. Ticked(m, m) BY DEF Ticked
  <2>2. Ticked(m, c) BY <2>1, ReceivedTicks
  <2>3. q = Timers(c, prevP3') BY <1>1
  <2> HIDE DEF c, q
  <2>4. c \in Machine BY <2>2 DEF Ticked
  <2>5. Ticked(c, q) BY <2>3, <2>4, TimersTick
  <2>6. Ticked(m, q) BY <2>2, <2>5, TickedTwice
  <2> QED BY <2>6 DEF q
<1> QED BY <1>3, <1>4, <1>5

(***************************************************************************)
(* The processor stays in its types.                                       *)
(***************************************************************************)
LEMMA SomeMachine == ASSUME NEW c \in Machine PROVE c # <<>>
<1>1. "pc" \in DOMAIN c BY DEF Machine
<1>2. "pc" \notin DOMAIN <<>> BY SMT
<1> QED BY <1>1, <1>2, Zenon
LEMMA TypeOKParts == ASSUME Whole
                     PROVE TypeOK <=> /\ phase \in {"step", "tick"} /\ PinsOK
                                      /\ prevP3 \in SUBSET (0..7) /\ events \in 0..MaxEvents
                                      /\ m \in Machine /\ (saved = <<>> <=> m.int = "none")
  BY MachineIsCpus DEF TypeOK, PinsOK

LEMMA InitTypes == Whole /\ Init => TypeOK
<1> SUFFICES ASSUME Whole, Init PROVE TypeOK OBVIOUS
<1>1. phase \in {"step", "tick"} /\ PinsOK /\ prevP3 \in SUBSET (0..7) BY DEF Init, PinsOK
<1>2. events \in 0..MaxEvents BY CpuAssumption DEF Init
<1>3. m \in Machine /\ m.int = "none"
  <2> DEFINE ram == [i \in Ram |-> 0]
  <2> DEFINE io == [i \in IoSfrs |-> IF i \in {P1, P2, P3} THEN 255 ELSE 0]
  <2>1. PICK x \in XDatas :
          m = [pc |-> 0, a |-> 0, b |-> 0, dpl |-> 0, dph |-> 0, psw |-> {}, sp |-> 7,
               ip |-> 0, ie |-> {}, ram |-> ram, int |-> "none", io |-> io, xdata |-> x, bank |-> 0]
    BY Zenon DEF Init
  <2>2. 0 \in Byte /\ 255 \in Byte /\ 7 \in Byte BY SMT DEF Byte
  <2>3. 0 \in Word16 BY <2>2, ByteInWord
  <2>4. ram \in [Byte -> Byte] BY <2>2 DEF Whole
  <2>5. io \in [IoSfrs -> Byte] BY <2>2
  <2>6. x \in [Word16 -> Byte] BY DEF Whole
  <2> HIDE DEF ram, io
  <2> QED BY <2>1, <2>2, <2>3, <2>4, <2>5, <2>6, Zenon DEF Machine
<1>4. saved = <<>> BY DEF Init
<1> QED BY <1>1, <1>2, <1>3, <1>4, TypeOKParts

LEMMA StepTypes == ASSUME Whole, TypeOK, Step PROVE TypeOK' /\ \E c \in {Poll(m)} : Keeps(c, m')
<1>1. /\ PinsOK /\ prevP3 \in SUBSET (0..7) /\ events \in 0..MaxEvents
      /\ m \in Machine /\ (saved = <<>> <=> m.int = "none")
  BY TypeOKParts
<1> DEFINE c == Poll(m)
<1>2. c \in Machine BY <1>1, PollTypes
<1>3. Dispatch(c) BY DEF Step
<1>4. Keeps(c, m') BY <1>1, <1>2, <1>3, DispatchKeeps
<1>5. m' \in Machine BY <1>4 DEF Keeps
<1>6. phase' = "tick" /\ PinsOK' /\ prevP3' \in SUBSET (0..7) /\ events' \in 0..MaxEvents
  BY <1>1 DEF Step, PinsOK
<1>7. saved' = <<>> <=> m'.int = "none"
  <2>1. saved' = IF m'.int = "none" THEN <<>> ELSE IF m.int = "none" THEN m ELSE saved BY DEF Step
  <2>2. m # <<>> BY <1>1, SomeMachine
  <2> QED BY <1>1, <2>1, <2>2, Zenon
<1>8. TypeOK' BY <1>5, <1>6, <1>7, MachineIsCpus DEF TypeOK, PinsOK, Whole
<1> QED BY <1>8, <1>4

LEMMA TickTypes == ASSUME Whole, TypeOK, Tick PROVE TypeOK' /\ Ticked(m, m')
<1>1. /\ PinsOK /\ prevP3 \in SUBSET (0..7) /\ events \in 0..MaxEvents
      /\ m \in Machine /\ (saved = <<>> <=> m.int = "none")
  BY TypeOKParts
<1>2. Ticked(m, m') /\ p3' \in SUBSET (0..7) /\ prevP3' \in SUBSET (0..7) BY <1>1, TickKeeps
<1>3. m' \in Machine /\ m'.int = m.int BY <1>2 DEF Ticked
<1>4. events' \in 0..MaxEvents
  <2>1. PICK byte \in BOOLEAN, high \in BOOLEAN, pulse \in BOOLEAN :
          /\ events' = events + One(byte)
                 + Cardinality({INT(1)} \cap (p3 \ With(With(p3, INT(1), high), T(0), pulse)))
                 + One(pulse # (T(0) \in p3))
          /\ events' <= MaxEvents
    BY Zenon DEF Tick
  <2> DEFINE fallen == {INT(1)} \cap (p3 \ With(With(p3, INT(1), high), T(0), pulse))
  <2> DEFINE moved == pulse # (T(0) \in p3)
  <2>2. fallen = {} \/ fallen = {INT(1)} BY Zenon
  <2> HIDE DEF fallen, moved
  <2>3. Cardinality(fallen) \in {0, 1} BY <2>2, FS_EmptySet, FS_Singleton
  <2>4. One(byte) \in {0, 1} /\ One(moved) \in {0, 1} BY DEF One
  <2>5. events' = events + One(byte) + Cardinality(fallen) + One(moved) BY <2>1 DEF fallen, moved
  <2> DEFINE n == Cardinality(fallen)
  <2> DEFINE i == One(byte)
  <2> DEFINE j == One(moved)
  <2> HIDE DEF n, i, j
  <2>6. events' = events + i + n + j BY <2>5 DEF n, i, j
  <2>7. n \in {0, 1} /\ i \in {0, 1} /\ j \in {0, 1} BY <2>3, <2>4 DEF n, i, j
  <2> QED BY <1>1, <2>1, <2>6, <2>7, CpuAssumption, SMT
<1>5. phase' \in {"step", "tick"} /\ saved' = saved BY DEF Tick
<1>6. TypeOK' BY <1>1, <1>2, <1>3, <1>4, <1>5, MachineIsCpus DEF TypeOK, Whole
<1> QED BY <1>2, <1>6

LEMMA StaysTyped == ASSUME Whole, TypeOK, [Next]_vars PROVE TypeOK'
<1>1. CASE Step BY <1>1, StepTypes
<1>2. CASE Tick BY <1>2, TickTypes
<1>3. CASE UNCHANGED vars
  BY <1>3 DEF vars, TypeOK
<1> QED BY <1>1, <1>2, <1>3 DEF Next

\* The processor, whatever program and whatever memory it is given: its registers, its memories
\* and its registers of input and output hold bytes, its program counter sixteen bits, after any
\* instruction of op.c, any interrupt of cpu.c and any tick of peripheral.c, and an interrupted
\* machine is remembered exactly while a handler runs.
THEOREM CpuTypeCorrect == ASSUME Whole PROVE Spec => []TypeOK
<1>1. Init => TypeOK BY InitTypes
<1>2. TypeOK /\ [Next]_vars => TypeOK' BY StaysTyped
<1> QED BY <1>1, <1>2, PTL DEF Spec

(***************************************************************************)
(* Requests and latches.                                                   *)
(***************************************************************************)
LEMMA TimerRequests == ASSUME NEW s \in DOMAIN Timer
                       PROVE /\ Requested(m, s) <=> TF(Timer[s]) \in BitsOf(m.io[TCON])
                             /\ Requested(m, s)' <=> TF(Timer[s]) \in BitsOf(m'.io[TCON])
                             /\ Timer[s] \in {0, 1}
                             /\ \A u \in DOMAIN Timer : Timer[u] = Timer[s] => u = s
<1>1. s # "serial" /\ s # "ext0" /\ s # "ext1" BY Sources
<1>2. Requested(m, s) <=> TF(Timer[s]) \in BitsOf(m.io[TCON]) BY <1>1, Zenon DEF Requested
<1>3. Requested(m, s)' <=> TF(Timer[s]) \in BitsOf(m'.io[TCON]) BY <1>1, Zenon DEF Requested
<1>4. Timer[s] \in {0, 1} /\ \A u \in DOMAIN Timer : Timer[u] = Timer[s] => u = s
  BY Sources
<1> QED BY <1>2, <1>3, <1>4

\* What RequestsAreKept says of one step and one timer.
KeptStep(s) == (Requested(m, s) /\ ~Requested(m, s)') =>
                 /\ phase = "step"
                 /\ \/ m.int = "none" /\ Poll(m).int = s
                    \/ Writes(Poll(m), TCON, TF(Timer[s]))

LEMMA RequestsStay == ASSUME Whole, TypeOK, Next, NEW s \in DOMAIN Timer PROVE KeptStep(s)
<1> DEFINE t == Timer[s]
<1>0. m \in Machine BY TypeOKParts
<1>1. t \in {0, 1} BY TimerRequests
<1>2. CASE Tick
  <2>1. Ticked(m, m') BY <1>2, TickTypes
  <2> QED BY <2>1, TimerRequests DEF KeptStep, Ticked
<1>3. CASE Step
  <2> DEFINE c == Poll(m)
  <2>1. phase = "step" BY <1>3 DEF Step
  <2>2. Keeps(c, m') BY <1>3, StepTypes
  <2> HIDE DEF t
  <2>3. \/ TF(t) \in BitsOf(m.io[TCON]) => TF(t) \in BitsOf(c.io[TCON])
        \/ m.int = "none" /\ c.int \in DOMAIN Timer /\ Timer[c.int] = t
    BY <1>0, <1>1, PollTypes
  <2>4. TF(t) \in BitsOf(c.io[TCON]) => TF(t) \in BitsOf(m'.io[TCON]) \/ Writes(c, TCON, TF(t))
    BY <1>1, <2>2 DEF Keeps
  <2>5. Requested(m, s) <=> TF(t) \in BitsOf(m.io[TCON]) BY TimerRequests DEF t
  <2>6. Requested(m, s)' <=> TF(t) \in BitsOf(m'.io[TCON]) BY TimerRequests DEF t
  <2>7. c.int \in DOMAIN Timer /\ Timer[c.int] = t => c.int = s BY TimerRequests DEF t
  <2> HIDE DEF c
  <2>8. (m.int = "none" /\ c.int = s) \/ Writes(c, TCON, TF(t)) \/ ~Requested(m, s) \/ Requested(m, s)'
    BY <2>3, <2>4, <2>5, <2>6, <2>7, Zenon
  <2> QED BY <2>1, <2>8, Zenon DEF KeptStep, c, t
<1> QED BY <1>2, <1>3 DEF Next

\* The request a timer makes by overflowing is not lost: over any program and any memory, no
\* instruction, no interrupt of another source and no tick takes it back, only the taking of its
\* own interrupt and a write of the program to TCON or to the bit.
THEOREM RequestsKept == ASSUME Whole PROVE Spec => RequestsAreKept
<1>1. Init => TypeOK BY InitTypes
<1>2. TypeOK /\ [Next]_vars => TypeOK' BY StaysTyped
<1>3. TypeOK /\ [Next]_vars => [\A s \in DOMAIN Timer :
         (Requested(m, s) /\ ~Requested(m, s)') =>
            /\ phase = "step"
            /\ \/ m.int = "none" /\ Poll(m).int = s
               \/ Writes(Poll(m), TCON, TF(Timer[s]))]_vars
  BY RequestsStay, Zenon DEF KeptStep
<1> QED BY <1>1, <1>2, <1>3, PTL DEF Spec, RequestsAreKept

\* Of the instructions only these touch a bit through the latch.
LatchOpcodes == {\h10, \hB2, \hC2, \hD2}
LEMMA LatchRows == ASSUME NEW c \in Machine, Opcode(c) \in LatchOpcodes
                   PROVE /\ Col(c) # 1 /\ Col(c) # 3 /\ Col(c) # 4 /\ Col(c) # 5
                         /\ Col(c) \notin Ri /\ Col(c) \notin Rn /\ ~(Col(c) >= 4) /\ ~(Col(c) >= 5)
                         /\ Row(c) # 4 /\ Row(c) # 5 /\ Row(c) # 6 /\ Row(c) # 7 /\ Row(c) # 8
                         /\ Row(c) # 9 /\ Row(c) # 10 /\ Row(c) # 14 /\ Row(c) # 15
<1>1. Opcode(c) = 16 * Row(c) + Col(c) /\ Row(c) \in 0..15 /\ Col(c) \in 0..15 BY CodeTypes
<1>2. Col(c) \in {0, 2} /\ Row(c) \in {1, 11, 12, 13} BY <1>1, SMT DEF LatchOpcodes
<1> QED BY <1>2, SMT DEF Ri, Rn
LEMMA LatchInstructions == ASSUME NEW c \in Machine, Opcode(c) \in LatchOpcodes, Dispatch(c)
                           PROVE Branches(c) \/ BitSets(c)
<1>1. ~Jumps(c) /\ ~Returns(c)
  <2>1. /\ Opcode(c) # \h02 /\ Opcode(c) # \h12 /\ Opcode(c) # \h80 /\ Opcode(c) # \h73
        /\ Opcode(c) # \h22 /\ Opcode(c) # \h32
    BY SMT DEF LatchOpcodes
  <2> QED BY <2>1, LatchRows, Zenon DEF Jumps, Returns
<1>2. ~Loops(c) /\ ~Compares(c) /\ ~Exchanges(c)
  <2> QED BY LatchRows, Zenon DEF Loops, Compares, Exchanges, Op
<1>3. ~Moves(c)
  <2> QED BY LatchRows, Zenon DEF Moves, Op
<1>4. ~StackOps(c) /\ ~External(c)
  <2>1. Opcode(c) # \hC0 /\ Opcode(c) # \hD0 /\ Opcode(c) # \h93 /\ Opcode(c) # \h83
    BY SMT DEF LatchOpcodes
  <2>2. ~Op(c, 14, {0, 2, 3}) /\ ~Op(c, 15, {0, 2, 3}) BY LatchRows, Zenon DEF Op
  <2>3. ~StackOps(c) BY <2>1, Zenon DEF StackOps
  <2>4. ~External(c)
    <3>1. External(c) => Op(c, 14, {0, 2, 3}) \/ Op(c, 15, {0, 2, 3}) \/ Opcode(c) = \h93 \/ Opcode(c) = \h83
      BY SMT DEF External
    <3> QED BY <3>1, <2>1, <2>2, Zenon
  <2> QED BY <2>3, <2>4
<1>5. ~Counts(c) /\ ~Sums(c) /\ ~Products(c)
  <2>1. Opcode(c) # \hA3 /\ Opcode(c) # \hA4 /\ Opcode(c) # \h84 /\ Opcode(c) # \hD4
    BY SMT DEF LatchOpcodes
  <2>2. ~Counts(c)
    <3>1. Counts(c) => Col(c) = 4 \/ Col(c) >= 5 \/ Opcode(c) = \hA3 BY DEF Counts
    <3>2. ~(Col(c) >= 5) /\ Col(c) # 4 BY LatchRows
    <3> QED BY <3>1, <3>2, <2>1, Zenon
  <2>3. ~Sums(c) BY LatchRows, Zenon DEF Sums
  <2>4. ~Products(c)
    <3>1. Products(c) => Opcode(c) = \hA4 \/ Opcode(c) = \h84 \/ Opcode(c) = \hD4 BY Zenon DEF Products
    <3> QED BY <3>1, <2>1, Zenon
  <2> QED BY <2>2, <2>3, <2>4
<1>6. ~Rotations(c) /\ ~Logic(c)
  <2>1. /\ Opcode(c) # \h33 /\ Opcode(c) # \h13 /\ Opcode(c) # \h23 /\ Opcode(c) # \h03
        /\ Opcode(c) # \hC4 /\ Opcode(c) # \hE4 /\ Opcode(c) # \hF4
    BY SMT DEF LatchOpcodes
  <2> QED BY <2>1, LatchRows, Zenon DEF Rotations, Logic
<1>7. ~BitMoves(c) /\ ~CarryLogic(c) /\ ~Nothing(c)
  <2>1. /\ Opcode(c) # \hA2 /\ Opcode(c) # \h92 /\ Opcode(c) # \h82 /\ Opcode(c) # \hB0
        /\ Opcode(c) # \h72 /\ Opcode(c) # \hA0 /\ Opcode(c) # \h00 /\ Opcode(c) # \hA5
    BY SMT DEF LatchOpcodes
  <2> QED BY <2>1, Zenon DEF BitMoves, CarryLogic, Nothing
<1> QED BY <1>1, <1>2, <1>3, <1>4, <1>5, <1>6, <1>7, Zenon DEF Dispatch

\* Of every port r has the latch of c, or that with one bit changed.
OneBit(c, r) == \A x \in Ports : \/ r.io[x] = c.io[x]
                                 \/ \E i \in 0..7 : \E on \in BOOLEAN : BitSet(c, r, x, i, on)
LEMMA PortsAreIo == \A x \in Ports : x \in IoSfrs /\ x # TCON
  BY SMT DEF Ports, TCON, IoSfrs, P0, P1, P2, P3, ACC, B, DPL, DPH, PSW, SP, IP, IE
LEMMA BitIsOne == ASSUME NEW c \in Machine, NEW on \in BOOLEAN, PinsOK
                  PROVE OneBit(c, PutBitLatched(c, Code(c, 1), on))
<1> DEFINE bit == Code(c, 1)
<1> DEFINE r == PutBitLatched(c, bit, on)
<1> DEFINE i == bit % 8
<1>1. bit \in Byte BY CodeTypes
<1>2. i \in 0..7 BY <1>1, SMT DEF Byte
<1>3. /\ Elsewhere(c, r, bit - i)
      /\ \A y \in IoSfrs : y = bit - i => BitSet(c, r, y, i, on)
  <2> HIDE DEF bit
  <2> QED BY <1>1, PutBitLatchedTypes
<1> HIDE DEF bit, r, i
<1>4. OneBit(c, r) BY <1>2, <1>3, PortsAreIo DEF OneBit, Elsewhere
<1> QED BY <1>4 DEF r, bit
LEMMA FlagsAreNotLatches == ASSUME NEW c \in Machine, NEW on PROVE OneBit(c, SetFlag(c, C, on))
<1>1. C \in 0..7 BY SMT DEF C
<1> QED BY <1>1, SetFlagTypes DEF OneBit

LEMMA LatchStep == ASSUME NEW c \in Machine, PinsOK, Opcode(c) \in LatchOpcodes, Dispatch(c)
                   PROVE OneBit(c, m')
<1>1. CASE BitSets(c)
  <2> DEFINE set == Row(c) = 13
  <2> DEFINE turned == ~GetBit(c, Code(c, 1))
  <2> DEFINE other == C \notin c.psw
  <2>1. \/ Then(c, SetFlag(c, C, set), 1) \/ Then(c, SetFlag(c, C, other), 1)
        \/ Then(c, PutBitLatched(c, Code(c, 1), set), 2)
        \/ Then(c, PutBitLatched(c, Code(c, 1), turned), 2)
    BY <1>1, Zenon DEF BitSets
  <2>2. set \in BOOLEAN /\ turned \in BOOLEAN OBVIOUS
  <2> HIDE DEF set, turned, other
  <2>3. /\ OneBit(c, SetFlag(c, C, set)) /\ OneBit(c, SetFlag(c, C, other))
        /\ OneBit(c, PutBitLatched(c, Code(c, 1), set)) /\ OneBit(c, PutBitLatched(c, Code(c, 1), turned))
    BY <2>2, BitIsOne, FlagsAreNotLatches
  <2>4. /\ SetFlag(c, C, set) \in Machine /\ SetFlag(c, C, other) \in Machine
        /\ PutBitLatched(c, Code(c, 1), set) \in Machine /\ PutBitLatched(c, Code(c, 1), turned) \in Machine
    <3>1. C \in 0..7 /\ Code(c, 1) \in Byte BY CodeTypes, SMT DEF C
    <3> QED BY <3>1, SetFlagTypes, PutBitLatchedTypes
  <2>5. ASSUME NEW r \in Machine, NEW n, OneBit(c, r), Then(c, r, n) PROVE OneBit(c, m')
    <3>1. m'.io = r.io BY <2>5, Zenon DEF Then, Machine
    <3> QED BY <3>1, <2>5 DEF OneBit, BitSet
  <2> QED BY <2>1, <2>3, <2>4, <2>5
<1>2. CASE Branches(c)
  <2> DEFINE on == GetBitLatched(c, Code(c, 1))
  <2> DEFINE off == FALSE
  <2> DEFINE r == IF on THEN PutBitLatched(c, Code(c, 1), off) ELSE c
  <2>1. /\ Opcode(c) # \h40 /\ Opcode(c) # \h50 /\ Opcode(c) # \h60 /\ Opcode(c) # \h70
        /\ Opcode(c) # \h20 /\ Opcode(c) # \h30
    BY SMT DEF LatchOpcodes
  <2>2. BranchIf(c, on, r, 3) BY <2>1, <1>2, Zenon DEF Branches
  <2>3. off \in BOOLEAN OBVIOUS
  <2> HIDE DEF on, off
  <2>4. OneBit(c, c) BY DEF OneBit
  <2>5. OneBit(c, r) BY <2>3, <2>4, BitIsOne
  <2>6. r \in Machine BY CodeTypes, PutBitLatchedTypes
  <2> HIDE DEF r
  <2>7. m'.io = r.io BY <2>2, <2>6, Zenon DEF BranchIf, Machine
  <2> QED BY <2>5, <2>7 DEF OneBit, BitSet
<1> QED BY <1>1, <1>2, LatchInstructions

\* What PortLatchKept says of one step.
LatchesStep == (phase = "step" /\ Opcode(Poll(m)) \in {\h10, \hB2, \hC2, \hD2}) =>
                 \A x \in Ports : Cardinality(BitsOf(m'.io[x]) \ BitsOf(m.io[x]))
                                   + Cardinality(BitsOf(m.io[x]) \ BitsOf(m'.io[x])) <= 1

LEMMA LatchesStay == ASSUME Whole, TypeOK, Next PROVE LatchesStep
<1> SUFFICES ASSUME phase = "step", Opcode(Poll(m)) \in {\h10, \hB2, \hC2, \hD2}, NEW x \in Ports
             PROVE Cardinality(BitsOf(m'.io[x]) \ BitsOf(m.io[x]))
                     + Cardinality(BitsOf(m.io[x]) \ BitsOf(m'.io[x])) <= 1
  BY DEF LatchesStep
<1> DEFINE c == Poll(m)
<1> DEFINE old == BitsOf(m.io[x])
<1> DEFINE new == BitsOf(m'.io[x])
<1>1. m \in Machine /\ PinsOK BY TypeOKParts
<1>2. c \in Machine /\ Elsewhere(m, c, TCON) BY <1>1, PollTypes
<1>3. c.io[x] = m.io[x] BY <1>2, PortsAreIo DEF Elsewhere
<1>4. Dispatch(c) BY DEF Next, Step, Tick
<1>5. OneBit(c, m') BY <1>1, <1>2, <1>4, LatchStep DEF LatchOpcodes
<1>6. new = old \/ \E i \in 0..7 : \E on \in BOOLEAN : new = With(old, i, on)
  BY <1>3, <1>5 DEF OneBit, BitSet
<1> HIDE DEF c, old, new
<1>7. PICK i : (new \ old = {} \/ new \ old = {i}) /\ (old \ new = {} \/ old \ new = {i})
               /\ (new \ old = {} \/ old \ new = {})
  <2>1. CASE new = old BY <2>1
  <2>2. CASE new # old
    <3>1. PICK i \in 0..7 : \E on \in BOOLEAN : new = With(old, i, on) BY <1>6, <2>2
    <3>2. PICK on \in BOOLEAN : new = With(old, i, on) BY <3>1
    <3>3. new = old \cup {i} \/ new = old \ {i} BY <3>2, Zenon DEF With
    <3>4. CASE new = old \cup {i}
      <4>1. old \ new = {} BY <3>4
      <4>2. new \ old = {} \/ new \ old = {i} BY <3>4
      <4> QED BY <4>1, <4>2
    <3>5. CASE new = old \ {i}
      <4>1. new \ old = {} BY <3>5
      <4>2. old \ new = {} \/ old \ new = {i} BY <3>5
      <4> QED BY <4>1, <4>2
    <3> QED BY <3>3, <3>4, <3>5
  <2> QED BY <2>1, <2>2
<1>8. Cardinality(new \ old) + Cardinality(old \ new) <= 1
  <2>1. Cardinality({}) = 0 /\ Cardinality({i}) = 1 BY FS_EmptySet, FS_Singleton
  <2>2. \/ Cardinality(new \ old) = 0 /\ Cardinality(old \ new) = 0
        \/ Cardinality(new \ old) = 1 /\ Cardinality(old \ new) = 0
        \/ Cardinality(new \ old) = 0 /\ Cardinality(old \ new) = 1
    BY <1>7, <2>1, Zenon
  <2> QED BY <2>2, SMT
<1> QED BY <1>8 DEF old, new

\* The latches of the ports: over any program, any memory and whatever the pins read, SETB, CLR,
\* CPL and JBC of a bit change in no port's latch more than one bit.
THEOREM LatchesKept == ASSUME Whole PROVE Spec => PortLatchKept
<1>1. Init => TypeOK BY InitTypes
<1>2. TypeOK /\ [Next]_vars => TypeOK' BY StaysTyped
<1>3. TypeOK /\ [Next]_vars =>
        [(phase = "step" /\ Opcode(Poll(m)) \in {\h10, \hB2, \hC2, \hD2}) =>
           \A x \in Ports : Cardinality(BitsOf(m'.io[x]) \ BitsOf(m.io[x]))
                             + Cardinality(BitsOf(m.io[x]) \ BitsOf(m'.io[x])) <= 1]_vars
  BY LatchesStay, Zenon DEF LatchesStep
<1> QED BY <1>1, <1>2, <1>3, PTL DEF Spec, PortLatchKept
=============================================================================
