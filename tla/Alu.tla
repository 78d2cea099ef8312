---------------------------------- MODULE Alu ----------------------------------
(***************************************************************************)
(* The arithmetic of the 8051 (i8051/op.c), on bytes.  A byte whose bits   *)
(* are of interest -- a status register, an operand of AND -- is the set   *)
(* of its one bits.                                                        *)
(***************************************************************************)
EXTENDS Integers, FiniteSets, FiniteSetsExt

Byte == 0..255
Word16 == 0..65535

BitsOfByte == [v \in Byte |-> {i \in 0..7 : (v \div 2^i) % 2 = 1}]
BitsOf(v) == BitsOfByte[v]
ByteOf(bits) == LET weight(i) == IF i \in bits THEN 2^i ELSE 0
                IN weight(0) + weight(1) + weight(2) + weight(3)
                   + weight(4) + weight(5) + weight(6) + weight(7)

And(x, y) == ByteOf(BitsOf(x) \cap BitsOf(y))
Or(x, y)  == ByteOf(BitsOf(x) \cup BitsOf(y))
Xor(x, y) == Or(x, y) - And(x, y)

\* A set of bits with one of them set or reset.
With(bits, i, on) == IF on THEN bits \cup {i} ELSE bits \ {i}

One(flag) == IF flag THEN 1 ELSE 0
Signed(v) == IF v < 128 THEN v ELSE v - 256
OddParity(v) == Cardinality(BitsOf(v)) % 2 = 1

\* OV is that of operands read as unsigned, as the code has it.
AddWithCarry(x, y, c) ==
  LET sum == x + y + One(c) IN
  [v |-> sum % 256, c |-> sum > 255, ov |-> sum > 127,
   ac |-> (x % 16) + (y % 16) + One(c) > 15]

SubIgnoringBorrow(x, y, c) == [v |-> (x - y) % 256, c |-> x < y]
SubWithBorrow(x, y, c) ==
  LET diff == x - y - One(c) IN [v |-> diff % 256, c |-> diff < 0]

DecimalAdjust(x, c, ac) ==
  LET low == x % 16 > 9 \/ ac
      x1  == IF low THEN (x + 6) % 256 ELSE x
      c1  == c \/ x1 < x
      high == x1 \div 16 > 9 \/ c1
      x2  == IF high THEN (x1 + 96) % 256 ELSE x1
  IN [v |-> x2, c |-> c1 \/ x2 < x1, ac |-> low /\ (x % 16) + 6 > 15]

\* The accumulator, B and OV that MUL and DIV leave; both clear C.
MulAb(x, y) == [a |-> (x * y) % 256, b |-> (x * y) \div 256, ov |-> x * y > 255]
DivAb(x, y) == IF y = 0 THEN [a |-> 0, b |-> 0, ov |-> TRUE]
               ELSE [a |-> x \div y, b |-> x % y, ov |-> FALSE]

\* Rotations, through the carry or not, and the exchange of the nibbles.
Rl8(x) == ((2 * x) % 256) + (x \div 128)
Rr8(x) == (x \div 2) + 128 * (x % 2)
Rlc8(x, c) == [v |-> ((2 * x) % 256) + One(c), c |-> x \div 128 = 1]
Rrc8(x, c) == [v |-> (x \div 2) + 128 * One(c), c |-> x % 2 = 1]
SwapNibbles(x) == 16 * (x % 16) + (x \div 16)
=============================================================================
