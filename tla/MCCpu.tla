--------------------------------- MODULE MCCpu ---------------------------------
(***************************************************************************)
(* A small firmware for the processor, in both banks of its ROM: it        *)
(* computes with two bytes of external memory, moves bits of a port,       *)
(* switches banks and runs both timers, while the keyboard, the DUART and  *)
(* timer 0 interrupt it wherever it is.                                    *)
(***************************************************************************)
EXTENDS Cpu

Segments == {
  [at |-> \h0000, code |-> <<\h02, \h01, \h25>>],   \* LJMP main
  [at |-> \h0003, code |-> <<\h32>>],   \* RETI (external 0: its pin never falls)
  [at |-> \h000B, code |-> <<\h02, \h01, \h00>>],   \* LJMP tick
  [at |-> \h0013, code |-> <<\h02, \h01, \h12>>],   \* LJMP duart
  [at |-> \h001B, code |-> <<\h32>>],   \* RETI
  [at |-> \h0023, code |-> <<\hC2, \h98, \hD2, \h00, \h32>>],   \* CLR RI; SETB 20h.0; RETI
  [at |-> \h0100, code |-> <<
    \hC0, \hE0, \hC0, \hD0, \hD2, \hD3, \hE8,   \* tick: PUSH ACC; PUSH PSW; SETB RS0; MOV A,R0
    \h23, \h44, \h01, \h54, \h03, \hF8,   \* RL A; ORL A,#1; ANL A,#3; MOV R0,A  1, then 3
    \hD0, \hD0, \hD0, \hE0, \h32,   \* POP PSW; POP ACC; RETI
    \hC0, \hD0, \hC0, \hE0, \h75, \hD0, \h10,   \* duart: PUSH PSW; PUSH ACC; MOV PSW,#10h
    \h79, \h25, \h74, \h99, \h29, \hD4, \hF9,   \* MOV R1,#25h; MOV A,#99h; ADD A,R1; DA A; MOV R1,A
    \hD0, \hE0, \hD0, \hD0, \h32,   \* POP ACC; POP PSW; RETI
    \h75, \h81, \h60, \h75, \h98, \h50,   \* main: MOV SP,#60h; MOV SCON,#50h  receive
    \h75, \hA8, \h96, \h90, \h7E, \h00,   \* MOV IE,#96h  EA, ES, EX1, ET0; MOV DPTR,#7E00h
    \hE0, \hFA, \hA3, \hE0,   \* MOVX A,@DPTR; MOV R2,A; INC DPTR; MOVX A,@DPTR
    \hFB, \hEA, \h2B, \hD4,   \* MOV R3,A; MOV A,R2; ADD A,R3; DA A
    \hF5, \h30, \hE4, \h33,   \* MOV 30h,A  the decimal sum; CLR A; RLC A
    \hF5, \h31, \hC3, \hEB, \h9A,   \* MOV 31h,A  and its carry; CLR C; MOV A,R3; SUBB A,R2
    \hF5, \h32, \hEA, \h9B,   \* MOV 32h,A  xy - yx, low; MOV A,R2; SUBB A,R3
    \hF5, \h33, \hEB, \h2A,   \* MOV 33h,A  and high; MOV A,R3; ADD A,R2
    \hF5, \h34, \hEA, \h3B,   \* MOV 34h,A  xy + yx, low; MOV A,R2; ADDC A,R3
    \hF5, \h35, \hEA, \h8B, \hF0, \hA4,   \* MOV 35h,A  and high; MOV A,R2; MOV B,R3; MUL AB
    \hF5, \h36, \h85, \hF0, \h37,   \* MOV 36h,A  the product, low; MOV 37h,B  and high
    \hEA, \h8B, \hF0, \h84, \hAC, \hF0, \h8B, \hF0,   \* MOV A,R2; MOV B,R3; DIV AB; MOV R4,B; MOV B,R3
    \hA4, \h2C,   \* MUL AB; ADD A,R4
    \hF5, \h38, \hEA,   \* MOV 38h,A  quotient * y + remainder; MOV A,R2
    \h5B, \hFD, \hEA, \h4B, \h2D,   \* ANL A,R3; MOV R5,A; MOV A,R2; ORL A,R3; ADD A,R5
    \h65, \h34, \hF5, \h39,   \* XRL A,34h; MOV 39h,A  (x and y) + (x or y) xor x + y
    \h12, \h02, \h04, \hF5, \h3A, \h51, \h0C,   \* LCALL max; MOV 3Ah,A  the larger; ACALL triple
    \hF5, \h3B, \hEA, \h13, \h33, \h03, \h23,   \* MOV 3Bh,A  3x; MOV A,R2; RRC A; RLC A; RR A; RL A
    \hF4, \h04, \h14, \hF4,   \* CPL A; INC A; DEC A; CPL A
    \hF5, \h3D, \h78, \h3C, \hEA,   \* MOV 3Dh,A  there and back; MOV R0,#3Ch; MOV A,R2
    \hF6, \h06, \h74, \h0F, \hD6, \hC4,   \* MOV @R0,A; INC @R0; MOV A,#0Fh; XCHD A,@R0; SWAP A
    \hC6, \h42, \h3C, \h75, \h90, \hF0, \hD2, \h91,   \* XCH A,@R0; ORL 3Ch,A; MOV P1,#F0h; SETB P1.1
    \hB2, \h97, \h20, \h91, \h01, \h00, \h00,   \* CPL P1.7; JB P1.1,+1; NOP; NOP
    \h10, \h94, \h00, \hA2, \h91, \h92, \h08,   \* JBC P1.4,+0; MOV C,P1.1; MOV 21h.0,C
    \h82, \h08, \hB0, \h09, \hB3, \h72, \h08,   \* ANL C,21h.0; ANL C,/21h.1; CPL C; ORL C,21h.0
    \hB3, \hA0, \h09, \h92, \h09, \h43, \h21, \h04,   \* CPL C; ORL C,/21h.1; MOV 21h.1,C; ORL 21h,#4
    \h90, \h7F, \hF5, \h74, \h04, \hF0,   \* MOV DPTR,#7FF5h; MOV A,#4; MOVX @DPTR,A  bank 1
    \h7F, \h00, \h90, \h01, \hBF,   \* bank: MOV R7,#0  bank 1 has 1 here; MOV DPTR,#table
    \hE4, \h93, \h73,   \* CLR A; MOVC A,@A+DPTR; JMP @A+DPTR
    \h02, \hFF, \h90, \h7F, \hF5, \hE4,   \* table: the way on, from here; MOV DPTR,#7FF5h; CLR A
    \hF0, \h74, \h03, \h83, \h70, \h02,   \* MOVX @DPTR,A  bank 0; MOV A,#3; MOVC A,@A+PC; JNZ +2
    \h5A, \hA5, \hFE,   \* the table of MOVC; MOV R6,A
    \h75, \h89, \h02, \h75, \h8C, \hF0,   \* MOV TMOD,#02h  timer 0 reloads; MOV TH0,#F0h
    \h75, \h8A, \hFE, \hD2, \h8C,   \* MOV TL0,#FEh; SETB TR0
    \hE5, \h08, \hB4, \h03, \hFB,   \* wait: MOV A,08h; CJNE A,#3,wait  two overflows
    \hC2, \h8C, \h05, \h3C, \h15, \h3C, \hC2, \hAF,   \* CLR TR0; INC 3Ch; DEC 3Ch; CLR EA
    \h75, \h89, \h16, \h75, \h8B, \hFE,   \* MOV TMOD,#16h  timer 1 is wide; MOV TL1,#FEh
    \h75, \h8D, \hFF, \hD2, \h8E,   \* MOV TH1,#FFh; SETB TR1
    \h30, \h8F, \hFD, \hC2, \h8E, \h10, \h8F, \h00,   \* over: JNB TF1,over; CLR TR1; JBC TF1,+0
    \hD2, \hAF, \h75, \h8A, \hFF,   \* SETB EA; MOV TL0,#FFh
    \hD2, \h8C, \h41, \h02,   \* SETB TR0  timer 0 counts sync pulses; AJMP done
    \h80, \hFE,   \* done: SJMP done
    \hEA, \hB5, \h03, \h00, \h50, \h01, \hEB,   \* max: MOV A,R2; CJNE A,03h,+0; JNC +1; MOV A,R3
    \h22,   \* RET
    \hE4, \h7E, \h03,   \* triple: CLR A; MOV R6,#3
    \h2A, \hDE, \hFD, \h22   \* again: ADD A,R2; DJNZ R6,again; RET
  >>]
}

\* Bank 1 differs in one byte, so that the program can tell where it runs.
InBank == \h01B8
Occupied(s) == s.at..(s.at + Len(s.code) - 1)
Size == 768
Image == [i \in 0..(Size - 1) |->
            LET in == {s \in Segments : i \in Occupied(s)}
            IN IF in = {} THEN 0 ELSE LET s == CHOOSE s \in in : TRUE IN s.code[i - s.at + 1]]
MCRom == [i \in 0..131071 |-> IF i = 65536 + InBank THEN 1
                              ELSE IF i % 65536 < Size THEN Image[i % 65536] ELSE 0]

X == \h7E00
Y == \h7E01
Operands == {<<\h67, \h58>>}
MCXDatas == {[i \in {X, Y, BankRegister} |->
               IF i = X THEN o[1] ELSE IF i = Y THEN o[2] ELSE \hF4] : o \in Operands}
MCRam == (0..33) \cup (\h30..\h3D) \cup (\h60..\h68)
MCHandlerRam == (8..23) \cup {32}     \* register banks 1 and 2, the bits of 20h
Done == \h0202

\* op.c: the program's results are those of arithmetic, whatever interrupted it: a decimal sum
\* (of decimal operands), a difference and a sum of words, a product, quotient and remainder put
\* together, a sum by AND and OR, the larger byte, three times the first, and the first rotated and back.
ResultsAreArithmetic ==
  (m.pc = Done /\ m.int = "none") =>
    LET x == m.xdata[X]
        y == m.xdata[Y]
        word(i) == m.ram[i] + 256 * m.ram[i + 1]
        decimal(v) == 10 * (v \div 16) + (v % 16)
    IN /\ (x % 16 < 10 /\ y % 16 < 10 /\ x < 160 /\ y < 160) =>
            decimal(x) + decimal(y) = decimal(m.ram[\h30]) + 100 * m.ram[\h31]
       /\ word(\h32) = ((256 * x + y) - (256 * y + x)) % 65536
       /\ word(\h34) = ((256 * x + y) + (256 * y + x)) % 65536
       /\ word(\h36) = x * y
       /\ m.ram[\h38] = IF y = 0 THEN 0 ELSE x
       /\ m.ram[\h39] = 0
       /\ m.ram[\h3A] = IF x < y THEN y ELSE x
       /\ m.ram[\h3B] = (3 * x) % 256
       /\ m.ram[\h3D] = x
       /\ <<m.io[P1], m.ram[33], m.ram[7], m.ram[6]>> = <<\h62, 7, 1, \hA5>>
=============================================================================
