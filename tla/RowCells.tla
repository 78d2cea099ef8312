-------------------------------- MODULE RowCells --------------------------------
(***************************************************************************)
(* How the characters of a row are unpacked from video memory (the loops   *)
(* of decode_vram, video.c, and of render_hex, host/text.c).  A character  *)
(* takes twelve bits.  A row's page of 256 bytes holds them in two parts,  *)
(* with other data between and behind, and one loop per part carries half  *)
(* a byte from one character to the next.                                  *)
(***************************************************************************)
EXTENDS Integers, Sequences

CONSTANTS FirstEnd, SecondStart, SecondEnd    \* 108, 128 and 221 in the code

VARIABLES
  byteAt,     \* the byte of the page read next
  carried,    \* the half bytes of the unfinished character, the low one first
  line        \* the characters unpacked

cellVars == <<byteAt, carried, line>>

\* A byte of the page is its two halves, known by where they stand.
Low(i) == <<i, "low">>
High(i) == <<i, "high">>

CellInit == byteAt = 0 /\ carried = <<>> /\ line = <<>>

\* Which byte of the three of two characters this is.
Phase(i) == IF i < FirstEnd THEN i % 3 ELSE (i + 1) % 3
NextByte == IF byteAt = FirstEnd - 1 THEN SecondStart ELSE byteAt + 1

CellNext ==
  /\ byteAt < SecondEnd
  /\ byteAt' = NextByte
  /\ \/ /\ Phase(byteAt) = 0
        /\ carried' = <<Low(byteAt), High(byteAt)>>
        /\ UNCHANGED line
     \/ /\ Phase(byteAt) = 1
        /\ line' = Append(line, <<carried[1], carried[2], Low(byteAt)>>)
        /\ carried' = <<High(byteAt)>>
     \/ /\ Phase(byteAt) = 2
        /\ line' = Append(line, <<carried[1], Low(byteAt), High(byteAt)>>)
        /\ UNCHANGED carried

\* The half bytes of both parts in their order.
PageByte(n) == IF n < FirstEnd THEN n ELSE n - FirstEnd + SecondStart
Half(n) == IF n % 2 = 0 THEN Low(PageByte(n \div 2)) ELSE High(PageByte(n \div 2))

\* video.c, text.c: every third half byte starts a character, across the gap between the parts;
\* none is skipped, used twice or put together with another character's, and there are enough
\* of them for the 132 columns.
CellsInPlace ==
  /\ \A k \in 1..Len(line) : line[k] = <<Half(3 * k - 3), Half(3 * k - 2), Half(3 * k - 1)>>
  /\ byteAt = SecondEnd => Len(line) >= 132
=============================================================================
