------------------------------ MODULE FrameLayout ------------------------------
(***************************************************************************)
(* Where the rows of the terminal's screen come to lie in the frame that   *)
(* is drawn (video.c, host/fb_render.c): how many rows there are, which of *)
(* them are skipped, which of the two screens each belongs to, how high it *)
(* is, and how the region that scrolls smoothly is cut at its top and      *)
(* bottom.                                                                 *)
(*                                                                         *)
(* The firmware describes the screen by a table of rows in video memory,   *)
(* by the row heights of the two screens (register 6, whose previous value *)
(* counts for screen 1 and whose present value for screen 2), and by the   *)
(* smooth-scrolling registers: first row, last row, lines scrolled.        *)
(***************************************************************************)
EXTENDS Integers, FiniteSets

CONSTANTS
  Lines,         \* lines of text above the status row: 400 in the code
  StatusLines,   \* lines of the frame below them, and of a status row among rows as high: 16
  ShortStatus,   \* lines of a status row among rows of another height: 12
  Heights,       \* row heights the firmware uses, each with a whole number of rows on the screen
  MaxRows,       \* bound: rows of the table, not fewer than any frame needs
  RowTables      \* what the table may say of its rows: functions from row to a kind of row

VARIABLES
  kind,        \* row of the table -> "single" high, "top" or "bottom" of a double-height one, or "invalid"
  swapAt,      \* the rows of the table that switch between the screens
  height1, height2,   \* row heights of screen 1 and screen 2
  onSecond,    \* whether the frame starts on screen 2; then, whether it is there
  scroll,      \* the smooth-scrolling registers [first, last, by]
  rows,        \* how many rows are drawn
  row,         \* the row to be drawn next
  top,         \* its first line in the frame
  high,        \* how many lines the row above takes in the frame
  frame        \* line of the frame -> the row and the line of that row it shows

frameVars == <<kind, swapAt, height1, height2, onSecond, scroll, rows, row, top, high, frame>>

Blank == <<"blank">>
FrameLines == 0..(Lines + StatusLines - 1)

(***************************************************************************)
(* row_count.  Rows are counted until they fill the screen; from the first *)
(* swap on they have the height of screen 2.  A row that will be skipped   *)
(* counts like the others.  (For one height on both screens the code has a *)
(* table of the three counts, the same numbers.)                           *)
(***************************************************************************)
CountedHeight(i) == IF \E j \in swapAt : j <= i THEN height2 ELSE height1
Remaining[i \in 0..MaxRows] ==
  IF i = 0 THEN Lines
  ELSE IF Remaining[i - 1] > CountedHeight(i - 1) THEN Remaining[i - 1] - CountedHeight(i - 1)
  ELSE 0
TextRows == CHOOSE i \in 1..MaxRows : Remaining[i] = 0 /\ Remaining[i - 1] # 0

\* vmapper_row_count: the status row, and one more row while the screen scrolls.
RowCount == TextRows + 1 + (IF scroll.by # 0 THEN 1 ELSE 0)

(***************************************************************************)
(* decode_vram, fb_row_cb: one row.                                        *)
(***************************************************************************)
Swapped(s, i) == IF i \in swapAt THEN ~s ELSE s
RowHeight(second) == IF second THEN height2 ELSE height1

InRegion(i) == scroll.by # 0 /\ scroll.first <= i /\ i <= scroll.last

\* The first line of a row's font that is shown, and how many are.
StartRow(i, h) == IF InRegion(i) /\ i = scroll.first /\ scroll.by <= h THEN scroll.by ELSE 0
ClippedTopOnly(i, h) ==
  IF ~InRegion(i) \/ i # scroll.first THEN h
  ELSE IF scroll.by > h THEN 0 ELSE h - scroll.by
Clipped(i, h) ==
  IF ~InRegion(i) THEN h
  ELSE IF i = scroll.first THEN IF scroll.by > h THEN 0 ELSE h - scroll.by
  ELSE IF i = scroll.last THEN scroll.by
  ELSE h

\* fb_col_cb: the line of the font for line z of a row that takes n lines.
FontLine(i, z, n) == CASE kind[i] = "top" -> z \div 2
                       [] kind[i] = "bottom" -> z \div 2 + n \div 2
                       [] OTHER -> z

\* fb_col_cb: the lines of the row, as far as the frame goes.
Painted(at, i, start, n) ==
  [l \in FrameLines |-> IF at <= l /\ l < at + n THEN <<i, FontLine(i, l - at, n) + start>> ELSE frame[l]]

\* An invalid row takes no lines, and switches nothing.
SkipRow ==
  /\ row < rows /\ kind[row] = "invalid"
  /\ row' = row + 1
  /\ UNCHANGED <<kind, swapAt, height1, height2, onSecond, scroll, rows, top, high, frame>>

DrawRow ==
  /\ row < rows - 1 /\ kind[row] # "invalid"
  /\ LET second == Swapped(onSecond, row)
         h == RowHeight(second)
     IN /\ onSecond' = second
        /\ top' = top + high
        /\ high' = Clipped(row, h)
        /\ frame' = Painted(top + high, row, StartRow(row, h), Clipped(row, h))
  /\ row' = row + 1
  /\ UNCHANGED <<kind, swapAt, height1, height2, scroll, rows>>

\* The last row is the status row: its place is fixed, and its height is one of two.
StatusHeight(h) == IF h = StatusLines THEN StatusLines ELSE ShortStatus
DrawStatus ==
  /\ row = rows - 1 /\ kind[row] # "invalid"
  /\ LET second == Swapped(onSecond, row)
         n == StatusHeight(RowHeight(second))
     IN /\ onSecond' = second
        /\ top' = Lines /\ high' = n
        /\ frame' = Painted(Lines, row, 0, n)
  /\ row' = row + 1
  /\ UNCHANGED <<kind, swapAt, height1, height2, scroll, rows>>

\* The screens the firmware puts up: what scrolls lies within the text and moves by at most a row.
FrameInit ==
  /\ kind \in RowTables
  /\ swapAt \in {{}} \cup {{i} : i \in 0..(MaxRows - 1)} \cup {{1, 2}}
  /\ height1 \in Heights /\ height2 \in Heights /\ onSecond \in BOOLEAN
  /\ \/ scroll = [first |-> 0, last |-> 0, by |-> 0]
     \/ \E f, l \in 0..(MaxRows - 1), k \in 1..Lines :
          /\ f < l /\ l <= TextRows /\ k <= CountedHeight(f)
          /\ scroll = [first |-> f, last |-> l, by |-> k]
  /\ rows = RowCount
  /\ row = 0 /\ top = 0 /\ high = 0 /\ frame = [l \in FrameLines |-> Blank]

FrameNext == SkipRow \/ DrawRow \/ DrawStatus

(***************************************************************************)
(* What the screen should show: the lines of all valid rows, one row under *)
(* the other, without the lines that scrolled out at the top of the region *)
(* and those not yet scrolled in at its bottom.                            *)
(***************************************************************************)
ShownLines(i) ==
  {y \in 0..(CountedHeight(i) - 1) : /\ kind[i] # "invalid"
                                     /\ scroll.by # 0 /\ i = scroll.first => y >= scroll.by
                                     /\ scroll.by # 0 /\ i = scroll.last => y < scroll.by}
\* The lines shown of the first n rows, and those that come before line y of row i.
Shown(n) == UNION {{<<i, y>> : y \in ShownLines(i)} : i \in 0..(n - 1)}
Before(i, y) == Shown(i) \cup {<<i, z>> : z \in {z \in ShownLines(i) : z < y}}

\* Counting rows follows the drawing only if there is one height, or the frame starts on screen 1
\* and changes once, at a row that is drawn; the row that scrolling adds is counted as one of the
\* bottom row.
Followed == \/ height1 = height2
            \/ /\ Cardinality(swapAt) <= 1 /\ onSecond = (\E i \in swapAt : i < row)
               /\ \A i \in swapAt : kind[i] # "invalid"
               /\ scroll.by # 0 => \A i \in scroll.first..rows : CountedHeight(i) = CountedHeight(rows)

\* Of a double-height row that is cut, the code stretches what is left of the lines.
Stretched(i) == kind[i] # "single" /\ scroll.by # 0 /\ i \in {scroll.first, scroll.last}

\* video.c, fb_render.c: when the frame is drawn every line of the text shows the line of the font
\* it should, also with two row heights, with rows of double height, with invalid rows and while a
\* part of the screen scrolls; if no row is invalid the text is filled; and the lines of the status
\* row, as many as it has, lie below the text.
LinesInPlace ==
  row = rows /\ Followed =>
    /\ (\A i \in 0..(rows - 2) : kind[i] # "invalid") => Cardinality(Shown(rows - 1)) >= Lines
    /\ \A i \in 0..(rows - 2) : \A y \in ShownLines(i) :
         LET line == Cardinality(Before(i, y))
         IN line < Lines /\ ~Stretched(i) => frame[line] = <<i, FontLine(i, y, CountedHeight(i))>>
    /\ kind[rows - 1] # "invalid" =>
         LET n == StatusHeight(RowHeight(onSecond))
         IN \A l \in 0..(n - 1) : frame[Lines + l] = <<rows - 1, FontLine(rows - 1, l, n)>>
=============================================================================
