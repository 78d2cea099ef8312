-------------------------------- MODULE TextGrid --------------------------------
(***************************************************************************)
(* The text display (host/text.c): a frame is composed in a grid of cells, *)
(* and what differs from the grid shown last is written to the host's      *)
(* terminal, which may be resized at any time, by moving its cursor,       *)
(* setting its attributes and printing characters.                         *)
(***************************************************************************)
EXTENDS Integers, Sequences

CONSTANTS
  Sizes,       \* the sizes <<width, height>> the host's terminal may have
  Cell,        \* what a cell may show: a character and its attributes, with its colour
  Default      \* no attributes

VARIABLES
  size,        \* the host terminal's size
  screen,      \* what its cells show, or Garbled
  cursor, pen, \* its cursor, and the attributes it prints with
  grid,        \* the grid's size, or None before the first frame
  front,       \* the frame the code believes is shown
  cleared,     \* the command to clear the screen is waiting in the buffer
  stage,       \* where the loop stands
  dropped,     \* a write failed since the last full repaint
  resized      \* the terminal was resized since its size was read, or resized back before it was


None == <<>>
Never == [ch |-> "never", attr |-> Default]    \* the cells of a new front grid, which equal nothing
Garbled == <<>>                                \* nothing is known of the screen
CellsOf(s) == (1..s[1]) \X (1..s[2])
Blank == [ch |-> " ", attr |-> Default]
Cleared(s) == [c \in CellsOf(s) |-> Blank]

\* screen_text_run: the alternative screen, cleared.
GridInit ==
  /\ size \in Sizes /\ screen = Cleared(size) /\ cursor = <<1, 1>> /\ pen = Default
  /\ grid = None /\ front = <<>> /\ cleared = FALSE
  /\ stage = "ensure" /\ dropped = FALSE /\ resized = FALSE

\* The user resizes the window; the terminal does with its contents what it likes.
Resize ==
  /\ size' \in Sizes \ {size}
  /\ screen' = Garbled /\ cursor' = <<1, 1>>
  /\ resized' = TRUE
  /\ UNCHANGED <<pen, grid, front, cleared, stage, dropped>>

\* grid_ensure: a terminal of another size gets a new grid, and is cleared and repainted.
SameSizeByWidth == grid # None /\ grid[1] = size[1]
SameSize == grid = size
Ensure ==
  /\ stage = "ensure" /\ stage' = "draw"
  /\ IF SameSize
     THEN UNCHANGED <<grid, front, cleared, dropped>>
     ELSE /\ grid' = size /\ front' = [c \in CellsOf(size) |-> Never]
          /\ cleared' = TRUE /\ dropped' = FALSE
  /\ resized' = (resized /\ grid = size)
  /\ UNCHANGED <<size, screen, cursor, pen>>

(***************************************************************************)
(* grid_flush: the commands for the cells that differ, row by row.  cx, cy *)
(* and cattrs are what the code knows of cursor and attributes.            *)
(***************************************************************************)

Place(n) == <<((n - 1) % grid[1]) + 1, ((n - 1) \div grid[1]) + 1>>

Output(back) ==
  LET n == grid[1] * grid[2]
      out[i \in 0..n] ==
        IF i = 0 THEN [cmds |-> <<>>, c |-> None, attr |-> None]
        ELSE LET o == out[i - 1]
                 p == Place(i)
             IN IF back[p] = front[p] THEN o
                ELSE [cmds |-> o.cmds
                        \o (IF o.c # p THEN <<[do |-> "move", to |-> p]>> ELSE <<>>)
                        \o (IF o.attr # <<back[p].attr>> THEN <<[do |-> "attr", to |-> back[p].attr]>> ELSE <<>>)
                        \o <<[do |-> "put", to |-> back[p].ch]>>,
                      c |-> <<p[1] + 1, p[2]>>,
                      attr |-> <<back[p].attr>>]
  IN out[n].cmds

\* The host's terminal: one command.  It stays on the last column when that is printed.
Obey(t, cmd) ==
  CASE cmd.do = "move" -> [t EXCEPT !.cursor = cmd.to]
    [] cmd.do = "attr" -> [t EXCEPT !.pen = cmd.to]
    [] cmd.do = "put" ->
         [t EXCEPT !.screen = [@ EXCEPT ![t.cursor] = [ch |-> cmd.to, attr |-> t.pen]],
                   !.cursor = IF @[1] < size[1] THEN <<@[1] + 1, @[2]>> ELSE @]
Obeyed(t, cmds) == LET f[i \in 0..Len(cmds)] == IF i = 0 THEN t ELSE Obey(f[i - 1], cmds[i]) IN f[Len(cmds)]

\* The buffer is written; what is meant for another size, or comes on top of a garbled screen,
\* leaves anything there.
Written(back) ==
  LET base == IF cleared THEN Cleared(size) ELSE screen
  IN IF size # grid \/ base = Garbled
     THEN screen' = Garbled /\ cursor' = <<1, 1>> /\ pen' = Default
     ELSE LET t == Obeyed([screen |-> base, cursor |-> cursor, pen |-> pen], Output(back))
          IN screen' = t.screen /\ cursor' = t.cursor /\ pen' = t.pen

\* draw_frame: a frame is composed, whatever the machine shows, and what differs is written.
Draw ==
  /\ stage = "draw" /\ stage' = "shown"
  /\ \E back \in [CellsOf(grid) -> Cell] : Written(back) /\ front' = back
  /\ cleared' = FALSE
  /\ UNCHANGED <<size, grid, dropped, resized>>

\* out_flush: a write that fails drops the rest of the buffer.
DrawFails ==
  /\ stage = "draw" /\ stage' = "shown"
  /\ front' \in [CellsOf(grid) -> Cell]
  /\ screen' = Garbled /\ cursor' = <<1, 1>> /\ pen' = Default
  /\ cleared' = FALSE /\ dropped' = TRUE
  /\ UNCHANGED <<size, grid, resized>>

\* The machine runs on; during its own refresh no frame is drawn.
RunOn == /\ stage = "shown" /\ stage' = "ensure"
         /\ UNCHANGED <<size, screen, cursor, pen, grid, front, cleared, dropped, resized>>

GridNext == Resize \/ Ensure \/ Draw \/ DrawFails \/ RunOn

\* text.c: although only differences are sent, the host's terminal shows the frame composed, at
\* every size; but not after a write has failed, nor after the terminal was resized and resized
\* back between two frames: front then holds what was never shown, until the size changes.
ScreenIsFront == stage = "shown" /\ ~dropped /\ ~resized => screen = front
=============================================================================
