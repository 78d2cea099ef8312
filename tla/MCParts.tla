-------------------------------- MODULE MCParts --------------------------------
(***************************************************************************)
(* The parts of Parts on small instances.                                  *)
(***************************************************************************)
EXTENDS Parts, TLC

MCByte == {"a", "b"}

\* Words: subcommands, flags, options with and without their value, values good and bad, and
\* words that need quotes.
Args == {<<"x">>, <<>>, <<"-">>, <<"-", "x">>, <<"--">>, <<"--no-pty">>, <<"--rows">>,
         <<"--cols", "=", "n24">>, <<"n24">>, <<"+", "n0">>}
Quaint == {<<"x", " ", "x">>, <<"'">>, <<"\"", "\\">>, <<"\\", "'", " ">>}
Kinds == {<<"loopback">>, <<"pipe">>, <<"exec">>}
ListsUpTo(S, n) == UNION {[1..i -> S] : i \in 0..n}
Lists == {<<>>, <<<<"x">>>>, <<<<>>, <<"exec">>>>}
         \cup {<<k>> \o l : k \in Kinds, l \in ListsUpTo(Args, 2)}
         \cup {<<<<"exec">>>> \o l : l \in [1..3 -> Args]}
         \cup {<<k>> \o l : k \in Kinds, l \in ListsUpTo(Quaint, 3)}
         \cup {<<<<"exec">>>> \o l : l \in {<<<<"--rows">>, <<"n24">>, <<"x">>, <<"--cols">>, <<"n80000">>>>,
                                          <<<<"--cols">>, <<"n24">>, <<"--rows">>, <<"+", "n24">>, <<"x">>>>}}

\* Screens of 12 lines, with rows of three or four; tables of single rows, with a pair of double
\* height, and with an invalid row.
MCHeights == {3, 4}
Plain == [i \in 0..8 |-> "single"]
MCRowTables == {Plain, [Plain EXCEPT ![1] = "top", ![2] = "bottom"], [Plain EXCEPT ![2] = "invalid"]}

\* The edges of every region, and the exchanged pages; both values of every bit that matters.
Edges == {0, 511, 512, 600, 767, 768, 856, 1023, 1024, 32255, 32256, 32511, 32512, 32735,
          32736, 32751, 32752, 32767, 32768, 33280, 33536, 65535}
MCPorch == TRUE :> 1 @@ FALSE :> 3
MCFront == TRUE :> 1 @@ FALSE :> 2
MCValues == 3 :> {255, 239} @@ 4 :> {255, 239} @@ 5 :> {244, 240, 212, 208}

MCSizes == {<<2, 2>>, <<2, 1>>}
MCCell == {[ch |-> " ", attr |-> 0], [ch |-> "a", attr |-> 0], [ch |-> "a", attr |-> 1]}

\* Keys of every kind: one byte, a pair of bytes, and chords of three and four.
MCTypeable == {[key |-> "char", with |-> {}], [key |-> "f1", with |-> {}],
               [key |-> "char", with |-> {"shift"}], [key |-> "f1", with |-> {"ctrl", "shift"}]}

MCCost == "max" :> 0 @@ "one" :> 4 @@ "two" :> 2
=============================================================================
