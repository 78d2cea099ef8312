----------------------------- MODULE SessionConfig -----------------------------
(***************************************************************************)
(* How a session is described (ssu/config.c): a string is split into words *)
(* like a shell's, the first of which names the kind of session.           *)
(*                                                                         *)
(* A string is a sequence of pieces: a piece is one of the characters that *)
(* mean something, or a run of others that the grammar knows as a whole.   *)
(* Memory is never short here, and two runs of digits never meet.          *)
(***************************************************************************)
EXTENDS Integers, Sequences, FiniteSets, SequencesExt

CONSTANT WordLists   \* lists of words that somebody wants to say, each word a sequence of pieces

VARIABLES
  input,    \* the string
  meant,    \* history: the words it stands for, or BrokenMark
  at,       \* how much of it has been read; of the words, while they are parsed
  quote,    \* the quotes it is within: "none", "single", "double"
  have,     \* a word has begun
  buf,      \* its pieces
  words,    \* the words read
  args,     \* what has been understood of the words
  phase,    \* "split", "parse", "done"
  result    \* what session_config_parse returns

vars == <<input, meant, at, quote, have, buf, words, args, phase, result>>
reading == <<input, meant>>

Special == {" ", "'", "\"", "\\"}
Numerals == [n24 |-> 24, n0 |-> 0, n80000 |-> 80000]    \* the runs of digits used here

None == <<>>
Failed == [kind |-> "error"]
BrokenMark == <<<<"broken">>>>

-----------------------------------------------------------------------------
(***************************************************************************)
(* Strings that say a list of words.                                       *)
(***************************************************************************)
Escaped(word, chars) ==
  FlattenSeq([i \in 1..Len(word) |-> IF word[i] \in chars THEN <<"\\", word[i]>> ELSE <<word[i]>>])
Mark(how) == CASE how = "backslash" -> <<>> [] how = "single" -> <<"'">> [] how = "double" -> <<"\"">>
Inner(word, how) == CASE how = "backslash" -> Escaped(word, Special)
                      [] how = "single" -> word
                      [] how = "double" -> Escaped(word, {"\"", "\\"})
Quoted(word, how) == Mark(how) \o Inner(word, how) \o Mark(how)
Quotable(word, how) == CASE how = "backslash" -> word # <<>>
                         [] how = "single" -> "'" \notin ToSet(word)
                         [] how = "double" -> TRUE
Said(list, how) ==
  FlattenSeq([i \in 1..Len(list) |-> Quoted(list[i], how) \o <<" ">>])

\* Strings that end within quotes or after a backslash: the last word is not said to its end.
Ends(how) == CASE how = "backslash" -> {<<"\\">>} [] how = "single" -> {<<>>} [] how = "double" -> {<<>>, <<"\\">>}
Broken(list, how, end) ==
  FlattenSeq([i \in 1..Len(list) |-> IF i < Len(list) THEN Quoted(list[i], how) \o <<" ">>
                                     ELSE Mark(how) \o Inner(list[i], how) \o end])

Init ==
  /\ \E list \in WordLists, how \in {"backslash", "single", "double"} :
       /\ \A i \in DOMAIN list : Quotable(list[i], how)
       /\ \/ meant = list /\ input = Said(list, how)
          \/ /\ list # <<>> /\ meant = BrokenMark
             /\ \E end \in Ends(how) : input = Broken(list, how, end)
  /\ at = 1 /\ quote = "none" /\ have = FALSE /\ buf = <<>> /\ words = <<>>
  /\ args = [pos |-> <<>>, rows |-> None, cols |-> None, noPty |-> FALSE, raw |-> FALSE]
  /\ phase = "split" /\ result = [kind |-> "none"]

-----------------------------------------------------------------------------
(***************************************************************************)
(* tokenize.                                                               *)
(***************************************************************************)
Fail == phase' = "done" /\ result' = Failed
Piece == input[at]
Splitting == phase = "split" /\ at <= Len(input)
Take(n, new) == /\ at' = at + n /\ buf' = buf \o new
                /\ UNCHANGED <<reading, words, args, phase, result>>

Open == /\ Splitting /\ quote = "none" /\ Piece \in {"'", "\""}
        /\ quote' = (IF Piece = "'" THEN "single" ELSE "double") /\ have' = TRUE
        /\ Take(1, <<>>)
Close == /\ Splitting /\ <<quote, Piece>> \in {<<"single", "'">>, <<"double", "\"">>}
         /\ quote' = "none" /\ have' = have
         /\ Take(1, <<>>)
\* A backslash counts everywhere but within single quotes.
Escape == /\ Splitting /\ quote # "single" /\ Piece = "\\"
          /\ IF at < Len(input)
             THEN Take(2, <<input[at + 1]>>) /\ have' = TRUE /\ quote' = quote
             ELSE Fail /\ UNCHANGED <<reading, at, quote, have, buf, words, args>>
Ordinary(piece) == CASE quote = "none" -> piece \notin Special
                     [] quote = "single" -> piece # "'"
                     [] quote = "double" -> piece \notin {"\"", "\\"}
Plain == /\ Splitting /\ Ordinary(Piece)
         /\ Take(1, <<Piece>>) /\ have' = TRUE /\ quote' = quote
EmittedIfFilled == IF buf = <<>> THEN words ELSE Append(words, buf)
Emitted == IF have THEN Append(words, buf) ELSE words
Space == /\ Splitting /\ quote = "none" /\ Piece = " "
         /\ words' = Emitted
         /\ have' = FALSE /\ buf' = <<>> /\ at' = at + 1
         /\ UNCHANGED <<reading, quote, args, phase, result>>

\* The end of the string, and the choice of the grammar by the first word.
Kinds == {<<"loopback">>, <<"pipe">>, <<"exec">>}
End ==
  /\ phase = "split" /\ at > Len(input)
  /\ have' = FALSE /\ buf' = <<>> /\ words' = (IF quote = "none" THEN Emitted ELSE words)
  /\ IF quote # "none" \/ words' = <<>> \/ words'[1] \notin Kinds
     THEN Fail /\ at' = at
     ELSE phase' = "parse" /\ at' = 2 /\ result' = result
  /\ UNCHANGED <<reading, quote, args>>
-----------------------------------------------------------------------------
(***************************************************************************)
(* positionals, parse_loopback, parse_pipe, parse_exec: a word at a time.  *)
(***************************************************************************)
Kind == words[1]
NextWord == words[at]
Parsing == phase = "parse" /\ at <= Len(words)
\* A word that begins with a dash and is not only a dash.
LooksLikeFlag(w) == /\ w # <<>>
                    /\ w[1] \in {"--", "--no-pty", "--rows", "--cols"} \/ (w[1] = "-" /\ Len(w) > 1)
Flag == ~args.raw /\ LooksLikeFlag(NextWord)
Most == CASE Kind = <<"loopback">> -> 1 [] Kind = <<"pipe">> -> 3 [] Kind = <<"exec">> -> 1

Understand(n, new) == /\ args' = new /\ at' = at + n
                      /\ UNCHANGED <<reading, quote, have, buf, words, phase, result>>
Refuse == Fail /\ UNCHANGED <<reading, at, quote, have, buf, words, args>>

DashDash == /\ Parsing /\ ~args.raw /\ NextWord = <<"--">>
            /\ Understand(1, [args EXCEPT !.raw = TRUE])
Positional == /\ Parsing /\ ~Flag
              /\ IF Len(args.pos) = Most THEN Refuse
                 ELSE Understand(1, [args EXCEPT !.pos = Append(@, NextWord)])
NoPty == /\ Parsing /\ Flag /\ Kind = <<"exec">> /\ NextWord = <<"--no-pty">>
         /\ IF args.noPty THEN Refuse ELSE Understand(1, [args EXCEPT !.noPty = TRUE])

\* --rows and --cols, their value behind an equals sign or in the next word, whatever it is.
Options == [rows |-> "--rows", cols |-> "--cols"]
IsOption(w, o) == w # <<>> /\ w[1] = Options[o] /\ (Len(w) > 1 => w[2] = "=")
Option(o) ==
  /\ Parsing /\ Flag /\ Kind = <<"exec">> /\ IsOption(NextWord, o)
  /\ IF args[o] # None THEN Refuse
     ELSE IF Len(NextWord) > 1 THEN Understand(1, [args EXCEPT ![o] = <<SubSeq(NextWord, 3, Len(NextWord))>>])
     ELSE IF at = Len(words) THEN Refuse
     ELSE Understand(2, [args EXCEPT ![o] = <<words[at + 1]>>])
Unexpected == /\ Parsing /\ Flag /\ NextWord # <<"--">>
              /\ Kind = <<"exec">> =>
                   NextWord # <<"--no-pty">> /\ \A o \in DOMAIN Options : ~IsOption(NextWord, o)
              /\ Refuse

\* parse_u16_nonzero, of a run of digits with or without a plus; or the default.
NumberOrZero(w) == LET digits == IF w # <<>> /\ w[1] = "+" THEN Tail(w) ELSE w
             IN IF Len(digits) = 1 /\ digits[1] \in DOMAIN Numerals THEN Numerals[digits[1]] ELSE -1
Number(w) == IF NumberOrZero(w) \in 1..65535 THEN NumberOrZero(w) ELSE -1
Size(o) == IF args[o] # None THEN Number(args[o][1]) ELSE IF o = "rows" THEN 24 ELSE 80

Loopback == [kind |-> "loopback", initial |-> IF args.pos = <<>> THEN <<>> ELSE args.pos[1]]
Pipe == CASE Len(args.pos) = 1 -> [kind |-> "pipe", path |-> args.pos[1]]
          [] Len(args.pos) = 3 -> [kind |-> "pipes", rx |-> args.pos[2], tx |-> args.pos[3]]
          [] OTHER -> Failed
Exec == CASE args.pos = <<>> -> Failed
          [] args.pos # <<>> /\ args.noPty ->
               IF args.rows = None /\ args.cols = None
               THEN [kind |-> "exec", command |-> args.pos[1]] ELSE Failed
          [] OTHER -> IF -1 \in {Size("rows"), Size("cols")} THEN Failed
                      ELSE [kind |-> "pty", command |-> args.pos[1],
                            rows |-> Size("rows"), cols |-> Size("cols")]
Conclude ==
  /\ phase = "parse" /\ at > Len(words)
  /\ phase' = "done"
  /\ result' = (CASE Kind = <<"loopback">> -> Loopback [] Kind = <<"pipe">> -> Pipe
                  [] Kind = <<"exec">> -> Exec)
  /\ UNCHANGED <<reading, at, quote, have, buf, words, args>>

Next ==
  \/ Open \/ Close \/ Escape \/ Plain \/ Space \/ End
  \/ DashDash \/ Positional \/ NoPty \/ (\E o \in DOMAIN Options : Option(o)) \/ Unexpected
  \/ Conclude

Spec == Init /\ [][Next]_vars

-----------------------------------------------------------------------------
(***************************************************************************)
(* What a list of words means, without reading it from left to right: each *)
(* word after the first gets the role it plays, so that the roles fit      *)
(* together.                                                               *)
(***************************************************************************)
Roles(kind) == IF kind = <<"exec">> THEN {"pos", "--", "noPty", "rows", "cols", "value"}
               ELSE {"pos", "--"}
Plays(r, role) == {i \in DOMAIN r : r[i] = role}
Fits(list, r) ==
  /\ \A role \in {"--", "noPty", "rows", "cols"} : Cardinality(Plays(r, role)) <= 1
  /\ \A i \in DOMAIN r :
       LET takesNext(j) == r[j] \in DOMAIN Options /\ Len(list[j]) = 1
           afterDash == \E j \in Plays(r, "--") : j < i
       IN /\ r[i] = "value" <=> (i > 2 /\ takesNext(i - 1))
          /\ takesNext(i) => i < Len(list)
          /\ r[i] \in DOMAIN Options => IsOption(list[i], r[i])
          /\ r[i] = "noPty" => list[i] = <<"--no-pty">>
          /\ r[i] = "--" => list[i] = <<"--">>
          /\ r[i] = "pos" => afterDash \/ ~LooksLikeFlag(list[i])
          /\ r[i] # "pos" => ~afterDash
Means(list, r) ==
  LET pos == [k \in 1..Cardinality(Plays(r, "pos")) |->
                list[CHOOSE i \in Plays(r, "pos") : Cardinality({j \in Plays(r, "pos") : j <= i}) = k]]
      value(o, default) ==
        IF Plays(r, o) = {} THEN default
        ELSE LET i == CHOOSE i \in Plays(r, o) : TRUE
             IN Number(IF Len(list[i]) = 1 THEN list[i + 1] ELSE SubSeq(list[i], 3, Len(list[i])))
      size == [rows |-> value("rows", 24), cols |-> value("cols", 80)]
  IN CASE list[1] = <<"loopback">> /\ Len(pos) = 0 -> [kind |-> "loopback", initial |-> <<>>]
       [] list[1] = <<"loopback">> /\ Len(pos) = 1 -> [kind |-> "loopback", initial |-> pos[1]]
       [] list[1] = <<"pipe">> /\ Len(pos) = 1 -> [kind |-> "pipe", path |-> pos[1]]
       [] list[1] = <<"pipe">> /\ Len(pos) = 3 -> [kind |-> "pipes", rx |-> pos[2], tx |-> pos[3]]
       [] /\ list[1] = <<"exec">> /\ Len(pos) = 1
          /\ Plays(r, "noPty") # {} /\ Plays(r, "rows") \cup Plays(r, "cols") = {} ->
            [kind |-> "exec", command |-> pos[1]]
       [] /\ list[1] = <<"exec">> /\ Len(pos) = 1
          /\ Plays(r, "noPty") = {} /\ -1 \notin {size.rows, size.cols} ->
            [kind |-> "pty", command |-> pos[1], rows |-> size.rows, cols |-> size.cols]
       [] OTHER -> Failed
Meanings(list) ==
  IF list = <<>> \/ list[1] \notin Kinds THEN {}
  ELSE {Means(list, r) : r \in {f \in [2..Len(list) -> Roles(list[1])] : Fits(list, f)}} \ {Failed}

\* config.c: words are understood as they were meant, however they were quoted; a list of words
\* that the grammar gives a meaning gets that one, in whatever order its options come; every
\* other string is refused.
Understood ==
  /\ (phase # "split" /\ meant # BrokenMark) => words = meant
  /\ phase = "done" =>
       IF meant = BrokenMark \/ Meanings(meant) = {} THEN result = Failed
       ELSE Meanings(meant) = {result}
=============================================================================
