---------------------------- MODULE ExecOpenProofs ----------------------------
(***************************************************************************)
(* The openers (ExecOpen): for any number of sessions of any kinds, opened *)
(* at once, nothing leaks into the terminal, and into another program only *)
(* what its fork was exposed to.                                           *)
(***************************************************************************)
EXTENDS ExecOpen, TLAPS

\* What the terminal keeps of an open session of kind k.
ReadEnd(s, k)  == CASE k = "exec" -> Fd(s, "out.r", FALSE, TRUE)
                    [] k = "pty"  -> Fd(s, "master", TRUE, TRUE)
                    [] k = "pipe" -> Fd(s, "fifo", FALSE, TRUE)
                    [] OTHER      -> Fd(s, "rx", FALSE, TRUE)
WriteEnd(s, k) == CASE k = "exec" -> Fd(s, "in.w", FALSE, TRUE)
                    [] k = "pty"  -> Fd(s, "master", FALSE, TRUE)
                    [] k = "pipe" -> Fd(s, "fifo", TRUE, TRUE)
                    [] OTHER      -> Fd(s, "tx", FALSE, TRUE)

\* What the terminal holds of a session of kind k whose opener is at place a.
Holds(s, k, a) ==
  CASE a = "second"      -> {ReadEnd(s, k)}
    [] a = "out"         -> {Fd(s, "in.r", FALSE, FALSE), Fd(s, "in.w", FALSE, FALSE)}
    [] a \in {"fork", "close"} ->
         IF k = "exec" THEN {Fd(s, "in.r", FALSE, FALSE), Fd(s, "in.w", FALSE, FALSE),
                             Fd(s, "out.r", FALSE, FALSE), Fd(s, "out.w", FALSE, FALSE)}
                       ELSE {Fd(s, "master", FALSE, TRUE), Fd(s, "slave", FALSE, TRUE)}
    [] a = "protect_in"  -> {Fd(s, "in.w", FALSE, FALSE), Fd(s, "out.r", FALSE, FALSE)}
    [] a = "protect_out" -> {Fd(s, "in.w", FALSE, TRUE), Fd(s, "out.r", FALSE, FALSE)}
    [] a = "protect_master"           -> {Fd(s, "master", FALSE, FALSE)}
    [] a \in {"slave", "copy_master"} -> {Fd(s, "master", FALSE, TRUE)}
    [] a = "open"        -> {ReadEnd(s, k), WriteEnd(s, k)}
    [] OTHER             -> {}

\* A pump thread closes its descriptor when it ends.
OpenerHolds ==
  \A s \in Sessions :
    IF at[s] = "pumping" THEN Of(s, fds[App]) \subseteq {ReadEnd(s, kind[s]), WriteEnd(s, kind[s])}
                         ELSE Of(s, fds[App]) = Holds(s, kind[s], at[s])

\* A process holds nothing of another session but what it was exposed to, once an exec has
\* closed the rest.
Foreign ==
  \A s, t \in Sessions :
    s # t => /\ child[s] \in {"forked", "ready"} =>
                  \A f \in Of(t, fds[s]) : f.cloexec \/ <<s, t>> \in exposed
             /\ child[s] = "runs" => (Of(t, fds[s]) # {} => <<s, t>> \in exposed)

OpenInv == TypeOK /\ OpenerHolds /\ Foreign

-----------------------------------------------------------------------------
(***************************************************************************)
(* Descriptors.                                                            *)
(***************************************************************************)
LEMMA EndsAreDescriptors ==
  ASSUME NEW s \in Sessions, NEW k \in {"exec", "pty", "pipe", "pipes"}
  PROVE  /\ ReadEnd(s, k) \in Descriptor /\ ReadEnd(s, k).of = s /\ ReadEnd(s, k).cloexec
         /\ WriteEnd(s, k) \in Descriptor /\ WriteEnd(s, k).of = s /\ WriteEnd(s, k).cloexec
<1>1. \A e \in {"in.r", "in.w", "out.r", "out.w", "master", "slave", "fifo", "rx", "tx"}, d \in BOOLEAN :
        Fd(s, e, d, TRUE) \in Descriptor /\ Fd(s, e, d, TRUE).of = s /\ Fd(s, e, d, TRUE).cloexec
  BY DEF Fd, Descriptor
<1>2. \/ ReadEnd(s, k) = Fd(s, "out.r", FALSE, TRUE) /\ WriteEnd(s, k) = Fd(s, "in.w", FALSE, TRUE)
      \/ ReadEnd(s, k) = Fd(s, "master", TRUE, TRUE) /\ WriteEnd(s, k) = Fd(s, "master", FALSE, TRUE)
      \/ ReadEnd(s, k) = Fd(s, "fifo", FALSE, TRUE) /\ WriteEnd(s, k) = Fd(s, "fifo", TRUE, TRUE)
      \/ ReadEnd(s, k) = Fd(s, "rx", FALSE, TRUE) /\ WriteEnd(s, k) = Fd(s, "tx", FALSE, TRUE)
  BY DEF ReadEnd, WriteEnd
<1> QED
  BY <1>1, <1>2

LEMMA KeptEnds ==
  ASSUME NEW s \in Sessions, TypeOK
  PROVE  Kept(s).r = ReadEnd(s, kind[s]) /\ Kept(s).w = WriteEnd(s, kind[s])
  BY DEF Kept, ReadEnd, WriteEnd, TypeOK

\* The table above, place by place.
LEMMA HoldsAt ==
  ASSUME NEW s, NEW k
  PROVE  /\ Holds(s, k, "start") = {} /\ Holds(s, k, "failed") = {}
         /\ Holds(s, k, "second") = {ReadEnd(s, k)}
         /\ Holds(s, k, "open") = {ReadEnd(s, k), WriteEnd(s, k)}
         /\ Holds(s, k, "out") = {Fd(s, "in.r", FALSE, FALSE), Fd(s, "in.w", FALSE, FALSE)}
         /\ \A a \in {"fork", "close"} :
              /\ Holds(s, "exec", a) = {Fd(s, "in.r", FALSE, FALSE), Fd(s, "in.w", FALSE, FALSE),
                                        Fd(s, "out.r", FALSE, FALSE), Fd(s, "out.w", FALSE, FALSE)}
              /\ Holds(s, "pty", a) = {Fd(s, "master", FALSE, TRUE), Fd(s, "slave", FALSE, TRUE)}
         /\ Holds(s, k, "protect_in") = {Fd(s, "in.w", FALSE, FALSE), Fd(s, "out.r", FALSE, FALSE)}
         /\ Holds(s, k, "protect_out") = {Fd(s, "in.w", FALSE, TRUE), Fd(s, "out.r", FALSE, FALSE)}
         /\ Holds(s, k, "protect_master") = {Fd(s, "master", FALSE, FALSE)}
         /\ Holds(s, k, "slave") = {Fd(s, "master", FALSE, TRUE)}
         /\ Holds(s, k, "copy_master") = {Fd(s, "master", FALSE, TRUE)}
  BY DEF Holds

LEMMA PlacesOf ==
  ASSUME TypeOK, NEW s \in Sessions
  PROVE  /\ kind[s] \in {"exec", "pty", "pipe", "pipes"}
         /\ at[s] \in {"out", "protect_in", "protect_out"} => kind[s] = "exec"
         /\ at[s] \in {"protect_master", "slave", "copy_master"} => kind[s] = "pty"
         /\ at[s] \in {"fork", "close"} => kind[s] \in {"exec", "pty"}
         /\ at[s] = "second" => kind[s] \in {"pipe", "pipes"}
         /\ at[s] \in {"start", "second", "out", "fork", "close", "protect_in", "protect_out",
                       "protect_master", "slave", "copy_master", "open", "pumping", "failed"}
  BY DEF TypeOK, Places

\* A change of one session's descriptors in the terminal leaves those of the others alone.
OnlyOf(s) == /\ \A t \in Sessions \ {s} : Of(t, fds'[App]) = Of(t, fds[App])
             /\ \A p \in Sessions : fds'[p] = fds[p]
             /\ fds' \in [Sessions \cup {App} -> SUBSET Descriptor]

LEMMA OpeningIsLocal ==
  ASSUME TypeOK, NEW s \in Sessions, NEW new \in SUBSET Descriptor, \A f \in new : f.of = s,
         fds' = Opening(new)
  PROVE  OnlyOf(s) /\ Of(s, fds'[App]) = Of(s, fds[App]) \cup new
<1>1. fds'[App] = fds[App] \cup new /\ \A p \in Sessions : fds'[p] = fds[p]
  BY OpenAssumption DEF Opening, TypeOK
<1>2. fds' \in [Sessions \cup {App} -> SUBSET Descriptor]
  BY DEF Opening, TypeOK
<1> QED
  BY <1>1, <1>2 DEF OnlyOf, Of

LEMMA ClosingIsLocal ==
  ASSUME TypeOK, NEW s \in Sessions, NEW ends, fds' = Closing(s, ends)
  PROVE  OnlyOf(s) /\ Of(s, fds'[App]) = {f \in Of(s, fds[App]) : f.end \notin ends}
<1>1. /\ fds'[App] = {f \in fds[App] : ~(f.of = s /\ f.end \in ends)}
      /\ \A p \in Sessions : fds'[p] = fds[p]
  BY OpenAssumption DEF Closing, TypeOK
<1>2. fds' \in [Sessions \cup {App} -> SUBSET Descriptor]
  BY DEF Closing, TypeOK
<1> QED
  BY <1>1, <1>2 DEF OnlyOf, Of

LEMMA RemovingIsLocal ==
  ASSUME TypeOK, NEW s \in Sessions, NEW lost, \A f \in lost : f.of = s,
         fds' = [fds EXCEPT ![App] = @ \ lost]
  PROVE  OnlyOf(s) /\ Of(s, fds'[App]) = Of(s, fds[App]) \ lost
<1>1. fds'[App] = fds[App] \ lost /\ \A p \in Sessions : fds'[p] = fds[p]
  BY OpenAssumption DEF TypeOK
<1>2. fds' \in [Sessions \cup {App} -> SUBSET Descriptor]
  BY DEF TypeOK
<1> QED
  BY <1>1, <1>2 DEF OnlyOf, Of

Protected(f, end) == IF f.end = end THEN [f EXCEPT !.cloexec = TRUE] ELSE f
LEMMA ProtectingIsLocal ==
  ASSUME TypeOK, NEW s \in Sessions, NEW end, fds' = Protecting(s, end)
  PROVE  OnlyOf(s) /\ Of(s, fds'[App]) = {Protected(f, end) : f \in Of(s, fds[App])}
<1> DEFINE P(f) == IF f.of = s /\ f.end = end THEN [f EXCEPT !.cloexec = TRUE] ELSE f
<1>1. /\ fds'[App] = {P(f) : f \in fds[App]} /\ \A p \in Sessions : fds'[p] = fds[p]
  BY OpenAssumption DEF Protecting, TypeOK
<1>2. ASSUME NEW f \in Descriptor
      PROVE  P(f) \in Descriptor /\ P(f).of = f.of /\ (f.of # s => P(f) = f) /\ (f.of = s => P(f) = Protected(f, end))
  BY DEF Descriptor, Protected
<1>3. fds[App] \subseteq Descriptor
  BY DEF TypeOK
<1> HIDE DEF P
<1>4. fds' \in [Sessions \cup {App} -> SUBSET Descriptor]
  BY <1>1, <1>2, <1>3 DEF Protecting, TypeOK
<1>5. \A t \in Sessions \ {s} : Of(t, fds'[App]) = Of(t, fds[App])
  BY <1>1, <1>2, <1>3 DEF Of
<1>6. Of(s, fds'[App]) = {Protected(f, end) : f \in Of(s, fds[App])}
  BY <1>1, <1>2, <1>3 DEF Of
<1> QED
  BY <1>1, <1>4, <1>5, <1>6 DEF OnlyOf

-----------------------------------------------------------------------------
(***************************************************************************)
(* The steps of an opener.                                                 *)
(***************************************************************************)
\* The opener of s goes to place a, which its kind of session has.
Moves(s, a) == /\ at' = [at EXCEPT ![s] = a] /\ a \in Places(kind[s])
               /\ UNCHANGED <<kind, child, destroyed, exposed>>

LEMMA MovesKeepType ==
  ASSUME TypeOK, NEW s \in Sessions, NEW a, Moves(s, a), OnlyOf(s)
  PROVE  /\ TypeOK' /\ at'[s] = a /\ kind'[s] = kind[s]
         /\ \A t \in Sessions \ {s} : at'[t] = at[t] /\ kind'[t] = kind[t]
  BY DEF TypeOK, Moves, OnlyOf

LEMMA MovesKeepInv ==
  ASSUME OpenInv, NEW s \in Sessions, NEW a, Moves(s, a), OnlyOf(s), a # "pumping",
         Of(s, fds'[App]) = Holds(s, kind[s], a)
  PROVE  OpenInv'
<1> USE DEF OpenInv
<1>1. /\ TypeOK' /\ at'[s] = a /\ kind'[s] = kind[s]
      /\ \A t \in Sessions \ {s} : at'[t] = at[t] /\ kind'[t] = kind[t]
  BY MovesKeepType
<1>2. OpenerHolds'
  <2> SUFFICES ASSUME NEW t \in Sessions
               PROVE IF at'[t] = "pumping" THEN Of(t, fds'[App]) \subseteq {ReadEnd(t, kind'[t]), WriteEnd(t, kind'[t])}
                     ELSE Of(t, fds'[App]) = Holds(t, kind'[t], at'[t])
    BY DEF OpenerHolds
  <2>1. CASE t = s
    BY <1>1, <2>1
  <2>2. CASE t # s
    <3>1. Of(t, fds'[App]) = Of(t, fds[App]) /\ at'[t] = at[t] /\ kind'[t] = kind[t]
      BY <1>1, <2>2 DEF OnlyOf
    <3> QED
      BY <3>1 DEF OpenerHolds
  <2> QED
    BY <2>1, <2>2
<1>3. Foreign'
  <2>1. \A p \in Sessions : fds'[p] = fds[p]
    BY DEF OnlyOf
  <2> QED
    BY <2>1 DEF Foreign, Moves
<1> QED
  BY <1>1, <1>2, <1>3

\* What the opener of s holds, at a place other than pumping.
LEMMA NowHolds ==
  ASSUME OpenInv, NEW s \in Sessions, NEW a, at[s] = a, a # "pumping"
  PROVE  Of(s, fds[App]) = Holds(s, kind[s], a)
  BY DEF OpenInv, OpenerHolds

\* The opener of s goes from a to b opening new, as the table has it.
Opens(s, a, b, new) ==
  /\ Goes(s, a, b) /\ Opener /\ fds' = Opening(new)
  /\ new \in SUBSET Descriptor /\ \A f \in new : f.of = s
  /\ a # "pumping" /\ b # "pumping" /\ b \in Places(kind[s])
  /\ Holds(s, kind[s], b) = Holds(s, kind[s], a) \cup new

LEMMA OpeningStep ==
  ASSUME OpenInv, NEW s \in Sessions, NEW a, NEW b, NEW new, Opens(s, a, b, new)
  PROVE  OpenInv'
<1>1. Moves(s, b) /\ at[s] = a /\ b # "pumping"
  BY DEF Opens, Goes, Opener, Moves
<1>2. OnlyOf(s) /\ Of(s, fds'[App]) = Of(s, fds[App]) \cup new
  BY OpeningIsLocal DEF OpenInv, Opens
<1>3. Of(s, fds[App]) = Holds(s, kind[s], a)
  BY <1>1, NowHolds DEF Opens
<1> QED
  BY <1>1, <1>2, <1>3, MovesKeepInv DEF Opens

LEMMA OpenSteps ==
  ASSUME OpenInv, NEW s \in Sessions,
         OpenFirst(s) \/ OpenSecond(s) \/ PipeIn(s) \/ PipeOut(s) \/ OpenMaster(s) \/ OpenSlave(s) \/ CopyMaster(s)
  PROVE  OpenInv'
<1>1. /\ TypeOK /\ kind[s] \in {"exec", "pty", "pipe", "pipes"}
      /\ Kept(s).r = ReadEnd(s, kind[s]) /\ Kept(s).w = WriteEnd(s, kind[s])
  BY PlacesOf, KeptEnds DEF OpenInv
<1>2. /\ {ReadEnd(s, kind[s])} \in SUBSET Descriptor /\ \A f \in {ReadEnd(s, kind[s])} : f.of = s
      /\ {WriteEnd(s, kind[s])} \in SUBSET Descriptor /\ \A f \in {WriteEnd(s, kind[s])} : f.of = s
  BY <1>1, EndsAreDescriptors
<1>3. CASE OpenFirst(s)
  <2>1. Goes(s, "start", "second") /\ Opener /\ fds' = Opening({ReadEnd(s, kind[s])})
    BY <1>1, <1>3 DEF OpenFirst
  <2>2. "second" \in Places(kind[s])
    BY <1>3 DEF OpenFirst, Places
  <2>3. Holds(s, kind[s], "start") = {} /\ Holds(s, kind[s], "second") = {ReadEnd(s, kind[s])}
    BY HoldsAt
  <2>4. Opens(s, "start", "second", {ReadEnd(s, kind[s])})
    BY <1>2, <2>1, <2>2, <2>3 DEF Opens
  <2> QED
    BY <2>4, OpeningStep
<1>4. CASE OpenSecond(s)
  <2>1. Goes(s, "second", "open") /\ Opener /\ fds' = Opening({WriteEnd(s, kind[s])})
    BY <1>1, <1>4 DEF OpenSecond
  <2>2. "open" \in Places(kind[s])
    BY DEF Places
  <2>3. /\ Holds(s, kind[s], "second") = {ReadEnd(s, kind[s])}
        /\ Holds(s, kind[s], "open") = {ReadEnd(s, kind[s]), WriteEnd(s, kind[s])}
    BY HoldsAt
  <2>4. Opens(s, "second", "open", {WriteEnd(s, kind[s])})
    BY <1>2, <2>1, <2>2, <2>3 DEF Opens
  <2> QED
    BY <2>4, OpeningStep
<1>5. CASE PipeIn(s)
  <2> DEFINE new == {Fd(s, "in.r", FALSE, FALSE), Fd(s, "in.w", FALSE, FALSE)}
  <2>1. new \in SUBSET Descriptor /\ \A f \in new : f.of = s
    BY DEF Fd, Descriptor
  <2>2. Goes(s, "start", "out") /\ Opener /\ fds' = Opening(new)
    <3>1. new = {Fd(s, e, FALSE, FALSE) : e \in {"in.r", "in.w"}}
      OBVIOUS
    <3> QED
      BY <1>5, <3>1 DEF PipeIn
  <2>3. "out" \in Places(kind[s])
    BY <1>5 DEF PipeIn, Places
  <2>4. Holds(s, kind[s], "start") = {} /\ Holds(s, kind[s], "out") = new
    BY HoldsAt
  <2> HIDE DEF new
  <2>5. Opens(s, "start", "out", new)
    BY <2>1, <2>2, <2>3, <2>4 DEF Opens
  <2> QED
    BY <2>5, OpeningStep
<1>6. CASE PipeOut(s)
  <2> DEFINE new == {Fd(s, "out.r", FALSE, FALSE), Fd(s, "out.w", FALSE, FALSE)}
  <2>1. new \in SUBSET Descriptor /\ \A f \in new : f.of = s
    BY DEF Fd, Descriptor
  <2>2. Goes(s, "out", "fork") /\ Opener /\ fds' = Opening(new)
    <3>1. new = {Fd(s, e, FALSE, FALSE) : e \in {"out.r", "out.w"}}
      OBVIOUS
    <3> QED
      BY <1>6, <3>1 DEF PipeOut
  <2>3. kind[s] = "exec"
    BY <1>1, <2>2, PlacesOf DEF Goes
  <2>4. "fork" \in Places(kind[s])
    BY <2>3 DEF Places
  <2>5. Holds(s, kind[s], "fork") = Holds(s, kind[s], "out") \cup new
    <3>1. /\ Holds(s, "exec", "out") = {Fd(s, "in.r", FALSE, FALSE), Fd(s, "in.w", FALSE, FALSE)}
          /\ Holds(s, "exec", "fork") = {Fd(s, "in.r", FALSE, FALSE), Fd(s, "in.w", FALSE, FALSE),
                                         Fd(s, "out.r", FALSE, FALSE), Fd(s, "out.w", FALSE, FALSE)}
      BY HoldsAt
    <3> QED
      BY <2>3, <3>1
  <2> HIDE DEF new
  <2>6. Opens(s, "out", "fork", new)
    BY <2>1, <2>2, <2>4, <2>5 DEF Opens
  <2> QED
    BY <2>6, OpeningStep
<1>7. CASE OpenMaster(s)
  <2> DEFINE new == {Fd(s, "master", FALSE, FALSE)}
  <2>1. new \in SUBSET Descriptor /\ \A f \in new : f.of = s
    BY DEF Fd, Descriptor
  <2>2. Goes(s, "start", "protect_master") /\ Opener /\ fds' = Opening(new)
    BY <1>7 DEF OpenMaster
  <2>3. "protect_master" \in Places(kind[s])
    BY <1>7 DEF OpenMaster, Places
  <2>4. Holds(s, kind[s], "start") = {} /\ Holds(s, kind[s], "protect_master") = new
    BY HoldsAt
  <2> HIDE DEF new
  <2>5. Opens(s, "start", "protect_master", new)
    BY <2>1, <2>2, <2>3, <2>4 DEF Opens
  <2> QED
    BY <2>5, OpeningStep
<1>8. CASE OpenSlave(s)
  <2> DEFINE new == {Fd(s, "slave", FALSE, TRUE)}
  <2>1. new \in SUBSET Descriptor /\ \A f \in new : f.of = s
    BY DEF Fd, Descriptor
  <2>2. Goes(s, "slave", "fork") /\ Opener /\ fds' = Opening(new)
    BY <1>8 DEF OpenSlave
  <2>3. kind[s] = "pty"
    BY <1>1, <2>2, PlacesOf DEF Goes
  <2>4. "fork" \in Places(kind[s])
    BY <2>3 DEF Places
  <2>5. Holds(s, kind[s], "fork") = Holds(s, kind[s], "slave") \cup new
    <3>1. /\ Holds(s, "pty", "slave") = {Fd(s, "master", FALSE, TRUE)}
          /\ Holds(s, "pty", "fork") = {Fd(s, "master", FALSE, TRUE), Fd(s, "slave", FALSE, TRUE)}
      BY HoldsAt
    <3> QED
      BY <2>3, <3>1
  <2> HIDE DEF new
  <2>6. Opens(s, "slave", "fork", new)
    BY <2>1, <2>2, <2>4, <2>5 DEF Opens
  <2> QED
    BY <2>6, OpeningStep
<1>9. CASE CopyMaster(s)
  <2> DEFINE new == {Fd(s, "master", TRUE, TRUE)}
  <2>1. new \in SUBSET Descriptor /\ \A f \in new : f.of = s
    BY DEF Fd, Descriptor
  <2>2. Goes(s, "copy_master", "open") /\ Opener /\ fds' = Opening(new)
    BY <1>9 DEF CopyMaster
  <2>3. kind[s] = "pty"
    BY <1>1, <2>2, PlacesOf DEF Goes
  <2>4. "open" \in Places(kind[s])
    BY DEF Places
  <2>5. Holds(s, kind[s], "open") = Holds(s, kind[s], "copy_master") \cup new
    <3>1. /\ Holds(s, "pty", "copy_master") = {Fd(s, "master", FALSE, TRUE)}
          /\ Holds(s, "pty", "open") = {ReadEnd(s, "pty"), WriteEnd(s, "pty")}
      BY HoldsAt
    <3>2. ReadEnd(s, "pty") = Fd(s, "master", TRUE, TRUE) /\ WriteEnd(s, "pty") = Fd(s, "master", FALSE, TRUE)
      BY DEF ReadEnd, WriteEnd
    <3> QED
      BY <2>3, <3>1, <3>2
  <2> HIDE DEF new
  <2>6. Opens(s, "copy_master", "open", new)
    BY <2>1, <2>2, <2>4, <2>5 DEF Opens
  <2> QED
    BY <2>6, OpeningStep
<1> QED
  BY <1>3, <1>4, <1>5, <1>6, <1>7, <1>8, <1>9

LEMMA CloseStep == ASSUME OpenInv, NEW s \in Sessions, CloseChildEnds(s) PROVE OpenInv'
<1>1. TypeOK /\ at[s] = "close" /\ kind[s] \in {"exec", "pty"} /\ fds' = Closing(s, ChildEnds(s))
  BY PlacesOf DEF OpenInv, CloseChildEnds, Goes
<1>2. OnlyOf(s) /\ Of(s, fds'[App]) = {f \in Of(s, fds[App]) : f.end \notin ChildEnds(s)}
  BY <1>1, ClosingIsLocal
<1>3. Of(s, fds[App]) = Holds(s, kind[s], "close")
  BY <1>1, NowHolds
<1>4. CASE kind[s] = "exec"
  <2>1. Moves(s, "protect_in")
    BY <1>4 DEF CloseChildEnds, Goes, Opener, Moves, Places
  <2>2. Of(s, fds'[App]) = {f \in Holds(s, "exec", "close") : f.end \notin {"in.r", "out.w"}}
    BY <1>2, <1>3, <1>4 DEF ChildEnds
  <2>3. Holds(s, "exec", "close") = {Fd(s, "in.r", FALSE, FALSE), Fd(s, "in.w", FALSE, FALSE),
                                     Fd(s, "out.r", FALSE, FALSE), Fd(s, "out.w", FALSE, FALSE)}
    BY HoldsAt
  <2>4. /\ Fd(s, "in.r", FALSE, FALSE).end = "in.r" /\ Fd(s, "in.w", FALSE, FALSE).end = "in.w"
        /\ Fd(s, "out.r", FALSE, FALSE).end = "out.r" /\ Fd(s, "out.w", FALSE, FALSE).end = "out.w"
    BY DEF Fd
  <2>5. Of(s, fds'[App]) = {Fd(s, "in.w", FALSE, FALSE), Fd(s, "out.r", FALSE, FALSE)}
    BY <2>2, <2>3, <2>4
  <2>6. Of(s, fds'[App]) = Holds(s, kind[s], "protect_in")
    BY <2>5, HoldsAt
  <2> QED
    BY <1>2, <2>1, <2>6, MovesKeepInv
<1>5. CASE kind[s] = "pty"
  <2>1. Moves(s, "copy_master")
    BY <1>5 DEF CloseChildEnds, Goes, Opener, Moves, Places
  <2>2. Of(s, fds'[App]) = {f \in Holds(s, "pty", "close") : f.end \notin {"slave"}}
    BY <1>2, <1>3, <1>5 DEF ChildEnds
  <2>3. Holds(s, "pty", "close") = {Fd(s, "master", FALSE, TRUE), Fd(s, "slave", FALSE, TRUE)}
    BY HoldsAt
  <2>4. Fd(s, "master", FALSE, TRUE).end = "master" /\ Fd(s, "slave", FALSE, TRUE).end = "slave"
    BY DEF Fd
  <2>5. Of(s, fds'[App]) = {Fd(s, "master", FALSE, TRUE)}
    BY <2>2, <2>3, <2>4
  <2>6. Of(s, fds'[App]) = Holds(s, kind[s], "copy_master")
    BY <2>5, HoldsAt
  <2> QED
    BY <1>2, <2>1, <2>6, MovesKeepInv
<1> QED
  BY <1>1, <1>4, <1>5

LEMMA ProtectSteps ==
  ASSUME OpenInv, NEW s \in Sessions, ProtectMaster(s) \/ ProtectIn(s) \/ ProtectOut(s)
  PROVE  OpenInv'
<1>1. TypeOK
  BY DEF OpenInv
<1>2. ASSUME NEW end, NEW a, fds' = Protecting(s, end), at[s] = a, a # "pumping"
      PROVE  OnlyOf(s) /\ Of(s, fds'[App]) = {Protected(f, end) : f \in Holds(s, kind[s], a)}
  BY <1>1, <1>2, ProtectingIsLocal, NowHolds
<1>3. CASE ProtectMaster(s)
  <2>1. at[s] = "protect_master" /\ fds' = Protecting(s, "master")
    BY <1>3 DEF ProtectMaster, Goes
  <2>2. kind[s] = "pty"
    BY <1>1, <2>1, PlacesOf
  <2>3. Moves(s, "slave")
    BY <1>3, <2>2 DEF ProtectMaster, Goes, Opener, Moves, Places
  <2>4. OnlyOf(s) /\ Of(s, fds'[App]) = {Protected(f, "master") : f \in Holds(s, kind[s], "protect_master")}
    BY <1>2, <2>1
  <2>5. Holds(s, kind[s], "protect_master") = {Fd(s, "master", FALSE, FALSE)}
    BY HoldsAt
  <2>6. Protected(Fd(s, "master", FALSE, FALSE), "master") = Fd(s, "master", FALSE, TRUE)
    BY DEF Protected, Fd
  <2>7. Of(s, fds'[App]) = {Fd(s, "master", FALSE, TRUE)}
    <3>1. {Protected(f, "master") : f \in {Fd(s, "master", FALSE, FALSE)}}
            = {Protected(Fd(s, "master", FALSE, FALSE), "master")}
      OBVIOUS
    <3> QED
      BY <2>4, <2>5, <2>6, <3>1
  <2>8. Of(s, fds'[App]) = Holds(s, kind[s], "slave")
    BY <2>7, HoldsAt
  <2> QED
    BY <2>3, <2>4, <2>8, MovesKeepInv
<1>4. CASE ProtectIn(s)
  <2>1. at[s] = "protect_in" /\ fds' = Protecting(s, "in.w")
    BY <1>4 DEF ProtectIn, Goes
  <2>2. kind[s] = "exec"
    BY <1>1, <2>1, PlacesOf
  <2>3. Moves(s, "protect_out")
    BY <1>4, <2>2 DEF ProtectIn, Goes, Opener, Moves, Places
  <2>4. OnlyOf(s) /\ Of(s, fds'[App]) = {Protected(f, "in.w") : f \in Holds(s, kind[s], "protect_in")}
    BY <1>2, <2>1
  <2>5. Holds(s, kind[s], "protect_in") = {Fd(s, "in.w", FALSE, FALSE), Fd(s, "out.r", FALSE, FALSE)}
    BY HoldsAt
  <2>6. /\ Protected(Fd(s, "in.w", FALSE, FALSE), "in.w") = Fd(s, "in.w", FALSE, TRUE)
        /\ Protected(Fd(s, "out.r", FALSE, FALSE), "in.w") = Fd(s, "out.r", FALSE, FALSE)
    BY DEF Protected, Fd
  <2>7. Of(s, fds'[App]) = {Fd(s, "in.w", FALSE, TRUE), Fd(s, "out.r", FALSE, FALSE)}
    BY <2>4, <2>5, <2>6
  <2>8. Of(s, fds'[App]) = Holds(s, kind[s], "protect_out")
    BY <2>7, HoldsAt
  <2> QED
    BY <2>3, <2>4, <2>8, MovesKeepInv
<1>5. CASE ProtectOut(s)
  <2>1. at[s] = "protect_out" /\ fds' = Protecting(s, "out.r")
    BY <1>5 DEF ProtectOut, Goes
  <2>2. kind[s] = "exec"
    BY <1>1, <2>1, PlacesOf
  <2>3. Moves(s, "open")
    BY <1>5, <2>2 DEF ProtectOut, Goes, Opener, Moves, Places
  <2>4. OnlyOf(s) /\ Of(s, fds'[App]) = {Protected(f, "out.r") : f \in Holds(s, kind[s], "protect_out")}
    BY <1>2, <2>1
  <2>5. Holds(s, kind[s], "protect_out") = {Fd(s, "in.w", FALSE, TRUE), Fd(s, "out.r", FALSE, FALSE)}
    BY HoldsAt
  <2>6. /\ Protected(Fd(s, "in.w", FALSE, TRUE), "out.r") = Fd(s, "in.w", FALSE, TRUE)
        /\ Protected(Fd(s, "out.r", FALSE, FALSE), "out.r") = Fd(s, "out.r", FALSE, TRUE)
    BY DEF Protected, Fd
  <2>7. Of(s, fds'[App]) = {Fd(s, "in.w", FALSE, TRUE), Fd(s, "out.r", FALSE, TRUE)}
    BY <2>4, <2>5, <2>6
  <2>8. Holds(s, "exec", "open") = {Fd(s, "out.r", FALSE, TRUE), Fd(s, "in.w", FALSE, TRUE)}
    BY HoldsAt DEF ReadEnd, WriteEnd
  <2>9. Of(s, fds'[App]) = Holds(s, kind[s], "open")
    BY <2>2, <2>7, <2>8
  <2> QED
    BY <2>3, <2>4, <2>9, MovesKeepInv
<1> QED
  BY <1>3, <1>4, <1>5

LEMMA FailStep == ASSUME OpenInv, NEW s \in Sessions, Fails(s) PROVE OpenInv'
<1>1. TypeOK /\ Moves(s, "failed") /\ fds' = [fds EXCEPT ![App] = @ \ Of(s, @)]
  BY DEF OpenInv, Fails, Opener, Moves, Places
<1>2. fds' = [fds EXCEPT ![App] = @ \ Of(s, fds[App])] /\ \A f \in Of(s, fds[App]) : f.of = s
  BY <1>1, OpenAssumption DEF Of, TypeOK
<1>3. OnlyOf(s) /\ Of(s, fds'[App]) = {}
  BY <1>1, <1>2, RemovingIsLocal
<1> QED
  BY <1>1, <1>3, HoldsAt, MovesKeepInv

-----------------------------------------------------------------------------
(***************************************************************************)
(* The pump threads and the processes.                                     *)
(***************************************************************************)
\* A pump thread of s gives up its descriptor.
Drops(s, lost) ==
  /\ fds' = [fds EXCEPT ![App] = @ \ lost] /\ lost \subseteq {ReadEnd(s, kind[s]), WriteEnd(s, kind[s])}
  /\ at'[s] = "pumping" /\ \A t \in Sessions \ {s} : at'[t] = at[t]
  /\ DOMAIN at' = Sessions /\ destroyed' \subseteq Sessions /\ UNCHANGED <<kind, child, exposed>>

LEMMA DropStep ==
  ASSUME OpenInv, NEW s \in Sessions, NEW lost, Drops(s, lost),
         Of(s, fds[App]) \subseteq {ReadEnd(s, kind[s]), WriteEnd(s, kind[s])}
  PROVE  OpenInv'
<1>1. TypeOK /\ kind[s] \in {"exec", "pty", "pipe", "pipes"}
  BY PlacesOf DEF OpenInv
<1>2. \A f \in lost : f.of = s
  BY <1>1, EndsAreDescriptors DEF Drops
<1>3. OnlyOf(s) /\ Of(s, fds'[App]) = Of(s, fds[App]) \ lost
  BY <1>1, <1>2, RemovingIsLocal DEF Drops
<1>4. TypeOK'
  <2>1. \A t \in Sessions : at'[t] \in Places(kind[t])
    <3>1. "pumping" \in Places(kind[s])
      BY DEF Places
    <3> QED
      BY <1>1, <3>1 DEF Drops, TypeOK
  <2> QED
    BY <1>1, <1>3, <2>1 DEF Drops, TypeOK, OnlyOf
<1>5. OpenerHolds'
  <2> SUFFICES ASSUME NEW t \in Sessions
               PROVE IF at'[t] = "pumping" THEN Of(t, fds'[App]) \subseteq {ReadEnd(t, kind'[t]), WriteEnd(t, kind'[t])}
                     ELSE Of(t, fds'[App]) = Holds(t, kind'[t], at'[t])
    BY DEF OpenerHolds
  <2>1. CASE t = s
    BY <1>3, <2>1 DEF Drops
  <2>2. CASE t # s
    <3>1. Of(t, fds'[App]) = Of(t, fds[App]) /\ at'[t] = at[t] /\ kind'[t] = kind[t]
      BY <1>3, <2>2 DEF OnlyOf, Drops
    <3> QED
      BY <3>1 DEF OpenerHolds, OpenInv
  <2> QED
    BY <2>1, <2>2
<1>6. Foreign'
  <2>1. \A p \in Sessions : fds'[p] = fds[p]
    BY <1>3 DEF OnlyOf
  <2> QED
    BY <2>1 DEF Foreign, Drops, OpenInv
<1> QED
  BY <1>4, <1>5, <1>6 DEF OpenInv

LEMMA PumpSteps ==
  ASSUME OpenInv, NEW s \in Sessions,
         StartPumps(s) \/ WriterEnds(s) \/ ReaderSeesEnd(s) \/ ReaderSeesClosed(s)
  PROVE  OpenInv'
<1>1. /\ TypeOK /\ Kept(s).r = ReadEnd(s, kind[s]) /\ Kept(s).w = WriteEnd(s, kind[s])
      /\ DOMAIN at = Sessions /\ destroyed \subseteq Sessions
  BY KeptEnds DEF OpenInv, TypeOK
<1>2. CASE StartPumps(s)
  <2>1. PICK lost \in {{}, {Kept(s).w}, {Kept(s).r, Kept(s).w}} : fds' = [fds EXCEPT ![App] = @ \ lost]
    BY <1>2 DEF StartPumps
  <2>2. Drops(s, lost)
    BY <1>1, <1>2, <2>1 DEF StartPumps, Goes, Opener, Drops
  <2>3. Of(s, fds[App]) = {ReadEnd(s, kind[s]), WriteEnd(s, kind[s])}
    <3>1. Of(s, fds[App]) = Holds(s, kind[s], "open")
      BY <1>2, NowHolds DEF StartPumps, Goes
    <3>2. Holds(s, kind[s], "open") = {ReadEnd(s, kind[s]), WriteEnd(s, kind[s])}
      BY HoldsAt
    <3> QED
      BY <3>1, <3>2
  <2> QED
    BY <2>2, <2>3, DropStep
<1>3. CASE WriterEnds(s) \/ ReaderSeesEnd(s) \/ ReaderSeesClosed(s)
  <2>1. PICK lost \in {{Kept(s).r}, {Kept(s).w}} : fds' = [fds EXCEPT ![App] = @ \ lost]
    BY <1>3 DEF WriterEnds, ReaderSeesEnd, ReaderSeesClosed
  <2>2. at[s] = "pumping" /\ UNCHANGED <<kind, at, child, destroyed, exposed>>
    BY <1>3 DEF WriterEnds, ReaderSeesEnd, ReaderSeesClosed, Pump
  <2>3. Drops(s, lost)
    BY <1>1, <2>1, <2>2 DEF Drops
  <2>4. Of(s, fds[App]) \subseteq {ReadEnd(s, kind[s]), WriteEnd(s, kind[s])}
    BY <2>2 DEF OpenInv, OpenerHolds
  <2> QED
    BY <2>3, <2>4, DropStep
<1> QED
  BY <1>2, <1>3

\* What the terminal holds that an exec would not close belongs to an opener between its open
\* and its protection.
LEMMA UnprotectedPlaces ==
  ASSUME OpenInv, NEW t \in Sessions, NEW f \in Of(t, fds[App]), ~f.cloexec
  PROVE  IsUnprotected(t)
<1>1. TypeOK /\ kind[t] \in {"exec", "pty", "pipe", "pipes"}
  BY PlacesOf DEF OpenInv
<1>2. ReadEnd(t, kind[t]).cloexec /\ WriteEnd(t, kind[t]).cloexec
  BY <1>1, EndsAreDescriptors
<1>3. Fd(t, "master", FALSE, TRUE).cloexec /\ Fd(t, "slave", FALSE, TRUE).cloexec
  BY DEF Fd
<1>4. CASE at[t] = "pumping"
  BY <1>2, <1>4 DEF OpenInv, OpenerHolds
<1>5. CASE at[t] # "pumping"
  <2>1. f \in Holds(t, kind[t], at[t])
    BY <1>5 DEF OpenInv, OpenerHolds
  <2>2. CASE at[t] \in {"start", "failed", "second", "open"}
    <3>1. /\ Holds(t, kind[t], "start") = {} /\ Holds(t, kind[t], "failed") = {}
          /\ Holds(t, kind[t], "second") = {ReadEnd(t, kind[t])}
          /\ Holds(t, kind[t], "open") = {ReadEnd(t, kind[t]), WriteEnd(t, kind[t])}
      BY HoldsAt
    <3> QED
      BY <1>2, <2>1, <2>2, <3>1
  <2>3. CASE at[t] \in {"slave", "copy_master"}
    <3>1. /\ Holds(t, kind[t], "slave") = {Fd(t, "master", FALSE, TRUE)}
          /\ Holds(t, kind[t], "copy_master") = {Fd(t, "master", FALSE, TRUE)}
      BY HoldsAt
    <3> QED
      BY <1>3, <2>1, <2>3, <3>1
  <2>4. CASE at[t] \in {"fork", "close"}
    <3>1. kind[t] = "exec" \/ kind[t] = "pty"
      BY <1>1, <2>4, PlacesOf
    <3>2. CASE kind[t] = "exec"
      BY <2>4, <3>2 DEF IsUnprotected
    <3>3. CASE kind[t] = "pty"
      <4>1. Holds(t, "pty", at[t]) = {Fd(t, "master", FALSE, TRUE), Fd(t, "slave", FALSE, TRUE)}
        BY <2>4, HoldsAt
      <4> QED
        BY <1>3, <2>1, <3>3, <4>1
    <3> QED
      BY <3>1, <3>2, <3>3
  <2>5. CASE at[t] \in {"out", "protect_in", "protect_out", "protect_master"}
    BY <2>5 DEF IsUnprotected
  <2> QED
    BY <1>1, <1>5, <2>2, <2>3, <2>4, <2>5, PlacesOf
<1> QED
  BY <1>4, <1>5

\* What process s may hold of session t.
Sealed(s, t) == /\ child[s] \in {"forked", "ready"} =>
                     \A f \in Of(t, fds[s]) : f.cloexec \/ <<s, t>> \in exposed
                /\ child[s] = "runs" => (Of(t, fds[s]) # {} => <<s, t>> \in exposed)

LEMMA ForeignKept ==
  ASSUME Foreign, NEW s \in Sessions, exposed \subseteq exposed',
         \A p \in Sessions \ {s} : fds'[p] = fds[p] /\ child'[p] = child[p],
         \A t \in Sessions \ {s} : Sealed(s, t)'
  PROVE  Foreign'
<1> SUFFICES ASSUME NEW p \in Sessions, NEW t \in Sessions, p # t
             PROVE  Sealed(p, t)'
  BY DEF Foreign, Sealed
<1>1. CASE p = s
  BY <1>1
<1>2. CASE p # s
  <2>1. Sealed(p, t) /\ fds'[p] = fds[p] /\ child'[p] = child[p]
    BY <1>2 DEF Foreign, Sealed
  <2> QED
    BY <2>1 DEF Sealed
<1> QED
  BY <1>1, <1>2

LEMMA ForkStep == ASSUME OpenInv, NEW s \in Sessions, Fork(s) PROVE OpenInv'
<1>1. /\ TypeOK /\ at[s] = "fork" /\ at' = [at EXCEPT ![s] = "close"] /\ kind[s] \in {"exec", "pty"}
      /\ fds' = [fds EXCEPT ![s] = fds[App]] /\ child' = [child EXCEPT ![s] = "forked"]
      /\ UNCHANGED <<kind, destroyed>>
      /\ exposed' = exposed \cup {<<s, t>> : t \in {u \in Sessions \ {s} : IsUnprotected(u)}}
  BY PlacesOf DEF OpenInv, Fork, Goes
<1>2. /\ fds'[App] = fds[App] /\ fds'[s] = fds[App] /\ child'[s] = "forked"
      /\ \A p \in Sessions \ {s} : fds'[p] = fds[p] /\ child'[p] = child[p]
  BY <1>1, OpenAssumption DEF TypeOK
<1>3. at'[s] = "close" /\ \A t \in Sessions \ {s} : at'[t] = at[t]
  BY <1>1 DEF TypeOK
<1>4. TypeOK'
  <2>1. "close" \in Places(kind[s])
    BY <1>1 DEF Places
  <2>2. DOMAIN at' = Sessions /\ \A t \in Sessions : at'[t] \in Places(kind'[t])
    BY <1>1, <1>3, <2>1 DEF TypeOK
  <2>3. fds' \in [Sessions \cup {App} -> SUBSET Descriptor]
    BY <1>1 DEF TypeOK
  <2>4. exposed' \subseteq Sessions \X Sessions
    BY <1>1 DEF TypeOK
  <2> QED
    BY <1>1, <2>2, <2>3, <2>4 DEF TypeOK
<1>5. OpenerHolds'
  <2>1. Holds(s, kind[s], "close") = Holds(s, kind[s], "fork")
    BY DEF Holds
  <2>2. Of(s, fds[App]) = Holds(s, kind[s], "fork")
    BY <1>1, NowHolds
  <2> QED
    BY <1>1, <1>2, <1>3, <2>1, <2>2 DEF OpenerHolds, OpenInv
<1>6. \A t \in Sessions \ {s} : Sealed(s, t)'
  <2> SUFFICES ASSUME NEW t \in Sessions \ {s}, NEW f \in Of(t, fds[App]), ~f.cloexec
               PROVE  <<s, t>> \in exposed'
    BY <1>2 DEF Sealed
  <2>1. IsUnprotected(t)
    BY UnprotectedPlaces
  <2> QED
    BY <1>1, <2>1
<1>7. Foreign'
  BY <1>1, <1>2, <1>6, ForeignKept DEF OpenInv
<1> QED
  BY <1>4, <1>5, <1>7 DEF OpenInv

\* A step of process s, with its new descriptors.
Process(s, held, to) ==
  /\ fds' = [fds EXCEPT ![s] = held] /\ held \in SUBSET Descriptor
  /\ child' = [child EXCEPT ![s] = to] /\ to \in {"none", "forked", "ready", "runs", "gone"}
  /\ UNCHANGED <<kind, at, destroyed, exposed>>

LEMMA ProcessStep ==
  ASSUME OpenInv, NEW s \in Sessions, NEW held, NEW to, Process(s, held, to),
         \A t \in Sessions \ {s} : Sealed(s, t)'
  PROVE  OpenInv'
<1>1. /\ fds'[App] = fds[App]
      /\ \A p \in Sessions \ {s} : fds'[p] = fds[p] /\ child'[p] = child[p]
  BY OpenAssumption DEF Process, OpenInv, TypeOK
<1>2. TypeOK'
  BY DEF Process, OpenInv, TypeOK
<1>3. OpenerHolds'
  BY <1>1 DEF Process, OpenInv, OpenerHolds
<1>4. Foreign'
  BY <1>1, ForeignKept DEF Process, OpenInv
<1> QED
  BY <1>2, <1>3, <1>4 DEF OpenInv

LEMMA ChildStepsKeepInv ==
  ASSUME OpenInv, NEW s \in Sessions, Rewire(s) \/ Exec(s) \/ Exit(s)
  PROVE  OpenInv'
<1>1. /\ fds[s] \subseteq Descriptor /\ fds \in [Sessions \cup {App} -> SUBSET Descriptor]
      /\ child \in [Sessions -> {"none", "forked", "ready", "runs", "gone"}]
  BY DEF OpenInv, TypeOK
<1>2. ASSUME NEW t \in Sessions \ {s} PROVE Sealed(s, t)
  BY DEF OpenInv, Foreign, Sealed
<1>3. CASE Rewire(s)
  <2> DEFINE own == {Fd(s, e, TRUE, FALSE) : e \in ChildEnds(s)}
  <2> DEFINE held == {f \in fds[s] : f.of # s} \cup own
  <2>1. own \subseteq Descriptor /\ \A f \in own : f.of = s
    <3>1. ChildEnds(s) \subseteq {"in.r", "out.w", "slave"}
      BY DEF ChildEnds
    <3>2. ASSUME NEW e \in {"in.r", "out.w", "slave"}
          PROVE  Fd(s, e, TRUE, FALSE) \in Descriptor /\ Fd(s, e, TRUE, FALSE).of = s
      BY DEF Fd, Descriptor
    <3> QED
      BY <3>1, <3>2
  <2>2. fds' = [fds EXCEPT ![s] = held]
    BY <1>1, <1>3 DEF Rewire, Rewired
  <2>3. child[s] = "forked" /\ child' = [child EXCEPT ![s] = "ready"] /\ UNCHANGED <<kind, at, destroyed, exposed>>
    BY <1>3 DEF Rewire, Becomes, Child
  <2> HIDE DEF own
  <2>4. Process(s, held, "ready")
    BY <1>1, <2>1, <2>2, <2>3 DEF Process
  <2>5. ASSUME NEW t \in Sessions \ {s} PROVE Sealed(s, t)'
    <3>1. Of(t, fds'[s]) = Of(t, fds[s])
      BY <1>1, <2>1, <2>2 DEF Of
    <3>2. child'[s] = "ready" /\ exposed' = exposed
      BY <1>1, <2>3
    <3>3. \A f \in Of(t, fds[s]) : f.cloexec \/ <<s, t>> \in exposed
      BY <1>2, <2>3 DEF Sealed
    <3> QED
      BY <3>1, <3>2, <3>3 DEF Sealed
  <2> QED
    BY <2>4, <2>5, ProcessStep
<1>4. CASE Exec(s)
  <2> DEFINE held == {f \in fds[s] : ~f.cloexec}
  <2>1. fds' = [fds EXCEPT ![s] = held] /\ fds'[s] = held
    BY <1>1, <1>4 DEF Exec
  <2>2. child[s] = "ready" /\ child' = [child EXCEPT ![s] = "runs"] /\ UNCHANGED <<kind, at, destroyed, exposed>>
    BY <1>4 DEF Exec, Becomes, Child
  <2>3. Process(s, held, "runs")
    BY <1>1, <2>1, <2>2 DEF Process
  <2>4. ASSUME NEW t \in Sessions \ {s} PROVE Sealed(s, t)'
    <3>1. child'[s] = "runs" /\ exposed' = exposed
      BY <1>1, <2>2
    <3>2. \A f \in Of(t, fds[s]) : f.cloexec \/ <<s, t>> \in exposed
      BY <1>2, <2>2 DEF Sealed
    <3>3. \A f \in Of(t, fds'[s]) : f \in Of(t, fds[s]) /\ ~f.cloexec
      BY <2>1 DEF Of
    <3> QED
      BY <3>1, <3>2, <3>3 DEF Sealed
  <2> QED
    BY <2>3, <2>4, ProcessStep
<1>5. CASE Exit(s)
  <2>1. child'[s] = "gone"
    BY <1>1, <1>5 DEF Exit
  <2>2. Process(s, {}, "gone")
    BY <1>5 DEF Exit, Child, Process
  <2>3. \A t \in Sessions \ {s} : Sealed(s, t)'
    BY <2>1 DEF Sealed
  <2> QED
    BY <2>2, <2>3, ProcessStep
<1> QED
  BY <1>3, <1>4, <1>5

-----------------------------------------------------------------------------
(***************************************************************************)
(* The theorems.                                                           *)
(***************************************************************************)
LEMMA InitOpen == Init => OpenInv
<1> SUFFICES ASSUME Init PROVE OpenInv
  OBVIOUS
<1>1. TypeOK
  BY OpenAssumption DEF Init, TypeOK, Places
<1>2. OpenerHolds
  <2>1. \A s \in Sessions : at[s] = "start" /\ Of(s, fds[App]) = {}
    BY DEF Init, Of
  <2> QED
    BY <2>1, HoldsAt DEF OpenerHolds
<1>3. Foreign
  BY DEF Init, Foreign
<1> QED
  BY <1>1, <1>2, <1>3 DEF OpenInv

LEMMA NextOpen == OpenInv /\ [Next]_vars => OpenInv'
<1> SUFFICES ASSUME OpenInv, [Next]_vars PROVE OpenInv'
  OBVIOUS
<1>1. CASE UNCHANGED vars
  BY <1>1 DEF vars, OpenInv, TypeOK, OpenerHolds, Foreign
<1>2. ASSUME NEW s \in Sessions, OpenerSteps(s) \/ OpenSecond(s) PROVE OpenInv'
  BY <1>2, OpenSteps, ProtectSteps, CloseStep, FailStep, ForkStep, PumpSteps DEF OpenerSteps
<1>3. ASSUME NEW s \in Sessions, ChildSteps(s) \/ Exit(s) PROVE OpenInv'
  BY <1>3, ChildStepsKeepInv DEF ChildSteps
<1>4. ASSUME NEW s \in Sessions, Destroy(s) PROVE OpenInv'
  BY <1>4 DEF Destroy, Pump, OpenInv, TypeOK, OpenerHolds, Foreign
<1>5. ASSUME NEW s \in Sessions, WriterEnds(s) \/ ReaderSeesEnd(s) \/ ReaderSeesClosed(s) PROVE OpenInv'
  BY <1>5, PumpSteps
<1> QED
  BY <1>1, <1>2, <1>3, <1>4, <1>5 DEF Next

LEMMA OpenInvariant == Spec => []OpenInv
  BY InitOpen, NextOpen, PTL DEF Spec

\* Every variable of the openers stays in its type, and an opener at a place of its kind.
THEOREM OpenTypeCorrect == Spec => []TypeOK
<1>1. OpenInv => TypeOK
  BY DEF OpenInv
<1> QED
  BY <1>1, OpenInvariant, PTL

\* A failed opener leaves nothing open in the terminal, a successful one its two protected ends.
THEOREM OpenersLeakNothing == Spec => []OpenOrNothing
<1>1. OpenInv => OpenOrNothing
  <2> SUFFICES ASSUME OpenInv, NEW s \in Sessions
               PROVE  /\ at[s] = "failed" => Of(s, fds[App]) = {}
                      /\ at[s] = "open" => Of(s, fds[App]) = {Kept(s).r, Kept(s).w}
                      /\ at[s] = "pumping" => Of(s, fds[App]) \subseteq {Kept(s).r, Kept(s).w}
    BY DEF OpenOrNothing
  <2>1. Kept(s).r = ReadEnd(s, kind[s]) /\ Kept(s).w = WriteEnd(s, kind[s])
    BY KeptEnds DEF OpenInv
  <2>2. /\ at[s] = "failed" => Of(s, fds[App]) = Holds(s, kind[s], "failed")
        /\ at[s] = "open" => Of(s, fds[App]) = Holds(s, kind[s], "open")
    BY NowHolds
  <2>3. /\ Holds(s, kind[s], "failed") = {}
        /\ Holds(s, kind[s], "open") = {ReadEnd(s, kind[s]), WriteEnd(s, kind[s])}
    BY HoldsAt
  <2>4. at[s] = "pumping" => Of(s, fds[App]) \subseteq {ReadEnd(s, kind[s]), WriteEnd(s, kind[s])}
    BY DEF OpenInv, OpenerHolds
  <2> QED
    BY <2>1, <2>2, <2>3, <2>4
<1> QED
  BY <1>1, OpenInvariant, PTL

\* A program holds an end of another session only if its fork was exposed to that session.
THEOREM ExposureOnly == Spec => []ForeignEndsNeedExposure
<1>1. OpenInv => ForeignEndsNeedExposure
  BY DEF OpenInv, Foreign, ForeignEndsNeedExposure
<1> QED
  BY <1>1, OpenInvariant, PTL
=============================================================================
