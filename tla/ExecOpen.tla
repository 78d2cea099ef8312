------------------------------ MODULE ExecOpen ------------------------------
(***************************************************************************)
(* The openers of ssu/session.c and the descriptors of the processes they  *)
(* start.  Each session has an opener thread of its own, and the threads   *)
(* of several sessions run at once (the two comm ports at start-up, a      *)
(* session swapped in later), so a fork by one copies what another has     *)
(* open at that moment.                                                    *)
(*                                                                         *)
(* One action is one system call, or a run of them that touches only the   *)
(* caller's own descriptors.  What the kernel does with them (fork, exec,  *)
(* end of file) is modelled from how session.c uses it.                    *)
(***************************************************************************)
CONSTANTS Sessions,     \* a session, and the process it starts
          App,          \* the process of the terminal
          KindsOpened   \* bound: the kinds of session that are started

ASSUME OpenAssumption ==
  App \notin Sessions /\ KindsOpened \subseteq {"exec", "pty", "pipe", "pipes"}

VARIABLES
  kind,        \* of each session: "exec", "pty", "pipe" or "pipes"
  at,          \* where its opener is
  fds,         \* of each process: its open descriptors
  child,       \* where the process of each session is
  destroyed,   \* the sessions whose endpoints are gone
  exposed      \* history: <<s, t>> when s forked while ends of t were unprotected

vars == <<kind, at, fds, child, destroyed, exposed>>

(***************************************************************************)
(* A descriptor: of which session, which end, whether the first or a       *)
(* duplicate, and whether exec closes it.                                  *)
(***************************************************************************)
Fd(s, end, dup, cloexec) == [of |-> s, end |-> end, dup |-> dup, cloexec |-> cloexec]
Of(s, held) == {f \in held : f.of = s}
Closing(s, ends) == [fds EXCEPT ![App] = {f \in @ : ~(f.of = s /\ f.end \in ends)}]
Opening(new) == [fds EXCEPT ![App] = @ \cup new]
Protecting(s, end) ==
  [fds EXCEPT ![App] = {IF f.of = s /\ f.end = end THEN [f EXCEPT !.cloexec = TRUE] ELSE f
                        : f \in @}]

\* The ends the child is given, by what it does with them, and the two the terminal keeps.
ChildEnds(s) == IF kind[s] = "exec" THEN {"in.r", "out.w"} ELSE {"slave"}
FeedsChild(s) == IF kind[s] = "exec" THEN "in.w" ELSE "master"
FedByChild(s) == IF kind[s] = "exec" THEN "out.w" ELSE "slave"

Kept(s) == CASE kind[s] = "exec" -> [r |-> Fd(s, "out.r", FALSE, TRUE), w |-> Fd(s, "in.w", FALSE, TRUE)]
             [] kind[s] = "pty"  -> [r |-> Fd(s, "master", TRUE, TRUE), w |-> Fd(s, "master", FALSE, TRUE)]
             [] kind[s] = "pipe" -> [r |-> Fd(s, "fifo", FALSE, TRUE), w |-> Fd(s, "fifo", TRUE, TRUE)]
             [] OTHER            -> [r |-> Fd(s, "rx", FALSE, TRUE), w |-> Fd(s, "tx", FALSE, TRUE)]

HoldsEnd(p, s, end) == \E f \in fds[p] : f.of = s /\ f.end = end
AnyoneHolds(s, end) == \E p \in DOMAIN fds : HoldsEnd(p, s, end)

Init == /\ kind \in [Sessions -> KindsOpened]
        /\ at = [s \in Sessions |-> "start"]
        /\ fds = [p \in Sessions \cup {App} |-> {}]
        /\ child = [s \in Sessions |-> "none"]
        /\ destroyed = {} /\ exposed = {}

(***************************************************************************)
(* The opener.                                                             *)
(***************************************************************************)
Goes(s, from, to) == at[s] = from /\ at' = [at EXCEPT ![s] = to]
Opener == UNCHANGED <<kind, child, destroyed, exposed>>

\* open_pipe and open_pipes ask for close-on-exec as they open.
OpenFirst(s) == /\ kind[s] \in {"pipe", "pipes"} /\ Goes(s, "start", "second")
                /\ fds' = Opening({Kept(s).r})
                /\ Opener

\* The second open of open_pipes waits until the pipe has a reader.
OpenSecond(s) == /\ Goes(s, "second", "open")
                 /\ fds' = Opening({Kept(s).w})
                 /\ Opener

\* open_exec: two pipes, whose descriptors survive an exec until the opener says otherwise.
PipeIn(s) == /\ kind[s] = "exec" /\ Goes(s, "start", "out")
             /\ fds' = Opening({Fd(s, e, FALSE, FALSE) : e \in {"in.r", "in.w"}})
             /\ Opener
PipeOut(s) == /\ Goes(s, "out", "fork")
              /\ fds' = Opening({Fd(s, e, FALSE, FALSE) : e \in {"out.r", "out.w"}})
              /\ Opener

\* open_exec_pty: the master is protected at once, but by a call of its own.
OpenMaster(s) == /\ kind[s] = "pty" /\ Goes(s, "start", "protect_master")
                 /\ fds' = Opening({Fd(s, "master", FALSE, FALSE)})
                 /\ Opener
ProtectMaster(s) == /\ Goes(s, "protect_master", "slave")
                    /\ fds' = Protecting(s, "master")
                    /\ Opener
OpenSlaveUnprotected(s) == /\ Goes(s, "slave", "fork")
                           /\ fds' = Opening({Fd(s, "slave", FALSE, FALSE)})
                           /\ Opener
OpenSlave(s) == /\ Goes(s, "slave", "fork")
                /\ fds' = Opening({Fd(s, "slave", FALSE, TRUE)})
                /\ Opener

\* The child has a copy of everything the terminal has open, whoever opened it.
IsUnprotected(t) == \/ at[t] \in {"out", "protect_in", "protect_out", "protect_master"}
                    \/ at[t] \in {"fork", "close"} /\ kind[t] = "exec"
Fork(s) == /\ Goes(s, "fork", "close")
           /\ fds' = [fds EXCEPT ![s] = fds[App]]
           /\ child' = [child EXCEPT ![s] = "forked"]
           /\ exposed' = exposed \cup {<<s, t>> : t \in {u \in Sessions \ {s} : IsUnprotected(u)}}
           /\ UNCHANGED <<kind, destroyed>>

CloseChildEndsButOutput(s) ==
  /\ Goes(s, "close", IF kind[s] = "exec" THEN "protect_in" ELSE "copy_master")
  /\ fds' = Closing(s, ChildEnds(s) \ {"out.w"})
  /\ Opener
CloseChildEnds(s) == /\ Goes(s, "close", IF kind[s] = "exec" THEN "protect_in" ELSE "copy_master")
                     /\ fds' = Closing(s, ChildEnds(s))
                     /\ Opener
ProtectIn(s)  == Goes(s, "protect_in", "protect_out") /\ fds' = Protecting(s, "in.w") /\ Opener
ProtectOut(s) == Goes(s, "protect_out", "open") /\ fds' = Protecting(s, "out.r") /\ Opener
CopyMaster(s) == /\ Goes(s, "copy_master", "open")
                 /\ fds' = Opening({Fd(s, "master", TRUE, TRUE)})
                 /\ Opener

\* An error branch closes what has been opened so far; after the fork of open_exec there is none.
CanFail(s) == at[s] \in {"start", "second", "out", "slave", "fork", "copy_master"}
FailsKeepingInput(s) ==
  /\ CanFail(s) /\ at' = [at EXCEPT ![s] = "failed"]
  /\ fds' = Closing(s, {"in.r", "out.r", "out.w", "master", "slave", "fifo", "rx", "tx"})
  /\ Opener
Fails(s) == /\ CanFail(s) /\ at' = [at EXCEPT ![s] = "failed"]
            /\ fds' = [fds EXCEPT ![App] = @ \ Of(s, @)]
            /\ Opener

\* opener_thread hands the two descriptors to the pump threads, or closes those it could not.
StartPumps(s) == /\ Goes(s, "open", "pumping")
                 /\ \E lost \in {{}, {Kept(s).w}, {Kept(s).r, Kept(s).w}} :
                      fds' = [fds EXCEPT ![App] = @ \ lost]
                 /\ Opener

(***************************************************************************)
(* The child, up to the exec, and the program after it.                    *)
(***************************************************************************)
Becomes(s, from, to) == child[s] = from /\ child' = [child EXCEPT ![s] = to]
Child == UNCHANGED <<kind, at, destroyed, exposed>>

Rewired(s, closed) == {f \in fds[s] : ~closed[f]} \cup {Fd(s, e, TRUE, FALSE) : e \in ChildEnds(s)}
Rewire(s) == /\ Becomes(s, "forked", "ready")
             /\ fds' = [fds EXCEPT ![s] = Rewired(s, [f \in @ |-> f.of = s])]
             /\ Child

Exec(s) == /\ Becomes(s, "ready", "runs")
           /\ fds' = [fds EXCEPT ![s] = {f \in @ : ~f.cloexec}]
           /\ Child

\* exec fails, or the program ends by itself.
Exit(s) == /\ child[s] \in {"ready", "runs"}
           /\ child' = [child EXCEPT ![s] = "gone"]
           /\ fds' = [fds EXCEPT ![s] = {}]
           /\ Child

\* The program reads its input to the end and ends (a shell, cat).
InputEnded(s) == ~AnyoneHolds(s, FeedsChild(s))
ExitAtEnd(s) == child[s] = "runs" /\ InputEnded(s) /\ Exit(s)

(***************************************************************************)
(* The terminal's side of a session, as IoSession has it.                  *)
(***************************************************************************)
Pump == UNCHANGED <<kind, at, child, exposed>>

Destroy(s) == /\ s \notin destroyed /\ destroyed' = destroyed \cup {s}
              /\ UNCHANGED fds /\ Pump

\* The writer ends when its channel is closed, or when nobody reads what it writes.
WriterEnds(s) == /\ at[s] = "pumping" /\ Kept(s).w \in fds[App]
                 /\ s \in destroyed \/ (kind[s] = "exec" /\ ~AnyoneHolds(s, "in.r"))
                 /\ fds' = [fds EXCEPT ![App] = @ \ {Kept(s).w}]
                 /\ UNCHANGED destroyed /\ Pump

\* The reader ends at the end of the program's output...
ReaderSeesEnd(s) == /\ at[s] = "pumping" /\ Kept(s).r \in fds[App]
                    /\ kind[s] \in {"exec", "pty"} /\ ~AnyoneHolds(s, FedByChild(s))
                    /\ fds' = [fds EXCEPT ![App] = @ \ {Kept(s).r}]
                    /\ UNCHANGED destroyed /\ Pump
\* ... or with a byte for which there is no longer a channel.
ReaderSeesClosed(s) == /\ at[s] = "pumping" /\ Kept(s).r \in fds[App]
                       /\ s \in destroyed
                       /\ child[s] = "runs" \/ kind[s] \in {"pipe", "pipes"}
                       /\ fds' = [fds EXCEPT ![App] = @ \ {Kept(s).r}]
                       /\ UNCHANGED destroyed /\ Pump

OpenerSteps(s) == \/ OpenFirst(s)
                  \/ PipeIn(s) \/ PipeOut(s) \/ OpenMaster(s) \/ ProtectMaster(s) \/ OpenSlave(s)
                  \/ Fork(s) \/ CloseChildEnds(s) \/ ProtectIn(s) \/ ProtectOut(s) \/ CopyMaster(s)
                  \/ Fails(s) \/ StartPumps(s)
ChildSteps(s) == Rewire(s) \/ Exec(s)

Next == \E s \in Sessions :
          \/ OpenerSteps(s) \/ OpenSecond(s)
          \/ ChildSteps(s) \/ Exit(s)
          \/ Destroy(s) \/ WriterEnds(s) \/ ReaderSeesEnd(s) \/ ReaderSeesClosed(s)

Spec == Init /\ [][Next]_vars

\* Every thread runs, except that nothing makes somebody open the other end of a named pipe.  A
\* program ends at the end of its input, and otherwise need not.  (A session takes each step at
\* most once, so one condition for all of them is the same as one for each.)
Runs(s) == OpenerSteps(s) \/ ChildSteps(s) \/ ExitAtEnd(s) \/ WriterEnds(s) \/ ReaderSeesEnd(s)
FairSpec == Spec /\ WF_vars(\E s \in Sessions : Runs(s))

-----------------------------------------------------------------------------
(***************************************************************************)
(* Properties.                                                             *)
(***************************************************************************)
\* Every variable stays in its type, and an opener at a place of its kind of session.
Descriptor == [of : Sessions, dup : BOOLEAN, cloexec : BOOLEAN,
               end : {"in.r", "in.w", "out.r", "out.w", "master", "slave", "fifo", "rx", "tx"}]
Places(k) ==
  {"start", "open", "pumping", "failed"} \cup
  (CASE k = "exec" -> {"out", "fork", "close", "protect_in", "protect_out"}
     [] k = "pty"  -> {"protect_master", "slave", "fork", "close", "copy_master"}
     [] OTHER      -> {"second"})
TypeOK ==
  /\ kind \in [Sessions -> {"exec", "pty", "pipe", "pipes"}]
  /\ DOMAIN at = Sessions /\ \A s \in Sessions : at[s] \in Places(kind[s])
  /\ child \in [Sessions -> {"none", "forked", "ready", "runs", "gone"}]
  /\ fds \in [Sessions \cup {App} -> SUBSET Descriptor]
  /\ destroyed \subseteq Sessions /\ exposed \subseteq Sessions \X Sessions

\* session.c: an opener that has failed has left nothing of its session open in the terminal,
\* whichever call failed; one that has succeeded leaves its two descriptors, safe from any later
\* exec, and no other.
OpenOrNothing ==
  \A s \in Sessions :
    /\ at[s] = "failed" => Of(s, fds[App]) = {}
    /\ at[s] = "open" => Of(s, fds[App]) = {Kept(s).r, Kept(s).w}
    /\ at[s] = "pumping" => Of(s, fds[App]) \subseteq {Kept(s).r, Kept(s).w}

\* A program holds an end of another session's pipes or terminal only if it was forked while the
\* other opener was between opening that end and protecting it.
ForeignEndsNeedExposure ==
  \A s, t \in Sessions :
    child[s] = "runs" /\ s # t /\ Of(t, fds[s]) # {} => <<s, t>> \in exposed

\* Nobody but the session's own program holds what the terminal waits on: when a program has
\* ended its reader sees the end and stops, unless the program of another session was exposed.
EndIsSeen ==
  \A s \in Sessions :
    (child[s] = "gone" /\ Kept(s).r \in fds[App])
      ~> (Kept(s).r \notin fds[App] \/ \E t \in Sessions : <<t, s>> \in exposed)

\* Destroying exec sessions ends their programs, if no program outside of them was exposed to
\* them and they were not exposed to each other in a circle.  (In a circle each program waits for
\* an end of input that the next one keeps open: none ever ends.)
Sheltered(S) == /\ \A e \in exposed : e[2] \in S => e[1] \in S
                /\ \A T \in SUBSET S \ {{}} : \E t \in T : \A u \in T : <<u, t>> \notin exposed
DestroyEndsPrograms ==
  \A S \in SUBSET Sessions :
    (S \subseteq destroyed /\ \A s \in S : kind[s] = "exec")
      ~> ((\A s \in S : child[s] \in {"none", "gone"}) \/ ~Sheltered(S))

\* Programs and the sessions that run them end together.
EndsAreSeen == EndIsSeen /\ DestroyEndsPrograms
=============================================================================
