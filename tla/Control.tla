------------------------------ MODULE Control -------------------------------
(***************************************************************************)
(* The control core (host/ctl.c) and the tool server on top of it          *)
(* (host/mcp.c): the emulator thread steps the machine in chunks, the      *)
(* server thread executes one tool call after the other, and one mutex     *)
(* guards the machine.                                                     *)
(*                                                                         *)
(* A tool call is a sequence of sections, each with the mutex held from    *)
(* end to end; the emulator may run between two of them.  Time is counted  *)
(* in chunks.  Of the screen only two things matter: whether it shows the  *)
(* text being waited for, and whether the machine is in its refresh phase, *)
(* when no complete frame can be read.                                     *)
(***************************************************************************)
EXTENDS Integers, Sequences

CONSTANTS Ports,      \* the comm ports
          Configs,    \* the session configurations that parse
          Loopback,   \* what a port has when it is not configured
          MaxWait,    \* bound: chunks in the longest wait
          MaxFrames   \* bound: frames in a recording

ASSUME ControlAssumption ==
  /\ Loopback \notin Configs /\ "none" \notin Configs \cup {Loopback}
  /\ MaxWait \in Nat /\ MaxFrames \in Nat \ {0}

VARIABLES
  lock,             \* who holds the mutex, between two actions
  emu,              \* the emulator thread
  tool,             \* the server thread
  script,           \* the sections left of the current tool call
  left, stable,     \* of the current section: chunks left, equal samples in a row
  looked,           \* of the current section: the screen has been searched
  paused, speed, quit,
  cfg,              \* comm_cfg
  machine,          \* "up", "gone" (power-up failed) or "freed"
  sess,             \* the session of each port, or "none" (start failed)
  said, gate,       \* the last of XON and XOFF from the terminal; the gate is open
  shown, refresh,   \* the screen
  found, text,      \* the reply: the wait matched; the returned screen has the text
  crashed,
  failed,           \* history: a reset or reconnection failed
  forgot            \* history: the ports whose present configuration was not recorded

sectionVars == <<left, stable, looked>>
paceVars    == <<paused, speed>>
screenVars  == <<said, gate, shown, refresh>>
machineVars == <<machine, sess>>
replyVars   == <<found, text>>
histVars    == <<failed, forgot>>
vars == <<lock, emu, tool, script, sectionVars, paceVars, quit, cfg, machineVars,
          screenVars, replyVars, crashed, histVars>>

AnyConfig == Configs \cup {Loopback}

\* mcp_run has started the control core.
Init ==
  /\ lock = "free" /\ emu = "ready" /\ tool = "serving" /\ script = <<>>
  /\ left = 0 /\ stable = -1 /\ looked = FALSE
  /\ paused = FALSE /\ speed = "paced" /\ quit = FALSE
  /\ cfg \in [Ports -> AnyConfig] /\ machine = "up" /\ sess = cfg
  /\ said = [p \in Ports |-> "none"] /\ gate = [p \in Ports |-> FALSE]
  /\ shown = FALSE /\ refresh = FALSE
  /\ found = FALSE /\ text = FALSE
  /\ crashed = FALSE /\ failed = FALSE /\ forgot = {}

(***************************************************************************)
(* The machine.  Stepping one that is gone, or whose session is, calls     *)
(* through a null pointer.                                                 *)
(***************************************************************************)
Whole == machine = "up" /\ \A p \in Ports : sess[p] # "none"

\* The terminal sends XON or XOFF to a port, or to none of them.
Flow == \/ UNCHANGED <<said, gate>>
        \/ \E p \in Ports, b \in {"xon", "xoff"} :
             said' = [said EXCEPT ![p] = b] /\ gate' = [gate EXCEPT ![p] = (b = "xon")]

Advance == Whole /\ shown' \in BOOLEAN /\ refresh' \in BOOLEAN /\ Flow

\* leave_refresh_locked; it may give up in the refresh phase.
LeaveRefresh == IF refresh THEN Advance ELSE UNCHANGED screenVars

\* A dump in the refresh phase is empty.
Visible == shown' /\ ~refresh'

(***************************************************************************)
(* The emulator thread.                                                    *)
(***************************************************************************)
EmuOnly == UNCHANGED <<lock, tool, script, sectionVars, paceVars, quit, cfg, machineVars,
                       replyVars, crashed, histVars>>

\* One turn with the mutex held.  Paced, it then sleeps unless it has fallen behind.
EmuTurn(next) ==
  /\ emu = "ready" /\ lock = "free" /\ ~quit /\ machine # "freed"
  /\ IF paused THEN UNCHANGED screenVars ELSE Advance
  /\ emu' = next
  /\ EmuOnly

EmuSleeps == (paused \/ speed = "paced") /\ EmuTurn("asleep")
EmuGoesOn == ~paused /\ EmuTurn("ready")

EmuWakes == emu = "asleep" /\ emu' = "ready" /\ UNCHANGED screenVars /\ EmuOnly

EmuQuitsUnlessPaused == /\ emu = "ready" /\ lock = "free" /\ quit /\ ~paused /\ emu' = "done"
                        /\ UNCHANGED screenVars /\ EmuOnly
EmuQuits == /\ emu = "ready" /\ lock = "free" /\ quit /\ machine # "freed" /\ emu' = "done"
            /\ UNCHANGED screenVars /\ EmuOnly

Emulator == EmuSleeps \/ EmuGoesOn \/ EmuWakes \/ EmuQuits

(***************************************************************************)
(* The server thread: calls.                                               *)
(***************************************************************************)
\* Frames of a recording: a capture each, and a wait between two of them.
Recording(n) == [i \in 1..(2 * n - 1) |-> IF i % 2 = 1 THEN "capture" ELSE "run"]

Scripts ==
  { <<"run">>, <<"expect", "read">>,                                \* wait
    <<"read">>, <<"settle", "read">>,                               \* read_screen
    <<"shoot", "status">>, <<"capture", "status">>,                 \* screenshot
    <<"type">>,                                                     \* type, key
    <<"reset">>, <<"session">>, <<"status">>, <<"status", "pace">> }
  \cup {Recording(n) : n \in 1..MaxFrames}

Server == UNCHANGED <<emu, lock, quit, cfg, machineVars, screenVars, paceVars, crashed, histVars>>

Call == /\ tool = "serving" /\ script = <<>>
        /\ script' \in Scripts
        /\ found' = FALSE /\ text' = FALSE
        /\ UNCHANGED <<tool, sectionVars>> /\ Server

\* End of input: ctl_stop.
EndOfInput == /\ tool = "serving" /\ script = <<>>
              /\ tool' = "stopping" /\ script' = <<"quit">>
              /\ UNCHANGED <<sectionVars, replyVars>> /\ Server

FreeMachine == /\ tool = "stopping" /\ script = <<>>
               /\ tool' = "stopped" /\ machine' = "freed"
               /\ UNCHANGED <<emu, lock, script, sectionVars, paceVars, quit, cfg, sess,
                              screenVars, replyVars, crashed, histVars>>
FreeWithoutJoin == FreeMachine
Stop == emu = "done" /\ FreeMachine

(***************************************************************************)
(* The server thread: sections.                                            *)
(***************************************************************************)
\* The sections that run the machine for a time given in the call.
Timed == {"run", "settle", "shoot", "expect"}
Acquire == /\ script # <<>> /\ lock = "free"
           /\ lock' = "tool"
           /\ left' \in IF Head(script) \in Timed THEN 0..MaxWait ELSE {0}
           /\ UNCHANGED <<emu, tool, script, stable, looked, paceVars, quit, cfg, machineVars,
                          screenVars, replyVars, crashed, histVars>>

In(sections) == /\ lock = "tool" /\ Head(script) \in sections
                /\ UNCHANGED <<emu, tool, crashed>>
Release == /\ lock' = "free" /\ script' = Tail(script)
           /\ left' = 0 /\ stable' = -1 /\ looked' = FALSE
Hold    == UNCHANGED <<lock, script>>

\* What a section that only reads the screen or runs the machine leaves alone.
Settings == UNCHANGED <<paceVars, quit, cfg, machineVars, histVars>>

\* ctl_wait_ms.
Run == /\ In({"run"}) /\ Settings /\ UNCHANGED replyVars
       /\ \/ left > 0 /\ Advance /\ left' = left - 1 /\ Hold /\ UNCHANGED <<stable, looked>>
          \/ left = 0 /\ Release /\ UNCHANGED screenVars

\* settle_locked: until three samples in a row are equal, or time is up.
Unsettled == stable < 2 /\ left > 0
Settle ==
  /\ In({"settle", "shoot"}) /\ Settings /\ UNCHANGED replyVars
  /\ Unsettled /\ Advance
  /\ stable' \in IF stable = -1 THEN {0} ELSE {0, stable + 1}
  /\ left' = left - 1
  /\ Hold /\ UNCHANGED looked

Settled == /\ In({"settle"}) /\ Settings /\ UNCHANGED replyVars
           /\ ~Unsettled /\ Release /\ UNCHANGED screenVars

\* ctl_capture.
Capture == /\ In({"capture", "shoot"}) /\ Settings /\ UNCHANGED replyVars
           /\ Head(script) = "capture" \/ ~Unsettled
           /\ LeaveRefresh /\ Release

\* ctl_wait_text: look, then run while there is time.
Look ==
  /\ In({"expect"}) /\ ~looked /\ Settings /\ UNCHANGED text
  /\ LeaveRefresh
  /\ \/ Visible /\ found' = TRUE /\ Release
     \/ ~Visible /\ left = 0 /\ Release /\ UNCHANGED found
     \/ ~Visible /\ left > 0 /\ looked' = TRUE /\ Hold /\ UNCHANGED <<left, stable, found>>
RunOn == /\ In({"expect"}) /\ looked /\ Settings /\ UNCHANGED replyVars
         /\ Advance /\ left' = left - 1 /\ looked' = FALSE
         /\ Hold /\ UNCHANGED stable

\* ctl_read_screen.
ReadWithAStep == /\ In({"read"}) /\ Settings /\ UNCHANGED found
                 /\ Advance /\ text' = Visible /\ Release
Read == /\ In({"read"}) /\ Settings /\ UNCHANGED found
        /\ LeaveRefresh /\ text' = Visible /\ Release

\* ctl_type, ctl_key: the keys of the call, each with its pause.
Type == In({"type"}) /\ Settings /\ Advance /\ Release /\ UNCHANGED replyVars

\* ctl_get_status.
Status == /\ In({"status"}) /\ machine = "up" /\ Settings
          /\ Release /\ UNCHANGED <<screenVars, replyVars>>

\* ctl_pace.
Pace == /\ In({"pace"})
        /\ paused' \in BOOLEAN /\ speed' \in {"paced", "unlimited"}
        /\ Release /\ UNCHANGED <<quit, cfg, machineVars, screenVars, replyVars, histVars>>

Quit == /\ In({"quit"}) /\ quit' = TRUE
        /\ Release
        /\ UNCHANGED <<paceVars, cfg, machineVars, screenVars, replyVars, histVars>>

\* ctl_reset: free the machine, power up another.
Reset ==
  /\ In({"reset"})
  /\ \/ machine' = "up" /\ sess' = cfg /\ UNCHANGED failed
     \/ machine' = "gone" /\ sess' = [p \in Ports |-> "none"] /\ failed' = TRUE
  /\ said' = [p \in Ports |-> "none"] /\ gate' = [p \in Ports |-> FALSE]
  /\ shown' \in BOOLEAN /\ refresh' \in BOOLEAN
  /\ Release /\ UNCHANGED <<paceVars, quit, cfg, replyVars, forgot>>

\* ctl_session: end the old session, start another, open its gate.  The new configuration
\* may fail to be recorded.
Reconnect(open, record) ==
  /\ In({"session"}) /\ machine = "up"
  /\ \E p \in Ports, c \in AnyConfig :
       \/ /\ sess' = [sess EXCEPT ![p] = c]
          /\ gate' = [gate EXCEPT ![p] = open]
          /\ \/ cfg' = [cfg EXCEPT ![p] = IF record THEN c ELSE @] /\ forgot' = forgot \ {p}
             \/ cfg' = [cfg EXCEPT ![p] = Loopback] /\ forgot' = forgot \cup {p}
          /\ UNCHANGED failed
       \/ /\ sess' = [sess EXCEPT ![p] = "none"] /\ failed' = TRUE
          /\ UNCHANGED <<gate, cfg, forgot>>
  /\ Release /\ UNCHANGED <<paceVars, quit, machine, said, shown, refresh, replyVars>>
ReconnectClosed    == Reconnect(FALSE, TRUE)
ReconnectUnrecorded == Reconnect(TRUE, FALSE)
Session == Reconnect(TRUE, TRUE)

Section == \/ Run \/ Settle \/ Settled \/ Capture \/ Look \/ RunOn \/ Read \/ Type
           \/ Status \/ Pace \/ Quit \/ Reset \/ Session

(***************************************************************************)
(* A null call, or a call on the destroyed mutex.                          *)
(***************************************************************************)
\* What the section that holds the mutex does next needs the machine to be there.
Needs(s) == \/ s \in {"settle", "shoot"} /\ (Unsettled \/ (s = "shoot" /\ refresh))
            \/ s = "run" /\ left > 0
            \/ s = "expect" /\ (looked \/ refresh)
            \/ s \in {"read", "capture"} /\ refresh
            \/ s = "type"

Crash == /\ \/ machine = "freed" /\ emu = "ready"
            \/ ~Whole /\ emu = "ready" /\ lock = "free" /\ ~quit /\ ~paused
            \/ ~Whole /\ lock = "tool" /\ Needs(Head(script))
            \/ machine # "up" /\ lock = "tool" /\ Head(script) \in {"status", "session"}
         /\ crashed' = TRUE
         /\ UNCHANGED <<lock, emu, tool, script, sectionVars, paceVars, quit, cfg, machineVars,
                        screenVars, replyVars, histVars>>

Next == /\ ~crashed
        /\ Emulator \/ Call \/ EndOfInput \/ Stop \/ Acquire \/ Section \/ Crash

Spec == Init /\ [][Next]_vars

Runs(A) == ~crashed /\ A

\* Both threads run.  A mutex promises its waiters nothing, but one that is free for as long
\* as the emulator sleeps is taken in the end, and a paced emulator, on a host that keeps
\* up, sleeps again and again.
FairSpec == /\ Spec
            /\ WF_vars(Runs(Emulator)) /\ WF_vars(Runs(Section)) /\ WF_vars(Runs(Crash))
            /\ WF_vars(Runs(Stop))
            /\ SF_vars(Runs(EmuSleeps))
            /\ SF_vars(Runs(emu \in {"asleep", "done"} /\ Acquire))

-----------------------------------------------------------------------------
(***************************************************************************)
(* Properties.                                                             *)
(***************************************************************************)
Sections == {"run", "expect", "read", "settle", "shoot", "capture", "status", "type",
             "reset", "session", "pace", "quit"}

\* Every variable stays in its type.
TypeOK ==
  /\ lock \in {"free", "tool"} /\ emu \in {"ready", "asleep", "done"}
  /\ tool \in {"serving", "stopping", "stopped"}
  /\ script \in Seq(Sections)
  /\ left \in 0..MaxWait /\ stable \in -1..2
  /\ {looked, paused, quit, shown, refresh, found, text, crashed, failed} \subseteq BOOLEAN /\ forgot \subseteq Ports
  /\ speed \in {"paced", "unlimited"}
  /\ cfg \in [Ports -> AnyConfig]
  /\ machine \in {"up", "gone", "freed"}
  /\ sess \in [Ports -> AnyConfig \cup {"none"}]
  /\ said \in [Ports -> {"none", "xon", "xoff"}] /\ gate \in [Ports -> BOOLEAN]

\* Nothing is called through a null pointer or after it was freed -- at the end of input
\* least of all -- unless a reset or a reconnection has failed.
CrashNeedsFailure == crashed => failed

\* ctl.h, mcp.c: a reset or reconnection that fails is answered with an error, and the
\* program goes on.
NoCrash == ~crashed

\* mcp.c, pace: "mode=paused: freeze time except during tool calls -- deterministic":
\* while paused, the screen a wait returns shows what the wait has found, although the
\* mutex was released in between.
PausedMatchIsShown == (script = <<>> /\ found /\ paused) => text

\* mcp.c, wait: "run until the screen contains the substring [...] then return the screen
\* text": the screen of every successful wait contains it.
MatchIsShown == (script = <<>> /\ found) => text

\* ctl_session: after a reconnection the terminal does not send XON again, so a gate is
\* never closed while the terminal believes that output may flow.
NoSilentStall == \A p \in Ports : (said[p] = "xon" /\ sess[p] # "none") => gate[p]

\* ctl.h, ctl_reset: "same ROM/NVR/session configs" -- a port that has a session when the machine
\* is reset has the same one afterwards, whatever was reconnected, failed or was not recorded
\* before; but if its own last configuration was not recorded, it becomes a loopback.
ResetKeepsSessions ==
  [][Reset /\ machine' = "up" =>
       \A p \in Ports : sess[p] # "none" => sess'[p] = IF p \in forgot THEN Loopback ELSE sess[p]]_vars

\* Every tool call ends: waits are bounded, whatever is on the screen.  (A machine that runs
\* without pauses at unlimited speed may keep the mutex to itself.)
Unlimited == speed = "unlimited" /\ ~paused
CallEnds == script # <<>> ~> (script = <<>> \/ crashed \/ Unlimited)

\* The end of input stops the program: the emulator thread sees quit, however it waits.
StopEnds == tool = "stopping" ~> (tool = "stopped" \/ crashed \/ Unlimited)

\* Neither a call nor the shutdown hangs.
EverythingEnds == CallEnds /\ StopEnds
=============================================================================
