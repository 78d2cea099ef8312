----------------------------- MODULE ControlProofs -----------------------------
(***************************************************************************)
(* The safety of the control core (Control): for all ports, configurations *)
(* and lengths of waits and recordings.                                    *)
(***************************************************************************)
EXTENDS Control, TLAPS

\* The type invariant, the booleans apart.
Flags == /\ looked \in BOOLEAN /\ paused \in BOOLEAN /\ quit \in BOOLEAN
         /\ shown \in BOOLEAN /\ refresh \in BOOLEAN /\ found \in BOOLEAN /\ text \in BOOLEAN
         /\ crashed \in BOOLEAN /\ failed \in BOOLEAN
Threads == /\ lock \in {"free", "tool"} /\ emu \in {"ready", "asleep", "done"}
           /\ tool \in {"serving", "stopping", "stopped"}
           /\ script \in Seq(Sections)
           /\ left \in 0..MaxWait /\ stable \in -1..2
           /\ speed \in {"paced", "unlimited"}
Machine == /\ cfg \in [Ports -> AnyConfig]
           /\ machine \in {"up", "gone", "freed"}
           /\ sess \in [Ports -> AnyConfig \cup {"none"}]
           /\ said \in [Ports -> {"none", "xon", "xoff"}] /\ gate \in [Ports -> BOOLEAN]
           /\ forgot \subseteq Ports

\* Where the server thread stands in a call.
Place ==
  /\ lock = "tool" => script # <<>>
  /\ looked => lock = "tool" /\ left > 0 /\ script = <<"expect", "read">>
  /\ tool = "stopped" => script = <<>>
  /\ \A i \in 2..Len(script) : script[i] # "expect"
  /\ script # <<>> /\ script[1] = "expect" => script = <<"expect", "read">>

\* A machine is freed after both threads have ended; what else is missing was lost by a failure.
Losses ==
  /\ machine = "freed" => emu = "done" /\ tool = "stopped"
  /\ ~failed => machine # "gone" /\ \A p \in Ports : sess[p] # "none"

\* A session is the one that is recorded, or none is.
Recorded == \A p \in Ports : IF p \in forgot THEN cfg[p] = Loopback
                            ELSE sess[p] # "none" => sess[p] = cfg[p]

\* What a wait has found is shown until it is read, while no time passes.
Matched ==
  found => /\ script \in {<<>>, <<"read">>, <<"quit">>}
           /\ paused /\ script = <<"read">> => shown /\ ~refresh
           /\ paused /\ script # <<"read">> => text

ControlInv == /\ Flags /\ Threads /\ Machine
              /\ Place /\ Losses /\ Recorded /\ Matched
              /\ NoSilentStall /\ CrashNeedsFailure

LEMMA TypeParts == Flags /\ Threads /\ Machine => TypeOK
  BY DEF Flags, Threads, Machine, TypeOK

-----------------------------------------------------------------------------
(***************************************************************************)
(* The scripts of the calls.                                               *)
(***************************************************************************)
Singles == {<<"run">>, <<"read">>, <<"type">>, <<"reset">>, <<"session">>, <<"status">>}
Pairs   == {<<"expect", "read">>, <<"settle", "read">>, <<"shoot", "status">>,
            <<"capture", "status">>, <<"status", "pace">>}

LEMMA SectionsAsSequences ==
  \A a, b \in Sections : <<a>> \in Seq(Sections) /\ <<a, b>> \in Seq(Sections)
  OBVIOUS

\* Every call is a sequence of sections, and waits for a text only to read the screen then.
LEMMA CallsAreSections ==
  ASSUME NEW s \in Scripts
  PROVE /\ s \in Seq(Sections) /\ s # <<>>
        /\ \A i \in 2..Len(s) : s[i] # "expect"
        /\ s[1] = "expect" => s = <<"expect", "read">>
<1>1. CASE \E n \in 1..MaxFrames : s = Recording(n)
  <2> PICK n \in 1..MaxFrames : s = Recording(n)
    BY <1>1
  <2>1. n \in Nat /\ 2 * n - 1 \in Nat /\ 2 * n - 1 >= 1
    BY ControlAssumption
  <2>2. s \in [1..(2 * n - 1) -> Sections] /\ \A i \in 1..(2 * n - 1) : s[i] # "expect"
    BY DEF Recording, Sections
  <2>3. s \in Seq(Sections) /\ Len(s) = 2 * n - 1
    BY <2>1, <2>2
  <2> QED
    BY <2>1, <2>2, <2>3
<1>2. CASE s \in Singles
  <2>1. \E a \in Sections : s = <<a>>
    BY <1>2 DEF Singles, Sections
  <2>2. Len(s) = 1 /\ s # <<>> /\ s[1] # "expect"
    BY <1>2 DEF Singles
  <2> QED
    BY <2>1, <2>2, SectionsAsSequences
<1>3. CASE s \in Pairs
  <2>1. \E a, b \in Sections : s = <<a, b>>
    BY <1>3 DEF Pairs, Sections
  <2>2. Len(s) = 2 /\ s # <<>> /\ s[2] # "expect" /\ (s[1] = "expect" => s = <<"expect", "read">>)
    BY <1>3 DEF Pairs
  <2> QED
    BY <2>1, <2>2, SectionsAsSequences
<1>4. s \in Singles \/ s \in Pairs \/ \E n \in 1..MaxFrames : s = Recording(n)
  BY DEF Scripts, Singles, Pairs
<1> QED
  BY <1>1, <1>2, <1>3, <1>4

\* The end of a section.
LEMMA TailIsPlaced ==
  ASSUME Threads, Place, script # <<>>
  PROVE /\ Tail(script) \in Seq(Sections)
        /\ \A i \in 2..Len(Tail(script)) : Tail(script)[i] # "expect"
        /\ Tail(script) # <<>> => Tail(script)[1] # "expect"
<1>1. script \in Seq(Sections) /\ Len(script) \in Nat /\ Len(script) >= 1
  BY DEF Threads
<1>2. Tail(script) \in Seq(Sections) /\ Len(Tail(script)) = Len(script) - 1
  BY <1>1
<1>3. \A i \in 1..Len(Tail(script)) : Tail(script)[i] = script[i + 1]
  BY <1>1
<1>4. \A i \in 1..Len(Tail(script)) : Tail(script)[i] # "expect"
  BY <1>1, <1>2, <1>3 DEF Place
<1>5. Tail(script) # <<>> => 1 \in 1..Len(Tail(script))
  BY <1>2
<1> QED
  BY <1>2, <1>4, <1>5

-----------------------------------------------------------------------------
LEMMA ControlBegins == Init => ControlInv
<1> SUFFICES ASSUME Init PROVE ControlInv
  OBVIOUS
<1>1. Flags
  BY DEF Init, Flags
<1>2. Threads
  BY ControlAssumption DEF Init, Threads
<1>3. Machine
  <2>1. cfg \in [Ports -> AnyConfig] /\ machine = "up" /\ sess = cfg
    BY DEF Init
  <2>2. /\ said \in [Ports -> {"none", "xon", "xoff"}] /\ gate \in [Ports -> BOOLEAN]
        /\ forgot \subseteq Ports
    BY DEF Init
  <2> QED
    BY <2>1, <2>2 DEF Machine
<1>4. Place /\ Matched /\ CrashNeedsFailure
  BY DEF Init, Place, Matched, CrashNeedsFailure
<1>5. Losses /\ Recorded
  BY ControlAssumption DEF Init, Losses, Recorded, AnyConfig
<1>6. NoSilentStall
  BY DEF Init, NoSilentStall
<1> QED
  BY <1>1, <1>2, <1>3, <1>4, <1>5, <1>6 DEF ControlInv

(***************************************************************************)
(* What the steps of the server thread do to its place in the call.        *)
(***************************************************************************)
LEMMA SectionsEndOrGoOn ==
  ASSUME ControlInv, Section
  PROVE /\ lock = "tool" /\ UNCHANGED <<emu, tool, crashed>>
        /\ \/ Release
           \/ Hold /\ left' \in 0..MaxWait /\ stable' \in -1..2
              /\ (looked' => left' > 0 /\ script = <<"expect", "read">>)
<1>1. /\ looked => left > 0 /\ script = <<"expect", "read">>
      /\ left \in 0..MaxWait /\ stable \in -1..2
  BY DEF ControlInv, Threads, Place
<1> DEFINE Ends == Release
           GoesOn == /\ Hold /\ left' \in 0..MaxWait /\ stable' \in -1..2
                     /\ (looked' => left' > 0 /\ script = <<"expect", "read">>)
<1>2. ASSUME Run PROVE In({"run"}) /\ (Ends \/ GoesOn)
  <2>1. Head(script) = "run"
    BY <1>2 DEF Run, In
  <2>2. ~looked
    BY <1>1, <2>1
  <2>3. Ends \/ (left > 0 /\ left' = left - 1 /\ stable' = stable /\ looked' = looked /\ Hold)
    BY <1>2 DEF Run
  <2>4. In({"run"})
    BY <1>2 DEF Run
  <2> HIDE DEF Ends
  <2> QED
    BY <1>1, <2>2, <2>3, <2>4, ControlAssumption
<1>3. ASSUME Settle PROVE In({"settle", "shoot"}) /\ GoesOn
  <2>1. Head(script) \in {"settle", "shoot"}
    BY <1>3 DEF Settle, In
  <2>2. ~looked
    BY <1>1, <2>1
  <2>3. stable < 2 /\ left > 0 /\ stable' \in (IF stable = -1 THEN {0} ELSE {0, stable + 1})
        /\ left' = left - 1 /\ looked' = looked /\ Hold
    BY <1>3 DEF Settle, Unsettled
  <2>4. In({"settle", "shoot"})
    BY <1>3 DEF Settle
  <2>5. stable' \in -1..2 /\ left' \in 0..MaxWait
    BY <1>1, <2>3, ControlAssumption
  <2> QED
    BY <2>2, <2>3, <2>4, <2>5
<1>4. ASSUME Settled \/ Capture \/ Read \/ Type \/ Status \/ Pace \/ Quit \/ Reset \/ Session
      PROVE  Ends /\ In(Sections)
  <2> HIDE DEF Ends
  <2>1. Ends
    BY <1>4 DEF Settled, Capture, Read, Type, Status, Pace, Quit, Reset, Session, Reconnect, Ends
  <2>2. In(Sections)
    BY <1>4 DEF Settled, Capture, Read, Type, Status, Pace, Quit, Reset, Session, Reconnect, In, Sections
  <2> QED
    BY <2>1, <2>2
<1>5. ASSUME Look PROVE In({"expect"}) /\ (Ends \/ GoesOn)
  <2>1. Head(script) = "expect" /\ script # <<>> /\ script \in Seq(Sections)
    BY <1>5 DEF Look, In, ControlInv, Place, Threads
  <2>2. script[1] = "expect"
    BY <2>1
  <2>3. script = <<"expect", "read">>
    BY <2>1, <2>2 DEF ControlInv, Place
  <2>4. Ends \/ (left > 0 /\ left' = left /\ stable' = stable /\ Hold)
    BY <1>5 DEF Look
  <2>5. In({"expect"})
    BY <1>5 DEF Look
  <2> HIDE DEF Ends
  <2> QED
    BY <1>1, <2>3, <2>4, <2>5
<1>6. ASSUME RunOn PROVE In({"expect"}) /\ GoesOn
  <2>1. looked /\ left' = left - 1 /\ stable' = stable /\ looked' = FALSE /\ Hold
    BY <1>6 DEF RunOn
  <2>2. In({"expect"})
    BY <1>6 DEF RunOn
  <2>3. left > 0
    BY <1>1, <2>1
  <2>4. left - 1 \in 0..MaxWait
    BY <1>1, <2>3, ControlAssumption
  <2> QED
    BY <1>1, <2>1, <2>2, <2>4
<1>7. ASSUME NEW S, In(S) PROVE lock = "tool" /\ UNCHANGED <<emu, tool, crashed>>
  BY <1>7 DEF In
<1> HIDE DEF Ends, GoesOn
<1>8. Ends \/ GoesOn
  BY <1>2, <1>3, <1>4, <1>5, <1>6 DEF Section
<1>9. lock = "tool" /\ UNCHANGED <<emu, tool, crashed>>
  BY <1>2, <1>3, <1>4, <1>5, <1>6, <1>7 DEF Section
<1> QED
  BY <1>8, <1>9 DEF Ends, GoesOn

LEMMA PlaceStep == ASSUME ControlInv, Next PROVE Threads' /\ Place'
<1>1. Threads /\ Place
  BY DEF ControlInv
<1>2. CASE Emulator \/ Crash
  <2>1. UNCHANGED <<lock, tool, script, left, stable, looked, speed>>
    BY <1>2 DEF Emulator, EmuSleeps, EmuGoesOn, EmuWakes, EmuQuits, EmuTurn, EmuOnly, Crash,
         sectionVars, paceVars
  <2>2. emu' \in {"ready", "asleep", "done"}
    BY <1>1, <1>2 DEF Emulator, EmuSleeps, EmuGoesOn, EmuWakes, EmuQuits, EmuTurn, Crash, Threads
  <2> QED
    BY <1>1, <2>1, <2>2 DEF Threads, Place
<1>3. CASE Call
  <2>1. /\ tool = "serving" /\ script = <<>> /\ script' \in Scripts
        /\ UNCHANGED <<emu, lock, tool, left, stable, looked, speed>>
    BY <1>3 DEF Call, Server, sectionVars, paceVars
  <2>2. lock = "free" /\ ~looked
    BY <1>1, <2>1 DEF Place, Threads
  <2> QED
    BY <1>1, <2>1, <2>2, CallsAreSections DEF Threads, Place
<1>4. CASE EndOfInput
  <2>1. /\ script = <<>> /\ script' = <<"quit">> /\ tool' = "stopping"
        /\ UNCHANGED <<emu, lock, left, stable, looked, speed>>
    BY <1>4 DEF EndOfInput, Server, sectionVars, paceVars
  <2>2. lock = "free" /\ ~looked
    BY <1>1, <2>1 DEF Place, Threads
  <2>3. script' \in Seq(Sections)
    BY <2>1, SectionsAsSequences DEF Sections
  <2>4. Len(script') = 1 /\ script'[1] = "quit"
    BY <2>1
  <2> QED
    BY <1>1, <2>1, <2>2, <2>3, <2>4 DEF Threads, Place
<1>5. CASE Stop
  <2>1. /\ script = <<>> /\ tool' = "stopped"
        /\ UNCHANGED <<emu, lock, script, left, stable, looked, speed>>
    BY <1>5 DEF Stop, FreeMachine, sectionVars, paceVars
  <2> QED
    BY <1>1, <2>1 DEF Threads, Place
<1>6. CASE Acquire
  <2>1. /\ script # <<>> /\ lock' = "tool" /\ lock = "free"
        /\ left' \in IF Head(script) \in Timed THEN 0..MaxWait ELSE {0}
        /\ UNCHANGED <<emu, tool, script, stable, looked, speed>>
    BY <1>6 DEF Acquire, paceVars
  <2>2. left' \in 0..MaxWait
    BY <2>1, ControlAssumption
  <2> QED
    BY <1>1, <2>1, <2>2 DEF Threads, Place
<1>7. CASE Section
  <2>1. speed' \in {"paced", "unlimited"}
    BY <1>1, <1>7 DEF Section, Run, Settle, Settled, Capture, Look, RunOn, Read, Type, Status, Pace, Quit,
         Reset, Session, Reconnect, Settings, paceVars, Threads
  <2>2. CASE Release
    <3>1. script # <<>> /\ lock' = "free" /\ script' = Tail(script) /\ left' = 0 /\ stable' = -1
          /\ looked' = FALSE /\ UNCHANGED <<emu, tool>>
      BY <1>1, <1>7, <2>2, SectionsEndOrGoOn DEF Release, Place
    <3> QED
      BY <1>1, <2>1, <3>1, TailIsPlaced, ControlAssumption DEF Threads, Place
  <2>3. CASE Hold /\ left' \in 0..MaxWait /\ stable' \in -1..2
              /\ (looked' => left' > 0 /\ script = <<"expect", "read">>)
    <3>1. lock = "tool" /\ lock' = "tool" /\ script' = script /\ UNCHANGED <<emu, tool>>
      BY <1>7, <2>3, SectionsEndOrGoOn DEF Hold
    <3> QED
      BY <1>1, <2>1, <2>3, <3>1 DEF Threads, Place
  <2> QED
    BY <1>7, <2>2, <2>3, SectionsEndOrGoOn
<1> QED
  BY <1>2, <1>3, <1>4, <1>5, <1>6, <1>7 DEF Next

-----------------------------------------------------------------------------
(***************************************************************************)
(* The machine and its screen.                                             *)
(***************************************************************************)
\* Only three steps do more to the machine than to run it.
LEMMA MachineSteps ==
  ASSUME Next
  PROVE  \/ Stop \/ Reset \/ Session
         \/ /\ UNCHANGED <<cfg, machine, sess, failed, forgot>>
            /\ UNCHANGED screenVars \/ Advance
<1> DEFINE Runs1 == /\ UNCHANGED <<cfg, machine, sess, failed, forgot>>
                    /\ UNCHANGED screenVars \/ Advance
<1>1. ASSUME Emulator PROVE Runs1
  BY <1>1 DEF Emulator, EmuSleeps, EmuGoesOn, EmuWakes, EmuQuits, EmuTurn, EmuOnly, machineVars, histVars
<1>2. ASSUME Call \/ EndOfInput PROVE Runs1
  BY <1>2 DEF Call, EndOfInput, Server, machineVars, histVars
<1>3. ASSUME Acquire \/ Crash PROVE Runs1
  BY <1>3 DEF Acquire, Crash, machineVars, histVars
<1>4. ASSUME Run \/ Settle \/ Settled \/ Capture \/ Look \/ RunOn \/ Read \/ Type \/ Status
      PROVE  Runs1
  BY <1>4 DEF Run, Settle, Settled, Capture, Look, RunOn, Read, Type, Status, Settings, LeaveRefresh,
     machineVars, histVars
<1>5. ASSUME Pace \/ Quit PROVE Runs1
  BY <1>5 DEF Pace, Quit, machineVars, histVars
<1> HIDE DEF Runs1
<1>6. Stop \/ Reset \/ Session \/ Runs1
  BY <1>1, <1>2, <1>3, <1>4, <1>5 DEF Next, Section
<1> QED
  BY <1>6 DEF Runs1

LEMMA FlowIsTyped ==
  ASSUME Machine, Flow
  PROVE  said' \in [Ports -> {"none", "xon", "xoff"}] /\ gate' \in [Ports -> BOOLEAN]
  BY DEF Machine, Flow

LEMMA FlowOpensGates ==
  ASSUME Machine, NoSilentStall, Flow, sess' = sess
  PROVE  NoSilentStall'
<1>1. CASE UNCHANGED <<said, gate>>
  BY <1>1 DEF NoSilentStall
<1>2. ASSUME NEW p \in Ports, NEW b \in {"xon", "xoff"},
             said' = [said EXCEPT ![p] = b], gate' = [gate EXCEPT ![p] = (b = "xon")]
      PROVE  NoSilentStall'
  <2> SUFFICES ASSUME NEW q \in Ports, said'[q] = "xon", sess[q] # "none" PROVE gate'[q]
    BY DEF NoSilentStall
  <2>1. CASE q = p
    <3>1. b = "xon" /\ gate'[q] = (b = "xon")
      BY <1>2, <2>1 DEF Machine
    <3> QED
      BY <3>1
  <2>2. CASE q # p
    BY <1>2, <2>2 DEF Machine, NoSilentStall
  <2> QED
    BY <2>1, <2>2
<1> QED
  BY <1>1, <1>2 DEF Flow

\* A thread that has ended stays ended.
LEMMA EndsAreFinal ==
  ASSUME Next, Place, Threads
  PROVE  (emu = "done" => emu' = "done") /\ (tool = "stopped" => tool' = "stopped")
<1>1. CASE Emulator
  BY <1>1 DEF Emulator, EmuSleeps, EmuGoesOn, EmuWakes, EmuQuits, EmuTurn, EmuOnly
<1>2. CASE Call \/ EndOfInput \/ Stop
  BY <1>2 DEF Call, EndOfInput, Stop, FreeMachine, Server
<1>3. CASE Acquire \/ Crash
  BY <1>3 DEF Acquire, Crash
<1>4. ASSUME Section PROVE UNCHANGED <<emu, tool>>
  <2>1. Section => \E S : In(S)
    BY DEF Section, Run, Settle, Settled, Capture, Look, RunOn, Read, Type, Status, Pace, Quit,
       Reset, Session, Reconnect
  <2> QED
    BY <1>4, <2>1 DEF In
<1> QED
  BY <1>1, <1>2, <1>3, <1>4 DEF Next

\* The machine, its sessions and what is recorded of them.
MachineKept == Machine /\ Losses /\ Recorded /\ NoSilentStall

LEMMA ResetKeepsMachine ==
  ASSUME ControlInv, Reset PROVE MachineKept'
<1>1. /\ \/ machine' = "up" /\ sess' = cfg /\ failed' = failed
         \/ machine' = "gone" /\ sess' = [p \in Ports |-> "none"] /\ failed' = TRUE
      /\ said' = [p \in Ports |-> "none"] /\ gate' = [p \in Ports |-> FALSE] /\ cfg' = cfg
      /\ forgot' = forgot /\ forgot \subseteq Ports /\ Recorded
  BY DEF Reset, ControlInv, Machine
<1>2. cfg \in [Ports -> AnyConfig] /\ "none" \notin AnyConfig
  BY ControlAssumption DEF ControlInv, Machine, AnyConfig
<1>3. Machine'
  <2>1. sess' \in [Ports -> AnyConfig \cup {"none"}] /\ machine' \in {"up", "gone", "freed"}
    BY <1>1, <1>2
  <2>2. said' \in [Ports -> {"none", "xon", "xoff"}] /\ gate' \in [Ports -> BOOLEAN]
    BY <1>1
  <2> QED
    BY <1>1, <1>2, <2>1, <2>2 DEF Machine
<1>4. Recorded'
  BY <1>1 DEF Recorded
<1>5. Losses'
  BY <1>1, <1>2 DEF Losses
<1>6. NoSilentStall'
  BY <1>1 DEF NoSilentStall
<1> QED
  BY <1>3, <1>4, <1>5, <1>6 DEF MachineKept

LEMMA SessionKeepsMachine ==
  ASSUME ControlInv, Session PROVE MachineKept'
<1>1. machine = "up" /\ UNCHANGED <<machine, said>> /\ Machine /\ Losses /\ Recorded /\ NoSilentStall
  BY DEF Session, Reconnect, ControlInv
<1>2. PICK p \in Ports, c \in AnyConfig :
        \/ /\ sess' = [sess EXCEPT ![p] = c] /\ gate' = [gate EXCEPT ![p] = TRUE]
           /\ \/ cfg' = [cfg EXCEPT ![p] = c] /\ forgot' = forgot \ {p}
              \/ cfg' = [cfg EXCEPT ![p] = Loopback] /\ forgot' = forgot \cup {p}
           /\ UNCHANGED failed
        \/ /\ sess' = [sess EXCEPT ![p] = "none"] /\ failed' = TRUE
           /\ UNCHANGED <<gate, cfg, forgot>>
  BY DEF Session, Reconnect
<1>3. /\ cfg' \in [Ports -> AnyConfig] /\ sess' \in [Ports -> AnyConfig \cup {"none"}]
      /\ gate' \in [Ports -> BOOLEAN] /\ forgot' \subseteq Ports
  BY <1>1, <1>2 DEF Machine, AnyConfig
<1>4. "none" \notin AnyConfig
  BY ControlAssumption DEF AnyConfig
<1>5. Losses'
  BY <1>1, <1>2, <1>4 DEF Losses, Machine
<1>6. Recorded'
  BY <1>1, <1>2, <1>4 DEF Recorded, Machine
<1>7. NoSilentStall'
  BY <1>1, <1>2, <1>4 DEF NoSilentStall, Machine
<1> QED
  BY <1>1, <1>3, <1>5, <1>6, <1>7 DEF MachineKept, Machine

LEMMA MachineStep == ASSUME ControlInv, Next PROVE MachineKept'
<1>1. Machine /\ Losses /\ Recorded /\ NoSilentStall /\ Threads /\ Place
  BY DEF ControlInv
<1>2. CASE Stop
  <2>1. /\ emu' = "done" /\ tool' = "stopped" /\ machine' = "freed"
        /\ UNCHANGED <<cfg, sess, said, gate, failed, forgot>>
    BY <1>2 DEF Stop, FreeMachine, screenVars, histVars
  <2> QED
    BY <1>1, <2>1 DEF MachineKept, Machine, Losses, Recorded, NoSilentStall
<1>3. CASE /\ UNCHANGED <<cfg, machine, sess, failed, forgot>>
           /\ UNCHANGED screenVars \/ Advance
  <2>1. Machine'
    BY <1>1, <1>3, FlowIsTyped DEF Machine, Advance, screenVars
  <2>2. Losses'
    BY <1>1, <1>3, EndsAreFinal DEF Losses
  <2>3. NoSilentStall'
    <3>1. CASE UNCHANGED screenVars
      BY <1>1, <1>3, <3>1 DEF NoSilentStall, screenVars
    <3>2. CASE Advance
      BY <1>1, <1>3, <3>2, FlowOpensGates DEF Advance
    <3> QED
      BY <1>3, <3>1, <3>2
  <2> QED
    BY <1>1, <1>3, <2>1, <2>2, <2>3 DEF MachineKept, Recorded
<1> QED
  BY <1>2, <1>3, MachineSteps, ResetKeepsMachine, SessionKeepsMachine

\* The booleans.
LEMMA FlagsStep == ASSUME ControlInv, Next PROVE Flags'
<1>1. Flags
  BY DEF ControlInv
<1>2. UNCHANGED <<shown, refresh>> \/ (shown' \in BOOLEAN /\ refresh' \in BOOLEAN)
  BY MachineSteps DEF Stop, FreeMachine, Reset, Session, Reconnect, Advance, screenVars
<1>3. failed' \in {failed, TRUE}
  BY MachineSteps DEF Stop, FreeMachine, Reset, Session, Reconnect, histVars
<1>4. ASSUME Emulator \/ Call \/ EndOfInput \/ Stop \/ Acquire \/ Crash
      PROVE /\ looked' \in {looked, FALSE} /\ crashed' \in {crashed, TRUE}
            /\ UNCHANGED <<paused, quit>>
            /\ found' \in {found, FALSE} /\ text' \in {text, FALSE}
  BY <1>4 DEF Emulator, EmuSleeps, EmuGoesOn, EmuWakes, EmuQuits, EmuTurn, EmuOnly, Call, EndOfInput, Server,
     Stop, FreeMachine, Acquire, Crash, sectionVars, paceVars, replyVars
<1>5. ASSUME Section
      PROVE /\ looked' \in {looked, TRUE, FALSE} /\ crashed' = crashed
            /\ paused' \in {paused, TRUE, FALSE} /\ quit' \in {quit, TRUE}
            /\ found' \in {found, TRUE} /\ text' \in {text, Visible}
  BY <1>5 DEF Section, Run, Settle, Settled, Capture, Look, RunOn, Read, Type, Status, Pace, Quit,
     Reset, Session, Reconnect, Settings, Release, In, paceVars, replyVars
<1>6. Visible \in BOOLEAN
  BY DEF Visible
<1>7. CASE Section
  <2>1. /\ looked' \in BOOLEAN /\ crashed' \in BOOLEAN /\ paused' \in BOOLEAN /\ quit' \in BOOLEAN
        /\ found' \in BOOLEAN /\ text' \in BOOLEAN
    BY <1>1, <1>5, <1>6, <1>7 DEF Flags
  <2> QED
    BY <1>1, <1>2, <1>3, <2>1 DEF Flags
<1>8. CASE Emulator \/ Call \/ EndOfInput \/ Stop \/ Acquire \/ Crash
  <2>1. /\ looked' \in BOOLEAN /\ crashed' \in BOOLEAN /\ paused' \in BOOLEAN /\ quit' \in BOOLEAN
        /\ found' \in BOOLEAN /\ text' \in BOOLEAN
    BY <1>1, <1>4, <1>8 DEF Flags
  <2> QED
    BY <1>1, <1>2, <1>3, <2>1 DEF Flags
<1> QED
  BY <1>7, <1>8 DEF Next

-----------------------------------------------------------------------------
\* Nothing that has been lost is used: a thread that could do so is gone, or there was a failure.
LEMMA CrashStep == ASSUME ControlInv, Next PROVE CrashNeedsFailure'
<1>1. Threads /\ Place /\ Losses /\ CrashNeedsFailure /\ ~crashed
  BY DEF ControlInv, Next
<1>2. CASE Crash
  <2>1. SUFFICES ASSUME ~failed PROVE FALSE
    BY <1>2 DEF Crash, CrashNeedsFailure, histVars
  <2>2. machine # "gone" /\ \A p \in Ports : sess[p] # "none"
    BY <1>1, <2>1 DEF Losses
  <2>3. machine = "freed"
    BY <1>2, <1>1, <2>2, ControlInv DEF Crash, Whole, ControlInv, Machine
  <2>4. emu = "done" /\ lock # "tool"
    BY <1>1, <2>3 DEF Losses, Place
  <2> QED
    BY <1>2, <2>4 DEF Crash
<1>3. CASE Emulator \/ Call \/ EndOfInput \/ Stop \/ Acquire \/ Section
  <2>1. Section => crashed' = crashed
    BY SectionsEndOrGoOn
  <2>2. crashed' = crashed
    BY <1>3, <2>1 DEF Emulator, EmuSleeps, EmuGoesOn, EmuWakes, EmuQuits, EmuTurn, EmuOnly, Call,
       EndOfInput, Server, Stop, FreeMachine, Acquire
  <2> QED
    BY <1>1, <2>2 DEF CrashNeedsFailure
<1> QED
  BY <1>2, <1>3 DEF Next

\* A match stays on the screen of a paused machine until it is read.
LEMMA MatchStep == ASSUME ControlInv, Next PROVE Matched'
<1>1. Matched /\ Threads /\ Place /\ Flags
  BY DEF ControlInv
<1>2. CASE Emulator \/ Acquire \/ Crash
  <2>1. UNCHANGED <<found, text, script, paused>>
    BY <1>2 DEF Emulator, EmuSleeps, EmuGoesOn, EmuWakes, EmuQuits, EmuTurn, EmuOnly, Acquire, Crash,
       paceVars, replyVars
  <2>2. paused => UNCHANGED <<shown, refresh>>
    BY <1>2 DEF Emulator, EmuSleeps, EmuGoesOn, EmuWakes, EmuQuits, EmuTurn, Acquire, Crash, screenVars
  <2> QED
    BY <1>1, <2>1, <2>2 DEF Matched
<1>3. CASE Call
  BY <1>3 DEF Call, Matched
<1>4. CASE EndOfInput
  <2>1. script = <<>> /\ script' = <<"quit">> /\ UNCHANGED <<found, text, paused>>
    BY <1>4 DEF EndOfInput, Server, paceVars, replyVars
  <2> QED
    BY <1>1, <2>1 DEF Matched
<1>5. CASE Stop
  <2>1. script = <<>> /\ script' = <<>> /\ UNCHANGED <<found, text, paused>>
    BY <1>5 DEF Stop, FreeMachine, paceVars, replyVars
  <2> QED
    BY <1>1, <2>1 DEF Matched
<1>6. CASE Section /\ found
  <2>1. script \in {<<"read">>, <<"quit">>} /\ Head(script) \in {"read", "quit"}
    BY <1>1, <1>6, SectionsEndOrGoOn DEF Matched, Place
  <2>2. Read \/ Quit
    BY <1>6, <2>1 DEF Section, Run, Settle, Settled, Capture, Look, RunOn, Type, Status, Pace, Reset, Session,
       Reconnect, In
  <2>3. CASE Read
    <3>1. script = <<"read">> /\ script' = Tail(script) /\ UNCHANGED <<found, paused>>
      BY <1>6, <2>1, <2>3 DEF Read, In, Settings, Release, paceVars
    <3>2. script' = <<>>
      BY <3>1
    <3>3. paused => shown /\ ~refresh
      BY <1>1, <1>6, <3>1 DEF Matched
    <3>4. paused => text'
      BY <2>3, <3>3 DEF Read, LeaveRefresh, Visible, screenVars
    <3> QED
      BY <3>1, <3>2, <3>4 DEF Matched
  <2>4. CASE Quit
    <3>1. script = <<"quit">> /\ script' = Tail(script) /\ UNCHANGED <<found, text, paused>>
      BY <1>6, <2>1, <2>4 DEF Quit, In, Release, paceVars, replyVars
    <3>2. script' = <<>>
      BY <3>1
    <3> QED
      BY <1>1, <1>6, <3>1, <3>2 DEF Matched
  <2> QED
    BY <2>2, <2>3, <2>4
<1>7. CASE Section /\ ~found
  <2>1. Look \/ UNCHANGED found
    BY <1>7 DEF Section, Run, Settle, Settled, Capture, RunOn, Read, Type, Status, Pace, Quit, Reset, Session,
       Reconnect, replyVars
  <2>2. CASE Look /\ found'
    <3>1. Visible /\ Release /\ In({"expect"})
      BY <1>7, <2>2 DEF Look
    <3>2. script = <<"expect", "read">>
      BY <1>1, <3>1 DEF In, Place, Threads
    <3>3. script' = <<"read">>
      BY <3>1, <3>2 DEF Release
    <3> QED
      BY <3>1, <3>3 DEF Visible, Matched
  <2>3. CASE ~found'
    BY <2>3 DEF Matched
  <2> QED
    BY <1>1, <1>7, <2>1, <2>2, <2>3 DEF Flags
<1> QED
  BY <1>2, <1>3, <1>4, <1>5, <1>6, <1>7 DEF Next

-----------------------------------------------------------------------------
LEMMA ControlInductive == Spec => []ControlInv
<1>1. ControlInv /\ [Next]_vars => ControlInv'
  <2> SUFFICES ASSUME ControlInv, [Next]_vars PROVE ControlInv'
    OBVIOUS
  <2>1. CASE Next
    BY <2>1, FlagsStep, PlaceStep, MachineStep, MatchStep, CrashStep DEF ControlInv, MachineKept
  <2>2. CASE UNCHANGED vars
    <3>1. Flags' /\ Threads' /\ Machine'
      BY <2>2 DEF vars, sectionVars, paceVars, machineVars, screenVars, replyVars, histVars, ControlInv,
         Flags, Threads, Machine
    <3>2. Place' /\ Losses' /\ Recorded' /\ Matched'
      BY <2>2 DEF vars, sectionVars, paceVars, machineVars, screenVars, replyVars, histVars, ControlInv,
         Place, Losses, Recorded, Matched
    <3>3. NoSilentStall' /\ CrashNeedsFailure'
      BY <2>2 DEF vars, machineVars, screenVars, histVars, ControlInv, NoSilentStall, CrashNeedsFailure
    <3> QED
      BY <3>1, <3>2, <3>3 DEF ControlInv
  <2> QED
    BY <2>1, <2>2
<1> QED
  BY <1>1, ControlBegins, PTL DEF Spec

\* Every variable of the control core stays in its type.
THEOREM ControlTypeCorrect == Spec => []TypeOK
<1>1. ControlInv => TypeOK
  BY TypeParts DEF ControlInv
<1> QED
  BY <1>1, ControlInductive, PTL

\* ctl.c, mcp.c: without a failed reset or reconnection nothing is called through a null
\* pointer or after it was freed, whenever the input ends.
THEOREM ControlIsSafe == Spec => []CrashNeedsFailure
<1>1. ControlInv => CrashNeedsFailure
  BY DEF ControlInv
<1> QED
  BY <1>1, ControlInductive, PTL

\* mcp.c, wait: while the machine is paused, the screen that is returned shows the match.
THEOREM PausedWait == Spec => []PausedMatchIsShown
<1>1. ControlInv => PausedMatchIsShown
  <2> SUFFICES ASSUME Matched, script = <<>>, found, paused PROVE text
    BY DEF ControlInv, PausedMatchIsShown
  <2>1. script # <<"read">>
    OBVIOUS
  <2> QED
    BY <2>1 DEF Matched
<1> QED
  BY <1>1, ControlInductive, PTL

\* ctl_session: whatever the order of reconnections, resets and flow control, no gate is closed
\* behind the terminal's back.
THEOREM GatesOpen == Spec => []NoSilentStall
<1>1. ControlInv => NoSilentStall
  BY DEF ControlInv
<1> QED
  BY <1>1, ControlInductive, PTL

\* ctl_reset: after a reset every port that had a session has the same one, on any number of ports
\* and whatever failed or was not recorded before; a port whose own configuration was not recorded
\* becomes a loopback.
THEOREM SessionsSurvive == Spec => ResetKeepsSessions
<1> DEFINE Keeps == Reset /\ machine' = "up" =>
                      \A p \in Ports : sess[p] # "none" => sess'[p] = IF p \in forgot THEN Loopback ELSE sess[p]
<1>1. ControlInv => Keeps
  <2> SUFFICES ASSUME ControlInv, Reset, machine' = "up", NEW p \in Ports, sess[p] # "none"
               PROVE  sess'[p] = IF p \in forgot THEN Loopback ELSE sess[p]
    OBVIOUS
  <2>1. sess' = cfg
    BY DEF Reset
  <2>2. IF p \in forgot THEN cfg[p] = Loopback ELSE sess[p] = cfg[p]
    BY DEF ControlInv, Recorded
  <2> QED
    BY <2>1, <2>2
<1>2. ControlInv /\ [Next]_vars => [Keeps]_vars
  BY <1>1
<1> QED
  BY <1>2, ControlInductive, PTL DEF Spec, ResetKeepsSessions
=============================================================================
