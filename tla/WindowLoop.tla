------------------------------- MODULE WindowLoop -------------------------------
(***************************************************************************)
(* The window's loop (host/sdl.c): it owes the machine one update for each *)
(* step of time, runs those it owes, and presents a frame when one is due. *)
(* Times are kept relative to the clock, as far back as the code can tell  *)
(* them apart.                                                             *)
(***************************************************************************)
EXTENDS Integers

CONSTANTS
  UpdateStep,      \* POLICY_UPDATE_STEP_NS
  RenderStep,      \* POLICY_RENDER_STEP_NS, two update steps and a little
  MaxCatchup,      \* POLICY_MAX_CATCHUP
  MaxDelay         \* bound: the longest time one step of the loop takes

ASSUME WindowAssumption ==
  /\ UpdateStep \in Nat \ {0} /\ RenderStep \in Nat /\ MaxCatchup \in Nat \ {0} /\ MaxDelay \in Nat

VARIABLES
  loop,         \* where the loop stands
  late,         \* now - next_update_ns
  age,          \* now - last_present_ns
  dirty,        \* something was updated since the last presentation
  willRedraw,   \* a presentation was asked for
  toRun,        \* updates planned and not yet run
  owed,         \* the time since the start that no update has used
  burst,        \* how far updates ran ahead of the clock, over the stretch that makes it most
  unseen        \* how long an update has not been presented, without a failure; -1: there is none

windowVars == <<loop, late, age, dirty, willRedraw, toRun, owed, burst, unseen>>

Least(a, b) == IF a < b THEN a ELSE b
Most(a, b) == IF a > b THEN a ELSE b

\* Times further back make no difference.
Horizon == MaxCatchup * UpdateStep + MaxDelay
\* A frame is due at the latest when the loop next comes round after the render interval, and
\* is presented one round later; a round takes an update step and the delays of its steps.
Round == UpdateStep + 5 * MaxDelay
Patience == RenderStep + 2 * Round

\* frame_policy_init
WindowInit ==
  /\ loop = "plan" /\ late = -UpdateStep
  /\ age \in {RenderStep, 0}        \* 0: the clock has only just started
  /\ dirty = TRUE /\ willRedraw = FALSE /\ toRun = 0
  /\ owed = 0 /\ burst = 0 /\ unseen = -1

\* frame_policy_plan_tick: the updates that are due; if they are too many, as many as the loop
\* ever catches up on, and it counts from now.
Due == IF late < 0 THEN 0 ELSE (late \div UpdateStep) + 1
PlannedAll == [run |-> Due, late |-> late - Due * UpdateStep]
Planned == IF Due >= MaxCatchup THEN [run |-> MaxCatchup, late |-> -UpdateStep]
           ELSE [run |-> Due, late |-> late - Due * UpdateStep]

\* A step of the loop that plans n updates takes the time d, counted from the times t and g.
Passes(d, t, g, u, n) ==
  /\ late' = Least(t + d, Horizon)
  /\ age' = Least(g + d, RenderStep)
  /\ unseen' = IF u < 0 THEN u ELSE Least(u + d, Patience + 1)
  /\ owed' = Least(owed - n * UpdateStep + d, 2 * Horizon)
  /\ burst' = Most(0, burst + n * UpdateStep - d)

Plan(d) ==
  /\ loop = "plan" /\ loop' = "events"
  /\ toRun' = Planned.run
  /\ dirty' = (dirty \/ toRun' > 0)
  /\ Passes(d, Planned.late, age, unseen, Planned.run)
  /\ UNCHANGED willRedraw

\* SDL_PollEvent: the window may ask to be drawn.
Events(d) ==
  /\ loop = "events" /\ loop' = "update"
  /\ willRedraw' \in {willRedraw, TRUE}
  /\ Passes(d, late, age, unseen, 0)
  /\ UNCHANGED <<dirty, toRun>>

Update(d) ==
  /\ loop = "update" /\ loop' = "present"
  /\ toRun' = 0
  /\ Passes(d, late, age, IF toRun > 0 /\ unseen < 0 THEN 0 ELSE unseen, 0)
  /\ UNCHANGED <<dirty, willRedraw>>

\* fb_render_frame, frame_policy_on_presented.
Present(d) ==
  /\ loop = "present" /\ willRedraw /\ loop' = "idle"
  /\ dirty' = FALSE /\ willRedraw' = FALSE
  /\ Passes(d, late, 0, -1, 0)
  /\ UNCHANGED toRun
\* frame_policy_on_present_failed_retry
PresentFails(d) ==
  /\ loop = "present" /\ willRedraw /\ loop' = "idle"
  /\ dirty' = TRUE
  /\ Passes(d, late, age, Least(unseen, 0), 0)
  /\ UNCHANGED <<willRedraw, toRun>>
NoPresent(d) ==
  /\ loop = "present" /\ ~willRedraw /\ loop' = "idle"
  /\ Passes(d, late, age, unseen, 0)
  /\ UNCHANGED <<dirty, willRedraw, toRun>>

\* frame_policy_plan_idle; then the loop waits for the next update, or for an event.
Idle(d) ==
  /\ loop = "idle" /\ loop' = "plan"
  /\ willRedraw' = (willRedraw \/ (dirty /\ age >= RenderStep))
  /\ Passes(d, late, age, unseen, 0)
  /\ UNCHANGED <<dirty, toRun>>

WindowNext ==
  \/ \E d \in 0..MaxDelay :
       Plan(d) \/ Events(d) \/ Update(d) \/ Present(d) \/ PresentFails(d) \/ NoPresent(d)
  \/ \E d \in 0..(Most(0, -late) + MaxDelay) : Idle(d)

\* sdl.c: the machine never runs ahead of the clock, and never makes up for more lost time at
\* once than the catch-up limit, however long the loop was held up; and what has changed is
\* shown in bounded time while presenting works.
WindowKeepsPace ==
  /\ owed >= 0
  /\ burst <= MaxCatchup * UpdateStep
  /\ unseen <= Patience
=============================================================================
