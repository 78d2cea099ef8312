------------------------------ MODULE PartsProofs ------------------------------
(***************************************************************************)
(* What is proved of the parts of Parts, each for every value of its       *)
(* constants: the parts share no variable, so each proof speaks of the     *)
(* variables of its part alone.                                            *)
(***************************************************************************)
EXTENDS Parts, TLAPS, FiniteSetTheorems, SequenceTheorems, WellFoundedInduction

(***************************************************************************)
(* The emulator thread (EmulatorLoop): the deadline carries all the        *)
(* invariant needs.                                                        *)
(***************************************************************************)
\* What the clock may still allow the thread to make up for, when the deadline is a ahead.
Credit(a) == IF a + Limit + LongestChunk < 0 THEN 0 ELSE a + Limit + LongestChunk
Burst == IF speed \in Paced THEN Cost[speed] ELSE 0

\* The thread never waits for a deadline that is not yet due, and has run ahead by no more than
\* the deadline lets it, and by the chunk it has just run.
PaceInv ==
  /\ turn \in {"chunk", "sleep"}
  /\ speed \in DOMAIN Cost \cup {"paused"}
  /\ ahead \in Int /\ ahead <= 0
  /\ surge \in Nat
  /\ turn = "chunk" => surge <= Credit(ahead)
  /\ turn = "sleep" => surge <= Credit(ahead) + Burst

LEMMA PaceInit == EmulatorInit => PaceInv
BY EmulatorAssumption DEF EmulatorInit, PaceInv, Credit

\* Running a chunk costs the time it takes, and gains its own emulated time.
LEMMA ChunkKeepsPace ==
  ASSUME PaceInv, NEW d \in 0..MaxHold, Chunk(d)
  PROVE PaceInv'
<1>1. /\ turn = "chunk" /\ turn' = "sleep" /\ speed' \in DOMAIN Cost \cup {"paused"}
      /\ ahead' = AtLeast(ahead - d, -Limit - MaxHold)
      /\ surge' = IF speed' \in Paced THEN AtLeast(surge - d, 0) + Cost[speed']
                  ELSE IF speed' \in Unlimited THEN 0 ELSE AtLeast(surge - d, 0)
  BY DEF Chunk
<1>2. d \in Nat /\ Limit \in Nat /\ MaxHold \in Nat /\ LongestChunk \in Nat
  BY EmulatorAssumption
<1>3. speed' \in Paced => Cost[speed'] \in Nat
  BY EmulatorAssumption DEF Paced
<1>4. ahead' \in Int /\ ahead' <= 0 /\ ahead' >= ahead - d
  BY <1>1, <1>2 DEF PaceInv, AtLeast
<1>5. AtLeast(surge - d, 0) \in Nat /\ AtLeast(surge - d, 0) <= Credit(ahead')
  BY <1>1, <1>2, <1>4 DEF PaceInv, AtLeast, Credit
<1>6. surge' \in Nat /\ surge' <= Credit(ahead') + Burst'
  BY <1>1, <1>2, <1>3, <1>4, <1>5 DEF Burst, Credit
<1> QED
  BY <1>1, <1>4, <1>6 DEF PaceInv, Credit, Burst

\* A pause and a chunk at unlimited speed start the deadline anew.
LEMMA PauseKeepsPace ==
  ASSUME PaceInv, NEW d \in 0..MaxHold, PausedSleep(d)
  PROVE PaceInv'
<1>1. d \in Nat /\ Limit \in Nat /\ LongestChunk \in Nat /\ Nap \in Nat
  BY EmulatorAssumption
<1>2. speed \notin Paced
  BY EmulatorAssumption DEF PausedSleep, Paced
<1>3. surge <= Credit(ahead)
  BY <1>1, <1>2 DEF PaceInv, PausedSleep, Burst, Credit
<1> QED
  BY <1>1, <1>3 DEF PaceInv, PausedSleep, Credit, AtLeast

LEMMA UnlimitedKeepsPace ==
  ASSUME PaceInv, UnlimitedSleep
  PROVE PaceInv'
<1>1. Limit \in Nat /\ LongestChunk \in Nat
  BY EmulatorAssumption
<1>2. speed \notin Paced
  BY DEF UnlimitedSleep, Paced
<1>3. surge <= Credit(ahead)
  BY <1>1, <1>2 DEF PaceInv, UnlimitedSleep, Burst, Credit
<1> QED
  BY <1>1, <1>3 DEF PaceInv, UnlimitedSleep, Credit

\* Sleeping up to the deadline pays for what was made up; a deadline too long past is forgotten.
LEMMA PacedKeepsPace ==
  ASSUME PaceInv, NEW d \in 0..MaxHold, PacedSleep(d)
  PROVE PaceInv'
<1> DEFINE a == ahead + Cost[speed]
<1>1. /\ turn = "sleep" /\ speed \in Paced /\ turn' = "chunk" /\ speed' = speed
      /\ ahead' = NextAhead(a, d)
      /\ surge' = IF a > 0 THEN AtLeast(surge - a - d, 0) ELSE surge
  BY DEF PacedSleep
<1>2. d \in Nat /\ Limit \in Nat /\ LongestChunk \in Nat /\ Cost[speed] \in 0..LongestChunk
  BY <1>1, EmulatorAssumption DEF Paced
<1>3. surge <= Credit(ahead) + Cost[speed]
  BY <1>1 DEF PaceInv, Burst
<1>4. a \in Int /\ a - ahead <= LongestChunk /\ Cost[speed] = a - ahead
  BY <1>2 DEF PaceInv
<1> HIDE DEF a
<1>5. CASE a > 0
  BY <1>1, <1>2, <1>3, <1>4, <1>5 DEF PaceInv, Credit, NextAhead, AtLeast
<1>6. CASE a <= 0
  BY <1>1, <1>2, <1>3, <1>4, <1>6 DEF PaceInv, Credit, NextAhead
<1> QED
  BY <1>4, <1>5, <1>6

\* ctl.c: for all speeds and limits, however long the thread is held up and whenever pause and
\* speed change, it makes up for no more than the limit and two chunks at once.
THEOREM EmulatorPace == Spec => []EmulatorKeepsPace
<1>1. PaceInv /\ [EmulatorNext]_emulatorVars => PaceInv'
  <2> SUFFICES ASSUME PaceInv, [EmulatorNext]_emulatorVars PROVE PaceInv'
    OBVIOUS
  <2>1. CASE UNCHANGED emulatorVars
    BY <2>1 DEF PaceInv, emulatorVars, Credit, Burst
  <2> QED
    BY <2>1, ChunkKeepsPace, PauseKeepsPace, UnlimitedKeepsPace, PacedKeepsPace DEF EmulatorNext
<1>2. PaceInv => EmulatorKeepsPace
  <2>1. Limit \in Nat /\ LongestChunk \in Nat /\ (speed \in Paced => Cost[speed] \in 0..LongestChunk)
    BY EmulatorAssumption DEF Paced
  <2> QED
    BY <2>1 DEF PaceInv, EmulatorKeepsPace, Credit, Burst
<1>3. Init => EmulatorInit
  BY DEF Init
<1>4. [Next]_vars => [EmulatorNext]_emulatorVars
  BY Zenon DEF Next, vars, emulatorVars
<1> QED
  BY <1>1, <1>2, <1>3, <1>4, PaceInit, PTL DEF Spec

(***************************************************************************)
(* The window's loop (WindowLoop).                                         *)
(***************************************************************************)
Quota == MaxCatchup * UpdateStep

\* Time is used at most once: what is owed covers what the loop is late, and what was run ahead
\* of the clock leaves that much less of the quota.
ClockInv ==
  /\ late \in Int /\ -UpdateStep <= late /\ late <= Horizon
  /\ owed \in Int /\ owed >= late + UpdateStep
  /\ burst \in Nat /\ (burst = 0 \/ burst + late + UpdateStep <= Quota)

\* The longest time from the moment the loop last decided whether to redraw.
Spent == CASE loop = "plan" -> UpdateStep + MaxDelay
           [] loop = "events" -> UpdateStep + 2 * MaxDelay
           [] loop = "update" -> UpdateStep + 3 * MaxDelay
           [] loop = "present" -> UpdateStep + 4 * MaxDelay
           [] loop = "idle" -> UpdateStep + 5 * MaxDelay

\* What is unseen is known to be dirty and no younger than the last presentation, so at the
\* latest in the round after the render interval a presentation is asked for.
Flags == dirty \in BOOLEAN /\ willRedraw \in BOOLEAN
SightInv ==
  /\ loop \in {"plan", "events", "update", "present", "idle"}
  /\ Flags /\ toRun \in Nat
  /\ age \in 0..RenderStep
  /\ unseen \in Int /\ unseen >= -1
  /\ unseen >= 0 => dirty
  /\ loop \in {"events", "update"} /\ toRun > 0 => dirty
  /\ unseen <= age \/ age = RenderStep
  /\ ~willRedraw => unseen < RenderStep + Spent
  /\ willRedraw => IF loop = "idle" THEN unseen <= MaxDelay
                   ELSE unseen < RenderStep + Round + Spent

WindowInv == ClockInv /\ SightInv

LEMMA QuotaType == Quota \in Nat /\ Quota >= UpdateStep /\ Horizon = Quota + MaxDelay
BY WindowAssumption DEF Quota, Horizon

\* A quotient and its remainder.
LEMMA Division ==
  ASSUME NEW a \in Nat, NEW b \in Nat \ {0}
  PROVE /\ a \div b \in Nat
        /\ (a \div b) * b <= a /\ a < (a \div b) * b + b
<1>1. a = b * (a \div b) + (a % b) /\ a % b \in 0..(b - 1)
  BY SMT
<1>2. a \div b \in Nat
  BY SMT
<1> QED
  BY <1>1, <1>2

\* The order of two products of the same factor.
LEMMA Multiples ==
  ASSUME NEW m \in Nat, NEW n \in Nat, NEW b \in Nat, m <= n
  PROVE m * b <= n * b
<1>1. n * b = m * b + (n - m) * b
  BY SMT
<1>2. (n - m) * b \in Nat
  OBVIOUS
<1> QED
  BY <1>1, <1>2

\* What is planned is due, or the whole quota of a loop that is later than that; in both cases
\* the next update lies in the future, by a step at most.
LEMMA Planning ==
  ASSUME late \in Int, late >= -UpdateStep
  PROVE LET t == Planned.run * UpdateStep
        IN /\ Planned.run \in Nat /\ t \in Nat
           /\ Planned.late \in Int /\ -UpdateStep <= Planned.late /\ Planned.late <= -1
           /\ \/ Planned.late = late - t /\ late + UpdateStep <= Quota
              \/ Planned.late = -UpdateStep /\ t = Quota /\ Quota <= late + UpdateStep
<1> USE WindowAssumption
<1>1. CASE late < 0
  <2>1. Due = 0 /\ Planned.run = 0 /\ Planned.late = late - 0 * UpdateStep
    BY <1>1 DEF Due, Planned
  <2> QED
    BY <1>1, <2>1, QuotaType
<1>2. CASE late >= 0
  <2> DEFINE n == Due
  <2>1. n \in Nat /\ n * UpdateStep \in Nat /\ late < n * UpdateStep /\ n * UpdateStep <= late + UpdateStep
    <3>1. n = (late \div UpdateStep) + 1
      BY <1>2 DEF Due
    <3>2. late \in Nat /\ UpdateStep \in Nat \ {0}
      BY <1>2
    <3> DEFINE q == late \div UpdateStep
    <3>3. q \in Nat /\ q * UpdateStep <= late /\ late < q * UpdateStep + UpdateStep
      BY <3>2, Division
    <3> HIDE DEF q
    <3>4. (q + 1) * UpdateStep = q * UpdateStep + UpdateStep
      BY <3>2, <3>3
    <3> QED
      BY <3>1, <3>2, <3>3, <3>4 DEF q
  <2> HIDE DEF n
  <2>2. CASE n >= MaxCatchup
    <3>1. Planned.run = MaxCatchup /\ Planned.late = -UpdateStep
      BY <2>2 DEF Planned, n
    <3>2. MaxCatchup * UpdateStep <= n * UpdateStep
      BY <2>1, <2>2, Multiples
    <3> QED
      BY <2>1, <3>1, <3>2, QuotaType DEF Quota
  <2>3. CASE n < MaxCatchup
    <3>1. Planned.run = n /\ Planned.late = late - n * UpdateStep
      BY <2>1, <2>3 DEF Planned, n
    <3>2. (n + 1) * UpdateStep <= MaxCatchup * UpdateStep
      BY <2>1, <2>3, Multiples
    <3>3. (n + 1) * UpdateStep = n * UpdateStep + UpdateStep
      BY <2>1
    <3> QED
      BY <2>1, <3>1, <3>2, <3>3, QuotaType DEF Quota
  <2> QED
    BY <2>1, <2>2, <2>3
<1> QED
  BY <1>1, <1>2

LEMMA WindowBegins == WindowInit => WindowInv
<1> SUFFICES ASSUME WindowInit PROVE WindowInv
  OBVIOUS
<1>1. ClockInv
  BY WindowAssumption, QuotaType DEF WindowInit, ClockInv
<1>2. Spent = UpdateStep + MaxDelay
  BY DEF WindowInit, Spent
<1>3. Flags
  BY DEF WindowInit, Flags
<1>4. SightInv
  BY <1>2, <1>3, WindowAssumption DEF WindowInit, SightInv
<1> QED
  BY <1>1, <1>4 DEF WindowInv

\* Time that passes without an update keeps the clock's account.
LEMMA TimeKeepsClock ==
  ASSUME ClockInv, NEW d \in Nat, NEW g, NEW u, Passes(d, late, g, u, 0)
  PROVE ClockInv'
BY WindowAssumption, QuotaType DEF ClockInv, Passes, Least, Most

\* So does a plan.
LEMMA PlanKeepsClock ==
  ASSUME ClockInv, NEW d \in Nat, Plan(d)
  PROVE ClockInv'
<1> DEFINE t == Planned.run * UpdateStep
           l == Planned.late
<1>1. /\ late' = Least(l + d, Horizon)
      /\ owed' = Least(owed - t + d, 2 * Horizon)
      /\ burst' = Most(0, burst + t - d)
  BY DEF Plan, Passes
<1>2. /\ t \in Nat /\ l \in Int /\ -UpdateStep <= l /\ l <= -1
      /\ \/ l = late - t /\ late + UpdateStep <= Quota
         \/ l = -UpdateStep /\ t = Quota /\ Quota <= late + UpdateStep
  BY Planning DEF ClockInv
<1> HIDE DEF t, l
<1> QED
  BY <1>1, <1>2, WindowAssumption, QuotaType DEF ClockInv, Least, Most

\* The bound on what is unseen moves on by the time each step of the loop takes.
LEMMA PlanKeepsSight == ASSUME WindowInv, NEW d \in 0..MaxDelay, Plan(d) PROVE SightInv'
<1>1. Planned.run \in Nat
  BY Planning DEF WindowInv, ClockInv
<1>2. Spent = UpdateStep + MaxDelay /\ Spent' = UpdateStep + 2 * MaxDelay
  BY DEF Plan, Spent
<1>3. Flags'
  BY DEF WindowInv, SightInv, Flags, Plan
<1>4. /\ loop = "plan" /\ loop' = "events" /\ toRun' = Planned.run
      /\ (dirty' <=> (dirty \/ toRun' > 0)) /\ (willRedraw' <=> willRedraw)
      /\ age' = Least(age + d, RenderStep)
      /\ unseen' = IF unseen < 0 THEN unseen ELSE Least(unseen + d, Patience + 1)
  BY DEF Plan, Passes
<1> QED
  BY <1>1, <1>2, <1>3, <1>4, WindowAssumption DEF WindowInv, SightInv, Least, Round, Patience

LEMMA EventsKeepSight == ASSUME WindowInv, NEW d \in 0..MaxDelay, Events(d) PROVE SightInv'
<1>1. Spent = UpdateStep + 2 * MaxDelay /\ Spent' = UpdateStep + 3 * MaxDelay
  BY DEF Events, Spent
<1>2. Flags'
  BY DEF WindowInv, SightInv, Flags, Events
<1>3. /\ loop = "events" /\ loop' = "update" /\ toRun' = toRun
      /\ (dirty' <=> dirty)
      /\ age' = Least(age + d, RenderStep)
      /\ unseen' = IF unseen < 0 THEN unseen ELSE Least(unseen + d, Patience + 1)
  BY DEF Events, Passes
<1>4. willRedraw => willRedraw'
  BY DEF Events
<1> QED
  BY <1>1, <1>2, <1>3, <1>4, WindowAssumption DEF WindowInv, SightInv, Least, Round, Patience

LEMMA UpdateKeepsSight == ASSUME WindowInv, NEW d \in 0..MaxDelay, Update(d) PROVE SightInv'
<1>1. Spent = UpdateStep + 3 * MaxDelay /\ Spent' = UpdateStep + 4 * MaxDelay
  BY DEF Update, Spent
<1>2. Flags'
  BY DEF WindowInv, SightInv, Flags, Update
<1> QED
  BY <1>2, <1>1, WindowAssumption DEF WindowInv, SightInv, Update, Passes, Least, Round, Patience

LEMMA PresentKeepsSight == ASSUME WindowInv, NEW d \in 0..MaxDelay, Present(d) PROVE SightInv'
<1>1. Spent = UpdateStep + 4 * MaxDelay /\ Spent' = UpdateStep + 5 * MaxDelay
  BY DEF Present, Spent
<1>2. Flags'
  BY DEF WindowInv, SightInv, Flags, Present
<1> QED
  BY <1>2, <1>1, WindowAssumption DEF WindowInv, SightInv, Present, Passes, Least, Round, Patience

LEMMA FailureKeepsSight == ASSUME WindowInv, NEW d \in 0..MaxDelay, PresentFails(d) PROVE SightInv'
<1>1. Spent = UpdateStep + 4 * MaxDelay /\ Spent' = UpdateStep + 5 * MaxDelay
  BY DEF PresentFails, Spent
<1>2. Flags'
  BY DEF WindowInv, SightInv, Flags, PresentFails
<1> QED
  BY <1>2, <1>1, WindowAssumption DEF WindowInv, SightInv, PresentFails, Passes, Least, Round, Patience

LEMMA NoPresentKeepsSight == ASSUME WindowInv, NEW d \in 0..MaxDelay, NoPresent(d) PROVE SightInv'
<1>1. Spent = UpdateStep + 4 * MaxDelay /\ Spent' = UpdateStep + 5 * MaxDelay
  BY DEF NoPresent, Spent
<1>2. Flags'
  BY DEF WindowInv, SightInv, Flags, NoPresent
<1> QED
  BY <1>2, <1>1, WindowAssumption DEF WindowInv, SightInv, NoPresent, Passes, Least, Round, Patience

LEMMA IdleKeepsSight ==
  ASSUME WindowInv, NEW d \in 0..(Most(0, -late) + MaxDelay), Idle(d)
  PROVE SightInv'
<1>1. d \in Nat /\ d <= UpdateStep + MaxDelay
  BY WindowAssumption DEF WindowInv, ClockInv, Most
<1>2. Spent = UpdateStep + 5 * MaxDelay /\ Spent' = UpdateStep + MaxDelay
  BY DEF Idle, Spent
<1>3. Flags'
  BY DEF WindowInv, SightInv, Flags, Idle
<1>4. /\ loop = "idle" /\ loop' = "plan" /\ toRun' = toRun
      /\ (dirty' <=> dirty) /\ (willRedraw' <=> (willRedraw \/ (dirty /\ age >= RenderStep)))
      /\ age' = Least(age + d, RenderStep)
      /\ unseen' = IF unseen < 0 THEN unseen ELSE Least(unseen + d, Patience + 1)
  BY DEF Idle, Passes
<1> QED
  BY <1>1, <1>2, <1>3, <1>4, WindowAssumption DEF WindowInv, SightInv, Least, Round, Patience

\* sdl.c: for every step and limit, however long the loop is held up, no time is used twice, a
\* stretch of updates stays within the catch-up limit, and what has changed is shown in time.
THEOREM WindowPace == Spec => []WindowKeepsPace
<1>1. WindowInv /\ [WindowNext]_windowVars => WindowInv'
  <2> SUFFICES ASSUME WindowInv, [WindowNext]_windowVars PROVE WindowInv'
    OBVIOUS
  <2>1. CASE UNCHANGED windowVars
    BY <2>1 DEF WindowInv, ClockInv, SightInv, Flags, Spent, windowVars
  <2>2. ASSUME NEW d \in 0..MaxDelay,
               Plan(d) \/ Events(d) \/ Update(d) \/ Present(d) \/ PresentFails(d) \/ NoPresent(d)
        PROVE WindowInv'
    <3>1. d \in Nat
      BY WindowAssumption
    <3>2. ClockInv'
      BY <2>2, <3>1, TimeKeepsClock, PlanKeepsClock
      DEF WindowInv, Events, Update, Present, PresentFails, NoPresent
    <3> QED
      BY <2>2, <3>2, PlanKeepsSight, EventsKeepSight, UpdateKeepsSight, PresentKeepsSight,
         FailureKeepsSight, NoPresentKeepsSight DEF WindowInv
  <2>3. ASSUME NEW d \in 0..(Most(0, -late) + MaxDelay), Idle(d) PROVE WindowInv'
    <3>1. d \in Nat
      BY WindowAssumption DEF WindowInv, ClockInv, Most
    <3>2. ClockInv'
      BY <2>3, <3>1, TimeKeepsClock DEF WindowInv, Idle
    <3> QED
      BY <2>3, <3>2, IdleKeepsSight DEF WindowInv
  <2> QED
    BY <2>1, <2>2, <2>3 DEF WindowNext
<1>2. WindowInv => WindowKeepsPace
  BY WindowAssumption, QuotaType
  DEF WindowInv, ClockInv, SightInv, WindowKeepsPace, Spent, Round, Patience, Quota
<1>3. Init => WindowInit
  BY DEF Init
<1>4. [Next]_vars => [WindowNext]_windowVars
  BY Zenon DEF Next, vars, windowVars
<1> QED
  BY <1>1, <1>2, <1>3, <1>4, WindowBegins, PTL DEF Spec

(***************************************************************************)
(* Memory and sync generator (MemoryMap).                                  *)
(***************************************************************************)

IsAddress(a) == a \in Int /\ 0 <= a /\ a <= 65535
\* The addresses of video memory below 8000, and the other regions.
InVideo(a) == a < 32256 \/ (32512 <= a /\ a < 32736)
InMapper(a) == 32752 <= a /\ a < 32768
InDuart(a) == 32736 <= a /\ a < 32752
InPeripheral(a) == 32256 <= a /\ a < 32512
InUpper(a) == a >= 32768
InLower(a) == a < 32768

\* An address is in the 16-bit space, and its partner is an address too.
LEMMA AddressRange ==
  ASSUME NEW a \in Addresses
  PROVE IsAddress(a)
BY AddressAssumption, SMT DEF IsAddress

LEMMA Partner ==
  ASSUME NEW a \in Addresses
  PROVE /\ 512 <= a /\ a < 768 => a + 256 \in Addresses
        /\ 768 <= a /\ a < 1024 => a - 256 \in Addresses
BY AddressAssumption, SMT

\* The exchange of the two pages is its own inverse, and leaves video memory where it is.
LEMMA SwizzleInverts ==
  ASSUME NEW a, IsAddress(a)
  PROVE /\ M!Swizzled(M!Swizzled(a)) = a
        /\ IsAddress(M!Swizzled(a))
        /\ InVideo(a) => InVideo(M!Swizzled(a))
        /\ a \in Addresses => M!Swizzled(a) \in Addresses
<1>1. CASE ~M!Bit(mapper[3], 4)
  BY <1>1, SMT DEF M!Swizzled
<1>2. CASE M!Bit(mapper[3], 4)
  <2>1. CASE 512 <= a /\ a < 768
    <3>1. M!Swizzled(a) = a + 256 /\ M!Swizzled(a + 256) = a
      BY <1>2, <2>1, SMT DEF M!Swizzled, IsAddress
    <3>2. a \in Addresses => a + 256 \in Addresses
      BY <2>1, Partner, SMT
    <3> QED
      BY <2>1, <3>1, <3>2, SMT DEF IsAddress, InVideo
  <2>2. CASE 768 <= a /\ a < 1024
    <3>1. M!Swizzled(a) = a - 256 /\ M!Swizzled(a - 256) = a
      BY <1>2, <2>2, SMT DEF M!Swizzled, IsAddress
    <3>2. a \in Addresses => a - 256 \in Addresses
      BY <2>2, Partner, SMT
    <3> QED
      BY <2>2, <3>1, <3>2, SMT DEF IsAddress, InVideo
  <2>3. CASE ~(512 <= a /\ a < 768) /\ ~(768 <= a /\ a < 1024)
    <3>1. M!Swizzled(a) = a
      BY <2>3, SMT DEF M!Swizzled, IsAddress
    <3> QED
      BY <3>1, SMT
  <2> QED
    BY <2>1, <2>2, <2>3, SMT DEF IsAddress
<1> QED
  BY <1>1, <1>2, SMT

\* Which of the stores a region of addresses leads to, and where in it.
LEMMA Regions ==
  ASSUME NEW a, IsAddress(a)
  PROVE /\ InMapper(a) => M!Target(a) = <<"mapper", a - 32752>>
        /\ InDuart(a) => M!Target(a) = <<"duart", a - 32736>>
        /\ InPeripheral(a) => M!Target(a) = <<"peripheral", a - 32256>>
        /\ InVideo(a) => M!Target(a) = <<"vram", M!Swizzled(a)>>
        /\ InUpper(a) => M!Target(a) = IF M!VramAt8000 THEN <<"vram", a>> ELSE <<"sram", a - 32768>>
<1>1. ASSUME InMapper(a) PROVE M!Target(a) = <<"mapper", a - 32752>>
  <2>1. a % 16 = a - 32752
    BY <1>1, SMT DEF InMapper, IsAddress
  <2> QED
    BY <1>1, <2>1, SMT DEF M!Target, InMapper, IsAddress
<1>2. ASSUME InDuart(a) PROVE M!Target(a) = <<"duart", a - 32736>>
  <2>1. a % 16 = a - 32736
    BY <1>2, SMT DEF InDuart, IsAddress
  <2> QED
    BY <1>2, <2>1, SMT DEF M!Target, InDuart, IsAddress
<1>3. ASSUME InPeripheral(a) PROVE M!Target(a) = <<"peripheral", a - 32256>>
  <2>1. a % 256 = a - 32256
    BY <1>3, SMT DEF InPeripheral, IsAddress
  <2> QED
    BY <1>3, <2>1, SMT DEF M!Target, InPeripheral, IsAddress
<1>4. ASSUME InVideo(a) PROVE M!Target(a) = <<"vram", M!Swizzled(a)>>
  BY <1>4, SMT DEF M!Target, InVideo, IsAddress
<1>5. ASSUME InUpper(a)
      PROVE M!Target(a) = IF M!VramAt8000 THEN <<"vram", a>> ELSE <<"sram", a - 32768>>
  <2>1. a % 32768 = a - 32768
    BY <1>5, SMT DEF InUpper, IsAddress
  <2> QED
    BY <1>5, <2>1, SMT DEF M!Target, InUpper, IsAddress
<1> QED
  BY <1>1, <1>2, <1>3, <1>4, <1>5, SMT

\* The address that a place in a store belongs to.
Origin(store, i) ==
  CASE store = "mapper" -> i + 32752 [] store = "duart" -> i + 32736
    [] store = "peripheral" -> i + 32256 [] store = "sram" -> i + 32768
    [] store = "vram" -> IF i < 32768 THEN M!Swizzled(i) ELSE i

LEMMA StoreSizes ==
  /\ M!Size("mapper") = 16 /\ M!Size("duart") = 16 /\ M!Size("peripheral") = 256
  /\ M!Size("sram") = 32768 /\ M!Size("vram") = 131072
<1>1. M!Size("mapper") = 16
  BY SMT DEF M!Size
<1>2. M!Size("duart") = 16
  BY SMT DEF M!Size
<1>3. M!Size("peripheral") = 256
  BY SMT DEF M!Size
<1>4. M!Size("sram") = 32768
  BY SMT DEF M!Size
<1>5. M!Size("vram") = 131072
  BY SMT DEF M!Size
<1> QED
  BY <1>1, <1>2, <1>3, <1>4, <1>5, SMT

LEMMA StoreOrigins ==
  ASSUME NEW i
  PROVE /\ Origin("mapper", i) = i + 32752 /\ Origin("duart", i) = i + 32736
        /\ Origin("peripheral", i) = i + 32256 /\ Origin("sram", i) = i + 32768
        /\ Origin("vram", i) = IF i < 32768 THEN M!Swizzled(i) ELSE i
<1>1. Origin("mapper", i) = i + 32752
  BY SMT DEF Origin
<1>2. Origin("duart", i) = i + 32736
  BY SMT DEF Origin
<1>3. Origin("peripheral", i) = i + 32256
  BY SMT DEF Origin
<1>4. Origin("sram", i) = i + 32768
  BY SMT DEF Origin
<1>5. Origin("vram", i) = IF i < 32768 THEN M!Swizzled(i) ELSE i
  BY SMT DEF Origin
<1> QED
  BY <1>1, <1>2, <1>3, <1>4, <1>5, SMT

LEMMA Origins ==
  ASSUME NEW a, IsAddress(a)
  PROVE /\ Origin(M!Target(a)[1], M!Target(a)[2]) = a
        /\ M!Target(a)[2] \in 0..(M!Size(M!Target(a)[1]) - 1)
        /\ M!Target(a)[1] = "vram" /\ InLower(a) => InVideo(a)
<1>1. CASE InMapper(a)
  <2>1. M!Target(a) = <<"mapper", a - 32752>>
    BY <1>1, Regions, SMT
  <2>2. M!Target(a)[1] = "mapper" /\ M!Target(a)[2] = a - 32752
    BY <2>1, SMT
  <2>3. Origin("mapper", a - 32752) = a - 32752 + 32752 /\ M!Size("mapper") = 16
    BY StoreSizes, StoreOrigins, SMT
  <2> QED
    BY <1>1, <2>2, <2>3, SMT DEF IsAddress, InMapper, InVideo, InLower
<1>2. CASE InDuart(a)
  <2>1. M!Target(a) = <<"duart", a - 32736>>
    BY <1>2, Regions, SMT
  <2>2. M!Target(a)[1] = "duart" /\ M!Target(a)[2] = a - 32736
    BY <2>1, SMT
  <2>3. Origin("duart", a - 32736) = a - 32736 + 32736 /\ M!Size("duart") = 16
    BY StoreSizes, StoreOrigins, SMT
  <2> QED
    BY <1>2, <2>2, <2>3, SMT DEF IsAddress, InDuart, InVideo, InLower
<1>3. CASE InPeripheral(a)
  <2>1. M!Target(a) = <<"peripheral", a - 32256>>
    BY <1>3, Regions, SMT
  <2>2. M!Target(a)[1] = "peripheral" /\ M!Target(a)[2] = a - 32256
    BY <2>1, SMT
  <2>3. Origin("peripheral", a - 32256) = a - 32256 + 32256 /\ M!Size("peripheral") = 256
    BY StoreSizes, StoreOrigins, SMT
  <2> QED
    BY <1>3, <2>2, <2>3, SMT DEF IsAddress, InPeripheral, InVideo, InLower
<1>4. CASE InUpper(a) /\ ~M!VramAt8000
  <2>1. M!Target(a) = <<"sram", a - 32768>>
    BY <1>4, Regions, SMT
  <2>2. M!Target(a)[1] = "sram" /\ M!Target(a)[2] = a - 32768
    BY <2>1, SMT
  <2>3. Origin("sram", a - 32768) = a - 32768 + 32768 /\ M!Size("sram") = 32768
    BY StoreSizes, StoreOrigins, SMT
  <2> QED
    BY <1>4, <2>2, <2>3, SMT DEF IsAddress, InUpper, InVideo, InLower
<1>5. CASE InUpper(a) /\ M!VramAt8000
  <2>1. M!Target(a) = <<"vram", a>>
    BY <1>5, Regions, SMT
  <2>2. M!Target(a)[1] = "vram" /\ M!Target(a)[2] = a
    BY <2>1, SMT
  <2>3. M!Size("vram") = 131072 /\ Origin("vram", a) = IF a < 32768 THEN M!Swizzled(a) ELSE a
    BY StoreSizes, StoreOrigins, SMT
  <2> QED
    BY <1>5, <2>2, <2>3, SMT DEF IsAddress, InUpper, InLower
<1>6. CASE InVideo(a)
  <2> DEFINE b == M!Swizzled(a)
  <2>1. M!Target(a) = <<"vram", b>>
    BY <1>6, Regions, SMT
  <2>2. IsAddress(b) /\ InVideo(b) /\ M!Swizzled(b) = a
    BY <1>6, SwizzleInverts, SMT
  <2> HIDE DEF b
  <2>3. M!Target(a)[1] = "vram" /\ M!Target(a)[2] = b
    BY <2>1, SMT
  <2>4. M!Size("vram") = 131072 /\ Origin("vram", b) = IF b < 32768 THEN M!Swizzled(b) ELSE b
    BY StoreSizes, StoreOrigins, SMT
  <2>5. b \in Int /\ 0 <= b /\ b < 32768
    BY <2>2, SMT DEF IsAddress, InVideo
  <2> QED
    BY <1>6, <2>2, <2>3, <2>4, <2>5, SMT
<1>7. InMapper(a) \/ InDuart(a) \/ InPeripheral(a) \/ InUpper(a) \/ InVideo(a)
  BY SMT DEF IsAddress, InMapper, InDuart, InPeripheral, InUpper, InVideo
<1> QED
  BY <1>1, <1>2, <1>3, <1>4, <1>5, <1>6, <1>7, Zenon

LEMMA Disjoint == M!AddressesDisjoint
<1>1. ASSUME NEW a \in Addresses
      PROVE M!Target(a)[2] \in 0..(M!Size(M!Target(a)[1]) - 1)
  BY AddressRange, Origins, Zenon
<1>2. ASSUME NEW a \in Addresses, NEW b \in Addresses, M!Target(a) = M!Target(b)
      PROVE a = b
  <2>1. a = Origin(M!Target(a)[1], M!Target(a)[2])
    BY AddressRange, Origins, Zenon
  <2>2. b = Origin(M!Target(b)[1], M!Target(b)[2])
    BY AddressRange, Origins, Zenon
  <2> QED
    BY <1>2, <2>1, <2>2, Zenon
<1>3. ASSUME NEW a \in Addresses, M!Target(a)[1] = "vram" /\ InLower(a)
      PROVE \E b \in Addresses : M!Target(b) = <<"vram", a>>
  <2>1. InVideo(a)
    BY <1>3, AddressRange, Origins, Zenon
  <2> DEFINE b == M!Swizzled(a)
  <2>2. IsAddress(b) /\ InVideo(b) /\ b \in Addresses /\ M!Swizzled(b) = a
    BY <2>1, AddressRange, SwizzleInverts, Zenon
  <2> HIDE DEF b
  <2>3. M!Target(b) = <<"vram", M!Swizzled(b)>>
    BY <2>2, Regions, SMT
  <2> QED
    BY <2>2, <2>3, Zenon
<1>4. \A a \in Addresses : M!Target(a)[1] = "vram" /\ a < 32768 =>
        \E b \in Addresses : M!Target(b) = <<"vram", a>>
  BY <1>3, SMT DEF InLower
<1> QED
  BY <1>1, <1>2, <1>4, SMT DEF M!AddressesDisjoint

\* The sync generator runs with the timing that was set, and its beam is within that frame.
BeamInv ==
  /\ hz70 \in BOOLEAN /\ timing = hz70
  /\ beamX \in 0..(HTotal - 1) /\ beamY \in 0..(M!VTotal(hz70) - 1)

LEMMA FrameHasLines ==
  ASSUME NEW t \in BOOLEAN PROVE M!VTotal(t) \in Nat \ {0}
BY TimingAssumption DEF M!VTotal

LEMMA BeamBegins == M!MemoryInit => BeamInv
<1> SUFFICES ASSUME M!MemoryInit PROVE BeamInv
  OBVIOUS
<1>1. M!VTotal(FALSE) \in Nat \ {0}
  BY FrameHasLines
<1>2. hz70 = FALSE /\ timing = FALSE /\ beamX = 0 /\ beamY = 0
  BY DEF M!MemoryInit
<1>3. M!VTotal(hz70) \in Nat \ {0}
  BY <1>1, <1>2
<1>4. HTotal \in Nat \ {0}
  BY TimingAssumption
<1>5. hz70 \in BOOLEAN /\ timing = hz70
  BY <1>2
<1>6. beamX \in 0..(HTotal - 1) /\ beamY \in 0..(M!VTotal(hz70) - 1)
  BY <1>2, <1>3, <1>4
<1> QED
  BY <1>5, <1>6 DEF BeamInv

\* A clock moves the beam by one position, and from the last of the frame to the first.
LEMMA TickSweeps ==
  ASSUME BeamInv, M!Tick
  PROVE BeamInv' /\ M!Position' = (M!Position + 1) % (HTotal * M!VTotal(hz70))
<1> DEFINE n == M!VTotal(hz70)
<1>1. n \in Nat \ {0} /\ HTotal \in Nat \ {0}
  BY FrameHasLines, TimingAssumption DEF BeamInv
<1>2. /\ hz70' = hz70 /\ timing' = timing /\ timing = hz70
      /\ beamX \in Nat /\ beamY \in Nat /\ beamX < HTotal /\ beamY < n
      /\ IF beamX + 1 = HTotal
         THEN beamX' = 0 /\ beamY' = IF beamY + 1 = n THEN 0 ELSE beamY + 1
         ELSE beamX' = beamX + 1 /\ beamY' = beamY
  BY <1>1 DEF M!Tick, BeamInv
<1>3. M!VTotal(hz70)' = n
  BY <1>2 DEF M!VTotal
<1> HIDE DEF n
<1>4. BeamInv'
  BY <1>1, <1>2, <1>3 DEF BeamInv
<1> DEFINE p == M!Position
           z == HTotal * n
<1>5. p \in Nat /\ p = beamY * HTotal + beamX /\ M!Position' = beamY' * HTotal + beamX'
  BY <1>1, <1>2 DEF M!Position
<1>6. (beamY + 1) * HTotal = beamY * HTotal + HTotal /\ (beamY + 1) * HTotal <= z /\ z \in Nat \ {0}
  <2>1. (beamY + 1) * HTotal <= n * HTotal
    BY <1>1, <1>2, Multiples
  <2>2. n * HTotal = z /\ z \in Nat
    BY <1>1
  <2>3. (beamY + 1) * HTotal = beamY * HTotal + HTotal /\ beamY * HTotal \in Nat
    BY <1>1, <1>2
  <2> HIDE DEF z
  <2> QED
    BY <1>1, <2>1, <2>2, <2>3
<1>7. CASE beamX + 1 = HTotal /\ beamY + 1 = n
  <2>1. p + 1 = z
    BY <1>1, <1>2, <1>5, <1>6, <1>7
  <2>2. M!Position' = 0
    BY <1>1, <1>2, <1>5, <1>7
  <2> HIDE DEF z
  <2> QED
    BY <1>4, <1>6, <2>1, <2>2 DEF n, z
<1>8. CASE ~(beamX + 1 = HTotal /\ beamY + 1 = n)
  <2>1. M!Position' = p + 1
    <3>1. CASE beamX + 1 = HTotal
      BY <1>1, <1>2, <1>5, <1>6, <1>8, <3>1
    <3>2. CASE beamX + 1 # HTotal
      BY <1>1, <1>2, <1>5, <3>2
    <3> QED
      BY <3>1, <3>2
  <2>2. p + 1 < z
    <3>1. CASE beamX + 1 # HTotal
      BY <1>1, <1>2, <1>5, <1>6, <3>1
    <3>2. CASE beamX + 1 = HTotal /\ beamY + 1 # n
      <4>1. (beamY + 2) * HTotal <= n * HTotal
        BY <1>1, <1>2, <3>2, Multiples
      <4>2. (beamY + 2) * HTotal = beamY * HTotal + HTotal + HTotal /\ n * HTotal = z
        BY <1>1, <1>2
      <4> HIDE DEF z
      <4> QED
        BY <1>1, <1>2, <1>5, <1>6, <3>2, <4>1, <4>2
    <3> QED
      BY <1>8, <3>1, <3>2
  <2> HIDE DEF z, p
  <2>3. (p + 1) % z = p + 1
    BY <1>5, <1>6, <2>2
  <2> QED
    BY <1>4, <2>1, <2>3 DEF n, p, z
<1> QED
  BY <1>7, <1>8

\* Writing a register leaves the beam alone, or starts a new frame with the new timing.
LEMMA WriteKeepsBeam ==
  ASSUME BeamInv, NEW r \in M!Registers, NEW v \in Values[r], M!WriteMapper(r, v)
  PROVE BeamInv' /\ (IF hz70' = hz70 THEN M!Position' = M!Position ELSE M!Position' = 0)
<1> DEFINE h == IF r = 4 THEN M!Bit(v, 4) ELSE hz70
<1>1. h \in BOOLEAN /\ M!SetHz70(h)
  BY DEF M!WriteMapper, M!Bit, BeamInv
<1> HIDE DEF h
<1>2. CASE h = hz70
  BY <1>1, <1>2 DEF M!SetHz70, BeamInv, M!Position, M!VTotal
<1>3. CASE h # hz70
  <2>1. hz70' = h /\ timing' = h /\ beamX' = 0 /\ beamY' = 0
    BY <1>1, <1>3 DEF M!SetHz70
  <2>2. M!VTotal(h) \in Nat \ {0}
    BY <1>1, FrameHasLines
  <2>3. M!VTotal(hz70)' = M!VTotal(h)
    BY <2>1 DEF M!VTotal
  <2>4. M!Position' = 0
    BY <2>1, TimingAssumption DEF M!Position
  <2> QED
    BY <1>1, <1>3, <2>1, <2>2, <2>3, <2>4, TimingAssumption DEF BeamInv
<1> QED
  BY <1>2, <1>3

\* vt420.c, generic.c: for all addresses and however the mapper is set, no two addresses share a
\* byte, none leads out of its memory and none is hidden; for every timing, and whenever it is
\* changed, the beam sweeps the frame in use whole and never leaves it.
THEOREM MemorySound == Spec => MemoryIsSound
<1>1. Init => BeamInv
  BY BeamBegins DEF Init
<1>2. BeamInv /\ [Next]_vars => BeamInv' /\ (M!MemoryNext \/ UNCHANGED M!memoryVars)
  <2> SUFFICES ASSUME BeamInv, [Next]_vars
               PROVE BeamInv' /\ (M!MemoryNext \/ UNCHANGED M!memoryVars)
    OBVIOUS
  <2>1. M!MemoryNext \/ UNCHANGED M!memoryVars
    BY Zenon DEF Next, vars, memoryVars, M!memoryVars
  <2>2. CASE UNCHANGED M!memoryVars
    BY <2>2 DEF BeamInv, M!memoryVars, M!VTotal
  <2>3. ASSUME M!Tick PROVE BeamInv'
    BY <2>3, TickSweeps
  <2>4. ASSUME NEW r \in M!Registers, NEW v \in Values[r], M!WriteMapper(r, v) PROVE BeamInv'
    BY <2>4, WriteKeepsBeam
  <2>5. CASE M!MemoryNext
    BY <2>3, <2>4, <2>5, Zenon DEF M!MemoryNext
  <2> QED
    BY <2>1, <2>2, <2>5, Zenon
<1>3. BeamInv /\ [Next]_vars =>
        [IF hz70' = hz70
         THEN M!Position' \in {M!Position, (M!Position + 1) % (HTotal * M!VTotal(hz70))}
         ELSE M!Position' = 0]_(M!memoryVars)
  <2> DEFINE Sweeps == IF hz70' = hz70
                       THEN M!Position' \in {M!Position, (M!Position + 1) % (HTotal * M!VTotal(hz70))}
                       ELSE M!Position' = 0
  <2> SUFFICES ASSUME BeamInv, M!MemoryNext PROVE Sweeps
    BY <1>2, Zenon
  <2>1. CASE M!Tick
    <3>1. hz70' = hz70
      BY <2>1 DEF M!Tick
    <3> QED
      BY <2>1, <3>1, TickSweeps, Zenon
  <2>2. ASSUME NEW r \in M!Registers, NEW v \in Values[r], M!WriteMapper(r, v) PROVE Sweeps
    BY <2>2, WriteKeepsBeam, Zenon
  <2> QED
    BY <2>1, <2>2, Zenon DEF M!MemoryNext
<1>4. part = "memory" => M!AddressesDisjoint
  BY Disjoint
<1> QED
  BY <1>1, <1>2, <1>3, <1>4, PTL DEF Spec, MemoryIsSound, M!BeamInFrame

(***************************************************************************)
(* Remainders, and lists given by their elements.                          *)
(***************************************************************************)

\* A remainder is what its quotient leaves.
LEMMA ModIs ==
  ASSUME NEW b \in Nat \ {0}, NEW q \in Nat, NEW r \in Nat, r < b
  PROVE (q * b + r) % b = r
<1> DEFINE a == q * b + r
           p == a \div b
           s == a % b
<1>1. a \in Nat /\ q * b \in Nat
  OBVIOUS
<1>2. a = b * p + s /\ s \in 0..(b - 1)
  BY <1>1, SMT
<1>3. p \in Nat
  BY <1>1, SMT
<1>4. a = q * b + r
  OBVIOUS
<1> HIDE DEF a, p, s
<1>5. a = p * b + s
  BY <1>2, <1>3, SMT
<1>6. CASE p < q
  <2>1. (p + 1) * b <= q * b
    BY <1>3, <1>6, Multiples
  <2>2. (p + 1) * b = p * b + b /\ p * b \in Nat
    BY <1>3
  <2> QED
    BY <1>1, <1>2, <1>4, <1>5, <2>1, <2>2
<1>7. CASE q < p
  <2>1. (q + 1) * b <= p * b
    BY <1>3, <1>7, Multiples
  <2>2. (q + 1) * b = q * b + b /\ p * b \in Nat
    BY <1>3
  <2> QED
    BY <1>1, <1>2, <1>4, <1>5, <2>1, <2>2
<1>8. CASE p = q
  <2>1. s = r
    BY <1>1, <1>2, <1>4, <1>5, <1>8
  <2> QED
    BY <2>1 DEF a, s
<1> QED
  BY <1>3, <1>6, <1>7, <1>8

\* Whole multiples more leave the same.
LEMMA ModShift ==
  ASSUME NEW b \in Nat \ {0}, NEW k \in Nat, NEW x \in Nat
  PROVE (x + k * b) % b = x % b
<1>1. PICK q \in Nat, r \in Nat : r < b /\ x = q * b + r
  <2>1. x \div b \in Nat /\ (x \div b) * b <= x /\ x < (x \div b) * b + b
    BY Division
  <2> DEFINE q == x \div b
  <2>2. q \in Nat /\ q * b \in Nat /\ q * b <= x /\ x < q * b + b
    BY <2>1
  <2> HIDE DEF q
  <2>3. x - q * b \in Nat /\ x - q * b < b /\ x = q * b + (x - q * b)
    BY <2>2
  <2> QED
    BY <2>2, <2>3
<1>2. x % b = r
  BY <1>1, ModIs
<1>3. ((q + k) * b + r) % b = r
  BY <1>1, ModIs
<1>4. x + k * b = (q + k) * b + r
  <2>1. (q + k) * b = q * b + k * b
    OBVIOUS
  <2>2. q * b \in Nat /\ k * b \in Nat
    OBVIOUS
  <2> QED
    BY <1>1, <2>1, <2>2
<1> QED
  BY <1>2, <1>3, <1>4

\* Numbers less than b apart leave different remainders.
LEMMA ModApart ==
  ASSUME NEW b \in Nat \ {0}, NEW x \in Nat, NEW y \in Nat, x < y, y < x + b
  PROVE x % b # y % b
<1>1. PICK q \in Nat, r \in Nat : r < b /\ x = q * b + r /\ x % b = r
  <2>1. x \div b \in Nat /\ (x \div b) * b <= x /\ x < (x \div b) * b + b
    BY Division
  <2> DEFINE q == x \div b
  <2>2. q \in Nat /\ q * b \in Nat /\ q * b <= x /\ x < q * b + b
    BY <2>1
  <2> HIDE DEF q
  <2> DEFINE r == x - q * b
  <2>3. r \in Nat /\ r < b /\ x = q * b + r
    BY <2>2
  <2> HIDE DEF r
  <2>4. x % b = r
    BY <2>2, <2>3, ModIs
  <2> QED
    BY <2>2, <2>3, <2>4
<1> DEFINE d == y - x
<1>2. d \in Nat /\ 0 < d /\ d < b /\ y = x + d
  OBVIOUS
<1> HIDE DEF d
<1>3. q * b \in Nat /\ (q + 1) * b = q * b + b
  OBVIOUS
<1>4. CASE r + d < b
  <2>1. y = q * b + (r + d) /\ r + d \in Nat
    BY <1>1, <1>2, <1>3
  <2>2. y % b = r + d
    BY <1>4, <2>1, ModIs
  <2> QED
    BY <1>1, <1>2, <2>2
<1>5. CASE r + d >= b
  <2> DEFINE s == r + d - b
  <2>1. y = (q + 1) * b + s /\ s \in Nat /\ s < b /\ s # r
    BY <1>1, <1>2, <1>3, <1>5
  <2> HIDE DEF s
  <2>2. y % b = s
    BY <2>1, ModIs
  <2> QED
    BY <1>1, <2>1, <2>2
<1> QED
  BY <1>1, <1>2, <1>4, <1>5

\* A function on 1..n is a sequence of length n.
IsList(f, n) == f = [i \in 1..n |-> f[i]]
LEMMA Listed ==
  ASSUME NEW n \in Nat, NEW f, IsList(f, n)
  PROVE f \in Seq({f[i] : i \in 1..n}) /\ Len(f) = n
<1> DEFINE S == {f[i] : i \in 1..n}
<1>1. \A i \in 1..n : f[i] \in S
  OBVIOUS
<1> HIDE DEF S
<1>2. f \in [1..n -> S]
  BY <1>1, Zenon DEF IsList
<1>3. f \in Seq(S)
  BY <1>2, SeqDef, Zenon
<1>4. DOMAIN f = 1..Len(f) /\ Len(f) \in Nat
  BY <1>3, LenProperties, Zenon
<1>5. DOMAIN f = 1..n
  BY <1>2, Zenon
<1>6. Len(f) = n
  <2> DEFINE l == Len(f)
  <2>1. l \in Nat /\ 1..l = 1..n
    BY <1>4, <1>5, Zenon
  <2> HIDE DEF l
  <2>2. (l >= 1 => l \in 1..n) /\ (n >= 1 => n \in 1..l)
    BY <2>1
  <2>3. l = n
    BY <2>1, <2>2
  <2> QED
    BY <2>3 DEF l
<1> QED
  BY <1>3, <1>6 DEF S

\* One more element at the end, and one less at the front.
LEMMA ListGrows ==
  ASSUME NEW n \in Nat, NEW f, IsList(f, n), NEW g, IsList(g, n + 1), NEW x, g[n + 1] = x,
         \A i \in 1..n : g[i] = f[i]
  PROVE g = Append(f, x)
<1>1. Len(f) = n
  BY Listed, Zenon
<1>2. Append(f, x) = [i \in 1..(n + 1) |-> IF i = n + 1 THEN x ELSE f[i]]
  BY <1>1 DEF IsList
<1>3. \A i \in 1..(n + 1) : g[i] = IF i = n + 1 THEN x ELSE f[i]
  <2> SUFFICES ASSUME NEW i \in 1..(n + 1) PROVE g[i] = IF i = n + 1 THEN x ELSE f[i]
    OBVIOUS
  <2>1. i # n + 1 => i \in 1..n
    OBVIOUS
  <2> QED
    BY <2>1
<1>4. g = [i \in 1..(n + 1) |-> g[i]]
  BY DEF IsList
<1> QED
  BY <1>2, <1>3, <1>4, Zenon

LEMMA ListShrinks ==
  ASSUME NEW n \in Nat, n > 0, NEW f, IsList(f, n), NEW g, IsList(g, n - 1),
         \A i \in 1..(n - 1) : g[i] = f[i + 1]
  PROVE f # <<>> /\ Head(f) = f[1] /\ g = Tail(f)
<1>1. Len(f) = n /\ f \in Seq({f[i] : i \in 1..n})
  BY Listed, Zenon
<1>2. f # <<>>
  BY <1>1
<1>3. Head(f) = f[1]
  OBVIOUS
<1>4. Tail(f) = [i \in 1..(n - 1) |-> f[i + 1]]
  BY <1>1 DEF IsList
<1>5. g = Tail(f)
  BY <1>4, Zenon DEF IsList
<1> QED
  BY <1>2, <1>3, <1>5
\* The cells in which n items lie from the cell t on, in a ring of s cells.
Listing(s, b, t, n) == [i \in 1..n |-> b[(t + i - 1) % s]]

\* A function on the cells of a ring.
IsCells(f, s) == f = [i \in 0..(s - 1) |-> f[i]]

\* A cell is written.
Stored(s, b, c, k, x) == \A j \in 0..(s - 1) : c[j] = IF j = k THEN x ELSE b[j]

\* One list is another with an element behind it; one is another with an element before it.
Appended(f, x, g) == g = Append(f, x)
Prefixed(x, g, f) == f # <<>> /\ Head(f) = x /\ Tail(f) = g

\* A byte in the cell behind the last of n listed ones is appended; without its first one a
\* listing is the rest.
LEMMA ListingGrows ==
  ASSUME NEW s \in Nat \ {0}, NEW b, NEW c, NEW x, NEW t \in Nat, NEW n \in Nat, n < s,
         NEW k, k = (t + n) % s, NEW m, m = n + 1, Stored(s, b, c, k, x)
  PROVE Appended(Listing(s, b, t, n), x, Listing(s, c, t, m))
<1> DEFINE f == Listing(s, b, t, n)
           g == Listing(s, c, t, m)
<1>1. IsList(f, n) /\ IsList(g, n + 1)
  BY DEF Listing, IsList
<1>2. ASSUME NEW i \in 1..n PROVE g[i] = f[i]
  <2>1. i \in 1..(n + 1) /\ t + i - 1 \in Nat /\ t + i - 1 < t + n /\ t + n < t + i - 1 + s
    OBVIOUS
  <2>2. (t + i - 1) % s # (t + n) % s
    <3> DEFINE x1 == t + i - 1
               y1 == t + n
    <3>1. x1 \in Nat /\ y1 \in Nat /\ x1 < y1 /\ y1 < x1 + s
      BY <2>1
    <3> HIDE DEF x1, y1
    <3>2. x1 % s # y1 % s
      BY <3>1, ModApart
    <3> QED
      BY <3>2 DEF x1, y1
  <2>3. (t + i - 1) % s \in 0..(s - 1)
    BY <2>1
  <2>4. c[(t + i - 1) % s] = b[(t + i - 1) % s]
    BY <2>2, <2>3, Zenon DEF Stored
  <2> QED
    BY <2>1, <2>4, Zenon DEF Listing
<1>3. g[n + 1] = x
  <2>1. t + (n + 1) - 1 = t + n /\ n + 1 \in 1..(n + 1)
    OBVIOUS
  <2>2. (t + n) % s \in 0..(s - 1)
    OBVIOUS
  <2>3. c[(t + n) % s] = x
    BY <2>2, Zenon DEF Stored
  <2> QED
    BY <2>1, <2>3, Zenon DEF Listing
<1> HIDE DEF f, g
<1>4. g = Append(f, x)
  BY <1>1, <1>2, <1>3, ListGrows
<1> QED
  BY <1>4 DEF f, g, Appended

LEMMA ListingShrinks ==
  ASSUME NEW s \in Nat \ {0}, NEW b, NEW t \in Nat, NEW u \in Nat, NEW n \in Nat, n > 0,
         NEW m, m = n - 1, \A i \in 1..m : (u + i - 1) % s = (t + i) % s
  PROVE Prefixed(b[t % s], Listing(s, b, u, m), Listing(s, b, t, n))
<1> DEFINE f == Listing(s, b, t, n)
           g == Listing(s, b, u, m)
<1>1. IsList(f, n) /\ IsList(g, n - 1)
  BY DEF Listing, IsList
<1>2. ASSUME NEW i \in 1..(n - 1) PROVE g[i] = f[i + 1]
  <2>1. i + 1 \in 1..n /\ t + (i + 1) - 1 = t + i
    OBVIOUS
  <2>2. (u + i - 1) % s = (t + i) % s
    OBVIOUS
  <2>3. g[i] = b[(u + i - 1) % s]
    BY Zenon DEF Listing
  <2>4. f[i + 1] = b[(t + (i + 1) - 1) % s]
    BY <2>1, Zenon DEF Listing
  <2> QED
    BY <2>1, <2>2, <2>3, <2>4
<1>3. f[1] = b[t % s]
  <2>1. 1 \in 1..n /\ t + 1 - 1 = t
    OBVIOUS
  <2> QED
    BY <2>1, Zenon DEF Listing
<1> HIDE DEF f, g
<1>4. f # <<>> /\ Head(f) = f[1] /\ g = Tail(f)
  BY <1>1, <1>2, ListShrinks
<1> QED
  BY <1>3, <1>4 DEF f, g, Prefixed

(***************************************************************************)
(* The ring (ByteRing) is a queue.                                         *)
(***************************************************************************)

\* Of the indices, which run through a word, the ring uses what is less than Cap apart.
RingInv ==
  /\ rhead \in 0..(Word - 1) /\ rtail \in 0..(Word - 1)
  /\ R!Length <= Cap
  /\ rbuf = [i \in 0..(Cap - 1) |-> rbuf[i]]

LEMMA Rings == Cap \in Nat \ {0} /\ Word \in Nat /\ Cap < Word /\ Word % Cap = 0
BY RingAssumption

\* Masking an index that has wrapped finds the cell of the index that had not.
LEMMA SlotWraps ==
  ASSUME NEW x \in Nat, x < 2 * Word
  PROVE (x % Word) % Cap = x % Cap
<1>1. PICK k \in Nat : Word = k * Cap
  <2> DEFINE k == Word \div Cap
  <2>1. k \in Nat /\ Word = Cap * k + (Word % Cap)
    BY Rings, SMT
  <2> HIDE DEF k
  <2>2. Word = k * Cap
    BY <2>1, Rings
  <2> QED
    BY <2>1, <2>2
<1>2. CASE x < Word
  BY <1>2, Rings
<1>3. CASE x >= Word
  <2> DEFINE y == x - Word
  <2>1. y \in Nat /\ y < Word /\ x = y + Word
    BY <1>3, Rings
  <2> HIDE DEF y
  <2>2. y % Word = y /\ 1 * Word = Word
    BY <2>1, Rings
  <2>3. (y + 1 * Word) % Word = y % Word
    BY <2>1, Rings, ModShift
  <2>4. x % Word = y
    BY <2>1, <2>2, <2>3
  <2>5. (y + k * Cap) % Cap = y % Cap
    BY <1>1, <2>1, Rings, ModShift
  <2> QED
    BY <1>1, <2>1, <2>4, <2>5
<1> QED
  BY <1>2, <1>3, Rings

\* An index that moves on by n wraps at most once, and n is the difference in a word.
LEMMA IndexMoves ==
  ASSUME NEW t \in Nat, t < Word, NEW n \in Nat, n < Word
  PROVE /\ (t + n) % Word = IF t + n < Word THEN t + n ELSE t + n - Word
        /\ (t + n) % Word \in 0..(Word - 1)
        /\ (((t + n) % Word) - t) % Word = n
<1>1. CASE t + n < Word
  <2>1. (t + n) % Word = t + n /\ t + n - t = n /\ n % Word = n
    BY <1>1, Rings
  <2> QED
    BY <1>1, <2>1, Rings
<1>2. CASE t + n >= Word
  <2> DEFINE y == t + n - Word
  <2>1. y \in Nat /\ y < Word /\ t + n = y + Word /\ y - t = n - Word
    BY <1>2, Rings
  <2> HIDE DEF y
  <2>2. y % Word = y /\ 1 * Word = Word /\ (n - Word) % Word = n
    BY <2>1, Rings
  <2>3. (y + 1 * Word) % Word = y % Word
    BY <2>1, Rings, ModShift
  <2>4. (t + n) % Word = y
    BY <2>1, <2>2, <2>3
  <2> QED
    BY <1>2, <2>1, <2>2, <2>4, Rings
<1> QED
  BY <1>1, <1>2, Rings

\* And the other way round: the one index is the other moved on by the difference.
LEMMA IndexDiffers ==
  ASSUME NEW h \in Nat, h < Word, NEW t \in Nat, t < Word
  PROVE (h - t) % Word \in 0..(Word - 1) /\ h = (t + ((h - t) % Word)) % Word
<1>1. CASE h >= t
  <2>1. (h - t) % Word = h - t /\ t + (h - t) = h /\ h % Word = h
    BY <1>1, Rings
  <2> QED
    BY <1>1, <2>1, Rings
<1>2. CASE h < t
  <2> DEFINE d == h - t + Word
  <2>1. d \in Nat /\ d < Word /\ h - t = d - Word /\ t + d = h + Word
    BY <1>2, Rings
  <2> HIDE DEF d
  <2>2. (d - Word) % Word = d /\ h % Word = h /\ 1 * Word = Word
    BY <2>1, Rings
  <2>3. (h + 1 * Word) % Word = h % Word
    BY Rings, ModShift
  <2> QED
    BY <2>1, <2>2, <2>3, Rings
<1> QED
  BY <1>1, <1>2

LEMMA ItemsAre ==
  ASSUME NEW b, NEW t \in Nat, t < Word, NEW n \in Nat, n <= Cap
  PROVE [i \in 1..n |-> b[((t + i - 1) % Word) % Cap]] = Listing(Cap, b, t, n)
<1>1. ASSUME NEW i \in 1..n
      PROVE ((t + i - 1) % Word) % Cap = (t + i - 1) % Cap
  <2>1. t + i - 1 \in Nat /\ t + i - 1 < 2 * Word
    BY Rings
  <2> QED
    BY <2>1, SlotWraps
<1> QED
  BY <1>1, Zenon DEF Listing

LEMMA RingTypes ==
  ASSUME RingInv
  PROVE /\ rhead \in Nat /\ rhead < Word /\ rtail \in Nat /\ rtail < Word
        /\ R!Length \in Nat /\ R!Length <= Cap /\ R!Length < Word
        /\ rhead = (rtail + R!Length) % Word
        /\ R!Items = Listing(Cap, rbuf, rtail, R!Length)
<1>1. rhead \in Nat /\ rhead < Word /\ rtail \in Nat /\ rtail < Word /\ R!Length <= Cap
  BY Rings DEF RingInv
<1>2. R!Length \in Nat /\ R!Length < Word /\ rhead = (rtail + R!Length) % Word
  BY <1>1, IndexDiffers, Rings DEF R!Length
<1>3. R!Items = Listing(Cap, rbuf, rtail, R!Length)
  BY <1>1, <1>2, ItemsAre DEF R!Items, R!Slot
<1> QED
  BY <1>1, <1>2, <1>3

LEMMA RingBegins == R!Init => RingInv /\ R!Queue!Init
<1> SUFFICES ASSUME R!Init PROVE RingInv /\ R!Queue!Init
  OBVIOUS
<1>1. R!Length = 0
  BY Rings DEF R!Init, R!Length
<1>2. rhead = 0 /\ rtail = 0 /\ rout = <<>> /\ rbuf = [i \in 0..(Cap - 1) |-> rbuf[i]]
  BY Zenon DEF R!Init
<1>3. RingInv
  BY <1>1, <1>2, Rings DEF RingInv
<1>4. R!Items = <<>>
  BY <1>1 DEF R!Items
<1> QED
  BY <1>2, <1>3, <1>4 DEF R!Queue!Init

\* A byte goes into the cell behind the last item, which no item uses.
LEMMA RingPushes == ASSUME RingInv, R!Push PROVE RingInv' /\ R!Queue!Push
<1> DEFINE n == R!Length
           t == rtail
<1>1. /\ n \in Nat /\ n <= Cap /\ n < Word /\ t \in Nat /\ t < Word
      /\ rhead = (t + n) % Word /\ R!Items = Listing(Cap, rbuf, t, n)
  BY RingTypes
<1>2. n # Cap /\ rhead' = (rhead + 1) % Word /\ rtail' = t /\ rout' = rout
  BY DEF R!Push
<1>3. PICK b \in Byte : rbuf' = [rbuf EXCEPT ![rhead % Cap] = b]
  BY DEF R!Push, R!Slot
<1>4. R!Length' = (rhead' - rtail') % Word
  BY DEF R!Length
<1>5. rbuf = [i \in 0..(Cap - 1) |-> rbuf[i]]
  BY DEF RingInv
<1>6. R!Items' = [i \in 1..R!Length' |-> rbuf'[((rtail' + i - 1) % Word) % Cap]]
  BY DEF R!Items, R!Slot
<1> HIDE DEF n, t
<1>7. n + 1 \in Nat /\ n + 1 <= Cap /\ n + 1 < Word
  BY <1>1, <1>2, Rings
<1>8. rhead % Cap = (t + n) % Cap
  <2>1. t + n \in Nat /\ t + n < 2 * Word
    BY <1>1, Rings
  <2> QED
    BY <1>1, <2>1, SlotWraps
<1>9. rhead' = (t + (n + 1)) % Word
  <2>1. CASE t + n < Word
    BY <1>1, <1>2, <2>1, IndexMoves
  <2>2. CASE t + n >= Word
    <3>0. rhead = t + n - Word
      BY <1>1, <2>2, IndexMoves, Rings
    <3>1. rhead + 1 = t + (n + 1) - Word /\ rhead + 1 \in Nat /\ rhead + 1 < Word /\ t + (n + 1) >= Word
      BY <1>1, <1>7, <2>2, <3>0, Rings
    <3>2. rhead' = rhead + 1
      BY <1>2, <3>1, Rings
    <3> DEFINE k == n + 1
    <3>3. k \in Nat /\ k < Word /\ t + k >= Word /\ rhead' = t + k - Word
      BY <1>7, <3>1, <3>2
    <3> HIDE DEF k
    <3>4. (t + k) % Word = t + k - Word
      BY <1>1, <3>3, IndexMoves, Rings
    <3> QED
      BY <3>3, <3>4 DEF k
  <2> QED
    BY <1>1, <2>1, <2>2, Rings
<1>10. R!Length' = n + 1 /\ rhead' \in 0..(Word - 1)
  BY <1>1, <1>2, <1>4, <1>7, <1>9, IndexMoves
<1>11. RingInv'
  <2>1. rbuf' = [i \in 0..(Cap - 1) |-> rbuf'[i]]
    BY <1>3, <1>5, Zenon
  <2>2. rtail' \in 0..(Word - 1)
    BY <1>1, <1>2, Rings
  <2> QED
    BY <1>7, <1>10, <2>1, <2>2 DEF RingInv
<1>12. R!Items' = Listing(Cap, rbuf', t, n + 1)
  BY <1>1, <1>2, <1>6, <1>7, <1>10, ItemsAre
<1>13. Listing(Cap, rbuf', t, n + 1) = Append(Listing(Cap, rbuf, t, n), b)
  <2> DEFINE k == rhead % Cap
  <2>1. Stored(Cap, rbuf, rbuf', k, b)
    BY <1>3, <1>5, Zenon DEF Stored
  <2>2. n < Cap
    BY <1>1, <1>2, Rings
  <2>3. k = (t + n) % Cap
    BY <1>8
  <2> DEFINE c == rbuf'
             m == n + 1
  <2>4. Stored(Cap, rbuf, c, k, b) /\ m = n + 1
    BY <2>1
  <2> HIDE DEF k, c, m
  <2>5. Appended(Listing(Cap, rbuf, t, n), b, Listing(Cap, c, t, m))
    BY <1>1, <2>2, <2>3, <2>4, Rings, ListingGrows
  <2> QED
    BY <2>5 DEF c, m, Appended
<1> QED
  BY <1>1, <1>2, <1>11, <1>12, <1>13 DEF R!Queue!Push

\* The oldest item leaves its cell, and the next one is the oldest.
LEMMA RingPops == ASSUME RingInv, R!Pop PROVE RingInv' /\ R!Queue!Pop
<1> DEFINE n == R!Length
           t == rtail
<1>1. /\ n \in Nat /\ n <= Cap /\ n < Word /\ t \in Nat /\ t < Word
      /\ rhead = (t + n) % Word /\ R!Items = Listing(Cap, rbuf, t, n)
  BY RingTypes
<1>2. /\ rhead # t /\ rtail' = (t + 1) % Word /\ rhead' = rhead /\ rbuf' = rbuf
      /\ rout' = <<rbuf[t % Cap]>>
  BY DEF R!Pop, R!Slot
<1>3. R!Length' = (rhead' - rtail') % Word
  BY DEF R!Length
<1>4. rbuf = [i \in 0..(Cap - 1) |-> rbuf[i]] /\ rhead \in 0..(Word - 1)
  BY DEF RingInv
<1>5. R!Items' = [i \in 1..R!Length' |-> rbuf'[((rtail' + i - 1) % Word) % Cap]]
  BY DEF R!Items, R!Slot
<1> HIDE DEF n, t
<1>6. n > 0
  <2>1. n = 0 => rhead = t
    BY <1>1, IndexMoves, Rings
  <2> QED
    BY <1>1, <1>2, <2>1
<1> DEFINE u == rtail'
           m == n - 1
<1>7. u \in Nat /\ u < Word /\ u = IF t + 1 < Word THEN t + 1 ELSE 0
  BY <1>1, <1>2, Rings
<1>8. m \in Nat /\ m <= Cap /\ m < Word
  BY <1>1, <1>6, Rings
<1> HIDE DEF u, m
<1>9. rhead = (u + m) % Word
  <2>1. CASE t + 1 < Word
    <3>1. u + m = t + n
      BY <1>1, <1>7, <2>1 DEF m
    <3> QED
      BY <1>1, <3>1
  <2>2. CASE t + 1 >= Word
    <3>1. u = 0 /\ t + n = m + Word /\ t + n >= Word
      BY <1>1, <1>6, <1>7, <2>2, Rings DEF m
    <3>2. rhead = m
      BY <1>1, <1>8, <3>1, IndexMoves, Rings
    <3> QED
      BY <1>8, <3>1, <3>2, Rings
  <2> QED
    BY <2>1, <2>2, <1>1, Rings
<1>10. R!Length' = m
  BY <1>2, <1>3, <1>7, <1>8, <1>9, IndexMoves DEF u
<1>11. RingInv'
  <2>1. rtail' \in 0..(Word - 1)
    BY <1>7, Rings DEF u
  <2> QED
    BY <1>2, <1>4, <1>8, <1>10, <2>1 DEF RingInv
<1>12. R!Items' = Listing(Cap, rbuf, u, m)
  BY <1>2, <1>5, <1>7, <1>8, <1>10, ItemsAre DEF u
<1>13. ASSUME NEW i \in 1..m PROVE (u + i - 1) % Cap = (t + i) % Cap
  <2>1. CASE t + 1 < Word
    <3>1. u + i - 1 = t + i
      BY <1>1, <1>7, <2>1
    <3> QED
      BY <3>1
  <2>2. CASE t + 1 >= Word
    <3>1. u = 0 /\ t + 1 = Word
      BY <1>1, <1>7, <2>2, Rings
    <3>2. t + i \in Nat /\ t + i < 2 * Word /\ t + i = (i - 1) + Word /\ i - 1 \in Nat /\ i - 1 < Word
      BY <1>1, <1>8, <3>1, Rings
    <3>3. (t + i) % Word = i - 1
      <4>1. i \in Nat /\ i < Word /\ t + i >= Word
        BY <1>1, <1>8, <3>1, <3>2, Rings
      <4>2. (t + i) % Word = t + i - Word
        BY <1>1, <4>1, IndexMoves, Rings
      <4> QED
        BY <3>1, <3>2, <4>2, Rings
    <3>4. ((t + i) % Word) % Cap = (t + i) % Cap
      BY <3>2, SlotWraps
    <3> QED
      BY <3>1, <3>2, <3>3, <3>4
  <2> QED
    BY <2>1, <2>2, <1>1, Rings
<1>14. Prefixed(rbuf[t % Cap], Listing(Cap, rbuf, u, m), Listing(Cap, rbuf, t, n))
  <2>1. Cap \in Nat \ {0} /\ t \in Nat /\ n \in Nat /\ u \in Nat /\ n > 0 /\ m = n - 1
    BY <1>1, <1>6, <1>7, Rings DEF m
  <2> QED
    BY <1>13, <2>1, ListingShrinks
<1> QED
  BY <1>1, <1>2, <1>11, <1>12, <1>14 DEF R!Queue!Pop, Prefixed

(***************************************************************************)
(* The queue of a loopback session (LoopbackQueue) is a queue.             *)
(***************************************************************************)

\* The queue stands in the memory it has, which is none at first.
QueueInv ==
  /\ qcap \in Nat /\ qlen \in Nat /\ qhead \in Nat /\ qlen <= qcap
  /\ IF qcap = 0 THEN qhead = 0 ELSE qhead < qcap
  /\ qcap > 0 => IsCells(qbuf, qcap)

LEMMA QueueBegins == Q!Init => QueueInv /\ Q!Queue!Init
<1> SUFFICES ASSUME Q!Init PROVE QueueInv /\ Q!Queue!Init
  OBVIOUS
<1>1. qbuf = <<>> /\ qhead = 0 /\ qlen = 0 /\ qcap = 0 /\ qout = <<>>
  BY DEF Q!Init
<1>2. QueueInv
  BY <1>1 DEF QueueInv
<1>3. Q!Items = <<>>
  BY <1>1 DEF Q!Items
<1> QED
  BY <1>1, <1>2, <1>3 DEF Q!Queue!Init

\* A byte is stored behind what a buffer of c cells holds from the cell h on.
LEMMA QueueStores ==
  ASSUME NEW b, NEW f, NEW h \in Nat, NEW c \in Nat \ {0}, h < c, qlen \in Nat, qlen < c,
         NEW k, k = (h + qlen) % c, IsCells(qbuf', c), Stored(c, f, qbuf', k, b), qhead' = h, qcap' = c, qlen' = qlen + 1
  PROVE QueueInv' /\ Appended(Listing(c, f, h, qlen), b, Q!Items')
<1>1. qcap' \in Nat \ {0} /\ qlen' \in Nat /\ qhead' \in Nat /\ qlen' <= qcap' /\ qhead' < qcap'
  OBVIOUS
<1>3. QueueInv'
  BY <1>1 DEF QueueInv
<1>4. Q!Items' = Listing(c, qbuf', h, qlen')
  BY DEF Q!Items, Listing
<1> DEFINE g == qbuf'
           m == qlen'
           n == qlen
<1>5. Stored(c, f, g, k, b)
  OBVIOUS
<1>6. n \in Nat /\ n < c /\ m = n + 1 /\ k = (h + n) % c
  OBVIOUS
<1> HIDE DEF g, m, n
<1>7. Appended(Listing(c, f, h, n), b, Listing(c, g, h, m))
  BY <1>5, <1>6, ListingGrows
<1> QED
  BY <1>3, <1>4, <1>7 DEF g, m, n

\* Doubled, the buffer holds the same items: as they lay, or with the segment from the head on
\* moved to its end.
LEMMA QueueGrows ==
  ASSUME QueueInv, qlen = qcap
  PROVE /\ Q!Grown.cap \in Nat /\ Q!Grown.cap > qcap
        /\ Q!Grown.head \in Nat /\ Q!Grown.head < Q!Grown.cap
        /\ IsCells(Q!Grown.buf, Q!Grown.cap)
        /\ Listing(Q!Grown.cap, Q!Grown.buf, Q!Grown.head, qlen) = Q!Items
<1> DEFINE c == qcap
           h == qhead
           d == Q!NewCap
<1>1. c \in Nat /\ h \in Nat /\ qlen = c
      /\ IF c = 0 THEN h = 0 ELSE h < c
  BY DEF QueueInv
<1>2. d \in Nat /\ d > c /\ (c > 0 => d = 2 * c)
  BY <1>1, QueueAssumption DEF Q!NewCap
<1>3. Q!Items = [i \in 1..c |-> qbuf[(h + i - 1) % c]]
  BY <1>1 DEF Q!Items
<1>4. Q!Extended(d) = [i \in 0..(d - 1) |-> IF i < c THEN qbuf[i] ELSE Q!Junk]
  BY DEF Q!Extended, Q!Cells
<1>5. Q!Wrapped <=> h + c > c
  BY <1>1 DEF Q!Wrapped
<1>6. CASE ~Q!Wrapped
  <2>1. Q!Grown = [buf |-> Q!Extended(d), head |-> h, cap |-> d]
    BY <1>6 DEF Q!Grown
  <2>2. h = 0
    BY <1>1, <1>5, <1>6
  <2> DEFINE f == Q!Extended(d)
  <2>3. IsCells(f, d)
    BY <1>4, Zenon DEF IsCells
  <2> HIDE DEF d, f, c, h
  <2>4. Listing(d, f, h, c) = Q!Items
    <3>1. ASSUME NEW i \in 1..c PROVE f[(h + i - 1) % d] = qbuf[(h + i - 1) % c]
      <4>1. h + i - 1 = i - 1 /\ (i - 1) % d = i - 1 /\ (i - 1) % c = i - 1 /\ i - 1 \in 0..(d - 1)
            /\ i - 1 < c
        BY <1>1, <1>2, <2>2
      <4>2. f[i - 1] = qbuf[i - 1]
        BY <1>4, <4>1 DEF f
      <4> QED
        BY <4>1, <4>2
    <3> QED
      BY <1>3, <3>1, Zenon DEF Listing
  <2>5. Q!Grown = [buf |-> f, head |-> h, cap |-> d]
    BY <2>1 DEF f, h, d
  <2>6. Q!Grown.cap = d /\ Q!Grown.head = h /\ Q!Grown.buf = f
    BY <2>5
  <2>7. qlen = c /\ qcap = c
    BY <1>1 DEF c
  <2>8. h < d
    BY <1>2, <1>1, <2>2
  <2> QED
    BY <1>1, <1>2, <2>3, <2>4, <2>6, <2>7, <2>8
<1>7. CASE Q!Wrapped
  <2> DEFINE e == h + (d - c)
             nb == Q!Extended(d)
             f == [i \in 0..(d - 1) |-> IF i >= e THEN nb[i - (d - c)] ELSE nb[i]]
  <2>1. Q!Grown = [buf |-> f, head |-> e, cap |-> d]
    BY <1>7 DEF Q!Grown, Q!Cells
  <2>2. Q!Grown.cap = d /\ Q!Grown.head = e /\ Q!Grown.buf = f
    BY <2>1
  <2>3. c > 0 /\ d = 2 * c /\ e = h + c /\ d - c = c
    BY <1>1, <1>2, <1>5, <1>7
  <2>4. IsCells(f, d)
    BY DEF IsCells
  <2>5. \A i \in 0..(d - 1) : f[i] = IF i >= e THEN nb[i - c] ELSE nb[i]
    BY <2>3
  <2>6. \A i \in 0..(d - 1) : i < c => nb[i] = qbuf[i]
    BY <1>4
  <2>7. qlen = c /\ qcap = c
    BY <1>1
  <2> HIDE DEF d, c, h, e, nb, f
  <2>8. ASSUME NEW i \in 1..c PROVE f[(e + i - 1) % d] = qbuf[(h + i - 1) % c]
    <3>1. CASE h + i - 1 < c
      <4>1. (e + i - 1) % d = e + i - 1 /\ (h + i - 1) % c = h + i - 1 /\ e + i - 1 - c = h + i - 1
        BY <1>1, <2>3, <3>1
      <4>2. e + i - 1 \in 0..(d - 1) /\ h + i - 1 \in 0..(d - 1) /\ e + i - 1 >= e
        BY <1>1, <2>3, <3>1
      <4>3. f[e + i - 1] = nb[h + i - 1]
        <5> DEFINE z == e + i - 1
        <5>1. z \in 0..(d - 1) /\ z >= e /\ z - c = h + i - 1
          BY <1>1, <2>3, <3>1, <4>1, <4>2
        <5> HIDE DEF z
        <5>2. f[z] = nb[z - c]
          BY <2>5, <5>1
        <5> QED
          BY <5>1, <5>2 DEF z
      <4> QED
        BY <2>6, <3>1, <4>1, <4>2, <4>3
    <3>2. CASE h + i - 1 >= c
      <4> DEFINE y == h + i - 1 - c
      <4>1. y \in Nat /\ y < c /\ y < h /\ h + i - 1 = y + c /\ e + i - 1 = y + d
        BY <1>1, <2>3, <3>2
      <4> HIDE DEF y
      <4>2. y % c = y /\ y % d = y /\ 1 * c = c /\ 1 * d = d
        BY <1>1, <2>3, <4>1
      <4>3. (y + 1 * c) % c = y % c /\ (y + 1 * d) % d = y % d
        BY <1>1, <1>2, <2>3, <4>1, ModShift
      <4>4. y \in 0..(d - 1) /\ ~(y >= e)
        BY <1>1, <2>3, <4>1
      <4>5. f[y] = qbuf[y]
        BY <2>5, <2>6, <4>1, <4>4
      <4> QED
        BY <4>1, <4>2, <4>3, <4>5
    <3> QED
      BY <1>1, <3>1, <3>2
  <2>9. Listing(d, f, e, c) = Q!Items
    BY <1>3, <2>8, Zenon DEF Listing
  <2>10. e \in Nat /\ e < d
    BY <1>1, <2>3
  <2> QED
    BY <1>1, <1>2, <2>2, <2>4, <2>7, <2>9, <2>10
<1> QED
  BY <1>6, <1>7

\* Each step of the queue is one of a queue, or the byte that had no room is dropped.
LEMMA QueueSteps ==
  ASSUME QueueInv, Q!Next
  PROVE QueueInv' /\ (Q!Queue!Next \/ UNCHANGED <<Q!Items, qout>>)
<1>0. /\ qcap \in Nat /\ qlen \in Nat /\ qhead \in Nat /\ qlen <= qcap
      /\ IF qcap = 0 THEN qhead = 0 ELSE qhead < qcap
      /\ qcap > 0 => IsCells(qbuf, qcap)
  BY DEF QueueInv
<1>1. Q!Items = Listing(qcap, qbuf, qhead, qlen)
  BY DEF Q!Items, Listing
<1>2. ASSUME Q!Push PROVE QueueInv' /\ Q!Queue!Push
  <2>1. PICK b \in Byte : Q!Store([buf |-> qbuf, head |-> qhead, cap |-> qcap], b)
    BY <1>2 DEF Q!Push
  <2>2. qbuf' = [qbuf EXCEPT ![(qhead + qlen) % qcap] = b]
    BY <2>1 DEF Q!Store
  <2>3. qhead' = qhead /\ qcap' = qcap /\ qlen' = qlen + 1
    BY <2>1 DEF Q!Store
  <2>4. qlen < qcap /\ qout' = qout
    BY <1>2 DEF Q!Push
  <2>5. QueueInv' /\ Appended(Listing(qcap, qbuf, qhead, qlen), b, Q!Items')
    <3>1. qcap \in Nat \ {0} /\ qhead < qcap
      BY <1>0, <2>4
    <3>2. IsCells(qbuf', qcap) /\ Stored(qcap, qbuf, qbuf', (qhead + qlen) % qcap, b)
      <4>1. IsCells(qbuf, qcap)
        BY <1>0, <3>1
      <4> QED
        BY <2>2, <4>1, Zenon DEF IsCells, Stored
    <3> QED
      BY <1>0, <2>3, <2>4, <3>1, <3>2, QueueStores
  <2> QED
    BY <1>1, <2>4, <2>5 DEF Q!Queue!Push, Appended
<1>3. ASSUME Q!PushGrowing PROVE QueueInv' /\ Q!Queue!Push
  <2>1. PICK b \in Byte : Q!Store(Q!Grown, b)
    BY <1>3 DEF Q!PushGrowing
  <2>2. qlen = qcap /\ qout' = qout
    BY <1>3 DEF Q!PushGrowing
  <2> DEFINE f == Q!Grown.buf
             h == Q!Grown.head
             c == Q!Grown.cap
  <2>3. qbuf' = [f EXCEPT ![(h + qlen) % c] = b]
    BY <2>1 DEF Q!Store
  <2>4. qhead' = h /\ qcap' = c /\ qlen' = qlen + 1
    BY <2>1 DEF Q!Store
  <2>5. /\ c \in Nat /\ c > qcap /\ h \in Nat /\ h < c
        /\ IsCells(f, c)
        /\ Listing(c, f, h, qlen) = Q!Items
    BY <2>2, QueueGrows
  <2> HIDE DEF f, h, c
  <2>6. QueueInv' /\ Appended(Listing(c, f, h, qlen), b, Q!Items')
    <3>1. c \in Nat \ {0} /\ qlen < c
      BY <1>0, <2>2, <2>5
    <3>2. IsCells(qbuf', c) /\ Stored(c, f, qbuf', (h + qlen) % c, b)
      BY <2>3, <2>5, Zenon DEF IsCells, Stored
    <3> QED
      BY <1>0, <2>4, <2>5, <3>1, <3>2, QueueStores
  <2> QED
    BY <2>2, <2>5, <2>6 DEF Q!Queue!Push, Appended
<1>4. ASSUME Q!PushDropping PROVE QueueInv' /\ UNCHANGED <<Q!Items, qout>>
  BY <1>4 DEF Q!PushDropping, Q!vars, QueueInv, Q!Items
<1>5. ASSUME Q!Pop PROVE QueueInv' /\ Q!Queue!Pop
  <2>1. qlen # 0 /\ qout' = <<qbuf[qhead]>> /\ qhead' = (qhead + 1) % qcap
        /\ qlen' = qlen - 1 /\ qbuf' = qbuf /\ qcap' = qcap
    BY <1>5 DEF Q!Pop
  <2> DEFINE s == qcap
             t == qhead
             u == (t + 1) % s
             n == qlen
             m == n - 1
  <2>2. s \in Nat \ {0} /\ t \in Nat /\ t < s /\ n \in Nat /\ n > 0 /\ n <= s /\ m \in Nat
    BY <1>0, <2>1
  <2>3. Q!Items' = Listing(s, qbuf, u, m)
    BY <2>1 DEF Q!Items, Listing
  <2>4. t % s = t
    BY <2>2
  <2>5. u \in Nat /\ u = IF t + 1 < s THEN t + 1 ELSE 0
    BY <2>2
  <2>6. m = n - 1
    OBVIOUS
  <2>7. QueueInv'
    <3>1. u < s
      BY <2>2, <2>5
    <3> QED
      BY <1>0, <2>1, <2>2, <2>5, <3>1 DEF QueueInv
  <2> HIDE DEF s, t, u, n, m
  <2>8. ASSUME NEW i \in 1..m PROVE (u + i - 1) % s = (t + i) % s
    <3>1. CASE t + 1 < s
      <4>1. u + i - 1 = t + i
        BY <2>2, <2>5, <3>1
      <4> QED
        BY <4>1
    <3>2. CASE t + 1 >= s
      <4> DEFINE y == i - 1
      <4>1. y \in Nat /\ u + i - 1 = y /\ t + i = y + 1 * s
        BY <2>2, <2>5, <3>2
      <4> HIDE DEF y
      <4>2. (y + 1 * s) % s = y % s
        BY <2>2, <4>1, ModShift
      <4> QED
        BY <4>1, <4>2
    <3> QED
      BY <2>2, <3>1, <3>2
  <2>9. Prefixed(qbuf[t % s], Listing(s, qbuf, u, m), Listing(s, qbuf, t, n))
    BY <2>2, <2>5, <2>6, <2>8, ListingShrinks
  <2>10. Q!Items = Listing(s, qbuf, t, n) /\ qout' = <<qbuf[t]>>
    BY <1>1, <2>1 DEF s, t, n
  <2> QED
    BY <2>3, <2>4, <2>7, <2>9, <2>10 DEF Q!Queue!Pop, Prefixed
<1> QED
  BY <1>2, <1>3, <1>4, <1>5 DEF Q!Next, Q!Queue!Next

\* common.c, chan.c: whatever a ring of the machine and the queue of a loopback session accept
\* comes out of them complete and in order, for every number of cells that divides the word.
THEOREM QueuesAreQueues == Spec => QueuesAreFifos
<1>1. Init => RingInv /\ QueueInv /\ R!Queue!Init /\ Q!Queue!Init
  BY RingBegins, QueueBegins, Zenon DEF Init
<1>2. RingInv /\ [Next]_vars => RingInv' /\ [R!Queue!Next]_<<R!Items, rout>>
  <2> SUFFICES ASSUME RingInv, [Next]_vars PROVE RingInv' /\ [R!Queue!Next]_<<R!Items, rout>>
    OBVIOUS
  <2>1. R!Next \/ UNCHANGED ringVars
    BY Zenon DEF Next, vars
  <2>2. ASSUME UNCHANGED ringVars PROVE RingInv' /\ UNCHANGED <<R!Items, rout>>
    BY <2>2 DEF ringVars, RingInv, R!Length, R!Items, R!Slot
  <2>3. ASSUME R!Next PROVE RingInv' /\ R!Queue!Next
    BY <2>3, RingPushes, RingPops, Zenon DEF R!Next, R!Queue!Next
  <2> QED
    BY <2>1, <2>2, <2>3, Zenon
<1>3. QueueInv /\ [Next]_vars => QueueInv' /\ [Q!Queue!Next]_<<Q!Items, qout>>
  <2> SUFFICES ASSUME QueueInv, [Next]_vars PROVE QueueInv' /\ [Q!Queue!Next]_<<Q!Items, qout>>
    OBVIOUS
  <2>1. Q!Next \/ UNCHANGED queueVars
    BY Zenon DEF Next, vars
  <2>2. ASSUME UNCHANGED queueVars PROVE QueueInv' /\ UNCHANGED <<Q!Items, qout>>
    BY <2>2 DEF queueVars, QueueInv, Q!Items
  <2> QED
    BY <2>1, <2>2, QueueSteps, Zenon
<1> QED
  BY <1>1, <1>2, <1>3, PTL DEF Spec, QueuesAreFifos, R!IsFifo, Q!IsFifo, R!Queue!Spec, Q!Queue!Spec

\* Induction over the naturals, as a fact about sets.
LEMMA Induction ==
  ASSUME NEW W, 0 \in W, \A n \in Nat : n \in W => n + 1 \in W
  PROVE  \A n \in Nat : n \in W
<1> DEFINE Out == {n \in Nat : n \notin W}
<1> SUFFICES ASSUME Out # {} PROVE FALSE
  OBVIOUS
<1>1. PICK x \in Out : \A y \in Out : ~(<<y, x>> \in OpToRel(<, Nat))
  <2>1. Out \subseteq Nat
    OBVIOUS
  <2> HIDE DEF Out
  <2> QED
    BY <2>1, NatLessThanWellFounded, WFMin
<1>2. x \in Nat /\ x # 0 /\ x - 1 \in Nat /\ x - 1 \in W => FALSE
  OBVIOUS
<1>3. x - 1 \in Out
  BY <1>2
<1>4. <<x - 1, x>> \in OpToRel(<, Nat)
  BY <1>3 DEF OpToRel
<1> QED
  BY <1>1, <1>3, <1>4

(***************************************************************************)
(* Typing: what the terminal will have heard when all bytes have come.     *)
(***************************************************************************)

\* What the terminal believes and has heard, and what one byte makes of it.
Took(e, b) ==
  IF b = "all_up" THEN [held |-> {}, heard |-> e.heard]
  ELSE IF b = "reply" THEN e
  ELSE IF b \in K!Modifiers \/ (b = "f1" /\ b \in e.held)
       THEN [held |-> IF b \in e.held THEN e.held \ {b} ELSE e.held \cup {b}, heard |-> e.heard]
  ELSE [held |-> IF b = "f1" THEN e.held \cup {b} ELSE e.held,
        heard |-> Append(e.heard, [key |-> b, with |-> e.held \cap K!Modifiers])]

\* The bytes of p lead from s to e.
Runs(s, p, e) ==
  \E h : h[0] = s /\ h[Len(p)] = e /\ \A i \in 1..Len(p) : h[i] = Took(h[i - 1], p[i])

KeyByte == {"ctrl", "shift", "char", "f1", "all_up", "reply"}

LEMMA RunsNowhere ==
  ASSUME NEW s, NEW e
  PROVE  (Runs(s, <<>>, e) <=> s = e)
<1> DEFINE h == [i \in {0} |-> s]
<1>1. h[0] = s /\ Len(<<>>) = 0 /\ \A i \in 1..0 : h[i] = Took(h[i - 1], <<>>[i])
  OBVIOUS
<1> HIDE DEF h
<1> QED
  BY <1>1 DEF Runs

LEMMA RunsOne ==
  ASSUME NEW s, NEW b
  PROVE  Runs(s, <<b>>, Took(s, b))
<1> DEFINE h == [i \in {0, 1} |-> IF i = 0 THEN s ELSE Took(s, b)]
           p == <<b>>
<1>1. h[0] = s /\ h[1] = Took(s, b) /\ Len(p) = 1 /\ p[1] = b
  OBVIOUS
<1> HIDE DEF h, p
<1>2. \A i \in 1..Len(p) : h[i] = Took(h[i - 1], p[i])
  <2> SUFFICES ASSUME NEW i \in 1..Len(p) PROVE h[i] = Took(h[i - 1], p[i])
    OBVIOUS
  <2>1. i = 1 /\ i - 1 = 0
    BY <1>1
  <2> QED
    BY <1>1, <2>1
<1>3. h[Len(p)] = Took(s, b)
  BY <1>1
<1>4. Runs(s, p, Took(s, b))
  BY <1>1, <1>2, <1>3, Zenon DEF Runs
<1> QED
  BY <1>4 DEF p

Joined(p, q, r) == r = p \o q

LEMMA JoinedLen ==
  ASSUME NEW p \in Seq(KeyByte), NEW q \in Seq(KeyByte), NEW r, Joined(p, q, r)
  PROVE  Len(r) = Len(p) + Len(q)
BY DEF Joined

\* What leads on from there, one after the other.
LEMMA RunsOn ==
  ASSUME NEW p \in Seq(KeyByte), NEW q \in Seq(KeyByte), NEW r, Joined(p, q, r),
         NEW s, NEW m, NEW e, Runs(s, p, m), Runs(m, q, e)
  PROVE  Runs(s, r, e)
<1> DEFINE a == Len(p)
           b == Len(q)
<1>1. a \in Nat /\ b \in Nat /\ Len(r) = a + b
      /\ (\A i \in 1..a : r[i] = p[i]) /\ (\A i \in 1..b : r[a + i] = q[i])
  BY DEF Joined
<1>2. PICK f : f[0] = s /\ f[a] = m /\ \A i \in 1..a : f[i] = Took(f[i - 1], p[i])
  BY Zenon DEF Runs
<1>3. PICK g : g[0] = m /\ g[b] = e /\ \A i \in 1..b : g[i] = Took(g[i - 1], q[i])
  BY Zenon DEF Runs
<1> HIDE DEF a, b
<1> DEFINE n == a + b
           h == [i \in 0..n |-> IF i <= a THEN f[i] ELSE g[i - a]]
<1>4. ASSUME NEW i \in 0..n PROVE i <= a => h[i] = f[i]
  OBVIOUS
<1>5. ASSUME NEW i \in 0..n PROVE i >= a => h[i] = g[i - a]
  <2>1. i = a => i - a = 0
    BY <1>1
  <2>2. CASE i = a
    BY <1>1, <1>2, <1>3, <2>1, <2>2
  <2>3. CASE i # a
    BY <1>1, <2>3
  <2> QED
    BY <2>2, <2>3
<1> HIDE DEF h
<1>6. h[0] = s /\ h[n] = e
  <2>1. 0 \in 0..n /\ 0 <= a /\ n \in 0..n /\ n >= a /\ n - a = b
    BY <1>1
  <2> QED
    BY <1>2, <1>3, <1>4, <1>5, <2>1
<1>7. ASSUME NEW i \in 1..n PROVE h[i] = Took(h[i - 1], r[i])
  <2>1. i \in 0..n /\ i - 1 \in 0..n
    BY <1>1
  <2>2. CASE i <= a
    <3>1. i \in 1..a /\ i - 1 <= a
      BY <1>1, <2>2
    <3> QED
      BY <1>1, <1>2, <1>4, <2>1, <2>2, <3>1
  <2>3. CASE i > a
    <3> DEFINE j == i - a
    <3>1. j \in 1..b /\ i - 1 >= a /\ i >= a /\ i - 1 - a = j - 1 /\ i = a + j
      BY <1>1, <2>3
    <3> HIDE DEF j
    <3>2. h[i] = g[j] /\ h[i - 1] = g[j - 1] /\ r[i] = q[j]
      <4>1. i - a = j
        BY <1>1, <3>1
      <4> QED
        BY <1>1, <1>5, <2>1, <3>1, <4>1
    <3> QED
      BY <1>3, <3>1, <3>2
  <2> QED
    BY <1>1, <2>2, <2>3
<1>8. Len(r) = n
  BY <1>1
<1> HIDE DEF n
<1> QED
  BY <1>6, <1>7, <1>8, Zenon DEF Runs

\* And what leads there may be cut in two.
LEMMA RunsParts ==
  ASSUME NEW p \in Seq(KeyByte), NEW q \in Seq(KeyByte), NEW r, Joined(p, q, r),
         NEW s, NEW e, Runs(s, r, e)
  PROVE  \E m : Runs(s, p, m) /\ Runs(m, q, e)
<1> DEFINE a == Len(p)
           b == Len(q)
           n == a + b
<1>1. a \in Nat /\ b \in Nat /\ Len(r) = n
      /\ (\A i \in 1..a : r[i] = p[i]) /\ (\A i \in 1..b : r[a + i] = q[i])
  BY DEF Joined
<1>2. PICK h : h[0] = s /\ h[n] = e /\ \A i \in 1..n : h[i] = Took(h[i - 1], r[i])
  BY <1>1, Zenon DEF Runs
<1> HIDE DEF a, b
<1> DEFINE g == [i \in 0..b |-> h[a + i]]
           m == h[a]
<1>3. \A i \in 1..a : h[i] = Took(h[i - 1], p[i])
  <2> SUFFICES ASSUME NEW i \in 1..a PROVE h[i] = Took(h[i - 1], p[i])
    OBVIOUS
  <2>1. i \in 1..n
    BY <1>1
  <2> QED
    BY <1>1, <1>2, <2>1
<1>4. g[0] = m /\ g[b] = e /\ \A i \in 0..b : g[i] = h[a + i]
  <2>1. 0 \in 0..b /\ b \in 0..b /\ a + 0 = a
    BY <1>1
  <2> QED
    BY <1>2, <2>1
<1> HIDE DEF g
<1>5. ASSUME NEW i \in 1..b PROVE g[i] = Took(g[i - 1], q[i])
  <2> DEFINE j == a + i
  <2>1. j \in 1..n /\ i \in 0..b /\ i - 1 \in 0..b /\ a + (i - 1) = j - 1
    BY <1>1
  <2>2. g[i] = h[j] /\ g[i - 1] = h[j - 1] /\ r[j] = q[i]
    BY <1>1, <1>4, <2>1
  <2> HIDE DEF j
  <2> QED
    BY <1>2, <2>1, <2>2
<1>6. Runs(s, p, m)
  BY <1>2, <1>3, Zenon DEF Runs, a
<1>7. Runs(m, q, e)
  BY <1>4, <1>5, Zenon DEF Runs, b
<1> QED
  BY <1>6, <1>7

LEMMA RunsOneIs ==
  ASSUME NEW s, NEW b, NEW e, Runs(s, <<b>>, e)
  PROVE  e = Took(s, b)
<1> DEFINE p == <<b>>
<1>1. Len(p) = 1 /\ p[1] = b
  OBVIOUS
<1> HIDE DEF p
<1>2. PICK h : h[0] = s /\ h[Len(p)] = e /\ \A i \in 1..Len(p) : h[i] = Took(h[i - 1], p[i])
  BY Zenon DEF Runs, p
<1>3. 1 \in 1..Len(p) /\ 1 - 1 = 0
  BY <1>1
<1> QED
  BY <1>1, <1>2, <1>3

\* What has been heard is not forgotten.
LEMMA StaysPrefix ==
  ASSUME NEW u \in Seq(K!Key), NEW v \in Seq(K!Key), NEW x \in K!Key, K!IsPrefix(u, v)
  PROVE  Append(v, x) \in Seq(K!Key) /\ K!IsPrefix(u, Append(v, x))
<1> DEFINE l == Len(u)
           m == Len(v)
           w == Append(v, x)
<1>1. l \in Nat /\ m \in Nat /\ w \in Seq(K!Key) /\ Len(w) = m + 1 /\ \A i \in 1..m : w[i] = v[i]
  OBVIOUS
<1>2. l <= m /\ SubSeq(u, 1, l) = SubSeq(v, 1, l)
  BY DEF K!IsPrefix
<1>3. SubSeq(v, 1, l) = SubSeq(w, 1, l)
  <2>1. \A i \in 1..l : w[i] = v[i]
    BY <1>1, <1>2
  <2>2. SubSeq(v, 1, l) = [i \in 1..l |-> v[i]] /\ SubSeq(w, 1, l) = [i \in 1..l |-> w[i]]
    BY <1>1, <1>2
  <2> QED
    BY <2>1, <2>2
<1>4. l <= m + 1
  BY <1>1, <1>2
<1> QED
  BY <1>1, <1>2, <1>3, <1>4 DEF K!IsPrefix

LEMMA TookExtends ==
  ASSUME NEW u \in Seq(K!Key), NEW e, e.heard \in Seq(K!Key), K!IsPrefix(u, e.heard), NEW b \in KeyByte
  PROVE  Took(e, b).heard \in Seq(K!Key) /\ K!IsPrefix(u, Took(e, b).heard)
<1> DEFINE x == [key |-> b, with |-> e.held \cap K!Modifiers]
<1>1. \/ Took(e, b).heard = e.heard
      \/ b \notin {"all_up", "reply"} \cup K!Modifiers /\ Took(e, b).heard = Append(e.heard, x)
  BY DEF Took
<1>2. CASE Took(e, b).heard = e.heard
  BY <1>2
<1>3. CASE b \notin {"all_up", "reply"} \cup K!Modifiers /\ Took(e, b).heard = Append(e.heard, x)
  <2>1. x \in K!Key
    BY <1>3 DEF K!Key, K!Modifiers, KeyByte
  <2> HIDE DEF x
  <2>2. Append(e.heard, x) \in Seq(K!Key) /\ K!IsPrefix(u, Append(e.heard, x))
    BY <2>1, StaysPrefix
  <2> QED
    BY <1>3, <2>2
<1> QED
  BY <1>1, <1>2, <1>3

LEMMA RunsExtend ==
  ASSUME NEW p \in Seq(KeyByte), NEW s, s.heard \in Seq(K!Key), NEW e, Runs(s, p, e)
  PROVE  K!IsPrefix(s.heard, e.heard)
<1> DEFINE n == Len(p)
<1>1. n \in Nat /\ \A i \in 1..n : p[i] \in KeyByte
  OBVIOUS
<1>2. PICK h : h[0] = s /\ h[n] = e /\ \A i \in 1..n : h[i] = Took(h[i - 1], p[i])
  BY Zenon DEF Runs
<1> HIDE DEF n
<1> DEFINE Fine(i) == h[i].heard \in Seq(K!Key) /\ K!IsPrefix(s.heard, h[i].heard)
           W == {i \in Nat : i <= n => Fine(i)}
<1>3. 0 \in W
  BY <1>1, <1>2 DEF K!IsPrefix
<1>4. ASSUME NEW i \in Nat, i \in W PROVE i + 1 \in W
  <2> SUFFICES ASSUME i + 1 <= n PROVE Fine(i + 1)
    OBVIOUS
  <2> DEFINE j == i + 1
  <2>1. j \in 1..n /\ j - 1 = i /\ Fine(i)
    BY <1>1, <1>4
  <2> HIDE DEF j
  <2>2. h[j] = Took(h[i], p[j]) /\ p[j] \in KeyByte
    BY <1>1, <1>2, <2>1
  <2>3. Fine(j)
    BY <2>1, <2>2, TookExtends
  <2> QED
    BY <2>3 DEF j
<1> HIDE DEF W
<1>5. n \in W
  BY <1>1, <1>3, <1>4, Induction
<1> QED
  BY <1>1, <1>2, <1>5 DEF W

\* The bytes of a key make the terminal hear the key.
LEMMA ChordRuns ==
  ASSUME NEW k \in K!Key, NEW u
  PROVE  /\ K!Bytes(k) \in Seq(KeyByte)
         /\ Runs([held |-> {}, heard |-> u], K!Bytes(k), [held |-> {}, heard |-> Append(u, k)])
<1> DEFINE w == k.with
           d1 == IF "ctrl" \in w THEN <<"ctrl">> ELSE <<>>
           d2 == IF "shift" \in w THEN <<"shift">> ELSE <<>>
           d == d1 \o d2
           c == <<k.key>>
           r == IF w # {} \/ k.key = "f1" THEN <<"all_up">> ELSE <<>>
           v == Append(u, k)
           At(x) == [held |-> x, heard |-> u]
           x1 == w \cap {"ctrl"}
           last == [held |-> IF k.key = "f1" THEN w \cup {"f1"} ELSE w, heard |-> v]
<1>1. /\ w \in SUBSET {"shift", "ctrl"} /\ k.key \in {"char", "f1"}
      /\ k = [key |-> k.key, with |-> w]
  BY DEF K!Key, K!Modifiers
<1>2. K!Bytes(k) = (d \o c) \o r
  BY DEF K!Bytes, K!Down
<1>3. /\ d1 \in Seq(KeyByte) /\ d2 \in Seq(KeyByte) /\ c \in Seq(KeyByte) /\ r \in Seq(KeyByte)
  <2>1. \A b \in KeyByte : <<b>> \in Seq(KeyByte)
    OBVIOUS
  <2>2. <<>> \in Seq(KeyByte)
    OBVIOUS
  <2>3. {"ctrl", "shift", "all_up", k.key} \subseteq KeyByte
    BY <1>1 DEF KeyByte
  <2> QED
    BY <2>1, <2>2, <2>3
<1>4. d \in Seq(KeyByte) /\ d \o c \in Seq(KeyByte) /\ (d \o c) \o r \in Seq(KeyByte)
  BY <1>3
<1>5. Runs(At({}), d1, At(x1))
  <2>1. CASE "ctrl" \in w
    <3>1. Took(At({}), "ctrl") = At(x1)
      BY <2>1 DEF Took, K!Modifiers
    <3> QED
      BY <2>1, <3>1, RunsOne
  <2>2. CASE "ctrl" \notin w
    <3>1. At({}) = At(x1)
      BY <2>2
    <3> QED
      BY <2>2, <3>1, RunsNowhere
  <2> QED
    BY <2>1, <2>2
<1>6. Runs(At(x1), d2, At(w))
  <2>1. CASE "shift" \in w
    <3>1. Took(At(x1), "shift") = At(w)
      <4>1. "shift" \notin x1 /\ x1 \cup {"shift"} = w
        BY <1>1, <2>1
      <4> HIDE DEF x1, w
      <4> QED
        BY <4>1 DEF Took, K!Modifiers
    <3> QED
      BY <2>1, <3>1, RunsOne
  <2>2. CASE "shift" \notin w
    <3>1. At(x1) = At(w)
      BY <1>1, <2>2
    <3> QED
      BY <2>2, <3>1, RunsNowhere
  <2> QED
    BY <2>1, <2>2
<1>7. Runs(At(w), c, last)
  <2>1. w \cap K!Modifiers = w /\ "f1" \notin w
    BY <1>1 DEF K!Modifiers
  <2> DEFINE y == k.key
  <2>2. k = [key |-> y, with |-> w] /\ y \in {"char", "f1"}
    BY <1>1
  <2> HIDE DEF y, w
  <2>3. Took([held |-> w, heard |-> u], y)
          = [held |-> IF y = "f1" THEN w \cup {"f1"} ELSE w, heard |-> Append(u, [key |-> y, with |-> w])]
    BY <2>1, <2>2 DEF Took, K!Modifiers
  <2>4. Took(At(w), k.key) = last
    BY <2>2, <2>3 DEF y
  <2> QED
    BY <2>4, RunsOne
<1>8. Runs(last, r, [held |-> {}, heard |-> v])
  <2>1. CASE w # {} \/ k.key = "f1"
    <3>1. Took(last, "all_up") = [held |-> {}, heard |-> v]
      BY DEF Took
    <3> QED
      BY <2>1, <3>1, RunsOne
  <2>2. CASE ~(w # {} \/ k.key = "f1")
    <3>1. last = [held |-> {}, heard |-> v]
      BY <2>2
    <3> QED
      BY <2>2, <3>1, RunsNowhere
  <2> QED
    BY <2>1, <2>2
<1> DEFINE s0 == At({})
           s1 == At(x1)
           s2 == At(w)
           s4 == [held |-> {}, heard |-> v]
           dc == d \o c
           all == dc \o r
<1>9. /\ Joined(d1, d2, d) /\ Joined(d, c, dc) /\ Joined(dc, r, all) /\ K!Bytes(k) = all
      /\ s0 = [held |-> {}, heard |-> u] /\ s4 = [held |-> {}, heard |-> Append(u, k)]
  BY <1>2 DEF Joined
<1>10. /\ d1 \in Seq(KeyByte) /\ d2 \in Seq(KeyByte) /\ c \in Seq(KeyByte) /\ r \in Seq(KeyByte)
       /\ d \in Seq(KeyByte) /\ dc \in Seq(KeyByte) /\ all \in Seq(KeyByte)
       /\ Runs(s0, d1, s1) /\ Runs(s1, d2, s2) /\ Runs(s2, c, last) /\ Runs(last, r, s4)
  BY <1>3, <1>4, <1>5, <1>6, <1>7, <1>8
<1> HIDE DEF d1, d2, d, c, r, dc, all, s0, s1, s2, s4, last
<1>11. Runs(s0, d, s2)
  BY <1>9, <1>10, RunsOn
<1>12. Runs(s0, dc, last)
  BY <1>9, <1>10, <1>11, RunsOn
<1>13. Runs(s0, all, s4)
  BY <1>9, <1>10, <1>12, RunsOn
<1> QED
  BY <1>9, <1>10, <1>13

(***************************************************************************)
(* Typing: the bytes on their way.                                         *)
(***************************************************************************)

\* When nothing was lost, the bytes on their way, place after place, will make of what has been
\* heard what was typed.
Now == [held |-> held, heard |-> heard]
Meant == [held |-> {}, heard |-> typed]
LeadOn(a, b, c) == Runs(Now, sbuf, a) /\ Runs(a, wire, b) /\ Runs(b, ring, c) /\ Runs(c, todo, Meant)
TypingTypes ==
  /\ host \in {"window", "tools"} /\ todo \in Seq(KeyByte)
  /\ wait \in {"none", "drain", "gap"} /\ waited \in Nat
  /\ ring \in Seq(KeyByte) /\ Len(ring) <= RingCap
  /\ wire \in Seq(KeyByte) /\ Len(wire) <= 1 /\ sbuf \in Seq(KeyByte) /\ Len(sbuf) <= 1
  /\ quiet \in Nat /\ typed \in Seq(K!Key) /\ heard \in Seq(K!Key)

\* The places in the ring that hold a key's byte, and whether there is one on the line.
KeyAt(i) == i \in 1..Len(ring) /\ ring[i] # "reply"
KeyOnWire == K!Received \ {"reply"} # {}

\* The tool server's bytes: one at a time is on its way, and has a gap before it.
Spaced ==
  /\ pace = "apart"
  /\ wait = "drain" =>
       /\ waited <= DrainCap
       /\ \A i : KeyAt(i) => i + waited <= RingCap /\ ~KeyOnWire /\ \A j : KeyAt(j) => i = j
       /\ KeyOnWire \/ (\E i : KeyAt(i)) => quiet + 1 >= KeyGap
  /\ wait = "gap" =>
       /\ \A i : ~KeyAt(i)
       /\ KeyOnWire => waited = 0 /\ quiet + 1 >= KeyGap
       /\ ~KeyOnWire => quiet + 1 >= waited
       /\ ~gaveUp => Len(ring) <= waited * MostAnswers
  /\ wait = "none" =>
       /\ \A i : ~KeyAt(i)
       /\ ~KeyOnWire /\ quiet + 1 >= KeyGap
       /\ ~gaveUp /\ todo # <<>> /\ todo # K!Bytes(K!Last(typed)) => Len(ring) <= KeyGap * MostAnswers

TypingInv ==
  /\ TypingTypes
  /\ host = "window" => todo = <<>> /\ wait = "none"
  /\ host = "tools" => Spaced
  /\ ~lost /\ pace # "mistracked" => \E a, b, c : LeadOn(a, b, c)

\* Where there is place for one byte, there is none or one.
LEMMA OneOrNone ==
  ASSUME NEW s \in Seq(KeyByte), Len(s) <= 1
  PROVE  s = <<>> \/ s = <<s[1]>>
<1>1. CASE s # <<>>
  <2>1. s = <<Head(s)>> \o Tail(s) /\ Head(s) = s[1] /\ Head(s) \in KeyByte
    BY <1>1
  <2>2. Tail(s) = <<>>
    <3>1. Tail(s) \in Seq(KeyByte) /\ Len(Tail(s)) = Len(s) - 1
      BY <1>1
    <3>2. Len(s) \in Nat /\ Len(Tail(s)) \in Nat
      BY <3>1
    <3>3. Len(Tail(s)) = 0
      BY <3>1, <3>2
    <3> QED
      BY <3>1, <3>3
  <2>3. <<Head(s)>> \o <<>> = <<Head(s)>>
    OBVIOUS
  <2> QED
    BY <2>1, <2>2, <2>3
<1> QED
  BY <1>1

LEMMA TypingBegins == K!TypingInit => TypingInv
<1> SUFFICES ASSUME K!TypingInit PROVE TypingInv
  OBVIOUS
<1>1. /\ host \in {"window", "tools"} /\ typed = <<>> /\ todo = <<>> /\ ring = <<>> /\ wire = <<>>
      /\ sbuf = <<>> /\ wait = "none" /\ waited = 0 /\ quiet = KeyGap /\ pace = "apart"
      /\ held = {} /\ heard = <<>>
  BY DEF K!TypingInit
<1>2. TypingTypes
  BY <1>1, TypingAssumption DEF TypingTypes
<1>3. Spaced
  BY <1>1, TypingAssumption DEF Spaced, KeyAt, KeyOnWire, K!Received
<1>4. Now = Meant
  BY <1>1 DEF Now, Meant
<1>5. LeadOn(Now, Now, Now)
  BY <1>1, <1>4, RunsNowhere DEF LeadOn
<1> QED
  BY <1>1, <1>2, <1>3, <1>5, Zenon DEF TypingInv

\* Bytes pushed stand behind the others, or some were dropped because there was no room.
LEMMA Pushes ==
  ASSUME TypingTypes, NEW b \in Seq(KeyByte), K!PushAll(b)
  PROVE  /\ ring' \in Seq(KeyByte) /\ Len(ring') <= RingCap
         /\ ~lost' => ~lost /\ Joined(ring, b, ring')
<1> DEFINE f == K!Fitting(b)
           n == RingCap - Len(ring)
<1>1. ring \in Seq(KeyByte) /\ Len(ring) \in Nat /\ n \in Nat /\ RingCap \in Nat /\ Len(b) \in Nat
  BY TypingAssumption DEF TypingTypes
<1>2. ring' = ring \o f /\ (lost' <=> (lost \/ f # b))
  BY Zenon DEF K!PushAll
<1>3. f = IF Len(b) <= n THEN b ELSE SubSeq(b, 1, n)
  BY DEF K!Fitting, K!Room
<1>4. f \in Seq(KeyByte) /\ Len(f) <= n
  BY <1>1, <1>3
<1> HIDE DEF f
<1>6. ring' \in Seq(KeyByte) /\ Len(ring') <= RingCap
  BY <1>1, <1>2, <1>4
<1> QED
  BY <1>2, <1>6, Zenon DEF Joined

\* One byte more in the ring is its last, if there was room for it.
LEMMA PushesOne ==
  ASSUME TypingTypes, NEW x \in KeyByte, K!PushAll(<<x>>)
  PROVE  \/ ring' = ring
         \/ ring' = Append(ring, x)
<1> DEFINE b == <<x>>
           n == RingCap - Len(ring)
<1>1. ring \in Seq(KeyByte) /\ n \in Nat /\ b \in Seq(KeyByte) /\ Len(b) = 1
  BY TypingAssumption DEF TypingTypes
<1>2. ring' = ring \o (IF Len(b) <= n THEN b ELSE SubSeq(b, 1, n))
  BY Zenon DEF K!PushAll, K!Fitting, K!Room
<1>3. CASE Len(b) <= n
  BY <1>1, <1>2, <1>3
<1>4. CASE ~(Len(b) <= n)
  <2>1. n = 0 /\ SubSeq(b, 1, n) = <<>>
    BY <1>1, <1>4
  <2> QED
    BY <1>1, <1>2, <1>4, <2>1
<1> QED
  BY <1>3, <1>4

LEMMA WindowTypes ==
  ASSUME TypingInv, NEW k \in K!Key, K!TypeInWindow(k)
  PROVE  TypingInv'
<1> DEFINE b == K!Bytes(k)
<1>1. /\ host = "window" /\ typed' = Append(typed, k) /\ K!PushAll(b)
      /\ host' = host /\ todo' = todo /\ wait' = wait /\ waited' = waited /\ gaveUp' = gaveUp
      /\ wire' = wire /\ sbuf' = sbuf /\ quiet' = quiet /\ pace' = pace
      /\ held' = held /\ heard' = heard
  BY DEF K!TypeInWindow, K!lineVars, K!waitVars, K!terminalVars
<1>2. /\ TypingTypes /\ todo = <<>> /\ wait = "none"
      /\ ~lost /\ pace # "mistracked" => \E x, y, z : LeadOn(x, y, z)
  BY <1>1 DEF TypingInv
<1>3. b \in Seq(KeyByte) /\ Runs(Meant, b, [held |-> {}, heard |-> Append(typed, k)])
  BY ChordRuns DEF Meant
<1> HIDE DEF b
<1>4. /\ ring' \in Seq(KeyByte) /\ Len(ring') <= RingCap
      /\ ~lost' => ~lost /\ Joined(ring, b, ring')
  BY <1>1, <1>2, <1>3, Pushes
<1>5. TypingTypes'
  BY <1>1, <1>2, <1>4 DEF TypingTypes
<1>6. ASSUME ~lost', pace' # "mistracked" PROVE \E x, y, z : LeadOn(x, y, z)'
  <2>1. PICK x, y, z : LeadOn(x, y, z)
    BY <1>1, <1>2, <1>4, <1>6
  <2>2. Now' = Now /\ Meant' = [held |-> {}, heard |-> Append(typed, k)]
    BY <1>1 DEF Now, Meant
  <2>3. /\ Runs(Now, sbuf, x) /\ Runs(x, wire, y) /\ Runs(y, ring, z) /\ Runs(z, todo, Meant)
        /\ ring \in Seq(KeyByte)
    BY <1>2, <2>1 DEF LeadOn, TypingTypes
  <2>4. z = Meant
    BY <1>2, <2>3, RunsNowhere
  <2>5. Runs(y, ring', Meant')
    BY <1>3, <1>4, <1>6, <2>2, <2>3, <2>4, RunsOn
  <2>6. Runs(Meant', todo', Meant')
    BY <1>1, <1>2, RunsNowhere
  <2>7. PICK m : m = Meant'
    OBVIOUS
  <2>8. LeadOn(x, y, m)'
    BY <1>1, <2>2, <2>3, <2>5, <2>6, <2>7 DEF LeadOn
  <2> QED
    BY <2>8
<1> QED
  BY <1>1, <1>2, <1>5, <1>6 DEF TypingInv

LEMMA ToolTypes ==
  ASSUME TypingInv, NEW k \in K!Key, K!TypeByTool(k)
  PROVE  TypingInv'
<1> DEFINE b == K!Bytes(k)
<1>1. /\ host = "tools" /\ todo = <<>> /\ wait = "none" /\ typed' = Append(typed, k) /\ todo' = b
      /\ host' = host /\ wait' = wait /\ waited' = waited /\ gaveUp' = gaveUp /\ ring' = ring
      /\ wire' = wire /\ sbuf' = sbuf /\ quiet' = quiet /\ pace' = pace /\ lost' = lost
      /\ held' = held /\ heard' = heard
  BY DEF K!TypeByTool, K!lineVars, K!waitVars, K!terminalVars
<1>2. /\ TypingTypes /\ Spaced
      /\ ~lost /\ pace # "mistracked" => \E x, y, z : LeadOn(x, y, z)
  BY <1>1 DEF TypingInv
<1>3. b \in Seq(KeyByte) /\ Runs(Meant, b, [held |-> {}, heard |-> Append(typed, k)])
  BY ChordRuns DEF Meant
<1>4. todo' = K!Bytes(K!Last(typed'))
  <2>1. typed \in Seq(K!Key)
    BY <1>2 DEF TypingTypes
  <2>2. K!Last(Append(typed, k)) = k
    BY <2>1 DEF K!Last
  <2> QED
    BY <1>1, <2>2
<1> HIDE DEF b
<1>5. TypingTypes'
  BY <1>1, <1>2, <1>3 DEF TypingTypes
<1>6. Spaced'
  BY <1>1, <1>2, <1>4 DEF Spaced, KeyAt, KeyOnWire, K!Received
<1>7. ASSUME ~lost', pace' # "mistracked" PROVE \E x, y, z : LeadOn(x, y, z)'
  <2>1. PICK x, y, z : LeadOn(x, y, z)
    BY <1>1, <1>2, <1>7
  <2>2. Now' = Now /\ Meant' = [held |-> {}, heard |-> Append(typed, k)]
    BY <1>1 DEF Now, Meant
  <2>3. Runs(Now, sbuf, x) /\ Runs(x, wire, y) /\ Runs(y, ring, z) /\ Runs(z, todo, Meant)
    BY <2>1 DEF LeadOn
  <2>4. z = Meant
    BY <1>1, <2>3, RunsNowhere
  <2>5. LeadOn(x, y, z)'
    BY <1>1, <1>3, <2>2, <2>3, <2>4 DEF LeadOn
  <2> QED
    BY <2>5
<1> QED
  BY <1>1, <1>5, <1>6, <1>7 DEF TypingInv

LEMMA ToolPushes ==
  ASSUME TypingInv, K!PushByte
  PROVE  TypingInv'
<1> DEFINE x == Head(todo)
           b == <<x>>
           t == Tail(todo)
<1>1. /\ todo # <<>> /\ wait = "none" /\ K!PushAll(b) /\ todo' = t
      /\ wait' = "drain" /\ waited' = 0
      /\ host' = host /\ typed' = typed /\ gaveUp' = gaveUp /\ wire' = wire /\ sbuf' = sbuf
      /\ quiet' = quiet /\ pace' = pace /\ held' = held /\ heard' = heard
  BY DEF K!PushByte, K!lineVars, K!terminalVars
<1>2. /\ TypingTypes /\ host = "tools" /\ Spaced
      /\ ~lost /\ pace # "mistracked" => \E p, q, r : LeadOn(p, q, r)
  BY <1>1 DEF TypingInv, TypingTypes
<1>3. /\ todo \in Seq(KeyByte) /\ x \in KeyByte /\ b \in Seq(KeyByte) /\ t \in Seq(KeyByte)
      /\ Joined(b, t, todo)
  <2>1. todo \in Seq(KeyByte) /\ x \in KeyByte /\ t \in Seq(KeyByte) /\ todo = <<x>> \o t
    BY <1>1, <1>2 DEF TypingTypes
  <2> QED
    BY <2>1 DEF Joined
<1>4. /\ ring' \in Seq(KeyByte) /\ Len(ring') <= RingCap
      /\ ~lost' => ~lost /\ Joined(ring, b, ring')
  BY <1>1, <1>2, <1>3, Pushes
<1>5. ring' = ring \/ ring' = Append(ring, x)
  BY <1>1, <1>2, <1>3, PushesOne
<1> HIDE DEF x, b, t
<1>6. TypingTypes'
  BY <1>1, <1>2, <1>3, <1>4, Zenon DEF TypingTypes
<1>7. Spaced'
  <2>1. /\ pace = "apart" /\ (\A i : ~KeyAt(i)) /\ ~KeyOnWire /\ quiet + 1 >= KeyGap
        /\ ring \in Seq(KeyByte) /\ ring' \in Seq(KeyByte) /\ Len(ring') <= RingCap
        /\ RingCap \in Nat /\ DrainCap \in Nat
    BY <1>1, <1>2, <1>4, TypingAssumption DEF Spaced, TypingTypes
  <2>2. \A i : KeyAt(i)' => i = Len(ring') /\ i \in Nat
    <3> SUFFICES ASSUME NEW i, KeyAt(i)' PROVE i = Len(ring') /\ i \in Nat
      OBVIOUS
    <3>1. i \in 1..Len(ring') /\ ring'[i] # "reply" /\ ~KeyAt(i)
      BY <2>1 DEF KeyAt
    <3>2. ring' = Append(ring, x)
      BY <1>5, <2>1, <3>1 DEF KeyAt
    <3>3. i \in 1..Len(ring) => ring'[i] = ring[i]
      BY <2>1, <3>2
    <3> QED
      BY <2>1, <3>1, <3>2, <3>3 DEF KeyAt
  <2>3. KeyOnWire' <=> KeyOnWire
    BY <1>1 DEF KeyOnWire, K!Received
  <2>4. ASSUME NEW i, KeyAt(i)' PROVE i + waited' <= RingCap
    BY <1>1, <2>1, <2>2, <2>4
  <2> QED
    BY <1>1, <2>1, <2>2, <2>3, <2>4 DEF Spaced
<1>8. ASSUME ~lost', pace' # "mistracked" PROVE \E p, q, r : LeadOn(p, q, r)'
  <2>1. PICK p, q, r : LeadOn(p, q, r)
    BY <1>1, <1>2, <1>4, <1>8
  <2>2. Now' = Now /\ Meant' = Meant
    BY <1>1 DEF Now, Meant
  <2>3. /\ Runs(Now, sbuf, p) /\ Runs(p, wire, q) /\ Runs(q, ring, r) /\ Runs(r, todo, Meant)
        /\ ring \in Seq(KeyByte)
    BY <1>2, <2>1 DEF LeadOn, TypingTypes
  <2>4. PICK m : Runs(r, b, m) /\ Runs(m, t, Meant)
    BY <1>3, <2>3, RunsParts
  <2>5. Runs(q, ring', m)
    BY <1>3, <1>4, <1>8, <2>3, <2>4, RunsOn
  <2>6. LeadOn(p, q, m)'
    BY <1>1, <2>2, <2>3, <2>4, <2>5 DEF LeadOn
  <2> QED
    BY <2>6
<1> QED
  BY <1>1, <1>2, <1>6, <1>7, <1>8 DEF TypingInv

LEMMA DrainEnds ==
  ASSUME TypingInv, K!EndDrain
  PROVE  TypingInv'
<1>1. /\ wait = "drain" /\ (ring = <<>> \/ waited = DrainCap) /\ wait' = "gap" /\ waited' = 0
      /\ gaveUp' = (gaveUp \/ ring # <<>>)
      /\ host' = host /\ typed' = typed /\ todo' = todo /\ ring' = ring /\ wire' = wire
      /\ sbuf' = sbuf /\ quiet' = quiet /\ pace' = pace /\ lost' = lost
      /\ held' = held /\ heard' = heard
  BY DEF K!EndDrain, K!lineVars, K!terminalVars
<1>2. /\ TypingTypes /\ host = "tools" /\ Spaced
      /\ ~lost /\ pace # "mistracked" => \E a, b, c : LeadOn(a, b, c)
  BY <1>1 DEF TypingInv, TypingTypes
<1>3. TypingTypes'
  BY <1>1, <1>2 DEF TypingTypes
<1>4. Spaced'
  <2>1. /\ quiet \in Nat /\ KeyGap \in Nat /\ MostAnswers \in Nat /\ RingCap <= DrainCap /\ pace = "apart"
        /\ RingCap \in Nat /\ DrainCap \in Nat
        /\ \A i : KeyAt(i) => i + waited <= RingCap
        /\ KeyOnWire => quiet + 1 >= KeyGap
    BY <1>1, <1>2, TypingAssumption DEF Spaced, TypingTypes
  <2>2. ASSUME NEW i, KeyAt(i) PROVE FALSE
    <3>1. i \in 1..Len(ring) /\ i + waited <= RingCap
      BY <2>1, <2>2 DEF KeyAt
    <3>2. CASE ring = <<>>
      BY <3>1, <3>2
    <3>3. CASE waited = DrainCap
      BY <1>2, <2>1, <3>1, <3>3 DEF TypingTypes
    <3> QED
      BY <1>1, <3>2, <3>3
  <2>3. (\A i : KeyAt(i)' <=> KeyAt(i)) /\ (KeyOnWire' <=> KeyOnWire)
    BY <1>1 DEF KeyAt, KeyOnWire, K!Received
  <2>4. ~gaveUp' => Len(ring') <= waited' * MostAnswers
    <3> SUFFICES ASSUME ~gaveUp' PROVE Len(ring') <= waited' * MostAnswers
      OBVIOUS
    <3>1. gaveUp' <=> (gaveUp \/ ring # <<>>)
      BY <1>1, Zenon
    <3>2. ring' = <<>> /\ waited' = 0
      BY <1>1, <3>1
    <3>3. Len(ring') = 0 /\ waited' * MostAnswers = 0
      BY <2>1, <3>2
    <3> QED
      BY <3>3
  <2> QED
    BY <1>1, <2>1, <2>2, <2>3, <2>4 DEF Spaced
<1>5. \A a, b, c : LeadOn(a, b, c)' <=> LeadOn(a, b, c)
  BY <1>1 DEF LeadOn, Now, Meant
<1> QED
  BY <1>1, <1>2, <1>3, <1>4, <1>5 DEF TypingInv

LEMMA GapEnds ==
  ASSUME TypingInv, K!EndGap
  PROVE  TypingInv'
<1>1. /\ wait = "gap" /\ waited = KeyGap /\ wait' = "none" /\ waited' = 0 /\ gaveUp' = gaveUp
      /\ host' = host /\ typed' = typed /\ todo' = todo /\ ring' = ring /\ wire' = wire
      /\ sbuf' = sbuf /\ quiet' = quiet /\ pace' = pace /\ lost' = lost
      /\ held' = held /\ heard' = heard
  BY DEF K!EndGap, K!lineVars, K!terminalVars
<1>2. /\ TypingTypes /\ host = "tools" /\ Spaced
      /\ ~lost /\ pace # "mistracked" => \E a, b, c : LeadOn(a, b, c)
  BY <1>1 DEF TypingInv, TypingTypes
<1>3. TypingTypes'
  BY <1>1, <1>2 DEF TypingTypes
<1>4. Spaced'
  <2>1. /\ KeyGap \in Nat \ {0} /\ pace = "apart" /\ (\A i : ~KeyAt(i))
        /\ (KeyOnWire => waited = 0) /\ (~KeyOnWire => quiet + 1 >= waited)
        /\ (~gaveUp => Len(ring) <= waited * MostAnswers)
    BY <1>1, <1>2, TypingAssumption DEF Spaced
  <2>2. ~KeyOnWire /\ quiet + 1 >= KeyGap
    BY <1>1, <2>1
  <2>3. (\A i : KeyAt(i)' <=> KeyAt(i)) /\ (KeyOnWire' <=> KeyOnWire)
    BY <1>1 DEF KeyAt, KeyOnWire, K!Received
  <2> QED
    BY <1>1, <2>1, <2>2, <2>3 DEF Spaced
<1>5. \A a, b, c : LeadOn(a, b, c)' <=> LeadOn(a, b, c)
  BY <1>1 DEF LeadOn, Now, Meant
<1> QED
  BY <1>1, <1>2, <1>3, <1>4, <1>5 DEF TypingInv

\* What the keyboard says of itself is nothing to the terminal's keys.
LEMMA AnswersRun ==
  ASSUME NEW n \in Nat, NEW s
  PROVE  LET r == [i \in 1..n |-> "reply"] IN r \in Seq(KeyByte) /\ Len(r) = n /\ Runs(s, r, s)
<1> DEFINE r == [i \in 1..n |-> "reply"]
           h == [i \in 0..n |-> s]
<1>1. r \in Seq(KeyByte) /\ Len(r) = n /\ \A i \in 1..n : r[i] = "reply"
  BY DEF KeyByte
<1>2. Took(s, "reply") = s
  BY DEF Took
<1>3. h[0] = s /\ h[n] = s /\ \A i \in 1..n : h[i] = s /\ h[i - 1] = s
  OBVIOUS
<1> HIDE DEF r, h
<1>4. \A i \in 1..Len(r) : h[i] = Took(h[i - 1], r[i])
  BY <1>1, <1>2, <1>3
<1>5. Runs(s, r, s)
  BY <1>1, <1>3, <1>4, Zenon DEF Runs
<1> QED
  BY <1>1, <1>5 DEF r

\* A frame's time: what stands on the line and in the ring afterwards.
LEMMA FrameMoves ==
  ASSUME TypingTypes, NEW n \in 0..MostAnswers, Len(ring) + n <= RingCap, K!Follows(K!Answered(n))
  PROVE  /\ ring' \in Seq(KeyByte) /\ Len(ring') <= Len(ring) + n
         /\ wire' \in Seq(KeyByte) /\ Len(wire') <= 1
         /\ Joined(wire', ring', K!Answered(n))
         /\ \A i : KeyAt(i)' => KeyAt(i + 1)
         /\ KeyOnWire' => KeyAt(1)
<1> DEFINE a == [i \in 1..n |-> "reply"]
           all == K!Answered(n)
<1>1. ring \in Seq(KeyByte) /\ n \in Nat
  BY TypingAssumption DEF TypingTypes
<1>2. a \in Seq(KeyByte) /\ Len(a) = n /\ \A i \in 1..n : a[i] = "reply"
  BY <1>1, AnswersRun
<1>3. all = ring \o a
  BY DEF K!Answered
<1> HIDE DEF a, all
<1>4. /\ all \in Seq(KeyByte) /\ Len(all) = Len(ring) + n
      /\ \A i \in 1..Len(all) : all[i] # "reply" => KeyAt(i)
  <2>1. all \in Seq(KeyByte) /\ Len(all) = Len(ring) + n
    <3>1. ring \in Seq(KeyByte) /\ a \in Seq(KeyByte) /\ Len(a) = n
      BY <1>1, <1>2
    <3>2. ring \o a \in Seq(KeyByte) /\ Len(ring \o a) = Len(ring) + Len(a)
      BY <3>1
    <3> QED
      BY <1>3, <3>1, <3>2
  <2>2. ASSUME NEW i \in 1..Len(all), all[i] # "reply" PROVE KeyAt(i)
    <3>1. CASE i \in 1..Len(ring)
      BY <1>1, <1>2, <1>3, <2>2, <3>1 DEF KeyAt
    <3>2. CASE i \notin 1..Len(ring)
      <4>1. i - Len(ring) \in 1..n /\ all[i] = a[i - Len(ring)]
        BY <1>1, <1>2, <1>3, <2>1, <3>2
      <4> QED
        BY <1>2, <2>2, <4>1
    <3> QED
      BY <3>1, <3>2
  <2> QED
    BY <2>1, <2>2
<1>5. IF all = <<>> THEN wire' = <<>> /\ ring' = <<>> ELSE wire' = <<Head(all)>> /\ ring' = Tail(all)
  BY Zenon DEF K!Follows, all
<1>6. CASE all = <<>>
  <2>1. wire' = <<>> /\ ring' = <<>>
    BY <1>5, <1>6
  <2>2. Joined(wire', ring', all)
    BY <1>6, <2>1 DEF Joined
  <2>3. /\ ring' \in Seq(KeyByte) /\ Len(ring') <= Len(ring) + n /\ wire' \in Seq(KeyByte) /\ Len(wire') <= 1
    BY <1>1, <2>1
  <2>4. (\A i : ~KeyAt(i)') /\ ~KeyOnWire'
    BY <2>1 DEF KeyAt, KeyOnWire, K!Received
  <2> QED
    BY <2>2, <2>3, <2>4 DEF all
<1>7. CASE all # <<>>
  <2>1. wire' = <<Head(all)>> /\ ring' = Tail(all)
    BY <1>5, <1>7
  <2>2. /\ Head(all) = all[1] /\ all[1] \in KeyByte /\ 1 \in 1..Len(all)
        /\ Tail(all) \in Seq(KeyByte) /\ Len(Tail(all)) = Len(all) - 1
        /\ \A i \in 1..Len(Tail(all)) : Tail(all)[i] = all[i + 1] /\ i + 1 \in 1..Len(all)
    BY <1>4, <1>7
  <2>3. Joined(wire', ring', all)
    <3>1. all = <<Head(all)>> \o Tail(all)
      BY <1>4, <1>7
    <3> QED
      BY <2>1, <3>1 DEF Joined
  <2>4. ring' \in Seq(KeyByte) /\ Len(ring') <= Len(ring) + n
    BY <1>1, <1>4, <2>1, <2>2
  <2>5. wire' \in Seq(KeyByte) /\ Len(wire') <= 1
    BY <2>1, <2>2
  <2>6. \A i : KeyAt(i)' => KeyAt(i + 1)
    BY <1>4, <2>1, <2>2 DEF KeyAt
  <2>7. KeyOnWire' => KeyAt(1)
    BY <1>4, <2>1, <2>2 DEF KeyOnWire, K!Received
  <2> QED
    BY <2>3, <2>4, <2>5, <2>6, <2>7 DEF all
<1> QED
  BY <1>6, <1>7

LEMMA FramePasses ==
  ASSUME TypingInv, K!Frame
  PROVE  TypingInv'
<1>1. PICK on \in BOOLEAN, n \in 0..MostAnswers :
        K!Arrives(on) /\ Len(ring) + n <= RingCap /\ K!Follows(K!Answered(n))
  BY Zenon DEF K!Frame
<1>2. /\ K!MachineRuns /\ waited' = (IF wait = "none" THEN 0 ELSE waited + 1)
      /\ host' = host /\ typed' = typed /\ todo' = todo /\ wait' = wait /\ gaveUp' = gaveUp
      /\ held' = held /\ heard' = heard
  BY DEF K!Frame, K!terminalVars
<1>3. /\ TypingTypes /\ (host = "window" => todo = <<>> /\ wait = "none") /\ (host = "tools" => Spaced)
      /\ ~lost /\ pace # "mistracked" => \E a, b, c : LeadOn(a, b, c)
  BY DEF TypingInv
<1>4. /\ sbuf' = (IF on /\ sbuf = <<>> THEN wire ELSE sbuf)
      /\ lost' = (lost \/ (~(on /\ sbuf = <<>>) /\ KeyOnWire))
      /\ KeyOnWire => quiet' = 0 /\ pace' = (IF quiet + 1 < KeyGap /\ pace = "apart" THEN "hurried" ELSE pace)
      /\ ~KeyOnWire => quiet' = (IF quiet < KeyGap THEN quiet + 1 ELSE KeyGap) /\ pace' = pace
  BY <1>1 DEF K!Arrives, KeyOnWire
<1>5. /\ ring' \in Seq(KeyByte) /\ Len(ring') <= Len(ring) + n
      /\ wire' \in Seq(KeyByte) /\ Len(wire') <= 1
      /\ Joined(wire', ring', K!Answered(n))
      /\ \A i : KeyAt(i)' => KeyAt(i + 1)
      /\ KeyOnWire' => KeyAt(1)
  BY <1>1, <1>3, FrameMoves
<1>6. /\ ring \in Seq(KeyByte) /\ wire \in Seq(KeyByte) /\ sbuf \in Seq(KeyByte) /\ Len(wire) <= 1
      /\ Len(sbuf) <= 1 /\ quiet \in Nat /\ waited \in Nat /\ n \in Nat /\ n <= MostAnswers
      /\ KeyGap \in Nat \ {0} /\ MostAnswers \in Nat /\ RingCap \in Nat /\ DrainCap \in Nat
  BY <1>3, TypingAssumption DEF TypingTypes
<1>7. TypingTypes'
  <2>1. quiet' \in Nat /\ waited' \in Nat
    BY <1>2, <1>4, <1>6
  <2>2. sbuf' \in Seq(KeyByte) /\ Len(sbuf') <= 1
    BY <1>4, <1>6
  <2>3. Len(ring') <= RingCap
    BY <1>1, <1>5, <1>6
  <2> QED
    BY <1>2, <1>3, <1>5, <2>1, <2>2, <2>3 DEF TypingTypes
<1>8. ASSUME host = "tools" PROVE Spaced'
  <2>1. Spaced
    BY <1>3, <1>8
  <2>2. CASE wait = "drain"
    <3>1. /\ waited < DrainCap /\ waited' = waited + 1 /\ pace = "apart"
          /\ \A i : KeyAt(i) => i + waited <= RingCap /\ ~KeyOnWire /\ \A j : KeyAt(j) => i = j
          /\ KeyOnWire \/ (\E i : KeyAt(i)) => quiet + 1 >= KeyGap
      BY <1>2, <2>1, <2>2 DEF Spaced, K!MachineRuns
    <3>2. pace' = "apart"
      BY <1>4, <1>6, <3>1
    <3>3. ASSUME NEW i, KeyAt(i)'
          PROVE  i + waited' <= RingCap /\ ~KeyOnWire' /\ (\A j : KeyAt(j)' => i = j) /\ quiet' + 1 >= KeyGap
      <4>1. i \in Nat /\ i >= 1 /\ KeyAt(i + 1)
        BY <1>5, <3>3 DEF KeyAt
      <4>2. (i + 1) + waited <= RingCap /\ ~KeyOnWire /\ quiet + 1 >= KeyGap
        BY <3>1, <4>1
      <4>3. ~KeyAt(1)
        BY <3>1, <4>1
      <4>4. ASSUME NEW j, KeyAt(j)' PROVE i = j
        <5>1. j \in Nat /\ KeyAt(j + 1)
          BY <1>5, <4>4 DEF KeyAt
        <5>2. i + 1 = j + 1
          BY <3>1, <4>1, <5>1
        <5> QED
          BY <4>1, <5>1, <5>2
      <4>5. quiet' + 1 >= KeyGap
        BY <1>4, <1>6, <4>2
      <4>6. i + waited' <= RingCap
        BY <1>6, <3>1, <4>1, <4>2
      <4> QED
        BY <1>5, <4>3, <4>4, <4>5, <4>6
    <3>4. ASSUME KeyOnWire' PROVE quiet' + 1 >= KeyGap
      <4>1. KeyAt(1)
        BY <1>5, <3>4
      <4>2. ~KeyOnWire /\ quiet + 1 >= KeyGap
        BY <3>1, <4>1
      <4> QED
        BY <1>4, <1>6, <4>2
    <3>5. waited' <= DrainCap
      BY <1>6, <3>1
    <3> QED
      BY <1>2, <2>2, <3>2, <3>3, <3>4, <3>5 DEF Spaced
  <2>3. CASE wait = "gap"
    <3>1. /\ waited < KeyGap /\ waited' = waited + 1 /\ pace = "apart" /\ (\A i : ~KeyAt(i))
          /\ KeyOnWire => waited = 0 /\ quiet + 1 >= KeyGap
          /\ ~KeyOnWire => quiet + 1 >= waited
          /\ ~gaveUp => Len(ring) <= waited * MostAnswers
      BY <1>2, <2>1, <2>3 DEF Spaced, K!MachineRuns
    <3>2. pace' = "apart" /\ (\A i : ~KeyAt(i)') /\ ~KeyOnWire'
      BY <1>4, <1>5, <1>6, <3>1
    <3>3. quiet' + 1 >= waited'
      BY <1>4, <1>6, <3>1
    <3>4. ~gaveUp => Len(ring') <= waited' * MostAnswers
      <4>1. (waited + 1) * MostAnswers = waited * MostAnswers + MostAnswers /\ waited * MostAnswers \in Nat
        BY <1>6
      <4> QED
        BY <1>5, <1>6, <3>1, <4>1
    <3> QED
      BY <1>2, <2>3, <3>2, <3>3, <3>4 DEF Spaced
  <2>4. CASE wait = "none"
    <3>1. todo = <<>> /\ pace = "apart" /\ (\A i : ~KeyAt(i)) /\ ~KeyOnWire /\ quiet + 1 >= KeyGap
      BY <1>2, <2>1, <2>4 DEF Spaced, K!MachineRuns
    <3>2. pace' = "apart" /\ (\A i : ~KeyAt(i)') /\ ~KeyOnWire'
      BY <1>4, <1>5, <3>1
    <3>3. quiet' + 1 >= KeyGap
      BY <1>4, <1>6, <3>1
    <3> QED
      BY <1>2, <2>4, <3>1, <3>2, <3>3 DEF Spaced
  <2> QED
    BY <1>3, <2>2, <2>3, <2>4 DEF TypingTypes
<1>9. ASSUME ~lost', pace' # "mistracked" PROVE \E a, b, c : LeadOn(a, b, c)'
  <2>1. pace # "mistracked" /\ ~lost
    BY <1>4, <1>9
  <2>2. PICK a, b, c : LeadOn(a, b, c)
    BY <1>3, <2>1
  <2>3. Now' = Now /\ Meant' = Meant
    BY <1>2 DEF Now, Meant
  <2>4. Runs(Now, sbuf, a) /\ Runs(a, wire, b) /\ Runs(b, ring, c) /\ Runs(c, todo, Meant)
    BY <2>2 DEF LeadOn
  <2> DEFINE r == [i \in 1..n |-> "reply"]
             all == K!Answered(n)
  <2>5. r \in Seq(KeyByte) /\ Runs(c, r, c) /\ Joined(ring, r, all)
    BY <1>6, AnswersRun DEF K!Answered, Joined
  <2> HIDE DEF r, all
  <2>6. Runs(b, all, c)
    BY <1>6, <2>4, <2>5, RunsOn
  <2>7. PICK d : Runs(b, wire', d) /\ Runs(d, ring', c)
    BY <1>5, <2>6, RunsParts DEF all
  <2>8. Runs(Now, sbuf', b)
    <3>1. CASE on /\ sbuf = <<>>
      BY <1>4, <2>4, <3>1, RunsNowhere
    <3>2. CASE ~(on /\ sbuf = <<>>)
      <4>1. ~KeyOnWire /\ sbuf' = sbuf
        BY <1>4, <1>9, <3>2
      <4>2. wire = <<>> \/ wire = <<"reply">>
        <5>1. wire = <<>> \/ wire = <<wire[1]>>
          BY <1>6, OneOrNone
        <5>2. wire # <<>> => wire[1] = "reply"
          BY <4>1 DEF KeyOnWire, K!Received
        <5> QED
          BY <5>1, <5>2
      <4>3. a = b
        <5>1. CASE wire = <<>>
          BY <2>4, <5>1, RunsNowhere
        <5>2. CASE wire = <<"reply">>
          <6>1. b = Took(a, "reply")
            BY <2>4, <5>2, RunsOneIs
          <6> QED
            BY <6>1 DEF Took
        <5> QED
          BY <4>2, <5>1, <5>2
      <4> QED
        BY <2>4, <4>1, <4>3
    <3> QED
      BY <3>1, <3>2
  <2>9. LeadOn(b, d, c)'
    BY <1>2, <2>3, <2>4, <2>7, <2>8 DEF LeadOn
  <2> QED
    BY <2>9
<1> QED
  BY <1>2, <1>3, <1>7, <1>8, <1>9 DEF TypingInv

LEMMA TerminalTakes ==
  ASSUME TypingInv, K!Terminal
  PROVE  TypingInv'
<1> DEFINE x == sbuf[1]
<1>1. /\ sbuf # <<>> /\ sbuf' = <<>>
      /\ (K!Takes(x) /\ pace' = pace) \/ K!Mistracks(x)
      /\ host' = host /\ typed' = typed /\ todo' = todo /\ wait' = wait /\ waited' = waited
      /\ gaveUp' = gaveUp /\ ring' = ring /\ wire' = wire /\ quiet' = quiet /\ lost' = lost
  BY DEF K!Terminal, K!waitVars
<1>2. /\ TypingTypes /\ (host = "window" => todo = <<>> /\ wait = "none") /\ (host = "tools" => Spaced)
      /\ ~lost /\ pace # "mistracked" => \E a, b, c : LeadOn(a, b, c)
  BY DEF TypingInv
<1>3. sbuf \in Seq(KeyByte) /\ x \in KeyByte /\ sbuf = <<x>> /\ heard \in Seq(K!Key)
  <2>1. sbuf \in Seq(KeyByte) /\ Len(sbuf) <= 1 /\ heard \in Seq(K!Key)
    BY <1>2 DEF TypingTypes
  <2>2. sbuf = <<x>>
    BY <1>1, <2>1, OneOrNone
  <2>3. x \in KeyByte
    BY <1>1, <2>1
  <2> QED
    BY <2>1, <2>2, <2>3
<1> HIDE DEF x
<1>4. CASE K!Takes(x) /\ pace' = pace
  <2>1. \/ x = "all_up" /\ held' = {} /\ heard' = heard
        \/ x \in K!Modifiers /\ held' = K!Toggled(x) /\ heard' = heard
        \/ x = "f1" /\ held' = K!Toggled(x) /\ (IF x \in held THEN heard' = heard ELSE K!Hears(x))
        \/ x = "char" /\ K!Hears(x) /\ held' = held
        \/ x = "reply" /\ held' = held /\ heard' = heard
    BY <1>4, Zenon DEF K!Takes
  <2>2. Now' = Took(Now, x)
    <3>1. /\ Now' = [held |-> held', heard |-> heard'] /\ Now = [held |-> held, heard |-> heard]
          /\ Now.held = held /\ Now.heard = heard
      BY DEF Now
    <3>2. K!Hears(x) <=> heard' = Append(heard, [key |-> x, with |-> held \cap K!Modifiers])
      BY DEF K!Hears
    <3>3. CASE x = "all_up"
      BY <2>1, <3>1, <3>3 DEF Took, K!Modifiers
    <3>4. CASE x \in K!Modifiers
      BY <2>1, <3>1, <3>4 DEF Took, K!Modifiers, K!Toggled
    <3>5. CASE x = "f1"
      BY <2>1, <3>1, <3>2, <3>5 DEF Took, K!Modifiers, K!Toggled
    <3>6. CASE x = "char"
      BY <2>1, <3>1, <3>2, <3>6 DEF Took, K!Modifiers
    <3>7. CASE x = "reply"
      BY <2>1, <3>1, <3>7 DEF Took, K!Modifiers
    <3> QED
      BY <2>1, <3>3, <3>4, <3>5, <3>6, <3>7
  <2>3. heard' \in Seq(K!Key)
    <3>1. Now'.heard = heard' /\ Now.heard = heard
      BY DEF Now
    <3>2. K!IsPrefix(heard, heard)
      BY <1>3 DEF K!IsPrefix
    <3>3. Took(Now, x).heard \in Seq(K!Key)
      BY <1>3, <3>1, <3>2, TookExtends
    <3> QED
      BY <2>2, <3>1, <3>3
  <2>4. TypingTypes'
    BY <1>1, <1>2, <2>3 DEF TypingTypes
  <2>5. ASSUME NEW a, NEW b, NEW c, LeadOn(a, b, c) PROVE LeadOn(a, b, c)'
    <3>1. Runs(Now, <<x>>, a) /\ Runs(a, wire, b) /\ Runs(b, ring, c) /\ Runs(c, todo, Meant)
      BY <1>3, <2>5 DEF LeadOn
    <3>2. Runs(Now', <<>>, a)
      BY <2>2, <3>1, RunsOneIs, RunsNowhere
    <3>3. Meant' = Meant
      BY <1>1 DEF Meant
    <3> QED
      BY <1>1, <3>1, <3>2, <3>3 DEF LeadOn
  <2>6. Spaced => Spaced'
    BY <1>1, <1>4 DEF Spaced, KeyAt, KeyOnWire, K!Received
  <2> QED
    BY <1>1, <1>2, <1>4, <2>4, <2>5, <2>6 DEF TypingInv
<1>5. CASE K!Mistracks(x)
  <2>1. pace # "apart" /\ pace' = "mistracked" /\ held' = held /\ heard' = heard
    BY <1>5 DEF K!Mistracks, K!terminalVars
  <2>2. host # "tools"
    BY <1>2, <2>1 DEF Spaced
  <2>3. TypingTypes'
    BY <1>1, <1>2, <2>1 DEF TypingTypes
  <2> QED
    BY <1>1, <1>2, <2>1, <2>2, <2>3 DEF TypingInv
<1> QED
  BY <1>1, <1>4, <1>5

\* The bytes on their way as one sequence.
LEMMA OnTheirWay ==
  ASSUME TypingTypes, NEW a, NEW b, NEW c, LeadOn(a, b, c)
  PROVE  \E p \in Seq(KeyByte) : Runs(Now, p, Meant)
<1> DEFINE p1 == sbuf \o wire
           p2 == p1 \o ring
           p3 == p2 \o todo
<1>1. /\ sbuf \in Seq(KeyByte) /\ wire \in Seq(KeyByte) /\ ring \in Seq(KeyByte) /\ todo \in Seq(KeyByte)
      /\ Runs(Now, sbuf, a) /\ Runs(a, wire, b) /\ Runs(b, ring, c) /\ Runs(c, todo, Meant)
  BY DEF TypingTypes, LeadOn
<1>2. /\ p1 \in Seq(KeyByte) /\ p2 \in Seq(KeyByte) /\ p3 \in Seq(KeyByte)
      /\ Joined(sbuf, wire, p1) /\ Joined(p1, ring, p2) /\ Joined(p2, todo, p3)
  BY <1>1 DEF Joined
<1> HIDE DEF p1, p2, p3
<1>3. Runs(Now, p1, b)
  BY <1>1, <1>2, RunsOn
<1>4. Runs(Now, p2, c)
  BY <1>1, <1>2, <1>3, RunsOn
<1>5. Runs(Now, p3, Meant)
  BY <1>1, <1>2, <1>4, RunsOn
<1> QED
  BY <1>2, <1>5

\* lk201.c, ctl.c: unless a byte was dropped or a change of modifiers missed, the terminal hears
\* the keys typed with the modifiers meant; what a tool types comes a gap apart, so that nothing is
\* missed, and unless a wait was given up the ring has room for the rest of a chord begun.  The ring,
\* the gap, the answers in a frame and the keys typed are any, as far as the ring holds the answers
\* of a gap and runs empty within the longest wait.
THEOREM KeysHeard == Spec => []KeysAreHeard
<1>1. Init => TypingInv
  BY TypingBegins, Zenon DEF Init
<1>2. TypingInv /\ [Next]_vars => TypingInv'
  <2> SUFFICES ASSUME TypingInv, [Next]_vars PROVE TypingInv'
    OBVIOUS
  <2>1. K!TypingNext \/ UNCHANGED typingVars
    BY Zenon DEF Next, vars
  <2>2. ASSUME UNCHANGED typingVars PROVE TypingInv'
    <3>1. /\ host' = host /\ typed' = typed /\ todo' = todo /\ wait' = wait /\ waited' = waited
          /\ gaveUp' = gaveUp /\ ring' = ring /\ wire' = wire /\ sbuf' = sbuf /\ quiet' = quiet
          /\ pace' = pace /\ lost' = lost /\ held' = held /\ heard' = heard
      BY <2>2 DEF typingVars
    <3>2. \A a, b, c : LeadOn(a, b, c)' <=> LeadOn(a, b, c)
      BY <3>1 DEF LeadOn, Now, Meant
    <3>3. (TypingTypes' <=> TypingTypes) /\ (Spaced' <=> Spaced)
      BY <3>1 DEF TypingTypes, Spaced, KeyAt, KeyOnWire, K!Received
    <3> QED
      BY <3>1, <3>2, <3>3 DEF TypingInv
  <2>3. ASSUME K!TypingNext PROVE TypingInv'
    <3>1. Typeable \subseteq K!Key
      BY TypingAssumption DEF K!Key, K!Modifiers
    <3>2. \/ \E k \in K!Key : K!TypeInWindow(k) \/ K!TypeByTool(k)
          \/ K!PushByte \/ K!EndDrain \/ K!EndGap \/ K!Frame \/ K!Terminal
      BY <2>3, <3>1 DEF K!TypingNext
    <3> QED
      BY <3>2, WindowTypes, ToolTypes, ToolPushes, DrainEnds, GapEnds, FramePasses, TerminalTakes, Zenon
  <2> QED
    BY <2>1, <2>2, <2>3, Zenon
<1>3. TypingInv => KeysAreHeard
  <2> SUFFICES ASSUME TypingInv PROVE K!TypedIsHeard
    BY DEF KeysAreHeard
  <2>1. TypingTypes
    BY DEF TypingInv
  <2>2. ASSUME ~lost, pace # "mistracked"
        PROVE  /\ K!IsPrefix(heard, typed)
               /\ sbuf = <<>> /\ wire = <<>> /\ ring = <<>> /\ todo = <<>> => heard = typed /\ held = {}
    <3>1. PICK a, b, c : LeadOn(a, b, c)
      BY <2>2 DEF TypingInv
    <3>2. PICK p \in Seq(KeyByte) : Runs(Now, p, Meant)
      BY <2>1, <3>1, OnTheirWay
    <3>3. heard \in Seq(K!Key) /\ Now.heard = heard /\ Meant.heard = typed
      BY <2>1 DEF Now, Meant, TypingTypes
    <3>4. K!IsPrefix(heard, typed)
      BY <3>2, <3>3, RunsExtend
    <3>5. ASSUME sbuf = <<>>, wire = <<>>, ring = <<>>, todo = <<>> PROVE heard = typed /\ held = {}
      <4>1. Runs(Now, <<>>, a) /\ Runs(a, <<>>, b) /\ Runs(b, <<>>, c) /\ Runs(c, <<>>, Meant)
        BY <3>1, <3>5 DEF LeadOn
      <4>2. Now = Meant
        BY <4>1, RunsNowhere
      <4> QED
        BY <4>2 DEF Now, Meant
    <3> QED
      BY <3>4, <3>5
  <2>3. host = "tools" => pace = "apart"
    BY DEF TypingInv, Spaced
  <2>4. ASSUME host = "tools", ~gaveUp, wait = "none", todo # <<>>, todo # K!Bytes(K!Last(typed))
        PROVE  K!Room > 0
    <3>1. Len(ring) <= KeyGap * MostAnswers
      BY <2>4 DEF TypingInv, Spaced
    <3>2. ring \in Seq(KeyByte) /\ RingCap \in Nat /\ KeyGap * MostAnswers \in Nat /\ KeyGap * MostAnswers < RingCap
      BY <2>1, TypingAssumption DEF TypingTypes
    <3> QED
      BY <3>1, <3>2 DEF K!Room
  <2> QED
    BY <2>2, <2>3, <2>4, Zenon DEF K!TypedIsHeard
<1> QED
  BY <1>1, <1>2, <1>3, PTL DEF Spec

(***************************************************************************)
(* The text display: the places of a grid, row by row.                     *)
(***************************************************************************)

\* A number is made up of its quotient and its remainder in one way.
LEMMA DivIs ==
  ASSUME NEW b \in Nat \ {0}, NEW q \in Nat, NEW r \in Nat, r < b
  PROVE (q * b + r) \div b = q
<1> DEFINE a == q * b + r
           p == a \div b
<1>1. a \in Nat /\ q * b \in Nat
  OBVIOUS
<1>2. p \in Nat /\ p * b <= a /\ a < p * b + b
  BY <1>1, Division
<1>3. a = q * b + r
  OBVIOUS
<1> HIDE DEF a, p
<1>4. ASSUME p < q PROVE FALSE
  <2>1. (p + 1) * b <= q * b
    BY <1>2, <1>4, Multiples
  <2>2. (p + 1) * b = p * b + b /\ p * b \in Nat
    BY <1>2
  <2> QED
    BY <1>1, <1>2, <1>3, <2>1, <2>2
<1>5. ASSUME q < p PROVE FALSE
  <2>1. (q + 1) * b <= p * b
    BY <1>2, <1>5, Multiples
  <2>2. (q + 1) * b = q * b + b /\ p * b \in Nat
    BY <1>2
  <2> QED
    BY <1>1, <1>2, <1>3, <2>1, <2>2
<1>6. p = q
  BY <1>2, <1>4, <1>5
<1> QED
  BY <1>6 DEF a, p

\* The place of a number, and the number of a place.
NumberOf(c, w) == (c[2] - 1) * w + c[1]
PlaceOf(i, w) == <<((i - 1) % w) + 1, ((i - 1) \div w) + 1>>

LEMMA PlacesAreNumbered ==
  ASSUME NEW w \in Nat \ {0}, NEW h \in Nat \ {0}, NEW i \in 1..(w * h)
  PROVE  /\ PlaceOf(i, w) \in (1..w) \X (1..h)
         /\ NumberOf(PlaceOf(i, w), w) = i
<1> DEFINE a == i - 1
           q == a \div w
           r == a % w
<1>1. a \in Nat /\ i = a + 1 /\ w * h \in Nat /\ a < w * h /\ w * h = h * w
  OBVIOUS
<1>2. PlaceOf(i, w) = <<r + 1, q + 1>>
  BY DEF PlaceOf
<1> HIDE DEF a
<1>3. q \in Nat /\ q * w <= a /\ a < q * w + w
  BY <1>1, Division
<1> HIDE DEF q
<1> DEFINE s == a - q * w
<1>4. q * w \in Nat
  BY <1>3
<1>5. s \in Nat /\ s < w /\ a = q * w + s
  BY <1>1, <1>3, <1>4
<1> HIDE DEF s
<1>6. r = s
  BY <1>3, <1>5, ModIs
<1>7. q < h
  <2>1. h <= q => h * w <= q * w
    BY <1>3, Multiples
  <2> QED
    BY <1>1, <1>3, <1>4, <2>1
<1>8. NumberOf(<<r + 1, q + 1>>, w) = q * w + (s + 1)
  <2> DEFINE c == <<r + 1, q + 1>>
  <2>1. c[1] = s + 1 /\ c[2] = q + 1 /\ c[2] - 1 = q
    BY <1>3, <1>6
  <2> HIDE DEF c
  <2>2. NumberOf(c, w) = (c[2] - 1) * w + c[1]
    BY DEF NumberOf
  <2>3. NumberOf(c, w) = q * w + (s + 1)
    BY <2>1, <2>2
  <2> QED
    BY <2>3 DEF c
<1>9. NumberOf(<<r + 1, q + 1>>, w) = i
  BY <1>1, <1>4, <1>5, <1>8
<1>10. r + 1 \in 1..w /\ q + 1 \in 1..h
  BY <1>3, <1>5, <1>6, <1>7
<1> QED
  BY <1>2, <1>9, <1>10

LEMMA NumbersArePlaced ==
  ASSUME NEW w \in Nat \ {0}, NEW h \in Nat \ {0}, NEW c \in (1..w) \X (1..h)
  PROVE  NumberOf(c, w) \in 1..(w * h) /\ PlaceOf(NumberOf(c, w), w) = c
<1> DEFINE x == c[1]
           y == c[2]
<1>1. x \in 1..w /\ y \in 1..h /\ c = <<x, y>>
  OBVIOUS
<1> HIDE DEF x, y
<1> DEFINE q == y - 1
           r == x - 1
           n == q * w + x
<1>2. q \in Nat /\ r \in Nat /\ r < w /\ q + 1 <= h /\ x = r + 1 /\ y = q + 1
  BY <1>1
<1>3. NumberOf(c, w) = n
  BY <1>1 DEF NumberOf
<1> HIDE DEF q, r
<1>4. q * w \in Nat /\ n - 1 = q * w + r /\ n >= 1
  BY <1>2
<1>5. n <= w * h
  <2>1. (q + 1) * w <= h * w
    BY <1>2, Multiples
  <2>2. (q + 1) * w = q * w + w /\ h * w = w * h /\ w * h \in Nat
    BY <1>2
  <2> QED
    BY <1>2, <1>4, <2>1, <2>2
<1>6. (q * w + r) % w = r /\ (q * w + r) \div w = q
  BY <1>2, ModIs, DivIs
<1>7. PlaceOf(n, w) = c
  <2>1. (n - 1) % w = r /\ (n - 1) \div w = q
    BY <1>4, <1>6
  <2> HIDE DEF n
  <2> QED
    BY <1>1, <1>2, <2>1 DEF PlaceOf
<1>8. n \in Nat
  BY <1>1, <1>4
<1> HIDE DEF n
<1>9. n \in 1..(w * h)
  <2>1. w * h \in Nat
    OBVIOUS
  <2> QED
    BY <1>4, <1>5, <1>8, <2>1
<1> QED
  BY <1>3, <1>7, <1>9

(***************************************************************************)
(* What the host's terminal makes of a sequence of commands.               *)
(***************************************************************************)

\* The commands q lead the terminal from t to u.
Leads(t, q, u) ==
  \E h : h[0] = t /\ h[Len(q)] = u /\ \A i \in 1..Len(q) : h[i] = T!Obey(h[i - 1], q[i])

LEMMA LeadsNowhere == ASSUME NEW t PROVE Leads(t, <<>>, t)
<1> DEFINE h == [i \in {0} |-> t]
<1>1. h[0] = t /\ Len(<<>>) = 0 /\ \A i \in 1..0 : h[i] = T!Obey(h[i - 1], <<>>[i])
  OBVIOUS
<1> HIDE DEF h
<1> QED
  BY <1>1 DEF Leads

LEMMA LeadsOn ==
  ASSUME NEW Cmds, NEW q \in Seq(Cmds), NEW c \in Cmds, NEW r, Appended(q, c, r), NEW t, NEW u, Leads(t, q, u)
  PROVE  Leads(t, r, T!Obey(u, c))
<1> DEFINE n == Len(q)
<1>1. /\ n \in Nat /\ Len(r) = n + 1 /\ r[n + 1] = c /\ \A i \in 1..n : r[i] = q[i]
  BY DEF Appended
<1>2. PICK f : f[0] = t /\ f[n] = u /\ \A i \in 1..n : f[i] = T!Obey(f[i - 1], q[i])
  BY Zenon DEF Leads
<1> HIDE DEF n
<1> DEFINE m == n + 1
           h == [i \in 0..m |-> IF i = m THEN T!Obey(u, c) ELSE f[i]]
<1>3. h[m] = T!Obey(u, c) /\ \A i \in 0..n : h[i] = f[i]
  BY <1>1
<1> HIDE DEF h
<1>4. h[0] = t
  <2>1. 0 \in 0..n
    BY <1>1
  <2> QED
    BY <1>2, <1>3, <2>1
<1>5. ASSUME NEW i \in 1..m PROVE h[i] = T!Obey(h[i - 1], r[i])
  <2>1. CASE i = m
    <3>1. i - 1 = n /\ n \in 0..n
      BY <1>1, <2>1
    <3> QED
      BY <1>1, <1>2, <1>3, <2>1, <3>1
  <2>2. CASE i # m
    <3>1. i \in 1..n /\ i \in 0..n /\ i - 1 \in 0..n
      BY <1>1, <2>2
    <3> QED
      BY <1>1, <1>2, <1>3, <3>1
  <2> QED
    BY <2>1, <2>2
<1>6. Len(r) = m
  BY <1>1
<1> HIDE DEF m
<1> QED
  BY <1>3, <1>4, <1>5, <1>6, Zenon DEF Leads

\* The function that Obeyed is defined by takes the same way.
Obeys(f, t, q) ==
  f = [i \in 0..Len(q) |-> IF i = 0 THEN t ELSE T!Obey(f[i - 1], q[i])]
ObeysAt(f, t, q) ==
  \A i \in 0..Len(q) : f[i] = IF i = 0 THEN t ELSE T!Obey(f[i - 1], q[i])

LEMMA ObeyedIs ==
  ASSUME NEW Cmds, NEW q \in Seq(Cmds), NEW t, NEW u, Leads(t, q, u)
  PROVE  T!Obeyed(t, q) = u
<1> DEFINE n == Len(q)
           Folded == CHOOSE f : Obeys(f, t, q)
<1>1. n \in Nat
  OBVIOUS
<1>2. PICK h : h[0] = t /\ h[n] = u /\ \A i \in 1..n : h[i] = T!Obey(h[i - 1], q[i])
  BY Zenon DEF Leads
<1>3. T!Obeyed(t, q) = Folded[n]
  BY DEF T!Obeyed, Obeys
<1>4. Obeys(Folded, t, q)
  <2> DEFINE f == [i \in 0..n |-> h[i]]
  <2>1. ASSUME NEW i \in 0..n PROVE f[i] = IF i = 0 THEN t ELSE T!Obey(f[i - 1], q[i])
    <3>1. CASE i = 0
      BY <1>2, <3>1
    <3>2. CASE i # 0
      <4>1. i \in 1..n /\ i - 1 \in 0..n
        BY <1>1, <3>2
      <4> QED
        BY <1>2, <3>2, <4>1
    <3> QED
      BY <3>1, <3>2
  <2>2. f = [i \in 0..n |-> f[i]]
    OBVIOUS
  <2> HIDE DEF f
  <2>3. Obeys(f, t, q)
    BY <2>1, <2>2, Zenon DEF Obeys
  <2> QED
    BY <2>3, Zenon
<1> HIDE DEF Folded
<1>5. ObeysAt(Folded, t, q)
  BY <1>4, Zenon DEF Obeys, ObeysAt
<1>6. \A i \in 0..n : Folded[i] = IF i = 0 THEN t ELSE T!Obey(Folded[i - 1], q[i])
  BY <1>5, Zenon DEF ObeysAt
<1> HIDE DEF n
<1> DEFINE S == {i \in Nat : i <= n => Folded[i] = h[i]}
<1>7. 0 \in S
  <2>1. 0 \in 0..n
    BY <1>1
  <2> QED
    BY <1>2, <1>6, <2>1
<1>8. ASSUME NEW i \in Nat, i \in S PROVE i + 1 \in S
  <2> SUFFICES ASSUME i + 1 <= n PROVE Folded[i + 1] = h[i + 1]
    OBVIOUS
  <2> DEFINE j == i + 1
  <2>1. j \in 0..n /\ j \in 1..n /\ j # 0 /\ j - 1 = i /\ Folded[i] = h[i]
    BY <1>1, <1>8
  <2> HIDE DEF j
  <2>2. Folded[j] = h[j]
    BY <1>2, <1>6, <2>1
  <2> QED
    BY <2>2 DEF j
<1> HIDE DEF S
<1>9. n \in S
  BY <1>1, <1>7, <1>8, Induction
<1> QED
  BY <1>1, <1>2, <1>3, <1>9 DEF S

\* The three commands.
Move(p) == [do |-> "move", to |-> p]
Attr(a) == [do |-> "attr", to |-> a]
Put(c) == [do |-> "put", to |-> c]

\* The function that Output is defined by.
First == [cmds |-> <<>>, c |-> T!None, attr |-> T!None]
Then(back, o, i) ==
  LET p == T!Place(i)
  IN IF back[p] = front[p] THEN o
     ELSE [cmds |-> o.cmds
             \o (IF o.c # p THEN <<[do |-> "move", to |-> p]>> ELSE <<>>)
             \o (IF o.attr # <<back[p].attr>> THEN <<[do |-> "attr", to |-> back[p].attr]>> ELSE <<>>)
             \o <<[do |-> "put", to |-> back[p].ch]>>,
           c |-> <<p[1] + 1, p[2]>>,
           attr |-> <<back[p].attr>>]
Outs(g, back, n) == g = [i \in 0..n |-> IF i = 0 THEN First ELSE Then(back, g[i - 1], i)]
OutsAt(g, back, n) == \A i \in 0..n : g[i] = IF i = 0 THEN First ELSE Then(back, g[i - 1], i)

LEMMA OutsExist == ASSUME NEW back, NEW n \in Nat PROVE \E g : Outs(g, back, n)
<1> DEFINE S == {k \in Nat : \E g : Outs(g, back, k)}
<1>1. 0 \in S
  <2> DEFINE g == [i \in 0..0 |-> First]
  <2>1. \A i \in 0..0 : i = 0
    OBVIOUS
  <2>2. g = [i \in 0..0 |-> IF i = 0 THEN First ELSE Then(back, g[i - 1], i)]
    BY <2>1
  <2> HIDE DEF g
  <2>3. Outs(g, back, 0)
    BY <2>2, Zenon DEF Outs
  <2> QED
    BY <2>3
<1>2. ASSUME NEW k \in Nat, k \in S PROVE k + 1 \in S
  <2>1. PICK g : Outs(g, back, k)
    BY <1>2
  <2>2. \A i \in 0..k : g[i] = IF i = 0 THEN First ELSE Then(back, g[i - 1], i)
    <3>1. OutsAt(g, back, k)
      BY <2>1, Zenon DEF Outs, OutsAt
    <3> QED
      BY <3>1, Zenon DEF OutsAt
  <2> DEFINE m == k + 1
             h == [i \in 0..m |-> IF i = m THEN Then(back, g[k], m) ELSE g[i]]
  <2>3. h[m] = Then(back, g[k], m) /\ (\A i \in 0..k : h[i] = g[i]) /\ h = [i \in 0..m |-> h[i]]
    OBVIOUS
  <2> HIDE DEF h
  <2>4. ASSUME NEW i \in 0..m PROVE h[i] = IF i = 0 THEN First ELSE Then(back, h[i - 1], i)
    <3>1. CASE i = m
      <4>1. i # 0 /\ i - 1 = k /\ k \in 0..k
        BY <3>1
      <4> QED
        BY <2>3, <3>1, <4>1
    <3>2. CASE i # m
      <4>1. i \in 0..k /\ (i # 0 => i - 1 \in 0..k)
        BY <3>2
      <4> QED
        BY <2>2, <2>3, <4>1
    <3> QED
      BY <3>1, <3>2
  <2>5. Outs(h, back, m)
    BY <2>3, <2>4, Zenon DEF Outs
  <2> QED
    BY <2>5
<1> HIDE DEF S
<1>3. n \in S
  BY <1>1, <1>2, Induction
<1> QED
  BY <1>3 DEF S

LEMMA OutputIs ==
  ASSUME NEW back, NEW n \in Nat, n = grid[1] * grid[2]
  PROVE  \E g : OutsAt(g, back, n) /\ T!Output(back) = g[n].cmds
<1> DEFINE Folded == CHOOSE g : Outs(g, back, n)
<1>1. T!Output(back) = Folded[n].cmds
  BY DEF T!Output, Outs, First, Then
<1>2. Outs(Folded, back, n)
  BY OutsExist, Zenon
<1> HIDE DEF Folded
<1>3. OutsAt(Folded, back, n)
  BY <1>2, Zenon DEF Outs, OutsAt
<1> QED
  BY <1>1, <1>3

\* Up to the number i the cells are the new frame's, the others as they were; the place and the
\* attributes that the code remembers are the terminal's.
Painted(back, base, o, i, u) ==
  /\ u = [screen |-> u.screen, cursor |-> u.cursor, pen |-> u.pen]
  /\ u.screen = [p \in T!CellsOf(grid) |-> u.screen[p]]
  /\ \A p \in T!CellsOf(grid) :
       u.screen[p] = IF NumberOf(p, grid[1]) <= i THEN back[p] ELSE base[p]
  /\ o.attr = T!None \/ o.attr = <<u.pen>>
  /\ o.c = T!None \/ \E x \in Nat, y \in Nat : o.c = <<x, y>> /\ (x <= grid[1] => u.cursor = <<x, y>>)

LEMMA GridPlaces ==
  ASSUME grid \in Sizes
  PROVE  /\ grid[1] \in Nat \ {0} /\ grid[2] \in Nat \ {0} /\ grid[1] * grid[2] \in Nat
         /\ \A i \in 1..(grid[1] * grid[2]) :
              /\ T!Place(i) \in T!CellsOf(grid) /\ NumberOf(T!Place(i), grid[1]) = i
              /\ \A p \in T!CellsOf(grid) : NumberOf(p, grid[1]) = i => p = T!Place(i)
         /\ \A p \in T!CellsOf(grid) : NumberOf(p, grid[1]) \in 1..(grid[1] * grid[2])
<1> DEFINE w == grid[1]
           h == grid[2]
<1>1. w \in Nat \ {0} /\ h \in Nat \ {0}
  BY TextAssumption
<1>2. w * h \in Nat
  BY <1>1
<1>3. T!CellsOf(grid) = (1..w) \X (1..h) /\ \A i : T!Place(i) = PlaceOf(i, w)
  BY Zenon DEF T!CellsOf, T!Place, PlaceOf
<1> HIDE DEF w, h
<1>4. ASSUME NEW i \in 1..(w * h)
      PROVE  PlaceOf(i, w) \in (1..w) \X (1..h) /\ NumberOf(PlaceOf(i, w), w) = i
  BY <1>1, PlacesAreNumbered
<1>5. ASSUME NEW p \in (1..w) \X (1..h)
      PROVE  NumberOf(p, w) \in 1..(w * h) /\ PlaceOf(NumberOf(p, w), w) = p
  BY <1>1, NumbersArePlaced
<1>6. \A i \in 1..(w * h) : /\ T!Place(i) \in T!CellsOf(grid) /\ NumberOf(T!Place(i), w) = i
                           /\ \A p \in T!CellsOf(grid) : NumberOf(p, w) = i => p = T!Place(i)
  BY <1>3, <1>4, <1>5, Zenon
<1>7. \A p \in T!CellsOf(grid) : NumberOf(p, w) \in 1..(w * h)
  BY <1>3, <1>5, Zenon
<1> QED
  BY <1>1, <1>2, <1>6, <1>7 DEF w, h

\* The commands q and, behind them, those for a cell.
WithCell(q, moves, p, sets, x, ch) ==
  q \o (IF moves THEN <<Move(p)>> ELSE <<>>) \o (IF sets THEN <<Attr(x)>> ELSE <<>>) \o <<Put(ch)>>

\* The terminal, and the terminal that has put a character in a place.
Host(s, c, a) == [screen |-> s, cursor |-> c, pen |-> a]
HostPut(s, p, x, ch) ==
  [screen |-> [s EXCEPT ![p] = [ch |-> ch, attr |-> x]],
   cursor |-> IF p[1] < size[1] THEN <<p[1] + 1, p[2]>> ELSE p, pen |-> x]

\* A cell that differs is written: the cursor is moved if it is not there, the attributes are set
\* if they are others.
LEMMA CellWritten ==
  ASSUME NEW Cmds, NEW q \in Seq(Cmds), NEW t, NEW s, NEW c, NEW a, Leads(t, q, Host(s, c, a)),
         NEW p, NEW x, NEW ch, Move(p) \in Cmds, Attr(x) \in Cmds, Put(ch) \in Cmds,
         NEW moves \in BOOLEAN, ~moves => c = p, NEW sets \in BOOLEAN, ~sets => a = x
  PROVE  /\ WithCell(q, moves, p, sets, x, ch) \in Seq(Cmds)
         /\ Leads(t, WithCell(q, moves, p, sets, x, ch), HostPut(s, p, x, ch))
<1> DEFINE q1 == q \o (IF moves THEN <<Move(p)>> ELSE <<>>)
           q2 == q1 \o (IF sets THEN <<Attr(x)>> ELSE <<>>)
           q3 == q2 \o <<Put(ch)>>
           m == Move(p)
           b == Attr(x)
           d == Put(ch)
           u == [screen |-> s, cursor |-> c, pen |-> a]
           u1 == [screen |-> s, cursor |-> p, pen |-> a]
           u2 == [screen |-> s, cursor |-> p, pen |-> x]
           u3 == [screen |-> [s EXCEPT ![p] = [ch |-> ch, attr |-> x]],
                  cursor |-> IF p[1] < size[1] THEN <<p[1] + 1, p[2]>> ELSE p, pen |-> x]
<1>1. T!Obey(u, m) = u1 /\ T!Obey(u1, b) = u2 /\ T!Obey(u2, d) = u3
  <2>1. T!Obey(u, m) = u1
    BY DEF T!Obey, Move
  <2>2. T!Obey(u1, b) = u2
    BY DEF T!Obey, Attr
  <2>3. T!Obey(u2, d) = u3
    BY DEF T!Obey, Put
  <2> QED
    BY <2>1, <2>2, <2>3
<1>2. m \in Cmds /\ b \in Cmds /\ d \in Cmds /\ q \in Seq(Cmds) /\ Leads(t, q, u)
  BY DEF Host
<1>3. (~moves => u = u1) /\ (~sets => u1 = u2)
  OBVIOUS
<1> HIDE DEF m, b, d, u, u1, u2, u3
<1>4. q1 = IF moves THEN Append(q, m) ELSE q
  BY <1>2 DEF m
<1>5. q1 \in Seq(Cmds)
  BY <1>2, <1>4
<1>6. moves => Appended(q, m, q1)
  BY <1>4 DEF Appended
<1>7. q2 = IF sets THEN Append(q1, b) ELSE q1
  <2> HIDE DEF q1
  <2> QED
    BY <1>2, <1>5 DEF b
<1>8. q2 \in Seq(Cmds)
  <2> HIDE DEF q1
  <2> QED
    BY <1>2, <1>5, <1>7
<1>9. sets => Appended(q1, b, q2)
  BY <1>7 DEF Appended
<1>a. q3 = Append(q2, d) /\ q3 \in Seq(Cmds)
  <2> HIDE DEF q2
  <2> QED
    BY <1>2, <1>8 DEF d
<1>b. Appended(q2, d, q3)
  BY <1>a DEF Appended
<1>c. q3 = WithCell(q, moves, p, sets, x, ch)
  BY DEF WithCell
<1>d. ~moves => q1 = q
  BY <1>4
<1>e. ~sets => q2 = q1
  BY <1>7
<1> HIDE DEF q1, q2, q3
<1>10. Leads(t, q1, u1)
  <2>1. CASE moves
    <3>1. Leads(t, q1, T!Obey(u, m))
      BY <1>2, <1>6, <2>1, LeadsOn
    <3> QED
      BY <1>1, <3>1
  <2>2. CASE ~moves
    BY <1>2, <1>3, <1>d, <2>2
  <2> QED
    BY <2>1, <2>2
<1>11. Leads(t, q2, u2)
  <2>1. CASE sets
    <3>1. Leads(t, q2, T!Obey(u1, b))
      BY <1>2, <1>5, <1>9, <1>10, <2>1, LeadsOn
    <3> QED
      BY <1>1, <3>1
  <2>2. CASE ~sets
    BY <1>3, <1>10, <1>e, <2>2
  <2> QED
    BY <2>1, <2>2
<1>12. Leads(t, q3, u3)
  <2>1. Leads(t, q3, T!Obey(u2, d))
    BY <1>2, <1>8, <1>11, <1>b, LeadsOn
  <2> QED
    BY <1>1, <2>1
<1> QED
  BY <1>12, <1>a, <1>c DEF u3, HostPut

\* One more cell: it is the new frame's, and no other has changed.
LEMMA CellPainted ==
  ASSUME grid \in Sizes, size = grid, NEW back \in [T!CellsOf(grid) -> Cell],
         NEW base, \A p \in T!CellsOf(grid) : back[p] = front[p] => base[p] = back[p],
         NEW Cmds, NEW i \in 1..(grid[1] * grid[2]),
         Move(T!Place(i)) \in Cmds, Attr(back[T!Place(i)].attr) \in Cmds, Put(back[T!Place(i)].ch) \in Cmds,
         NEW o, o.cmds \in Seq(Cmds), NEW t, NEW u, Leads(t, o.cmds, u), Painted(back, base, o, i - 1, u)
  PROVE  /\ Then(back, o, i).cmds \in Seq(Cmds)
         /\ \E v : Leads(t, Then(back, o, i).cmds, v) /\ Painted(back, base, Then(back, o, i), i, v)
<1> DEFINE p == T!Place(i)
           w == grid[1]
           S == T!CellsOf(grid)
           n == w * grid[2]
           moves == o.c # p
           sets == o.attr # <<back[p].attr>>
           q == o.cmds
           r == WithCell(q, moves, p, sets, back[p].attr, back[p].ch)
           z == [cmds |-> r, c |-> <<p[1] + 1, p[2]>>, attr |-> <<back[p].attr>>]
           v == [screen |-> [u.screen EXCEPT ![p] = [ch |-> back[p].ch, attr |-> back[p].attr]],
                 cursor |-> IF p[1] < size[1] THEN <<p[1] + 1, p[2]>> ELSE p,
                 pen |-> back[p].attr]
<1>1. /\ p \in S /\ NumberOf(p, w) = i /\ (\A c \in S : NumberOf(c, w) = i => c = p)
      /\ (\A c \in S : NumberOf(c, w) \in 1..n) /\ n \in Nat
  BY GridPlaces
<1>2. Then(back, o, i) = IF back[p] = front[p] THEN o ELSE z
  BY DEF Then, WithCell, Move, Attr, Put
<1>3. /\ u = [screen |-> u.screen, cursor |-> u.cursor, pen |-> u.pen]
      /\ u.screen = [c \in S |-> u.screen[c]]
      /\ \A c \in S : u.screen[c] = IF NumberOf(c, w) <= i - 1 THEN back[c] ELSE base[c]
      /\ o.attr = T!None \/ o.attr = <<u.pen>>
      /\ o.c = T!None \/ \E x \in Nat, y \in Nat : o.c = <<x, y>> /\ (x <= w => u.cursor = <<x, y>>)
  BY Zenon DEF Painted
<1>4. p[1] \in 1..w /\ p[2] \in Nat /\ p = <<p[1], p[2]>> /\ w \in Nat
  BY <1>1, GridPlaces DEF T!CellsOf
<1>5. back[p] = [ch |-> back[p].ch, attr |-> back[p].attr]
  BY <1>1, TextAssumption
<1>6. \A c \in S : c # p => (NumberOf(c, w) <= i <=> NumberOf(c, w) <= i - 1)
  <2> SUFFICES ASSUME NEW c \in S, c # p PROVE NumberOf(c, w) <= i <=> NumberOf(c, w) <= i - 1
    OBVIOUS
  <2> DEFINE k == NumberOf(c, w)
  <2>1. k \in 1..n /\ k # i /\ n \in Nat
    BY <1>1
  <2> HIDE DEF k, n
  <2>2. k <= i <=> k <= i - 1
    BY <2>1
  <2> QED
    BY <2>2 DEF k
<1>7. NumberOf(p, w) <= i /\ ~(NumberOf(p, w) <= i - 1)
  <2>1. i \in Nat
    BY <1>1
  <2>2. i <= i /\ ~(i <= i - 1)
    BY <2>1
  <2> QED
    BY <1>1, <2>2
<1> HIDE DEF p, S, n
<1>8. CASE back[p] = front[p]
  <2>1. \A c \in S : u.screen[c] = IF NumberOf(c, w) <= i THEN back[c] ELSE base[c]
    <3>1. base[p] = back[p]
      BY <1>1, <1>8 DEF S
    <3> QED
      BY <1>1, <1>3, <1>6, <1>7, <3>1
  <2>2. Painted(back, base, o, i, u)
    BY <1>3, <2>1, Zenon DEF Painted, S
  <2> QED
    BY <1>2, <1>8, <2>2
<1>9. CASE back[p] # front[p]
  <2> HIDE DEF w
  <2>1. ~moves => u.cursor = p
    <3> SUFFICES ASSUME o.c = p PROVE u.cursor = p
      OBVIOUS
    <3>1. p # T!None
      <4>1. \A x, y : <<x, y>> # <<>>
        OBVIOUS
      <4> QED
        BY <1>4, <4>1, Zenon DEF T!None
    <3>2. PICK x \in Nat, y \in Nat : o.c = <<x, y>> /\ (x <= w => u.cursor = <<x, y>>)
      BY <1>3, <3>1
    <3>3. x = p[1] /\ x <= w
      BY <1>4, <3>2
    <3> QED
      BY <3>2, <3>3
  <2>2. ~sets => u.pen = back[p].attr
    <3> SUFFICES ASSUME o.attr = <<back[p].attr>> PROVE u.pen = back[p].attr
      OBVIOUS
    <3>1. <<back[p].attr>> # T!None
      BY DEF T!None
    <3>2. <<back[p].attr>> = <<u.pen>>
      BY <1>3, <3>1
    <3> DEFINE a1 == <<back[p].attr>>
               a2 == <<u.pen>>
    <3>3. a1[1] = back[p].attr /\ a2[1] = u.pen /\ a1 = a2
      BY <3>2
    <3> QED
      BY <3>3
  <2>3. r \in Seq(Cmds) /\ Leads(t, r, v)
    <3> DEFINE x == back[p].attr
               ch == back[p].ch
               s == u.screen
               cu == u.cursor
               pe == u.pen
               mo == moves
               se == sets
    <3>1. /\ Move(p) \in Cmds /\ Attr(x) \in Cmds /\ Put(ch) \in Cmds
      BY DEF p
    <3>2. /\ q \in Seq(Cmds) /\ Leads(t, q, Host(s, cu, pe))
      BY <1>3 DEF Host
    <3>3. mo \in BOOLEAN /\ se \in BOOLEAN /\ (~mo => cu = p) /\ (~se => pe = x)
      BY <2>1, <2>2, Zenon
    <3> HIDE DEF x, ch, s, cu, pe, mo, se, q
    <3>4. /\ WithCell(q, mo, p, se, x, ch) \in Seq(Cmds)
          /\ Leads(t, WithCell(q, mo, p, se, x, ch), HostPut(s, p, x, ch))
      BY <3>1, <3>2, <3>3, CellWritten, ZenonT(30)
    <3> QED
      BY <3>4, Zenon DEF x, ch, s, cu, pe, mo, se, q, HostPut
  <2> DEFINE ns == [u.screen EXCEPT ![p] = [ch |-> back[p].ch, attr |-> back[p].attr]]
             nc == IF p[1] < size[1] THEN <<p[1] + 1, p[2]>> ELSE p
             np == back[p].attr
  <2>4. v.screen = ns /\ v.cursor = nc /\ v.pen = np /\ v = [screen |-> ns, cursor |-> nc, pen |-> np]
    OBVIOUS
  <2>5. z.cmds = r /\ z.attr = <<np>> /\ z.c = <<p[1] + 1, p[2]>>
    OBVIOUS
  <2>6. ns = [c \in S |-> ns[c]] /\ ns[p] = back[p] /\ \A c \in S : c # p => ns[c] = u.screen[c]
    <3> DEFINE us == u.screen
               b == [ch |-> back[p].ch, attr |-> back[p].attr]
    <3>1. us = [c \in S |-> us[c]] /\ p \in S /\ b = back[p]
      BY <1>1, <1>3, <1>5
    <3> HIDE DEF us, b
    <3>2. [us EXCEPT ![p] = b] = [c \in S |-> [us EXCEPT ![p] = b][c]]
      BY <3>1, Zenon
    <3>3. [us EXCEPT ![p] = b][p] = b /\ \A c \in S : c # p => [us EXCEPT ![p] = b][c] = us[c]
      BY <3>1, Zenon
    <3> QED
      BY <3>1, <3>2, <3>3, Zenon DEF us, b
  <2>7. (p[1] + 1 <= w => nc = <<p[1] + 1, p[2]>>) /\ p[1] + 1 \in Nat
    BY <1>4 DEF w
  <2> HIDE DEF ns, nc, np, v, r, z
  <2>8. \A c \in S : v.screen[c] = IF NumberOf(c, w) <= i THEN back[c] ELSE base[c]
    <3> SUFFICES ASSUME NEW c \in S
                 PROVE  v.screen[c] = IF NumberOf(c, w) <= i THEN back[c] ELSE base[c]
      OBVIOUS
    <3>1. CASE c = p
      BY <1>7, <2>4, <2>6, <3>1, Zenon
    <3>2. CASE c # p
      BY <1>3, <1>6, <2>4, <2>6, <3>2, Zenon
    <3> QED
      BY <3>1, <3>2
  <2>9. Painted(back, base, z, i, v)
    <3>1. /\ v = [screen |-> v.screen, cursor |-> v.cursor, pen |-> v.pen]
          /\ v.screen = [c \in S |-> v.screen[c]]
      BY <2>4, <2>6
    <3>2. z.attr = <<v.pen>>
      BY <2>4, <2>5
    <3>3. \E x \in Nat, y \in Nat : z.c = <<x, y>> /\ (x <= w => v.cursor = <<x, y>>)
      BY <1>4, <2>4, <2>5, <2>7
    <3> QED
      BY <2>8, <3>1, <3>2, <3>3, Zenon DEF Painted, S, w
  <2> QED
    BY <1>2, <1>9, <2>3, <2>5, <2>9
<1> QED
  BY <1>8, <1>9

\* Where the screen is right already or differs from what the code believes is shown, it is
\* right when all commands have been obeyed.
LEMMA Repaints ==
  ASSUME grid \in Sizes, size = grid, NEW back \in [T!CellsOf(grid) -> Cell],
         NEW base, base = [p \in T!CellsOf(grid) |-> base[p]],
         \A p \in T!CellsOf(grid) : back[p] = front[p] => base[p] = back[p],
         NEW c, NEW a
  PROVE  T!Obeyed([screen |-> base, cursor |-> c, pen |-> a], T!Output(back)).screen = back
<1> DEFINE S == T!CellsOf(grid)
           n == grid[1] * grid[2]
           Cmds == {Move(p) : p \in S} \cup {Attr(back[p].attr) : p \in S} \cup {Put(back[p].ch) : p \in S}
           t == [screen |-> base, cursor |-> c, pen |-> a]
<1>1. n \in Nat /\ (\A i \in 1..n : T!Place(i) \in S) /\ \A p \in S : NumberOf(p, grid[1]) \in 1..n
  BY GridPlaces
<1>2. PICK g : OutsAt(g, back, n) /\ T!Output(back) = g[n].cmds
  BY <1>1, OutputIs
<1>3. \A i \in 0..n : g[i] = IF i = 0 THEN First ELSE Then(back, g[i - 1], i)
  BY <1>2, Zenon DEF OutsAt
<1> DEFINE Fine(i) == g[i].cmds \in Seq(Cmds) /\ \E u : Leads(t, g[i].cmds, u) /\ Painted(back, base, g[i], i, u)
           T0 == {i \in Nat : i <= n => Fine(i)}
<1>4. Fine(0)
  <2>1. g[0] = First
    <3>1. 0 \in 0..n
      BY <1>1
    <3> QED
      BY <1>3, <3>1
  <2>2. First.cmds = <<>> /\ First.c = T!None /\ First.attr = T!None
    BY DEF First
  <2>3. t.screen = base /\ t = [screen |-> t.screen, cursor |-> t.cursor, pen |-> t.pen]
    OBVIOUS
  <2>4. \A p \in S : ~(NumberOf(p, grid[1]) <= 0)
    <3> SUFFICES ASSUME NEW p \in S PROVE ~(NumberOf(p, grid[1]) <= 0)
      OBVIOUS
    <3> DEFINE k == NumberOf(p, grid[1])
    <3>1. k \in 1..n
      BY <1>1
    <3> HIDE DEF k
    <3>2. ~(k <= 0)
      BY <1>1, <3>1
    <3> QED
      BY <3>2 DEF k
  <2> HIDE DEF t
  <2>5. Painted(back, base, First, 0, t)
    BY <2>2, <2>3, <2>4, Zenon DEF Painted
  <2>6. Leads(t, <<>>, t) /\ <<>> \in Seq(Cmds)
    BY LeadsNowhere
  <2> QED
    BY <2>1, <2>2, <2>5, <2>6
<1> HIDE DEF Fine, n
<1>5. 0 \in T0
  BY <1>4
<1>6. ASSUME NEW i \in Nat, i \in T0 PROVE i + 1 \in T0
  <2> SUFFICES ASSUME i + 1 <= n PROVE Fine(i + 1)
    OBVIOUS
  <2> DEFINE j == i + 1
             p == T!Place(j)
             o == g[i]
  <2>1. j \in 1..n /\ j \in 0..n /\ j # 0 /\ j - 1 = i /\ Fine(i)
    BY <1>1, <1>6
  <2>f. /\ o.cmds \in Seq(Cmds)
        /\ \E u : Leads(t, o.cmds, u) /\ Painted(back, base, o, i, u)
    BY <2>1, Zenon DEF Fine
  <2>2. p \in S
    BY <1>1, <2>1
  <2>3. Move(p) \in Cmds /\ Attr(back[p].attr) \in Cmds /\ Put(back[p].ch) \in Cmds
    BY <2>2
  <2>4. g[j] = Then(back, o, j)
    BY <1>3, <2>1
  <2> HIDE DEF t, Cmds, j
  <2>5. PICK u : Leads(t, o.cmds, u) /\ Painted(back, base, o, j - 1, u)
    BY <2>1, <2>f
  <2>6. o.cmds \in Seq(Cmds)
    BY <2>f
  <2>7. /\ Then(back, o, j).cmds \in Seq(Cmds)
        /\ \E v : Leads(t, Then(back, o, j).cmds, v) /\ Painted(back, base, Then(back, o, j), j, v)
    <3>1. j \in 1..(grid[1] * grid[2])
      BY <2>1 DEF n
    <3> HIDE DEF o, p
    <3>2. Move(T!Place(j)) \in Cmds /\ Attr(back[T!Place(j)].attr) \in Cmds /\ Put(back[T!Place(j)].ch) \in Cmds
      BY <2>3 DEF p
    <3> QED
      BY <2>5, <2>6, <3>1, <3>2, CellPainted
  <2>8. Fine(j)
    BY <2>4, <2>7, Zenon DEF Fine
  <2> QED
    BY <2>8 DEF j
<1> HIDE DEF T0
<1>7. n \in T0
  BY <1>1, <1>5, <1>6, Induction
<1>8. Fine(n)
  BY <1>1, <1>7 DEF T0
<1>f. /\ g[n].cmds \in Seq(Cmds)
      /\ \E u : Leads(t, g[n].cmds, u) /\ Painted(back, base, g[n], n, u)
  BY <1>8, Zenon DEF Fine
<1>9. PICK u : Leads(t, g[n].cmds, u) /\ Painted(back, base, g[n], n, u)
  BY <1>f
<1>10. T!Obeyed(t, T!Output(back)) = u
  <2> HIDE DEF Cmds, t
  <2> QED
    BY <1>2, <1>f, <1>9, ObeyedIs
<1>11. u.screen = back
  <2>1. /\ u.screen = [p \in S |-> u.screen[p]]
        /\ \A p \in S : u.screen[p] = IF NumberOf(p, grid[1]) <= n THEN back[p] ELSE base[p]
    BY <1>9, Zenon DEF Painted
  <2>2. \A p \in S : NumberOf(p, grid[1]) <= n
    <3> SUFFICES ASSUME NEW p \in S PROVE NumberOf(p, grid[1]) <= n
      OBVIOUS
    <3> DEFINE k == NumberOf(p, grid[1])
    <3>1. k \in 1..n
      BY <1>1
    <3> HIDE DEF k, n
    <3>2. k <= n
      BY <1>1, <3>1
    <3> QED
      BY <3>2 DEF k
  <2>3. \A p \in S : u.screen[p] = back[p]
    BY <2>1, <2>2, Zenon
  <2>4. back = [p \in S |-> back[p]]
    OBVIOUS
  <2> QED
    BY <2>1, <2>3, <2>4, Zenon
<1> QED
  BY <1>10, <1>11

\* The screen shows front at every stage but between a new grid and its first frame, when nothing
\* the code believes is shown could equal a cell of a frame.
GridTypes ==
  /\ size \in Sizes /\ grid \in Sizes \cup {T!None} /\ stage \in {"ensure", "draw", "shown"}
  /\ stage # "ensure" => grid \in Sizes
GridInv ==
  /\ GridTypes
  /\ cleared => stage = "draw" /\ front = [c \in T!CellsOf(grid) |-> T!Never]
  /\ grid # T!None /\ ~dropped /\ ~resized =>
       grid = size /\ (~cleared => screen = front /\ front \in [T!CellsOf(grid) -> Cell])

LEMMA SizesArePairs == T!None \notin Sizes
<1>1. \A s \in Sizes : s = <<s[1], s[2]>>
  BY TextAssumption
<1>2. \A x, y : <<x, y>> # <<>>
  OBVIOUS
<1> QED
  BY <1>1, <1>2, Zenon DEF T!None

LEMMA GridBegins == T!GridInit => GridInv
BY SizesArePairs DEF T!GridInit, GridInv, GridTypes

LEMMA FrameDrawn == ASSUME GridInv, T!Draw PROVE GridInv'
<1>1. /\ stage = "draw" /\ stage' = "shown" /\ cleared' = FALSE
      /\ size' = size /\ grid' = grid /\ dropped' = dropped /\ resized' = resized
  BY DEF T!Draw
<1>2. PICK back \in [T!CellsOf(grid) -> Cell] : T!Written(back) /\ front' = back
  BY DEF T!Draw
<1>3. /\ GridTypes /\ grid \in Sizes /\ size \in Sizes
      /\ cleared => front = [c \in T!CellsOf(grid) |-> T!Never]
      /\ ~dropped /\ ~resized =>
           grid = size /\ (~cleared => screen = front /\ front \in [T!CellsOf(grid) -> Cell])
  BY <1>1, SizesArePairs DEF GridInv, GridTypes
<1> DEFINE S == T!CellsOf(grid)
<1>4. S # {}
  <2>1. grid[1] \in Nat \ {0} /\ grid[2] \in Nat \ {0}
    BY <1>3, TextAssumption
  <2>2. <<1, 1>> \in (1..grid[1]) \X (1..grid[2])
    BY <2>1
  <2> QED
    BY <2>2 DEF T!CellsOf
<1>5. ASSUME ~dropped, ~resized PROVE screen' = back
  <2> DEFINE base == IF cleared THEN T!Cleared(size) ELSE screen
  <2>1. size = grid
    BY <1>3, <1>5
  <2>2. base = [c \in S |-> base[c]]
    <3>1. CASE cleared
      <4>1. base = [c \in S |-> T!Blank]
        BY <2>1, <3>1 DEF T!Cleared
      <4> QED
        BY <4>1
    <3>2. CASE ~cleared
      BY <1>3, <1>5, <3>2
    <3> QED
      BY <3>1, <3>2
  <2>3. \A p \in S : back[p] = front[p] => base[p] = back[p]
    <3>1. CASE cleared
      <4>1. \A p \in S : front[p] = T!Never /\ back[p] \in Cell
        BY <1>3, <3>1
      <4>2. \A c \in Cell : c # T!Never
        <5>1. T!Never.ch = "never"
          BY DEF T!Never
        <5> QED
          BY <5>1, TextAssumption
      <4> QED
        BY <4>1, <4>2, Zenon
    <3>2. CASE ~cleared
      BY <1>3, <1>5, <3>2
    <3> QED
      BY <3>1, <3>2
  <2>4. base # T!Garbled
    <3>1. DOMAIN base = S
      BY <2>2, Zenon
    <3>2. DOMAIN T!Garbled = {}
      BY DEF T!Garbled
    <3> QED
      BY <1>4, <3>1, <3>2, Zenon
  <2>5. screen' = T!Obeyed([screen |-> base, cursor |-> cursor, pen |-> pen], T!Output(back)).screen
    BY <1>2, <2>1, <2>4, Zenon DEF T!Written
  <2> HIDE DEF base
  <2>6. T!Obeyed([screen |-> base, cursor |-> cursor, pen |-> pen], T!Output(back)).screen = back
    BY <1>3, <2>1, <2>2, <2>3, Repaints DEF S
  <2> QED
    BY <2>5, <2>6
<1>6. GridTypes'
  BY <1>1, <1>3 DEF GridTypes
<1> QED
  BY <1>1, <1>2, <1>3, <1>5, <1>6 DEF GridInv

LEMMA GridSteps == ASSUME GridInv, T!GridNext PROVE GridInv'
<1>1. ASSUME T!Resize PROVE GridInv'
  BY <1>1 DEF T!Resize, GridInv, GridTypes
<1>2. ASSUME T!Ensure PROVE GridInv'
  <2>1. CASE grid = size
    BY <1>2, <2>1 DEF T!Ensure, T!SameSize, GridInv, GridTypes
  <2>2. CASE grid # size
    BY <1>2, <2>2 DEF T!Ensure, T!SameSize, GridInv, GridTypes
  <2> QED
    BY <2>1, <2>2
<1>3. ASSUME T!DrawFails PROVE GridInv'
  BY <1>3 DEF T!DrawFails, GridInv, GridTypes
<1>4. ASSUME T!RunOn PROVE GridInv'
  BY <1>4 DEF T!RunOn, GridInv, GridTypes
<1> QED
  BY <1>1, <1>2, <1>3, <1>4, FrameDrawn, Zenon DEF T!GridNext

\* text.c: although only the differences are sent, the host's terminal shows the frame composed,
\* for terminals of any sizes and frames of any cells, unless a write failed or the terminal was
\* resized and resized back between two frames.
THEOREM FramesAreShown == Spec => []ScreenIsFrame
<1>1. Init => GridInv
  BY GridBegins, Zenon DEF Init
<1>2. GridInv /\ [Next]_vars => GridInv'
  <2> SUFFICES ASSUME GridInv, [Next]_vars PROVE GridInv'
    OBVIOUS
  <2>1. T!GridNext \/ UNCHANGED textVars
    BY Zenon DEF Next, vars
  <2>2. ASSUME UNCHANGED textVars PROVE GridInv'
    BY <2>2 DEF textVars, GridInv, GridTypes
  <2> QED
    BY <2>1, <2>2, GridSteps, Zenon
<1>3. GridInv => ScreenIsFrame
  BY SizesArePairs DEF GridInv, GridTypes, ScreenIsFrame, T!ScreenIsFront
<1> QED
  BY <1>1, <1>2, <1>3, PTL DEF Spec

(***************************************************************************)
(* The characters of a row (RowCells): what is carried is the beginning of *)
(* the character that the line does not have yet.                          *)
(***************************************************************************)
\* How many bytes of the page have been read.
BytesRead == IF byteAt < FirstEnd THEN byteAt ELSE byteAt - SecondStart + FirstEnd
Character(k) == <<C!Half(3 * k - 3), C!Half(3 * k - 2), C!Half(3 * k - 1)>>
Characters == {Character(k) : k \in Nat \ {0}}

CellInv ==
  /\ byteAt \in Int
  /\ (0 <= byteAt /\ byteAt < FirstEnd) \/ (SecondStart <= byteAt /\ byteAt <= SecondEnd)
  /\ line \in Seq(Characters)
  /\ \A k \in 1..Len(line) : line[k] = Character(k)
  /\ LET n == BytesRead IN
     \/ n % 3 = 0 /\ 3 * Len(line) = 2 * n
     \/ n % 3 = 1 /\ 3 * Len(line) = 2 * n - 2 /\ carried = <<C!Half(2 * n - 2), C!Half(2 * n - 1)>>
     \/ n % 3 = 2 /\ 3 * Len(line) = 2 * n - 1 /\ carried = <<C!Half(2 * n - 1)>>

LEMMA CellsBegin == C!CellInit => CellInv
<1> SUFFICES ASSUME C!CellInit PROVE CellInv
  OBVIOUS
<1>1. byteAt = 0 /\ line = <<>> /\ Len(line) = 0
  BY DEF C!CellInit
<1>2. BytesRead = 0
  BY <1>1, PageAssumption DEF BytesRead
<1> QED
  BY <1>1, <1>2, PageAssumption DEF CellInv

\* The byte read next has the two halves that come next.
LEMMA HalvesInOrder ==
  ASSUME CellInv, byteAt < SecondEnd
  PROVE /\ BytesRead \in Nat /\ C!Phase(byteAt) = BytesRead % 3
        /\ C!Low(byteAt) = C!Half(2 * BytesRead) /\ C!High(byteAt) = C!Half(2 * BytesRead + 1)
<1> DEFINE n == BytesRead
<1>1. n \in Nat /\ C!PageByte(n) = byteAt
  BY PageAssumption DEF CellInv, BytesRead, C!PageByte
<1>2. C!Phase(byteAt) = n % 3
  <2>1. CASE byteAt < FirstEnd
    BY <2>1 DEF BytesRead, C!Phase
  <2>2. CASE ~(byteAt < FirstEnd)
    <3>1. PICK f \in Nat, s \in Nat : FirstEnd = 3 * f /\ SecondStart = 3 * s + 2
      <4>1. FirstEnd = 3 * (FirstEnd \div 3) /\ SecondStart = 3 * (SecondStart \div 3) + 2
        BY PageAssumption
      <4>2. FirstEnd \div 3 \in Nat /\ SecondStart \div 3 \in Nat
        BY PageAssumption
      <4> QED
        BY <4>1, <4>2
    <3>2. byteAt \in Int
      BY DEF CellInv
    <3>3. (byteAt + 1) % 3 = (byteAt - (3 * s + 2) + 3 * f) % 3
      BY <3>1, <3>2
    <3> QED
      BY <2>2, <3>1, <3>3 DEF BytesRead, C!Phase
  <2> QED
    BY <2>1, <2>2
<1> HIDE DEF n
<1>3. (2 * n) % 2 = 0 /\ (2 * n) \div 2 = n /\ (2 * n + 1) % 2 = 1 /\ (2 * n + 1) \div 2 = n
  BY <1>1
<1>4. C!Half(2 * n) = C!Low(byteAt) /\ C!Half(2 * n + 1) = C!High(byteAt)
  BY <1>1, <1>3 DEF C!Half
<1> QED
  BY <1>1, <1>2, <1>4 DEF n

LEMMA NextIsRead ==
  ASSUME CellInv, byteAt < SecondEnd, byteAt' = C!NextByte
  PROVE /\ BytesRead' = BytesRead + 1 /\ byteAt' \in Int
        /\ (0 <= byteAt' /\ byteAt' < FirstEnd) \/ (SecondStart <= byteAt' /\ byteAt' <= SecondEnd)
BY PageAssumption DEF CellInv, BytesRead, C!NextByte

LEMMA CellSteps == ASSUME CellInv, C!CellNext PROVE CellInv'
<1> DEFINE n == BytesRead
<1> DEFINE l == Len(line)
<1>1. byteAt < SecondEnd /\ byteAt' = C!NextByte
  BY DEF C!CellNext
<1>2. /\ n \in Nat /\ C!Phase(byteAt) = n % 3
      /\ C!Low(byteAt) = C!Half(2 * n) /\ C!High(byteAt) = C!Half(2 * n + 1)
  BY <1>1, HalvesInOrder
<1>3. /\ BytesRead' = n + 1 /\ byteAt' \in Int
      /\ (0 <= byteAt' /\ byteAt' < FirstEnd) \/ (SecondStart <= byteAt' /\ byteAt' <= SecondEnd)
  BY <1>1, NextIsRead
<1>4. /\ l \in Nat /\ line \in Seq(Characters) /\ \A k \in 1..l : line[k] = Character(k)
      /\ \/ n % 3 = 0 /\ 3 * l = 2 * n
         \/ n % 3 = 1 /\ 3 * l = 2 * n - 2 /\ carried = <<C!Half(2 * n - 2), C!Half(2 * n - 1)>>
         \/ n % 3 = 2 /\ 3 * l = 2 * n - 1 /\ carried = <<C!Half(2 * n - 1)>>
  BY DEF CellInv
<1> HIDE DEF n, l
\* A character completed is the next one.
<1>5. ASSUME line' = Append(line, Character(l + 1))
      PROVE /\ line' \in Seq(Characters) /\ Len(line') = l + 1
            /\ \A k \in 1..Len(line') : line'[k] = Character(k)
  <2>1. Character(l + 1) \in Characters
    <3> DEFINE k == l + 1
    <3>1. k \in Nat \ {0}
      BY <1>4
    <3> HIDE DEF k
    <3>2. Character(k) \in Characters
      BY <3>1 DEF Characters
    <3> QED
      BY <3>2 DEF k
  <2>2. line' \in Seq(Characters) /\ Len(line') = l + 1
    BY <1>4, <1>5, <2>1 DEF l
  <2>3. ASSUME NEW k \in 1..Len(line') PROVE line'[k] = Character(k)
    <3>1. CASE k <= l
      BY <1>4, <1>5, <2>2, <3>1 DEF l
    <3>2. CASE k = l + 1
      BY <1>4, <1>5, <3>2 DEF l
    <3> QED
      BY <1>4, <2>2, <2>3, <3>1, <3>2
  <2> QED
    BY <2>2, <2>3
<1>6. CASE n % 3 = 0
  <2>1. line' = line /\ carried' = <<C!Half(2 * n), C!Half(2 * n + 1)>>
    BY <1>2, <1>6 DEF C!CellNext
  <2>2. (n + 1) % 3 = 1 /\ 3 * l = 2 * (n + 1) - 2 /\ 2 * (n + 1) - 2 = 2 * n /\ 2 * (n + 1) - 1 = 2 * n + 1
    BY <1>2, <1>4, <1>6
  <2> QED
    BY <1>3, <1>4, <2>1, <2>2 DEF CellInv, l
<1>7. CASE n % 3 = 1
  <2>1. line' = Append(line, <<carried[1], carried[2], C!Half(2 * n)>>) /\ carried' = <<C!Half(2 * n + 1)>>
    BY <1>2, <1>7 DEF C!CellNext
  <2>2. 3 * l = 2 * n - 2 /\ carried = <<C!Half(2 * n - 2), C!Half(2 * n - 1)>>
    BY <1>4, <1>7
  <2>3. 3 * (l + 1) - 3 = 2 * n - 2 /\ 3 * (l + 1) - 2 = 2 * n - 1 /\ 3 * (l + 1) - 1 = 2 * n
    BY <1>2, <1>4, <2>2
  <2>4. carried[1] = C!Half(2 * n - 2) /\ carried[2] = C!Half(2 * n - 1)
    BY <2>2
  <2>5. line' = Append(line, Character(l + 1))
    BY <2>1, <2>3, <2>4 DEF Character
  <2>6. 3 * (l + 1) = 2 * (n + 1) - 1 /\ 2 * (n + 1) - 1 = 2 * n + 1
    BY <1>2, <1>4, <2>2
  <2>7. (n + 1) % 3 = 2
    BY <1>2, <1>7
  <2> QED
    BY <1>3, <1>5, <2>1, <2>5, <2>6, <2>7 DEF CellInv
<1>8. CASE n % 3 = 2
  <2>7. C!Phase(byteAt) # 0 /\ C!Phase(byteAt) # 1
    BY <1>2, <1>8
  <2>8. line' = Append(line, <<carried[1], C!Low(byteAt), C!High(byteAt)>>)
    BY <2>7, Zenon DEF C!CellNext
  <2>1. line' = Append(line, <<carried[1], C!Half(2 * n), C!Half(2 * n + 1)>>)
    BY <1>2, <2>8, Zenon
  <2>2. 3 * l = 2 * n - 1 /\ carried = <<C!Half(2 * n - 1)>>
    BY <1>4, <1>8
  <2>3. 3 * (l + 1) - 3 = 2 * n - 1 /\ 3 * (l + 1) - 2 = 2 * n /\ 3 * (l + 1) - 1 = 2 * n + 1
    BY <1>2, <1>4, <2>2
  <2>4. carried[1] = C!Half(2 * n - 1)
    BY <2>2
  <2>5. line' = Append(line, Character(l + 1))
    BY <2>1, <2>3, <2>4 DEF Character
  <2>6. 3 * (l + 1) = 2 * (n + 1)
    BY <1>2, <1>4, <2>2
  <2>9. (n + 1) % 3 = 0
    BY <1>2, <1>8
  <2> QED
    BY <1>3, <1>5, <2>5, <2>6, <2>9 DEF CellInv
<1> QED
  BY <1>2, <1>6, <1>7, <1>8

\* video.c, text.c: wherever the two parts of a row's page lie, every character is put together
\* from its own three half bytes, across the gap too, and there are the 132 of a row.
THEOREM CharactersAreWhole == Spec => [](part = "cells" => C!CellsInPlace)
<1>1. Init => CellInv
  BY CellsBegin, Zenon DEF Init
<1>2. CellInv /\ [Next]_vars => CellInv'
  <2> SUFFICES ASSUME CellInv, [Next]_vars PROVE CellInv'
    OBVIOUS
  <2>1. C!CellNext \/ UNCHANGED cellVars
    BY Zenon DEF Next, vars
  <2>2. ASSUME UNCHANGED cellVars PROVE CellInv'
    BY <2>2 DEF cellVars, CellInv, BytesRead
  <2> QED
    BY <2>1, <2>2, CellSteps, Zenon
<1>3. CellInv => C!CellsInPlace
  <2> SUFFICES ASSUME CellInv PROVE C!CellsInPlace
    OBVIOUS
  <2>1. \A k \in 1..Len(line) : line[k] = <<C!Half(3 * k - 3), C!Half(3 * k - 2), C!Half(3 * k - 1)>>
    BY DEF CellInv, Character
  <2>2. ASSUME byteAt = SecondEnd PROVE Len(line) >= 132
    <3>1. BytesRead = FirstEnd + SecondEnd - SecondStart /\ BytesRead \in Nat
      BY <2>2, PageAssumption DEF BytesRead
    <3>2. 3 * Len(line) >= 2 * BytesRead - 2 /\ Len(line) \in Nat
      BY <3>1 DEF CellInv
    <3> QED
      BY <3>1, <3>2, PageAssumption
  <2> QED
    BY <2>1, <2>2 DEF C!CellsInPlace
<1> QED
  BY <1>1, <1>2, <1>3, PTL DEF Spec

(***************************************************************************)
(* A function defined by its first value and a step from each value to the *)
(* next exists; steps are given by a function, too.                        *)
(***************************************************************************)
Iterates(f, a, step, n) == f[0] = a /\ \A i \in 1..n : f[i] = step[<<f[i - 1], i>>]

LEMMA IterationExists ==
  ASSUME NEW V, NEW a \in V, NEW step \in [V \X Nat -> V], NEW n \in Nat
  PROVE  \E f \in [0..n -> V] : Iterates(f, a, step, n)
<1> DEFINE S == {k \in Nat : \E f \in [0..k -> V] : Iterates(f, a, step, k)}
<1>1. 0 \in S
  <2> DEFINE f == [i \in 0..0 |-> a]
  <2>1. f \in [0..0 -> V] /\ f[0] = a /\ 1..0 = {}
    OBVIOUS
  <2> HIDE DEF f
  <2> QED
    BY <2>1 DEF Iterates
<1>2. ASSUME NEW k \in Nat, k \in S PROVE k + 1 \in S
  <2>1. PICK f \in [0..k -> V] : Iterates(f, a, step, k)
    BY <1>2
  <2> DEFINE m == k + 1
             g == [i \in 0..m |-> IF i = m THEN step[<<f[k], m>>] ELSE f[i]]
  <2>2. m \in Nat /\ step[<<f[k], m>>] \in V
    OBVIOUS
  <2>3. g \in [0..m -> V] /\ g[m] = step[<<f[k], m>>] /\ \A i \in 0..k : g[i] = f[i]
    BY <2>2
  <2> HIDE DEF g
  <2>4. ASSUME NEW i \in 1..m PROVE g[i] = step[<<g[i - 1], i>>]
    <3>1. CASE i = m
      <4>1. i - 1 = k /\ k \in 0..k
        BY <3>1
      <4> QED
        BY <2>3, <3>1, <4>1
    <3>2. CASE i # m
      <4>1. i \in 1..k /\ i \in 0..k /\ i - 1 \in 0..k
        BY <3>2
      <4> QED
        BY <2>1, <2>3, <4>1 DEF Iterates
    <3> QED
      BY <3>1, <3>2
  <2>5. g[0] = a
    <3>1. 0 \in 0..k
      OBVIOUS
    <3> QED
      BY <2>1, <2>3, <3>1 DEF Iterates
  <2>6. Iterates(g, a, step, m)
    BY <2>4, <2>5, Zenon DEF Iterates
  <2> HIDE DEF m
  <2>7. m \in S
    BY <2>2, <2>3, <2>6
  <2> QED
    BY <2>7 DEF m
<1> HIDE DEF S
<1>3. n \in S
  BY <1>1, <1>2, Induction
<1> QED
  BY <1>3 DEF S

(***************************************************************************)
(* Rows on top of each other: s[i] is the set of the lines of row i.       *)
(***************************************************************************)
Stack(s, n) == UNION {{<<i, y>> : y \in s[i]} : i \in 0..(n - 1)}

LEMMA InStack ==
  ASSUME NEW s, NEW n, NEW e PROVE e \in Stack(s, n) <=> \E i \in 0..(n - 1) : \E y \in s[i] : e = <<i, y>>
BY DEF Stack

\* Lines of row n laid under the first n rows come to those.
LEMMA StackedOn ==
  ASSUME NEW s, NEW n \in Nat, IsFiniteSet(Stack(s, n)), NEW t, IsFiniteSet(t)
  PROVE  LET u == Stack(s, n) \cup {<<n, y>> : y \in t}
         IN  IsFiniteSet(u) /\ Cardinality(u) = Cardinality(Stack(s, n)) + Cardinality(t)
<1> DEFINE r == {<<n, y>> : y \in t}
<1>1. r = {n} \X t
  OBVIOUS
<1>2. IsFiniteSet({n}) /\ Cardinality({n}) = 1
  BY FS_Singleton, Zenon
<1>3. Cardinality(t) \in Nat /\ Cardinality(Stack(s, n)) \in Nat
  BY FS_CardinalityType
<1>4. IsFiniteSet(r) /\ Cardinality(r) = Cardinality(t)
  <2>1. IsFiniteSet({n} \X t) /\ Cardinality({n} \X t) = Cardinality({n}) * Cardinality(t)
    BY <1>2, FS_Product, Zenon
  <2>2. 1 * Cardinality(t) = Cardinality(t)
    BY <1>3
  <2> HIDE DEF r
  <2> QED
    BY <1>1, <1>2, <2>1, <2>2, Zenon
<1>5. Stack(s, n) \cap r = {}
  <2> SUFFICES ASSUME NEW e, e \in Stack(s, n), e \in r PROVE FALSE
    BY Zenon
  <2>1. PICK i \in 0..(n - 1) : \E y \in s[i] : e = <<i, y>>
    BY InStack
  <2>2. PICK z \in t : e = <<n, z>>
    OBVIOUS
  <2> QED
    BY <2>1, <2>2
<1> HIDE DEF r
<1>6. /\ IsFiniteSet(Stack(s, n) \cup r)
      /\ Cardinality(Stack(s, n) \cup r)
           = Cardinality(Stack(s, n)) + Cardinality(r) - Cardinality(Stack(s, n) \cap r)
  BY <1>4, FS_Union, Zenon
<1>7. Cardinality(Stack(s, n) \cap r) = 0
  BY <1>5, FS_EmptySet
<1> QED
  BY <1>3, <1>4, <1>6, <1>7 DEF r

LEMMA StackNext ==
  ASSUME NEW s, NEW n \in Nat
  PROVE  Stack(s, n + 1) = Stack(s, n) \cup {<<n, y>> : y \in s[n]}
<1> DEFINE lines(i) == {<<i, y>> : y \in s[i]}
<1>1. 0..(n + 1 - 1) = (0..(n - 1)) \cup {n}
  OBVIOUS
<1>2. UNION {lines(i) : i \in (0..(n - 1)) \cup {n}} = (UNION {lines(i) : i \in 0..(n - 1)}) \cup lines(n)
  OBVIOUS
<1> QED
  BY <1>1, <1>2 DEF Stack

LEMMA StackIsFinite ==
  ASSUME NEW s, \A i \in Nat : IsFiniteSet(s[i]), NEW n \in Nat
  PROVE  IsFiniteSet(Stack(s, n)) /\ Cardinality(Stack(s, n)) \in Nat
<1> DEFINE W == {k \in Nat : IsFiniteSet(Stack(s, k))}
<1>1. 0 \in W
  <2>1. Stack(s, 0) = {}
    BY DEF Stack
  <2> QED
    BY <2>1, FS_EmptySet
<1>2. ASSUME NEW k \in Nat, k \in W PROVE k + 1 \in W
  <2>1. IsFiniteSet(Stack(s, k)) /\ IsFiniteSet(s[k])
    BY <1>2
  <2>2. IsFiniteSet(Stack(s, k) \cup {<<k, y>> : y \in s[k]})
    BY <2>1, StackedOn, Zenon
  <2>3. IsFiniteSet(Stack(s, k + 1))
    BY <2>2, StackNext, Zenon
  <2> QED
    BY <2>3
<1> HIDE DEF W
<1>3. n \in W
  BY <1>1, <1>2, Induction
<1> QED
  BY <1>3, FS_CardinalityType DEF W

LEMMA StackGrows ==
  ASSUME NEW s, \A i \in Nat : IsFiniteSet(s[i]), NEW n \in Nat
  PROVE  Cardinality(Stack(s, n + 1)) = Cardinality(Stack(s, n)) + Cardinality(s[n])
<1>1. IsFiniteSet(Stack(s, n)) /\ IsFiniteSet(s[n])
  BY StackIsFinite
<1>2. Cardinality(Stack(s, n) \cup {<<n, y>> : y \in s[n]}) = Cardinality(Stack(s, n)) + Cardinality(s[n])
  BY <1>1, StackedOn, Zenon
<1> QED
  BY <1>2, StackNext, Zenon

LEMMA StackEmpty == \A s : Stack(s, 0) = {} /\ Cardinality(Stack(s, 0)) = 0
<1>1. \A s : Stack(s, 0) = {}
  BY DEF Stack
<1> QED
  BY <1>1, FS_EmptySet

(***************************************************************************)
(* The rows of the frame (FrameLayout): how many of them fill the screen.  *)
(***************************************************************************)
FrameTypes ==
  /\ IsFiniteSet(swapAt) /\ swapAt \subseteq Int /\ height1 \in Heights /\ height2 \in Heights /\ onSecond \in BOOLEAN
  /\ scroll.first \in Nat /\ scroll.last \in Nat /\ scroll.by \in Nat
  /\ scroll.by # 0 => /\ scroll.first < scroll.last /\ scroll.last <= F!TextRows
                      /\ scroll.by <= F!CountedHeight(scroll.first)
  /\ rows = F!RowCount

LEMMA HeightsAre ==
  ASSUME FrameTypes
  PROVE  /\ height1 \in Nat \ {0} /\ height2 \in Nat \ {0}
         /\ MaxRows * height1 >= Lines /\ MaxRows * height2 >= Lines
         /\ \A i : F!CountedHeight(i) \in {height1, height2} /\ F!CountedHeight(i) \in Nat \ {0}
<1>1. /\ height1 \in Nat \ {0} /\ height2 \in Nat \ {0}
      /\ MaxRows * height1 >= Lines /\ MaxRows * height2 >= Lines
  BY FrameAssumption, Zenon DEF FrameTypes
<1> QED
  BY <1>1 DEF F!CountedHeight

\* What is left of the screen below i rows.
LeftOver(f) ==
  f = [i \in 0..MaxRows |->
         IF i = 0 THEN Lines
         ELSE IF f[i - 1] > F!CountedHeight(i - 1) THEN f[i - 1] - F!CountedHeight(i - 1) ELSE 0]
LeftOverAt(f) ==
  \A i \in 0..MaxRows :
    f[i] = IF i = 0 THEN Lines
           ELSE IF f[i - 1] > F!CountedHeight(i - 1) THEN f[i - 1] - F!CountedHeight(i - 1) ELSE 0

LEMMA RemainingIs == ASSUME FrameTypes PROVE LeftOverAt(F!Remaining)
<1>1. MaxRows \in Nat /\ Lines \in Nat /\ \A i : F!CountedHeight(i) \in Nat
  BY HeightsAre, FrameAssumption
<1> DEFINE step == [p \in Nat \X Nat |-> IF p[1] > F!CountedHeight(p[2] - 1)
                                         THEN p[1] - F!CountedHeight(p[2] - 1) ELSE 0]
<1>2. step \in [Nat \X Nat -> Nat]
  BY <1>1
<1>3. \A m \in Nat, i \in Nat : step[<<m, i>>] = IF m > F!CountedHeight(i - 1)
                                                 THEN m - F!CountedHeight(i - 1) ELSE 0
  OBVIOUS
<1> HIDE DEF step
<1>4. PICK f \in [0..MaxRows -> Nat] : Iterates(f, Lines, step, MaxRows)
  BY <1>1, <1>2, IterationExists, Zenon
<1>5. ASSUME NEW i \in 0..MaxRows
      PROVE  f[i] = IF i = 0 THEN Lines
                    ELSE IF f[i - 1] > F!CountedHeight(i - 1) THEN f[i - 1] - F!CountedHeight(i - 1) ELSE 0
  <2>1. CASE i = 0
    BY <1>4, <2>1 DEF Iterates
  <2>2. CASE i # 0
    <3>1. i \in 1..MaxRows /\ i \in Nat /\ f[i - 1] \in Nat
      BY <1>1, <1>4, <2>2
    <3>2. f[i] = step[<<f[i - 1], i>>]
      BY <1>4, <3>1, Zenon DEF Iterates
    <3> QED
      BY <1>3, <2>2, <3>1, <3>2
  <2> QED
    BY <2>1, <2>2
<1>6. f = [i \in 0..MaxRows |-> f[i]]
  BY <1>4
<1>7. LeftOver(f)
  BY <1>5, <1>6, Zenon DEF LeftOver
<1> DEFINE Chosen == CHOOSE g : LeftOver(g)
<1>8. F!Remaining = Chosen
  BY DEF F!Remaining, LeftOver
<1>9. LeftOver(Chosen)
  BY <1>7, Zenon
<1> HIDE DEF Chosen
<1> QED
  BY <1>8, <1>9, Zenon DEF LeftOver, LeftOverAt

\* Step by step.
LEMMA RowsAreCounted ==
  ASSUME FrameTypes
  PROVE  /\ F!Remaining[0] = Lines
         /\ \A i \in Nat : i < MaxRows =>
              F!Remaining[i + 1] = IF F!Remaining[i] > F!CountedHeight(i)
                                   THEN F!Remaining[i] - F!CountedHeight(i) ELSE 0
         /\ \A i \in Nat : i <= MaxRows => F!Remaining[i] \in Nat
<1> DEFINE r == F!Remaining
<1>1. MaxRows \in Nat /\ Lines \in Nat /\ \A i : F!CountedHeight(i) \in Nat
  BY HeightsAre, FrameAssumption
<1>2. LeftOverAt(r)
  BY RemainingIs
<1> HIDE DEF r
<1>3. r[0] = Lines
  BY <1>1, <1>2 DEF LeftOverAt
<1>4. ASSUME NEW i \in Nat, i < MaxRows
      PROVE  r[i + 1] = IF r[i] > F!CountedHeight(i) THEN r[i] - F!CountedHeight(i) ELSE 0
  <2> DEFINE j == i + 1
  <2>1. j \in 0..MaxRows /\ j # 0 /\ j - 1 = i
    BY <1>1, <1>4
  <2> HIDE DEF j
  <2>2. r[j] = IF r[j - 1] > F!CountedHeight(j - 1) THEN r[j - 1] - F!CountedHeight(j - 1) ELSE 0
    BY <1>2, <2>1, Zenon DEF LeftOverAt
  <2> QED
    BY <2>1, <2>2 DEF j
<1> DEFINE W == {i \in Nat : i <= MaxRows => r[i] \in Nat}
<1>5. 0 \in W
  BY <1>1, <1>3
<1>6. ASSUME NEW i \in Nat, i \in W PROVE i + 1 \in W
  BY <1>1, <1>4, <1>6
<1> HIDE DEF W
<1>7. \A i \in Nat : i \in W
  BY <1>5, <1>6, Induction
<1> QED
  BY <1>3, <1>4, <1>7 DEF W, r

\* The table is long enough, so that the counting comes to an end.
LEMMA TextRowsAre ==
  ASSUME FrameTypes
  PROVE  F!TextRows \in 1..MaxRows /\ F!Remaining[F!TextRows] = 0
<1> DEFINE r == F!Remaining
           h == IF height1 <= height2 THEN height1 ELSE height2
<1>1. /\ MaxRows \in Nat /\ Lines \in Nat \ {0} /\ h \in Nat \ {0} /\ MaxRows * h >= Lines
      /\ \A i : F!CountedHeight(i) \in Nat /\ F!CountedHeight(i) >= h
  BY HeightsAre, FrameAssumption
<1>2. /\ r[0] = Lines /\ \A i \in Nat : i <= MaxRows => r[i] \in Nat
      /\ \A i \in Nat : i < MaxRows =>
           r[i + 1] = IF r[i] > F!CountedHeight(i) THEN r[i] - F!CountedHeight(i) ELSE 0
  BY RowsAreCounted, Zenon
<1> HIDE DEF r, h
<1> DEFINE W == {i \in Nat : i <= MaxRows => r[i] = 0 \/ r[i] + i * h <= Lines}
<1>3. 0 \in W
  BY <1>1, <1>2
<1>4. ASSUME NEW i \in Nat, i \in W PROVE i + 1 \in W
  <2> SUFFICES ASSUME i + 1 <= MaxRows, r[i + 1] # 0 PROVE r[i + 1] + (i + 1) * h <= Lines
    OBVIOUS
  <2>1. i < MaxRows /\ i <= MaxRows /\ r[i] \in Nat
    BY <1>1, <1>2
  <2>2. r[i] > F!CountedHeight(i) /\ r[i + 1] = r[i] - F!CountedHeight(i)
    BY <1>1, <1>2, <2>1
  <2>3. r[i] + i * h <= Lines
    BY <1>1, <1>4, <2>1, <2>2
  <2>4. (i + 1) * h = i * h + h /\ i * h \in Nat
    BY <1>1
  <2>5. F!CountedHeight(i) \in Nat /\ F!CountedHeight(i) >= h
    BY <1>1, Zenon
  <2> QED
    BY <1>1, <2>1, <2>2, <2>3, <2>4, <2>5
<1> HIDE DEF W
<1>5. MaxRows \in W
  BY <1>1, <1>3, <1>4, Induction
<1>6. r[MaxRows] = 0
  <2>1. r[MaxRows] \in Nat /\ MaxRows * h \in Nat
    BY <1>1, <1>2
  <2>2. r[MaxRows] = 0 \/ r[MaxRows] + MaxRows * h <= Lines
    BY <1>1, <1>5 DEF W
  <2> QED
    BY <1>1, <2>1, <2>2
<1>7. \E i \in 1..MaxRows : r[i] = 0 /\ r[i - 1] # 0
  <2> SUFFICES ASSUME \A i \in 1..MaxRows : r[i] = 0 => r[i - 1] = 0 PROVE FALSE
    OBVIOUS
  <2> DEFINE Z == {i \in Nat : i <= MaxRows => r[i] # 0}
  <2>1. 0 \in Z
    BY <1>1, <1>2
  <2>2. ASSUME NEW i \in Nat, i \in Z PROVE i + 1 \in Z
    <3> DEFINE j == i + 1
    <3>1. j <= MaxRows => j \in 1..MaxRows /\ j - 1 = i /\ r[i] # 0
      BY <1>1, <2>2
    <3> HIDE DEF j
    <3>2. j <= MaxRows => r[j] # 0
      BY <3>1
    <3> QED
      BY <3>2 DEF j
  <2> HIDE DEF Z
  <2>3. MaxRows \in Z
    BY <1>1, <2>1, <2>2, Induction
  <2> QED
    BY <1>1, <1>6, <2>3 DEF Z
<1>8. F!TextRows \in 1..MaxRows /\ r[F!TextRows] = 0 /\ r[F!TextRows - 1] # 0
  BY <1>7, Zenon DEF F!TextRows, r
<1> QED
  BY <1>8, Zenon DEF r

\* The lines of a row, and those of them that are shown: all but what scrolled out at the top
\* of the region, and what has not come in at its bottom.
Full == [i \in Nat |-> 0..(F!CountedHeight(i) - 1)]
ShownOf == [i \in Nat |-> F!ShownLines(i)]
From(i) == IF scroll.by # 0 /\ i = scroll.first THEN scroll.by ELSE 0
To(i) == IF rowKind[i] = "invalid" THEN From(i)
         ELSE IF scroll.by # 0 /\ i = scroll.last THEN scroll.by ELSE F!CountedHeight(i)

LEMMA ScreenIsFull ==
  ASSUME FrameTypes
  PROVE  /\ \A i \in Nat : IsFiniteSet(Full[i]) /\ Cardinality(Full[i]) = F!CountedHeight(i)
         /\ Cardinality(Stack(Full, F!TextRows)) >= Lines
<1> DEFINE r == F!Remaining
           reach(i) == Cardinality(Stack(Full, i))
<1>1. MaxRows \in Nat /\ Lines \in Nat \ {0} /\ \A i : F!CountedHeight(i) \in Nat
  BY HeightsAre, FrameAssumption
<1>2. ASSUME NEW i \in Nat PROVE IsFiniteSet(Full[i]) /\ Cardinality(Full[i]) = F!CountedHeight(i)
  <2>1. Full[i] = 0..(F!CountedHeight(i) - 1) /\ F!CountedHeight(i) \in Nat
    BY <1>1 DEF Full
  <2> DEFINE c == F!CountedHeight(i)
  <2> HIDE DEF c
  <2>2. c \in Nat => IsFiniteSet(0..(c - 1)) /\ Cardinality(0..(c - 1)) = c
    BY FS_Interval
  <2> QED
    BY <2>1, <2>2 DEF c
<1>3. /\ r[0] = Lines /\ \A i \in Nat : i <= MaxRows => r[i] \in Nat
      /\ \A i \in Nat : i < MaxRows =>
           r[i + 1] = IF r[i] > F!CountedHeight(i) THEN r[i] - F!CountedHeight(i) ELSE 0
  BY RowsAreCounted, Zenon
<1>4. F!TextRows \in 1..MaxRows /\ r[F!TextRows] = 0
  BY TextRowsAre
<1>5. reach(0) = 0 /\ \A i \in Nat : reach(i) \in Nat /\ reach(i + 1) = reach(i) + F!CountedHeight(i)
  <2>1. \A i \in Nat : IsFiniteSet(Full[i])
    BY <1>2
  <2>2. \A i \in Nat : reach(i) \in Nat /\ reach(i + 1) = reach(i) + Cardinality(Full[i])
    BY <2>1, StackIsFinite, StackGrows, Zenon
  <2> QED
    BY <1>2, <2>2, StackEmpty, Zenon
<1> HIDE DEF r, reach
<1> DEFINE W == {i \in Nat : i <= MaxRows => r[i] + reach(i) >= Lines}
<1>6. 0 \in W
  BY <1>1, <1>3, <1>5
<1>7. ASSUME NEW i \in Nat, i \in W PROVE i + 1 \in W
  BY <1>1, <1>3, <1>5, <1>7
<1> HIDE DEF W
<1>8. F!TextRows \in W
  BY <1>1, <1>4, <1>6, <1>7, Induction
<1>9. reach(F!TextRows) >= Lines
  BY <1>1, <1>4, <1>5, <1>8 DEF W
<1> QED
  BY <1>2, <1>9 DEF reach

\* Over the region that scrolls the rows are equally high, if the counting follows the drawing.
LEMMA RegionIsEven ==
  ASSUME FrameTypes, F!Followed, scroll.by # 0
  PROVE  \A i \in scroll.first..rows : F!CountedHeight(i) = F!CountedHeight(rows)
<1>1. CASE height1 = height2
  BY <1>1 DEF F!CountedHeight
<1>2. CASE height1 # height2
  BY <1>2 DEF F!Followed
<1> QED
  BY <1>1, <1>2

LEMMA RowsCounted ==
  ASSUME FrameTypes
  PROVE  /\ F!TextRows \in Nat \ {0} /\ rows \in Nat
         /\ rows = F!TextRows + 1 + (IF scroll.by # 0 THEN 1 ELSE 0)
BY TextRowsAre, FrameAssumption DEF FrameTypes, F!RowCount

LEMMA ShownAre ==
  ASSUME FrameTypes, F!Followed, NEW i \in Nat
  PROVE  /\ From(i) \in Nat /\ To(i) \in Nat /\ From(i) <= To(i) /\ To(i) <= F!CountedHeight(i)
         /\ F!ShownLines(i) = From(i)..(To(i) - 1)
         /\ IsFiniteSet(F!ShownLines(i)) /\ Cardinality(F!ShownLines(i)) = To(i) - From(i)
<1>1. F!CountedHeight(i) \in Nat /\ F!CountedHeight(scroll.first) \in Nat
  BY HeightsAre
<1>2. /\ scroll.first \in Nat /\ scroll.last \in Nat /\ scroll.by \in Nat
      /\ scroll.by # 0 => /\ scroll.first < scroll.last /\ scroll.last <= F!TextRows
                          /\ scroll.by <= F!CountedHeight(scroll.first)
  BY DEF FrameTypes
<1>3. /\ F!TextRows \in Nat /\ rows \in Nat
      /\ rows = F!TextRows + 1 + (IF scroll.by # 0 THEN 1 ELSE 0)
  BY RowsCounted
<1>4. scroll.by # 0 /\ i = scroll.last => scroll.by <= F!CountedHeight(i)
  <2> SUFFICES ASSUME scroll.by # 0, i = scroll.last PROVE scroll.by <= F!CountedHeight(i)
    OBVIOUS
  <2>1. scroll.first \in scroll.first..rows /\ scroll.last \in scroll.first..rows
    BY <1>2, <1>3
  <2>2. F!CountedHeight(scroll.first) = F!CountedHeight(scroll.last)
    BY <2>1, RegionIsEven
  <2> QED
    BY <1>2, <2>2
<1>5. From(i) \in Nat /\ To(i) \in Nat /\ From(i) <= To(i) /\ To(i) <= F!CountedHeight(i)
  BY <1>1, <1>2, <1>4 DEF From, To
<1>6. F!ShownLines(i) = From(i)..(To(i) - 1)
  <2>1. CASE rowKind[i] = "invalid"
    <3>1. F!ShownLines(i) = {} /\ To(i) = From(i)
      BY <2>1 DEF To, F!ShownLines
    <3>2. From(i)..(From(i) - 1) = {}
      BY <1>5
    <3> QED
      BY <3>1, <3>2
  <2>2. CASE rowKind[i] # "invalid"
    BY <1>1, <1>2, <1>4, <2>2 DEF From, To, F!ShownLines
  <2> QED
    BY <2>1, <2>2
<1>7. ASSUME NEW a \in Nat, NEW b \in Nat, a <= b
      PROVE  IsFiniteSet(a..(b - 1)) /\ Cardinality(a..(b - 1)) = b - a
  <2>1. b - 1 \in Int /\ a \in Int
    OBVIOUS
  <2>2. /\ IsFiniteSet(a..(b - 1))
        /\ Cardinality(a..(b - 1)) = IF a > b - 1 THEN 0 ELSE (b - 1) - a + 1
    BY <2>1, FS_Interval, Zenon
  <2> QED
    BY <1>7, <2>2
<1> QED
  BY <1>5, <1>6, <1>7

LEMMA ShownIsStack ==
  /\ \A n \in Nat : F!Shown(n) = Stack(ShownOf, n)
  /\ \A i \in Nat : ShownOf[i] = F!ShownLines(i)
<1>1. \A i \in Nat : ShownOf[i] = F!ShownLines(i)
  BY DEF ShownOf
<1>2. ASSUME NEW n \in Nat PROVE F!Shown(n) = Stack(ShownOf, n)
  <2>1. \A i \in 0..(n - 1) : ShownOf[i] = F!ShownLines(i)
    BY <1>1
  <2> QED
    BY <2>1 DEF F!Shown, Stack
<1> QED
  BY <1>1, <1>2

\* The rows shown, one under the other.
LEMMA ShownGrows ==
  ASSUME FrameTypes, F!Followed
  PROVE  /\ F!Shown(0) = {} /\ Cardinality(F!Shown(0)) = 0
         /\ \A n \in Nat : /\ IsFiniteSet(F!Shown(n)) /\ Cardinality(F!Shown(n)) \in Nat
                           /\ Cardinality(F!Shown(n + 1)) = Cardinality(F!Shown(n)) + (To(n) - From(n))
<1>1. \A i \in Nat : IsFiniteSet(ShownOf[i]) /\ Cardinality(ShownOf[i]) = To(i) - From(i)
  BY ShownIsStack, ShownAre
<1>2. ASSUME NEW n \in Nat
      PROVE  /\ IsFiniteSet(Stack(ShownOf, n)) /\ Cardinality(Stack(ShownOf, n)) \in Nat
             /\ Cardinality(Stack(ShownOf, n + 1)) = Cardinality(Stack(ShownOf, n)) + (To(n) - From(n))
  <2>1. Cardinality(Stack(ShownOf, n + 1)) = Cardinality(Stack(ShownOf, n)) + Cardinality(ShownOf[n])
    BY <1>1, StackGrows, Zenon
  <2> QED
    BY <1>1, <2>1, StackIsFinite, Zenon
<1>3. \A n \in Nat : n + 1 \in Nat
  OBVIOUS
<1>4. 0 \in Nat
  OBVIOUS
<1> QED
  BY <1>2, <1>3, <1>4, ShownIsStack, StackEmpty, Zenon

\* The text rows shown fill the screen, if none is skipped: the row that is counted more while it
\* scrolls makes up for what is cut off at the region's ends.
LEMMA EnoughShown ==
  ASSUME FrameTypes, F!Followed, \A i \in 0..(rows - 2) : rowKind[i] # "invalid"
  PROVE  Cardinality(F!Shown(rows - 1)) >= Lines
<1> DEFINE all(n) == Cardinality(Stack(Full, n))
           shown(n) == Cardinality(F!Shown(n))
           off(n) == (IF scroll.by # 0 /\ scroll.first < n THEN scroll.by ELSE 0)
                     + (IF scroll.by # 0 /\ scroll.last < n
                        THEN F!CountedHeight(scroll.last) - scroll.by ELSE 0)
<1>1. /\ all(0) = 0
      /\ \A n \in Nat : all(n) \in Nat /\ all(n + 1) = all(n) + F!CountedHeight(n)
      /\ all(F!TextRows) >= Lines
  <2>1. \A i \in Nat : IsFiniteSet(Full[i]) /\ Cardinality(Full[i]) = F!CountedHeight(i)
    BY ScreenIsFull
  <2>2. \A n \in Nat : /\ Cardinality(Stack(Full, n)) \in Nat
                       /\ Cardinality(Stack(Full, n + 1)) = Cardinality(Stack(Full, n)) + Cardinality(Full[n])
    BY <2>1, StackIsFinite, StackGrows, Zenon
  <2> QED
    BY <2>1, <2>2, StackEmpty, ScreenIsFull, Zenon
<1>2. /\ shown(0) = 0
      /\ \A n \in Nat : shown(n) \in Nat /\ shown(n + 1) = shown(n) + (To(n) - From(n))
  BY ShownGrows, Zenon
<1>3. /\ scroll.first \in Nat /\ scroll.last \in Nat /\ scroll.by \in Nat
      /\ scroll.by # 0 => scroll.first < scroll.last /\ scroll.last <= F!TextRows
  BY DEF FrameTypes
<1>4. \A i : F!CountedHeight(i) \in Nat
  BY HeightsAre
<1>5. \A n \in Nat : off(n) \in Int
  BY <1>3, <1>4
<1>6. off(0) = 0 /\ \A n \in 0..(rows - 2) : off(n + 1) = off(n) + F!CountedHeight(n) - (To(n) - From(n))
  <2>1. off(0) = 0
    BY <1>3
  <2>2. ASSUME NEW n \in 0..(rows - 2) PROVE off(n + 1) = off(n) + F!CountedHeight(n) - (To(n) - From(n))
    <3>1. /\ F!CountedHeight(n) \in Nat /\ F!CountedHeight(scroll.last) \in Nat
          /\ n \in Nat /\ rowKind[n] # "invalid"
      BY <1>4
    <3>2. CASE scroll.by # 0 /\ n = scroll.first
      BY <1>3, <3>1, <3>2 DEF From, To
    <3>3. CASE scroll.by # 0 /\ n = scroll.last
      BY <1>3, <3>1, <3>3 DEF From, To
    <3>4. CASE ~(scroll.by # 0 /\ n = scroll.first) /\ ~(scroll.by # 0 /\ n = scroll.last)
      BY <1>3, <3>1, <3>4 DEF From, To
    <3> QED
      BY <3>2, <3>3, <3>4
  <2> QED
    BY <2>1, <2>2
<1>7. \A n \in Nat : From(n) \in Nat /\ To(n) \in Nat
  BY ShownAre
<1>8. F!TextRows \in Nat \ {0} /\ rows = F!TextRows + 1 + (IF scroll.by # 0 THEN 1 ELSE 0)
  BY RowsCounted
<1>9. scroll.by # 0 => F!CountedHeight(scroll.last) = F!CountedHeight(F!TextRows)
  <2> SUFFICES ASSUME scroll.by # 0
               PROVE  F!CountedHeight(scroll.last) = F!CountedHeight(F!TextRows)
    OBVIOUS
  <2>1. scroll.last \in scroll.first..rows /\ F!TextRows \in scroll.first..rows
    BY <1>3, <1>8
  <2> QED
    BY <2>1, RegionIsEven, Zenon
<1>10. scroll.by = 0 => off(F!TextRows) = 0
  BY <1>3
<1>11. scroll.by # 0 => off(F!TextRows + 1) = F!CountedHeight(F!TextRows)
  BY <1>3, <1>4, <1>8, <1>9
<1> HIDE DEF all, shown, off
<1> DEFINE W == {n \in Nat : n <= rows - 1 => shown(n) = all(n) - off(n)}
<1>12. 0 \in W
  BY <1>1, <1>2, <1>6
<1>13. ASSUME NEW n \in Nat, n \in W PROVE n + 1 \in W
  <2> SUFFICES ASSUME n + 1 <= rows - 1 PROVE shown(n + 1) = all(n + 1) - off(n + 1)
    OBVIOUS
  <2>0. n \in 0..(rows - 2) /\ n <= rows - 1
    BY <1>8
  <2>1. /\ shown(n) = all(n) - off(n) /\ shown(n) \in Nat /\ all(n) \in Nat /\ off(n) \in Int
        /\ F!CountedHeight(n) \in Nat /\ From(n) \in Nat /\ To(n) \in Nat
    BY <1>1, <1>2, <1>4, <1>5, <1>7, <1>13, <2>0
  <2>2. /\ shown(n + 1) = shown(n) + (To(n) - From(n))
        /\ all(n + 1) = all(n) + F!CountedHeight(n)
        /\ off(n + 1) = off(n) + F!CountedHeight(n) - (To(n) - From(n))
    BY <1>1, <1>2, <1>6, <2>0
  <2> QED
    BY <2>1, <2>2
<1> HIDE DEF W
<1>14. \A n \in Nat : n \in W
  BY <1>12, <1>13, Induction
<1>15. \A n \in Nat : n <= rows - 1 => shown(n) = all(n) - off(n)
  BY <1>14 DEF W
<1>16. CASE scroll.by = 0
  <2>1. rows - 1 = F!TextRows /\ shown(F!TextRows) = all(F!TextRows)
    BY <1>1, <1>8, <1>10, <1>15, <1>16
  <2> QED
    BY <1>1, <2>1 DEF shown
<1>17. CASE scroll.by # 0
  <2>1. rows - 1 = F!TextRows + 1
    BY <1>8, <1>17
  <2>2. /\ shown(F!TextRows + 1) = all(F!TextRows + 1) - off(F!TextRows + 1)
        /\ all(F!TextRows + 1) = all(F!TextRows) + F!CountedHeight(F!TextRows)
    BY <1>1, <1>8, <1>15, <2>1
  <2>3. shown(F!TextRows + 1) = all(F!TextRows)
    BY <1>1, <1>4, <1>8, <1>11, <1>17, <2>2
  <2> QED
    BY <1>1, <2>1, <2>3, Zenon DEF shown
<1> QED
  BY <1>16, <1>17

\* The place of a line in the picture.
LEMMA LineIsAt ==
  ASSUME FrameTypes, F!Followed, NEW i \in Nat, NEW y \in F!ShownLines(i)
  PROVE  /\ y \in Nat /\ From(i) <= y /\ y < To(i)
         /\ Cardinality(F!Before(i, y)) = Cardinality(F!Shown(i)) + (y - From(i))
<1> DEFINE t == {z \in F!ShownLines(i) : z < y}
<1>1. From(i) \in Nat /\ To(i) \in Nat /\ F!ShownLines(i) = From(i)..(To(i) - 1)
  BY ShownAre
<1>2. y \in Nat /\ From(i) <= y /\ y < To(i)
  BY <1>1
<1>3. t = From(i)..(y - 1)
  BY <1>1, <1>2
<1>4. IsFiniteSet(t) /\ Cardinality(t) = y - From(i)
  <2>1. y - 1 \in Int /\ From(i) \in Int
    BY <1>1, <1>2
  <2>2. /\ IsFiniteSet(From(i)..(y - 1))
        /\ Cardinality(From(i)..(y - 1)) = IF From(i) > y - 1 THEN 0 ELSE (y - 1) - From(i) + 1
    BY <2>1, FS_Interval, Zenon
  <2>3. (IF From(i) > y - 1 THEN 0 ELSE (y - 1) - From(i) + 1) = y - From(i)
    BY <1>1, <1>2
  <2> HIDE DEF t
  <2> QED
    BY <1>3, <2>2, <2>3, Zenon
<1>5. F!Before(i, y) = F!Shown(i) \cup {<<i, z>> : z \in t}
  BY DEF F!Before
<1>6. F!Shown(i) = Stack(ShownOf, i) /\ IsFiniteSet(F!Shown(i))
  BY ShownIsStack, ShownGrows
<1> HIDE DEF t
<1>7. Cardinality(F!Shown(i) \cup {<<i, z>> : z \in t}) = Cardinality(F!Shown(i)) + Cardinality(t)
  <2>1. IsFiniteSet(Stack(ShownOf, i))
    BY <1>6, Zenon
  <2>2. Cardinality(Stack(ShownOf, i) \cup {<<i, z>> : z \in t})
          = Cardinality(Stack(ShownOf, i)) + Cardinality(t)
    BY <1>4, <2>1, StackedOn, Zenon
  <2> QED
    BY <1>6, <2>2, Zenon
<1> QED
  BY <1>2, <1>4, <1>5, <1>7

LEMMA ShownUpTo ==
  ASSUME FrameTypes, F!Followed, NEW i \in Nat, NEW n \in Nat, i < n
  PROVE  Cardinality(F!Shown(i + 1)) <= Cardinality(F!Shown(n))
<1>1. i + 1 \in Nat
  OBVIOUS
<1>2. F!Shown(i + 1) \subseteq F!Shown(n)
  <2> SUFFICES ASSUME NEW e \in F!Shown(i + 1) PROVE e \in F!Shown(n)
    BY Zenon
  <2>1. F!Shown(i + 1) = Stack(ShownOf, i + 1) /\ F!Shown(n) = Stack(ShownOf, n)
    BY <1>1, ShownIsStack, Zenon
  <2>2. e \in Stack(ShownOf, i + 1)
    BY <2>1
  <2>3. PICK j \in 0..(i + 1 - 1) : \E y \in ShownOf[j] : e = <<j, y>>
    BY <2>2, InStack
  <2>4. j \in 0..(n - 1)
    OBVIOUS
  <2>5. e \in Stack(ShownOf, n)
    BY <2>3, <2>4, InStack
  <2> QED
    BY <2>1, <2>5
<1>3. IsFiniteSet(F!Shown(n))
  BY ShownGrows
<1> QED
  BY <1>2, <1>3, FS_Subset, Zenon

\* What the drawing does not touch: the layout of the picture.
Layout == <<rowKind, swapAt, height1, height2, scroll>>
CountedTo(s, h1, h2) ==
  CHOOSE f : f = [i \in 0..MaxRows |->
    IF i = 0 THEN Lines
    ELSE IF f[i - 1] > (IF \E j \in s : j <= i - 1 THEN h2 ELSE h1)
    THEN f[i - 1] - (IF \E j \in s : j <= i - 1 THEN h2 ELSE h1) ELSE 0]

LEMMA LayoutStays ==
  ASSUME UNCHANGED Layout
  PROVE  /\ \A i : F!CountedHeight(i)' = F!CountedHeight(i)
         /\ \A i : F!ShownLines(i)' = F!ShownLines(i)
         /\ \A n : F!Shown(n)' = F!Shown(n)
         /\ \A i, y : F!Before(i, y)' = F!Before(i, y)
         /\ F!TextRows' = F!TextRows /\ F!RowCount' = F!RowCount
         /\ \A i, z, n : F!FontLine(i, z, n)' = F!FontLine(i, z, n)
         /\ \A i : F!Stretched(i)' <=> F!Stretched(i)
<1>1. swapAt' = swapAt /\ height1' = height1 /\ height2' = height2 /\ scroll' = scroll /\ rowKind' = rowKind
  BY DEF Layout
<1>2. \A i : F!CountedHeight(i)' = F!CountedHeight(i)
  BY <1>1 DEF F!CountedHeight
<1>3. \A i : F!ShownLines(i)' = F!ShownLines(i)
  BY <1>1, <1>2 DEF F!ShownLines
<1>4. \A n : F!Shown(n)' = F!Shown(n)
  BY <1>3 DEF F!Shown
<1>5. \A i, y : F!Before(i, y)' = F!Before(i, y)
  BY <1>3, <1>4 DEF F!Before
<1>6. F!Remaining = CountedTo(swapAt, height1, height2)
  BY Zenon DEF F!Remaining, CountedTo, F!CountedHeight
<1>7. F!Remaining' = CountedTo(swapAt', height1', height2')
  BY Zenon DEF F!Remaining, CountedTo, F!CountedHeight
<1>8. F!Remaining' = F!Remaining
  BY <1>1, <1>6, <1>7, Zenon
<1>9. F!TextRows' = F!TextRows
  BY <1>8 DEF F!TextRows
<1>10. F!RowCount' = F!RowCount
  BY <1>1, <1>9 DEF F!RowCount
<1>11. \A i, z, n : F!FontLine(i, z, n)' = F!FontLine(i, z, n)
  BY <1>1 DEF F!FontLine
<1>12. \A i : F!Stretched(i)' <=> F!Stretched(i)
  BY <1>1 DEF F!Stretched
<1> QED
  BY <1>2, <1>3, <1>4, <1>5, <1>9, <1>10, <1>11, <1>12

LEMMA TypesStay == ASSUME FrameTypes, UNCHANGED Layout, rows' = rows, onSecond' \in BOOLEAN PROVE FrameTypes'
<1>1. swapAt' = swapAt /\ height1' = height1 /\ height2' = height2 /\ scroll' = scroll
  BY DEF Layout
<1>2. /\ F!CountedHeight(scroll.first)' = F!CountedHeight(scroll.first)
      /\ F!TextRows' = F!TextRows /\ F!RowCount' = F!RowCount
  BY <1>1, LayoutStays DEF F!CountedHeight
<1> QED
  BY <1>1, <1>2 DEF FrameTypes

LEMMA SameCardinality == \A S : F!Cardinality(S) = Cardinality(S)
BY Zenon DEF F!Cardinality, Cardinality

LEMMA FollowedAre ==
  /\ F!Followed <=> \/ height1 = height2
                   \/ /\ Cardinality(swapAt) <= 1 /\ onSecond = (\E i \in swapAt : i < row)
                      /\ \A i \in swapAt : rowKind[i] # "invalid"
                      /\ scroll.by # 0 => \A i \in scroll.first..rows : F!CountedHeight(i) = F!CountedHeight(rows)
  /\ F!Followed' <=>
       \/ height1' = height2'
       \/ /\ Cardinality(swapAt') <= 1 /\ onSecond' = (\E i \in swapAt' : i < row')
          /\ \A i \in swapAt' : rowKind'[i] # "invalid"
          /\ scroll'.by # 0 => \A i \in scroll'.first..rows' : F!CountedHeight(i)' = F!CountedHeight(rows)'
<1>1. F!Cardinality(swapAt) = Cardinality(swapAt) /\ F!Cardinality(swapAt') = Cardinality(swapAt')
  BY SameCardinality, Zenon
<1> QED
  BY <1>1, Zenon DEF F!Followed

\* While the counting follows the drawing it has followed it, and the next row is as high as
\* it was counted.
LEMMA FollowedBefore ==
  ASSUME FrameTypes, UNCHANGED Layout, rows' = rows, row \in Nat, row' = row + 1,
         onSecond' = F!Swapped(onSecond, row), F!Followed'
  PROVE  F!Followed /\ F!RowHeight(onSecond') = F!CountedHeight(row)
<1>1. swapAt' = swapAt /\ height1' = height1 /\ height2' = height2 /\ scroll' = scroll /\ rowKind' = rowKind
  BY DEF Layout
<1>2. CASE height1 = height2
  BY <1>2 DEF F!Followed, F!RowHeight, F!CountedHeight
<1>3. CASE height1 # height2
  <2>1. /\ Cardinality(swapAt) <= 1 /\ onSecond' = (\E i \in swapAt : i < row + 1)
        /\ \A i \in swapAt : rowKind[i] # "invalid"
    BY <1>1, <1>3, FollowedAre, Zenon
  <2>2. scroll.by # 0 => \A i \in scroll.first..rows : F!CountedHeight(i) = F!CountedHeight(rows)
    <3>1. scroll'.by # 0 => \A i \in scroll'.first..rows' : F!CountedHeight(i)' = F!CountedHeight(rows)'
      BY <1>1, <1>3, FollowedAre, Zenon
    <3>2. F!CountedHeight(rows)' = F!CountedHeight(rows) /\ \A i : F!CountedHeight(i)' = F!CountedHeight(i)
      BY <1>1 DEF F!CountedHeight
    <3> QED
      BY <1>1, <3>1, <3>2
  <2>3. IsFiniteSet(swapAt) /\ swapAt \subseteq Int /\ onSecond \in BOOLEAN
    BY DEF FrameTypes
  <2>4. ASSUME NEW j \in swapAt, NEW k \in swapAt, j # k PROVE FALSE
    <3>1. IsFiniteSet(swapAt \ {j}) /\ Cardinality(swapAt \ {j}) = Cardinality(swapAt) - 1
      BY <2>3, FS_RemoveElement, Zenon
    <3>2. Cardinality(swapAt) \in Nat /\ Cardinality(swapAt \ {j}) \in Nat
      BY <2>3, <3>1, FS_CardinalityType
    <3>3. Cardinality(swapAt \ {j}) = 0
      BY <2>1, <3>1, <3>2
    <3>4. swapAt \ {j} = {}
      BY <3>1, <3>3, FS_EmptySet, Zenon
    <3> QED
      BY <2>4, <3>4
  <2>5. (\E i \in swapAt : i < row + 1) <=> (\E i \in swapAt : i <= row)
    BY <2>3
  <2>6. F!RowHeight(onSecond') = F!CountedHeight(row)
    BY <2>1, <2>5 DEF F!RowHeight, F!CountedHeight
  <2>7. onSecond = (\E i \in swapAt : i < row)
    <3>1. CASE row \in swapAt
      <4>1. ~ \E i \in swapAt : i < row
        BY <2>3, <2>4, <3>1
      <4>2. \E i \in swapAt : i < row + 1
        BY <3>1
      <4>3. onSecond' = TRUE
        BY <2>1, <4>2, Zenon
      <4>4. onSecond' = ~onSecond
        BY <3>1, Zenon DEF F!Swapped
      <4>5. onSecond = FALSE
        BY <2>3, <4>3, <4>4, Zenon
      <4> QED
        BY <4>1, <4>5, Zenon
    <3>2. CASE row \notin swapAt
      <4>1. (\E i \in swapAt : i < row + 1) <=> (\E i \in swapAt : i < row)
        BY <2>3, <3>2
      <4>2. onSecond' = onSecond
        BY <3>2, Zenon DEF F!Swapped
      <4> QED
        BY <2>1, <4>1, <4>2
    <3> QED
      BY <3>1, <3>2
  <2> QED
    BY <2>1, <2>2, <2>6, <2>7, FollowedAre, Zenon
<1> QED
  BY <1>2, <1>3

\* A row that is skipped switches nothing.
LEMMA FollowedSkipping ==
  ASSUME FrameTypes, UNCHANGED Layout, rows' = rows, row \in Nat, row' = row + 1,
         onSecond' = onSecond, rowKind[row] = "invalid", F!Followed'
  PROVE  F!Followed
<1>1. swapAt' = swapAt /\ height1' = height1 /\ height2' = height2 /\ scroll' = scroll /\ rowKind' = rowKind
  BY DEF Layout
<1>2. CASE height1 = height2
  BY <1>2 DEF F!Followed
<1>3. CASE height1 # height2
  <2>1. /\ Cardinality(swapAt) <= 1 /\ onSecond' = (\E i \in swapAt : i < row + 1)
        /\ \A i \in swapAt : rowKind[i] # "invalid"
        /\ scroll.by # 0 => \A i \in scroll.first..rows : F!CountedHeight(i)' = F!CountedHeight(rows)'
    BY <1>1, <1>3, FollowedAre, Zenon
  <2>2. F!CountedHeight(rows)' = F!CountedHeight(rows) /\ \A i : F!CountedHeight(i)' = F!CountedHeight(i)
    BY <1>1 DEF F!CountedHeight
  <2>3. (\E i \in swapAt : i < row + 1) <=> (\E i \in swapAt : i < row)
    <3>1. row \notin swapAt /\ swapAt \subseteq Int
      BY <2>1 DEF FrameTypes
    <3> QED
      BY <3>1
  <2>4. onSecond = (\E i \in swapAt : i < row)
    BY <2>1, <2>3
  <2>5. scroll.by # 0 => \A i \in scroll.first..rows : F!CountedHeight(i) = F!CountedHeight(rows)
    BY <2>1, <2>2
  <2> QED
    BY <2>1, <2>4, <2>5, FollowedAre, Zenon
<1> QED
  BY <1>2, <1>3

(***************************************************************************)
(* The frame as far as it is drawn.                                        *)
(***************************************************************************)
AsIs(i, y) == <<i, F!FontLine(i, y, F!CountedHeight(i))>>
InPlace(n) ==
  \A i \in Nat : i < n /\ i < rows - 1 =>
    \A y \in F!ShownLines(i) :
      Cardinality(F!Before(i, y)) < Lines /\ ~F!Stretched(i) => frame[Cardinality(F!Before(i, y))] = AsIs(i, y)

StatusInPlace ==
  rowKind[rows - 1] # "invalid" =>
    LET n == F!StatusHeight(F!RowHeight(onSecond))
    IN \A l \in 0..(n - 1) : frame[Lines + l] = <<rows - 1, F!FontLine(rows - 1, l, n)>>

Drawn ==
  /\ row \in Nat /\ row <= rows
  /\ F!Followed =>
       /\ row < rows => top \in Nat /\ high \in Nat /\ Cardinality(F!Shown(row)) = top + high
       /\ InPlace(row)
       /\ row = rows => StatusInPlace

FrameInv == FrameTypes /\ Drawn

LEMMA FrameBegins == F!FrameInit => FrameInv
<1> SUFFICES ASSUME F!FrameInit PROVE FrameInv
  OBVIOUS
<1>1. IsFiniteSet(swapAt) /\ swapAt \subseteq Int
  <2>1. \E a, b \in Int : swapAt \in {{}, {a}, {a, b}}
    <3>1. CASE swapAt = {1, 2}
      BY <3>1
    <3>2. CASE swapAt = {}
      BY <3>2
    <3>3. CASE \E i \in 0..(MaxRows - 1) : swapAt = {i}
      BY <3>3, FrameAssumption
    <3>4. swapAt = {1, 2} \/ swapAt = {} \/ \E i \in 0..(MaxRows - 1) : swapAt = {i}
      BY DEF F!FrameInit
    <3> QED
      BY <3>1, <3>2, <3>3, <3>4
  <2>2. PICK a, b \in Int : swapAt \in {{}, {a}, {a, b}}
    BY <2>1
  <2>3. IsFiniteSet({}) /\ IsFiniteSet({a}) /\ IsFiniteSet({a} \cup {b})
    BY FS_EmptySet, FS_Singleton, FS_Union, Zenon
  <2>4. {a} \cup {b} = {a, b}
    OBVIOUS
  <2> QED
    BY <2>2, <2>3, <2>4
<1>2. /\ scroll.first \in Nat /\ scroll.last \in Nat /\ scroll.by \in Nat
      /\ scroll.by # 0 => /\ scroll.first < scroll.last /\ scroll.last <= F!TextRows
                          /\ scroll.by <= F!CountedHeight(scroll.first)
  <2>1. CASE scroll = [first |-> 0, last |-> 0, by |-> 0]
    BY <2>1
  <2>2. CASE \E f, l \in 0..(MaxRows - 1), k \in 1..Lines :
               /\ f < l /\ l <= F!TextRows /\ k <= F!CountedHeight(f)
               /\ scroll = [first |-> f, last |-> l, by |-> k]
    BY <2>2, FrameAssumption
  <2> QED
    BY <2>1, <2>2 DEF F!FrameInit
<1>3. FrameTypes
  BY <1>1, <1>2, Zenon DEF F!FrameInit, FrameTypes
<1>4. row = 0 /\ top = 0 /\ high = 0 /\ rows \in Nat /\ rows > 0
  <2>1. rows \in Nat /\ rows > 0
    BY <1>3, RowsCounted
  <2> QED
    BY <2>1 DEF F!FrameInit
<1>5. InPlace(0)
  BY DEF InPlace
<1>6. F!Followed => Cardinality(F!Shown(0)) = 0
  BY <1>3, ShownGrows, Zenon
<1> QED
  BY <1>3, <1>4, <1>5, <1>6 DEF FrameInv, Drawn

\* A row is drawn below the others, from its first shown line to its last.
LEMMA DrawnOn ==
  ASSUME FrameTypes, F!Followed, row \in Nat, F!RowHeight(onSecond') = F!CountedHeight(row),
         F!DrawRow
  PROVE  /\ high' = To(row) - From(row) /\ top' = top + high
         /\ frame' = F!Painted(top + high, row, From(row), To(row) - From(row))
<1> DEFINE h == F!CountedHeight(row)
<1>1. /\ From(row) \in Nat /\ To(row) \in Nat /\ From(row) <= To(row) /\ To(row) <= h /\ h \in Nat
  BY ShownAre, HeightsAre
<1>2. /\ scroll.first \in Nat /\ scroll.last \in Nat /\ scroll.by \in Nat
      /\ scroll.by # 0 => scroll.first < scroll.last
  BY DEF FrameTypes
<1>3. /\ onSecond' = F!Swapped(onSecond, row) /\ top' = top + high
      /\ high' = F!Clipped(row, F!RowHeight(onSecond'))
      /\ frame' = F!Painted(top + high, row, F!StartRow(row, F!RowHeight(onSecond')),
                            F!Clipped(row, F!RowHeight(onSecond')))
  BY Zenon DEF F!DrawRow
<1>0. rowKind[row] # "invalid"
  BY Zenon DEF F!DrawRow
<1>4. F!StartRow(row, h) = From(row)
  BY <1>0, <1>1, <1>2 DEF F!StartRow, F!InRegion, From, To
<1>5. F!Clipped(row, h) = To(row) - From(row)
  BY <1>0, <1>1, <1>2 DEF F!Clipped, F!InRegion, From, To
<1> HIDE DEF h
<1>6. F!RowHeight(onSecond') = h
  BY DEF h
<1> QED
  BY <1>3, <1>4, <1>5, <1>6, Zenon

LEMMA FontLineWhole == \A i \in Nat, z \in Nat, n \in Nat : F!FontLine(i, z, n) \in Int
<1>1. \A z \in Nat : z \div 2 \in Int
  OBVIOUS
<1> QED
  BY <1>1 DEF F!FontLine

LEMMA PaintedAt ==
  ASSUME NEW a, NEW i, NEW s, NEW n, NEW l \in 0..(Lines + StatusLines - 1)
  PROVE  F!Painted(a, i, s, n)[l] = IF a <= l /\ l < a + n THEN <<i, F!FontLine(i, l - a, n) + s>> ELSE frame[l]
BY DEF F!Painted, F!FrameLines

\* The font's line on the z-th line of a row that starts with its s-th, of n.
LEMMA FontLineIs ==
  ASSUME FrameTypes, NEW i \in Nat, NEW y \in Nat, From(i) <= y,
         From(i) \in Nat, To(i) \in Nat, rowKind[i] # "invalid", ~F!Stretched(i)
  PROVE  F!FontLine(i, y - From(i), To(i) - From(i)) + From(i) = F!FontLine(i, y, F!CountedHeight(i))
<1>1. CASE rowKind[i] = "single"
  BY <1>1 DEF F!FontLine
<1>2. CASE rowKind[i] # "single"
  <2>1. ~(scroll.by # 0 /\ i = scroll.first) /\ ~(scroll.by # 0 /\ i = scroll.last)
    BY <1>2 DEF F!Stretched
  <2>2. From(i) = 0 /\ To(i) = F!CountedHeight(i)
    BY <2>1 DEF From, To
  <2> DEFINE h == F!CountedHeight(i)
  <2>3. h \in Nat /\ y - 0 = y /\ h - 0 = h
    BY HeightsAre
  <2> HIDE DEF h
  <2>4. F!FontLine(i, y, h) \in Int
    BY <2>3, FontLineWhole
  <2>5. F!FontLine(i, y - 0, h - 0) + 0 = F!FontLine(i, y, h)
    BY <2>3, <2>4
  <2> QED
    BY <2>2, <2>5 DEF h
<1> QED
  BY <1>1, <1>2

\* What lies in place in the next frame.
LEMMA InPlaceThen ==
  ASSUME UNCHANGED Layout,
         \A i \in Nat : i < row' /\ i < rows' - 1 =>
           \A y \in F!ShownLines(i) :
             Cardinality(F!Before(i, y)) < Lines /\ ~F!Stretched(i)
               => frame'[Cardinality(F!Before(i, y))] = AsIs(i, y)
  PROVE  InPlace(row)'
<1>1. /\ \A i : F!ShownLines(i)' = F!ShownLines(i) /\ F!CountedHeight(i)' = F!CountedHeight(i)
      /\ \A i, y : F!Before(i, y)' = F!Before(i, y)
      /\ \A i : F!Stretched(i)' <=> F!Stretched(i)
      /\ \A i, z, n : F!FontLine(i, z, n)' = F!FontLine(i, z, n)
  BY LayoutStays, Zenon
<1>2. \A i, y : AsIs(i, y)' = AsIs(i, y)
  BY <1>1 DEF AsIs
<1> QED
  BY <1>1, <1>2, Zenon DEF InPlace

LEMMA RowIsDrawn == ASSUME FrameInv, F!DrawRow PROVE FrameInv'
<1>1. FrameTypes /\ row \in Nat /\ row <= rows /\ rows \in Nat
  BY RowsCounted DEF FrameInv, Drawn
<1>2. /\ UNCHANGED Layout /\ rows' = rows /\ row' = row + 1 /\ row < rows - 1
      /\ onSecond' = F!Swapped(onSecond, row) /\ rowKind[row] # "invalid"
  BY Zenon DEF F!DrawRow, Layout
<1>3. onSecond' \in BOOLEAN
  BY <1>1, <1>2, Zenon DEF F!Swapped, FrameTypes
<1>4. FrameTypes'
  BY <1>1, <1>2, <1>3, TypesStay, Zenon
<1>5. row' \in Nat /\ row' <= rows' /\ row' # rows'
  BY <1>1, <1>2
<1>6. ASSUME F!Followed'
      PROVE  /\ top' \in Nat /\ high' \in Nat /\ Cardinality(F!Shown(row + 1)) = top' + high'
             /\ InPlace(row)'
  <2>1. F!Followed /\ F!RowHeight(onSecond') = F!CountedHeight(row)
    BY <1>1, <1>2, <1>6, FollowedBefore, Zenon
  <2>2. /\ top \in Nat /\ high \in Nat /\ Cardinality(F!Shown(row)) = top + high /\ InPlace(row)
    BY <1>1, <1>2, <2>1 DEF FrameInv, Drawn
  <2>3. /\ high' = To(row) - From(row) /\ top' = top + high
        /\ frame' = F!Painted(top + high, row, From(row), To(row) - From(row))
    BY <1>1, <2>1, DrawnOn, Zenon
  <2>4. From(row) \in Nat /\ To(row) \in Nat /\ From(row) <= To(row)
    BY <1>1, <2>1, ShownAre
  <2>5. Cardinality(F!Shown(row + 1)) = Cardinality(F!Shown(row)) + (To(row) - From(row))
    BY <1>1, <2>1, ShownGrows, Zenon
  <2>6. top' \in Nat /\ high' \in Nat /\ Cardinality(F!Shown(row + 1)) = top' + high'
    BY <2>2, <2>3, <2>4, <2>5
  <2>7. ASSUME NEW i \in Nat, i < row + 1, NEW y \in F!ShownLines(i),
               Cardinality(F!Before(i, y)) < Lines, ~F!Stretched(i)
        PROVE  frame'[Cardinality(F!Before(i, y))] = AsIs(i, y)
    <3> DEFINE l == Cardinality(F!Before(i, y))
               c == Cardinality(F!Shown(i))
    <3>1. /\ y \in Nat /\ From(i) <= y /\ y < To(i) /\ l = c + (y - From(i))
          /\ c \in Nat /\ From(i) \in Nat /\ To(i) \in Nat
      BY <1>1, <2>1, LineIsAt, ShownGrows, ShownAre
    <3>2. l \in 0..(Lines + StatusLines - 1)
      BY <2>7, <3>1, FrameAssumption
    <3>3. frame'[l] = IF top + high <= l /\ l < top + high + (To(row) - From(row))
                      THEN <<row, F!FontLine(row, l - (top + high), To(row) - From(row)) + From(row)>>
                      ELSE frame[l]
      BY <2>3, <3>2, PaintedAt, Zenon
    <3>4. CASE i = row
      <4>1. c = top + high
        BY <2>2, <3>4
      <4> HIDE DEF l, c
      <4>2. top + high <= l /\ l < top + high + (To(row) - From(row)) /\ l - (top + high) = y - From(row)
        BY <2>2, <2>4, <3>1, <3>4, <4>1
      <4>3. F!FontLine(row, y - From(row), To(row) - From(row)) + From(row) = F!FontLine(row, y, F!CountedHeight(row))
        BY <1>1, <1>2, <2>4, <2>7, <3>1, <3>4, FontLineIs
      <4>4. frame'[l] = <<row, F!FontLine(row, y, F!CountedHeight(row))>>
        BY <3>3, <4>2, <4>3
      <4>5. frame'[l] = AsIs(i, y)
        BY <3>4, <4>4 DEF AsIs
      <4> QED
        BY <4>5 DEF l
    <3>5. CASE i # row
      <4>1. i < row /\ i < rows - 1
        BY <1>1, <1>2, <2>7, <3>5
      <4>2. frame[l] = AsIs(i, y)
        BY <2>2, <2>7, <4>1, Zenon DEF InPlace
      <4>3. /\ Cardinality(F!Shown(i + 1)) = c + (To(i) - From(i))
            /\ Cardinality(F!Shown(i + 1)) <= Cardinality(F!Shown(row))
        BY <1>1, <2>1, <4>1, ShownGrows, ShownUpTo, Zenon
      <4> HIDE DEF l, c
      <4>4. l < top + high
        BY <2>2, <3>1, <4>3
      <4>5. frame'[l] = AsIs(i, y)
        BY <2>2, <3>1, <3>3, <4>2, <4>4
      <4> QED
        BY <4>5 DEF l
    <3> QED
      BY <3>4, <3>5
  <2>9. InPlace(row)'
    <3>1. \A i \in Nat : i < row' /\ i < rows' - 1 => i < row + 1
      BY <1>2
    <3> QED
      BY <1>2, <2>7, <3>1, InPlaceThen, Zenon
  <2> QED
    BY <2>6, <2>9
<1>7. F!Shown(row)' = F!Shown(row + 1)
  <2>1. \A i : F!ShownLines(i)' = F!ShownLines(i)
    BY <1>2, LayoutStays, Zenon
  <2> QED
    BY <1>2, <2>1 DEF F!Shown
<1>8. Drawn'
  BY <1>5, <1>6, <1>7, Zenon DEF Drawn
<1> QED
  BY <1>4, <1>8, Zenon DEF FrameInv

\* The status row is drawn below the text, and over none of it.
LEMMA StatusIsDrawn == ASSUME FrameInv, F!DrawStatus PROVE FrameInv'
<1>1. FrameTypes /\ row \in Nat /\ row <= rows /\ rows \in Nat
  BY RowsCounted DEF FrameInv, Drawn
<1>2. /\ UNCHANGED Layout /\ rows' = rows /\ row' = row + 1 /\ row = rows - 1
      /\ onSecond' = F!Swapped(onSecond, row)
      /\ frame' = F!Painted(Lines, row, 0, F!StatusHeight(F!RowHeight(onSecond')))
  BY Zenon DEF F!DrawStatus, Layout
<1> DEFINE n == F!StatusHeight(F!RowHeight(onSecond'))
<1>0. n \in Nat /\ n <= StatusLines
  BY FrameAssumption DEF F!StatusHeight
<1> HIDE DEF n
<1>3. onSecond' \in BOOLEAN
  BY <1>1, <1>2, Zenon DEF F!Swapped, FrameTypes
<1>4. FrameTypes'
  BY <1>1, <1>2, <1>3, TypesStay, Zenon
<1>5. row' \in Nat /\ row' <= rows' /\ ~(row' < rows')
  BY <1>1, <1>2
<1>6. ASSUME NEW l \in 0..(Lines + StatusLines - 1)
      PROVE  frame'[l] = IF Lines <= l /\ l < Lines + n THEN <<row, F!FontLine(row, l - Lines, n) + 0>> ELSE frame[l]
  <2>1. frame' = F!Painted(Lines, row, 0, n)
    BY <1>2, Zenon DEF n
  <2> QED
    BY <2>1, PaintedAt, ZenonT(30)
<1>7. StatusInPlace'
  <2>1. ASSUME NEW l \in 0..(n - 1) PROVE frame'[Lines + l] = <<row, F!FontLine(row, l, n)>>
    <3> DEFINE k == Lines + l
    <3>1. /\ k \in 0..(Lines + StatusLines - 1) /\ Lines <= k /\ k < Lines + n /\ k - Lines = l /\ l \in Nat
      BY <1>0, FrameAssumption
    <3> HIDE DEF k
    <3>2. frame'[k] = <<row, F!FontLine(row, l, n) + 0>>
      BY <1>6, <3>1
    <3>3. F!FontLine(row, l, n) \in Int
      BY <1>0, <1>1, <3>1, FontLineWhole
    <3>4. F!FontLine(row, l, n) + 0 = F!FontLine(row, l, n)
      BY <3>3
    <3> QED
      BY <3>2, <3>4 DEF k
  <2>2. n = F!StatusHeight(F!RowHeight(onSecond))'
    BY <1>2 DEF n, F!StatusHeight, F!RowHeight, Layout
  <2>3. \A i, z, m : F!FontLine(i, z, m)' = F!FontLine(i, z, m)
    BY <1>2, LayoutStays, Zenon
  <2>4. rows' - 1 = row
    BY <1>1, <1>2
  <2> QED
    BY <2>1, <2>2, <2>3, <2>4 DEF StatusInPlace
<1>8. ASSUME F!Followed' PROVE InPlace(row)'
  <2>1. F!Followed
    BY <1>1, <1>2, <1>8, FollowedBefore, Zenon
  <2>2. InPlace(row)
    BY <2>1, Zenon DEF FrameInv, Drawn
  <2>3. ASSUME NEW i \in Nat, i < row', i < rows' - 1, NEW y \in F!ShownLines(i),
               Cardinality(F!Before(i, y)) < Lines, ~F!Stretched(i)
        PROVE  frame'[Cardinality(F!Before(i, y))] = AsIs(i, y)
    <3> DEFINE l == Cardinality(F!Before(i, y))
    <3>1. i < row /\ i < rows - 1
      BY <1>1, <1>2, <2>3
    <3>2. frame[l] = AsIs(i, y)
      BY <2>2, <2>3, <3>1, Zenon DEF InPlace
    <3>3. /\ y \in Nat /\ From(i) <= y /\ l = Cardinality(F!Shown(i)) + (y - From(i))
          /\ Cardinality(F!Shown(i)) \in Nat /\ From(i) \in Nat /\ l < Lines
      BY <1>1, <2>1, <2>3, LineIsAt, ShownGrows, ShownAre
    <3> HIDE DEF l
    <3>4. l \in 0..(Lines + StatusLines - 1) /\ ~(Lines <= l)
      BY <3>3, FrameAssumption
    <3>5. frame'[l] = AsIs(i, y)
      BY <1>6, <3>2, <3>4
    <3> QED
      BY <3>5 DEF l
  <2> QED
    BY <1>2, <2>3, InPlaceThen
<1>9. Drawn'
  BY <1>5, <1>7, <1>8, Zenon DEF Drawn
<1> QED
  BY <1>4, <1>9, Zenon DEF FrameInv

\* A row that is skipped takes no lines.
LEMMA RowIsSkipped == ASSUME FrameInv, F!SkipRow PROVE FrameInv'
<1>1. FrameTypes /\ row \in Nat /\ row <= rows /\ rows \in Nat
  BY RowsCounted DEF FrameInv, Drawn
<1>2. /\ UNCHANGED Layout /\ rows' = rows /\ row' = row + 1 /\ row < rows /\ rowKind[row] = "invalid"
      /\ onSecond' = onSecond /\ top' = top /\ high' = high /\ frame' = frame /\ rowKind' = rowKind
  BY Zenon DEF F!SkipRow, Layout
<1>3. onSecond' \in BOOLEAN
  BY <1>1, <1>2, Zenon DEF FrameTypes
<1>4. FrameTypes'
  BY <1>1, <1>2, <1>3, TypesStay, Zenon
<1>5. row' \in Nat /\ row' <= rows'
  BY <1>1, <1>2
<1>6. ASSUME F!Followed'
      PROVE  /\ top' \in Nat /\ high' \in Nat /\ Cardinality(F!Shown(row + 1)) = top' + high'
             /\ InPlace(row)'
  <2>1. F!Followed
    BY <1>1, <1>2, <1>6, FollowedSkipping, Zenon
  <2>2. top \in Nat /\ high \in Nat /\ Cardinality(F!Shown(row)) = top + high /\ InPlace(row)
    BY <1>2, <2>1, Zenon DEF FrameInv, Drawn
  <2>3. Cardinality(F!Shown(row + 1)) = Cardinality(F!Shown(row)) + (To(row) - From(row))
    BY <1>1, <2>1, ShownGrows, Zenon
  <2>4. From(row) \in Nat /\ To(row) = From(row) /\ F!ShownLines(row) = {}
    BY <1>1, <1>2, <2>1, ShownAre DEF To, F!ShownLines
  <2>5. Cardinality(F!Shown(row + 1)) = top + high
    BY <2>2, <2>3, <2>4
  <2>6. ASSUME NEW i \in Nat, i < row', i < rows' - 1, NEW y \in F!ShownLines(i),
               Cardinality(F!Before(i, y)) < Lines, ~F!Stretched(i)
        PROVE  frame'[Cardinality(F!Before(i, y))] = AsIs(i, y)
    <3>1. i < row /\ i < rows - 1
      BY <1>1, <1>2, <2>4, <2>6
    <3> QED
      BY <1>2, <2>2, <2>6, <3>1, Zenon DEF InPlace
  <2>7. InPlace(row)'
    BY <1>2, <2>6, InPlaceThen
  <2> QED
    BY <1>2, <2>2, <2>5, <2>7
<1>7. F!Shown(row)' = F!Shown(row + 1)
  <2>1. \A i : F!ShownLines(i)' = F!ShownLines(i)
    BY <1>2, LayoutStays, Zenon
  <2> QED
    BY <1>2, <2>1 DEF F!Shown
<1>8. row' = rows' => StatusInPlace'
  <2>1. row' = rows' => rows' - 1 = row
    BY <1>1, <1>2
  <2> QED
    BY <1>2, <2>1 DEF StatusInPlace
<1>9. Drawn'
  BY <1>5, <1>6, <1>7, <1>8, Zenon DEF Drawn
<1> QED
  BY <1>4, <1>9, Zenon DEF FrameInv

LEMMA FrameStays == ASSUME FrameInv, UNCHANGED frameVars PROVE FrameInv'
<1>1. /\ UNCHANGED Layout /\ rows' = rows /\ row' = row /\ onSecond' = onSecond
      /\ top' = top /\ high' = high /\ frame' = frame
  BY DEF frameVars, Layout
<1>2. FrameTypes /\ Drawn
  BY DEF FrameInv
<1>3. onSecond' \in BOOLEAN
  BY <1>1, <1>2, Zenon DEF FrameTypes
<1>4. FrameTypes'
  BY <1>1, <1>2, <1>3, TypesStay, Zenon
<1>5. /\ \A i : F!ShownLines(i)' = F!ShownLines(i)
      /\ \A i, y : F!Before(i, y)' = F!Before(i, y)
      /\ \A i : F!CountedHeight(i)' = F!CountedHeight(i)
  BY <1>1, LayoutStays, Zenon
<1>6. F!Shown(row)' = F!Shown(row)
  BY <1>1, <1>5 DEF F!Shown
<1>7. F!CountedHeight(rows)' = F!CountedHeight(rows)
  BY <1>1 DEF F!CountedHeight, Layout
<1>8. F!Followed' => F!Followed
  BY <1>1, <1>5, <1>7, FollowedAre DEF Layout
<1>9. InPlace(row) => InPlace(row)'
  <2> SUFFICES ASSUME InPlace(row) PROVE InPlace(row)'
    OBVIOUS
  <2>1. \A i \in Nat : i < row' /\ i < rows' - 1 =>
          \A y \in F!ShownLines(i) :
            Cardinality(F!Before(i, y)) < Lines /\ ~F!Stretched(i)
              => frame'[Cardinality(F!Before(i, y))] = AsIs(i, y)
    BY <1>1, Zenon DEF InPlace
  <2> QED
    BY <1>1, <2>1, InPlaceThen, Zenon
<1>11. StatusInPlace => StatusInPlace'
  <2>1. /\ rowKind' = rowKind /\ F!StatusHeight(F!RowHeight(onSecond))' = F!StatusHeight(F!RowHeight(onSecond))
        /\ \A i, z, n : F!FontLine(i, z, n)' = F!FontLine(i, z, n)
    BY <1>1, LayoutStays DEF Layout, F!StatusHeight, F!RowHeight
  <2> QED
    BY <1>1, <2>1 DEF StatusInPlace
<1>10. Drawn'
  BY <1>1, <1>2, <1>6, <1>8, <1>9, <1>11 DEF Drawn
<1> QED
  BY <1>4, <1>10, Zenon DEF FrameInv

LEMMA FrameShows == ASSUME FrameInv PROVE F!LinesInPlace
<1> SUFFICES ASSUME row = rows, F!Followed
             PROVE  /\ (\A i \in 0..(rows - 2) : rowKind[i] # "invalid") => Cardinality(F!Shown(rows - 1)) >= Lines
                    /\ \A i \in 0..(rows - 2) : \A y \in F!ShownLines(i) :
                         Cardinality(F!Before(i, y)) < Lines /\ ~F!Stretched(i)
                           => frame[Cardinality(F!Before(i, y))] = AsIs(i, y)
                    /\ StatusInPlace
  BY SameCardinality, Zenon DEF F!LinesInPlace, AsIs, StatusInPlace
<1>1. FrameTypes /\ rows \in Nat
  BY RowsCounted DEF FrameInv
<1>2. InPlace(row) /\ StatusInPlace
  BY Zenon DEF FrameInv, Drawn
<1>3. (\A i \in 0..(rows - 2) : rowKind[i] # "invalid") => Cardinality(F!Shown(rows - 1)) >= Lines
  BY <1>1, EnoughShown
<1>4. ASSUME NEW i \in 0..(rows - 2) PROVE i \in Nat /\ i < row /\ i < rows - 1
  BY <1>1
<1> QED
  BY <1>2, <1>3, <1>4, Zenon DEF InPlace

\* video.c, fb_render.c: for any table of rows, with invalid rows and rows of double height, for any
\* heights, swaps of the screens and smooth scrolling, the frame that is drawn shows every line of a
\* row where it belongs, as far as the counting of rows follows the drawing and no row of double
\* height is cut; if no row is skipped the text is filled; the status row lies below it, with the
\* lines it has among rows of that height; and the characters of a row are put together rightly.
THEOREM FrameRight == Spec => []FrameIsRight
<1> DEFINE Inv == part = "frame" => FrameInv
<1>1. Init => Inv
  BY FrameBegins, Zenon DEF Init
<1>2. Inv /\ [Next]_vars => Inv'
  <2> SUFFICES ASSUME Inv, [Next]_vars, part' = "frame" PROVE FrameInv'
    OBVIOUS
  <2>1. part' = part /\ (F!FrameNext \/ UNCHANGED frameVars)
    BY Zenon DEF Next, vars
  <2>2. FrameInv
    BY <2>1
  <2> QED
    BY <2>1, <2>2, RowIsSkipped, RowIsDrawn, StatusIsDrawn, FrameStays, Zenon DEF F!FrameNext
<1>3. Inv => (part = "frame" => F!LinesInPlace)
  BY FrameShows, Zenon
<1> HIDE DEF Inv
<1>4. Spec => [](part = "frame" => F!LinesInPlace)
  BY <1>1, <1>2, <1>3, PTL DEF Spec
<1>5. Spec => [](part = "cells" => C!CellsInPlace)
  BY CharactersAreWhole
<1>6. (part = "frame" => F!LinesInPlace) /\ (part = "cells" => C!CellsInPlace) => FrameIsRight
  BY Zenon DEF FrameIsRight
<1> QED
  BY <1>4, <1>5, <1>6, PTL

(***************************************************************************)
(* Sequences one after another, as one: where each of them begins.         *)
(***************************************************************************)
AreOffsets(p, s) == p[0] = 0 /\ \A i \in 1..Len(s) : p[i] = p[i - 1] + Len(s[i])
Offsets(s) == CHOOSE p \in [0..Len(s) -> Nat] : AreOffsets(p, s)

LEMMA OffsetsAre ==
  ASSUME NEW S, NEW s \in Seq(Seq(S))
  PROVE  /\ Offsets(s) \in [0..Len(s) -> Nat] /\ AreOffsets(Offsets(s), s)
         /\ \A i, j \in 0..Len(s) : i <= j => Offsets(s)[i] <= Offsets(s)[j]
<1> DEFINE n == Len(s)
           step == [e \in Nat \X Nat |-> IF e[2] \in 1..n THEN e[1] + Len(s[e[2]]) ELSE e[1]]
<1>1. n \in Nat /\ \A i \in 1..n : Len(s[i]) \in Nat
  OBVIOUS
<1>2. step \in [Nat \X Nat -> Nat]
  BY <1>1
<1>3. \A m \in Nat, i \in 1..n : step[<<m, i>>] = m + Len(s[i])
  BY <1>1
<1> HIDE DEF step
<1>4. PICK f \in [0..n -> Nat] : Iterates(f, 0, step, n)
  <2>1. 0 \in Nat
    OBVIOUS
  <2> QED
    BY <1>1, <1>2, <2>1, IterationExists, Zenon
<1>5. ASSUME NEW i \in 1..n PROVE f[i] = f[i - 1] + Len(s[i])
  <2>1. i - 1 \in 0..n
    OBVIOUS
  <2> QED
    BY <1>3, <1>4, <2>1 DEF Iterates
<1>6. AreOffsets(f, s)
  BY <1>4, <1>5 DEF AreOffsets, Iterates
<1>7. Offsets(s) \in [0..Len(s) -> Nat] /\ AreOffsets(Offsets(s), s)
  BY <1>4, <1>6, Zenon DEF Offsets
<1> DEFINE p == Offsets(s)
<1>8. /\ \A i \in 0..n : p[i] \in Nat
      /\ \A i \in 1..n : p[i] = p[i - 1] + Len(s[i])
  BY <1>7 DEF AreOffsets
<1> HIDE DEF p
<1>9. ASSUME NEW i \in 0..n PROVE \A j \in 0..n : i <= j => p[i] <= p[j]
  <2> DEFINE W == {j \in Nat : i <= j /\ j <= n => p[i] <= p[j]}
  <2>1. 0 \in W
    BY <1>8
  <2>2. ASSUME NEW j \in Nat, j \in W PROVE j + 1 \in W
    <3> SUFFICES ASSUME i <= j + 1, j + 1 <= n PROVE p[i] <= p[j + 1]
      OBVIOUS
    <3>1. CASE i = j + 1
      BY <1>8, <3>1
    <3>2. CASE i <= j
      <4> DEFINE k == j + 1
      <4>1. k \in 1..n /\ k - 1 = j /\ j \in 0..n /\ p[i] <= p[j]
        BY <2>2, <3>2
      <4> HIDE DEF k
      <4>2. p[k] = p[k - 1] + Len(s[k]) /\ Len(s[k]) \in Nat
        BY <1>1, <1>8, <4>1
      <4>3. p[i] \in Nat /\ p[j] \in Nat
        BY <1>8, <4>1
      <4> QED
        BY <4>1, <4>2, <4>3 DEF k
    <3> QED
      BY <3>1, <3>2
  <2> HIDE DEF W
  <2>3. \A j \in Nat : j \in W
    BY <2>1, <2>2, Induction
  <2> QED
    BY <2>3 DEF W
<1> QED
  BY <1>7, <1>9, Zenon DEF p

LEMMA Concatenated ==
  ASSUME NEW S, NEW a \in Seq(S), NEW b \in Seq(S)
  PROVE  /\ a \o b \in Seq(S) /\ Len(a \o b) = Len(a) + Len(b)
         /\ \A i \in 1..Len(a) : (a \o b)[i] = a[i]
         /\ \A j \in 1..Len(b) : (a \o b)[Len(a) + j] = b[j]
<1>1. Len(a) \in Nat /\ Len(b) \in Nat
  OBVIOUS
<1>2. a \o b \in Seq(S) /\ Len(a \o b) = Len(a) + Len(b)
  OBVIOUS
<1>3. ASSUME NEW i \in 1..Len(a) PROVE (a \o b)[i] = a[i]
  OBVIOUS
<1>4. ASSUME NEW j \in 1..Len(b) PROVE (a \o b)[Len(a) + j] = b[j]
  <2>1. Len(a) + j \in 1..(Len(a) + Len(b)) /\ ~(Len(a) + j <= Len(a)) /\ Len(a) + j - Len(a) = j
    BY <1>1
  <2> QED
    BY <1>1, <2>1
<1> QED
  BY <1>2, <1>3, <1>4

\* The first i of them, put together.
Flat(g, s) == g = [i \in 1..Len(s) |-> IF i = 1 THEN s[i] ELSE g[i - 1] \o s[i]]

\* A place within a part that ends before c lies between 1 and c.
LEMMA OffsetFits ==
  ASSUME NEW a \in Nat, NEW b, NEW c \in Nat, NEW l \in Nat, NEW j \in Nat,
         1 <= j, j <= l, b = a + l, b <= c
  PROVE  a + j \in 1..c
OBVIOUS

LEMMA FlattenIs ==
  ASSUME NEW S, NEW s \in Seq(Seq(S))
  PROVE  /\ G!FlattenSeq(s) \in Seq(S) /\ Len(G!FlattenSeq(s)) = Offsets(s)[Len(s)]
         /\ \A i \in 1..Len(s) : \A j \in 1..Len(s[i]) :
              G!FlattenSeq(s)[Offsets(s)[i - 1] + j] = s[i][j]
<1> DEFINE n == Len(s)
           p == Offsets(s)
           step == [e \in Seq(S) \X Nat |-> IF e[2] \in 1..n THEN e[1] \o s[e[2]] ELSE e[1]]
           Chosen == CHOOSE g : Flat(g, s)
<1>1. n \in Nat /\ \A i \in 1..n : s[i] \in Seq(S)
  OBVIOUS
<1>2. step \in [Seq(S) \X Nat -> Seq(S)]
  BY <1>1
<1>3. ASSUME NEW m \in Seq(S), NEW i \in 1..n PROVE step[<<m, i>>] = m \o s[i]
  <2>1. <<m, i>> \in Seq(S) \X Nat /\ <<m, i>>[2] = i /\ <<m, i>>[1] = m
    OBVIOUS
  <2> QED
    BY <2>1, Zenon
<1> HIDE DEF step
<1>4. PICK f \in [0..n -> Seq(S)] : Iterates(f, <<>>, step, n)
  <2>1. <<>> \in Seq(S)
    OBVIOUS
  <2> QED
    BY <1>1, <1>2, <2>1, IterationExists, Zenon
<1>5. f[0] = <<>> /\ \A i \in 1..n : f[i] = f[i - 1] \o s[i] /\ f[i] \in Seq(S)
  <2>1. ASSUME NEW i \in 1..n PROVE f[i] = f[i - 1] \o s[i] /\ f[i] \in Seq(S)
    <3>1. i - 1 \in 0..n /\ i \in 0..n
      OBVIOUS
    <3> QED
      BY <1>3, <1>4, <3>1 DEF Iterates
  <2> QED
    BY <1>4, <2>1 DEF Iterates
<1> DEFINE h == [i \in 1..n |-> f[i]]
<1>6. Flat(h, s)
  <2>1. ASSUME NEW i \in 1..n PROVE h[i] = IF i = 1 THEN s[i] ELSE h[i - 1] \o s[i]
    <3>1. CASE i = 1
      <4>1. f[i] = f[i - 1] \o s[i] /\ s[i] \in Seq(S)
        BY <1>1, <1>5, Zenon
      <4>2. f[i - 1] = <<>>
        BY <1>5, <3>1
      <4>3. f[i] = s[i]
        BY <4>1, <4>2
      <4> QED
        BY <3>1, <4>3
    <3>2. CASE i # 1
      <4>1. i - 1 \in 1..n
        BY <3>2
      <4> QED
        BY <1>5, <3>2, <4>1
    <3> QED
      BY <3>1, <3>2
  <2>2. h = [i \in 1..n |-> h[i]]
    OBVIOUS
  <2> HIDE DEF h
  <2> QED
    BY <2>1, <2>2, Zenon DEF Flat
<1> HIDE DEF h
<1>7. Flat(Chosen, s)
  BY <1>6, Zenon
<1>8. G!FlattenSeq(s) = IF n = 0 THEN s ELSE Chosen[n]
  BY Zenon DEF G!FlattenSeq, Flat
<1> HIDE DEF Chosen
<1>9. \A i \in 1..n : Chosen[i] = IF i = 1 THEN s[i] ELSE Chosen[i - 1] \o s[i]
  BY <1>7, Zenon DEF Flat
<1>10. /\ p[0] = 0 /\ \A i \in 0..n : p[i] \in Nat
       /\ \A i \in 1..n : p[i] = p[i - 1] + Len(s[i])
       /\ \A i, j \in 0..n : i <= j => p[i] <= p[j]
  BY OffsetsAre DEF AreOffsets
<1> HIDE DEF p
<1> DEFINE good(i) == /\ Chosen[i] \in Seq(S) /\ Len(Chosen[i]) = p[i]
                      /\ \A k \in 1..i : \A j \in 1..Len(s[k]) : Chosen[i][p[k - 1] + j] = s[k][j]
           W == {i \in Nat : i \in 1..n => good(i)}
<1>11. 0 \in W
  OBVIOUS
<1>12. ASSUME NEW i \in Nat, i \in W PROVE i + 1 \in W
  <2> DEFINE m == i + 1
  <2> SUFFICES ASSUME m \in 1..n PROVE good(m)
    OBVIOUS
  <2>1. CASE i = 0
    <3>1. m = 1 /\ 1 \in 1..n /\ Chosen[1] = s[1]
      BY <1>9, <2>1
    <3>2. p[0] = 0 /\ p[1] = p[0] + Len(s[1]) /\ s[1] \in Seq(S)
      BY <1>1, <1>10, <3>1
    <3> QED
      BY <3>1, <3>2
  <2>2. CASE i # 0
    <3>1. i \in 1..n /\ m # 1 /\ m - 1 = i /\ i \in 0..n /\ m \in 0..n
      BY <2>2
    <3>2. good(i)
      BY <1>12, <3>1
    <3> HIDE DEF m
    <3>3. Chosen[m] = Chosen[i] \o s[m] /\ s[m] \in Seq(S) /\ p[m] = p[i] + Len(s[m])
      BY <1>1, <1>9, <1>10, <3>1
    <3>9. /\ Chosen[i] \in Seq(S) /\ Len(Chosen[i]) = p[i] /\ p[i] \in Nat
          /\ Chosen[m] \in Seq(S) /\ Len(Chosen[m]) = Len(Chosen[i]) + Len(s[m])
          /\ \A l \in 1..p[i] : Chosen[m][l] = Chosen[i][l]
          /\ \A j \in 1..Len(s[m]) : Chosen[m][p[i] + j] = s[m][j]
      <4>1. Chosen[i] \in Seq(S) /\ Len(Chosen[i]) = p[i] /\ p[i] \in Nat
        BY <1>10, <3>1, <3>2
      <4>2. /\ (Chosen[i] \o s[m]) \in Seq(S) /\ Len(Chosen[i] \o s[m]) = Len(Chosen[i]) + Len(s[m])
            /\ \A l \in 1..Len(Chosen[i]) : (Chosen[i] \o s[m])[l] = Chosen[i][l]
            /\ \A j \in 1..Len(s[m]) : (Chosen[i] \o s[m])[Len(Chosen[i]) + j] = s[m][j]
        <5> DEFINE a == Chosen[i]
                   b == s[m]
        <5>1. a \in Seq(S) /\ b \in Seq(S)
          BY <3>3, <4>1
        <5> HIDE DEF a, b
        <5>2. /\ (a \o b) \in Seq(S) /\ Len(a \o b) = Len(a) + Len(b)
              /\ \A l \in 1..Len(a) : (a \o b)[l] = a[l]
              /\ \A j \in 1..Len(b) : (a \o b)[Len(a) + j] = b[j]
          BY <5>1, Concatenated
        <5> QED
          BY <5>2, Zenon DEF a, b
      <4>3. /\ Chosen[m] \in Seq(S) /\ Len(Chosen[m]) = Len(Chosen[i]) + Len(s[m])
            /\ \A l \in 1..Len(Chosen[i]) : Chosen[m][l] = Chosen[i][l]
            /\ \A j \in 1..Len(s[m]) : Chosen[m][Len(Chosen[i]) + j] = s[m][j]
        BY <3>3, <4>2, Zenon
      <4> QED
        BY <4>1, <4>3
    <3>4. Chosen[m] \in Seq(S) /\ Len(Chosen[m]) = p[m]
      BY <3>3, <3>9
    <3>5. ASSUME NEW k \in 1..m, NEW j \in 1..Len(s[k])
          PROVE  Chosen[m][p[k - 1] + j] = s[k][j]
      <4>1. CASE k = m
        <5>1. p[k - 1] = p[i]
          BY <3>1, <4>1
        <5> QED
          BY <3>9, <4>1, <5>1, Zenon
      <4>2. CASE k # m
        <5>1. k \in 1..i /\ k - 1 \in 0..n /\ k \in 0..n /\ k <= i /\ k \in 1..n
          BY <3>1, <4>2 DEF m
        <5>2. p[k] <= p[i] /\ p[k] = p[k - 1] + Len(s[k]) /\ p[k - 1] \in Nat /\ s[k] \in Seq(S)
          BY <1>1, <1>10, <3>1, <5>1
        <5>3. Chosen[i][p[k - 1] + j] = s[k][j]
          BY <3>2, <5>1
        <5>4. p[k - 1] + j \in 1..p[i]
          <6>1. Len(s[k]) \in Nat /\ j \in Nat /\ 1 <= j /\ j <= Len(s[k])
            BY <5>2
          <6>2. p[i] \in Nat
            BY <3>9, Zenon
          <6> QED
            BY <5>2, <6>1, <6>2, OffsetFits, Zenon
        <5> QED
          BY <3>9, <5>3, <5>4
      <4> QED
        BY <4>1, <4>2
    <3> QED
      BY <3>4, <3>5
  <2> QED
    BY <2>1, <2>2
<1> HIDE DEF W
<1>13. n \in W
  BY <1>1, <1>11, <1>12, Induction
<1>14. CASE n = 0
  BY <1>8, <1>10, <1>14 DEF p
<1>15. CASE n # 0
  <2>1. good(n)
    BY <1>1, <1>13, <1>15 DEF W
  <2> QED
    BY <1>8, <1>15, <2>1 DEF p
<1> QED
  BY <1>14, <1>15

(***************************************************************************)
(* A word as it is said: where its pieces stand.                           *)
(***************************************************************************)
Letters == STRING \cup {" ", "'", "\"", "\\"}

LEMMA LettersAre == " " \in Letters /\ "'" \in Letters /\ "\"" \in Letters /\ "\\" \in Letters
BY DEF Letters

LEMMA WordsAre == Seq(Seq(STRING)) \subseteq Seq(Seq(Letters))
<1>1. STRING \subseteq Letters
  BY DEF Letters
<1>2. ASSUME NEW S, NEW T1, S \subseteq T1 PROVE Seq(S) \subseteq Seq(T1)
  <2> SUFFICES ASSUME NEW s \in Seq(S) PROVE s \in Seq(T1)
    OBVIOUS
  <2>1. s \in [1..Len(s) -> S] /\ Len(s) \in Nat
    OBVIOUS
  <2>2. s \in [1..Len(s) -> T1]
    BY <1>2, <2>1
  <2> QED
    BY <2>1, <2>2
<1> QED
  BY <1>1, <1>2, Zenon

Hows == {"backslash", "single", "double"}
Chars(how) == CASE how = "backslash" -> G!Special [] how = "single" -> {} [] how = "double" -> {"\"", "\\"}
Opening(how) == IF how = "backslash" THEN 0 ELSE 1
QuoteMark(how) == IF how = "single" THEN "'" ELSE "\""
Pieces(w, how) == [i \in 1..Len(w) |-> IF w[i] \in Chars(how) THEN <<"\\", w[i]>> ELSE <<w[i]>>]
PieceAt(w, how) == Offsets(Pieces(w, how))

LEMMA PiecesAre ==
  ASSUME NEW w \in Seq(Letters), NEW how
  PROVE  /\ Pieces(w, how) \in Seq(Seq(Letters)) /\ Len(Pieces(w, how)) = Len(w)
         /\ PieceAt(w, how) \in [0..Len(w) -> Nat] /\ PieceAt(w, how)[0] = 0
         /\ \A i, j \in 0..Len(w) : i <= j => PieceAt(w, how)[i] <= PieceAt(w, how)[j]
         /\ \A m \in 1..Len(w) :
              /\ Pieces(w, how)[m] = IF w[m] \in Chars(how) THEN <<"\\", w[m]>> ELSE <<w[m]>>
              /\ PieceAt(w, how)[m] = PieceAt(w, how)[m - 1] + IF w[m] \in Chars(how) THEN 2 ELSE 1
<1> DEFINE s == Pieces(w, how)
           p == Offsets(s)
<1>1. \A m \in 1..Len(w) : w[m] \in Letters
  OBVIOUS
<1>2. \A m \in 1..Len(w) : s[m] = IF w[m] \in Chars(how) THEN <<"\\", w[m]>> ELSE <<w[m]>>
  BY DEF Pieces
<1>3. ASSUME NEW m \in 1..Len(w)
      PROVE  s[m] \in Seq(Letters) /\ Len(s[m]) = IF w[m] \in Chars(how) THEN 2 ELSE 1
  <2>1. w[m] \in Letters /\ "\\" \in Letters
    BY <1>1, LettersAre
  <2>2. CASE w[m] \in Chars(how)
    <3>1. s[m] = <<"\\", w[m]>>
      BY <1>2, <2>2, Zenon
    <3> QED
      BY <2>1, <2>2, <3>1
  <2>3. CASE w[m] \notin Chars(how)
    <3>1. s[m] = <<w[m]>>
      BY <1>2, <2>3, Zenon
    <3> QED
      BY <2>1, <2>3, <3>1
  <2> QED
    BY <2>2, <2>3
<1>4. s = [m \in 1..Len(w) |-> s[m]]
  BY DEF Pieces
<1>5. s \in Seq(Seq(Letters)) /\ Len(s) = Len(w)
  BY <1>3, <1>4
<1> HIDE DEF s
<1>6. /\ p \in [0..Len(w) -> Nat] /\ AreOffsets(p, s)
      /\ \A i, j \in 0..Len(w) : i <= j => p[i] <= p[j]
  BY <1>5, OffsetsAre
<1>7. p[0] = 0 /\ \A m \in 1..Len(w) : p[m] = p[m - 1] + Len(s[m])
  BY <1>5, <1>6 DEF AreOffsets
<1> HIDE DEF p
<1>8. \A m \in 1..Len(w) : p[m] = p[m - 1] + IF w[m] \in Chars(how) THEN 2 ELSE 1
  BY <1>3, <1>7, Zenon
<1> QED
  BY <1>2, <1>5, <1>6, <1>7, <1>8, Zenon DEF p, s, PieceAt

\* The text of a word, without the quotes around it.
LEMMA InnerIs ==
  ASSUME NEW w \in Seq(Letters), NEW how \in Hows, G!Quotable(w, how)
  PROVE  /\ G!Inner(w, how) \in Seq(Letters) /\ Len(G!Inner(w, how)) = PieceAt(w, how)[Len(w)]
         /\ \A m \in 1..Len(w) :
              /\ w[m] \in Chars(how) =>
                   /\ G!Inner(w, how)[PieceAt(w, how)[m - 1] + 1] = "\\"
                   /\ G!Inner(w, how)[PieceAt(w, how)[m - 1] + 2] = w[m]
              /\ w[m] \notin Chars(how) => G!Inner(w, how)[PieceAt(w, how)[m - 1] + 1] = w[m]
<1> DEFINE s == Pieces(w, how)
           p == PieceAt(w, how)
<1>1. CASE how # "single"
  <2>1. G!Inner(w, how) = G!FlattenSeq(s)
    BY <1>1 DEF G!Inner, G!Escaped, Pieces, Chars, Hows
  <2>2. /\ s \in Seq(Seq(Letters)) /\ Len(s) = Len(w)
        /\ \A m \in 1..Len(w) : s[m] = IF w[m] \in Chars(how) THEN <<"\\", w[m]>> ELSE <<w[m]>>
    BY PiecesAre, Zenon
  <2>3. p = Offsets(s)
    BY DEF PieceAt
  <2> HIDE DEF s, p
  <2>4. /\ G!FlattenSeq(s) \in Seq(Letters) /\ Len(G!FlattenSeq(s)) = p[Len(w)]
        /\ \A m \in 1..Len(w) : \A j \in 1..Len(s[m]) : G!FlattenSeq(s)[p[m - 1] + j] = s[m][j]
    <3>1. /\ G!FlattenSeq(s) \in Seq(Letters) /\ Len(G!FlattenSeq(s)) = Offsets(s)[Len(s)]
          /\ \A m \in 1..Len(s) : \A j \in 1..Len(s[m]) : G!FlattenSeq(s)[Offsets(s)[m - 1] + j] = s[m][j]
      BY <2>2, FlattenIs
    <3> QED
      BY <2>2, <2>3, <3>1
  <2>5. ASSUME NEW m \in 1..Len(w), w[m] \in Chars(how)
        PROVE  G!FlattenSeq(s)[p[m - 1] + 1] = "\\" /\ G!FlattenSeq(s)[p[m - 1] + 2] = w[m]
    <3>1. s[m] = <<"\\", w[m]>>
      BY <2>2, <2>5
    <3>2. 1 \in 1..Len(s[m]) /\ 2 \in 1..Len(s[m]) /\ s[m][1] = "\\" /\ s[m][2] = w[m]
      BY <3>1
    <3> QED
      BY <2>4, <3>2
  <2>6. ASSUME NEW m \in 1..Len(w), w[m] \notin Chars(how)
        PROVE  G!FlattenSeq(s)[p[m - 1] + 1] = w[m]
    <3>1. s[m] = <<w[m]>>
      BY <2>2, <2>6
    <3>2. 1 \in 1..Len(s[m]) /\ s[m][1] = w[m]
      BY <3>1
    <3> QED
      BY <2>4, <3>2
  <2> QED
    BY <2>1, <2>4, <2>5, <2>6, Zenon DEF p
<1>2. CASE how = "single"
  <2>1. G!Inner(w, how) = w /\ Chars(how) = {}
    BY <1>2 DEF G!Inner, Chars
  <2>2. p[0] = 0 /\ \A m \in 1..Len(w) : p[m] = p[m - 1] + 1
    BY <2>1, PiecesAre
  <2> HIDE DEF s, p
  <2> DEFINE W == {m \in Nat : m <= Len(w) => p[m] = m}
  <2>3. 0 \in W
    BY <2>2
  <2>4. ASSUME NEW m \in Nat, m \in W PROVE m + 1 \in W
    <3> DEFINE k == m + 1
    <3>1. k <= Len(w) => k \in 1..Len(w) /\ k - 1 = m /\ p[m] = m
      BY <2>4
    <3> HIDE DEF k
    <3>2. k <= Len(w) => p[k] = m + 1
      BY <2>2, <3>1
    <3> QED
      BY <3>2 DEF k
  <2> HIDE DEF W
  <2>5. \A m \in Nat : m \in W
    BY <2>3, <2>4, Induction
  <2>6. \A m \in 0..Len(w) : p[m] = m
    BY <2>5 DEF W
  <2>7. Len(w) = p[Len(w)] /\ \A m \in 1..Len(w) : w[p[m - 1] + 1] = w[m]
    BY <2>6
  <2> QED
    BY <2>1, <2>7, Zenon DEF p
<1> QED
  BY <1>1, <1>2

LEMMA OneLetter ==
  ASSUME NEW S, NEW c \in S PROVE <<c>> \in Seq(S) /\ Len(<<c>>) = 1 /\ <<c>>[1] = c /\ 1 \in 1..Len(<<c>>)
OBVIOUS

LEMMA MarkIs ==
  ASSUME NEW how \in Hows
  PROVE  /\ G!Mark(how) \in Seq(Letters) /\ Len(G!Mark(how)) = Opening(how) /\ Opening(how) \in {0, 1}
         /\ Opening(how) = 1 => G!Mark(how)[1] = QuoteMark(how)
<1> DEFINE k == G!Mark(how)
<1>1. CASE how = "backslash"
  <2>1. k = <<>> /\ Opening(how) = 0
    BY <1>1 DEF G!Mark, Opening
  <2> HIDE DEF k
  <2> QED
    BY <2>1 DEF k
<1>2. CASE how = "single"
  <2>1. k = <<"'">> /\ Opening(how) = 1 /\ QuoteMark(how) = "'"
    BY <1>2 DEF G!Mark, Opening, QuoteMark
  <2> HIDE DEF k
  <2>2. k \in Seq(Letters) /\ Len(k) = 1 /\ k[1] = "'"
    BY <2>1, LettersAre, OneLetter, Zenon
  <2> QED
    BY <2>1, <2>2, Zenon DEF k
<1>3. CASE how = "double"
  <2>1. k = <<"\"">> /\ Opening(how) = 1 /\ QuoteMark(how) = "\""
    BY <1>3 DEF G!Mark, Opening, QuoteMark
  <2> HIDE DEF k
  <2>2. k \in Seq(Letters) /\ Len(k) = 1 /\ k[1] = "\""
    BY <2>1, LettersAre, OneLetter, Zenon
  <2> QED
    BY <2>1, <2>2, Zenon DEF k
<1> QED
  BY <1>1, <1>2, <1>3, Zenon DEF Hows

\* The end of a word that is said to its end, and that of one that is not.
LEMMA EndsAre ==
  ASSUME NEW how \in Hows
  PROVE  /\ LET e == G!Mark(how) \o <<" ">>
            IN  /\ e \in Seq(Letters) /\ Len(e) = Opening(how) + 1 /\ e[Opening(how) + 1] = " "
                /\ Opening(how) = 1 => e[1] = QuoteMark(how)
         /\ \A end \in G!Ends(how) :
              /\ end \in Seq(Letters) /\ Len(end) \in {0, 1} /\ (Len(end) = 1 => end[1] = "\\")
              /\ Opening(how) = 0 => Len(end) = 1
              /\ how = "single" => Len(end) = 0
<1> DEFINE k == G!Mark(how)
           c == " "
           b == <<c>>
<1>1. b \in Seq(Letters) /\ Len(b) = 1 /\ b[1] = c
  BY LettersAre, OneLetter, Zenon
<1>2. /\ k \in Seq(Letters) /\ Len(k) = Opening(how) /\ Opening(how) \in {0, 1}
      /\ Opening(how) = 1 => k[1] = QuoteMark(how)
  BY MarkIs
<1> HIDE DEF k, b, c
<1>3. /\ k \o b \in Seq(Letters) /\ Len(k \o b) = Len(k) + Len(b)
      /\ \A l \in 1..Len(k) : (k \o b)[l] = k[l]
      /\ \A j \in 1..Len(b) : (k \o b)[Len(k) + j] = b[j]
  BY <1>1, <1>2, Concatenated
<1>4. /\ k \o b \in Seq(Letters) /\ Len(k \o b) = Opening(how) + 1
      /\ (k \o b)[Opening(how) + 1] = c
      /\ Opening(how) = 1 => (k \o b)[1] = QuoteMark(how)
  <2> DEFINE e == k \o b
             o == Opening(how)
  <2>1. e \in Seq(Letters) /\ Len(e) = o + 1
    BY <1>1, <1>2, <1>3, Zenon
  <2>2. e[o + 1] = b[1]
    <3>1. 1 \in 1..Len(b)
      BY <1>1
    <3> QED
      BY <1>2, <1>3, <3>1, Zenon
  <2>3. o = 1 => e[1] = k[1]
    <3>1. o = 1 => 1 \in 1..o
      OBVIOUS
    <3> QED
      BY <1>2, <1>3, <3>1, Zenon
  <2> QED
    BY <1>1, <1>2, <2>1, <2>2, <2>3, Zenon
<1>5. ASSUME NEW end \in G!Ends(how)
      PROVE  /\ end \in Seq(Letters) /\ Len(end) \in {0, 1} /\ (Len(end) = 1 => end[1] = "\\")
             /\ Opening(how) = 0 => Len(end) = 1
             /\ how = "single" => Len(end) = 0
  <2>1. end = <<>> \/ end = <<"\\">>
    BY DEF G!Ends, Hows
  <2>2. CASE end = <<>>
    <3>1. how # "backslash"
      BY <2>2 DEF G!Ends
    <3> QED
      BY <2>2, <3>1 DEF Opening
  <2>3. CASE end = <<"\\">>
    <3>1. how # "single"
      BY <2>3 DEF G!Ends
    <3>2. end \in Seq(Letters) /\ Len(end) = 1 /\ end[1] = "\\"
      BY <2>3, LettersAre, OneLetter, Zenon
    <3> QED
      BY <3>1, <3>2, Zenon
  <2> QED
    BY <2>1, <2>2, <2>3
<1> QED
  BY <1>4, <1>5, Zenon DEF k, b, c

WordEnd(w, how) == Opening(how) + PieceAt(w, how)[Len(w)]

\* At its place in x a piece of the word w is said.
PieceIs(x, w, how, m) ==
  LET e == Opening(how) + PieceAt(w, how)[m - 1]
  IN IF w[m] \in Chars(how) THEN x[e + 1] = "\\" /\ x[e + 2] = w[m] ELSE x[e + 1] = w[m]

LEMMA PlacesAre ==
  ASSUME NEW w \in Seq(Letters), NEW how \in Hows
  PROVE  /\ Opening(how) \in {0, 1} /\ WordEnd(w, how) \in Nat /\ Opening(how) <= WordEnd(w, how)
         /\ \A m \in 1..Len(w) :
              /\ PieceAt(w, how)[m - 1] \in Nat /\ PieceAt(w, how)[m] \in Nat
              /\ PieceAt(w, how)[m] = PieceAt(w, how)[m - 1] + IF w[m] \in Chars(how) THEN 2 ELSE 1
              /\ Opening(how) + PieceAt(w, how)[m] <= WordEnd(w, how)
<1> DEFINE q == PieceAt(w, how)
<1>1. Opening(how) \in {0, 1}
  BY DEF Opening
<1>2. /\ q \in [0..Len(w) -> Nat]
      /\ \A i, j \in 0..Len(w) : i <= j => q[i] <= q[j]
      /\ \A m \in 1..Len(w) : q[m] = q[m - 1] + IF w[m] \in Chars(how) THEN 2 ELSE 1
  BY PiecesAre, Zenon
<1>3. Len(w) \in Nat
  OBVIOUS
<1> DEFINE n == Len(w)
           o == Opening(how)
<1> HIDE DEF q, n, o
<1>4. n \in Nat /\ q \in [0..n -> Nat] /\ o \in {0, 1} /\ \A i, j \in 0..n : i <= j => q[i] <= q[j]
  BY <1>1, <1>2, <1>3, Zenon DEF n, o
<1>5. ASSUME NEW m \in 1..n
      PROVE  q[m - 1] \in Nat /\ q[m] \in Nat /\ o + q[m] <= o + q[n]
  <2>1. m \in 0..n /\ m - 1 \in 0..n /\ n \in 0..n /\ m <= n
    BY <1>4
  <2>2. q[m] <= q[n] /\ q[m] \in Nat /\ q[m - 1] \in Nat /\ q[n] \in Nat
    BY <1>4, <2>1
  <2> QED
    BY <1>4, <2>2
<1>6. o + q[n] \in Nat /\ o <= o + q[n]
  <2>1. n \in 0..n
    BY <1>4
  <2>2. q[n] \in Nat
    BY <1>4, <2>1
  <2> QED
    BY <1>4, <2>2
<1> QED
  BY <1>1, <1>2, <1>5, <1>6, Zenon DEF WordEnd, q, n, o

\* A word from its quotes on, without those behind it.
LEMMA WordIsSaid ==
  ASSUME NEW w \in Seq(Letters), NEW how \in Hows, G!Quotable(w, how)
  PROVE  LET h == G!Mark(how) \o G!Inner(w, how)
         IN  /\ h \in Seq(Letters) /\ Len(h) = WordEnd(w, how)
             /\ Opening(how) = 1 => h[1] = QuoteMark(how)
             /\ \A m \in 1..Len(w) : PieceIs(h, w, how, m)
<1> DEFINE q == PieceAt(w, how)
           t == G!Inner(w, how)
           k == G!Mark(how)
           o == Opening(how)
           h == k \o t
<1>1. /\ t \in Seq(Letters) /\ Len(t) = q[Len(w)]
      /\ \A m \in 1..Len(w) :
           /\ w[m] \in Chars(how) => t[q[m - 1] + 1] = "\\" /\ t[q[m - 1] + 2] = w[m]
           /\ w[m] \notin Chars(how) => t[q[m - 1] + 1] = w[m]
  BY InnerIs, Zenon
<1>2. k \in Seq(Letters) /\ Len(k) = o /\ o \in {0, 1} /\ (o = 1 => k[1] = QuoteMark(how))
  BY MarkIs, Zenon
<1>3. \A m \in 1..Len(w) :
        /\ q[m - 1] \in Nat /\ q[m] \in Nat
        /\ q[m] = q[m - 1] + IF w[m] \in Chars(how) THEN 2 ELSE 1
        /\ o + q[m] <= WordEnd(w, how)
  BY PlacesAre, Zenon
<1>4. WordEnd(w, how) = o + q[Len(w)]
  BY DEF WordEnd
<1>5. Len(t) \in Nat
  BY <1>1
<1> HIDE DEF q, t, k, o
<1>6. /\ k \o t \in Seq(Letters) /\ Len(k \o t) = o + Len(t)
      /\ \A j \in 1..o : (k \o t)[j] = k[j]
      /\ \A j \in 1..Len(t) : (k \o t)[o + j] = t[j]
  BY <1>1, <1>2, Concatenated
<1> HIDE DEF h
<1>7. ASSUME NEW m \in 1..Len(w) PROVE PieceIs(h, w, how, m)
  <2>1. /\ q[m - 1] \in Nat /\ q[m] = q[m - 1] + (IF w[m] \in Chars(how) THEN 2 ELSE 1)
        /\ q[m] <= Len(t)
    BY <1>1, <1>2, <1>3, <1>4, <1>5
  <2>2. CASE w[m] \in Chars(how)
    <3>1. q[m - 1] + 1 \in 1..Len(t) /\ q[m - 1] + 2 \in 1..Len(t)
      BY <1>5, <2>1, <2>2
    <3>2. h[o + (q[m - 1] + 1)] = "\\" /\ h[o + (q[m - 1] + 2)] = w[m]
      BY <1>1, <1>6, <2>2, <3>1, Zenon DEF h
    <3>3. o + (q[m - 1] + 1) = o + q[m - 1] + 1 /\ o + (q[m - 1] + 2) = o + q[m - 1] + 2
      BY <1>2, <2>1
    <3> QED
      BY <2>2, <3>2, <3>3, Zenon DEF PieceIs, q, o
  <2>3. CASE w[m] \notin Chars(how)
    <3>1. q[m - 1] + 1 \in 1..Len(t)
      BY <1>5, <2>1, <2>3
    <3>2. h[o + (q[m - 1] + 1)] = w[m]
      BY <1>1, <1>6, <2>3, <3>1, Zenon DEF h
    <3>3. o + (q[m - 1] + 1) = o + q[m - 1] + 1
      BY <1>2, <2>1
    <3> QED
      BY <2>3, <3>2, <3>3, Zenon DEF PieceIs, q, o
  <2> QED
    BY <2>2, <2>3, Zenon
<1>8. h \in Seq(Letters) /\ Len(h) = WordEnd(w, how)
  BY <1>1, <1>4, <1>6, Zenon DEF h
<1>9. o = 1 => h[1] = QuoteMark(how)
  <2>1. o = 1 => 1 \in 1..o
    OBVIOUS
  <2> QED
    BY <1>2, <1>6, <2>1, Zenon DEF h
<1> QED
  BY <1>7, <1>8, <1>9, Zenon DEF h, k, t, o

(***************************************************************************)
(* A description: the words one after another, the last of them perhaps    *)
(* not to its end.                                                         *)
(***************************************************************************)
Sayings(list, how, cut, end) ==
  [i \in 1..Len(list) |-> IF ~cut \/ i < Len(list) THEN G!Quoted(list[i], how) \o <<" ">>
                          ELSE G!Mark(how) \o G!Inner(list[i], how) \o end]
Whole(list, cut, i) == ~cut \/ i < Len(list)

SayingOf(x, w, how, whole, end) ==
  /\ Opening(how) = 1 => x[1] = QuoteMark(how)
  /\ \A m \in 1..Len(w) : PieceIs(x, w, how, m)
  /\ whole => /\ Len(x) = WordEnd(w, how) + Opening(how) + 1
              /\ Opening(how) = 1 => x[WordEnd(w, how) + 1] = QuoteMark(how)
              /\ x[WordEnd(w, how) + Opening(how) + 1] = " "
  /\ ~whole => /\ Len(x) = WordEnd(w, how) + Len(end)
               /\ Len(end) = 1 => x[WordEnd(w, how) + 1] = "\\"

LEMMA JoinedTwice == \A a, b, c \in Seq(Letters) : (a \o b) \o c = a \o (b \o c)
BY ConcatAssociative

EndOf(tail, how, whole, end) ==
  /\ whole => /\ Len(tail) = Opening(how) + 1 /\ tail[Opening(how) + 1] = " "
              /\ Opening(how) = 1 => tail[1] = QuoteMark(how)
  /\ ~whole => Len(tail) = Len(end) /\ (Len(end) = 1 => tail[1] = "\\")

LEMMA Ended ==
  ASSUME NEW w \in Seq(Letters), NEW how \in Hows, G!Quotable(w, how), NEW whole, NEW end, NEW tail \in Seq(Letters),
         EndOf(tail, how, whole, end)
  PROVE  LET x == (G!Mark(how) \o G!Inner(w, how)) \o tail
         IN  x \in Seq(Letters) /\ SayingOf(x, w, how, whole, end)
<1> DEFINE h == G!Mark(how) \o G!Inner(w, how)
           o == Opening(how)
           l == WordEnd(w, how)
           sp == " "
           sl == "\\"
<1>1. /\ h \in Seq(Letters) /\ Len(h) = l /\ (o = 1 => h[1] = QuoteMark(how))
      /\ \A m \in 1..Len(w) : PieceIs(h, w, how, m)
  BY WordIsSaid, Zenon
<1>2. /\ o \in {0, 1} /\ l \in Nat
      /\ \A m \in 1..Len(w) :
           /\ PieceAt(w, how)[m - 1] \in Nat
           /\ PieceAt(w, how)[m] = PieceAt(w, how)[m - 1] + IF w[m] \in Chars(how) THEN 2 ELSE 1
           /\ o + PieceAt(w, how)[m] <= l
  BY PlacesAre, Zenon
<1>3. /\ whole => /\ Len(tail) = o + 1 /\ tail[o + 1] = sp
                  /\ o = 1 => tail[1] = QuoteMark(how)
      /\ ~whole => Len(tail) = Len(end) /\ (Len(end) = 1 => tail[1] = sl)
  BY Zenon DEF EndOf
<1>4. o <= l
  BY PlacesAre, Zenon
<1> HIDE DEF h, o, l, sp, sl
<1> DEFINE x == h \o tail
<1>5. /\ x \in Seq(Letters) /\ Len(x) = Len(h) + Len(tail)
      /\ \A j \in 1..Len(h) : x[j] = h[j]
      /\ \A j \in 1..Len(tail) : x[Len(h) + j] = tail[j]
  <2>1. h \in Seq(Letters)
    BY <1>1, Zenon
  <2> QED
    BY <2>1, Concatenated
<1> HIDE DEF x
<1>6. o = 1 => x[1] = QuoteMark(how)
  <2>1. o = 1 => 1 \in 1..l
    BY <1>2, <1>4
  <2> QED
    BY <1>1, <1>5, <2>1, Zenon
<1>7. ASSUME NEW m \in 1..Len(w) PROVE PieceIs(x, w, how, m)
  <2> DEFINE q == PieceAt(w, how)[m - 1]
  <2>1. q \in Nat /\ o + q + 1 <= l /\ (w[m] \in Chars(how) => o + q + 2 <= l)
    BY <1>2
  <2> HIDE DEF q
  <2>2. o + q + 1 \in 1..l /\ (w[m] \in Chars(how) => o + q + 2 \in 1..l)
    BY <1>2, <2>1
  <2>3. x[o + q + 1] = h[o + q + 1] /\ (w[m] \in Chars(how) => x[o + q + 2] = h[o + q + 2])
    BY <1>1, <1>5, <2>2, Zenon
  <2>4. PieceIs(h, w, how, m)
    BY <1>1, Zenon
  <2> QED
    BY <2>3, <2>4, Zenon DEF PieceIs, q, o
<1>8. ASSUME whole
      PROVE  /\ Len(x) = l + o + 1 /\ (o = 1 => x[l + 1] = QuoteMark(how))
             /\ x[l + o + 1] = sp
  <2>1. Len(tail) = o + 1 /\ tail[o + 1] = sp /\ (o = 1 => tail[1] = QuoteMark(how))
    BY <1>3, <1>8, Zenon
  <2>2. o + 1 \in 1..Len(tail) /\ 1 \in 1..Len(tail) /\ l + (o + 1) = l + o + 1
    BY <1>2, <2>1
  <2>3. x[l + (o + 1)] = tail[o + 1] /\ x[l + 1] = tail[1]
    BY <1>1, <1>5, <2>2, Zenon
  <2> QED
    BY <1>1, <1>5, <2>1, <2>2, <2>3, Zenon
<1>9. ASSUME ~whole PROVE Len(x) = l + Len(end) /\ (Len(end) = 1 => x[l + 1] = sl)
  <2>1. Len(tail) = Len(end) /\ (Len(end) = 1 => tail[1] = sl)
    BY <1>3, <1>9, Zenon
  <2>2. Len(end) = 1 => 1 \in 1..Len(tail)
    BY <2>1
  <2>3. Len(end) = 1 => x[l + 1] = tail[1]
    BY <1>1, <1>5, <2>2, Zenon
  <2> QED
    BY <1>1, <1>5, <2>1, <2>3, Zenon
<1> QED
  BY <1>5, <1>6, <1>7, <1>8, <1>9, Zenon DEF SayingOf, h, o, l, sp, sl, x

LEMMA SayingIs ==
  ASSUME NEW list, NEW how \in Hows, NEW cut \in BOOLEAN, NEW end \in G!Ends(how), NEW i \in 1..Len(list),
         list[i] \in Seq(Letters), G!Quotable(list[i], how)
  PROVE  /\ Sayings(list, how, cut, end)[i] \in Seq(Letters)
         /\ SayingOf(Sayings(list, how, cut, end)[i], list[i], how, Whole(list, cut, i), end)
<1> DEFINE w == list[i]
           k == G!Mark(how)
           t == G!Inner(w, how)
           b == <<" ">>
           x == Sayings(list, how, cut, end)[i]
           whole == Whole(list, cut, i)
<1>1. x = IF whole THEN (k \o t \o k) \o b ELSE k \o t \o end
  BY Zenon DEF Sayings, Whole, G!Quoted
<1>2. /\ k \o b \in Seq(Letters) /\ Len(k \o b) = Opening(how) + 1 /\ (k \o b)[Opening(how) + 1] = " "
      /\ Opening(how) = 1 => (k \o b)[1] = QuoteMark(how)
  BY EndsAre, Zenon
<1>3. end \in Seq(Letters) /\ (Len(end) = 1 => end[1] = "\\")
  BY EndsAre, Zenon
<1>4. k \in Seq(Letters) /\ t \in Seq(Letters) /\ b \in Seq(Letters)
  BY MarkIs, InnerIs, LettersAre, OneLetter, Zenon
<1> HIDE DEF k, t, b, x, whole, w
<1>5. ((k \o t) \o k) \o b = (k \o t) \o (k \o b)
  <2> DEFINE c == k \o t
  <2>1. c \in Seq(Letters)
    BY <1>4
  <2> HIDE DEF c
  <2>2. (c \o k) \o b = c \o (k \o b)
    BY <1>4, <2>1, JoinedTwice, Zenon
  <2> QED
    BY <2>2, Zenon DEF c
<1>6. CASE whole
  <2>1. x = (k \o t) \o (k \o b)
    BY <1>1, <1>5, <1>6, Zenon
  <2>2. w \in Seq(Letters) /\ G!Quotable(w, how)
    BY Zenon DEF w
  <2>3. ((k \o t) \o (k \o b)) \in Seq(Letters) /\ SayingOf((k \o t) \o (k \o b), w, how, whole, end)
    BY <1>2, <1>6, <2>2, Ended, Zenon DEF k, t, EndOf
  <2> QED
    BY <2>1, <2>3, Zenon DEF x, w, whole
<1>7. CASE ~whole
  <2>1. x = (k \o t) \o end
    BY <1>1, <1>7, Zenon
  <2>2. w \in Seq(Letters) /\ G!Quotable(w, how)
    BY Zenon DEF w
  <2>3. ((k \o t) \o end) \in Seq(Letters) /\ SayingOf((k \o t) \o end, w, how, whole, end)
    BY <1>3, <1>7, <2>2, Ended, Zenon DEF k, t, EndOf
  <2> QED
    BY <2>1, <2>3, Zenon DEF x, w, whole
<1> QED
  BY <1>6, <1>7, Zenon

Described(list, how, cut, end) ==
  /\ list \in Seq(Seq(Letters)) /\ how \in Hows /\ cut \in BOOLEAN /\ end \in G!Ends(how)
  /\ \A i \in 1..Len(list) : G!Quotable(list[i], how)
  /\ input = G!FlattenSeq(Sayings(list, how, cut, end))
WordAt(list, how, cut, end) == Offsets(Sayings(list, how, cut, end))

\* The word w is said in the input behind the first a characters, up to the first z.
SaidAt(a, w, how, whole, end, z) ==
  /\ Opening(how) = 1 => input[a + 1] = QuoteMark(how)
  /\ \A m \in 1..Len(w) :
       LET e == a + Opening(how) + PieceAt(w, how)[m - 1]
       IN IF w[m] \in Chars(how) THEN input[e + 1] = "\\" /\ input[e + 2] = w[m] ELSE input[e + 1] = w[m]
  /\ whole => /\ z = a + WordEnd(w, how) + Opening(how) + 1
              /\ Opening(how) = 1 => input[a + WordEnd(w, how) + 1] = QuoteMark(how)
              /\ input[a + WordEnd(w, how) + Opening(how) + 1] = " "
  /\ ~whole => /\ z = a + WordEnd(w, how) + Len(end)
               /\ Len(end) = 1 => input[a + WordEnd(w, how) + 1] = "\\"

LEMMA SayingsAre ==
  ASSUME NEW list, NEW how, NEW cut, NEW end, Described(list, how, cut, end)
  PROVE  /\ Sayings(list, how, cut, end) \in Seq(Seq(Letters)) /\ Len(list) \in Nat
         /\ Len(Sayings(list, how, cut, end)) = Len(list)
         /\ \A i \in 1..Len(list) :
              SayingOf(Sayings(list, how, cut, end)[i], list[i], how, Whole(list, cut, i), end)
<1> DEFINE s == Sayings(list, how, cut, end)
<1>1. /\ how \in Hows /\ cut \in BOOLEAN /\ end \in G!Ends(how)
      /\ \A i \in 1..Len(list) : G!Quotable(list[i], how)
  BY Zenon DEF Described
<1>2. list \in Seq(Seq(Letters))
  BY Zenon DEF Described
<1>3. Len(list) \in Nat /\ \A i \in 1..Len(list) : list[i] \in Seq(Letters)
  BY <1>2
<1>4. \A i \in 1..Len(list) : s[i] \in Seq(Letters) /\ SayingOf(s[i], list[i], how, Whole(list, cut, i), end)
  BY <1>1, <1>3, SayingIs, Zenon
<1>5. s = [i \in 1..Len(list) |-> s[i]]
  BY Zenon DEF Sayings
<1> HIDE DEF s
<1>6. s \in [1..Len(list) -> Seq(Letters)]
  BY <1>4, <1>5
<1>7. s \in Seq(Seq(Letters)) /\ Len(s) = Len(list)
  BY <1>3, <1>6
<1> QED
  BY <1>3, <1>4, <1>7, Zenon DEF s

LEMMA InputIs ==
  ASSUME NEW list, NEW how, NEW cut, NEW end, Described(list, how, cut, end)
  PROVE  LET p == WordAt(list, how, cut, end)
             n == Len(list)
         IN  /\ n \in Nat /\ p[0] = 0 /\ Len(input) = p[n] /\ Len(input) \in Nat
             /\ \A i \in 0..n : p[i] \in Nat /\ p[i] <= p[n]
             /\ \A i \in 1..n : SaidAt(p[i - 1], list[i], how, Whole(list, cut, i), end, p[i])
<1> DEFINE s == Sayings(list, how, cut, end)
           p == WordAt(list, how, cut, end)
           n == Len(list)
           sp == " "
           sl == "\\"
<1>1. /\ s \in Seq(Seq(Letters)) /\ n \in Nat /\ Len(s) = n
      /\ \A i \in 1..n : SayingOf(s[i], list[i], how, Whole(list, cut, i), end)
  BY SayingsAre, Zenon
<1>2. input = G!FlattenSeq(s)
  BY Zenon DEF Described
<1>3. p = Offsets(s)
  BY Zenon DEF WordAt
<1>4. \A i \in 1..n : list[i] \in Seq(Letters)
  BY DEF Described
<1>5. how \in Hows
  BY Zenon DEF Described
<1> HIDE DEF s, p, n, sp, sl
<1>6. /\ p \in [0..n -> Nat] /\ p[0] = 0 /\ \A i \in 1..n : p[i] = p[i - 1] + Len(s[i])
      /\ \A i, j \in 0..n : i <= j => p[i] <= p[j]
  <2>1. s \in Seq(Seq(Letters))
    BY <1>1, Zenon
  <2>2. /\ Offsets(s) \in [0..Len(s) -> Nat] /\ AreOffsets(Offsets(s), s)
        /\ \A i, j \in 0..Len(s) : i <= j => Offsets(s)[i] <= Offsets(s)[j]
    BY <2>1, OffsetsAre
  <2> QED
    BY <1>1, <1>3, <2>2, Zenon DEF AreOffsets
<1>7. /\ input \in Seq(Letters) /\ Len(input) = p[n]
      /\ \A i \in 1..n : \A j \in 1..Len(s[i]) : input[p[i - 1] + j] = s[i][j]
  <2>1. s \in Seq(Seq(Letters))
    BY <1>1, Zenon
  <2>2. /\ G!FlattenSeq(s) \in Seq(Letters) /\ Len(G!FlattenSeq(s)) = Offsets(s)[Len(s)]
        /\ \A i \in 1..Len(s) : \A j \in 1..Len(s[i]) :
             G!FlattenSeq(s)[Offsets(s)[i - 1] + j] = s[i][j]
    BY <2>1, FlattenIs
  <2> QED
    BY <1>1, <1>2, <1>3, <2>2, Zenon
<1>8. n \in Nat
  BY <1>1, Zenon
<1>9. \A i \in 0..n : p[i] \in Nat /\ p[i] <= p[n]
  BY <1>6, <1>8
<1>10. ASSUME NEW i \in 1..n PROVE SaidAt(p[i - 1], list[i], how, Whole(list, cut, i), end, p[i])
  <2> DEFINE a == p[i - 1]
             w == list[i]
             x == s[i]
             o == Opening(how)
             l == WordEnd(w, how)
             whole == Whole(list, cut, i)
  <2>1. a \in Nat /\ p[i] = a + Len(x)
    BY <1>6, <1>8
  <2>2. \A j \in 1..Len(x) : input[a + j] = x[j]
    BY <1>7, Zenon
  <2>3. SayingOf(x, w, how, whole, end) /\ w \in Seq(Letters)
    BY <1>1, <1>4, Zenon
  <2>4. /\ o \in {0, 1} /\ l \in Nat /\ o <= l
        /\ \A m \in 1..Len(w) :
             /\ PieceAt(w, how)[m - 1] \in Nat
             /\ PieceAt(w, how)[m] = PieceAt(w, how)[m - 1] + IF w[m] \in Chars(how) THEN 2 ELSE 1
             /\ o + PieceAt(w, how)[m] <= l
    BY <1>5, <2>3, PlacesAre, Zenon
  <2>5. /\ whole => Len(x) = l + o + 1
        /\ ~whole => Len(x) = l + Len(end)
    BY <2>3, Zenon DEF SayingOf
  <2>6. end \in Seq(Letters) /\ Len(end) \in {0, 1}
    BY <1>5, EndsAre, Zenon DEF Described
  <2> HIDE DEF a, w, x, o, l, whole
  <2>7. Len(x) \in Nat /\ l <= Len(x)
    BY <2>4, <2>5, <2>6
  <2>8. o = 1 => input[a + 1] = QuoteMark(how)
    <3>1. o = 1 => 1 \in 1..Len(x)
      BY <2>4, <2>7
    <3> QED
      BY <2>2, <2>3, <3>1, Zenon DEF SayingOf, o
  <2>9. ASSUME NEW m \in 1..Len(w)
        PROVE  LET e == a + o + PieceAt(w, how)[m - 1]
               IN IF w[m] \in Chars(how) THEN input[e + 1] = sl /\ input[e + 2] = w[m] ELSE input[e + 1] = w[m]
    <3> DEFINE q == PieceAt(w, how)[m - 1]
    <3>1. q \in Nat /\ o + q + 1 <= l /\ (w[m] \in Chars(how) => o + q + 2 <= l)
      BY <2>4
    <3> HIDE DEF q
    <3>2. /\ o + q + 1 \in 1..Len(x) /\ (w[m] \in Chars(how) => o + q + 2 \in 1..Len(x))
          /\ a + (o + q + 1) = a + o + q + 1 /\ a + (o + q + 2) = a + o + q + 2
      BY <2>1, <2>4, <2>7, <3>1
    <3>5. input[a + (o + q + 1)] = x[o + q + 1]
      BY <2>2, <3>2, Zenon
    <3>6. w[m] \in Chars(how) => input[a + (o + q + 2)] = x[o + q + 2]
      BY <2>2, <3>2, Zenon
    <3>3. /\ input[a + o + q + 1] = x[o + q + 1]
          /\ w[m] \in Chars(how) => input[a + o + q + 2] = x[o + q + 2]
      BY <3>2, <3>5, <3>6, Zenon
    <3>4. PieceIs(x, w, how, m)
      BY <2>3, Zenon DEF SayingOf
    <3> QED
      BY <3>3, <3>4, Zenon DEF PieceIs, q, o, sl
  <2>10. ASSUME whole
         PROVE  /\ p[i] = a + l + o + 1 /\ input[a + l + o + 1] = sp
                /\ o = 1 => input[a + l + 1] = QuoteMark(how)
    <3>1. /\ l + o + 1 \in 1..Len(x) /\ l + 1 \in 1..Len(x) /\ Len(x) = l + o + 1
          /\ a + (l + o + 1) = a + l + o + 1 /\ a + (l + 1) = a + l + 1
      BY <2>1, <2>4, <2>5, <2>10
    <3>3. input[a + (l + o + 1)] = x[l + o + 1]
      BY <2>2, <3>1, Zenon
    <3>4. input[a + (l + 1)] = x[l + 1]
      BY <2>2, <3>1, Zenon
    <3>5. p[i] = a + (l + o + 1)
      BY <2>1, <3>1, Zenon
    <3>2. input[a + l + o + 1] = x[l + o + 1] /\ input[a + l + 1] = x[l + 1] /\ p[i] = a + l + o + 1
      BY <3>1, <3>3, <3>4, <3>5, Zenon
    <3> QED
      BY <2>3, <2>10, <3>2, Zenon DEF SayingOf, o, l, sp
  <2>11. ASSUME ~whole
         PROVE  p[i] = a + l + Len(end) /\ (Len(end) = 1 => input[a + l + 1] = sl)
    <3> DEFINE e == Len(end)
    <3>4. e \in {0, 1} /\ Len(x) = l + e
      BY <2>5, <2>6, <2>11, Zenon
    <3> HIDE DEF e
    <3>1. /\ e = 1 => l + 1 \in 1..Len(x)
          /\ a + (l + 1) = a + l + 1 /\ a + (l + e) = a + l + e
      BY <2>1, <2>4, <3>4
    <3>5. e = 1 => input[a + (l + 1)] = x[l + 1]
      BY <2>2, <3>1, Zenon
    <3>2. Len(end) = 1 => input[a + l + 1] = x[l + 1]
      BY <3>1, <3>5, Zenon DEF e
    <3>3. p[i] = a + l + Len(end)
      <4>1. p[i] = a + (l + e)
        BY <2>1, <3>4, Zenon
      <4> QED
        BY <3>1, <4>1, Zenon DEF e
    <3> QED
      BY <2>3, <2>11, <3>2, <3>3, Zenon DEF SayingOf, l, sl
  <2> QED
    BY <2>8, <2>9, <2>10, <2>11, Zenon DEF SaidAt, a, w, o, l, whole, sp, sl
<1>11. Len(input) \in Nat
  BY <1>7
<1> QED
  BY <1>6, <1>7, <1>8, <1>9, <1>10, <1>11, Zenon DEF p, n

(***************************************************************************)
(* How far a description has been read, while it is split into words: the  *)
(* words read are the first ones, and the reader stands between two words, *)
(* or behind some pieces of the next one, or behind its closing quotes.    *)
(***************************************************************************)
InQuotes(how) == IF how = "backslash" THEN "none" ELSE how

Between(a, taken, here, mode, begun) == here = a + 1 /\ mode = "none" /\ begun = FALSE /\ taken = <<>>
Within(a, w, how, taken, here, mode, begun) ==
  /\ Len(taken) <= Len(w) /\ \A j \in 1..Len(taken) : taken[j] = w[j]
  /\ here = a + Opening(how) + PieceAt(w, how)[Len(taken)] + 1
  /\ mode = InQuotes(how) /\ begun = TRUE /\ (Len(taken) > 0 \/ Opening(how) = 1)
Behind(a, w, how, whole, taken, here, mode, begun) ==
  /\ Opening(how) = 1 /\ whole /\ taken = w /\ here = a + WordEnd(w, how) + 2
  /\ mode = "none" /\ begun = TRUE

\* What the reader faces, of a word that is said from a to z.
FacesQuote(a, how) == Between(a, buf, at, quote, have) /\ Opening(how) = 1 /\ at <= Len(input) /\ input[at] = QuoteMark(how)
FacesPiece(a, w, how) ==
  /\ Len(buf) < Len(w) /\ \A j \in 1..Len(buf) : buf[j] = w[j]
  /\ at = a + Opening(how) + PieceAt(w, how)[Len(buf)] + 1 /\ quote = InQuotes(how)
  /\ IF w[Len(buf) + 1] \in Chars(how)
     THEN at < Len(input) /\ input[at] = "\\" /\ input[at + 1] = w[Len(buf) + 1]
     ELSE at <= Len(input) /\ input[at] = w[Len(buf) + 1]
FacesClose(a, w, how, whole) ==
  /\ Opening(how) = 1 /\ whole /\ buf = w /\ at = a + WordEnd(w, how) + 1
  /\ quote = how /\ have = TRUE /\ at <= Len(input) /\ input[at] = QuoteMark(how)
FacesSpace(w, whole, z) ==
  whole /\ buf = w /\ at = z /\ quote = "none" /\ have = TRUE /\ at <= Len(input) /\ input[at] = " "
FacesCut(how, whole, z) ==
  ~whole /\ \/ at = z + 1 /\ quote = how /\ Opening(how) = 1
            \/ at = z /\ how # "single" /\ quote = InQuotes(how) /\ input[at] = "\\"

LEMMA SameSequence ==
  ASSUME NEW S, NEW x \in Seq(S), NEW y \in Seq(S), Len(x) = Len(y), \A j \in 1..Len(x) : x[j] = y[j]
  PROVE  x = y
OBVIOUS

LEMMA WordFaces ==
  ASSUME NEW a \in Nat, NEW w \in Seq(Letters), NEW how \in Hows, G!Quotable(w, how), NEW whole \in BOOLEAN,
         NEW end \in G!Ends(how), NEW z \in Nat, SaidAt(a, w, how, whole, end, z), Len(input) \in Nat,
         z <= Len(input), buf \in Seq(Letters),
         \/ Between(a, buf, at, quote, have) \/ Within(a, w, how, buf, at, quote, have)
         \/ Behind(a, w, how, whole, buf, at, quote, have)
  PROVE  \/ FacesQuote(a, how) \/ FacesPiece(a, w, how) \/ FacesClose(a, w, how, whole)
         \/ FacesSpace(w, whole, z) \/ FacesCut(how, whole, z)
<1> DEFINE o == Opening(how)
           l == WordEnd(w, how)
           q == PieceAt(w, how)
           b == Len(buf)
           n == Len(w)
           sp == " "
           sl == "\\"
           e == Len(end)
           none == "none"
<1>1. /\ o \in {0, 1} /\ l \in Nat /\ o <= l /\ l = o + q[n] /\ q[0] = 0
      /\ \A m \in 1..n :
           /\ q[m - 1] \in Nat /\ q[m] = q[m - 1] + IF w[m] \in Chars(how) THEN 2 ELSE 1
           /\ o + q[m] <= l
  BY PlacesAre, PiecesAre, ZenonT(30) DEF WordEnd
<1>2. e \in {0, 1} /\ (o = 0 => e = 1) /\ (how = "single" => e = 0)
  BY EndsAre, Zenon
<1>3. b \in Nat /\ n \in Nat
  OBVIOUS
<1>4. /\ o = 1 => input[a + 1] = QuoteMark(how)
      /\ \A m \in 1..n :
           LET c == a + o + q[m - 1]
           IN IF w[m] \in Chars(how) THEN input[c + 1] = sl /\ input[c + 2] = w[m] ELSE input[c + 1] = w[m]
      /\ whole => /\ z = a + l + o + 1 /\ (o = 1 => input[a + l + 1] = QuoteMark(how))
                  /\ input[a + l + o + 1] = sp
      /\ ~whole => z = a + l + e /\ (e = 1 => input[a + l + 1] = sl)
  BY Zenon DEF SaidAt
<1>5. InQuotes(how) = IF o = 1 THEN how ELSE none
  BY DEF InQuotes, Opening
<1>6. n = 0 => o = 1
  <2>1. CASE how = "backslash"
    BY <2>1 DEF G!Quotable
  <2>2. CASE how # "backslash"
    BY <2>2 DEF Opening
  <2> QED
    BY <2>1, <2>2
<1>7. how = "single" \/ how = "double" \/ o = 0
  BY DEF Hows, Opening
<1>16. o = 1 => how # "backslash"
  BY DEF Opening
<1>17. how # none
  BY DEF Hows
<1> HIDE DEF o, l, q, b, n, sp, sl, e, none
<1>15. a + l <= z
  <2>1. l \in Nat /\ o \in {0, 1} /\ e \in {0, 1} /\ (z = a + l + o + 1 \/ z = a + l + e)
    BY <1>1, <1>2, <1>4, Zenon
  <2> QED
    BY <2>1
\* Behind the pieces buf, fewer than the word has.
<1>8. ASSUME b < n, \A j \in 1..b : buf[j] = w[j], at = a + o + q[b] + 1, quote = InQuotes(how)
      PROVE  FacesPiece(a, w, how)
  <2> DEFINE m == b + 1
  <2>1. m \in 1..n /\ m - 1 = b
    BY <1>3, <1>8
  <2> HIDE DEF m
  <2>2. /\ q[b] \in Nat /\ q[m] = q[b] + (IF w[m] \in Chars(how) THEN 2 ELSE 1) /\ o + q[m] <= l
        /\ LET c == a + o + q[b]
           IN IF w[m] \in Chars(how) THEN input[c + 1] = sl /\ input[c + 2] = w[m] ELSE input[c + 1] = w[m]
    BY <1>1, <1>4, <2>1, Zenon
  <2>3. /\ w[m] \in Chars(how) => a + o + q[b] + 2 = at + 1 /\ at < Len(input)
        /\ w[m] \notin Chars(how) => at <= Len(input)
    <3> DEFINE escaped == w[m] \in Chars(how)
               f == Len(input)
    <3>1. /\ o \in {0, 1} /\ l \in Nat /\ q[b] \in Nat /\ f \in Nat /\ z <= f /\ a + l <= z
          /\ q[m] = q[b] + (IF escaped THEN 2 ELSE 1) /\ o + q[m] <= l /\ at = a + o + q[b] + 1
      BY <1>1, <1>8, <1>15, <2>2, Zenon
    <3> HIDE DEF escaped, f
    <3>2. /\ escaped => a + o + q[b] + 2 = at + 1 /\ at < f
          /\ ~escaped => at <= f
      <4> DEFINE u == q[b]
                 v == q[m]
      <4>1. /\ o \in {0, 1} /\ l \in Nat /\ u \in Nat /\ f \in Nat /\ z <= f /\ a + l <= z
            /\ (escaped => v = u + 2) /\ (~escaped => v = u + 1) /\ o + v <= l /\ at = a + o + u + 1
        BY <3>1, Zenon
      <4> HIDE DEF u, v
      <4>2. ASSUME escaped PROVE a + o + u + 2 = at + 1 /\ at < f
        <5>1. v = u + 2
          BY <4>1, <4>2, Zenon
        <5> QED
          BY <4>1, <5>1
      <4>3. ASSUME ~escaped PROVE at <= f
        <5>1. v = u + 1
          BY <4>1, <4>3, Zenon
        <5> QED
          BY <4>1, <5>1
      <4> QED
        BY <4>2, <4>3, Zenon DEF u
    <3> QED
      BY <3>2, Zenon DEF escaped, f
  <2> QED
    BY <1>8, <2>2, <2>3, Zenon DEF FacesPiece, m, b, n, o, q, sl
<1>9. CASE Between(a, buf, at, quote, have)
  <2>1. at = a + 1 /\ quote = none /\ b = 0
    BY <1>9 DEF Between, b, none
  <2>2. CASE o = 1
    <3>1. at <= Len(input)
      BY <1>1, <1>15, <2>1, <2>2
    <3> QED
      BY <1>4, <1>9, <2>1, <2>2, <3>1, Zenon DEF FacesQuote, o
  <2>3. CASE o = 0
    <3>1. b < n /\ at = a + o + q[b] + 1 /\ \A j \in 1..b : buf[j] = w[j]
      BY <1>1, <1>3, <1>6, <2>1, <2>3
    <3>2. quote = InQuotes(how)
      BY <1>5, <2>1, <2>3
    <3> QED
      BY <1>8, <3>1, <3>2, Zenon
  <2> QED
    BY <1>1, <2>2, <2>3, Zenon
<1>10. CASE Within(a, w, how, buf, at, quote, have)
  <2>1. /\ b <= n /\ (\A j \in 1..b : buf[j] = w[j]) /\ at = a + o + q[b] + 1
        /\ quote = InQuotes(how) /\ have = TRUE
    BY <1>10, Zenon DEF Within, b, n, o, q
  <2>2. CASE b < n
    BY <1>8, <2>1, <2>2, Zenon
  <2>3. CASE ~(b < n)
    <3>1. b = n
      BY <1>3, <2>1, <2>3
    <3>2. buf = w
      BY <2>1, <3>1, SameSequence, Zenon DEF b, n
    <3>3. at = a + l + 1
      <4>1. l \in Nat /\ o \in {0, 1} /\ l = o + q[b] /\ at = a + o + q[b] + 1
        BY <1>1, <2>1, <3>1, Zenon
      <4>2. CASE n = 0
        BY <1>1, <2>1, <3>1, <4>2
      <4>3. CASE n # 0
        <5>1. n \in 1..n
          BY <1>3, <4>3
        <5>2. q[n - 1] \in Nat /\ q[n] = q[n - 1] + (IF w[n] \in Chars(how) THEN 2 ELSE 1)
          BY <1>1, <5>1, Zenon
        <5>3. q[n] \in Nat
          BY <5>2
        <5> QED
          <6> DEFINE u == q[b]
          <6>1. u \in Nat /\ l = o + u /\ at = a + o + u + 1
            BY <3>1, <4>1, <5>3, Zenon
          <6> HIDE DEF u
          <6> QED
            BY <4>1, <6>1, SMTT(30)
      <4> QED
        BY <4>2, <4>3, Zenon
    <3>4. CASE whole
      <4>1. CASE o = 1
        <5>1. quote = how /\ input[at] = QuoteMark(how)
          BY <1>4, <1>5, <2>1, <3>3, <3>4, <4>1, Zenon
        <5>2. at <= Len(input)
          BY <1>1, <1>4, <3>3, <3>4, <4>1
        <5> QED
          BY <2>1, <3>2, <3>3, <3>4, <4>1, <5>1, <5>2, Zenon DEF FacesClose, o, l
      <4>2. CASE o = 0
        <5>1. at = z /\ at = a + l + o + 1 /\ at <= Len(input)
          BY <1>1, <1>4, <3>3, <3>4, <4>2
        <5>2. quote = none /\ input[at] = sp
          <6>1. o # 1
            BY <4>2
          <6> QED
            BY <1>4, <1>5, <2>1, <3>4, <5>1, <6>1, Zenon
        <5> QED
          BY <2>1, <3>2, <3>4, <5>1, <5>2, Zenon DEF FacesSpace, none, sp
      <4> QED
        BY <1>1, <4>1, <4>2, Zenon
    <3>5. CASE ~whole
      <4>1. CASE e = 0
        <5>1. o = 1 /\ at = z + 1
          BY <1>1, <1>2, <1>4, <3>3, <3>5, <4>1
        <5> QED
          BY <1>5, <2>1, <3>5, <5>1, Zenon DEF FacesCut, o
      <4>2. CASE e = 1
        <5>1. at = z
          BY <1>1, <1>4, <3>3, <3>5, <4>2
        <5>2. input[at] = sl
          BY <1>4, <3>3, <3>5, <4>2, Zenon
        <5>3. how # "single"
          BY <1>2, <4>2
        <5> QED
          BY <2>1, <3>5, <5>1, <5>2, <5>3, Zenon DEF FacesCut, sl
      <4> QED
        BY <1>2, <4>1, <4>2, Zenon
    <3> QED
      BY <3>4, <3>5, Zenon
  <2> QED
    BY <2>2, <2>3, Zenon
<1>11. CASE Behind(a, w, how, whole, buf, at, quote, have)
  <2>1. o = 1 /\ whole /\ buf = w /\ at = a + l + 2 /\ quote = none /\ have = TRUE
    BY <1>11, Zenon DEF Behind, o, l, none
  <2>2. at = z /\ at = a + l + o + 1 /\ at <= Len(input)
    BY <1>1, <1>4, <2>1
  <2>3. input[at] = sp
    BY <1>4, <2>1, <2>2, Zenon
  <2> QED
    BY <2>1, <2>2, <2>3, Zenon DEF FacesSpace, none, sp
<1> QED
  BY <1>9, <1>10, <1>11, Zenon

(***************************************************************************)
(* What a step does with what the reader faces.                            *)
(***************************************************************************)
SplitStep == G!Open \/ G!Close \/ G!Escape \/ G!Plain \/ G!Space \/ G!End
Kept == input' = input /\ meant' = meant /\ args' = args

LEMMA Distinct ==
  /\ " " # "'" /\ " " # "\"" /\ " " # "\\" /\ "'" # "\"" /\ "'" # "\\" /\ "\"" # "\\"
  /\ "none" # "single" /\ "none" # "double" /\ "single" # "double" /\ "none" # "backslash"
  /\ "backslash" # "single" /\ "backslash" # "double"
OBVIOUS

\* Which step a piece asks for.
LEMMA Asked ==
  ASSUME SplitStep, at \in Nat, Len(input) \in Nat, at <= Len(input)
  PROVE  /\ quote = "none" /\ input[at] \in {"'", "\""} => G!Open
         /\ quote = "none" /\ input[at] = " " => G!Space
         /\ quote = "none" /\ input[at] \notin G!Special => G!Plain
         /\ quote # "single" /\ quote \in {"none", "double"} /\ input[at] = "\\" => G!Escape
         /\ quote = "single" /\ input[at] = "'" => G!Close
         /\ quote = "single" /\ input[at] # "'" => G!Plain
         /\ quote = "double" /\ input[at] = "\"" => G!Close
         /\ quote = "double" /\ input[at] \notin {"\"", "\\"} => G!Plain
<1> DEFINE c == input[at]
<1>1. /\ G!Open => quote = "none" /\ c \in {"'", "\""}
      /\ G!Close => \/ quote = "single" /\ c = "'"
                    \/ quote = "double" /\ c = "\""
      /\ G!Escape => quote # "single" /\ c = "\\"
      /\ G!Space => quote = "none" /\ c = " "
  <2>1. G!Close => \/ quote = "single" /\ c = "'"
                   \/ quote = "double" /\ c = "\""
    <3>1. G!Close => <<quote, c>> \in {<<"single", "'">>, <<"double", "\"">>}
      BY Zenon DEF G!Close, G!Piece
    <3> HIDE DEF c
    <3> QED
      BY <3>1
  <2> QED
    BY <2>1, Zenon DEF G!Open, G!Escape, G!Space, G!Piece
<1>2. /\ G!Plain /\ quote = "none" => c \notin G!Special
      /\ G!Plain /\ quote = "single" => c # "'"
      /\ G!Plain /\ quote = "double" => c \notin {"\"", "\\"}
  <2>1. G!Plain => G!Ordinary(c)
    BY Zenon DEF G!Plain, G!Piece
  <2> HIDE DEF c
  <2> QED
    BY <2>1 DEF G!Ordinary
<1>3. ~G!End
  BY DEF G!End
<1>4. SplitStep => G!Open \/ G!Close \/ G!Escape \/ G!Plain \/ G!Space
  BY <1>3, Zenon DEF SplitStep
<1> HIDE DEF c
<1>5. /\ quote = "none" /\ c \in {"'", "\""} => G!Open
      /\ quote = "none" /\ c = " " => G!Space
      /\ quote = "none" /\ c \notin G!Special => G!Plain
      /\ quote # "single" /\ quote \in {"none", "double"} /\ c = "\\" => G!Escape
      /\ quote = "single" /\ c = "'" => G!Close
      /\ quote = "single" /\ c # "'" => G!Plain
      /\ quote = "double" /\ c = "\"" => G!Close
      /\ quote = "double" /\ c \notin {"\"", "\\"} => G!Plain
  BY <1>1, <1>2, <1>4, Distinct, Zenon DEF G!Special
<1> QED
  BY <1>5, Zenon DEF c

LEMMA QuoteOpens ==
  ASSUME NEW a \in Nat, NEW how \in Hows, FacesQuote(a, how), SplitStep, Len(input) \in Nat
  PROVE  /\ at' = a + 2 /\ quote' = how /\ have' = TRUE /\ buf' = <<>> /\ words' = words
         /\ phase' = phase /\ Kept /\ how = InQuotes(how) /\ Opening(how) = 1
<1>1. at = a + 1 /\ quote = "none" /\ buf = <<>> /\ at <= Len(input) /\ input[at] = QuoteMark(how) /\ Opening(how) = 1
  BY Zenon DEF FacesQuote, Between
<1>2. how # "backslash"
  BY <1>1 DEF Opening
<1>3. QuoteMark(how) \in {"'", "\""} /\ how = IF QuoteMark(how) = "'" THEN "single" ELSE "double"
  BY <1>2, Distinct, Zenon DEF QuoteMark, Hows
<1>4. at \in Nat /\ at + 1 = a + 2
  BY <1>1
<1>5. G!Open
  BY <1>1, <1>3, <1>4, Asked, Zenon
<1>6. buf \o <<>> = <<>>
  BY <1>1
<1> QED
  BY <1>1, <1>2, <1>3, <1>4, <1>5, <1>6, Zenon DEF G!Open, G!Take, G!Piece, G!reading, Kept, InQuotes

LEMMA PieceTaken ==
  ASSUME NEW a \in Nat, NEW w \in Seq(Letters), NEW how \in Hows, G!Quotable(w, how), FacesPiece(a, w, how),
         SplitStep, Len(input) \in Nat, at \in Nat, Len(buf) \in Nat
  PROVE  /\ at' = at + IF w[Len(buf) + 1] \in Chars(how) THEN 2 ELSE 1
         /\ quote' = quote /\ have' = TRUE /\ buf' = buf \o <<w[Len(buf) + 1]>> /\ words' = words
         /\ phase' = phase /\ Kept
<1> DEFINE m == Len(buf) + 1
           c == input[at]
<1>1. /\ Len(buf) < Len(w) /\ quote = InQuotes(how)
      /\ w[m] \in Chars(how) => at < Len(input) /\ c = "\\" /\ input[at + 1] = w[m]
      /\ w[m] \notin Chars(how) => at <= Len(input) /\ c = w[m]
  BY Zenon DEF FacesPiece
<1>2. m \in 1..Len(w)
  BY <1>1
<1> HIDE DEF m
<1>3. at <= Len(input)
  BY <1>1
<1>4. CASE w[m] \in Chars(how)
  <2>1. how # "single"
    BY <1>4, Zenon DEF Chars
  <2>2. quote # "single" /\ quote \in {"none", "double"}
    BY <1>1, <2>1, Distinct, Zenon DEF InQuotes, Hows
  <2>3. G!Escape
    BY <1>1, <1>3, <1>4, <2>2, Asked, Zenon
  <2> QED
    BY <1>1, <1>4, <2>3, Zenon DEF G!Escape, G!Take, G!reading, Kept, m
<1>5. CASE w[m] \notin Chars(how)
  <2>1. \/ quote = "none" /\ w[m] \notin G!Special
        \/ quote = "single" /\ w[m] # "'"
        \/ quote = "double" /\ w[m] \notin {"\"", "\\"}
    <3>1. CASE how = "backslash"
      BY <1>1, <1>5, <3>1, Zenon DEF InQuotes, Chars
    <3>2. CASE how = "single"
      <4>1. "'" \notin G!ToSet(w)
        BY <3>2, Zenon DEF G!Quotable
      <4>2. w[m] \in G!ToSet(w)
        <5>1. DOMAIN w = 1..Len(w)
          OBVIOUS
        <5> QED
          BY <1>2, <5>1, Zenon DEF G!ToSet
      <4>3. w[m] # "'"
        BY <4>1, <4>2, Zenon
      <4> QED
        BY <1>1, <3>2, <4>3, Distinct, Zenon DEF InQuotes
    <3>3. CASE how = "double"
      <4>1. Chars(how) = {"\"", "\\"}
        BY <3>3, Distinct, Zenon DEF Chars
      <4> QED
        BY <1>1, <1>5, <3>3, <4>1, Distinct, Zenon DEF InQuotes
    <3> QED
      BY <3>1, <3>2, <3>3, Zenon DEF Hows
  <2>2. c = w[m]
    BY <1>1, <1>5, Zenon
  <2>3. G!Plain
    BY <1>3, <2>1, <2>2, Asked, Zenon
  <2> QED
    BY <1>5, <2>2, <2>3, Zenon DEF G!Plain, G!Take, G!reading, G!Piece, Kept, m
<1> QED
  BY <1>4, <1>5, Zenon

LEMMA QuoteCloses ==
  ASSUME NEW a \in Nat, NEW w \in Seq(Letters), NEW how \in Hows, NEW whole, FacesClose(a, w, how, whole), SplitStep,
         Len(input) \in Nat, WordEnd(w, how) \in Nat
  PROVE  /\ at' = a + WordEnd(w, how) + 2 /\ quote' = "none" /\ have' = TRUE /\ buf' = w /\ words' = words
         /\ phase' = phase /\ Kept /\ Opening(how) = 1 /\ whole
<1> DEFINE l == WordEnd(w, how)
<1>1. /\ at = a + l + 1 /\ quote = how /\ have = TRUE /\ buf = w /\ at <= Len(input)
      /\ input[at] = QuoteMark(how) /\ Opening(how) = 1 /\ whole
  BY Zenon DEF FacesClose
<1>2. how # "backslash"
  BY <1>1 DEF Opening
<1> HIDE DEF l
<1>3. at \in Nat /\ at + 1 = a + l + 2
  BY <1>1 DEF l
<1>4. G!Close
  BY <1>1, <1>2, <1>3, Asked, Distinct, Zenon DEF QuoteMark, Hows
<1>5. buf \o <<>> = w
  BY <1>1
<1> QED
  BY <1>1, <1>3, <1>4, <1>5, Zenon DEF G!Close, G!Take, G!reading, Kept, l

LEMMA WordIsTaken ==
  ASSUME NEW w, NEW whole, NEW z \in Nat, FacesSpace(w, whole, z), SplitStep, Len(input) \in Nat
  PROVE  /\ at' = z + 1 /\ quote' = "none" /\ have' = FALSE /\ buf' = <<>> /\ words' = Append(words, w)
         /\ phase' = phase /\ Kept
<1>1. at = z /\ quote = "none" /\ have = TRUE /\ buf = w /\ at <= Len(input) /\ input[at] = " " /\ whole
  BY Zenon DEF FacesSpace
<1>2. at \in Nat
  BY <1>1
<1>3. G!Space
  BY <1>1, <1>2, Asked, Zenon
<1> QED
  BY <1>1, <1>3, Zenon DEF G!Space, G!Emitted, G!reading, Kept

LEMMA CutIsRefused ==
  ASSUME NEW how \in Hows, NEW whole, NEW z \in Nat, FacesCut(how, whole, z), SplitStep, Len(input) = z
  PROVE  phase' = "done" /\ result' = G!Failed /\ Kept
<1>1. CASE at = z + 1 /\ quote = how /\ Opening(how) = 1
  <2>1. ~(at <= Len(input)) /\ at > Len(input)
    BY <1>1
  <2>2. G!End
    BY <2>1, Zenon DEF SplitStep, G!Open, G!Close, G!Escape, G!Plain, G!Space, G!Splitting
  <2>3. quote # "none"
    BY <1>1, Distinct, Zenon DEF Hows
  <2> QED
    BY <2>2, <2>3, Zenon DEF G!End, G!Fail, G!reading, Kept
<1>2. CASE at = z /\ how # "single" /\ quote = InQuotes(how) /\ input[at] = "\\"
  <2>1. at \in Nat /\ Len(input) \in Nat /\ at <= Len(input) /\ ~(at < Len(input))
    BY <1>2
  <2>2. quote # "single" /\ quote \in {"none", "double"}
    BY <1>2, Distinct, Zenon DEF InQuotes, Hows
  <2>3. G!Escape
    BY <1>2, <2>1, <2>2, Asked, Zenon
  <2> QED
    BY <2>1, <2>3, Zenon DEF G!Escape, G!Fail, G!reading, Kept
<1> QED
  BY <1>1, <1>2, Zenon DEF FacesCut

LEMMA AllIsRead ==
  ASSUME at = Len(input) + 1, Len(input) \in Nat, quote = "none", have = FALSE, SplitStep
  PROVE  /\ words' = words /\ Kept
         /\ IF words = <<>> \/ words[1] \notin G!Kinds THEN phase' = "done" /\ result' = G!Failed
            ELSE phase' = "parse" /\ at' = 2
<1>1. ~(at <= Len(input)) /\ at > Len(input)
  OBVIOUS
<1>2. G!End
  BY <1>1, Zenon DEF SplitStep, G!Open, G!Close, G!Escape, G!Plain, G!Space, G!Splitting
<1>3. words' = words
  BY <1>2, Zenon DEF G!End, G!Emitted
<1> QED
  BY <1>2, <1>3, Zenon DEF G!End, G!Fail, G!reading, Kept

(***************************************************************************)
(* The description is read on, to its end or to where it is refused.       *)
(***************************************************************************)
LEMMA OneMore ==
  ASSUME NEW S, NEW x \in Seq(S), NEW e \in S
  PROVE  /\ Append(x, e) \in Seq(S) /\ Len(Append(x, e)) = Len(x) + 1 /\ Append(x, e)[Len(x) + 1] = e
         /\ \A j \in 1..Len(x) : Append(x, e)[j] = x[j]
OBVIOUS

LEMMA OneMoreLetter ==
  ASSUME NEW x \in Seq(Letters), NEW c \in Letters
  PROVE  /\ x \o <<c>> \in Seq(Letters) /\ Len(x \o <<c>>) = Len(x) + 1 /\ (x \o <<c>>)[Len(x) + 1] = c
         /\ \A j \in 1..Len(x) : (x \o <<c>>)[j] = x[j]
<1>1. /\ Append(x, c) \in Seq(Letters) /\ Len(Append(x, c)) = Len(x) + 1 /\ Append(x, c)[Len(x) + 1] = c
      /\ \A j \in 1..Len(x) : Append(x, c)[j] = x[j]
  BY OneMore
<1>2. x \o <<c>> = Append(x, c)
  OBVIOUS
<1> QED
  BY <1>1, <1>2, Zenon

LEMMA OneMoreWord ==
  ASSUME NEW x \in Seq(Seq(Letters)), NEW w \in Seq(Letters)
  PROVE  /\ Append(x, w) \in Seq(Seq(Letters)) /\ Len(Append(x, w)) = Len(x) + 1 /\ Append(x, w)[Len(x) + 1] = w
         /\ \A j \in 1..Len(x) : Append(x, w)[j] = x[j]
<1> DEFINE S == Seq(Letters)
<1>1. x \in Seq(S) /\ w \in S
  OBVIOUS
<1> HIDE DEF S
<1>2. /\ Append(x, w) \in Seq(S) /\ Len(Append(x, w)) = Len(x) + 1 /\ Append(x, w)[Len(x) + 1] = w
      /\ \A j \in 1..Len(x) : Append(x, w)[j] = x[j]
  BY <1>1
<1> QED
  BY <1>2, Zenon DEF S

LEMMA WordGoesOn ==
  ASSUME NEW a \in Nat, NEW w \in Seq(Letters), NEW how \in Hows, G!Quotable(w, how), NEW whole,
         Len(input) \in Nat, buf \in Seq(Letters), SplitStep,
         FacesQuote(a, how) \/ FacesPiece(a, w, how) \/ FacesClose(a, w, how, whole)
  PROVE  /\ words' = words /\ phase' = phase /\ Kept /\ buf' \in Seq(Letters)
         /\ \/ Within(a, w, how, buf', at', quote', have')
            \/ Behind(a, w, how, whole, buf', at', quote', have')
<1> DEFINE q == PieceAt(w, how)
           o == Opening(how)
           b == Len(buf)
           n == Len(w)
<1>1. /\ o \in {0, 1} /\ q[0] = 0 /\ WordEnd(w, how) \in Nat
      /\ \A m \in 1..n :
           /\ q[m - 1] \in Nat /\ q[m] = q[m - 1] + IF w[m] \in Chars(how) THEN 2 ELSE 1
  BY PlacesAre, PiecesAre, ZenonT(30)
<1>2. b \in Nat /\ n \in Nat
  OBVIOUS
<1>3. \A m \in 1..n : w[m] \in Letters
  OBVIOUS
<1>4. CASE FacesQuote(a, how)
  <2>1. /\ at' = a + 2 /\ quote' = InQuotes(how) /\ have' = TRUE /\ buf' = <<>> /\ words' = words
        /\ phase' = phase /\ Kept /\ o = 1
    BY <1>4, QuoteOpens, Zenon
  <2>2. buf' \in Seq(Letters) /\ Len(buf') = 0 /\ Len(buf') <= n /\ \A j \in 1..Len(buf') : buf'[j] = w[j]
    BY <1>2, <2>1
  <2> HIDE DEF q, o, b, n
  <2>3. at' = a + o + q[0] + 1
    BY <1>1, <2>1
  <2> QED
    BY <2>1, <2>2, <2>3, Zenon DEF Within, q, o, n
<1>5. CASE FacesPiece(a, w, how)
  <2> DEFINE m == b + 1
  <2> HIDE DEF q, o, b, n
  <2>1. /\ b < n /\ (\A j \in 1..b : buf[j] = w[j]) /\ at = a + o + q[b] + 1 /\ quote = InQuotes(how)
    BY <1>5, Zenon DEF FacesPiece, q, o, b, n
  <2>2. m \in 1..n /\ m - 1 = b
    BY <1>2, <2>1
  <2> HIDE DEF m
  <2>3. q[b] \in Nat /\ q[m] = q[b] + (IF w[m] \in Chars(how) THEN 2 ELSE 1) /\ w[m] \in Letters
    BY <1>1, <1>3, <2>2, Zenon
  <2>4. at \in Nat
    BY <1>1, <2>1, <2>3
  <2>5. /\ at' = at + (IF w[m] \in Chars(how) THEN 2 ELSE 1) /\ quote' = quote /\ have' = TRUE
        /\ buf' = buf \o <<w[m]>> /\ words' = words /\ phase' = phase /\ Kept
    <3>1. Len(buf) \in Nat
      BY <1>2, Zenon DEF b
    <3> QED
      BY <1>5, <2>4, <3>1, PieceTaken, Zenon DEF m, b
  <2>6. /\ buf' \in Seq(Letters) /\ Len(buf') = b + 1 /\ (\A j \in 1..b : buf'[j] = buf[j]) /\ buf'[b + 1] = w[m]
    <3> DEFINE x == buf \o <<w[m]>>
    <3>1. /\ x \in Seq(Letters) /\ Len(x) = Len(buf) + 1 /\ x[Len(buf) + 1] = w[m]
          /\ \A j \in 1..Len(buf) : x[j] = buf[j]
      BY <2>3, OneMoreLetter, Zenon
    <3>2. buf' = x
      BY <2>5, Zenon
    <3> HIDE DEF x
    <3> QED
      BY <3>1, <3>2, Zenon DEF b
  <2>7. at' = a + o + q[m] + 1
    BY <1>1, <2>1, <2>3, <2>5
  <2>8. Len(buf') = m /\ Len(buf') <= n /\ Len(buf') > 0
    BY <1>2, <2>2, <2>6 DEF m
  <2>9. \A j \in 1..Len(buf') : buf'[j] = w[j]
    <3>1. ASSUME NEW j \in 1..m PROVE buf'[j] = w[j]
      <4>1. CASE j = m
        BY <2>6, <4>1, Zenon DEF m
      <4>2. CASE j # m
        <5>1. j \in 1..b
          BY <1>2, <4>2 DEF m
        <5> QED
          BY <2>1, <2>6, <5>1, Zenon
      <4> QED
        BY <4>1, <4>2, Zenon
    <3> QED
      BY <2>8, <3>1, Zenon
  <2> QED
    BY <2>1, <2>5, <2>6, <2>7, <2>8, <2>9, Zenon DEF Within, q, o, n
<1>6. CASE FacesClose(a, w, how, whole)
  <2>1. WordEnd(w, how) \in Nat /\ Len(input) \in Nat
    BY <1>1, Zenon
  <2>2. /\ at' = a + WordEnd(w, how) + 2 /\ quote' = "none" /\ have' = TRUE /\ buf' = w /\ words' = words
        /\ phase' = phase /\ Kept /\ o = 1 /\ whole
    BY <1>6, <2>1, QuoteCloses, Zenon
  <2>3. Behind(a, w, how, whole, buf', at', quote', have')
    BY <2>2, Zenon DEF Behind
  <2> QED
    BY <2>2, <2>3, Zenon
<1> QED
  BY <1>4, <1>5, <1>6, Zenon

ReadTo(list, how, cut, end, said, taken, here, mode, begun) ==
  /\ said \in Seq(Seq(Letters)) /\ Len(said) <= Len(list) /\ (cut => Len(said) < Len(list))
  /\ \A j \in 1..Len(said) : said[j] = list[j]
  /\ taken \in Seq(Letters)
  /\ LET a == WordAt(list, how, cut, end)[Len(said)]
         w == list[Len(said) + 1]
     IN  \/ Between(a, taken, here, mode, begun)
         \/ /\ Len(said) < Len(list)
            /\ \/ Within(a, w, how, taken, here, mode, begun)
               \/ Behind(a, w, how, Whole(list, cut, Len(said) + 1), taken, here, mode, begun)

LEMMA SplitSteps ==
  ASSUME NEW list, NEW how, NEW cut, NEW end, Described(list, how, cut, end), SplitStep,
         ReadTo(list, how, cut, end, words, buf, at, quote, have)
  PROVE  /\ Kept
         /\ \/ phase' = phase /\ ReadTo(list, how, cut, end, words', buf', at', quote', have')
            \/ cut /\ phase' = "done" /\ result' = G!Failed
            \/ /\ ~cut /\ words' = list
               /\ IF list = <<>> \/ list[1] \notin G!Kinds THEN phase' = "done" /\ result' = G!Failed
                  ELSE phase' = "parse" /\ at' = 2
<1> DEFINE p == WordAt(list, how, cut, end)
           n == Len(list)
           k == Len(words)
           w == list[k + 1]
           whole == Whole(list, cut, k + 1)
           none == "none"
<1>1. /\ n \in Nat /\ Len(input) = p[n] /\ Len(input) \in Nat
      /\ \A i \in 0..n : p[i] \in Nat /\ p[i] <= p[n]
      /\ \A i \in 1..n : SaidAt(p[i - 1], list[i], how, Whole(list, cut, i), end, p[i])
  BY InputIs, Zenon
<1>2. /\ how \in Hows /\ cut \in BOOLEAN /\ end \in G!Ends(how)
      /\ \A i \in 1..n : G!Quotable(list[i], how)
  BY Zenon DEF Described
<1>3. \A i \in 1..n : list[i] \in Seq(Letters)
  BY DEF Described
<1>4. list \in Seq(Seq(Letters))
  BY Zenon DEF Described
<1>5. /\ words \in Seq(Seq(Letters)) /\ k <= n /\ (cut => k < n)
      /\ (\A j \in 1..k : words[j] = list[j]) /\ buf \in Seq(Letters)
      /\ \/ Between(p[k], buf, at, quote, have)
         \/ k < n /\ \/ Within(p[k], w, how, buf, at, quote, have)
                     \/ Behind(p[k], w, how, whole, buf, at, quote, have)
  BY Zenon DEF ReadTo
<1>6. k \in Nat
  BY <1>5
<1>7. CASE k < n
  <2> DEFINE i == k + 1
  <2>1. i \in 1..n /\ i - 1 = k /\ i \in 0..n /\ k \in 0..n
    BY <1>1, <1>6, <1>7
  <2>2. whole \in BOOLEAN /\ (whole => ~cut \/ i < n) /\ (~whole => cut /\ ~(i < n))
    BY <1>2, Zenon DEF Whole
  <2> HIDE DEF p, w, whole, none, i
  <2>3. p[k] \in Nat /\ p[i] \in Nat /\ p[i] <= Len(input)
    BY <1>1, <2>1
  <2>4. w \in Seq(Letters) /\ G!Quotable(w, how) /\ SaidAt(p[k], w, how, whole, end, p[i])
    <3>1. SaidAt(p[i - 1], list[i], how, Whole(list, cut, i), end, p[i])
      BY <1>1, <2>1, Zenon
    <3> QED
      BY <1>2, <1>3, <2>1, <3>1, Zenon DEF w, whole, i
  <2>5. \/ FacesQuote(p[k], how) \/ FacesPiece(p[k], w, how) \/ FacesClose(p[k], w, how, whole)
        \/ FacesSpace(w, whole, p[i]) \/ FacesCut(how, whole, p[i])
    BY <1>1, <1>2, <1>5, <2>2, <2>3, <2>4, WordFaces, ZenonT(30)
  <2>6. CASE FacesQuote(p[k], how) \/ FacesPiece(p[k], w, how) \/ FacesClose(p[k], w, how, whole)
    <3>1. /\ words' = words /\ phase' = phase /\ Kept /\ buf' \in Seq(Letters)
          /\ \/ Within(p[k], w, how, buf', at', quote', have')
             \/ Behind(p[k], w, how, whole, buf', at', quote', have')
      BY <1>1, <1>2, <1>5, <2>3, <2>4, <2>6, WordGoesOn, Zenon
    <3> QED
      BY <1>5, <1>7, <3>1, Zenon DEF ReadTo, p, w, whole
  <2>7. CASE FacesSpace(w, whole, p[i])
    <3>1. /\ at' = p[i] + 1 /\ quote' = "none" /\ have' = FALSE /\ buf' = <<>> /\ words' = Append(words, w)
          /\ phase' = phase /\ Kept /\ whole
      <4>1. p[i] \in Nat /\ Len(input) \in Nat
        BY <1>1, <2>3, Zenon
      <4>2. whole
        BY <2>7, Zenon DEF FacesSpace
      <4> QED
        BY <2>7, <4>1, <4>2, WordIsTaken, Zenon
    <3>2. /\ words' \in Seq(Seq(Letters)) /\ Len(words') = i /\ words'[i] = w
          /\ \A j \in 1..k : words'[j] = words[j]
      <4> DEFINE y == Append(words, w)
      <4>1. /\ y \in Seq(Seq(Letters)) /\ Len(y) = Len(words) + 1 /\ y[Len(words) + 1] = w
            /\ \A j \in 1..Len(words) : y[j] = words[j]
        BY <1>5, <2>4, OneMoreWord, Zenon
      <4>2. words' = y
        BY <3>1, Zenon
      <4> HIDE DEF y
      <4> QED
        BY <4>1, <4>2, Zenon DEF i
    <3>3. i <= n /\ (cut => i < n)
      BY <2>1, <2>2, <3>1
    <3>4. \A j \in 1..i : words'[j] = list[j]
      <4>1. ASSUME NEW j \in 1..i PROVE words'[j] = list[j]
        <5>1. CASE j = i
          BY <3>2, <5>1, Zenon DEF w, i
        <5>2. CASE j # i
          <6>1. j \in 1..k
            BY <1>6, <5>2 DEF i
          <6> QED
            BY <1>5, <3>2, <6>1, Zenon
        <5> QED
          BY <5>1, <5>2, Zenon
      <4> QED
        BY <4>1, Zenon
    <3>5. <<>> \in Seq(Letters)
      OBVIOUS
    <3>6. Between(p[i], buf', at', quote', have')
      BY <3>1, Zenon DEF Between
    <3>7. ReadTo(list, how, cut, end, words', buf', at', quote', have')
      BY <3>1, <3>2, <3>3, <3>4, <3>5, <3>6, Zenon DEF ReadTo, p
    <3> QED
      BY <3>1, <3>7, Zenon
  <2>8. CASE FacesCut(how, whole, p[i])
    <3>1. ~whole
      BY <2>8, Zenon DEF FacesCut
    <3>2. i = n /\ cut
      BY <2>1, <2>2, <3>1
    <3>3. Len(input) = p[i]
      BY <1>1, <3>2, Zenon
    <3>4. phase' = "done" /\ result' = G!Failed /\ Kept
      BY <1>2, <2>3, <2>8, <3>3, CutIsRefused, Zenon
    <3> QED
      BY <3>2, <3>4, Zenon
  <2> QED
    BY <2>5, <2>6, <2>7, <2>8, Zenon
<1>8. CASE ~(k < n)
  <2>1. k = n /\ ~cut /\ Between(p[k], buf, at, quote, have)
    BY <1>1, <1>5, <1>6, <1>8
  <2>2. words = list
    BY <1>4, <1>5, <2>1, SameSequence, Zenon
  <2>3. at = Len(input) + 1 /\ quote = "none" /\ have = FALSE
    BY <1>1, <2>1, Zenon DEF Between
  <2>4. /\ words' = words /\ Kept
        /\ IF words = <<>> \/ words[1] \notin G!Kinds THEN phase' = "done" /\ result' = G!Failed
           ELSE phase' = "parse" /\ at' = 2
    BY <1>1, <2>3, AllIsRead, Zenon
  <2> QED
    BY <2>1, <2>2, <2>4, Zenon
<1> QED
  BY <1>7, <1>8, Zenon

(***************************************************************************)
(* The roles of words: which one the word at a place may play, given those *)
(* of the words before it.                                                 *)
(***************************************************************************)
Single == {"--", "noPty", "rows", "cols"}
EveryRole == {"pos", "--", "noPty", "rows", "cols", "value"}
OptionNames == {"rows", "cols"}

LEMMA OptionsAre ==
  /\ DOMAIN G!Options = OptionNames /\ G!Options["rows"] = "--rows" /\ G!Options["cols"] = "--cols"
BY DEF G!Options, OptionNames

Takes(list, i, role) == role \in OptionNames /\ Len(list[i]) = 1
Suits(list, i, role, awaited, dashed) ==
  /\ role = "value" <=> awaited
  /\ Takes(list, i, role) => i < Len(list)
  /\ role \in OptionNames => G!IsOption(list[i], role)
  /\ role = "noPty" => list[i] = <<"--no-pty">>
  /\ role = "--" => list[i] = <<"--">>
  /\ role = "pos" => dashed \/ ~G!LooksLikeFlag(list[i])
  /\ role # "pos" => ~dashed
Awaited(list, r, i) == i > 2 /\ Takes(list, i - 1, r[i - 1])
Dashed(r, i) == \E j \in 2..(i - 1) : r[j] = "--"
FitsAt(list, r, i) == Suits(list, i, r[i], Awaited(list, r, i), Dashed(r, i))

\* The roles r of the first m words fit, and those of every reading of the whole list are the same.
Playing(r, m, role) == {i \in 2..m : r[i] = role}
Fitting(list) == {f \in [2..Len(list) -> G!Roles(list[1])] : G!Fits(list, f)}
OneEach(r, m) == \A i, j \in 2..m : r[i] = r[j] /\ r[i] \in Single => i = j
Agreed(list, r, m) ==
  /\ r \in [2..m -> G!Roles(list[1])]
  /\ \A i \in 2..m : FitsAt(list, r, i)
  /\ OneEach(r, m)
  /\ \A f \in Fitting(list) : \A i \in 2..m : f[i] = r[i]

LEMMA CountsAreSame == \A S : G!Cardinality(S) = Cardinality(S)
BY Zenon DEF G!Cardinality, Cardinality

LEMMA PlayingIs ==
  ASSUME NEW m, NEW S, NEW r \in [2..m -> S], NEW role
  PROVE  G!Plays(r, role) = Playing(r, m, role)
BY DEF G!Plays, Playing

LEMMA PlayingFinite ==
  ASSUME NEW m \in Nat, NEW r, NEW role
  PROVE  /\ IsFiniteSet(Playing(r, m, role)) /\ Cardinality(Playing(r, m, role)) \in Nat
         /\ \A i \in Playing(r, m, role) : i \in Nat /\ i <= m
<1>1. IsFiniteSet(2..m)
  BY FS_Interval
<1>2. Playing(r, m, role) \subseteq 2..m
  BY DEF Playing
<1>3. IsFiniteSet(Playing(r, m, role))
  BY <1>1, <1>2, FS_Subset, Zenon
<1>4. Cardinality(Playing(r, m, role)) \in Nat
  BY <1>3, FS_CardinalityType, Zenon
<1>5. \A i \in 2..m : i \in Nat /\ i <= m
  OBVIOUS
<1> QED
  BY <1>2, <1>3, <1>4, <1>5, Zenon

LEMMA AtMostOne ==
  ASSUME NEW S, IsFiniteSet(S)
  PROVE  Cardinality(S) <= 1 <=> \A i, j \in S : i = j
<1>1. Cardinality(S) \in Nat
  BY FS_CardinalityType, Zenon
<1>2. ASSUME Cardinality(S) <= 1, NEW i \in S, NEW j \in S, i # j PROVE FALSE
  <2>1. IsFiniteSet(S \ {i}) /\ Cardinality(S \ {i}) = Cardinality(S) - 1
    BY FS_RemoveElement, Zenon
  <2>2. Cardinality(S \ {i}) \in Nat
    BY <2>1, FS_CardinalityType, Zenon
  <2>3. Cardinality(S \ {i}) = 0
    BY <1>1, <1>2, <2>1, <2>2
  <2>4. S \ {i} = {}
    BY <2>1, <2>3, FS_EmptySet, Zenon
  <2> QED
    BY <1>2, <2>4
<1>3. ASSUME \A i, j \in S : i = j PROVE Cardinality(S) <= 1
  <2>1. CASE S = {}
    <3>1. Cardinality(S) = 0
      BY <2>1, FS_EmptySet, Zenon
    <3> QED
      BY <3>1
  <2>2. CASE S # {}
    <3>1. PICK x \in S : S = {x}
      BY <1>3, <2>2
    <3>2. Cardinality(S) = 1
      BY <3>1, FS_Singleton, Zenon
    <3> QED
      BY <3>2
  <2> QED
    BY <2>1, <2>2
<1> QED
  BY <1>2, <1>3

\* To fit is to fit at each place, with one of each at most.
LEMMA FitsIs ==
  ASSUME NEW list, NEW m \in Nat, NEW S, NEW r \in [2..m -> S]
  PROVE  G!Fits(list, r) <=> (\A i \in 2..m : FitsAt(list, r, i)) /\ OneEach(r, m)
<1>1. \A role : /\ G!Cardinality(G!Plays(r, role)) = Cardinality(Playing(r, m, role))
                /\ IsFiniteSet(Playing(r, m, role))
  BY CountsAreSame, PlayingIs, PlayingFinite, Zenon
<1>2. ASSUME NEW role
      PROVE  G!Cardinality(G!Plays(r, role)) <= 1 <=> \A i, j \in Playing(r, m, role) : i = j
  <2> DEFINE P == Playing(r, m, role)
  <2>1. G!Cardinality(G!Plays(r, role)) = Cardinality(P) /\ IsFiniteSet(P)
    BY <1>1, Zenon
  <2> HIDE DEF P
  <2>2. Cardinality(P) <= 1 <=> \A i, j \in P : i = j
    BY <2>1, AtMostOne, Zenon
  <2> QED
    BY <2>1, <2>2, Zenon DEF P
<1>3. (\A role \in Single : G!Cardinality(G!Plays(r, role)) <= 1) <=> OneEach(r, m)
  <2>1. (\A role \in Single : G!Cardinality(G!Plays(r, role)) <= 1)
        <=> \A role \in Single : \A i, j \in Playing(r, m, role) : i = j
    BY <1>2, Zenon
  <2>2. (\A role \in Single : \A i, j \in Playing(r, m, role) : i = j) => OneEach(r, m)
    BY Zenon DEF OneEach, Playing
  <2>3. OneEach(r, m) => \A role \in Single : \A i, j \in Playing(r, m, role) : i = j
    BY Zenon DEF OneEach, Playing
  <2> QED
    BY <2>1, <2>2, <2>3, Zenon
<1>4. DOMAIN r = 2..m
  OBVIOUS
<1>5. ASSUME NEW i \in 2..m
      PROVE  (\E j \in G!Plays(r, "--") : j < i) <=> Dashed(r, i)
  <2>1. \A j : j \in 2..m /\ j < i <=> j \in 2..(i - 1)
    OBVIOUS
  <2>2. G!Plays(r, "--") = Playing(r, m, "--")
    BY PlayingIs, Zenon
  <2> QED
    BY <2>1, <2>2, Zenon DEF Dashed, Playing
<1>6. ASSUME NEW i \in 2..m
      PROVE  FitsAt(list, r, i) <=>
               LET takesNext(j) == r[j] \in DOMAIN G!Options /\ Len(list[j]) = 1
                   afterDash == \E j \in G!Plays(r, "--") : j < i
               IN /\ r[i] = "value" <=> (i > 2 /\ takesNext(i - 1))
                  /\ takesNext(i) => i < Len(list)
                  /\ r[i] \in DOMAIN G!Options => G!IsOption(list[i], r[i])
                  /\ r[i] = "noPty" => list[i] = <<"--no-pty">>
                  /\ r[i] = "--" => list[i] = <<"--">>
                  /\ r[i] = "pos" => afterDash \/ ~G!LooksLikeFlag(list[i])
                  /\ r[i] # "pos" => ~afterDash
  BY <1>5, OptionsAre, Zenon DEF FitsAt, Suits, Awaited, Takes
<1> QED
  BY <1>3, <1>4, <1>6, Zenon DEF G!Fits, Single

LEMMA FittingAre ==
  ASSUME NEW list, Len(list) \in Nat, NEW f \in [2..Len(list) -> G!Roles(list[1])]
  PROVE  f \in Fitting(list) <=> (\A i \in 2..Len(list) : FitsAt(list, f, i)) /\ OneEach(f, Len(list))
BY FitsIs, Zenon DEF Fitting

LEMMA SameBefore ==
  ASSUME NEW list, NEW m \in Nat, NEW f, NEW g, \A i \in 2..m : f[i] = g[i], NEW i \in 2..(m + 1)
  PROVE  (Awaited(list, f, i) <=> Awaited(list, g, i)) /\ (Dashed(f, i) <=> Dashed(g, i))
<1>1. i > 2 => i - 1 \in 2..m
  OBVIOUS
<1>2. \A j \in 2..(i - 1) : j \in 2..m
  OBVIOUS
<1> QED
  BY <1>1, <1>2, Zenon DEF Awaited, Dashed

\* What every reading that fits makes of the next word.
LEMMA NextRole ==
  ASSUME NEW list, Len(list) \in Nat, NEW m \in Nat, m >= 1, m < Len(list), NEW r, Agreed(list, r, m),
         NEW f \in Fitting(list)
  PROVE  /\ f[m + 1] \in G!Roles(list[1])
         /\ Suits(list, m + 1, f[m + 1], Awaited(list, r, m + 1), Dashed(r, m + 1))
         /\ f[m + 1] \in Single => \A i \in 2..m : r[i] # f[m + 1]
<1> DEFINE k == m + 1
<1>1. k \in 2..Len(list) /\ k \in 2..(m + 1) /\ \A i \in 2..m : i \in 2..Len(list) /\ i # k
  OBVIOUS
<1> HIDE DEF k
<1>2. f \in [2..Len(list) -> G!Roles(list[1])]
  BY Zenon DEF Fitting
<1>3. f[k] \in G!Roles(list[1])
  BY <1>1, <1>2, Zenon
<1>4. (\A i \in 2..Len(list) : FitsAt(list, f, i)) /\ OneEach(f, Len(list))
  BY <1>2, FittingAre, Zenon
<1>5. \A i \in 2..m : f[i] = r[i]
  BY Zenon DEF Agreed
<1>6. Suits(list, k, f[k], Awaited(list, r, k), Dashed(r, k))
  <2>1. (Awaited(list, f, k) <=> Awaited(list, r, k)) /\ (Dashed(f, k) <=> Dashed(r, k))
    BY <1>1, <1>5, SameBefore, Zenon
  <2>2. Suits(list, k, f[k], Awaited(list, f, k), Dashed(f, k))
    BY <1>1, <1>4, Zenon DEF FitsAt
  <2> QED
    BY <2>1, <2>2, Zenon DEF Suits
<1>7. ASSUME f[k] \in Single, NEW i \in 2..m, r[i] = f[k] PROVE FALSE
  <2>1. f[i] = f[k] /\ i \in 2..Len(list) /\ i # k
    BY <1>1, <1>5, <1>7, Zenon
  <2> QED
    BY <1>1, <1>4, <1>7, <2>1, Zenon DEF OneEach
<1> QED
  BY <1>3, <1>6, <1>7, Zenon DEF k

\* The next word has a role that it alone may play.
Extended(r, m, x) == [i \in 2..(m + 1) |-> IF i = m + 1 THEN x ELSE r[i]]

Fitted(list, r, m, x) ==
  /\ x \in G!Roles(list[1]) /\ Suits(list, m + 1, x, Awaited(list, r, m + 1), Dashed(r, m + 1))
  /\ x \in Single => Playing(r, m, x) = {}
  /\ \A role \in G!Roles(list[1]) :
       Suits(list, m + 1, role, Awaited(list, r, m + 1), Dashed(r, m + 1)) => role = x
Grown(e, r, m, x) ==
  /\ e[m + 1] = x /\ \A i \in 2..m : e[i] = r[i]
  /\ \A role : Playing(e, m + 1, role)
               = IF role = x THEN Playing(r, m, role) \cup {m + 1} ELSE Playing(r, m, role)

LEMMA Extends ==
  ASSUME NEW list, Len(list) \in Nat, NEW m \in Nat, m >= 1, m < Len(list), NEW r, Agreed(list, r, m),
         NEW x, Fitted(list, r, m, x)
  PROVE  Agreed(list, Extended(r, m, x), m + 1) /\ Grown(Extended(r, m, x), r, m, x)
<1> DEFINE k == m + 1
           e == Extended(r, m, x)
<1>1. k \in 2..k /\ \A i : i \in 2..k <=> i = k \/ i \in 2..m
  OBVIOUS
<1>2. \A i \in 2..m : i # k
  OBVIOUS
<1>12. /\ x \in G!Roles(list[1]) /\ Suits(list, m + 1, x, Awaited(list, r, m + 1), Dashed(r, m + 1))
       /\ x \in Single => \A i \in 2..m : r[i] # x
       /\ \A role \in G!Roles(list[1]) :
            Suits(list, m + 1, role, Awaited(list, r, m + 1), Dashed(r, m + 1)) => role = x
  BY Zenon DEF Fitted, Playing
<1> HIDE DEF k
<1>3. e[k] = x /\ \A i \in 2..m : e[i] = r[i]
  BY <1>1, <1>2, Zenon DEF Extended, k
<1>4. r \in [2..m -> G!Roles(list[1])] /\ (\A i \in 2..m : FitsAt(list, r, i)) /\ OneEach(r, m)
      /\ \A f \in Fitting(list) : \A i \in 2..m : f[i] = r[i]
  BY Zenon DEF Agreed
<1>5. e = [i \in 2..k |-> e[i]]
  BY Zenon DEF Extended, k
<1> HIDE DEF e
<1>6. e \in [2..k -> G!Roles(list[1])]
  <2>1. \A i \in 2..k : e[i] \in G!Roles(list[1])
    BY <1>1, <1>3, <1>4, <1>12, Zenon
  <2> QED
    BY <1>5, <2>1, Zenon
<1>7. ASSUME NEW i \in 2..k PROVE FitsAt(list, e, i)
  <2>1. (Awaited(list, e, i) <=> Awaited(list, r, i)) /\ (Dashed(e, i) <=> Dashed(r, i))
    BY <1>3, SameBefore, Zenon DEF k
  <2>2. Suits(list, i, e[i], Awaited(list, r, i), Dashed(r, i))
    <3>1. CASE i = k
      BY <1>3, <1>12, <3>1, Zenon DEF k
    <3>2. CASE i \in 2..m
      BY <1>3, <1>4, <3>2, Zenon DEF FitsAt
    <3> QED
      BY <1>1, <3>1, <3>2, Zenon
  <2> QED
    BY <2>1, <2>2, Zenon DEF FitsAt, Suits
<1>8. OneEach(e, k)
  <2> SUFFICES ASSUME NEW i \in 2..k, NEW j \in 2..k, e[i] = e[j], e[i] \in Single PROVE i = j
    BY Zenon DEF OneEach
  <2>1. CASE i = k /\ j \in 2..m
    BY <1>3, <1>12, <2>1, Zenon
  <2>2. CASE j = k /\ i \in 2..m
    BY <1>3, <1>12, <2>2, Zenon
  <2>3. CASE i \in 2..m /\ j \in 2..m
    BY <1>3, <1>4, <2>3, Zenon DEF OneEach
  <2> QED
    BY <1>1, <2>1, <2>2, <2>3, Zenon
<1>9. ASSUME NEW f \in Fitting(list), NEW i \in 2..k PROVE f[i] = e[i]
  <2>1. CASE i = k
    <3>1. /\ f[m + 1] \in G!Roles(list[1])
          /\ Suits(list, m + 1, f[m + 1], Awaited(list, r, m + 1), Dashed(r, m + 1))
      BY NextRole, Zenon
    <3>2. f[m + 1] = x
      BY <1>12, <3>1, Zenon
    <3> QED
      BY <1>3, <2>1, <3>2, Zenon DEF k
  <2>2. CASE i \in 2..m
    BY <1>3, <1>4, <2>2, Zenon
  <2> QED
    BY <1>1, <2>1, <2>2, Zenon
<1>10. Agreed(list, e, k)
  BY <1>6, <1>7, <1>8, <1>9, Zenon DEF Agreed
<1>11. ASSUME NEW role
       PROVE  Playing(e, k, role) = IF role = x THEN Playing(r, m, role) \cup {k} ELSE Playing(r, m, role)
  <2>1. ASSUME NEW i
        PROVE  i \in Playing(e, k, role) <=> (i = k /\ role = x) \/ i \in Playing(r, m, role)
    <3>1. CASE i = k
      <4>1. i \in Playing(e, k, role) <=> role = x
        BY <1>1, <1>3, <3>1, Zenon DEF Playing
      <4>2. i \notin Playing(r, m, role)
        BY <1>2, <3>1, Zenon DEF Playing
      <4> QED
        BY <3>1, <4>1, <4>2, Zenon
    <3>2. CASE i # k
      <4>1. i \in 2..k <=> i \in 2..m
        BY <1>1, <3>2, Zenon
      <4>2. i \in 2..m => e[i] = r[i]
        BY <1>3, Zenon
      <4> QED
        BY <3>2, <4>1, <4>2, Zenon DEF Playing
    <3> QED
      BY <3>1, <3>2, Zenon
  <2> HIDE DEF k
  <2> QED
    BY <2>1
<1> QED
  BY <1>3, <1>10, <1>11, Zenon DEF Grown, k, e

\* No role is left for the next word.
Unfit(list, r, m) ==
  \A role \in G!Roles(list[1]) :
    Suits(list, m + 1, role, Awaited(list, r, m + 1), Dashed(r, m + 1)) =>
      role \in Single /\ \E i \in 2..m : r[i] = role

LEMMA NothingFits ==
  ASSUME NEW list, Len(list) \in Nat, NEW m \in Nat, m >= 1, m < Len(list), NEW r, Agreed(list, r, m),
         Unfit(list, r, m)
  PROVE  Fitting(list) = {}
<1> SUFFICES ASSUME NEW f \in Fitting(list) PROVE FALSE
  OBVIOUS
<1>1. /\ f[m + 1] \in G!Roles(list[1])
      /\ Suits(list, m + 1, f[m + 1], Awaited(list, r, m + 1), Dashed(r, m + 1))
      /\ f[m + 1] \in Single => \A i \in 2..m : r[i] # f[m + 1]
  BY NextRole, Zenon
<1> QED
  BY <1>1, Zenon DEF Unfit

(***************************************************************************)
(* What has been understood of the first m words, which play the roles r.  *)
(***************************************************************************)
Rank(P, i) == Cardinality({j \in P : j <= i})
Ranked(list, P, pos) ==
  /\ pos \in Seq(Seq(Letters)) /\ Len(pos) = Cardinality(P)
  /\ \A k \in 1..Len(pos) : \E i \in P : Rank(P, i) = k
  /\ \A i \in P : Rank(P, i) \in 1..Len(pos) /\ pos[Rank(P, i)] = list[i]

ArgNames == {"pos", "rows", "cols", "noPty", "raw"}
AreArgs(a) == a = [f \in ArgNames |-> a[f]] /\ a.noPty \in BOOLEAN /\ a.raw \in BOOLEAN
ValueWord(list, i) == IF Len(list[i]) = 1 THEN list[i + 1] ELSE SubSeq(list[i], 3, Len(list[i]))
Summed(list, r, m, a) ==
  /\ AreArgs(a)
  /\ a.noPty <=> Playing(r, m, "noPty") # {}
  /\ a.raw <=> Playing(r, m, "--") # {}
  /\ \A o \in OptionNames : /\ Playing(r, m, o) = {} => a[o] = <<>>
                            /\ \A i \in Playing(r, m, o) : a[o] = <<ValueWord(list, i)>>
  /\ Ranked(list, Playing(r, m, "pos"), a.pos)

LEMMA RankedMore ==
  ASSUME NEW list, NEW m \in Nat, NEW P, IsFiniteSet(P), \A i \in P : i \in Nat /\ i <= m,
         NEW pos, Ranked(list, P, pos), list[m + 1] \in Seq(Letters)
  PROVE  Ranked(list, P \cup {m + 1}, Append(pos, list[m + 1]))
<1> DEFINE k == m + 1
           P2 == P \cup {k}
           c == Len(pos)
           pos2 == Append(pos, list[k])
<1>1. /\ pos \in Seq(Seq(Letters)) /\ c = Cardinality(P)
      /\ \A n \in 1..c : \E i \in P : Rank(P, i) = n
      /\ \A i \in P : Rank(P, i) \in 1..c /\ pos[Rank(P, i)] = list[i]
  BY Zenon DEF Ranked
<1>2. k \notin P /\ \A i \in P : i <= k /\ ~(k <= i)
  OBVIOUS
<1>3. k \in Nat /\ k <= k
  OBVIOUS
<1>4. list[k] \in Seq(Letters)
  OBVIOUS
<1> HIDE DEF k
<1>5. Cardinality(P2) = c + 1
  BY <1>1, <1>2, FS_AddElement, Zenon
<1>6. /\ pos2 \in Seq(Seq(Letters)) /\ Len(pos2) = c + 1 /\ pos2[c + 1] = list[k]
      /\ \A n \in 1..c : pos2[n] = pos[n]
  BY <1>1, <1>4, OneMoreWord, Zenon
<1>7. c \in Nat
  BY <1>1, FS_CardinalityType, Zenon
<1>8. ASSUME NEW i \in P PROVE Rank(P2, i) = Rank(P, i)
  <2>1. {j \in P2 : j <= i} = {j \in P : j <= i}
    BY <1>2
  <2> QED
    BY <2>1, Zenon DEF Rank
<1>9. Rank(P2, k) = c + 1
  <2>1. {j \in P2 : j <= k} = P2
    BY <1>2, <1>3
  <2> QED
    BY <1>5, <2>1, Zenon DEF Rank
<1> HIDE DEF c, pos2, P2
<1>10. \A n : n \in 1..(c + 1) <=> n \in 1..c \/ n = c + 1
  BY <1>7
<1>11. \A i : i \in P2 <=> i \in P \/ i = k
  BY DEF P2
<1>12. ASSUME NEW n \in 1..(c + 1) PROVE \E i \in P2 : Rank(P2, i) = n
  <2>1. CASE n = c + 1
    BY <1>9, <1>11, <2>1, Zenon
  <2>2. CASE n \in 1..c
    BY <1>1, <1>8, <1>11, <2>2, Zenon
  <2> QED
    BY <1>10, <2>1, <2>2, Zenon
<1>13. ASSUME NEW i \in P2 PROVE Rank(P2, i) \in 1..(c + 1) /\ pos2[Rank(P2, i)] = list[i]
  <2>1. CASE i = k
    BY <1>6, <1>9, <1>10, <2>1, Zenon
  <2>2. CASE i \in P
    <3>1. Rank(P2, i) \in 1..c /\ pos[Rank(P2, i)] = list[i]
      BY <1>1, <1>8, <2>2, Zenon
    <3> QED
      BY <1>6, <1>10, <3>1, Zenon
  <2> QED
    BY <1>11, <2>1, <2>2, Zenon
<1> QED
  BY <1>5, <1>6, <1>12, <1>13, Zenon DEF Ranked, P2, k, pos2

\* What is noted of the word at i, which plays the role x.
Notes(list, a, b, i, x) ==
  /\ AreArgs(b)
  /\ b.noPty <=> (a.noPty \/ x = "noPty")
  /\ b.raw <=> (a.raw \/ x = "--")
  /\ \A o \in OptionNames : b[o] = IF o = x THEN <<ValueWord(list, i)>> ELSE a[o]
  /\ b.pos = IF x = "pos" THEN Append(a.pos, list[i]) ELSE a.pos

LEMMA SummedMore ==
  ASSUME NEW list, NEW m \in Nat, NEW r, NEW e, NEW x, NEW a, NEW b, Summed(list, r, m, a),
         Grown(e, r, m, x), Notes(list, a, b, m + 1, x), x \in Single => Playing(r, m, x) = {}, list[m + 1] \in Seq(Letters)
  PROVE  Summed(list, e, m + 1, b)
<1> DEFINE k == m + 1
           Old(role) == Playing(r, m, role)
           New(role) == Playing(e, k, role)
<1>1. \A role : New(role) = IF role = x THEN Old(role) \cup {k} ELSE Old(role)
  BY Zenon DEF Grown
<1>2. /\ AreArgs(a) /\ (a.noPty <=> Old("noPty") # {}) /\ (a.raw <=> Old("--") # {})
      /\ \A o \in OptionNames : /\ Old(o) = {} => a[o] = <<>>
                                /\ \A i \in Old(o) : a[o] = <<ValueWord(list, i)>>
      /\ Ranked(list, Old("pos"), a.pos)
  BY Zenon DEF Summed
<1>3. /\ AreArgs(b) /\ (b.noPty <=> (a.noPty \/ x = "noPty")) /\ (b.raw <=> (a.raw \/ x = "--"))
      /\ \A o \in OptionNames : b[o] = IF o = x THEN <<ValueWord(list, k)>> ELSE a[o]
      /\ b.pos = IF x = "pos" THEN Append(a.pos, list[k]) ELSE a.pos
  BY Zenon DEF Notes
<1>4. IsFiniteSet(Old("pos")) /\ \A i \in Old("pos") : i \in Nat /\ i <= m
  BY PlayingFinite, Zenon
<1>5. list[k] \in Seq(Letters)
  OBVIOUS
<1>6. x \in Single => Old(x) = {}
  OBVIOUS
<1>7. Ranked(list, Old("pos"), a.pos) => Ranked(list, Old("pos") \cup {k}, Append(a.pos, list[k]))
  BY <1>4, RankedMore, Zenon
<1> HIDE DEF k, Old, New
<1>8. \A role : New(role) # {} <=> (role = x \/ Old(role) # {})
  BY <1>1, Zenon
<1>9. ASSUME NEW o \in OptionNames
      PROVE  (New(o) = {} => b[o] = <<>>) /\ \A i \in New(o) : b[o] = <<ValueWord(list, i)>>
  <2>1. CASE o = x
    <3>1. New(o) = {k}
      <4>1. Old(o) = {}
        BY <1>6, <2>1 DEF OptionNames, Single
      <4> QED
        BY <1>1, <2>1, <4>1, Zenon
    <3> QED
      BY <1>3, <2>1, <3>1, Zenon
  <2>2. CASE o # x
    BY <1>1, <1>2, <1>3, <2>2, Zenon
  <2> QED
    BY <2>1, <2>2, Zenon
<1>10. Ranked(list, New("pos"), b.pos)
  <2>1. CASE x = "pos"
    BY <1>1, <1>2, <1>3, <1>7, <2>1, Zenon
  <2>2. CASE x # "pos"
    BY <1>1, <1>2, <1>3, <2>2, Zenon
  <2> QED
    BY <2>1, <2>2, Zenon
<1>11. (b.noPty <=> New("noPty") # {}) /\ (b.raw <=> New("--") # {})
  BY <1>2, <1>3, <1>8, Zenon
<1> QED
  BY <1>3, <1>9, <1>10, <1>11, Zenon DEF Summed, New, k

(***************************************************************************)
(* Each word has at most one role that suits it.                           *)
(***************************************************************************)
LEMMA OneWord == \A c : <<c>> # <<>> /\ <<c>>[1] = c /\ Len(<<c>>) = 1
OBVIOUS

LEMMA FlagWords ==
  /\ G!LooksLikeFlag(<<"--">>) /\ G!LooksLikeFlag(<<"--no-pty">>)
  /\ \A w, o : o \in OptionNames /\ G!IsOption(w, o) => G!LooksLikeFlag(w)
<1>1. ASSUME NEW c \in {"--", "--no-pty", "--rows", "--cols"}, NEW w, w # <<>>, w[1] = c PROVE G!LooksLikeFlag(w)
  BY <1>1, Zenon DEF G!LooksLikeFlag
<1>2. G!LooksLikeFlag(<<"--">>) /\ G!LooksLikeFlag(<<"--no-pty">>)
  BY <1>1, OneWord, Zenon
<1>3. ASSUME NEW w, NEW o \in OptionNames, G!IsOption(w, o) PROVE G!LooksLikeFlag(w)
  <2>1. w # <<>> /\ w[1] = G!Options[o]
    BY <1>3, Zenon DEF G!IsOption
  <2> QED
    BY <1>1, <2>1, OptionsAre, Zenon DEF OptionNames
<1> QED
  BY <1>2, <1>3, Zenon

\* The piece that a flag of this role begins with.
FlagHead(role) == CASE role = "--" -> "--" [] role = "noPty" -> "--no-pty"
                [] role = "rows" -> "--rows" [] role = "cols" -> "--cols"

LEMMA HeadsDiffer == \A x, y \in Single : FlagHead(x) = FlagHead(y) => x = y
BY DEF Single, FlagHead

LEMMA FlagRole ==
  ASSUME NEW list, NEW i, NEW role \in EveryRole, NEW dashed \in BOOLEAN, Suits(list, i, role, FALSE, dashed)
  PROVE  \/ role = "pos" /\ (dashed \/ ~G!LooksLikeFlag(list[i]))
         \/ role \in Single /\ ~dashed /\ G!LooksLikeFlag(list[i]) /\ list[i][1] = FlagHead(role)
<1>1. role # "value"
  BY Zenon DEF Suits
<1>2. CASE role = "pos"
  BY <1>2, Zenon DEF Suits
<1>3. CASE role = "--"
  <2>1. list[i] = <<"--">> /\ ~dashed
    BY <1>3, Zenon DEF Suits
  <2>2. FlagHead(role) = "--"
    BY <1>3, Zenon DEF FlagHead
  <2>3. role \in Single
    BY <1>3, Zenon DEF Single
  <2> QED
    BY <2>1, <2>2, <2>3, FlagWords, OneWord, Zenon
<1>4. CASE role = "noPty"
  <2>1. list[i] = <<"--no-pty">> /\ ~dashed
    BY <1>4, Zenon DEF Suits
  <2>2. FlagHead(role) = "--no-pty"
    BY <1>4 DEF FlagHead
  <2>3. role \in Single
    BY <1>4, Zenon DEF Single
  <2> QED
    BY <2>1, <2>2, <2>3, FlagWords, OneWord, Zenon
<1>5. CASE role \in OptionNames
  <2>1. G!IsOption(list[i], role) /\ role \in Single /\ role # "pos"
    BY <1>5, Zenon DEF Suits, Single, OptionNames
  <2>2. ~dashed
    BY <2>1, Zenon DEF Suits
  <2>3. list[i][1] = G!Options[role]
    BY <2>1, Zenon DEF G!IsOption
  <2>4. G!Options[role] = FlagHead(role)
    BY <1>5, OptionsAre DEF OptionNames, FlagHead
  <2> QED
    BY <1>5, <2>1, <2>2, <2>3, <2>4, FlagWords, Zenon
<1> QED
  BY <1>1, <1>2, <1>3, <1>4, <1>5, Zenon DEF EveryRole, OptionNames

(***************************************************************************)
(* What the reader of words makes of the next one: the role that suits it, *)
(* or none.                                                                *)
(***************************************************************************)
MostOf(kind) == CASE kind = <<"loopback">> -> 1 [] kind = <<"pipe">> -> 3 [] kind = <<"exec">> -> 1

Parsed(list, here, a) ==
  /\ here \in Nat /\ 2 <= here /\ here <= Len(list) + 1
  /\ Len(a.pos) <= MostOf(list[1])
  /\ \E r : Agreed(list, r, here - 1) /\ ~Awaited(list, r, here) /\ Summed(list, r, here - 1, a)

Standing(list, r, m) ==
  /\ m \in Nat /\ m >= 1 /\ m < Len(list) /\ at = m + 1
  /\ Agreed(list, r, m) /\ ~Awaited(list, r, m + 1) /\ Summed(list, r, m, args)
  /\ args.raw \in BOOLEAN /\ (Dashed(r, m + 1) <=> args.raw) /\ list[m + 1] \in Seq(Letters)
  /\ Len(args.pos) \in Nat /\ Len(args.pos) <= MostOf(list[1])

LEMMA DashedIs == ASSUME NEW r, NEW m \in Nat PROVE Dashed(r, m + 1) <=> Playing(r, m, "--") # {}
<1>1. 2..(m + 1 - 1) = 2..m
  OBVIOUS
<1>2. Dashed(r, m + 1) <=> \E j \in 2..m : r[j] = "--"
  BY <1>1 DEF Dashed
<1> QED
  BY <1>2, Zenon DEF Playing

LEMMA Stands ==
  ASSUME NEW list \in Seq(Seq(Letters)), Parsed(list, at, args), at <= Len(list)
  PROVE  \E r, m : Standing(list, r, m)
<1>1. at \in Nat /\ 2 <= at /\ Len(args.pos) <= MostOf(list[1])
  BY Zenon DEF Parsed
<1>2. PICK r : Agreed(list, r, at - 1) /\ ~Awaited(list, r, at) /\ Summed(list, r, at - 1, args)
  BY Zenon DEF Parsed
<1> DEFINE m == at - 1
<1>3. m \in Nat /\ m >= 1 /\ m < Len(list) /\ at = m + 1 /\ list[m + 1] \in Seq(Letters)
  BY <1>1
<1>4. \A j : j \in 2..(m + 1 - 1) <=> j \in 2..m
  BY <1>3
<1> HIDE DEF m
<1>5. Dashed(r, m + 1) <=> Playing(r, m, "--") # {}
  BY <1>3, DashedIs, Zenon
<1>6. args.raw \in BOOLEAN /\ (args.raw <=> Playing(r, m, "--") # {})
  BY <1>2, Zenon DEF Summed, AreArgs, m
<1>7. Len(args.pos) \in Nat
  <2>1. args.pos \in Seq(Seq(Letters))
    BY <1>2, Zenon DEF Summed, Ranked
  <2> QED
    BY <2>1
<1>8. Agreed(list, r, m) /\ ~Awaited(list, r, m + 1) /\ Summed(list, r, m, args)
  BY <1>2, <1>3, Zenon DEF m
<1> QED
  BY <1>1, <1>3, <1>5, <1>6, <1>7, <1>8, Zenon DEF Standing

LEMMA RolesAre ==
  ASSUME NEW kind \in G!Kinds
  PROVE  /\ G!Roles(kind) \subseteq EveryRole /\ "pos" \in G!Roles(kind) /\ "--" \in G!Roles(kind)
         /\ kind = <<"exec">> => G!Roles(kind) = EveryRole
         /\ kind # <<"exec">> => G!Roles(kind) = {"pos", "--"}
BY Zenon DEF G!Roles, EveryRole

LEMMA SuitsSame ==
  ASSUME NEW list, NEW i, NEW role, NEW a1, NEW a2, NEW d1, NEW d2, a1 <=> a2, d1 <=> d2
  PROVE  Suits(list, i, role, a1, d1) <=> Suits(list, i, role, a2, d2)
BY Zenon DEF Suits

\* At most one role suits a word.
OneSuits(list, i, dashed) ==
  \A x, y \in EveryRole : Suits(list, i, x, FALSE, dashed) /\ Suits(list, i, y, FALSE, dashed) => x = y

LEMMA OnlySuits == ASSUME NEW list, NEW i, NEW dashed \in BOOLEAN PROVE OneSuits(list, i, dashed)
<1> SUFFICES ASSUME NEW x \in EveryRole, NEW y \in EveryRole, Suits(list, i, x, FALSE, dashed), Suits(list, i, y, FALSE, dashed)
             PROVE  x = y
  BY Zenon DEF OneSuits
<1>1. \/ x = "pos" /\ (dashed \/ ~G!LooksLikeFlag(list[i]))
      \/ x \in Single /\ ~dashed /\ G!LooksLikeFlag(list[i]) /\ list[i][1] = FlagHead(x)
  BY FlagRole, Zenon
<1>2. \/ y = "pos" /\ (dashed \/ ~G!LooksLikeFlag(list[i]))
      \/ y \in Single /\ ~dashed /\ G!LooksLikeFlag(list[i]) /\ list[i][1] = FlagHead(y)
  BY FlagRole, Zenon
<1> QED
  BY <1>1, <1>2, HeadsDiffer, Zenon

\* The role x suits the next word, as what has been understood of those before it stands.
Chosen(list, r, m, x) ==
  /\ x \in G!Roles(list[1]) /\ Suits(list, m + 1, x, FALSE, args.raw)
  /\ x \in Single => Playing(r, m, x) = {}

LEMMA OneOn ==
  ASSUME NEW list, Len(list) \in Nat, list[1] \in G!Kinds, NEW r, NEW m, Standing(list, r, m),
         NEW x, Chosen(list, r, m, x), NEW b, Notes(list, args, b, m + 1, x)
  PROVE  /\ Agreed(list, Extended(r, m, x), m + 1) /\ Summed(list, Extended(r, m, x), m + 1, b)
         /\ Grown(Extended(r, m, x), r, m, x)
<1> DEFINE A == Awaited(list, r, m + 1)
           D == Dashed(r, m + 1)
<1>1. /\ m \in Nat /\ m >= 1 /\ m < Len(list) /\ Agreed(list, r, m) /\ Summed(list, r, m, args)
      /\ args.raw \in BOOLEAN /\ list[m + 1] \in Seq(Letters)
  BY Zenon DEF Standing
<1>2. (A <=> FALSE) /\ (D <=> args.raw)
  BY Zenon DEF Standing
<1>6. /\ x \in G!Roles(list[1]) /\ Suits(list, m + 1, x, FALSE, args.raw)
      /\ x \in Single => Playing(r, m, x) = {}
  BY Zenon DEF Chosen
<1> HIDE DEF A, D
<1>3. ASSUME NEW role PROVE Suits(list, m + 1, role, A, D) <=> Suits(list, m + 1, role, FALSE, args.raw)
  BY <1>2, SuitsSame, Zenon
<1>4. ASSUME NEW role \in G!Roles(list[1]), Suits(list, m + 1, role, A, D) PROVE role = x
  <2>1. Suits(list, m + 1, role, FALSE, args.raw)
    BY <1>3, <1>4, Zenon
  <2>2. role \in EveryRole /\ x \in EveryRole
    BY <1>6, RolesAre, Zenon
  <2>3. Suits(list, m + 1, x, FALSE, args.raw) /\ args.raw \in BOOLEAN
    BY <1>1, <1>6, Zenon
  <2>4. OneSuits(list, m + 1, args.raw)
    BY <1>1, OnlySuits, Zenon
  <2> QED
    BY <2>1, <2>2, <2>3, <2>4, Zenon DEF OneSuits
<1>5. Suits(list, m + 1, x, A, D)
  BY <1>3, <1>6, Zenon
<1>7. Fitted(list, r, m, x)
  BY <1>4, <1>5, <1>6, Zenon DEF Fitted, A, D
<1>8. Agreed(list, Extended(r, m, x), m + 1) /\ Grown(Extended(r, m, x), r, m, x)
  BY <1>1, <1>7, Extends, Zenon
<1>9. Summed(list, Extended(r, m, x), m + 1, b)
  BY <1>1, <1>6, <1>8, SummedMore, Zenon
<1> QED
  BY <1>8, <1>9, Zenon

LEMMA GoesOn ==
  ASSUME NEW list, Len(list) \in Nat, list[1] \in G!Kinds, NEW r, NEW m, Standing(list, r, m),
         NEW x, Chosen(list, r, m, x), ~Takes(list, m + 1, x), NEW b, Notes(list, args, b, m + 1, x),
         Len(b.pos) <= MostOf(list[1])
  PROVE  Parsed(list, m + 2, b)
<1> DEFINE e == Extended(r, m, x)
<1>5. Agreed(list, e, m + 1) /\ Summed(list, e, m + 1, b) /\ Grown(e, r, m, x)
  BY OneOn, Zenon
<1> HIDE DEF e
<1>1. Agreed(list, e, m + 1) /\ Summed(list, e, m + 1, b) /\ e[m + 1] = x
  BY <1>5, Zenon DEF Grown
<1>2. m \in Nat /\ m < Len(list)
  BY Zenon DEF Standing
<1>3. m + 2 \in Nat /\ 2 <= m + 2 /\ m + 2 <= Len(list) + 1 /\ m + 2 - 1 = m + 1
  BY <1>2
<1> DEFINE k == m + 1
           n == m + 2
<1>6. ~Takes(list, k, e[k])
  BY <1>1, Zenon
<1>7. n - 1 = k
  BY <1>2
<1>8. Agreed(list, e, k) /\ Summed(list, e, k, b) /\ n \in Nat /\ 2 <= n /\ n <= Len(list) + 1
  BY <1>1, <1>3, Zenon
<1> HIDE DEF k, n
<1>4. ~Awaited(list, e, n)
  BY <1>6, <1>7, Zenon DEF Awaited
<1>9. Parsed(list, n, b)
  BY <1>4, <1>7, <1>8, Zenon DEF Parsed
<1> QED
  BY <1>9, Zenon DEF n

LEMMA NoMeaning == ASSUME NEW list, \A f \in Fitting(list) : G!Means(list, f) = G!Failed PROVE G!Meanings(list) = {}
BY Zenon DEF G!Meanings, Fitting

Roleless(list, r, m) ==
  \A role \in G!Roles(list[1]) :
    Suits(list, m + 1, role, FALSE, args.raw) => role \in Single /\ Playing(r, m, role) # {}

LEMMA NoRole ==
  ASSUME NEW list, Len(list) \in Nat, NEW r, NEW m, Standing(list, r, m), Roleless(list, r, m)
  PROVE  G!Meanings(list) = {}
<1> DEFINE A == Awaited(list, r, m + 1)
           D == Dashed(r, m + 1)
<1>1. m \in Nat /\ m >= 1 /\ m < Len(list) /\ Agreed(list, r, m)
  BY Zenon DEF Standing
<1>2. (A <=> FALSE) /\ (D <=> args.raw)
  BY Zenon DEF Standing
<1> HIDE DEF A, D
<1>3. ASSUME NEW role PROVE Suits(list, m + 1, role, A, D) <=> Suits(list, m + 1, role, FALSE, args.raw)
  BY <1>2, SuitsSame, Zenon
<1>4. ASSUME NEW role \in G!Roles(list[1]), Suits(list, m + 1, role, A, D)
      PROVE  role \in Single /\ \E i \in 2..m : r[i] = role
  BY <1>3, <1>4, Zenon DEF Roleless, Playing
<1>5. Unfit(list, r, m)
  BY <1>4, Zenon DEF Unfit, A, D
<1>6. Fitting(list) = {}
  BY <1>1, <1>5, NothingFits, Zenon
<1> QED
  BY <1>6, NoMeaning, Zenon

LEMMA SuitsPos ==
  ASSUME NEW list, NEW i, NEW dashed \in BOOLEAN, dashed \/ ~G!LooksLikeFlag(list[i])
  PROVE  Suits(list, i, "pos", FALSE, dashed) /\ ~Takes(list, i, "pos")
BY Zenon DEF Suits, Takes, OptionNames

LEMMA SuitsMark ==
  ASSUME NEW list, NEW i
  PROVE  /\ list[i] = <<"--">> => Suits(list, i, "--", FALSE, FALSE)
         /\ list[i] = <<"--no-pty">> => Suits(list, i, "noPty", FALSE, FALSE)
         /\ ~Takes(list, i, "--") /\ ~Takes(list, i, "noPty") /\ ~Takes(list, i, "value")
BY Zenon DEF Suits, Takes, OptionNames

LEMMA SuitsOption ==
  ASSUME NEW list, NEW i, NEW o \in OptionNames, G!IsOption(list[i], o), Len(list[i]) = 1 => i < Len(list)
  PROVE  Suits(list, i, o, FALSE, FALSE)
BY Zenon DEF Suits, Takes, OptionNames

LEMMA NotesAre ==
  ASSUME NEW list, NEW i, NEW a, AreArgs(a)
  PROVE  /\ Notes(list, a, [a EXCEPT !.raw = TRUE], i, "--")
         /\ Notes(list, a, [a EXCEPT !.noPty = TRUE], i, "noPty")
         /\ Notes(list, a, [a EXCEPT !.pos = Append(@, list[i])], i, "pos")
         /\ \A o \in OptionNames : Notes(list, a, [a EXCEPT ![o] = <<ValueWord(list, i)>>], i, o)
         /\ Notes(list, a, a, i, "value")
<1>1. a = [f \in ArgNames |-> a[f]] /\ a.noPty \in BOOLEAN /\ a.raw \in BOOLEAN
  BY Zenon DEF AreArgs
<1>2. ASSUME NEW f \in ArgNames, NEW v
      PROVE  LET b == [a EXCEPT ![f] = v]
             IN  b = [g \in ArgNames |-> b[g]] /\ b[f] = v /\ \A g \in ArgNames : g # f => b[g] = a[g]
  BY <1>1
<1>3. "raw" \in ArgNames /\ "noPty" \in ArgNames /\ "pos" \in ArgNames /\ \A o \in OptionNames : o \in ArgNames
  BY DEF ArgNames, OptionNames
<1>4. /\ "raw" # "noPty" /\ "raw" # "pos" /\ "noPty" # "pos"
      /\ \A o \in OptionNames : o # "raw" /\ o # "noPty" /\ o # "pos" /\ o # "--" /\ o # "value"
      /\ "--" # "noPty" /\ "--" # "pos" /\ "value" # "--" /\ "value" # "noPty" /\ "value" # "pos"
  BY DEF OptionNames
<1>5. Notes(list, a, [a EXCEPT !.raw = TRUE], i, "--")
  <2> DEFINE b == [a EXCEPT !.raw = TRUE]
  <2>1. b = [g \in ArgNames |-> b[g]] /\ b.raw = TRUE /\ b.noPty = a.noPty /\ b.pos = a.pos
        /\ \A o \in OptionNames : b[o] = a[o]
    BY <1>1, <1>3, <1>4
  <2> HIDE DEF b
  <2>2. AreArgs(b)
    BY <1>1, <2>1, Zenon DEF AreArgs
  <2>3. Notes(list, a, b, i, "--")
    BY <1>1, <1>4, <2>1, <2>2, Zenon DEF Notes
  <2> QED
    BY <2>3, Zenon DEF b
<1>6. Notes(list, a, [a EXCEPT !.noPty = TRUE], i, "noPty")
  <2> DEFINE b == [a EXCEPT !.noPty = TRUE]
  <2>1. b = [g \in ArgNames |-> b[g]] /\ b.raw = a.raw /\ b.noPty = TRUE /\ b.pos = a.pos
        /\ \A o \in OptionNames : b[o] = a[o]
    BY <1>1, <1>3, <1>4
  <2> HIDE DEF b
  <2>2. AreArgs(b)
    BY <1>1, <2>1, Zenon DEF AreArgs
  <2>3. Notes(list, a, b, i, "noPty")
    BY <1>1, <1>4, <2>1, <2>2, Zenon DEF Notes
  <2> QED
    BY <2>3, Zenon DEF b
<1>7. Notes(list, a, [a EXCEPT !.pos = Append(@, list[i])], i, "pos")
  <2> DEFINE b == [a EXCEPT !.pos = Append(@, list[i])]
  <2>1. b = [g \in ArgNames |-> b[g]] /\ b.raw = a.raw /\ b.noPty = a.noPty /\ b.pos = Append(a.pos, list[i])
        /\ \A o \in OptionNames : b[o] = a[o]
    BY <1>1, <1>3, <1>4
  <2> HIDE DEF b
  <2>2. AreArgs(b)
    BY <1>1, <2>1, Zenon DEF AreArgs
  <2>3. Notes(list, a, b, i, "pos")
    BY <1>1, <1>4, <2>1, <2>2, Zenon DEF Notes
  <2> QED
    BY <2>3, Zenon DEF b
<1>8. ASSUME NEW o \in OptionNames PROVE Notes(list, a, [a EXCEPT ![o] = <<ValueWord(list, i)>>], i, o)
  <2> DEFINE v == <<ValueWord(list, i)>>
             b == [a EXCEPT ![o] = v]
  <2> HIDE DEF v
  <2>1. b = [g \in ArgNames |-> b[g]] /\ b.raw = a.raw /\ b.noPty = a.noPty /\ b.pos = a.pos /\ b[o] = v
        /\ \A p \in OptionNames : p # o => b[p] = a[p]
    BY <1>1, <1>3, <1>4
  <2> HIDE DEF b
  <2>2. AreArgs(b)
    BY <1>1, <2>1, Zenon DEF AreArgs
  <2>3. Notes(list, a, b, i, o)
    BY <1>1, <1>4, <2>1, <2>2, Zenon DEF Notes, v
  <2> QED
    BY <2>3, Zenon DEF b, v
<1>9. Notes(list, a, a, i, "value")
  BY <1>1, <1>4, Zenon DEF Notes
<1> QED
  BY <1>5, <1>6, <1>7, <1>8, <1>9, Zenon

(***************************************************************************)
(* What a step of the reader of words does.                                *)
(***************************************************************************)
Reads(list) ==
  /\ list \in Seq(Seq(Letters)) /\ list[1] \in G!Kinds /\ words = list /\ phase = "parse"
  /\ Parsed(list, at, args)
Progressed(list) == phase' = phase /\ Parsed(list, at', args')
Refused(list) == phase' = "done" /\ result' = G!Failed /\ G!Meanings(list) = {}

LEMMA NotedIs ==
  ASSUME NEW list, NEW r, NEW m, NEW a, Summed(list, r, m, a)
  PROVE  /\ AreArgs(a) /\ (a.raw <=> Playing(r, m, "--") # {}) /\ (a.noPty <=> Playing(r, m, "noPty") # {})
         /\ \A o \in OptionNames : a[o] # <<>> <=> Playing(r, m, o) # {}
<1>1. ASSUME NEW w PROVE <<w>> # <<>>
  OBVIOUS
<1>2. /\ AreArgs(a) /\ (a.raw <=> Playing(r, m, "--") # {}) /\ (a.noPty <=> Playing(r, m, "noPty") # {})
      /\ \A o \in OptionNames : /\ Playing(r, m, o) = {} => a[o] = <<>>
                                /\ \A i \in Playing(r, m, o) : a[o] = <<ValueWord(list, i)>>
  BY Zenon DEF Summed
<1>3. ASSUME NEW o \in OptionNames PROVE a[o] # <<>> <=> Playing(r, m, o) # {}
  <2>1. CASE Playing(r, m, o) = {}
    BY <1>2, <2>1, Zenon
  <2>2. ASSUME NEW i \in Playing(r, m, o) PROVE a[o] # <<>>
    BY <1>1, <1>2, <2>2, Zenon
  <2> QED
    BY <2>1, <2>2
<1> QED
  BY <1>2, <1>3, Zenon

\* Where the reader stands when there is a next word.
LEMMA ReadsIs ==
  ASSUME NEW list, Reads(list), at <= Len(words)
  PROVE  /\ words = list /\ Len(list) \in Nat /\ list[1] \in G!Kinds
         /\ \E r, m : Standing(list, r, m)
<1>1. list \in Seq(Seq(Letters)) /\ words = list /\ Parsed(list, at, args) /\ list[1] \in G!Kinds
  BY Zenon DEF Reads
<1>2. at <= Len(list)
  BY <1>1, Zenon
<1>3. Len(list) \in Nat
  BY <1>1
<1> QED
  BY <1>1, <1>2, <1>3, Stands, Zenon

LEMMA StandingIs ==
  ASSUME NEW list, NEW r, NEW m, Standing(list, r, m)
  PROVE  /\ m \in Nat /\ m >= 1 /\ at = m + 1 /\ at + 1 = m + 2 /\ at + 2 = m + 3 /\ m < Len(list)
         /\ Summed(list, r, m, args) /\ args.raw \in BOOLEAN /\ AreArgs(args)
         /\ Len(args.pos) \in Nat /\ Len(args.pos) <= MostOf(list[1]) /\ list[m + 1] \in Seq(Letters)
<1>1. /\ m \in Nat /\ m >= 1 /\ at = m + 1 /\ Summed(list, r, m, args) /\ args.raw \in BOOLEAN /\ m < Len(list)
      /\ Len(args.pos) \in Nat /\ Len(args.pos) <= MostOf(list[1]) /\ list[m + 1] \in Seq(Letters)
  BY Zenon DEF Standing
<1>2. AreArgs(args)
  BY <1>1, NotedIs, Zenon
<1>3. at + 1 = m + 2 /\ at + 2 = m + 3
  BY <1>1
<1> QED
  BY <1>1, <1>2, <1>3, Zenon

\* A word that has its role is taken.
LEMMA TakesOne ==
  ASSUME NEW list, Len(list) \in Nat, list[1] \in G!Kinds, NEW r, NEW m, Standing(list, r, m),
         NEW x, x \in G!Roles(list[1]), Suits(list, m + 1, x, FALSE, args.raw),
         x \in Single => Playing(r, m, x) = {}, ~Takes(list, m + 1, x),
         Notes(list, args, args', m + 1, x), x = "pos" => Len(args.pos) # MostOf(list[1]),
         at' = at + 1, phase' = phase
  PROVE  Progressed(list)
<1>1. Chosen(list, r, m, x)
  BY Zenon DEF Chosen
<1> DEFINE p == args.pos
           q == args'.pos
           most == MostOf(list[1])
           w == list[m + 1]
<1>2. Len(p) \in Nat /\ Len(p) <= most /\ w \in Seq(Letters) /\ p \in Seq(Seq(Letters))
  <2>1. Len(p) \in Nat /\ Len(p) <= most /\ w \in Seq(Letters) /\ Summed(list, r, m, args)
    BY StandingIs, Zenon
  <2> QED
    BY <2>1, Zenon DEF Summed, Ranked
<1>3. q = IF x = "pos" THEN Append(p, w) ELSE p
  BY Zenon DEF Notes
<1>4. MostOf(list[1]) \in Nat
  BY DEF MostOf, G!Kinds
<1>5. x = "pos" => Len(p) # most
  OBVIOUS
<1> HIDE DEF p, q, most, w
<1>6. Len(Append(p, w)) = Len(p) + 1
  BY <1>2, OneMoreWord, Zenon
<1>7. most \in Nat
  BY <1>4, Zenon DEF most
<1>8. Len(p) + 1 <= most \/ Len(p) = most
  BY <1>2, <1>7
<1>9. Len(q) <= most
  BY <1>2, <1>3, <1>5, <1>6, <1>8, Zenon
<1>10. Parsed(list, m + 2, args')
  BY <1>1, <1>9, GoesOn, Zenon DEF q, most
<1>11. at' = m + 2
  BY StandingIs, Zenon
<1> QED
  BY <1>10, <1>11, Zenon DEF Progressed

OfItsRole(list, i, role, dashed) ==
  \/ role = "pos" /\ (dashed \/ ~G!LooksLikeFlag(list[i]))
  \/ role \in Single /\ ~dashed /\ G!LooksLikeFlag(list[i]) /\ list[i][1] = FlagHead(role)

LEMMA SuitsItsRole ==
  ASSUME NEW list, NEW i, NEW role \in EveryRole, NEW dashed \in BOOLEAN, Suits(list, i, role, FALSE, dashed)
  PROVE  OfItsRole(list, i, role, dashed)
BY FlagRole, Zenon DEF OfItsRole

\* A flag whose role is taken, or does not suit it, leaves none.
LEMMA Repeats ==
  ASSUME NEW list, Len(list) \in Nat, list[1] \in G!Kinds, NEW r, NEW m, Standing(list, r, m),
         ~args.raw, G!LooksLikeFlag(list[m + 1]), NEW x \in Single, list[m + 1][1] = FlagHead(x),
         Playing(r, m, x) # {} \/ ~Suits(list, m + 1, x, FALSE, args.raw)
  PROVE  G!Meanings(list) = {}
<1>1. ASSUME NEW role \in G!Roles(list[1]), Suits(list, m + 1, role, FALSE, args.raw)
      PROVE  role \in Single /\ Playing(r, m, role) # {}
  <2>1. role \in EveryRole
    BY RolesAre, Zenon
  <2>2. args.raw \in BOOLEAN
    BY StandingIs, Zenon
  <2>3. OfItsRole(list, m + 1, role, args.raw)
    BY <1>1, <2>1, <2>2, SuitsItsRole, Zenon
  <2>4. role \in Single /\ FlagHead(role) = FlagHead(x)
    BY <2>3, Zenon DEF OfItsRole
  <2>5. role = x
    BY <2>4, HeadsDiffer, Zenon
  <2> QED
    BY <1>1, <2>4, <2>5, Zenon
<1>2. Roleless(list, r, m)
  BY <1>1, Zenon DEF Roleless
<1> QED
  BY <1>2, NoRole, Zenon

LEMMA DashDashReads ==
  ASSUME NEW list, Reads(list), G!DashDash
  PROVE  Progressed(list)
<1>1. /\ at <= Len(words) /\ ~args.raw /\ words[at] = <<"--">> /\ at' = at + 1
      /\ args' = [args EXCEPT !.raw = TRUE] /\ phase' = phase
  BY Zenon DEF G!DashDash, G!Parsing, G!NextWord, G!Understand
<1>2. words = list /\ Len(list) \in Nat /\ list[1] \in G!Kinds /\ \E r, m : Standing(list, r, m)
  BY <1>1, ReadsIs, Zenon
<1>3. PICK r, m : Standing(list, r, m)
  BY <1>2, Zenon
<1>4. m \in Nat /\ at = m + 1 /\ AreArgs(args) /\ Summed(list, r, m, args)
  BY <1>3, StandingIs, Zenon
<1>5. "--" \in G!Roles(list[1])
  BY <1>2, RolesAre, Zenon
<1>6. list[m + 1] = <<"--">>
  BY <1>1, <1>2, <1>4, Zenon
<1>7. Suits(list, m + 1, "--", FALSE, args.raw) /\ ~Takes(list, m + 1, "--")
  <2>1. Suits(list, m + 1, "--", FALSE, FALSE) /\ ~Takes(list, m + 1, "--")
    BY <1>6, SuitsMark, Zenon
  <2> QED
    BY <1>1, <2>1, SuitsSame, Zenon
<1>8. Playing(r, m, "--") = {}
  BY <1>1, <1>4, NotedIs, Zenon
<1>9. Notes(list, args, args', m + 1, "--")
  BY <1>1, <1>4, NotesAre, Zenon
<1>10. "--" # "pos"
  OBVIOUS
<1> QED
  BY <1>1, <1>2, <1>3, <1>5, <1>7, <1>8, <1>9, <1>10, TakesOne, Zenon

LEMMA NoPtyReads ==
  ASSUME NEW list, Reads(list), G!NoPty
  PROVE  Progressed(list) \/ Refused(list)
<1>1. /\ at <= Len(words) /\ ~args.raw /\ words[1] = <<"exec">> /\ words[at] = <<"--no-pty">>
      /\ args.noPty => phase' = "done" /\ result' = G!Failed
      /\ ~args.noPty => at' = at + 1 /\ args' = [args EXCEPT !.noPty = TRUE] /\ phase' = phase
  BY Zenon DEF G!NoPty, G!Flag, G!Kind, G!Parsing, G!NextWord, G!Understand, G!Refuse, G!Fail
<1>2. words = list /\ Len(list) \in Nat /\ list[1] \in G!Kinds /\ \E r, m : Standing(list, r, m)
  BY <1>1, ReadsIs, Zenon
<1>3. PICK r, m : Standing(list, r, m)
  BY <1>2, Zenon
<1>4. m \in Nat /\ at = m + 1 /\ AreArgs(args) /\ Summed(list, r, m, args)
  BY <1>3, StandingIs, Zenon
<1>5. "noPty" \in G!Roles(list[1])
  BY <1>1, <1>2, RolesAre, Zenon DEF EveryRole
<1>6. list[m + 1] = <<"--no-pty">>
  BY <1>1, <1>2, <1>4, Zenon
<1>7. Suits(list, m + 1, "noPty", FALSE, args.raw) /\ ~Takes(list, m + 1, "noPty")
  <2>1. Suits(list, m + 1, "noPty", FALSE, FALSE) /\ ~Takes(list, m + 1, "noPty")
    BY <1>6, SuitsMark, Zenon
  <2> QED
    BY <1>1, <2>1, SuitsSame, Zenon
<1>8. args.noPty <=> Playing(r, m, "noPty") # {}
  BY <1>4, NotedIs, Zenon
<1>9. Notes(list, args, [args EXCEPT !.noPty = TRUE], m + 1, "noPty")
  BY <1>4, NotesAre, Zenon
<1>10. "noPty" # "pos"
  OBVIOUS
<1>11. CASE ~args.noPty
  BY <1>1, <1>2, <1>3, <1>5, <1>7, <1>8, <1>9, <1>10, <1>11, TakesOne, Zenon
<1>12. CASE args.noPty
  <2>1. G!LooksLikeFlag(list[m + 1])
    BY <1>6, FlagWords, Zenon
  <2>2. "noPty" \in Single /\ FlagHead("noPty") = "--no-pty"
    BY DEF Single, FlagHead
  <2>3. list[m + 1][1] = FlagHead("noPty")
    BY <1>6, <2>2, OneWord, Zenon
  <2>4. Playing(r, m, "noPty") # {}
    BY <1>8, <1>12, Zenon
  <2>5. G!Meanings(list) = {}
    BY <1>1, <1>2, <1>3, <2>1, <2>2, <2>3, <2>4, Repeats, Zenon
  <2> QED
    BY <1>1, <1>12, <2>5, Zenon DEF Refused
<1> QED
  BY <1>11, <1>12, Zenon

\* An option whose value is the next word takes them both.
LEMMA TakesTwo ==
  ASSUME NEW list, Len(list) \in Nat, list[1] \in G!Kinds, list \in Seq(Seq(Letters)), NEW r, NEW m, Standing(list, r, m),
         NEW o \in OptionNames, Chosen(list, r, m, o), Len(list[m + 1]) = 1, m + 1 < Len(list), ~args.raw,
         Notes(list, args, args', m + 1, o), "value" \in G!Roles(list[1]),
         at' = at + 2, phase' = phase
  PROVE  Progressed(list)
<1> DEFINE e == Extended(r, m, o)
           k == m + 1
           d == Extended(e, k, "value")
           b == args'
<1>1. /\ m \in Nat /\ m >= 1 /\ at + 2 = m + 3 /\ Len(args.pos) <= MostOf(list[1])
  BY StandingIs, Zenon
<1>2. /\ k \in Nat /\ k >= 1 /\ k > 1 /\ k < Len(list) /\ k + 1 > 2 /\ k + 1 - 1 = k /\ k + 2 = m + 3
      /\ k + 2 \in Nat /\ 2 <= k + 2 /\ k + 2 <= Len(list) + 1 /\ k + 2 - 1 = k + 1
  BY <1>1
<1>3. list[k + 1] \in Seq(Letters)
  BY <1>2
<1>4. Agreed(list, e, k) /\ Summed(list, e, k, b) /\ Grown(e, r, m, o)
  BY OneOn, Zenon
<1>5. o # "pos" /\ o # "--" /\ "value" \notin Single /\ "value" \notin OptionNames /\ "value" # "pos"
  BY DEF OptionNames, Single
<1>6. Len(list[k]) = 1
  OBVIOUS
<1>7. b.pos = args.pos /\ (b.raw <=> args.raw) /\ AreArgs(b)
  BY <1>5, Zenon DEF Notes
<1>8. e[k] = o
  BY <1>4, Zenon DEF Grown
<1>16. Len(b.pos) <= MostOf(list[1])
  BY <1>1, <1>7, Zenon
<1> HIDE DEF e, k, d, b
<1>9. Awaited(list, e, k + 1)
  <2> DEFINE n == k + 1
  <2>1. n > 2 /\ n - 1 = k
    BY <1>2
  <2> HIDE DEF n
  <2>2. Takes(list, n - 1, e[n - 1])
    BY <1>6, <1>8, <2>1, Zenon DEF Takes
  <2>3. Awaited(list, e, n)
    BY <2>1, <2>2, Zenon DEF Awaited
  <2> QED
    BY <2>3, Zenon DEF n
<1>10. ~Dashed(e, k + 1)
  <2>1. ~b.raw
    BY <1>7, Zenon
  <2>2. Playing(e, k, "--") = {}
    BY <1>4, <2>1, NotedIs, Zenon
  <2> QED
    BY <1>2, <2>2, DashedIs, Zenon
<1>11. Fitted(list, e, k, "value")
  <2>1. Suits(list, k + 1, "value", Awaited(list, e, k + 1), Dashed(e, k + 1))
    <3>1. "value" # "noPty" /\ "value" # "--"
      OBVIOUS
    <3> QED
      BY <1>5, <1>9, <1>10, <3>1, Zenon DEF Suits, Takes
  <2>2. ASSUME NEW role, Suits(list, k + 1, role, Awaited(list, e, k + 1), Dashed(e, k + 1)) PROVE role = "value"
    BY <1>9, <2>2, Zenon DEF Suits
  <2> QED
    BY <1>5, <2>1, <2>2, Zenon DEF Fitted
<1>12. Agreed(list, d, k + 1) /\ Grown(d, e, k, "value")
  BY <1>2, <1>4, <1>11, Extends, Zenon DEF d
<1>13. Notes(list, b, b, k + 1, "value")
  BY <1>7, NotesAre, Zenon
<1>14. Summed(list, d, k + 1, b)
  BY <1>2, <1>3, <1>4, <1>5, <1>12, <1>13, SummedMore, Zenon
<1>15. ~Awaited(list, d, k + 2)
  <2>1. d[k + 1] = "value"
    BY <1>12, Zenon DEF Grown
  <2> DEFINE n == k + 2
             l == k + 1
  <2>2. n - 1 = l
    BY <1>2
  <2>3. ~Takes(list, l, d[l])
    BY <1>5, <2>1, Zenon DEF Takes
  <2> HIDE DEF n, l
  <2>4. ~Awaited(list, d, n)
    BY <2>2, <2>3, Zenon DEF Awaited
  <2> QED
    BY <2>4, Zenon DEF n
<1>17. Parsed(list, k + 2, b)
  <2> DEFINE n == k + 2
             l == k + 1
  <2>1. n \in Nat /\ 2 <= n /\ n <= Len(list) + 1 /\ n - 1 = l
    BY <1>2
  <2>3. Agreed(list, d, l) /\ Summed(list, d, l, b) /\ ~Awaited(list, d, n)
    BY <1>12, <1>14, <1>15, Zenon
  <2> HIDE DEF n, l
  <2>2. Parsed(list, n, b)
    BY <1>16, <2>1, <2>3, Zenon DEF Parsed
  <2> QED
    BY <2>2, Zenon DEF n
<1> QED
  BY <1>1, <1>2, <1>17, Zenon DEF Progressed, b

LEMMA Longer ==
  ASSUME NEW S, NEW w \in Seq(S), w # <<>>
  PROVE  Len(w) > 1 <=> Len(w) # 1
<1>1. Len(w) \in Nat \ {0}
  BY EmptySeq, Zenon
<1>2. \A n \in Nat \ {0} : n > 1 <=> n # 1
  OBVIOUS
<1> QED
  BY <1>1, <1>2, Zenon

LEMMA OptionReads ==
  ASSUME NEW list, Reads(list), NEW o \in DOMAIN G!Options, G!Option(o)
  PROVE  Progressed(list) \/ Refused(list)
<1> DEFINE w == words[at]
           Short == [args EXCEPT ![o] = <<words[at + 1]>>]
           Long == [args EXCEPT ![o] = <<SubSeq(w, 3, Len(w))>>]
<1>1. /\ at <= Len(words) /\ ~args.raw /\ G!LooksLikeFlag(w) /\ words[1] = <<"exec">> /\ G!IsOption(w, o)
      /\ \/ /\ args[o] # <<>> \/ (~(Len(w) > 1) /\ at = Len(words))
            /\ phase' = "done" /\ result' = G!Failed
         \/ /\ args[o] = <<>> /\ phase' = phase /\ Len(w) > 1
            /\ at' = at + 1 /\ args' = Long
         \/ /\ args[o] = <<>> /\ phase' = phase /\ ~(Len(w) > 1) /\ at # Len(words)
            /\ at' = at + 2 /\ args' = Short
  BY Zenon DEF G!Option, G!Flag, G!Kind, G!Parsing, G!NextWord, G!Understand, G!Refuse, G!Fail, G!None
<1> HIDE DEF Short, Long
<1>2. words = list /\ Len(list) \in Nat /\ list[1] \in G!Kinds /\ \E r, m : Standing(list, r, m)
  BY <1>1, ReadsIs, Zenon
<1>3. PICK r, m : Standing(list, r, m)
  BY <1>2, Zenon
<1>4. /\ m \in Nat /\ at = m + 1 /\ at + 1 = m + 2 /\ AreArgs(args) /\ Summed(list, r, m, args) /\ m < Len(list)
      /\ list[m + 1] \in Seq(Letters)
  BY <1>3, StandingIs, Zenon
<1>5. o \in OptionNames
  BY OptionsAre, Zenon
<1>6. o \in G!Roles(list[1]) /\ "value" \in G!Roles(list[1]) /\ o \in Single /\ o # "pos"
  <2>1. o \in EveryRole /\ "value" \in EveryRole /\ o \in Single /\ o # "pos"
    BY <1>5 DEF EveryRole, OptionNames, Single
  <2> QED
    BY <1>1, <1>2, <2>1, RolesAre, Zenon
<1>7. list[m + 1] = w
  BY <1>2, <1>4, Zenon
<1>8. w # <<>> /\ w[1] = FlagHead(o)
  <2>1. w # <<>> /\ w[1] = G!Options[o]
    BY <1>1, Zenon DEF G!IsOption
  <2>2. G!Options[o] = FlagHead(o)
    BY <1>5, OptionsAre DEF OptionNames, FlagHead
  <2> QED
    BY <2>1, <2>2, Zenon
<1>9. Len(w) > 1 <=> Len(w) # 1
  <2>1. w \in Seq(Letters) /\ w # <<>>
    BY <1>4, <1>7, <1>8, Zenon
  <2> QED
    BY <2>1, Longer, Zenon
<1>10. args[o] # <<>> <=> Playing(r, m, o) # {}
  BY <1>4, <1>5, NotedIs, Zenon
<1>11. (m + 1 < Len(list) <=> m + 1 # Len(list)) /\ Len(words) = Len(list)
  BY <1>2, <1>4
<1>12. Len(w) = 1 => ValueWord(list, m + 1) = words[at + 1]
  <2>1. m + 1 + 1 = at + 1
    BY <1>4
  <2> QED
    BY <1>2, <1>7, <2>1, Zenon DEF ValueWord
<1>13. Len(w) # 1 => ValueWord(list, m + 1) = SubSeq(w, 3, Len(w))
  BY <1>7, Zenon DEF ValueWord
<1>14. Notes(list, args, [args EXCEPT ![o] = <<ValueWord(list, m + 1)>>], m + 1, o)
  BY <1>4, <1>5, NotesAre, Zenon
<1>15. (Len(w) = 1 => m + 1 < Len(list)) => Suits(list, m + 1, o, FALSE, args.raw)
  <2>1. (Len(w) = 1 => m + 1 < Len(list)) => Suits(list, m + 1, o, FALSE, FALSE)
    BY <1>1, <1>5, <1>7, SuitsOption, Zenon
  <2> QED
    BY <1>1, <2>1, SuitsSame, Zenon
<1>16. CASE args[o] # <<>> \/ (~(Len(w) > 1) /\ at = Len(words))
  <2>1. Playing(r, m, o) # {} \/ ~Suits(list, m + 1, o, FALSE, args.raw)
    <3>1. CASE args[o] # <<>>
      BY <1>10, <3>1, Zenon
    <3>2. CASE ~(Len(w) > 1) /\ at = Len(words)
      <4>1. Len(list[m + 1]) = 1 /\ ~(m + 1 < Len(list))
        BY <1>4, <1>7, <1>9, <1>11, <3>2, Zenon
      <4> QED
        BY <1>5, <4>1, Zenon DEF Suits, Takes
    <3> QED
      BY <1>16, <3>1, <3>2, Zenon
  <2>2. G!Meanings(list) = {}
    BY <1>1, <1>2, <1>3, <1>6, <1>7, <1>8, <2>1, Repeats, Zenon
  <2> QED
    BY <1>1, <1>16, <2>2, Zenon DEF Refused
<1>17. CASE args[o] = <<>> /\ Len(w) > 1
  <2>1. ~Takes(list, m + 1, o)
    BY <1>7, <1>9, <1>17, Zenon DEF Takes
  <2>2. args' = [args EXCEPT ![o] = <<ValueWord(list, m + 1)>>]
    BY <1>1, <1>9, <1>13, <1>17, Zenon DEF Long
  <2>3. at' = at + 1 /\ phase' = phase
    BY <1>1, <1>17, Zenon
  <2> QED
    BY <1>2, <1>3, <1>6, <1>9, <1>10, <1>14, <1>15, <1>17, <2>1, <2>2, <2>3, TakesOne, Zenon
<1>18. CASE args[o] = <<>> /\ ~(Len(w) > 1) /\ at # Len(words)
  <2>1. Len(list[m + 1]) = 1 /\ m + 1 < Len(list)
    BY <1>4, <1>7, <1>9, <1>11, <1>18, Zenon
  <2>2. args' = [args EXCEPT ![o] = <<ValueWord(list, m + 1)>>]
    BY <1>1, <1>9, <1>12, <1>18, Zenon DEF Short
  <2>3. at' = at + 2 /\ phase' = phase
    BY <1>1, <1>18, Zenon
  <2>4. Chosen(list, r, m, o)
    BY <1>6, <1>10, <1>15, <1>18, <2>1, Zenon DEF Chosen
  <2>5. list \in Seq(Seq(Letters))
    BY Zenon DEF Reads
  <2> QED
    BY <1>1, <1>2, <1>3, <1>5, <1>6, <1>14, <2>1, <2>2, <2>3, <2>4, <2>5, TakesTwo, Zenon
<1> QED
  BY <1>16, <1>17, <1>18, Zenon

LEMMA UnexpectedReads ==
  ASSUME NEW list, Reads(list), G!Unexpected
  PROVE  Refused(list)
<1>1. /\ at <= Len(words) /\ ~args.raw /\ G!LooksLikeFlag(words[at]) /\ words[at] # <<"--">>
      /\ words[1] = <<"exec">> => /\ words[at] # <<"--no-pty">>
                                  /\ \A o \in OptionNames : ~G!IsOption(words[at], o)
      /\ phase' = "done" /\ result' = G!Failed
  BY OptionsAre, Zenon DEF G!Unexpected, G!Flag, G!Kind, G!Parsing, G!NextWord, G!Refuse, G!Fail
<1>2. words = list /\ Len(list) \in Nat /\ list[1] \in G!Kinds /\ \E r, m : Standing(list, r, m)
  BY <1>1, ReadsIs, Zenon
<1>3. PICK r, m : Standing(list, r, m)
  BY <1>2, Zenon
<1>4. at = m + 1 /\ args.raw \in BOOLEAN
  BY <1>3, StandingIs, Zenon
<1> DEFINE i == m + 1
<1>5. list[i] = words[at]
  BY <1>2, <1>4, Zenon
<1> HIDE DEF i
<1>6. ASSUME NEW role \in G!Roles(list[1]), Suits(list, i, role, FALSE, args.raw) PROVE FALSE
  <2>1. role \in EveryRole
    BY <1>2, RolesAre, Zenon
  <2>2. OfItsRole(list, i, role, args.raw)
    BY <1>4, <1>6, <2>1, SuitsItsRole, Zenon
  <2>3. role \in Single
    BY <1>1, <1>5, <2>2, Zenon DEF OfItsRole
  <2>4. role # "--"
    BY <1>1, <1>5, <1>6, Zenon DEF Suits
  <2>5. role \notin {"pos", "--"}
    BY <2>3, <2>4 DEF Single
  <2>6. list[1] = <<"exec">>
    BY <1>2, <2>5, RolesAre, Zenon
  <2>7. role \in OptionNames \/ role = "noPty"
    BY <2>3, <2>4 DEF Single, OptionNames
  <2> QED
    BY <1>1, <1>2, <1>5, <1>6, <2>6, <2>7, Zenon DEF Suits
<1>7. Roleless(list, r, m)
  BY <1>6, Zenon DEF Roleless, i
<1>8. G!Meanings(list) = {}
  BY <1>2, <1>3, <1>7, NoRole, Zenon
<1> QED
  BY <1>1, <1>8, Zenon DEF Refused

(***************************************************************************)
(* What the words mean whose roles are r, from what they are.              *)
(***************************************************************************)
PosFrom(list, P) ==
  [k \in 1..G!Cardinality(P) |-> list[CHOOSE i \in P : G!Cardinality({j \in P : j <= i}) = k]]
PosOf(list, r) == PosFrom(list, G!Plays(r, "pos"))
ValueOf(list, r, o, default) ==
  IF G!Plays(r, o) = {} THEN default
  ELSE LET i == CHOOSE i \in G!Plays(r, o) : TRUE
       IN G!Number(IF Len(list[i]) = 1 THEN list[i + 1] ELSE SubSeq(list[i], 3, Len(list[i])))
MeaningOf(kind, pos, plain, sized, rowCount, colCount) ==
  CASE kind = <<"loopback">> /\ Len(pos) = 0 -> [kind |-> "loopback", initial |-> <<>>]
    [] kind = <<"loopback">> /\ Len(pos) = 1 -> [kind |-> "loopback", initial |-> pos[1]]
    [] kind = <<"pipe">> /\ Len(pos) = 1 -> [kind |-> "pipe", path |-> pos[1]]
    [] kind = <<"pipe">> /\ Len(pos) = 3 -> [kind |-> "pipes", rx |-> pos[2], tx |-> pos[3]]
    [] kind = <<"exec">> /\ Len(pos) = 1 /\ plain # {} /\ sized = {} -> [kind |-> "exec", command |-> pos[1]]
    [] kind = <<"exec">> /\ Len(pos) = 1 /\ plain = {} /\ -1 \notin {rowCount, colCount} ->
         [kind |-> "pty", command |-> pos[1], rows |-> rowCount, cols |-> colCount]
    [] OTHER -> G!Failed

LEMMA MeansIs ==
  ASSUME NEW list, NEW r
  PROVE  G!Means(list, r)
         = MeaningOf(list[1], PosOf(list, r), G!Plays(r, "noPty"), G!Plays(r, "rows") \cup G!Plays(r, "cols"),
                     ValueOf(list, r, "rows", 24), ValueOf(list, r, "cols", 80))
<1> DEFINE h == ValueOf(list, r, "rows", 24)
           w == ValueOf(list, r, "cols", 80)
           s == [rows |-> h, cols |-> w]
<1> HIDE DEF h, w
<1>1. s.rows = h /\ s.cols = w
  OBVIOUS
<1> QED
  BY <1>1, Zenon DEF G!Means, MeaningOf, PosOf, PosFrom, ValueOf, h, w

LEMMA KindsDiffer ==
  <<"loopback">> # <<"pipe">> /\ <<"loopback">> # <<"exec">> /\ <<"pipe">> # <<"exec">>
OBVIOUS

\* What each kind of session asks for.
LEMMA MeaningsAre ==
  ASSUME NEW pos, NEW plain, NEW sized, NEW h, NEW w
  PROVE  /\ MeaningOf(<<"loopback">>, pos, plain, sized, h, w)
            = IF Len(pos) = 0 THEN [kind |-> "loopback", initial |-> <<>>]
              ELSE IF Len(pos) = 1 THEN [kind |-> "loopback", initial |-> pos[1]] ELSE G!Failed
         /\ MeaningOf(<<"pipe">>, pos, plain, sized, h, w)
            = IF Len(pos) = 1 THEN [kind |-> "pipe", path |-> pos[1]]
              ELSE IF Len(pos) = 3 THEN [kind |-> "pipes", rx |-> pos[2], tx |-> pos[3]] ELSE G!Failed
<1>1. 0 # 1 /\ 1 # 3
  OBVIOUS
<1>2. <<"loopback">> # <<"pipe">> /\ <<"loopback">> # <<"exec">> /\ <<"pipe">> # <<"exec">>
  BY KindsDiffer, Zenon
<1>3. MeaningOf(<<"loopback">>, pos, plain, sized, h, w)
      = IF Len(pos) = 0 THEN [kind |-> "loopback", initial |-> <<>>]
        ELSE IF Len(pos) = 1 THEN [kind |-> "loopback", initial |-> pos[1]] ELSE G!Failed
  BY <1>1, <1>2, Zenon DEF MeaningOf
<1>4. MeaningOf(<<"pipe">>, pos, plain, sized, h, w)
      = IF Len(pos) = 1 THEN [kind |-> "pipe", path |-> pos[1]]
        ELSE IF Len(pos) = 3 THEN [kind |-> "pipes", rx |-> pos[2], tx |-> pos[3]] ELSE G!Failed
  BY <1>1, <1>2, Zenon DEF MeaningOf
<1> QED
  BY <1>3, <1>4, Zenon

ExecMeaning(pos, plain, sized, h, w) ==
  IF Len(pos) # 1 THEN G!Failed
  ELSE IF plain # {} THEN IF sized = {} THEN [kind |-> "exec", command |-> pos[1]] ELSE G!Failed
  ELSE IF -1 \in {h, w} THEN G!Failed
  ELSE [kind |-> "pty", command |-> pos[1], rows |-> h, cols |-> w]

LEMMA ExecMeans ==
  ASSUME NEW pos, NEW plain, NEW sized, NEW h, NEW w
  PROVE  MeaningOf(<<"exec">>, pos, plain, sized, h, w) = ExecMeaning(pos, plain, sized, h, w)
BY KindsDiffer, Zenon DEF MeaningOf, ExecMeaning

LEMMA PosLength ==
  ASSUME NEW list, NEW m \in Nat, NEW S, NEW r \in [2..m -> S]
  PROVE  /\ PosOf(list, r) = PosFrom(list, Playing(r, m, "pos"))
         /\ Len(PosOf(list, r)) = Cardinality(Playing(r, m, "pos"))
<1> DEFINE P == Playing(r, m, "pos")
           n == Cardinality(P)
<1>1. G!Plays(r, "pos") = P
  BY PlayingIs, Zenon
<1>2. n \in Nat
  BY PlayingFinite, Zenon
<1> HIDE DEF P
<1>3. PosOf(list, r) = PosFrom(list, P)
  BY <1>1, Zenon DEF PosOf
<1>4. G!Cardinality(P) = n
  BY CountsAreSame, Zenon
<1> HIDE DEF n
<1>5. Len(PosFrom(list, P)) = n
  BY <1>2, <1>4 DEF PosFrom
<1> QED
  BY <1>3, <1>5, Zenon DEF P, n

LEMMA PosIs ==
  ASSUME NEW list, NEW P, NEW pos, Ranked(list, P, pos)
  PROVE  PosFrom(list, P) = pos
<1>1. /\ pos \in Seq(Seq(Letters)) /\ Len(pos) = Cardinality(P)
      /\ \A k \in 1..Len(pos) : \E i \in P : Rank(P, i) = k
      /\ \A i \in P : Rank(P, i) \in 1..Len(pos) /\ pos[Rank(P, i)] = list[i]
  BY Zenon DEF Ranked
<1> DEFINE Place(k) == CHOOSE i \in P : G!Cardinality({j \in P : j <= i}) = k
<1>2. G!Cardinality(P) = Len(pos)
  BY <1>1, CountsAreSame, Zenon
<1>3. \A i : G!Cardinality({j \in P : j <= i}) = Rank(P, i)
  BY CountsAreSame, Zenon DEF Rank
<1>4. PosFrom(list, P) = [k \in 1..Len(pos) |-> list[Place(k)]]
  BY <1>2, Zenon DEF PosFrom
<1>5. ASSUME NEW k \in 1..Len(pos) PROVE list[Place(k)] = pos[k]
  <2>1. PICK i \in P : G!Cardinality({j \in P : j <= i}) = k
    BY <1>1, <1>3, Zenon
  <2>2. Place(k) \in P /\ G!Cardinality({j \in P : j <= Place(k)}) = k
    BY <2>1, Zenon
  <2> HIDE DEF Place
  <2>3. Rank(P, Place(k)) = k
    BY <1>3, <2>2, Zenon
  <2> QED
    BY <1>1, <2>2, <2>3, Zenon
<1> HIDE DEF Place
<1>6. pos = [k \in 1..Len(pos) |-> pos[k]]
  <2> DEFINE S == Seq(Letters)
  <2>1. pos \in Seq(S)
    BY <1>1, Zenon
  <2> HIDE DEF S
  <2> QED
    BY <2>1
<1> QED
  BY <1>4, <1>5, <1>6, Zenon

\* More positionals than the kind takes mean nothing.
LEMMA TooMany ==
  ASSUME NEW list, list[1] \in G!Kinds, NEW r, Len(PosOf(list, r)) \in Nat, Len(PosOf(list, r)) > MostOf(list[1])
  PROVE  G!Means(list, r) = G!Failed
<1> DEFINE p == PosOf(list, r)
           plain == G!Plays(r, "noPty")
           sized == G!Plays(r, "rows") \cup G!Plays(r, "cols")
           h == ValueOf(list, r, "rows", 24)
           w == ValueOf(list, r, "cols", 80)
           k == list[1]
<1>1. G!Means(list, r) = MeaningOf(k, p, plain, sized, h, w)
  BY MeansIs, Zenon
<1>2. k = <<"loopback">> \/ k = <<"pipe">> \/ k = <<"exec">>
  BY Zenon DEF G!Kinds
<1>3. Len(p) \in Nat /\ Len(p) > MostOf(k)
  OBVIOUS
<1>7. \A n \in Nat : (n > 1 => n # 0 /\ n # 1) /\ (n > 3 => n # 1 /\ n # 3)
  OBVIOUS
<1> HIDE DEF p, plain, sized, h, w, k
<1>4. CASE k = <<"loopback">>
  <2>1. MostOf(k) = 1
    BY <1>4, KindsDiffer, Zenon DEF MostOf
  <2>2. Len(p) # 0 /\ Len(p) # 1
    BY <1>3, <1>7, <2>1, Zenon
  <2> QED
    BY <1>1, <1>4, <2>2, MeaningsAre, Zenon
<1>5. CASE k = <<"pipe">>
  <2>1. MostOf(k) = 3
    BY <1>5, KindsDiffer, Zenon DEF MostOf
  <2>2. Len(p) # 3 /\ Len(p) # 1
    BY <1>3, <1>7, <2>1, Zenon
  <2> QED
    BY <1>1, <1>5, <2>2, MeaningsAre, Zenon
<1>6. CASE k = <<"exec">>
  <2>1. MostOf(k) = 1
    BY <1>6, KindsDiffer, Zenon DEF MostOf
  <2>2. Len(p) # 1
    BY <1>3, <1>7, <2>1, Zenon
  <2>3. MeaningOf(<<"exec">>, p, plain, sized, h, w) = G!Failed
    <3>1. MeaningOf(<<"exec">>, p, plain, sized, h, w) = ExecMeaning(p, plain, sized, h, w)
      BY ExecMeans, Zenon
    <3>2. ExecMeaning(p, plain, sized, h, w) = G!Failed
      BY <2>2, Zenon DEF ExecMeaning
    <3> QED
      BY <3>1, <3>2, Zenon
  <2> QED
    BY <1>1, <1>6, <2>3, Zenon
<1> QED
  BY <1>2, <1>4, <1>5, <1>6, Zenon

LEMMA PositionalReads ==
  ASSUME NEW list, Reads(list), G!Positional
  PROVE  Progressed(list) \/ Refused(list)
<1>1. /\ at <= Len(words) /\ (args.raw \/ ~G!LooksLikeFlag(words[at]))
      /\ Len(args.pos) = G!Most => phase' = "done" /\ result' = G!Failed
      /\ Len(args.pos) # G!Most => /\ at' = at + 1 /\ phase' = phase
                                   /\ args' = [args EXCEPT !.pos = Append(@, words[at])]
  BY Zenon DEF G!Positional, G!Flag, G!Parsing, G!NextWord, G!Understand, G!Refuse, G!Fail
<1>2. words = list /\ Len(list) \in Nat /\ list[1] \in G!Kinds /\ \E r, m : Standing(list, r, m)
  BY <1>1, ReadsIs, Zenon
<1>3. PICK r, m : Standing(list, r, m)
  BY <1>2, Zenon
<1>4. /\ m \in Nat /\ m >= 1 /\ m < Len(list) /\ at = m + 1 /\ AreArgs(args) /\ Summed(list, r, m, args)
      /\ args.raw \in BOOLEAN /\ Len(args.pos) \in Nat
  BY <1>3, StandingIs, Zenon
<1>5. G!Most = MostOf(list[1])
  BY <1>2, Zenon DEF G!Most, G!Kind, MostOf
<1>6. list[m + 1] = words[at]
  BY <1>2, <1>4, Zenon
<1>7. args.raw \/ ~G!LooksLikeFlag(list[m + 1])
  BY <1>1, <1>6, Zenon
<1>8. CASE Len(args.pos) # G!Most
  <2>1. Notes(list, args, [args EXCEPT !.pos = Append(@, list[m + 1])], m + 1, "pos")
    BY <1>4, NotesAre, Zenon
  <2>2. Notes(list, args, args', m + 1, "pos")
    BY <1>1, <1>6, <1>8, <2>1, Zenon
  <2>3. Suits(list, m + 1, "pos", FALSE, args.raw) /\ ~Takes(list, m + 1, "pos")
    BY <1>4, <1>7, SuitsPos, Zenon
  <2>4. "pos" \notin Single
    BY DEF Single
  <2>5. "pos" \in G!Roles(list[1])
    BY <1>2, RolesAre, Zenon
  <2>6. at' = at + 1 /\ phase' = phase /\ Len(args.pos) # MostOf(list[1])
    BY <1>1, <1>5, <1>8, Zenon
  <2> QED
    BY <1>2, <1>3, <2>2, <2>3, <2>4, <2>5, <2>6, TakesOne, Zenon
<1>9. CASE Len(args.pos) = G!Most
  <2> DEFINE P == Playing(r, m, "pos")
             k == m + 1
             most == MostOf(list[1])
  <2>1. Len(args.pos) = Cardinality(P) /\ IsFiniteSet(P) /\ k \notin P
    <3>1. Len(args.pos) = Cardinality(P)
      BY <1>4, Zenon DEF Summed, Ranked
    <3>2. IsFiniteSet(P) /\ \A i \in P : i \in Nat /\ i <= m
      BY <1>4, PlayingFinite, Zenon
    <3>3. k \notin P
      <4> HIDE DEF P
      <4> QED
        BY <1>4, <3>2
    <3> QED
      BY <3>1, <3>2, <3>3, Zenon
  <2>2. Cardinality(P \cup {k}) = most + 1
    <3>1. Cardinality(P) = most
      BY <1>5, <1>9, <2>1, Zenon
    <3> HIDE DEF P, k, most
    <3>2. Cardinality(P \cup {k}) = Cardinality(P) + 1
      BY <2>1, FS_AddElement, Zenon
    <3> QED
      BY <3>1, <3>2, Zenon
  <2>3. ASSUME NEW f \in Fitting(list) PROVE G!Means(list, f) = G!Failed
    <3> DEFINE n == Len(list)
               X == Playing(f, n, "pos")
    <3>1. f \in [2..n -> G!Roles(list[1])]
      BY Zenon DEF Fitting
    <3>2. f[k] = "pos"
      <4>1. /\ f[k] \in G!Roles(list[1])
            /\ Suits(list, m + 1, f[k], Awaited(list, r, m + 1), Dashed(r, m + 1))
        BY <1>2, <1>3, <1>4, NextRole, Zenon DEF Standing
      <4>2. (Awaited(list, r, m + 1) <=> FALSE) /\ (Dashed(r, m + 1) <=> args.raw)
        BY <1>3, Zenon DEF Standing
      <4>3. Suits(list, m + 1, f[k], FALSE, args.raw)
        <5> DEFINE A == Awaited(list, r, m + 1)
                   D == Dashed(r, m + 1)
        <5>1. Suits(list, m + 1, f[k], A, D) /\ (A <=> FALSE) /\ (D <=> args.raw)
          BY <4>1, <4>2, Zenon
        <5> HIDE DEF A, D
        <5> QED
          BY <5>1, SuitsSame, Zenon
      <4>4. f[k] \in EveryRole
        BY <1>2, <4>1, RolesAre, Zenon
      <4>5. OfItsRole(list, m + 1, f[k], args.raw)
        BY <1>4, <4>3, <4>4, SuitsItsRole, Zenon
      <4> QED
        BY <1>7, <4>5, Zenon DEF OfItsRole
    <3>3. \A i \in 2..m : f[i] = r[i]
      BY <1>3, Zenon DEF Standing, Agreed
    <3>4. k \in 2..n /\ \A i \in 2..m : i \in 2..n
      BY <1>2, <1>4
    <3>5. P \cup {k} \subseteq X
      <4>1. ASSUME NEW i \in P PROVE i \in X
        BY <3>3, <3>4, <4>1, Zenon DEF Playing
      <4>2. k \in X
        BY <3>2, <3>4, Zenon DEF Playing
      <4> QED
        BY <4>1, <4>2, Zenon
    <3>6. IsFiniteSet(X) /\ Cardinality(X) \in Nat
      BY <1>2, PlayingFinite, Zenon
    <3>7. most \in Nat
      BY <1>4, <1>5, <1>9, Zenon
    <3> HIDE DEF P, X, k, most, n
    <3>8. Cardinality(P \cup {k}) <= Cardinality(X)
      BY <3>5, <3>6, FS_Subset, Zenon
    <3>9. Cardinality(X) > most
      BY <2>2, <3>6, <3>7, <3>8
    <3>10. Len(PosOf(list, f)) = Cardinality(X)
      BY <1>2, <3>1, PosLength, Zenon DEF X, n
    <3> QED
      BY <1>2, <3>6, <3>9, <3>10, TooMany, Zenon DEF most
  <2>4. G!Meanings(list) = {}
    BY <2>3, NoMeaning, Zenon
  <2> QED
    BY <1>1, <1>9, <2>4, Zenon DEF Refused
<1> QED
  BY <1>8, <1>9, Zenon

(***************************************************************************)
(* What is understood of all the words is what they mean.                  *)
(***************************************************************************)
Settled(list, outcome) ==
  IF G!Meanings(list) = {} THEN outcome = G!Failed ELSE G!Meanings(list) = {outcome}

LEMMA ValueIs ==
  ASSUME NEW list, NEW m \in Nat, NEW S, NEW r \in [2..m -> S], Summed(list, r, m, args),
         NEW o \in OptionNames
  PROVE  /\ ValueOf(list, r, o, IF o = "rows" THEN 24 ELSE 80) = G!Size(o)
         /\ G!Plays(r, o) = {} <=> args[o] = <<>>
<1> DEFINE P == Playing(r, m, o)
           d == IF o = "rows" THEN 24 ELSE 80
<1>1. G!Plays(r, o) = P
  BY PlayingIs, Zenon
<1>2. (P = {} => args[o] = <<>>) /\ \A i \in P : args[o] = <<ValueWord(list, i)>>
  BY Zenon DEF Summed
<1>3. args[o] # <<>> <=> P # {}
  BY NotedIs, Zenon
<1> HIDE DEF P
<1>4. CASE P = {}
  <2>1. args[o] = <<>>
    BY <1>2, <1>4, Zenon
  <2>2. ValueOf(list, r, o, d) = d
    BY <1>1, <1>4, Zenon DEF ValueOf
  <2>3. G!Size(o) = d
    BY <2>1, Zenon DEF G!Size, G!None
  <2> QED
    BY <1>1, <1>4, <2>1, <2>2, <2>3, Zenon
<1>5. CASE P # {}
  <2> DEFINE i == CHOOSE i \in G!Plays(r, o) : TRUE
  <2>1. i \in P
    BY <1>1, <1>5, Zenon
  <2> HIDE DEF i
  <2>2. args[o] = <<ValueWord(list, i)>> /\ args[o] # <<>>
    BY <1>2, <1>3, <2>1, Zenon
  <2>3. args[o][1] = ValueWord(list, i)
    BY <2>2, OneWord, Zenon
  <2>4. G!Size(o) = G!Number(ValueWord(list, i))
    BY <2>2, <2>3, Zenon DEF G!Size, G!None
  <2>5. ValueOf(list, r, o, d) = G!Number(ValueWord(list, i))
    BY <1>1, <1>5, Zenon DEF ValueOf, ValueWord, i
  <2> QED
    BY <1>1, <1>5, <2>2, <2>4, <2>5, Zenon
<1> QED
  BY <1>4, <1>5, Zenon

\* What the roles r say of the words: the positionals, and what was said of the terminal.
Gathered(list, r) ==
  /\ PosOf(list, r) = args.pos
  /\ (G!Plays(r, "noPty") # {} <=> args.noPty) /\ args.noPty \in BOOLEAN
  /\ G!Plays(r, "rows") \cup G!Plays(r, "cols") = {} <=> (args.rows = <<>> /\ args.cols = <<>>)
  /\ ValueOf(list, r, "rows", 24) = G!Size("rows") /\ ValueOf(list, r, "cols", 80) = G!Size("cols")

LEMMA GatheredIs ==
  ASSUME NEW list, NEW m \in Nat, NEW S, NEW r \in [2..m -> S], Summed(list, r, m, args)
  PROVE  Gathered(list, r)
<1>1. PosOf(list, r) = args.pos
  <2>1. Ranked(list, Playing(r, m, "pos"), args.pos)
    BY Zenon DEF Summed
  <2>2. PosFrom(list, Playing(r, m, "pos")) = args.pos
    BY <2>1, PosIs, Zenon
  <2> QED
    BY <2>2, PosLength, Zenon
<1>2. (G!Plays(r, "noPty") # {} <=> args.noPty) /\ args.noPty \in BOOLEAN
  <2>1. G!Plays(r, "noPty") = Playing(r, m, "noPty")
    BY PlayingIs, Zenon
  <2>2. AreArgs(args) /\ (args.noPty <=> Playing(r, m, "noPty") # {})
    BY NotedIs, Zenon
  <2> QED
    BY <2>1, <2>2, Zenon DEF AreArgs
<1>3. "rows" \in OptionNames /\ "cols" \in OptionNames /\ "cols" # "rows"
  BY DEF OptionNames
<1>4. /\ ValueOf(list, r, "rows", IF "rows" = "rows" THEN 24 ELSE 80) = G!Size("rows")
      /\ G!Plays(r, "rows") = {} <=> args["rows"] = <<>>
  BY <1>3, ValueIs, Zenon
<1>5. /\ ValueOf(list, r, "cols", IF "cols" = "rows" THEN 24 ELSE 80) = G!Size("cols")
      /\ G!Plays(r, "cols") = {} <=> args["cols"] = <<>>
  BY <1>3, ValueIs, Zenon
<1>6. G!Plays(r, "rows") \cup G!Plays(r, "cols") = {} <=> (args.rows = <<>> /\ args.cols = <<>>)
  BY <1>4, <1>5, Zenon
<1>7. ValueOf(list, r, "rows", 24) = G!Size("rows") /\ ValueOf(list, r, "cols", 80) = G!Size("cols")
  BY <1>3, <1>4, <1>5, Zenon
<1> QED
  BY <1>1, <1>2, <1>6, <1>7, Zenon DEF Gathered

LEMMA ConclusionIs ==
  ASSUME NEW list, list[1] \in G!Kinds, words = list, NEW r, Gathered(list, r), args.pos \in Seq(Seq(Letters)),
         Len(args.pos) <= MostOf(list[1]), G!Conclude
  PROVE  result' = G!Means(list, r)
<1> DEFINE p == args.pos
           plain == G!Plays(r, "noPty")
           sized == G!Plays(r, "rows") \cup G!Plays(r, "cols")
           h == G!Size("rows")
           w == G!Size("cols")
           kind == list[1]
<1>1. G!Means(list, r) = MeaningOf(kind, p, plain, sized, h, w)
  BY MeansIs, Zenon DEF Gathered
<1>2. kind = <<"loopback">> \/ kind = <<"pipe">> \/ kind = <<"exec">>
  BY Zenon DEF G!Kinds
<1>3. Len(p) \in Nat /\ (p = <<>> <=> Len(p) = 0)
  <2> DEFINE S == Seq(Letters)
  <2>1. p \in Seq(S)
    BY Zenon
  <2> HIDE DEF p, S
  <2>2. Len(p) \in Nat
    BY <2>1
  <2>3. p # <<>> => Len(p) \in Nat \ {0}
    BY <2>1, EmptySeq, Zenon
  <2>4. Len(<<>>) = 0
    OBVIOUS
  <2>5. Len(p) \in Nat \ {0} => Len(p) # 0
    OBVIOUS
  <2> QED
    BY <2>2, <2>3, <2>4, <2>5, Zenon
<1>4. Len(p) <= MostOf(kind)
  BY Zenon
<1>5. /\ kind = <<"loopback">> => result' = G!Loopback
      /\ kind = <<"pipe">> => result' = G!Pipe
      /\ kind = <<"exec">> => result' = G!Exec
  BY KindsDiffer, Zenon DEF G!Conclude, G!Kind
<1>6. \A n \in Nat : n <= 1 => n = 0 \/ n = 1
  OBVIOUS
<1>7. (plain # {} <=> args.noPty) /\ (sized = {} <=> args.rows = <<>> /\ args.cols = <<>>)
  BY Zenon DEF Gathered
<1>8. 0 # 1 /\ 1 # 3
  OBVIOUS
<1>9. G!Loopback = [kind |-> "loopback", initial |-> IF p = <<>> THEN <<>> ELSE p[1]]
  BY Zenon DEF G!Loopback
<1>10. G!Pipe = IF Len(p) = 1 THEN [kind |-> "pipe", path |-> p[1]]
                ELSE IF Len(p) = 3 THEN [kind |-> "pipes", rx |-> p[2], tx |-> p[3]] ELSE G!Failed
  BY <1>8, Zenon DEF G!Pipe
<1>11. G!Exec = IF p = <<>> THEN G!Failed
                ELSE IF args.noPty THEN IF args.rows = <<>> /\ args.cols = <<>>
                                        THEN [kind |-> "exec", command |-> p[1]] ELSE G!Failed
                ELSE IF -1 \in {h, w} THEN G!Failed
                ELSE [kind |-> "pty", command |-> p[1], rows |-> h, cols |-> w]
  BY Zenon DEF G!Exec, G!None
<1> HIDE DEF p, plain, sized, h, w, kind
<1>12. CASE kind = <<"loopback">>
  <2>1. MostOf(kind) = 1
    BY <1>12, KindsDiffer, Zenon DEF MostOf
  <2>2. Len(p) = 0 \/ Len(p) = 1
    BY <1>3, <1>4, <1>6, <2>1, Zenon
  <2>3. MeaningOf(kind, p, plain, sized, h, w)
        = IF Len(p) = 0 THEN [kind |-> "loopback", initial |-> <<>>]
          ELSE IF Len(p) = 1 THEN [kind |-> "loopback", initial |-> p[1]] ELSE G!Failed
    BY <1>12, MeaningsAre, Zenon
  <2>4. CASE Len(p) = 0
    BY <1>1, <1>3, <1>5, <1>9, <1>12, <2>3, <2>4, Zenon
  <2>5. CASE Len(p) = 1
    BY <1>1, <1>3, <1>5, <1>8, <1>9, <1>12, <2>3, <2>5, Zenon
  <2> QED
    BY <2>2, <2>4, <2>5, Zenon
<1>13. CASE kind = <<"pipe">>
  <2>1. MeaningOf(<<"pipe">>, p, plain, sized, h, w)
        = IF Len(p) = 1 THEN [kind |-> "pipe", path |-> p[1]]
          ELSE IF Len(p) = 3 THEN [kind |-> "pipes", rx |-> p[2], tx |-> p[3]] ELSE G!Failed
    BY MeaningsAre, Zenon
  <2>2. G!Pipe = MeaningOf(<<"pipe">>, p, plain, sized, h, w)
    BY <1>10, <2>1, Zenon
  <2> QED
    BY <1>1, <1>5, <1>13, <2>2, Zenon
<1>14. CASE kind = <<"exec">>
  <2>1. MostOf(kind) = 1
    BY <1>14, KindsDiffer, Zenon DEF MostOf
  <2>2. Len(p) = 0 \/ Len(p) = 1
    BY <1>3, <1>4, <1>6, <2>1, Zenon
  <2>6. MeaningOf(<<"exec">>, p, plain, sized, h, w) = ExecMeaning(p, plain, sized, h, w)
    BY ExecMeans, Zenon
  <2>3. MeaningOf(kind, p, plain, sized, h, w) = ExecMeaning(p, plain, sized, h, w)
    BY <1>14, <2>6
  <2>4. CASE Len(p) = 0
    BY <1>1, <1>3, <1>5, <1>8, <1>11, <1>14, <2>3, <2>4, Zenon DEF ExecMeaning
  <2>5. CASE Len(p) = 1
    <3>1. p # <<>>
      BY <1>3, <1>8, <2>5, Zenon
    <3> QED
      BY <1>1, <1>5, <1>7, <1>11, <1>14, <2>3, <2>5, <3>1, Zenon DEF ExecMeaning
  <2> QED
    BY <2>2, <2>4, <2>5, Zenon
<1> QED
  BY <1>2, <1>12, <1>13, <1>14, Zenon

LEMMA ConcludeReads ==
  ASSUME NEW list, Reads(list), G!Conclude
  PROVE  phase' = "done" /\ Settled(list, result')
<1> DEFINE n == Len(list)
<1>1. /\ list \in Seq(Seq(Letters)) /\ list[1] \in G!Kinds /\ words = list /\ Parsed(list, at, args)
      /\ phase' = "done" /\ at > Len(words)
  BY Zenon DEF Reads, G!Conclude
<1>2. at \in Nat /\ 2 <= at /\ at <= n + 1 /\ Len(args.pos) <= MostOf(list[1])
  BY <1>1, Zenon DEF Parsed
<1>3. n \in Nat
  BY <1>1
<1>4. at > n
  BY <1>1, Zenon
<1> HIDE DEF n
<1>5. at - 1 = n /\ n # 0
  BY <1>2, <1>3, <1>4
<1>6. PICK r : Agreed(list, r, at - 1) /\ Summed(list, r, at - 1, args)
  BY <1>1, Zenon DEF Parsed
<1>7. Agreed(list, r, n) /\ Summed(list, r, n, args)
  BY <1>5, <1>6, Zenon
<1>8. /\ r \in [2..n -> G!Roles(list[1])] /\ (\A i \in 2..n : FitsAt(list, r, i)) /\ OneEach(r, n)
      /\ \A f \in Fitting(list) : \A i \in 2..n : f[i] = r[i]
  BY <1>7, Zenon DEF Agreed
<1>9. r \in Fitting(list)
  BY <1>3, <1>8, FittingAre, Zenon DEF n
<1>10. ASSUME NEW f \in Fitting(list) PROVE f = r
  <2>1. f \in [2..n -> G!Roles(list[1])]
    BY Zenon DEF Fitting, n
  <2>2. \A i \in 2..n : f[i] = r[i]
    BY <1>8, Zenon
  <2> QED
    <3> DEFINE I == 2..n
               S == G!Roles(list[1])
    <3>1. f \in [I -> S] /\ r \in [I -> S] /\ \A i \in I : f[i] = r[i]
      BY <1>8, <2>1, <2>2, Zenon
    <3> HIDE DEF I, S
    <3> QED
      BY <3>1
<1>11. Fitting(list) = {r}
  BY <1>9, <1>10, Zenon
<1>12. list # <<>>
  <2>1. Len(<<>>) = 0
    OBVIOUS
  <2> QED
    BY <1>5, <2>1, Zenon DEF n
<1>13. G!Meanings(list) = {G!Means(list, r)} \ {G!Failed}
  <2>1. G!Meanings(list) = {G!Means(list, f) : f \in Fitting(list)} \ {G!Failed}
    BY <1>1, <1>12, Zenon DEF G!Meanings, Fitting
  <2>2. {G!Means(list, f) : f \in Fitting(list)} = {G!Means(list, r)}
    BY <1>9, <1>10, Zenon
  <2> QED
    BY <2>1, <2>2, Zenon
<1>14. Gathered(list, r)
  BY <1>3, <1>7, <1>8, GatheredIs, Zenon
<1>15. args.pos \in Seq(Seq(Letters))
  BY <1>7, Zenon DEF Summed, Ranked
<1>16. result' = G!Means(list, r)
  BY <1>1, <1>2, <1>14, <1>15, ConclusionIs, Zenon
<1>17. Settled(list, G!Means(list, r))
  BY <1>13, Zenon DEF Settled
<1> QED
  BY <1>1, <1>16, <1>17, Zenon

(***************************************************************************)
(* The reading of a description, from its string to its meaning.           *)
(***************************************************************************)
NoArgs == [pos |-> <<>>, rows |-> <<>>, cols |-> <<>>, noPty |-> FALSE, raw |-> FALSE]

LEMMA NoArgsAre ==
  AreArgs(NoArgs) /\ NoArgs.noPty = FALSE /\ NoArgs.raw = FALSE /\ NoArgs.pos = <<>>
  /\ \A o \in OptionNames : NoArgs[o] = <<>>
<1>1. NoArgs.noPty = FALSE /\ NoArgs.raw = FALSE /\ NoArgs.pos = <<>> /\ NoArgs["rows"] = <<>> /\ NoArgs["cols"] = <<>>
  BY DEF NoArgs
<1>2. NoArgs = [f \in ArgNames |-> NoArgs[f]]
  BY DEF NoArgs, ArgNames
<1> QED
  BY <1>1, <1>2, Zenon DEF AreArgs, OptionNames

\* Before the words behind the first, nothing has been understood.
LEMMA NothingRead ==
  ASSUME NEW list \in Seq(Seq(Letters)), list # <<>>, list[1] \in G!Kinds
  PROVE  Parsed(list, 2, NoArgs)
<1> DEFINE none == 2..1
           r == [i \in none |-> "pos"]
           n == 2
           m == 1
<1>1. none = {}
  OBVIOUS
<1>2. n - 1 = m /\ n \in Nat /\ 2 <= n /\ ~(n > 2)
  OBVIOUS
<1>3. Len(list) \in Nat /\ n <= Len(list) + 1
  <2>1. Len(list) \in Nat \ {0}
    BY EmptySeq, Zenon
  <2> QED
    BY <2>1
<1>4. r \in [none -> G!Roles(list[1])]
  BY <1>1
<1> HIDE DEF r
<1>5. Agreed(list, r, m)
  BY <1>1, <1>4, Zenon DEF Agreed, OneEach
<1>6. \A role : Playing(r, m, role) = {}
  BY <1>1, Zenon DEF Playing
<1>7. Ranked(list, {}, <<>>)
  <2>1. Cardinality({}) = 0 /\ Len(<<>>) = 0 /\ 1..0 = {}
    BY FS_EmptySet
  <2>2. <<>> \in Seq(Seq(Letters))
    BY EmptySeq, Zenon
  <2> QED
    BY <2>1, <2>2, Zenon DEF Ranked
<1>8. Summed(list, r, m, NoArgs)
  BY <1>6, <1>7, NoArgsAre, Zenon DEF Summed
<1>9. Len(NoArgs.pos) <= MostOf(list[1])
  <2>1. Len(NoArgs.pos) = 0
    BY NoArgsAre
  <2>2. MostOf(list[1]) \in Nat
    BY DEF MostOf, G!Kinds
  <2> QED
    BY <2>1, <2>2
<1> HIDE DEF n, m
<1>10. ~Awaited(list, r, n)
  BY <1>2, Zenon DEF Awaited
<1>11. Parsed(list, n, NoArgs)
  BY <1>2, <1>3, <1>5, <1>8, <1>9, <1>10, Zenon DEF Parsed
<1> QED
  BY <1>11, Zenon DEF n

\* What was said, to its end or not, and how far it has been read.
WasSaid(list, how, cut, end) ==
  /\ Described(list, how, cut, end)
  /\ meant = IF cut THEN G!BrokenMark ELSE list
  /\ ~cut => list # G!BrokenMark
Stage(list, how, cut, end) ==
  \/ phase = "split" /\ ReadTo(list, how, cut, end, words, buf, at, quote, have) /\ args = NoArgs
  \/ ~cut /\ Reads(list)
  \/ phase = "done" /\ cut /\ result = G!Failed
  \/ phase = "done" /\ ~cut /\ words = list /\ Settled(list, result)
ConfigInv == \E list, how, cut, end : WasSaid(list, how, cut, end) /\ Stage(list, how, cut, end)

LEMMA SayingsOf ==
  ASSUME NEW list, NEW how, NEW end
  PROVE  /\ G!Said(list, how) = G!FlattenSeq(Sayings(list, how, FALSE, end))
         /\ G!Broken(list, how, end) = G!FlattenSeq(Sayings(list, how, TRUE, end))
<1> DEFINE Told(i) == G!Quoted(list[i], how) \o <<" ">>
           Begun(i) == G!Mark(how) \o G!Inner(list[i], how) \o end
<1>1. Sayings(list, how, FALSE, end) = [i \in 1..Len(list) |-> IF ~FALSE \/ i < Len(list) THEN Told(i) ELSE Begun(i)]
  BY Zenon DEF Sayings
<1>2. Sayings(list, how, TRUE, end) = [i \in 1..Len(list) |-> IF ~TRUE \/ i < Len(list) THEN Told(i) ELSE Begun(i)]
  BY Zenon DEF Sayings
<1>3. G!Said(list, how) = G!FlattenSeq([i \in 1..Len(list) |-> Told(i)])
  BY Zenon DEF G!Said
<1>4. G!Broken(list, how, end) = G!FlattenSeq([i \in 1..Len(list) |-> IF i < Len(list) THEN Told(i) ELSE Begun(i)])
  BY Zenon DEF G!Broken
<1> HIDE DEF Told, Begun
<1>5. [i \in 1..Len(list) |-> IF ~FALSE \/ i < Len(list) THEN Told(i) ELSE Begun(i)] = [i \in 1..Len(list) |-> Told(i)]
  OBVIOUS
<1>6. [i \in 1..Len(list) |-> IF ~TRUE \/ i < Len(list) THEN Told(i) ELSE Begun(i)]
      = [i \in 1..Len(list) |-> IF i < Len(list) THEN Told(i) ELSE Begun(i)]
  OBVIOUS
<1> QED
  BY <1>1, <1>2, <1>3, <1>4, <1>5, <1>6, Zenon

LEMMA ReadFromStart ==
  ASSUME NEW list, NEW how, NEW cut, NEW end, Described(list, how, cut, end), cut => list # <<>>
  PROVE  ReadTo(list, how, cut, end, <<>>, <<>>, 1, "none", FALSE)
<1> DEFINE e == <<>>
<1>1. WordAt(list, how, cut, end)[0] = 0
  BY InputIs, Zenon
<1>2. list \in Seq(Seq(Letters))
  BY Zenon DEF Described
<1>3. e \in Seq(Seq(Letters)) /\ e \in Seq(Letters) /\ Len(e) = 0
  BY EmptySeq, Zenon
<1>4. Len(list) \in Nat /\ (list # <<>> => Len(list) \in Nat \ {0})
  <2>1. Len(list) \in Nat
    BY <1>2
  <2> QED
    BY <1>2, <2>1, EmptySeq, Zenon
<1>5. 0 <= Len(list) /\ (cut => 0 < Len(list))
  BY <1>4
<1>6. 0 + 1 = 1 /\ 1..0 = {}
  OBVIOUS
<1> HIDE DEF e
<1>7. Between(0, e, 1, "none", FALSE)
  BY <1>6, Zenon DEF Between, e
<1>8. ReadTo(list, how, cut, end, e, e, 1, "none", FALSE)
  BY <1>1, <1>3, <1>5, <1>6, <1>7, Zenon DEF ReadTo
<1> QED
  BY <1>8, Zenon DEF e

LEMMA ConfigBegins == ASSUME G!Init PROVE ConfigInv
<1>1. PICK list \in WordLists, how \in {"backslash", "single", "double"} :
        /\ \A i \in DOMAIN list : G!Quotable(list[i], how)
        /\ \/ meant = list /\ input = G!Said(list, how)
           \/ /\ list # <<>> /\ meant = G!BrokenMark
              /\ \E end \in G!Ends(how) : input = G!Broken(list, how, end)
  BY Zenon DEF G!Init
<1>2. /\ at = 1 /\ quote = "none" /\ have = FALSE /\ buf = <<>> /\ words = <<>> /\ phase = "split"
      /\ args = NoArgs
  BY Zenon DEF G!Init, NoArgs, G!None
<1>3. list \in Seq(Seq(Letters)) /\ list # G!BrokenMark
  BY WordAssumption, WordsAre, Zenon DEF G!BrokenMark
<1>4. how \in Hows
  BY Zenon DEF Hows
<1>5. \A i \in 1..Len(list) : G!Quotable(list[i], how)
  <2>1. DOMAIN list = 1..Len(list)
    BY <1>3
  <2> QED
    BY <1>1, <2>1, Zenon
<1>6. PICK last : last \in G!Ends(how)
  BY <1>4 DEF G!Ends, Hows
<1>7. ASSUME NEW cut \in BOOLEAN, NEW end \in G!Ends(how), input = G!FlattenSeq(Sayings(list, how, cut, end)),
             meant = IF cut THEN G!BrokenMark ELSE list, cut => list # <<>>
      PROVE  ConfigInv
  <2>1. Described(list, how, cut, end)
    BY <1>3, <1>4, <1>5, <1>7, Zenon DEF Described
  <2>2. WasSaid(list, how, cut, end)
    BY <1>3, <1>7, <2>1, Zenon DEF WasSaid
  <2>3. ReadTo(list, how, cut, end, <<>>, <<>>, 1, "none", FALSE)
    BY <1>7, <2>1, ReadFromStart, Zenon
  <2>4. Stage(list, how, cut, end)
    BY <1>2, <2>3, Zenon DEF Stage
  <2> QED
    BY <2>2, <2>4, Zenon DEF ConfigInv
<1>8. CASE meant = list /\ input = G!Said(list, how)
  <2>1. input = G!FlattenSeq(Sayings(list, how, FALSE, last))
    BY <1>8, SayingsOf, Zenon
  <2> QED
    BY <1>6, <1>7, <1>8, <2>1, Zenon
<1>9. ASSUME list # <<>>, meant = G!BrokenMark, NEW end \in G!Ends(how), input = G!Broken(list, how, end)
      PROVE  ConfigInv
  <2>1. input = G!FlattenSeq(Sayings(list, how, TRUE, end))
    BY <1>9, SayingsOf, Zenon
  <2> QED
    BY <1>7, <1>9, <2>1, Zenon
<1> QED
  BY <1>1, <1>8, <1>9, Zenon

LEMMA SaidStays ==
  ASSUME NEW list, NEW how, NEW cut, NEW end, WasSaid(list, how, cut, end), input' = input, meant' = meant
  PROVE  WasSaid(list, how, cut, end)'
<1>1. Described(list, how, cut, end)'
  BY DEF WasSaid, Described
<1> QED
  BY <1>1 DEF WasSaid

LEMMA Concerns ==
  /\ G!Next => phase = "split" \/ phase = "parse"
  /\ phase = "split" /\ G!Next => SplitStep
  /\ phase = "parse" /\ G!Next =>
       \/ G!DashDash \/ G!Positional \/ G!NoPty \/ (\E o \in DOMAIN G!Options : G!Option(o))
       \/ G!Unexpected \/ G!Conclude
<1>1. "split" # "parse"
  OBVIOUS
<1>2. SplitStep => phase = "split"
  BY Zenon DEF SplitStep, G!Open, G!Close, G!Escape, G!Plain, G!Space, G!End, G!Splitting
<1>3. /\ G!DashDash => phase = "parse"
      /\ G!Positional => phase = "parse"
      /\ G!NoPty => phase = "parse"
      /\ \A o \in DOMAIN G!Options : G!Option(o) => phase = "parse"
      /\ G!Unexpected => phase = "parse"
      /\ G!Conclude => phase = "parse"
  BY Zenon DEF G!DashDash, G!Positional, G!NoPty, G!Option, G!Unexpected, G!Conclude, G!Parsing
<1>4. G!Next => \/ SplitStep
                \/ G!DashDash \/ G!Positional \/ G!NoPty \/ (\E o \in DOMAIN G!Options : G!Option(o))
                \/ G!Unexpected \/ G!Conclude
  BY Zenon DEF G!Next, SplitStep
<1> QED
  BY <1>1, <1>2, <1>3, <1>4, Zenon

LEMMA ParsingKeeps ==
  ASSUME G!DashDash \/ G!Positional \/ G!NoPty \/ (\E o \in DOMAIN G!Options : G!Option(o))
         \/ G!Unexpected \/ G!Conclude
  PROVE  input' = input /\ meant' = meant /\ words' = words
BY Zenon DEF G!DashDash, G!Positional, G!NoPty, G!Option, G!Unexpected, G!Conclude, G!Understand, G!Refuse, G!reading

\* A step of the reader of words leads on, or to what they mean.
LEMMA WordIsRead ==
  ASSUME NEW list, Reads(list), G!Next
  PROVE  /\ input' = input /\ meant' = meant /\ words' = words
         /\ \/ Progressed(list)
            \/ phase' = "done" /\ Settled(list, result')
<1>1. phase = "parse"
  BY Zenon DEF Reads
<1>2. \/ G!DashDash \/ G!Positional \/ G!NoPty \/ (\E o \in DOMAIN G!Options : G!Option(o))
      \/ G!Unexpected \/ G!Conclude
  BY <1>1, Concerns, Zenon
<1>3. Refused(list) => phase' = "done" /\ Settled(list, result')
  BY Zenon DEF Refused, Settled
<1>4. \/ Progressed(list) \/ Refused(list)
      \/ phase' = "done" /\ Settled(list, result')
  BY <1>2, DashDashReads, PositionalReads, NoPtyReads, OptionReads, UnexpectedReads, ConcludeReads, Zenon
<1>5. input' = input /\ meant' = meant /\ words' = words
  BY <1>2, ParsingKeeps, Zenon
<1> QED
  BY <1>3, <1>4, <1>5, Zenon

LEMMA ConfigStep == ASSUME ConfigInv, G!Next PROVE ConfigInv'
<1>1. PICK list, how, cut, end : WasSaid(list, how, cut, end) /\ Stage(list, how, cut, end)
  BY Zenon DEF ConfigInv
<1>2. input' = input /\ meant' = meant => WasSaid(list, how, cut, end)'
  BY <1>1, SaidStays, Zenon
<1>3. ASSUME input' = input, meant' = meant, Stage(list, how, cut, end)' PROVE ConfigInv'
  BY <1>2, <1>3, Zenon DEF ConfigInv
<1>4. Described(list, how, cut, end)
  BY <1>1, Zenon DEF WasSaid
<1>5. list \in Seq(Seq(Letters)) /\ cut \in BOOLEAN
  BY <1>4, Zenon DEF Described
<1>6. "done" # "split" /\ "done" # "parse"
  OBVIOUS
<1>7. CASE phase = "split" /\ ReadTo(list, how, cut, end, words, buf, at, quote, have) /\ args = NoArgs
  <2>1. /\ Kept
        /\ \/ phase' = phase /\ ReadTo(list, how, cut, end, words', buf', at', quote', have')
           \/ cut /\ phase' = "done" /\ result' = G!Failed
           \/ /\ ~cut /\ words' = list
              /\ IF list = <<>> \/ list[1] \notin G!Kinds THEN phase' = "done" /\ result' = G!Failed
                 ELSE phase' = "parse" /\ at' = 2
    BY <1>4, <1>7, Concerns, SplitSteps, Zenon
  <2>2. input' = input /\ meant' = meant /\ args' = NoArgs
    BY <1>7, <2>1, Zenon DEF Kept
  <2>3. CASE phase' = phase /\ ReadTo(list, how, cut, end, words', buf', at', quote', have')
    <3>1. Stage(list, how, cut, end)'
      BY <1>7, <2>2, <2>3, Zenon DEF Stage
    <3> QED
      BY <1>3, <2>2, <3>1, Zenon
  <2>4. CASE cut /\ phase' = "done" /\ result' = G!Failed
    <3>1. Stage(list, how, cut, end)'
      BY <2>4, Zenon DEF Stage
    <3> QED
      BY <1>3, <2>2, <3>1, Zenon
  <2>5. CASE /\ ~cut /\ words' = list /\ (list = <<>> \/ list[1] \notin G!Kinds)
             /\ phase' = "done" /\ result' = G!Failed
    <3>1. G!Meanings(list) = {}
      BY <2>5, Zenon DEF G!Meanings
    <3>2. Settled(list, result')
      BY <2>5, <3>1, Zenon DEF Settled
    <3>3. Stage(list, how, cut, end)'
      BY <2>5, <3>2, Zenon DEF Stage
    <3> QED
      BY <1>3, <2>2, <3>3, Zenon
  <2>6. CASE /\ ~cut /\ words' = list /\ list # <<>> /\ list[1] \in G!Kinds
             /\ phase' = "parse" /\ at' = 2
    <3>1. Parsed(list, at', args')
      BY <1>5, <2>2, <2>6, NothingRead, Zenon
    <3>2. Reads(list)'
      BY <1>5, <2>6, <3>1, Zenon DEF Reads
    <3>3. Stage(list, how, cut, end)'
      BY <2>6, <3>2, Zenon DEF Stage
    <3> QED
      BY <1>3, <2>2, <3>3, Zenon
  <2> QED
    BY <2>1, <2>3, <2>4, <2>5, <2>6, Zenon
<1>8. CASE ~cut /\ Reads(list)
  <2>1. /\ input' = input /\ meant' = meant /\ words' = words
        /\ \/ Progressed(list)
           \/ phase' = "done" /\ Settled(list, result')
    BY <1>8, WordIsRead, Zenon
  <2>2. words' = list /\ list[1] \in G!Kinds /\ phase = "parse"
    BY <1>8, <2>1, Zenon DEF Reads
  <2>3. CASE Progressed(list)
    <3>1. phase' = "parse" /\ Parsed(list, at', args')
      BY <2>2, <2>3, Zenon DEF Progressed
    <3>2. Reads(list)'
      BY <1>5, <2>2, <3>1, Zenon DEF Reads
    <3>3. Stage(list, how, cut, end)'
      BY <1>8, <3>2, Zenon DEF Stage
    <3> QED
      BY <1>3, <2>1, <3>3, Zenon
  <2>4. CASE phase' = "done" /\ Settled(list, result')
    <3>1. Stage(list, how, cut, end)'
      BY <1>8, <2>2, <2>4, Zenon DEF Stage
    <3> QED
      BY <1>3, <2>1, <3>1, Zenon
  <2> QED
    BY <2>1, <2>3, <2>4, Zenon
<1>9. CASE phase = "done"
  BY <1>6, <1>9, Concerns, Zenon
<1> QED
  BY <1>1, <1>7, <1>8, <1>9, Zenon DEF Stage

LEMMA ConfigStays == ASSUME ConfigInv, UNCHANGED configVars PROVE ConfigInv'
<1>1. /\ input' = input /\ meant' = meant /\ at' = at /\ quote' = quote /\ have' = have /\ buf' = buf
      /\ words' = words /\ args' = args /\ phase' = phase /\ result' = result
  BY DEF configVars
<1>2. PICK list, how, cut, end : WasSaid(list, how, cut, end) /\ Stage(list, how, cut, end)
  BY Zenon DEF ConfigInv
<1>3. WasSaid(list, how, cut, end)'
  BY <1>1, <1>2, SaidStays, Zenon
<1>4. Reads(list) => Reads(list)'
  BY <1>1, Zenon DEF Reads
<1>5. Stage(list, how, cut, end)'
  BY <1>1, <1>2, <1>4, Zenon DEF Stage
<1> QED
  BY <1>3, <1>5, Zenon DEF ConfigInv

LEMMA ConfigMeans == ASSUME ConfigInv PROVE G!Understood
<1>1. PICK list, how, cut, end : WasSaid(list, how, cut, end) /\ Stage(list, how, cut, end)
  BY Zenon DEF ConfigInv
<1>2. cut \in BOOLEAN /\ (cut => meant = G!BrokenMark) /\ (~cut => meant = list /\ list # G!BrokenMark)
  BY <1>1, Zenon DEF WasSaid, Described
<1>3. "done" # "split" /\ "done" # "parse"
  OBVIOUS
<1>4. ASSUME phase # "split", meant # G!BrokenMark PROVE words = meant
  BY <1>1, <1>2, <1>4, Zenon DEF Stage, Reads
<1>5. ASSUME phase = "done"
      PROVE  IF meant = G!BrokenMark \/ G!Meanings(meant) = {} THEN result = G!Failed
             ELSE G!Meanings(meant) = {result}
  <2>1. CASE cut
    <3>1. result = G!Failed
      BY <1>1, <1>3, <1>5, <2>1, Zenon DEF Stage
    <3> QED
      BY <1>2, <2>1, <3>1, Zenon
  <2>2. CASE ~cut
    <3>1. Settled(list, result)
      BY <1>1, <1>3, <1>5, <2>2, Zenon DEF Stage, Reads
    <3> QED
      BY <1>2, <2>2, <3>1, Zenon DEF Settled
  <2> QED
    BY <2>1, <2>2, Zenon
<1> QED
  BY <1>4, <1>5, Zenon DEF G!Understood

\* config.c: for any words, however they are quoted, what is read of a description are the words
\* that were meant; and what comes of them is what they mean, or the refusal of a description
\* that means nothing or ends within quotes or after a backslash.
THEOREM ConfigRight == Spec => []ConfigUnderstood
<1> DEFINE Inv == part = "config" => ConfigInv
<1>1. Init => Inv
  BY ConfigBegins, Zenon DEF Init
<1>2. Inv /\ [Next]_vars => Inv'
  <2> SUFFICES ASSUME Inv, [Next]_vars, part' = "config" PROVE ConfigInv'
    OBVIOUS
  <2>1. part' = part /\ (G!Next \/ UNCHANGED configVars)
    BY Zenon DEF Next, vars
  <2>2. ConfigInv
    BY <2>1
  <2> QED
    BY <2>1, <2>2, ConfigStep, ConfigStays, Zenon
<1>3. Inv => ConfigUnderstood
  BY ConfigMeans, Zenon DEF ConfigUnderstood
<1> HIDE DEF Inv
<1> QED
  BY <1>1, <1>2, <1>3, PTL DEF Spec
=============================================================================
