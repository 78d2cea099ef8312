------------------------------ MODULE EmulatorLoop ------------------------------
(***************************************************************************)
(* The pace of the emulator thread when a tool server drives the terminal  *)
(* (emu_main, host/ctl.c): a chunk of instructions, then a sleep up to the *)
(* deadline, which moves on by the chunk's time.  What the thread does     *)
(* under the mutex is in Control; here is only its clock.                  *)
(***************************************************************************)
EXTENDS Integers

CONSTANTS
  Cost,        \* speed -> the time of a chunk at that speed; 0 where the speed is unlimited
  LongestChunk,   \* the longest of these times
  Limit,       \* 250 ms: how far behind the thread still catches up
  MaxHold,     \* bound: the longest that a chunk, or waiting for the mutex, takes
  Nap          \* 20 ms, the sleep of a paused thread

ASSUME EmulatorAssumption ==
  /\ LongestChunk \in Nat /\ \A s \in DOMAIN Cost : Cost[s] \in 0..LongestChunk
  /\ "paused" \notin DOMAIN Cost
  /\ Limit \in Nat /\ MaxHold \in Nat /\ Nap \in Nat

VARIABLES
  turn,      \* where the thread stands: before the chunk, or behind it
  speed,     \* the speed read with the chunk, or "paused"
  ahead,     \* deadline - now
  surge      \* how far emulated time ran ahead of the clock, over the stretch that makes it most

emulatorVars == <<turn, speed, ahead, surge>>

AtLeast(n, bound) == IF n < bound THEN bound ELSE n
Unlimited == {s \in DOMAIN Cost : Cost[s] = 0}
Paced == DOMAIN Cost \ Unlimited

EmulatorInit == turn = "chunk" /\ speed = "paused" /\ ahead = 0 /\ surge = 0

\* The mutex is taken, the speed read and the chunk run: d until it is released.  Only the
\* lateness that is told apart is kept.
Chunk(d) ==
  /\ turn = "chunk" /\ turn' = "sleep"
  /\ speed' \in DOMAIN Cost \cup {"paused"}
  /\ ahead' = AtLeast(ahead - d, -Limit - MaxHold)
  /\ surge' = IF speed' \in Paced THEN AtLeast(surge - d, 0) + Cost[speed']
              ELSE IF speed' \in Unlimited THEN 0 ELSE AtLeast(surge - d, 0)

PausedSleep(d) ==
  /\ turn = "sleep" /\ speed = "paused"
  /\ turn' = "chunk" /\ ahead' = 0
  /\ surge' = AtLeast(surge - Nap - d, 0)
  /\ UNCHANGED speed

UnlimitedSleep ==
  /\ turn = "sleep" /\ speed \in Unlimited
  /\ turn' = "chunk" /\ ahead' = 0
  /\ UNCHANGED <<speed, surge>>

\* deadline += the chunk's time: sleep up to it, or go on at once, from now if it is too long past.
NextAheadUnlimited(a, d) == IF a > 0 THEN -d ELSE a
NextAhead(a, d) == IF a > 0 THEN -d ELSE IF -a > Limit THEN 0 ELSE a
PacedSleep(d) ==
  /\ turn = "sleep" /\ speed \in Paced
  /\ turn' = "chunk"
  /\ LET a == ahead + Cost[speed]
     IN /\ ahead' = NextAhead(a, d)
        /\ surge' = IF a > 0 THEN AtLeast(surge - a - d, 0) ELSE surge
  /\ UNCHANGED speed

EmulatorNext == UnlimitedSleep \/ \E d \in 0..MaxHold : Chunk(d) \/ PausedSleep(d) \/ PacedSleep(d)

\* ctl.c: whatever holds the thread up, and whenever speed and pause are changed, the emulated
\* time that is made up for at once stays within the limit and two chunks.
EmulatorKeepsPace == surge <= Limit + 2 * LongestChunk
=============================================================================
