SPECIFICATION FairSpec
CONSTANTS
  Ports = {p1}
  Configs = {c1}
  Loopback = lo
  MaxWait = 3
  MaxFrames = 2
INVARIANTS CrashNeedsFailure PausedMatchIsShown NoSilentStall
PROPERTIES ResetKeepsSessions EverythingEnds
\* The program ends at the end of its input, or crashes.
CHECK_DEADLOCK FALSE
