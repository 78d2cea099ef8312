SPECIFICATION Spec
CONSTANTS
  Ports = {p1}
  Configs = {c1}
  Loopback = lo
  MaxWait = 1
  MaxFrames = 1
INVARIANT NoCrash
\* The program ends at the end of its input, or crashes.
CHECK_DEADLOCK FALSE
