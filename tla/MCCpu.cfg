SPECIFICATION Spec
CONSTANTS
  RomSize = 131072
  Rom <- MCRom
  XDatas <- MCXDatas
  Ram <- MCRam
  HandlerRam <- MCHandlerRam
  MaxEvents = 2
INVARIANTS TypeOK ResultsAreArithmetic
PROPERTIES InterruptsAreInvisible RequestsAreKept PortLatchKept TimerServed
