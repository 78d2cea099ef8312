SPECIFICATION EchoSpec
CONSTANTS
  RingCap = 1
  Cooldown = 1
  ResetSleep = 1
  SessCap = 1
  PeerCap = 1
  MaxOut = 4
  MaxIn = 3
  Kinds = {"data", "xon", "xoff"}
INVARIANTS OutInOrder LossNeedsRefusals
PROPERTIES InIsPipe BytesMoveOn
