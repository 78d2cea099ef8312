SPECIFICATION Spec
CONSTANTS
  RingCap = 2
  QueueCap = 3
  Frames = {2, 3}
  PowerUpReply = 2
  MaxDown = 3
  MaxUp = 2
INVARIANTS CommandsAreHeard CommandsAreExecuted KeysLeaveInTime
PROPERTIES OverrunNeedsLateFirmware
