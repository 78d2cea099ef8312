SPECIFICATION Spec
CONSTANTS
  UpdateStep = 2
  RenderStep = 5
  MaxCatchup = 2
  MaxDelay = 2
  Cost <- MCCost
  LongestChunk = 4
  Limit = 7
  MaxHold = 20
  Nap = 5
  Byte <- MCByte
  Cap = 4
  Word = 8
  FirstCap = 2
  MaxCap = 4
  WordLists <- Lists
  Lines = 12
  StatusLines = 4
  ShortStatus = 3
  Heights <- MCHeights
  MaxRows = 7
  RowTables <- MCRowTables
  FirstEnd = 108
  SecondStart = 128
  SecondEnd = 221
  Addresses <- Edges
  Values <- MCValues
  HSync = 3
  HTotal = 4
  VSync = 2
  VPorch <- MCPorch
  VActive = 2
  VFront <- MCFront
  Sizes <- MCSizes
  Cell <- MCCell
  Default = 0
  RingCap = 5
  KeyGap = 2
  DrainCap = 5
  MostAnswers = 2
  MaxKeys = 2
  Typeable <- MCTypeable
INVARIANTS ConfigUnderstood FrameIsRight ScreenIsFrame KeysAreHeard WindowKeepsPace EmulatorKeepsPace
PROPERTIES QueuesAreFifos MemoryIsSound
\* A description is read, a frame drawn, a row unpacked and a text typed, and then there is nothing left to do.
CHECK_DEADLOCK FALSE
