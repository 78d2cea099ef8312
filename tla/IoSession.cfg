SPECIFICATION CooperativeSpec
CONSTANTS
  Cap = 2
  MaxRx = 3
  MaxTx = 2
INVARIANTS NoUseAfterFree NoLostWakeup NothingLeft
PROPERTIES ChannelsArePipes BytesArrive DestroyReleases
\* Once the session is destroyed and its threads have returned, nothing is left to do.
CHECK_DEADLOCK FALSE
