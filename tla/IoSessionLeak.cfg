SPECIFICATION FairSpec
CONSTANTS
  Cap = 1
  MaxRx = 1
  MaxTx = 1
PROPERTY DestroyReleases
\* Once the session is destroyed and its threads have returned, nothing is left to do.
CHECK_DEADLOCK FALSE
