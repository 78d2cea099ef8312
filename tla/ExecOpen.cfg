SPECIFICATION FairSpec
CONSTANTS
  Sessions = {s1, s2}
  App = app
  KindsOpened = {"exec", "pty", "pipes"}
INVARIANTS OpenOrNothing ForeignEndsNeedExposure
PROPERTIES EndsAreSeen
\* Once every session has failed or ended there is nothing left to do.
CHECK_DEADLOCK FALSE
