CONSTANTS
  N = 2
  MaxCalls = 2
  Methods = {"run", "free_slots"}
  DecodeGraph = FALSE
  FailPoints = {"before", "after"}
  Forced = TRUE

SPECIFICATION FairSpec
PROPERTY
  ShutdownEnds
\* The engine is over when exit() has returned.
CHECK_DEADLOCK FALSE
