CONSTANTS
  N = 2
  MaxCalls = 3
  Methods = {"run", "chain_validate_admission_plan",
             "capture_startup_memory_snapshot", "set_tokenizer_metadata"}
  DecodeGraph = TRUE
  FailPoints = {"before", "after", "diverge"}
  Forced = FALSE

SPECIFICATION Spec
INVARIANTS
  InOrder
  StatusIsCurrent
  FailureReported
  CollectivesMatch
  CallsReturn
\* A rank that has deserted a collective has done so for good, and every
\* invariant excepts what follows.
CONSTRAINT
  NobodyDeserted
\* The engine is over when exit() has returned.
CHECK_DEADLOCK FALSE
