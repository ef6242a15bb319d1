CONSTANTS
  r1 = r1
  r2 = r2
  r3 = r3
  r4 = r4
  Reqs <- MixedReqs
  PageSize = 2
  NumPages = 3
  NumRows = 3
  PromptLen <- HopelessPrompt
  MaxTokens <- HopelessMax
  FullPrefill = {}
  ChunkSize = 2
  MaxBatchTokens = 3
  MaxBatchSeqs = 2
  MaxDecoding = 2
  LongThreshold = 0
  MayAbort = {r2}

SPECIFICATION Spec
INVARIANTS
  PagesConserved
PROPERTIES
  StepEnds
  RequestsSettle
\* The engine rests when every request is answered, and after an exception.
CHECK_DEADLOCK FALSE
