CONSTANTS
  r1 = r1
  r2 = r2
  r3 = r3
  r4 = r4
  Reqs <- MixedReqs
  PageSize = 2
  NumPages = 5
  NumRows = 4
  PromptLen <- ShortPrompt
  MaxTokens <- ShortMax
  FullPrefill = {}
  ChunkSize = 4
  MaxBatchTokens = 8
  MaxBatchSeqs = 4
  MaxDecoding = 4
  LongThreshold = 0
  MayAbort = {}

SPECIFICATION Spec
INVARIANT CommittedBatchFits
CHECK_DEADLOCK FALSE
