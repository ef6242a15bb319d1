CONSTANTS
  r1 = r1
  r2 = r2
  r3 = r3
  r4 = r4
  Reqs <- MixedReqs
  PageSize = 1
  NumPages = 6
  NumRows = 2
  PromptLen <- MixedPrompt
  MaxTokens <- MixedMax
  FullPrefill = {r2}
  ChunkSize = 2
  MaxBatchTokens = 4
  MaxBatchSeqs = 2
  MaxDecoding = 3
  LongThreshold = 4
  MayAbort = {r1, r3}

SPECIFICATION Spec
INVARIANTS
  TypeOK
  RequestsOwnedOnce
  KvMatchesHistory
  PublishedOnce
  ReplayIsolated
  CommittedBatchFits
  SelfChecksHold
PROPERTY ImplementsService
\* The engine rests when every request is answered, and after an exception.
CHECK_DEADLOCK FALSE
