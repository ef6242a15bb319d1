CONSTANTS
  MaxChains = 3
  Layers = {1, 2}
  Budget <- SlopedBudget
  Slots = 7
  NumRows = 2
  MaxModelLen = 10
  ChunkSize = 6
  PromptLens = {1, 4, 6}
  MaxTokens = {1, 4, 5}
  MaxTombstones = 1

SPECIFICATION Spec
INVARIANTS
  HistoryIsCounted
  FinishChecksHold
\* The engine rests when every chain is idle or gone, and after an exception.
CHECK_DEADLOCK FALSE
