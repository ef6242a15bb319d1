CONSTANTS
  MaxChains = 4
  Layers = {1}
  Budget <- FullBudget
  Slots = 8
  NumRows = 2
  MaxModelLen = 6
  ChunkSize = 2
  PromptLens = {1, 3, 4}
  MaxTokens = {1, 3}
  MaxTombstones = 1

SPECIFICATION FairSpec
INVARIANTS
  TypeOK
  IndexAgrees
  IdleChainsAreExact
  GrowthCovered
  NeverStranded
PROPERTIES
  ImplementsLifecycle
  EveryTurnEnds
\* The engine rests when every chain is idle or gone, and after an exception.
CHECK_DEADLOCK FALSE
