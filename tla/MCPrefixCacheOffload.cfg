CONSTANTS
  r1 = r1
  r2 = r2
  r3 = r3
  r4 = r4
  Reqs <- MCReqs
  Tokens = {1, 2, 3, 4, 5, 6}
  Stream <- SharedStream
  PromptLen <- SharedPrompt
  NumPages = 5
  HostBlocks = 5
  ChunkSize = 2
  MaxBatch = 2
  MayAbort = {r2}
  MayDelete <- MCDelete
  MayPin <- MCPin

SPECIFICATION Spec
INVARIANTS
  TiersConserved
  RefsExact
  ResidencyRooted
  PrefixReadable
  PromiseKept
  CapacityViewFresh
  NothingStranded
\* A workload ends, and so does an engine that raised.
CHECK_DEADLOCK FALSE
