CONSTANTS
  r1 = r1
  r2 = r2
  r3 = r3
  r4 = r4
  Reqs <- TwoReqs
  Tokens = {1, 2, 3, 4, 5, 6}
  Stream <- ReplayStream
  PromptLen <- ReplayPrompt
  NumPages = 4
  HostBlocks = 4
  ChunkSize = 2
  MaxBatch = 2
  MayAbort = {}
  MayDelete = {}
  MayPin = {}

SPECIFICATION Spec
INVARIANTS
  InsertsSucceed
\* A workload ends, and so does an engine that raised.
CHECK_DEADLOCK FALSE
