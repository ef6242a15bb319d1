SPECIFICATION Spec
CONSTANTS
  r1 = r1  r2 = r2  r3 = r3  q1 = q1  q2 = q2  c1 = c1
  NoReq = NoReq  Wakeup = Wakeup  Stop = Stop
  Reqs = {r1}
  Seqs = {q1}
  SeqOf <- MCSeqOf
  Ctls = {}
  MaxTokens = 1
  MayCancel = {}
  MayDiscard = {}
  MayClose = FALSE
  Faults <- FaultPoints
PROPERTY EveryRequestAnswered
CHECK_DEADLOCK FALSE
