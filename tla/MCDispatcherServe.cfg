SPECIFICATION Spec
CONSTANTS
  r1 = r1  r2 = r2  r3 = r3  q1 = q1  q2 = q2  c1 = c1
  NoReq = NoReq  Wakeup = Wakeup  Stop = Stop
  Reqs = {r1, r2}
  Seqs = {q1}
  SeqOf <- MCSeqOf
  Ctls = {c1}
  MaxTokens = 1
  MayCancel = {r2}
  MayDiscard = {r1}
  MayClose = TRUE
  Faults <- MCFaults
INVARIANTS
  NoOrphans
  CancelNotLost
PROPERTIES
  EndIsFinal
  OnlyOwnAborts
  EveryRequestAnswered
  EveryCallReturns
  CloseEndsThread
CHECK_DEADLOCK FALSE
