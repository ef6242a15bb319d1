--------------------------- MODULE KvHistoryProofs ---------------------------
(***************************************************************************)
(* KvMatchesHistory and SelfChecksHold, for every set of requests, every   *)
(* pool and every choice of the batching limits.                           *)
(*                                                                         *)
(* KvMatchesHistory speaks of the moments between two steps.  Inside a     *)
(* step the cache manager runs ahead of the sequences: a batch owns the KV *)
(* of its tokens from prepare_step on, and postprocess books them one      *)
(* request at a time.  The invariant says for every request how far ahead  *)
(* its KV is (Grant), that a row was promised before it is taken           *)
(* (Promised), and what the counters of a Sequence can be while its prompt *)
(* is, or is not, prefilled (Progress).                                    *)
(***************************************************************************)
EXTENDS OwnershipProofs

\* The requests whose prompt the step in progress prefills.
Hand == IF pc = "decode" THEN {} ELSE ToSet(InHand)

\* The requests whose KV of this step is allocated but not booked yet.
Granted ==
  IF pc = "prepare" THEN ToSet(batch) \ ToSet(todo)
  ELSE IF pc = "postprocess" THEN ToSet(todo)
  ELSE {}

Grant(s) == IF s \notin Granted THEN 0 ELSE IF isPrefill THEN chunk[s] ELSE 1

\* The requests in hand that count as resident whether or not they have a row.
Promised ==
  IF pc = "prefill" THEN ToSet(batch)
  ELSE IF pc = "prepare" /\ isPrefill THEN ToSet(todo)
  ELSE {}

\* The tokens whose KV the sequence itself accounts for.
Booked(s) ==
  IF ~Prefilled(s) THEN prefilled[s]
  ELSE PromptLen[s] + (IF IsReplay(s) THEN cursor[s] ELSE completion[s] - 1)

\* A request that prefills has no replay cursor, or one that has not moved; one
\* that decodes has an accepted token, and another one left if it replays.
ProgressOf(s) ==
  /\ status[s] = "new" =>
       prefilled[s] = 0 /\ completion[s] = 0 /\ cursor[s] = NoReplay
  /\ s \in Live /\ ~Prefilled(s) =>
       cursor[s] = IF completion[s] = 0 THEN NoReplay ELSE 0
  /\ s \in Live /\ Prefilled(s) =>
       completion[s] >= 1 /\ (IsReplay(s) => cursor[s] + 1 < completion[s])

\* Whoever waits or is in hand has prompt left, and a chunk stays within it.
Progress ==
  /\ \A s \in Reqs : ProgressOf(s)
  /\ \A s \in ToSet(waiting) \union Hand : ~Prefilled(s)
  /\ \A s \in Hand : 0 < chunk[s] /\ chunk[s] <= RemainingPrefillTokens(s)

\* What the loops of a step have left to do, and whom it releases at its end.
LoopShape ==
  /\ pc = "prepare" /\ isPrefill => ToSet(todo) \subseteq ToSet(batch) /\ IsInjective(todo)
  /\ pc = "prepare" /\ ~isPrefill /\ todo # <<>> => ToSet(todo) = ToSet(batch)
  /\ pc \notin {"postprocess", "free"} => finished = <<>>
  /\ IsInjective(finished)
  /\ ToSet(finished) \cap Live = {}

\* The KV of a request is what it has booked and what it was granted; a
\* request that finished keeps its row until the end of the step.
LengthOf(s) ==
  /\ IF s \in Live THEN kvLen[s] = Booked(s) + Grant(s)
     ELSE IF s \in ToSet(finished) THEN kvLen[s] > 0
     ELSE kvLen[s] = 0
  /\ s \in rows <=> kvLen[s] > 0

Lengths == \A s \in Reqs : LengthOf(s)

\* The resident set holds the rows that are taken and those that are promised,
\* and the budget of a prefill scan is what is left of the table.
Residents ==
  /\ resident = rows \union Promised
  /\ Cardinality(resident) <= NumRows
  /\ pc = "prefill" => Cardinality(resident) + loc.residents <= NumRows

KvInv ==
  /\ StreamInv
  /\ SelfChecksHold
  /\ pc # "raised" => Progress /\ LoopShape /\ Lengths /\ Residents

-----------------------------------------------------------------------------
\* What is known of the queues while no exception was raised.
LEMMA QueueFacts ==
  ASSUME SchedulerAssumption, StreamInv, pc # "raised"
  PROVE  /\ TypeOK /\ StepShape
         /\ waiting \in Seq(Reqs) /\ decoding \in Seq(Reqs) /\ batch \in Seq(Reqs)
         /\ todo \in Seq(Reqs) /\ finished \in Seq(Reqs)
         /\ IsInjective(waiting) /\ IsInjective(decoding) /\ IsInjective(InHand)
         /\ Live = ToSet(waiting) \union ToSet(decoding) \union ToSet(InHand)
         /\ ToSet(waiting) \cap ToSet(decoding) = {}
         /\ ToSet(waiting) \cap ToSet(InHand) = {}
         /\ ToSet(decoding) \cap ToSet(InHand) = {}
         /\ Live \subseteq Reqs
         /\ status \in [Reqs -> {"new", "waiting", "running", "finished"}]
         /\ prefilled \in [Reqs -> Nat] /\ completion \in [Reqs -> Nat]
         /\ chunk \in [Reqs -> Nat] /\ cursor \in [Reqs -> Nat \union {-1}]
         /\ PromptLen \in [Reqs -> Nat \ {0}]
  BY DEF StreamInv, OwnershipInv, QueuesOwn, Owned, TypeOK, Live, SchedulerAssumption,
         NoReplay

\* A step that leaves the counters alone and brings no request forward.
LEMMA ProgressKept ==
  ASSUME Progress, UNCHANGED <<status, prefilled, completion, cursor, chunk>>,
         ToSet(waiting') \subseteq ToSet(waiting), Hand' \subseteq Hand
  PROVE  Progress'
  BY DEF Progress, ProgressOf, Prefilled, RemainingPrefillTokens, Live, IsReplay

\* One iteration of postprocess takes its request off the list of the step.
LEMMA PostprocessFacts ==
  ASSUME SchedulerAssumption, StreamInv, pc # "raised", NEW s, Postprocess(s)
  PROVE  /\ pc = "postprocess" /\ pc' = "postprocess" /\ s \in Live /\ s \in Reqs
         /\ s \in ToSet(todo) /\ ToSet(todo') = ToSet(todo) \ {s}
         /\ Granted = ToSet(todo) /\ Granted' = ToSet(todo) \ {s}
         /\ isPrefill' = isPrefill /\ UNCHANGED <<chunk, resident, kvVars>>
         /\ isPrefill => /\ s \in Hand /\ Hand = ToSet(todo) /\ Hand' = Hand \ {s}
                         /\ s \notin ToSet(waiting) /\ s \notin ToSet(decoding)
         /\ ~isPrefill => /\ s \in ToSet(decoding) /\ Prefilled(s)
                          /\ Hand = {} /\ Hand' = {}
<1>1. /\ pc = "postprocess" /\ pc' = "postprocess" /\ todo # <<>> /\ s = Head(todo)
      /\ todo' = Tail(todo) /\ isPrefill' = isPrefill /\ UNCHANGED <<chunk, resident, kvVars>>
  BY DEF Postprocess
<1>2. /\ todo \in Seq(Reqs) /\ Live \subseteq Reqs
      /\ Live = ToSet(waiting) \union ToSet(decoding) \union ToSet(InHand)
      /\ ToSet(waiting) \cap ToSet(InHand) = {}
      /\ ToSet(decoding) \cap ToSet(InHand) = {}
      /\ IsInjective(InHand)
  BY QueueFacts
<1>3. IsInjective(todo) /\ ToSet(todo) \subseteq Live
  <2>1. CASE isPrefill
    BY <1>1, <1>2, <2>1 DEF InHand
  <2>2. CASE ~isPrefill
    BY <1>1, <1>2, <2>2 DEF StreamInv, DecodeShape
  <2> QED BY <2>1, <2>2
<1>4. s \in ToSet(todo) /\ ToSet(todo') = ToSet(todo) \ {s}
  BY <1>1, <1>2, <1>3, TailOwnership
<1>5. Granted = ToSet(todo) /\ Granted' = ToSet(todo) \ {s}
  BY <1>1, <1>4 DEF Granted
<1>6. ASSUME isPrefill
      PROVE  /\ s \in Hand /\ Hand = ToSet(todo) /\ Hand' = Hand \ {s}
             /\ s \notin ToSet(waiting) /\ s \notin ToSet(decoding)
  BY <1>1, <1>2, <1>4, <1>6 DEF Hand, InHand
<1>7. ASSUME ~isPrefill
      PROVE  s \in ToSet(decoding) /\ Prefilled(s) /\ Hand = {} /\ Hand' = {}
  BY <1>1, <1>4, <1>7, EmptyOwnership DEF Hand, InHand, StreamInv, DecodeShape
<1> QED
  BY <1>1, <1>2, <1>3, <1>4, <1>5, <1>6, <1>7

\* A chunk never exceeds the prompt that is left (_prefill_step_tokens).
LEMMA ChunkWithinPrompt ==
  ASSUME KvCacheAssumption, SchedulerAssumption, TypeOK, NEW s \in Reqs,
         PrefillStepTokens(s) > 0
  PROVE  PrefillStepTokens(s) <= RemainingPrefillTokens(s)
<1>1. /\ RemainingPrefillTokens(s) \in Int /\ CandidateStepFree(s) \in Int
      /\ ChunkSize \in Int /\ MaxBatchTokens \in Int
  BY PrefillTypes DEF SchedulerAssumption
<1>2. loc.tokens \in Nat
  BY DEF TypeOK, Locals
<1> QED
  BY <1>1, <1>2 DEF PrefillStepTokens, Least

\* Every action keeps the counters of the sequences in step with their queue.
LEMMA ProgressStep ==
  ASSUME KvCacheAssumption, SchedulerAssumption, StreamInv, Progress, LoopShape,
         [Next]_vars, pc # "raised", pc' # "raised"
  PROVE  Progress'
<1> USE DEF seqVars, queueVars, stepVars, kvVars
<1>a. /\ TypeOK /\ StepShape
      /\ waiting \in Seq(Reqs) /\ decoding \in Seq(Reqs) /\ batch \in Seq(Reqs)
      /\ todo \in Seq(Reqs)
      /\ IsInjective(waiting) /\ IsInjective(decoding) /\ IsInjective(InHand)
      /\ Live = ToSet(waiting) \union ToSet(decoding) \union ToSet(InHand)
      /\ ToSet(waiting) \cap ToSet(InHand) = {}
      /\ Live \subseteq Reqs
      /\ status \in [Reqs -> {"new", "waiting", "running", "finished"}]
      /\ prefilled \in [Reqs -> Nat] /\ completion \in [Reqs -> Nat]
      /\ chunk \in [Reqs -> Nat] /\ cursor \in [Reqs -> Nat \union {-1}]
      /\ PromptLen \in [Reqs -> Nat \ {0}]
  BY QueueFacts
<1>b. ASSUME NEW why, Raise(why) PROVE FALSE
  BY <1>b DEF Raise
<1>c. ASSUME NEW i \in DOMAIN waiting
      PROVE  /\ waiting[i] \in Reqs /\ waiting[i] \in ToSet(waiting)
             /\ ToSet(RemoveAt(waiting, i)) = ToSet(waiting) \ {waiting[i]}
             /\ ToSet(Append(RemoveAt(waiting, i), waiting[i])) = ToSet(waiting)
  BY <1>a, RotateOwnership
<1>d. ASSUME pc = "idle" PROVE Hand = {}
  BY <1>d, EmptyOwnership DEF Hand, InHand
<1>1. ASSUME NEW s \in Reqs, AddRequest(s) PROVE Progress'
  <2>1. /\ pc = "idle" /\ pc' = "idle" /\ status[s] = "new"
        /\ status' = [status EXCEPT ![s] = "waiting"] /\ waiting' = Append(waiting, s)
        /\ UNCHANGED <<prefilled, completion, cursor, chunk, decoding>>
    BY <1>1 DEF AddRequest
  <2>2. Hand = {} /\ Hand' = {}
    BY <1>d, <2>1, EmptyOwnership DEF Hand, InHand
  <2>3. ToSet(waiting') = ToSet(waiting) \union {s}
    BY <1>a, <2>1, AppendOwnership
  <2>4. \A t \in Reqs : ProgressOf(t)'
    BY <1>a, <2>1 DEF Progress, ProgressOf, Prefilled, Live, IsReplay
  <2>5. prefilled[s] = 0
    BY <2>1 DEF Progress, ProgressOf
  <2> QED BY <1>a, <2>1, <2>2, <2>3, <2>4, <2>5 DEF Progress, Prefilled
<1>2. ASSUME NEW s \in Reqs, AbortRequest(s) PROVE Progress'
  <2>1. /\ pc = "idle" /\ pc' = "idle"
        /\ status' = [status EXCEPT ![s] = "finished"]
        /\ UNCHANGED <<prefilled, completion, cursor, chunk>>
    BY <1>2, <1>b DEF AbortRequest
  <2>2. Hand' = {}
    BY <2>1, EmptyOwnership DEF Hand, InHand
  <2>3. ToSet(waiting') \subseteq ToSet(waiting)
    BY <1>2, <1>c DEF AbortRequest, AbortFrom
  <2>4. \A t \in Reqs : ProgressOf(t)'
    BY <1>a, <2>1 DEF Progress, ProgressOf, Prefilled, Live, IsReplay
  <2> QED BY <2>1, <2>2, <2>3, <2>4 DEF Progress, Prefilled
<1>3. CASE BeginSchedule
  <2>1. Hand' = {}
    BY <1>3, <1>a, EmptyOwnership DEF BeginSchedule, Hand, InHand, StepShape
  <2> QED BY <1>3, <2>1, ProgressKept DEF BeginSchedule
<1>4. ASSUME NEW i \in DOMAIN waiting, NEW F, Requeue(i, F) PROVE Progress'
  <2>1. ToSet(waiting') = ToSet(waiting) /\ Hand' = Hand
    BY <1>4, <1>c DEF Requeue, Hand, InHand
  <2> QED BY <1>4, <2>1, ProgressKept DEF Requeue
<1>5. ASSUME NEW i \in DOMAIN waiting, PrefillBlocked(i) \/ PrefillDeferred(i)
      PROVE  Progress'
  BY <1>4, <1>5, <1>b DEF PrefillBlocked, PrefillDeferred
<1>6. ASSUME NEW i \in DOMAIN waiting, PrefillScheduled(i) PROVE Progress'
  <2> DEFINE s == waiting[i]
             n == PrefillStepTokens(s)
  <2>1. /\ pc = "prefill" /\ pc' = "prefill" /\ n > 0
        /\ waiting' = RemoveAt(waiting, i) /\ batch' = Append(batch, s)
        /\ status' = [status EXCEPT ![s] = "running"]
        /\ chunk' = [chunk EXCEPT ![s] = n]
        /\ UNCHANGED <<prefilled, completion, cursor>>
    BY <1>6 DEF PrefillScheduled, PrefillLoop
  <2>2. s \in Reqs /\ s \in ToSet(waiting) /\ s \in Live
    BY <1>a, <1>c
  <2>3. n <= RemainingPrefillTokens(s) /\ n \in Int
    BY <1>a, <2>1, <2>2, ChunkWithinPrompt, PrefillTypes
  <2> HIDE DEF n
  <2>4. Live' = Live
    BY <1>a, <2>1, <2>2, LiveKept
  <2>5. Hand = ToSet(batch) /\ Hand' = ToSet(batch) \union {s}
    BY <1>a, <2>1, <2>2, AppendOwnership DEF Hand, InHand
  <2>6. ToSet(waiting') \subseteq ToSet(waiting)
    BY <1>c, <2>1
  <2> HIDE DEF s
  <2>7. \A t \in Reqs : ProgressOf(t)'
    BY <1>a, <2>1, <2>2, <2>4 DEF Progress, ProgressOf, Prefilled, IsReplay
  <2>8. \A t \in ToSet(waiting') \union Hand' : ~Prefilled(t)'
    BY <2>1, <2>2, <2>5, <2>6 DEF Progress, Prefilled
  <2>9. \A t \in Hand' : 0 < chunk'[t] /\ chunk'[t] <= RemainingPrefillTokens(t)'
    <3> TAKE t \in Hand'
    <3>1. CASE t = s
      BY <1>a, <2>1, <2>2, <2>3, <3>1 DEF RemainingPrefillTokens
    <3>2. CASE t # s
      <4>1. t \in Hand
        BY <2>5, <3>2
      <4>2. chunk'[t] = chunk[t]
        BY <1>a, <2>1, <2>2, <3>2
      <4> QED BY <2>1, <4>1, <4>2 DEF Progress, RemainingPrefillTokens
    <3> QED BY <3>1, <3>2
  <2> QED BY <2>7, <2>8, <2>9 DEF Progress
<1>7. CASE EndPrefillScan
  <2>1. Hand' \subseteq Hand
    BY <1>7, <1>a, EmptyOwnership DEF EndPrefillScan, Hand, InHand
  <2> QED BY <1>7, <2>1, ProgressKept DEF EndPrefillScan
<1>8. ASSUME NEW i \in DOMAIN decoding, DecodeScheduled(i) \/ DecodeBlocked(i)
      PROVE  Progress'
  <2>1. Hand' = {}
    BY <1>8 DEF DecodeScheduled, DecodeBlocked, DecodeLoop, Hand
  <2> QED BY <1>8, <2>1, ProgressKept DEF DecodeScheduled, DecodeBlocked
<1>9. ASSUME NEW i \in DOMAIN decoding, PreemptCandidate(i) \/ PreemptBlocked(i)
      PROVE  Progress'
  <2> DEFINE v == decoding[i]
  <2>1. PreemptDecodeVictim(v, RemoveAt(decoding, i))
    BY <1>9 DEF PreemptCandidate, PreemptBlocked
  <2>2. /\ status' = [status EXCEPT ![v] = "waiting"]
        /\ cursor' = [cursor EXCEPT ![v] = IF completion[v] > 0 THEN 0 ELSE @]
        /\ prefilled' = [prefilled EXCEPT ![v] = 0]
        /\ waiting' = Append(waiting, v)
        /\ pc' = "idle"
        /\ UNCHANGED completion
    BY <1>b, <2>1 DEF PreemptDecodeVictim, Return
  <2>3. v \in Reqs /\ v \in ToSet(decoding) /\ v \in Live
    BY <1>a, RotateOwnership
  <2> HIDE DEF v
  <2>4. Live' = Live
    BY <1>a, <2>2, <2>3, LiveKept
  <2>5. Prefilled(v)
    BY <2>3 DEF StreamInv, DecodeShape
  <2>6. completion[v] >= 1
    BY <2>3, <2>5 DEF Progress, ProgressOf
  <2>7. Hand' = {}
    BY <2>2, EmptyOwnership DEF Hand, InHand
  <2>8. ToSet(waiting') = ToSet(waiting) \union {v}
    BY <1>a, <2>2, <2>3, AppendOwnership
  <2>9. \A t \in Reqs : ProgressOf(t)'
    <3> SUFFICES ASSUME NEW t \in Reqs PROVE ProgressOf(t)'
      OBVIOUS
    <3>1. CASE t = v
      <4>1. /\ status'[v] = "waiting" /\ prefilled'[v] = 0 /\ cursor'[v] = 0
            /\ completion'[v] = completion[v] /\ completion[v] # 0 /\ PromptLen[v] > 0
        <5>1. completion[v] \in Nat /\ completion[v] > 0
          BY <1>a, <2>3, <2>6
        <5>2. cursor'[v] = 0
          BY <1>a, <2>2, <2>3, <5>1
        <5>3. PromptLen[v] \in Nat \ {0}
          BY <1>a, <2>3
        <5>4. prefilled'[v] = 0 /\ status'[v] = "waiting"
          BY <1>a, <2>2, <2>3
        <5> QED BY <2>2, <5>1, <5>2, <5>3, <5>4
      <4> QED BY <3>1, <4>1 DEF ProgressOf, Prefilled
    <3>2. CASE t # v
      BY <1>a, <2>2, <2>3, <2>4, <3>2 DEF Progress, ProgressOf, Prefilled, IsReplay
    <3> QED BY <3>1, <3>2
  <2>10. \A t \in ToSet(waiting') : ~Prefilled(t)'
    <3> TAKE t \in ToSet(waiting')
    <3>1. CASE t = v
      BY <1>a, <2>2, <2>3, <3>1 DEF Prefilled
    <3>2. CASE t # v
      <4>1. t \in ToSet(waiting) /\ t \in Reqs
        BY <1>a, <2>8, <3>2
      <4>2. prefilled'[t] = prefilled[t]
        BY <1>a, <2>2, <3>2, <4>1
      <4> QED BY <4>1, <4>2 DEF Progress, Prefilled
    <3> QED BY <3>1, <3>2
  <2> QED BY <2>7, <2>9, <2>10 DEF Progress
<1>10. CASE NothingRunnable
  BY <1>10 DEF NothingRunnable, Raise
<1>11. CASE EndDecodeScan
  <2>1. Hand' = {}
    BY <1>11, <1>a, EmptyOwnership DEF EndDecodeScan, DecodeScanDone, Hand, InHand, StepShape
  <2> QED BY <1>11, <2>1, ProgressKept DEF EndDecodeScan
<1>12. CASE Running
  <2>1. UNCHANGED <<status, prefilled, completion, cursor, chunk, waiting>>
    BY <1>12 DEF Running, PrepareChunk, PrepareDecode, EndPrepare
  <2>2. Hand' = Hand
    BY <1>12, <1>b DEF Running, PrepareChunk, PrepareDecode, EndPrepare, Hand, InHand
  <2> QED BY <2>1, <2>2, ProgressKept
<1>13. ASSUME NEW s \in Reqs, Postprocess(s), isPrefill,
              prefilled' = [prefilled EXCEPT ![s] = @ + chunk[s]],
              ToSet(waiting') \ {s} \subseteq ToSet(waiting),
              s \in ToSet(waiting') => ~IsLastChunkPrefill(s),
              \A t \in Reqs \ {s} : ProgressOf(t)' = ProgressOf(t),
              ProgressOf(s)'
       PROVE  Progress'
  <2>1. /\ s \in Hand /\ Hand' = Hand \ {s} /\ UNCHANGED chunk
        /\ Hand \subseteq Reqs /\ ToSet(waiting) \subseteq Reqs
    BY <1>13, <1>a, PostprocessFacts DEF Hand
  <2>2. \A t \in Reqs \ {s} : prefilled'[t] = prefilled[t]
    BY <1>a, <1>13
  <2>3. \A t \in Hand' : 0 < chunk'[t] /\ chunk'[t] <= RemainingPrefillTokens(t)'
    BY <2>1, <2>2 DEF Progress, RemainingPrefillTokens
  <2>4. \A t \in ToSet(waiting') \union Hand' : ~Prefilled(t)'
    <3> TAKE t \in ToSet(waiting') \union Hand'
    <3>1. CASE t = s
      <4>1. prefilled'[s] = prefilled[s] + chunk[s]
        BY <1>a, <1>13
      <4> QED BY <1>13, <2>1, <3>1, <4>1 DEF IsLastChunkPrefill, Prefilled
    <3>2. CASE t # s
      BY <1>13, <2>1, <2>2, <3>2 DEF Progress, Prefilled
    <3> QED BY <3>1, <3>2
  <2>5. \A t \in Reqs : ProgressOf(t)'
    BY <1>13 DEF Progress
  <2> QED BY <2>3, <2>4, <2>5 DEF Progress
<1>14. ASSUME NEW s \in Reqs, Postprocess(s), isPrefill
       PROVE  /\ prefilled[s] < PromptLen[s] /\ prefilled[s] + chunk[s] <= PromptLen[s]
              /\ cursor[s] = IF completion[s] = 0 THEN NoReplay ELSE 0
              /\ status[s] # "new" /\ s \in Live
  <2>1. s \in Hand /\ s \in Live
    BY <1>14, PostprocessFacts
  <2>2. ~Prefilled(s) /\ chunk[s] <= RemainingPrefillTokens(s)
    BY <2>1 DEF Progress
  <2>3. prefilled[s] \in Nat /\ PromptLen[s] \in Nat /\ chunk[s] \in Nat
    BY <1>a
  <2> QED BY <2>1, <2>2, <2>3 DEF Progress, ProgressOf, Prefilled, RemainingPrefillTokens, Live
<1>15. ASSUME NEW s \in Reqs, PostPrefillPartial(s) PROVE Progress'
  <2>1. /\ Postprocess(s) /\ isPrefill /\ ~IsLastChunkPrefill(s)
        /\ prefilled' = [prefilled EXCEPT ![s] = @ + chunk[s]]
        /\ status' = [status EXCEPT ![s] = "waiting"]
        /\ waiting' = <<s>> \o waiting /\ UNCHANGED <<completion, cursor>>
    BY <1>15 DEF PostPrefillPartial
  <2>2. ToSet(waiting') = {s} \union ToSet(waiting)
    <3> DEFINE y == <<s>>
    <3>1. y \in Seq(Reqs) /\ ToSet(y) = {s} /\ waiting' = y \o waiting
      BY <2>1, SingletonOwnership
    <3> HIDE DEF y
    <3> QED BY <1>a, <3>1, ConcatOwnership
  <2>3. Live' = Live
    BY <1>a, <1>14, <2>1, LiveKept
  <2>4. \A t \in Reqs \ {s} : ProgressOf(t)' = ProgressOf(t)
    BY <1>a, <2>1, <2>3 DEF ProgressOf, Prefilled, IsReplay
  <2>5. ProgressOf(s)'
    BY <1>a, <1>14, <2>1, <2>3 DEF ProgressOf, Prefilled, IsReplay, IsLastChunkPrefill
  <2> QED BY <1>13, <2>1, <2>2, <2>4, <2>5
<1>16. ASSUME NEW s \in Reqs, PostPrefillReplay(s) PROVE Progress'
  <2>1. /\ Postprocess(s) /\ isPrefill /\ IsLastChunkPrefill(s) /\ IsReplay(s)
        /\ prefilled' = [prefilled EXCEPT ![s] = @ + chunk[s]]
        /\ status' = [status EXCEPT ![s] = "running"]
        /\ IF ReplayDecodeTokenCount(s) = 0
             THEN cursor' = [cursor EXCEPT ![s] = NoReplay]
             ELSE UNCHANGED cursor
        /\ UNCHANGED <<completion, waiting>>
    BY <1>16 DEF PostPrefillReplay, FinishRecomputeReplay
  <2>2. Live' = Live /\ s \in Live /\ s \notin ToSet(waiting)
    BY <1>a, <1>14, <2>1, LiveKept, PostprocessFacts
  <2>3. \A t \in Reqs \ {s} : ProgressOf(t)' = ProgressOf(t)
    BY <1>a, <2>1, <2>2 DEF ProgressOf, Prefilled, IsReplay, NoReplay
  <2>4. completion[s] \in Nat /\ completion[s] >= 1 /\ cursor[s] = 0
    BY <1>a, <1>14, <2>1 DEF IsReplay
  <2>5. /\ completion'[s] >= 1 /\ status'[s] = "running"
        /\ prefilled'[s] = prefilled[s] + chunk[s]
        /\ IsReplay(s)' => cursor'[s] + 1 < completion'[s]
    BY <1>a, <2>1, <2>4 DEF IsReplay, ReplayDecodeTokenCount, AtLeast0, NoReplay
  <2>6. ProgressOf(s)'
    BY <2>1, <2>5 DEF ProgressOf, Prefilled, IsLastChunkPrefill
  <2> QED BY <1>13, <2>1, <2>2, <2>3, <2>6
<1>17. ASSUME NEW s \in Reqs, NEW eos \in BOOLEAN, PostPrefillToken(s, eos) PROVE Progress'
  <2>1. /\ Postprocess(s) /\ isPrefill /\ IsLastChunkPrefill(s) /\ ~IsReplay(s)
        /\ prefilled' = [prefilled EXCEPT ![s] = @ + chunk[s]]
        /\ completion' = [completion EXCEPT ![s] = @ + 1]
        /\ \E st \in {"running", "finished"} : status' = [status EXCEPT ![s] = st]
        /\ UNCHANGED <<cursor, waiting>>
    BY <1>17 DEF PostPrefillToken
  <2>2. s \notin ToSet(waiting)
    BY <2>1, PostprocessFacts
  <2>3. \A t \in Reqs \ {s} : ProgressOf(t)' = ProgressOf(t)
    BY <1>a, <2>1 DEF ProgressOf, Prefilled, IsReplay, Live
  <2>4. /\ completion'[s] >= 1 /\ status'[s] # "new" /\ ~IsReplay(s)'
        /\ prefilled'[s] = prefilled[s] + chunk[s]
    BY <1>a, <2>1 DEF IsReplay
  <2>5. ProgressOf(s)'
    BY <2>1, <2>4 DEF ProgressOf, Prefilled, IsLastChunkPrefill
  <2> QED BY <1>13, <2>1, <2>2, <2>3, <2>5
<1>18. ASSUME NEW s \in Reqs, Postprocess(s), ~isPrefill, UNCHANGED <<prefilled, waiting>>,
              \A t \in Reqs : ProgressOf(t)'
       PROVE  Progress'
  <2>1. Hand' = {}
    BY <1>18, PostprocessFacts
  <2> QED BY <1>18, <2>1 DEF Progress, Prefilled
<1>19. ASSUME NEW s \in Reqs, PostDecodeReplay(s) PROVE Progress'
  <2>1. /\ Postprocess(s) /\ ~isPrefill /\ IsRecomputeDecode(s)
        /\ IF cursor[s] + 1 >= ReplayDecodeTokenCount(s)
             THEN cursor' = [cursor EXCEPT ![s] = NoReplay]
             ELSE cursor' = [cursor EXCEPT ![s] = @ + 1]
        /\ UNCHANGED <<status, prefilled, completion, waiting>>
    BY <1>19 DEF PostDecodeReplay, FinishRecomputeReplay
  <2>2. s \in Live /\ Prefilled(s)
    BY <2>1, PostprocessFacts
  <2>3. /\ cursor[s] \in Nat \union {-1} /\ completion[s] \in Nat
        /\ cursor[s] + 1 < completion[s]
    BY <1>a, <2>1, <2>2 DEF Progress, ProgressOf, IsRecomputeDecode
  <2>4. IsReplay(s)' => cursor'[s] + 1 < completion'[s]
    BY <1>a, <2>1, <2>3 DEF IsReplay, ReplayDecodeTokenCount, AtLeast0, NoReplay
  <2>5. \A t \in Reqs : ProgressOf(t)'
    <3> SUFFICES ASSUME NEW t \in Reqs PROVE ProgressOf(t)'
      OBVIOUS
    <3>1. CASE t = s
      BY <2>1, <2>2, <2>4, <3>1 DEF Progress, ProgressOf, Prefilled, Live
    <3>2. CASE t # s
      <4>1. cursor'[t] = cursor[t]
        BY <1>a, <2>1, <3>2
      <4> QED BY <2>1, <4>1 DEF Progress, ProgressOf, Prefilled, Live, IsReplay
    <3> QED BY <3>1, <3>2
  <2> QED BY <1>18, <2>1, <2>5
<1>20. ASSUME NEW s \in Reqs, NEW eos \in BOOLEAN, PostDecodeToken(s, eos) PROVE Progress'
  <2>1. /\ Postprocess(s) /\ ~isPrefill /\ ~IsRecomputeDecode(s)
        /\ completion' = [completion EXCEPT ![s] = @ + 1]
        /\ UNCHANGED status \/ status' = [status EXCEPT ![s] = "finished"]
        /\ UNCHANGED <<prefilled, cursor, waiting>>
    BY <1>20 DEF PostDecodeToken
  <2>2. s \in Live /\ Prefilled(s)
    BY <2>1, PostprocessFacts
  <2>3. ~IsReplay(s)
    BY <2>1, <2>2 DEF IsRecomputeDecode, Prefilled
  <2>4. \A t \in Reqs : ProgressOf(t)'
    <3> SUFFICES ASSUME NEW t \in Reqs PROVE ProgressOf(t)'
      OBVIOUS
    <3>1. CASE t = s
      <4>1. /\ completion'[s] >= 1 /\ ~IsReplay(s)' /\ Prefilled(s)' /\ status'[s] # "new"
        BY <1>a, <2>1, <2>2, <2>3 DEF Prefilled, IsReplay, Live
      <4> QED BY <3>1, <4>1 DEF ProgressOf
    <3>2. CASE t # s
      <4>1. completion'[t] = completion[t] /\ status'[t] = status[t]
        BY <1>a, <2>1, <3>2
      <4> QED BY <2>1, <4>1 DEF Progress, ProgressOf, Prefilled, Live, IsReplay
    <3> QED BY <3>1, <3>2
  <2> QED BY <1>18, <2>1, <2>4
<1>21. CASE EndPostprocess
  <2>1. Hand' = {}
    BY <1>21, EmptyOwnership DEF EndPostprocess, Hand, InHand
  <2> QED BY <1>21, <2>1, ProgressKept DEF EndPostprocess
<1>22. CASE Freeing
  <2>1. Hand' = {}
    BY <1>22, <1>b, EmptyOwnership DEF Freeing, FreeFinished, EndStep, Return, Hand, InHand
  <2> QED BY <1>22, <2>1, ProgressKept DEF Freeing, FreeFinished, EndStep
<1>23. CASE UNCHANGED vars
  <2>1. Hand' = Hand
    BY <1>23 DEF vars, Hand, InHand
  <2> QED BY <1>23, <2>1, ProgressKept DEF vars
<1>24. MayAbort \subseteq Reqs
  BY DEF SchedulerAssumption
<1> QED
  BY <1>1, <1>2, <1>3, <1>5, <1>6, <1>7, <1>8, <1>9, <1>10, <1>11, <1>12, <1>15,
     <1>16, <1>17, <1>19, <1>20, <1>21, <1>22, <1>23, <1>24
  DEF Next, EngineStep, Clients, Prefilling, Decoding, Postprocessing

\* Every action keeps the loops of a step and its list of finished requests in
\* shape: nobody is released who is not finished, and nobody twice.
LEMMA LoopShapeStep ==
  ASSUME KvCacheAssumption, SchedulerAssumption, StreamInv, LoopShape,
         [Next]_vars, pc # "raised", pc' # "raised"
  PROVE  LoopShape'
<1> USE DEF seqVars, queueVars, stepVars, kvVars
<1>a. /\ TypeOK /\ StepShape
      /\ waiting \in Seq(Reqs) /\ decoding \in Seq(Reqs) /\ batch \in Seq(Reqs)
      /\ todo \in Seq(Reqs) /\ finished \in Seq(Reqs) /\ IsInjective(InHand)
      /\ Live \subseteq Reqs
      /\ status \in [Reqs -> {"new", "waiting", "running", "finished"}]
  BY QueueFacts
<1>b. ASSUME NEW why, Raise(why) PROVE FALSE
  BY <1>b DEF Raise
<1>c. ASSUME finished' = <<>>, pc' # "prepare" PROVE LoopShape'
  BY <1>c, EmptyOwnership DEF LoopShape
<1>d. ASSUME NEW v, NEW rest, PreemptDecodeVictim(v, rest) PROVE LoopShape'
  BY <1>b, <1>c, <1>d DEF PreemptDecodeVictim, Return
<1>1. CASE Clients
  <2>1. pc = "idle" /\ pc' = "idle" /\ finished' = finished
    BY <1>1, <1>b DEF Clients, AddRequest, AbortRequest
  <2> QED BY <1>c, <2>1 DEF LoopShape
<1>2. CASE BeginSchedule
  BY <1>2, <1>c DEF BeginSchedule, LoopShape
<1>3. CASE Prefilling
  <2>1. pc = "prefill" /\ finished' = <<>> /\ finished = <<>>
    BY <1>3, <1>b DEF Prefilling, PrefillBlocked, PrefillDeferred, PrefillScheduled,
                EndPrefillScan, PrefillLoop, Requeue, LoopShape
  <2>2. CASE pc' = "prepare"
    <3>1. isPrefill' /\ todo' = batch /\ batch' = batch
      BY <1>3, <1>b, <2>1, <2>2 DEF Prefilling, PrefillBlocked, PrefillDeferred,
             PrefillScheduled, EndPrefillScan, PrefillLoop, Requeue
    <3>2. IsInjective(batch)
      BY <1>a, <2>1 DEF InHand
    <3> QED BY <2>1, <2>2, <3>1, <3>2, EmptyOwnership DEF LoopShape
  <2>3. CASE pc' # "prepare"
    BY <1>c, <2>1, <2>3
  <2> QED BY <2>2, <2>3
<1>4. CASE Decoding
  <2>1. ASSUME NEW i, DecodeScheduled(i) \/ DecodeBlocked(i) PROVE LoopShape'
    BY <1>c, <2>1 DEF DecodeScheduled, DecodeBlocked, DecodeLoop, LoopShape
  <2>2. ASSUME NEW i, PreemptCandidate(i) \/ PreemptBlocked(i) PROVE LoopShape'
    BY <1>d, <2>2 DEF PreemptCandidate, PreemptBlocked
  <2>3. ASSUME NothingRunnable PROVE LoopShape'
    BY <2>3 DEF NothingRunnable, Raise
  <2>4. ASSUME EndDecodeScan PROVE LoopShape'
    <3>1. /\ pc = "decode" /\ pc' = "prepare" /\ ~isPrefill' /\ todo' = batch
          /\ batch' = batch /\ finished' = <<>>
      BY <1>a, <2>4 DEF EndDecodeScan, DecodeScanDone, StepShape, LoopShape
    <3> QED BY <3>1, EmptyOwnership DEF LoopShape
  <2> QED BY <1>4, <2>1, <2>2, <2>3, <2>4 DEF Decoding
<1>5. CASE PrepareChunk
  <2>1. /\ pc = "prepare" /\ pc' = "prepare" /\ isPrefill /\ isPrefill' /\ todo # <<>>
        /\ todo' = Tail(todo) /\ batch' = batch /\ finished = <<>> /\ finished' = <<>>
    BY <1>5, <1>b DEF PrepareChunk, LoopShape
  <2>2. ToSet(todo') \subseteq ToSet(todo) /\ IsInjective(todo')
    BY <1>a, <2>1, TailOwnership DEF LoopShape
  <2> QED BY <2>1, <2>2, EmptyOwnership DEF LoopShape
<1>6. CASE PrepareDecode
  <2>1. /\ pc' = "prepare" /\ ~isPrefill' /\ todo' = <<>> /\ finished' = <<>>
    BY <1>6, <1>b DEF PrepareDecode, LoopShape
  <2> QED BY <2>1, EmptyOwnership DEF LoopShape
<1>7. CASE EndPrepare
  BY <1>7, <1>c DEF EndPrepare, LoopShape
<1>8. ASSUME NEW s \in Reqs, Postprocess(s), finished' = finished, Live' \subseteq Live
      PROVE  LoopShape'
  BY <1>8 DEF Postprocess, LoopShape
<1>9. ASSUME NEW s \in Reqs, Postprocess(s), finished' = Append(finished, s),
             status' = [status EXCEPT ![s] = "finished"]
      PROVE  LoopShape'
  <2>1. pc' = "postprocess" /\ s \in Live
    BY <1>9, PostprocessFacts
  <2>2. Live' = Live \ {s}
    BY <1>a, <1>9, LiveLeft
  <2>3. s \notin ToSet(finished)
    BY <2>1 DEF LoopShape
  <2>4. ToSet(finished') = ToSet(finished) \union {s} /\ IsInjective(finished')
    BY <1>a, <1>9, <2>3, AppendOwnership DEF LoopShape
  <2> QED BY <2>1, <2>2, <2>4 DEF LoopShape
<1>10. ASSUME NEW s \in Reqs,
              \/ PostPrefillPartial(s)
              \/ PostPrefillReplay(s)
              \/ PostDecodeReplay(s)
       PROVE  LoopShape'
  <2>1. Postprocess(s) /\ finished' = finished
    BY <1>10 DEF PostPrefillPartial, PostPrefillReplay, PostDecodeReplay
  <2>2. s \in Live
    BY <2>1, PostprocessFacts
  <2>3. Live' = Live
    BY <1>a, <1>10, <2>2, LiveKept, LiveSame
    DEF PostPrefillPartial, PostPrefillReplay, PostDecodeReplay
  <2> QED BY <1>8, <2>1, <2>3
<1>11. ASSUME NEW s \in Reqs, NEW eos \in BOOLEAN,
              PostPrefillToken(s, eos) \/ PostDecodeToken(s, eos)
       PROVE  LoopShape'
  <2>1. /\ Postprocess(s)
        /\ \/ finished' = Append(finished, s) /\ status' = [status EXCEPT ![s] = "finished"]
           \/ finished' = finished /\ status' = [status EXCEPT ![s] = "running"]
           \/ finished' = finished /\ status' = status
    BY <1>11 DEF PostPrefillToken, PostDecodeToken
  <2>2. s \in Live
    BY <2>1, PostprocessFacts
  <2>3. CASE finished' = finished /\ status' = [status EXCEPT ![s] = "running"]
    <3>1. Live' = Live
      BY <1>a, <2>2, <2>3, LiveKept
    <3> QED BY <1>8, <2>1, <2>3, <3>1
  <2>4. CASE finished' = finished /\ status' = status
    BY <1>8, <2>1, <2>4, LiveSame
  <2> QED BY <1>9, <2>1, <2>3, <2>4
<1>12. CASE EndPostprocess
  <2>1. Live' = Live
    BY <1>12, LiveSame DEF EndPostprocess
  <2> QED BY <1>12, <2>1 DEF EndPostprocess, LoopShape
<1>13. CASE FreeFinished
  <2>1. /\ pc = "free" /\ pc' = "free" /\ finished # <<>> /\ finished' = Tail(finished)
        /\ UNCHANGED status
    BY <1>13, <1>b DEF FreeFinished
  <2>2. Live' = Live
    BY <2>1, LiveSame
  <2>3. ToSet(finished') \subseteq ToSet(finished) /\ IsInjective(finished')
    BY <1>a, <2>1, TailOwnership DEF LoopShape
  <2> QED BY <2>1, <2>2, <2>3 DEF LoopShape
<1>14. CASE EndStep
  BY <1>14, <1>c DEF EndStep, Return
<1>15. CASE UNCHANGED vars
  <2>1. Live' = Live
    BY <1>15, LiveSame DEF vars
  <2> QED BY <1>15, <2>1 DEF vars, LoopShape
<1> QED
  BY <1>1, <1>2, <1>3, <1>4, <1>5, <1>6, <1>7, <1>10, <1>11, <1>12, <1>13, <1>14, <1>15
  DEF Next, EngineStep, Running, Postprocessing, Freeing

\* What a live request has booked: a natural number, and something once its
\* prompt is prefilled.
LEMMA BookedFacts ==
  ASSUME SchedulerAssumption, TypeOK, Progress, NEW s \in Live
  PROVE  Booked(s) \in Nat /\ (Prefilled(s) => Booked(s) > 0)
<1>1. /\ s \in Reqs /\ prefilled[s] \in Nat /\ completion[s] \in Nat
      /\ cursor[s] \in Nat \union {-1} /\ PromptLen[s] \in Nat \ {0}
  BY DEF Live, TypeOK, SchedulerAssumption, NoReplay
<1>2. Prefilled(s) => completion[s] >= 1
  BY <1>1 DEF Progress, ProgressOf
<1>3. CASE ~Prefilled(s)
  BY <1>1, <1>3 DEF Booked
<1>4. CASE Prefilled(s)
  BY <1>1, <1>2, <1>4 DEF Booked, IsReplay, NoReplay
<1> QED
  BY <1>3, <1>4

\* The KV of a request that the step does not touch.
LEMMA LengthKept ==
  ASSUME NEW t \in Reqs, Lengths,
         kvLen'[t] = kvLen[t], prefilled'[t] = prefilled[t],
         completion'[t] = completion[t], cursor'[t] = cursor[t],
         t \in rows' <=> t \in rows,
         t \in Live' <=> t \in Live,
         t \in ToSet(finished') <=> t \in ToSet(finished),
         t \in Live => Grant(t)' = Grant(t)
  PROVE  LengthOf(t)'
<1>1. LengthOf(t)
  BY DEF Lengths
<1>2. Booked(t)' = Booked(t)
  BY DEF Booked, Prefilled, IsReplay
<1> QED
  BY <1>1, <1>2 DEF LengthOf

\* Every action keeps the KV of every request at what the request accounts for.
LEMMA LengthsStep ==
  ASSUME KvCacheAssumption, SchedulerAssumption, StreamInv, Progress, LoopShape, Lengths,
         [Next]_vars, pc # "raised", pc' # "raised"
  PROVE  Lengths'
<1> USE DEF seqVars, queueVars, stepVars, kvVars
<1>a. /\ TypeOK /\ StepShape
      /\ waiting \in Seq(Reqs) /\ decoding \in Seq(Reqs) /\ batch \in Seq(Reqs)
      /\ todo \in Seq(Reqs) /\ finished \in Seq(Reqs)
      /\ IsInjective(waiting) /\ IsInjective(decoding)
      /\ Live = ToSet(waiting) \union ToSet(decoding) \union ToSet(InHand)
      /\ ToSet(waiting) \cap ToSet(decoding) = {}
      /\ Live \subseteq Reqs
      /\ status \in [Reqs -> {"new", "waiting", "running", "finished"}]
      /\ prefilled \in [Reqs -> Nat] /\ completion \in [Reqs -> Nat]
      /\ chunk \in [Reqs -> Nat] /\ cursor \in [Reqs -> Nat \union {-1}]
      /\ PromptLen \in [Reqs -> Nat \ {0}]
  BY QueueFacts
<1>b. ASSUME NEW why, Raise(why) PROVE FALSE
  BY <1>b DEF Raise
<1>c. kvLen \in [Reqs -> Nat] /\ rows \subseteq Reqs
  BY <1>a DEF TypeOK, KvTypeOK
<1>d. \A t : t \notin Granted => Grant(t) = 0
  BY DEF Grant
<1>e. \A t : t \notin Granted' => Grant(t)' = 0
  BY DEF Grant
<1>f. pc \notin {"postprocess", "free"} => finished = <<>> /\ ToSet(finished) = {}
  BY EmptyOwnership DEF LoopShape
<1>g. ASSUME UNCHANGED <<kvLen, rows, prefilled, completion, cursor, finished>>,
             Live' = Live, Granted = {}, Granted' = {}
      PROVE  Lengths'
  <2>1. ASSUME NEW t \in Reqs PROVE LengthOf(t)'
    BY <1>d, <1>e, <1>g, LengthKept
  <2> QED BY <2>1 DEF Lengths
<1>1. ASSUME NEW s \in Reqs, AddRequest(s) PROVE Lengths'
  <2>1. /\ pc = "idle" /\ pc' = "idle" /\ status[s] = "new"
        /\ status' = [status EXCEPT ![s] = "waiting"]
        /\ UNCHANGED <<kvLen, rows, prefilled, completion, cursor, finished>>
    BY <1>1 DEF AddRequest
  <2>2. Live' = Live \union {s} /\ s \notin Live
    BY <1>a, <2>1 DEF Live
  <2>3. Granted = {} /\ Granted' = {} /\ ToSet(finished) = {}
    BY <1>f, <2>1 DEF Granted
  <2>4. kvLen[s] = 0 /\ prefilled[s] = 0 /\ s \notin rows
    BY <2>1, <2>2, <2>3 DEF Lengths, LengthOf, Progress, ProgressOf
  <2>5. Booked(s)' = 0
    BY <1>a, <2>1, <2>4 DEF Booked, Prefilled
  <2>6. LengthOf(s)'
    BY <1>e, <2>1, <2>2, <2>3, <2>4, <2>5 DEF LengthOf
  <2>7. ASSUME NEW t \in Reqs \ {s} PROVE LengthOf(t)'
    BY <1>d, <1>e, <2>1, <2>2, <2>3, LengthKept
  <2> QED BY <2>6, <2>7 DEF Lengths
<1>2. ASSUME NEW s \in Reqs, AbortRequest(s) PROVE Lengths'
  <2>1. /\ pc = "idle" /\ pc' = "idle"
        /\ status' = [status EXCEPT ![s] = "finished"]
        /\ UNCHANGED <<prefilled, completion, cursor, finished>>
    BY <1>2, <1>b DEF AbortRequest
  <2>2. Live' = Live \ {s}
    BY <1>a, <2>1, LiveLeft
  <2>3. Granted = {} /\ Granted' = {} /\ ToSet(finished) = {}
    BY <1>f, <2>1 DEF Granted
  <2>4. CASE FreeSeqPayload(s)
    <3>1. kvLen' = [kvLen EXCEPT ![s] = 0] /\ rows' = rows \ {s}
      BY <2>4 DEF FreeSeqPayload, FreeSeq
    <3>2. LengthOf(s)'
      BY <1>c, <2>1, <2>2, <2>3, <3>1 DEF LengthOf
    <3>3. \A t \in Reqs \ {s} : kvLen'[t] = kvLen[t]
      BY <1>c, <3>1
    <3>4. ASSUME NEW t \in Reqs \ {s} PROVE LengthOf(t)'
      BY <1>d, <1>e, <2>1, <2>2, <2>3, <3>1, <3>3, LengthKept
    <3> QED BY <3>2, <3>4 DEF Lengths
  <2>5. CASE ~AbortMustFree(s) /\ UNCHANGED kvVars
    <3>1. s \in ToSet(waiting) \/ s \in ToSet(decoding)
      BY <1>2, <1>a, RotateOwnership DEF AbortRequest, AbortFrom
    <3>2. s \in ToSet(waiting) /\ prefilled[s] = 0 /\ s \in Live
      BY <1>a, <2>5, <3>1 DEF AbortMustFree
    <3>3. Booked(s) = 0
      BY <3>2 DEF Progress, Booked
    <3>4. LengthOf(s)
      BY DEF Lengths
    <3>5. kvLen[s] = 0
      BY <1>d, <2>3, <3>2, <3>3, <3>4 DEF LengthOf
    <3>6. LengthOf(s)'
      BY <2>1, <2>2, <2>3, <2>5, <3>4, <3>5 DEF LengthOf
    <3>7. ASSUME NEW t \in Reqs \ {s} PROVE LengthOf(t)'
      BY <1>d, <1>e, <2>1, <2>2, <2>3, <2>5, LengthKept
    <3> QED BY <3>6, <3>7 DEF Lengths
  <2> QED BY <1>2, <1>b, <2>4, <2>5 DEF AbortRequest
<1>3. CASE BeginSchedule
  BY <1>3, <1>g, LiveSame DEF BeginSchedule, Granted
<1>4. ASSUME NEW i \in DOMAIN waiting, NEW F, Requeue(i, F), pc = "prefill" PROVE Lengths'
  BY <1>4, <1>g, LiveSame DEF Requeue, Granted
<1>5. ASSUME NEW i \in DOMAIN waiting, PrefillBlocked(i) \/ PrefillDeferred(i)
      PROVE  Lengths'
  BY <1>4, <1>5, <1>b DEF PrefillBlocked, PrefillDeferred, PrefillLoop
<1>6. ASSUME NEW i \in DOMAIN waiting, PrefillScheduled(i) PROVE Lengths'
  <2>1. /\ pc = "prefill" /\ pc' = "prefill"
        /\ status' = [status EXCEPT ![waiting[i]] = "running"]
        /\ UNCHANGED <<kvLen, rows, prefilled, completion, cursor, finished>>
    BY <1>6 DEF PrefillScheduled, PrefillLoop
  <2>2. waiting[i] \in Live
    BY <1>a, RotateOwnership
  <2>3. Live' = Live
    BY <1>a, <2>1, <2>2, LiveKept
  <2> QED BY <1>g, <2>1, <2>3 DEF Granted
<1>7. CASE EndPrefillScan
  <2>1. Granted = {} /\ Granted' = {}
    BY <1>7 DEF EndPrefillScan, Granted
  <2> QED BY <1>7, <2>1, <1>g, LiveSame DEF EndPrefillScan
<1>8. ASSUME NEW i \in DOMAIN decoding, DecodeScheduled(i) \/ DecodeBlocked(i)
      PROVE  Lengths'
  BY <1>8, <1>g, LiveSame DEF DecodeScheduled, DecodeBlocked, DecodeLoop, Granted
<1>9. ASSUME NEW i \in DOMAIN decoding, PreemptCandidate(i) \/ PreemptBlocked(i)
      PROVE  Lengths'
  <2>0. PICK v : v = decoding[i]
    OBVIOUS
  <2>1. /\ PreemptDecodeVictim(v, RemoveAt(decoding, i)) /\ pc = "decode"
    BY <1>9, <2>0 DEF PreemptCandidate, PreemptBlocked, DecodeLoop, DecodeScanDone
  <2>2. /\ status' = [status EXCEPT ![v] = "waiting"]
        /\ cursor' = [cursor EXCEPT ![v] = IF completion[v] > 0 THEN 0 ELSE @]
        /\ prefilled' = [prefilled EXCEPT ![v] = 0]
        /\ kvLen' = [kvLen EXCEPT ![v] = 0] /\ rows' = rows \ {v}
        /\ pc' = "idle" /\ finished' = <<>>
        /\ UNCHANGED completion
    BY <1>b, <2>1 DEF PreemptDecodeVictim, Return, FreeSeqPayload, FreeSeq
  <2>3. v \in Reqs /\ v \in ToSet(decoding) /\ v \in Live
    BY <1>a, <2>0, RotateOwnership
  <2>4. Live' = Live
    BY <1>a, <2>2, <2>3, LiveKept
  <2>5. Granted = {} /\ Granted' = {} /\ finished' = finished
    BY <1>f, <2>1, <2>2 DEF Granted
  <2>6. Booked(v)' = 0
    BY <1>a, <2>2, <2>3 DEF Booked, Prefilled
  <2>7. LengthOf(v)'
    BY <1>c, <1>e, <2>2, <2>3, <2>4, <2>5, <2>6 DEF LengthOf
  <2>8. \A t \in Reqs \ {v} : /\ kvLen'[t] = kvLen[t] /\ prefilled'[t] = prefilled[t]
                              /\ cursor'[t] = cursor[t]
    BY <1>a, <1>c, <2>2
  <2>9. ASSUME NEW t \in Reqs \ {v} PROVE LengthOf(t)'
    BY <1>d, <1>e, <2>2, <2>4, <2>5, <2>8, LengthKept
  <2> QED BY <2>7, <2>9 DEF Lengths
<1>10. CASE NothingRunnable
  BY <1>10 DEF NothingRunnable, Raise
<1>11. CASE EndDecodeScan
  BY <1>11, <1>g, LiveSame DEF EndDecodeScan, DecodeScanDone, Granted
<1>12. CASE PrepareChunk
  <2>0. PICK s : s = Head(todo)
    OBVIOUS
  <2>1. /\ pc = "prepare" /\ pc' = "prepare" /\ isPrefill /\ isPrefill' /\ todo # <<>>
        /\ todo' = Tail(todo) /\ batch' = batch
        /\ kvLen' = [kvLen EXCEPT ![s] = kvLen[s] + chunk[s]] /\ rows' = rows \union {s}
        /\ UNCHANGED <<status, prefilled, completion, cursor, chunk, finished>>
    BY <1>12, <1>b, <2>0 DEF PrepareChunk, Allocate
  <2>2. /\ s \in Reqs /\ s \in ToSet(todo) /\ ToSet(todo) \subseteq ToSet(batch)
        /\ ToSet(todo') = ToSet(todo) \ {s}
    <3>1. IsInjective(todo) /\ ToSet(todo) \subseteq ToSet(batch)
      BY <2>1 DEF LoopShape
    <3>2. /\ Head(todo) \in Reqs /\ Head(todo) \notin ToSet(Tail(todo))
          /\ ToSet(todo) = {Head(todo)} \union ToSet(Tail(todo))
      BY <1>a, <2>1, <3>1, TailOwnership
    <3> QED BY <2>0, <2>1, <3>1, <3>2
  <2>3. Hand = ToSet(batch) /\ ToSet(batch) \subseteq Live /\ Live' = Live
    BY <1>a, <2>1, LiveSame DEF Hand, InHand
  <2>4. Granted' = Granted \union {s} /\ s \notin Granted
    BY <2>1, <2>2 DEF Granted
  <2>5. \A t \in Reqs \ {s} : kvLen'[t] = kvLen[t] /\ Grant(t)' = Grant(t)
    BY <1>c, <2>1, <2>4 DEF Grant
  <2>6. LengthOf(s)'
    <3>1. kvLen[s] = Booked(s) + 0 /\ Booked(s) \in Nat
      BY <1>d, <1>a, <2>2, <2>3, <2>4, BookedFacts DEF Lengths, LengthOf
    <3>2. Booked(s)' = Booked(s)
      BY <2>1 DEF Booked, Prefilled, IsReplay
    <3>3. chunk[s] \in Nat /\ chunk[s] > 0
      BY <1>a, <2>2, <2>3 DEF Progress
    <3>4. Grant(s)' = chunk[s]
      BY <2>1, <2>4 DEF Grant
    <3>5. kvLen'[s] = kvLen[s] + chunk[s]
      BY <1>c, <2>1, <2>2
    <3>6. s \in Live' /\ s \in rows'
      BY <2>1, <2>2, <2>3
    <3> QED BY <3>1, <3>2, <3>3, <3>4, <3>5, <3>6 DEF LengthOf
  <2>7. ASSUME NEW t \in Reqs \ {s} PROVE LengthOf(t)'
    BY <2>1, <2>3, <2>5, LengthKept
  <2> QED BY <2>6, <2>7 DEF Lengths
<1>13. CASE PrepareDecode
  <2> DEFINE S == ToSet(batch)
  <2>1. /\ pc = "prepare" /\ pc' = "prepare" /\ ~isPrefill /\ ~isPrefill' /\ todo # <<>>
        /\ todo' = <<>> /\ batch' = batch
        /\ kvLen' = [s \in Reqs |-> IF s \in S THEN kvLen[s] + 1 ELSE kvLen[s]]
        /\ rows' = rows \union S
        /\ UNCHANGED <<status, prefilled, completion, cursor, chunk, finished>>
    BY <1>13, <1>b DEF PrepareDecode, AllocateBatch
  <2>2. S \subseteq ToSet(decoding) /\ ToSet(decoding) \subseteq Live
    BY <1>a, <2>1 DEF StreamInv, DecodeShape
  <2>3. ToSet(todo) = S
    BY <2>1 DEF LoopShape
  <2>4. Granted = {} /\ Granted' = S
    BY <2>1, <2>3, EmptyOwnership DEF Granted
  <2>5. Live' = Live
    BY <2>1, LiveSame
  <2> HIDE DEF S
  <2>6. \A t \in Reqs \ S : kvLen'[t] = kvLen[t] /\ Grant(t)' = Grant(t)
    BY <2>1, <2>4 DEF Grant
  <2>7. ASSUME NEW s \in S PROVE LengthOf(s)'
    <3>1. s \in Live /\ s \in Reqs
      BY <1>a, <2>2
    <3>2. kvLen[s] = Booked(s) + 0 /\ Booked(s) \in Nat
      BY <1>a, <1>d, <2>4, <3>1, BookedFacts DEF Lengths, LengthOf
    <3>3. Booked(s)' = Booked(s)
      BY <2>1 DEF Booked, Prefilled, IsReplay
    <3>4. Grant(s)' = 1
      BY <2>1, <2>4 DEF Grant
    <3>5. kvLen'[s] = kvLen[s] + 1 /\ s \in rows'
      BY <1>c, <2>1, <3>1
    <3> QED BY <2>5, <3>1, <3>2, <3>3, <3>4, <3>5 DEF LengthOf
  <2>8. ASSUME NEW t \in Reqs \ S PROVE LengthOf(t)'
    BY <2>1, <2>5, <2>6, LengthKept
  <2> QED BY <2>7, <2>8 DEF Lengths
<1>14. CASE EndPrepare
  <2>1. Granted' = Granted
    BY <1>14, EmptyOwnership DEF EndPrepare, Granted
  <2>2. \A t : Grant(t)' = Grant(t)
    BY <1>14, <2>1 DEF EndPrepare, Grant
  <2>3. ASSUME NEW t \in Reqs PROVE LengthOf(t)'
    BY <1>14, <2>2, LiveSame, LengthKept DEF EndPrepare
  <2> QED BY <2>3 DEF Lengths
<1>15. ASSUME NEW s \in Reqs, Postprocess(s),
              \A t \in Reqs \ {s} : /\ prefilled'[t] = prefilled[t]
                                    /\ completion'[t] = completion[t]
                                    /\ cursor'[t] = cursor[t] /\ status'[t] = status[t],
              finished' = finished \/ finished' = Append(finished, s),
              \/ s \in Live' /\ Booked(s)' = Booked(s) + Grant(s)
              \/ s \notin Live' /\ s \in ToSet(finished')
       PROVE  Lengths'
  <2>1. /\ s \in Live /\ s \in Granted /\ Granted' = Granted \ {s}
        /\ UNCHANGED <<chunk, kvLen, rows, isPrefill>>
    BY <1>15, PostprocessFacts
  <2>2. \A t \in Reqs \ {s} : /\ t \in Live' <=> t \in Live
                              /\ Grant(t)' = Grant(t)
                              /\ t \in ToSet(finished') <=> t \in ToSet(finished)
    <3>1. \A t \in Reqs \ {s} : (t \in Live' <=> t \in Live) /\ Grant(t)' = Grant(t)
      BY <1>15, <2>1 DEF Live, Grant
    <3>2. ToSet(Append(finished, s)) = ToSet(finished) \union {s}
      BY <1>a, AppendOwnership
    <3> QED BY <1>15, <3>1, <3>2
  <2>3. ASSUME NEW t \in Reqs \ {s} PROVE LengthOf(t)'
    BY <1>15, <2>1, <2>2, LengthKept
  <2>4. kvLen[s] = Booked(s) + Grant(s) /\ (s \in rows <=> kvLen[s] > 0)
    BY <2>1 DEF Lengths, LengthOf
  <2>5. Booked(s) \in Nat /\ Grant(s) \in Nat /\ Grant(s) > 0
    <3>1. isPrefill => chunk[s] > 0
      BY <1>15, PostprocessFacts DEF Progress
    <3> QED BY <1>a, <2>1, <3>1, BookedFacts DEF Grant
  <2>6. kvLen[s] \in Nat /\ kvLen[s] > 0
    BY <2>4, <2>5
  <2>7. Grant(s)' = 0
    BY <1>e, <2>1
  <2>8. LengthOf(s)'
    BY <1>15, <2>1, <2>4, <2>5, <2>6, <2>7 DEF LengthOf
  <2> QED BY <2>3, <2>8 DEF Lengths
<1>16. ASSUME NEW s \in Reqs, Postprocess(s), isPrefill
       PROVE  /\ prefilled[s] < PromptLen[s]
              /\ IsLastChunkPrefill(s) => prefilled[s] + chunk[s] = PromptLen[s]
              /\ cursor[s] = IF completion[s] = 0 THEN NoReplay ELSE 0
              /\ s \in Live /\ Booked(s) = prefilled[s] /\ Grant(s) = chunk[s]
              /\ prefilled[s] \in Nat /\ PromptLen[s] \in Nat /\ chunk[s] \in Nat
              /\ completion[s] \in Nat
  <2>1. s \in Hand /\ s \in Live /\ s \in Granted
    BY <1>16, PostprocessFacts
  <2>2. ~Prefilled(s) /\ chunk[s] <= RemainingPrefillTokens(s)
    BY <2>1 DEF Progress
  <2>3. /\ prefilled[s] \in Nat /\ PromptLen[s] \in Nat /\ chunk[s] \in Nat
        /\ completion[s] \in Nat
    BY <1>a
  <2>4. Booked(s) = prefilled[s] /\ Grant(s) = chunk[s]
    BY <1>16, <2>1, <2>2 DEF Booked, Grant
  <2>5. /\ prefilled[s] < PromptLen[s]
        /\ IsLastChunkPrefill(s) => prefilled[s] + chunk[s] = PromptLen[s]
    BY <2>2, <2>3 DEF Prefilled, RemainingPrefillTokens, IsLastChunkPrefill
  <2> QED BY <2>1, <2>2, <2>3, <2>4, <2>5 DEF Progress, ProgressOf
<1>17. ASSUME NEW s \in Reqs, PostPrefillPartial(s) PROVE Lengths'
  <2>1. /\ Postprocess(s) /\ isPrefill /\ ~IsLastChunkPrefill(s)
        /\ prefilled' = [prefilled EXCEPT ![s] = @ + chunk[s]]
        /\ status' = [status EXCEPT ![s] = "waiting"]
        /\ UNCHANGED <<completion, cursor, finished>>
    BY <1>17 DEF PostPrefillPartial
  <2>2. Live' = Live /\ s \in Live
    BY <1>a, <1>16, <2>1, LiveKept
  <2>3. prefilled'[s] = prefilled[s] + chunk[s]
    BY <1>a, <2>1
  <2>4. Booked(s)' = Booked(s) + Grant(s)
    BY <1>16, <2>1, <2>3 DEF Booked, Prefilled, IsLastChunkPrefill
  <2>5. \A t \in Reqs \ {s} : prefilled'[t] = prefilled[t] /\ status'[t] = status[t]
    BY <1>a, <2>1
  <2> QED BY <1>15, <2>1, <2>2, <2>4, <2>5
<1>18. ASSUME NEW s \in Reqs, PostPrefillReplay(s) PROVE Lengths'
  <2>1. /\ Postprocess(s) /\ isPrefill /\ IsLastChunkPrefill(s) /\ IsReplay(s)
        /\ prefilled' = [prefilled EXCEPT ![s] = @ + chunk[s]]
        /\ status' = [status EXCEPT ![s] = "running"]
        /\ IF ReplayDecodeTokenCount(s) = 0
             THEN cursor' = [cursor EXCEPT ![s] = NoReplay]
             ELSE UNCHANGED cursor
        /\ UNCHANGED <<completion, finished>>
    BY <1>18 DEF PostPrefillReplay, FinishRecomputeReplay
  <2>2. Live' = Live /\ s \in Live
    BY <1>a, <1>16, <2>1, LiveKept
  <2>3. /\ prefilled'[s] = prefilled[s] + chunk[s] /\ prefilled'[s] = PromptLen[s]
        /\ cursor[s] = 0 /\ completion[s] \in Nat \ {0}
    <3>1. prefilled'[s] = prefilled[s] + chunk[s]
      BY <1>a, <2>1
    <3>2. prefilled[s] + chunk[s] = PromptLen[s]
      BY <1>16, <2>1
    <3>3. cursor[s] = 0 /\ completion[s] \in Nat \ {0}
      BY <1>16, <2>1 DEF IsReplay
    <3> QED BY <3>1, <3>2, <3>3
  <2>4. cursor'[s] = IF completion[s] = 1 THEN NoReplay ELSE 0
    BY <1>a, <2>1, <2>3 DEF ReplayDecodeTokenCount, AtLeast0
  <2>5. Booked(s)' = Booked(s) + Grant(s)
    <3>1. Booked(s)' = PromptLen[s] + 0
      BY <1>16, <2>1, <2>3, <2>4 DEF Booked, Prefilled, IsReplay, NoReplay
    <3> QED BY <1>16, <2>1, <2>3, <3>1
  <2>6. \A t \in Reqs \ {s} : /\ prefilled'[t] = prefilled[t] /\ status'[t] = status[t]
                              /\ cursor'[t] = cursor[t]
    BY <1>a, <2>1
  <2> QED BY <1>15, <2>1, <2>2, <2>5, <2>6
<1>19. ASSUME NEW s \in Reqs, finished' = Append(finished, s),
              status' = [status EXCEPT ![s] = "finished"]
       PROVE  s \notin Live' /\ s \in ToSet(finished')
  <2>1. Live' = Live \ {s}
    BY <1>19, <1>a, LiveLeft
  <2>2. ToSet(finished') = ToSet(finished) \union {s}
    BY <1>19, <1>a, AppendOwnership
  <2> QED BY <2>1, <2>2
<1>20. ASSUME NEW s \in Reqs, NEW eos \in BOOLEAN, PostPrefillToken(s, eos) PROVE Lengths'
  <2>1. /\ Postprocess(s) /\ isPrefill /\ IsLastChunkPrefill(s) /\ ~IsReplay(s)
        /\ prefilled' = [prefilled EXCEPT ![s] = @ + chunk[s]]
        /\ completion' = [completion EXCEPT ![s] = @ + 1]
        /\ \/ status' = [status EXCEPT ![s] = "finished"] /\ finished' = Append(finished, s)
           \/ status' = [status EXCEPT ![s] = "running"] /\ finished' = finished
        /\ UNCHANGED cursor
    BY <1>20 DEF PostPrefillToken
  <2>2. /\ prefilled'[s] = PromptLen[s] /\ prefilled[s] + chunk[s] = PromptLen[s]
        /\ completion[s] = 0 /\ completion'[s] = 1 /\ ~IsReplay(s)'
    <3>1. prefilled'[s] = prefilled[s] + chunk[s] /\ completion'[s] = completion[s] + 1
      BY <1>a, <2>1
    <3>2. prefilled[s] + chunk[s] = PromptLen[s]
      BY <1>16, <2>1
    <3>3. completion[s] = 0
      BY <1>16, <2>1 DEF IsReplay, NoReplay
    <3> QED BY <2>1, <3>1, <3>2, <3>3 DEF IsReplay
  <2>3. Booked(s)' = Booked(s) + Grant(s)
    BY <1>16, <2>1, <2>2 DEF Booked, Prefilled
  <2>4. \A t \in Reqs \ {s} : /\ prefilled'[t] = prefilled[t] /\ status'[t] = status[t]
                              /\ completion'[t] = completion[t]
    BY <1>a, <2>1
  <2>5. status' = [status EXCEPT ![s] = "running"] => s \in Live'
    BY <1>a DEF Live
  <2> QED BY <1>15, <1>19, <2>1, <2>3, <2>4, <2>5
<1>21. ASSUME NEW s \in Reqs, Postprocess(s), ~isPrefill
       PROVE  /\ s \in Live /\ Prefilled(s) /\ Grant(s) = 1
              /\ PromptLen[s] \in Nat /\ completion[s] \in Nat
              /\ cursor[s] \in Nat \union {-1}
              /\ IsReplay(s) => cursor[s] + 1 < completion[s]
  <2>1. s \in Live /\ Prefilled(s) /\ s \in Granted
    BY <1>21, PostprocessFacts
  <2> QED BY <1>a, <1>21, <2>1 DEF Grant, Progress, ProgressOf
<1>22. ASSUME NEW s \in Reqs, PostDecodeReplay(s) PROVE Lengths'
  <2>1. /\ Postprocess(s) /\ ~isPrefill /\ IsRecomputeDecode(s)
        /\ IF cursor[s] + 1 >= ReplayDecodeTokenCount(s)
             THEN cursor' = [cursor EXCEPT ![s] = NoReplay]
             ELSE cursor' = [cursor EXCEPT ![s] = @ + 1]
        /\ UNCHANGED <<status, prefilled, completion, finished>>
    BY <1>22 DEF PostDecodeReplay, FinishRecomputeReplay
  <2>2. /\ cursor[s] \in Nat /\ cursor[s] + 1 < completion[s] /\ completion[s] \in Nat
        /\ Booked(s) = PromptLen[s] + cursor[s]
    BY <1>21, <2>1 DEF IsRecomputeDecode, IsReplay, NoReplay, Booked
  <2>3. ASSUME cursor[s] + 1 >= ReplayDecodeTokenCount(s)
        PROVE  Booked(s)' = Booked(s) + Grant(s)
    <3>1. cursor[s] + 1 = completion[s] - 1
      BY <2>2, <2>3 DEF ReplayDecodeTokenCount, AtLeast0
    <3>2. cursor'[s] = NoReplay
      BY <1>a, <2>1, <2>3
    <3>3. Booked(s)' = PromptLen[s] + (completion[s] - 1)
      BY <1>21, <2>1, <3>2 DEF Booked, Prefilled, IsReplay
    <3> QED BY <1>21, <2>1, <2>2, <3>1, <3>3
  <2>4. ASSUME ~(cursor[s] + 1 >= ReplayDecodeTokenCount(s))
        PROVE  Booked(s)' = Booked(s) + Grant(s)
    <3>1. cursor'[s] = cursor[s] + 1
      BY <1>a, <2>1, <2>4
    <3>2. Booked(s)' = PromptLen[s] + (cursor[s] + 1)
      BY <1>21, <2>1, <2>2, <3>1 DEF Booked, Prefilled, IsReplay, NoReplay
    <3> QED BY <1>21, <2>1, <2>2, <3>2
  <2>5. Booked(s)' = Booked(s) + Grant(s)
    BY <2>3, <2>4
  <2>6. s \in Live'
    BY <1>21, <2>1, LiveSame
  <2>7. \A t \in Reqs \ {s} : cursor'[t] = cursor[t]
    BY <1>a, <2>1
  <2> QED BY <1>15, <2>1, <2>5, <2>6, <2>7
<1>23. ASSUME NEW s \in Reqs, NEW eos \in BOOLEAN, PostDecodeToken(s, eos) PROVE Lengths'
  <2>1. /\ Postprocess(s) /\ ~isPrefill /\ ~IsRecomputeDecode(s)
        /\ completion' = [completion EXCEPT ![s] = @ + 1]
        /\ \/ status' = [status EXCEPT ![s] = "finished"] /\ finished' = Append(finished, s)
           \/ status' = status /\ finished' = finished
        /\ UNCHANGED <<prefilled, cursor>>
    BY <1>23 DEF PostDecodeToken
  <2>2. ~IsReplay(s) /\ completion'[s] = completion[s] + 1
    BY <1>a, <1>21, <2>1 DEF IsRecomputeDecode, Prefilled
  <2>3. Booked(s)' = Booked(s) + Grant(s)
    <3>1. Booked(s)' = PromptLen[s] + ((completion[s] + 1) - 1)
      BY <1>21, <2>1, <2>2 DEF Booked, Prefilled, IsReplay
    <3>2. Booked(s) = PromptLen[s] + (completion[s] - 1)
      BY <1>21, <2>1, <2>2 DEF Booked
    <3> QED BY <1>21, <2>1, <3>1, <3>2
  <2>4. \A t \in Reqs \ {s} : status'[t] = status[t] /\ completion'[t] = completion[t]
    BY <1>a, <2>1
  <2>5. status' = status => s \in Live'
    BY <1>21, <2>1, LiveSame
  <2> QED BY <1>15, <1>19, <2>1, <2>3, <2>4, <2>5
<1>24. CASE EndPostprocess
  <2>1. Granted = {} /\ Granted' = {}
    BY <1>24, EmptyOwnership DEF EndPostprocess, Granted
  <2> QED BY <1>24, <2>1, <1>g, LiveSame DEF EndPostprocess
<1>25. CASE FreeFinished
  <2>0. PICK s : s = Head(finished)
    OBVIOUS
  <2>1. /\ pc = "free" /\ pc' = "free" /\ finished # <<>> /\ finished' = Tail(finished)
        /\ kvLen' = [kvLen EXCEPT ![s] = 0] /\ rows' = rows \ {s}
        /\ UNCHANGED <<status, prefilled, completion, cursor>>
    BY <1>25, <1>b, <2>0 DEF FreeFinished, FreeSeqPayload, FreeSeq
  <2>2. /\ s \in Reqs /\ s \in ToSet(finished) /\ s \notin Live
        /\ ToSet(finished') = ToSet(finished) \ {s}
    <3>1. IsInjective(finished) /\ ToSet(finished) \cap Live = {}
      BY DEF LoopShape
    <3>2. /\ Head(finished) \in Reqs /\ Head(finished) \notin ToSet(Tail(finished))
          /\ ToSet(finished) = {Head(finished)} \union ToSet(Tail(finished))
      BY <1>a, <2>1, <3>1, TailOwnership
    <3> QED BY <2>0, <2>1, <3>1, <3>2
  <2>3. Live' = Live /\ Granted = {} /\ Granted' = {}
    BY <2>1, LiveSame DEF Granted
  <2>4. LengthOf(s)'
    BY <1>c, <2>1, <2>2, <2>3 DEF LengthOf
  <2>5. \A t \in Reqs \ {s} : kvLen'[t] = kvLen[t]
    BY <1>c, <2>1
  <2>6. ASSUME NEW t \in Reqs \ {s} PROVE LengthOf(t)'
    BY <1>d, <1>e, <2>1, <2>2, <2>3, <2>5, LengthKept
  <2> QED BY <2>4, <2>6 DEF Lengths
<1>26. CASE EndStep
  BY <1>26, <1>g, LiveSame DEF EndStep, Return, Granted
<1>27. CASE UNCHANGED vars
  <2>1. \A t : Grant(t)' = Grant(t)
    BY <1>27 DEF vars, Grant, Granted
  <2>2. ASSUME NEW t \in Reqs PROVE LengthOf(t)'
    BY <1>27, <2>1, LiveSame, LengthKept DEF vars
  <2> QED BY <2>2 DEF Lengths
<1>28. MayAbort \subseteq Reqs
  BY DEF SchedulerAssumption
<1> QED
  BY <1>1, <1>2, <1>3, <1>5, <1>6, <1>7, <1>8, <1>9, <1>10, <1>11, <1>12, <1>13, <1>14,
     <1>17, <1>18, <1>20, <1>22, <1>23, <1>24, <1>25, <1>26, <1>27, <1>28
  DEF Next, EngineStep, Clients, Prefilling, Decoding, Running, Postprocessing, Freeing

\* Who owns a row: everybody who decodes, everybody whose prompt is partly
\* prefilled, and everybody the step has finished.
LEMMA RowFacts ==
  ASSUME KvCacheAssumption, SchedulerAssumption, StreamInv, Progress, LoopShape, Lengths,
         pc # "raised"
  PROVE  /\ ToSet(decoding) \subseteq rows
         /\ \A s \in ToSet(waiting) : prefilled[s] > 0 => s \in rows
         /\ ToSet(finished) \subseteq rows
<1>1. /\ TypeOK /\ Live \subseteq Reqs
      /\ ToSet(waiting) \subseteq Live /\ ToSet(decoding) \subseteq Live
      /\ chunk \in [Reqs -> Nat] /\ prefilled \in [Reqs -> Nat]
      /\ finished \in Seq(Reqs)
  BY QueueFacts
<1>2. ASSUME NEW s \in Live
      PROVE  /\ Grant(s) \in Nat /\ Booked(s) \in Nat /\ kvLen[s] = Booked(s) + Grant(s)
             /\ s \in rows <=> kvLen[s] > 0
             /\ Prefilled(s) => Booked(s) > 0
  <2>1. s \in Reqs
    BY <1>1, <1>2
  <2>2. Grant(s) \in Nat
    BY <1>1, <2>1 DEF Grant
  <2>3. LengthOf(s)
    BY <2>1 DEF Lengths
  <2> QED BY <1>1, <1>2, <2>2, <2>3, BookedFacts DEF LengthOf
<1>3. ASSUME NEW s \in ToSet(decoding) PROVE s \in rows
  <2>1. s \in Live /\ Prefilled(s)
    BY <1>1, <1>3 DEF StreamInv, DecodeShape
  <2> QED BY <1>2, <2>1
<1>4. ASSUME NEW s \in ToSet(waiting), prefilled[s] > 0 PROVE s \in rows
  <2>1. s \in Live /\ s \in Reqs /\ ~Prefilled(s)
    BY <1>1, <1>4 DEF Progress
  <2>2. Booked(s) = prefilled[s]
    BY <2>1 DEF Booked
  <2> QED BY <1>2, <1>4, <2>1, <2>2
<1>5. ASSUME NEW s \in ToSet(finished) PROVE s \in rows
  <2>1. s \in Reqs /\ s \notin Live
    BY <1>1, <1>5 DEF ToSet, LoopShape
  <2> QED BY <1>5, <2>1 DEF Lengths, LengthOf
<1> QED
  BY <1>3, <1>4, <1>5

\* The resident set loses a request together with its row.
LEMMA ResidentsFreed ==
  ASSUME KvCacheAssumption, TypeOK, Residents, NEW s, Promised = {}, Promised' = {},
         pc' # "prefill", FreeSeqPayload(s)
  PROVE  Residents'
<1>1. rows' = rows \ {s} /\ resident' = resident \ {s}
  BY DEF FreeSeqPayload, FreeSeq
<1>2. IsFiniteSet(resident)
  BY FS_Subset DEF TypeOK, KvCacheAssumption
<1>3. /\ Cardinality(resident') <= Cardinality(resident)
      /\ Cardinality(resident) \in Nat /\ Cardinality(resident') \in Nat
  BY <1>1, <1>2, FS_Subset, FS_CardinalityType
<1>4. resident' = rows' \union Promised'
  BY <1>1 DEF Residents
<1>5. Cardinality(resident') <= NumRows
  BY <1>3 DEF Residents, KvCacheAssumption
<1> QED
  BY <1>4, <1>5 DEF Residents

\* Every action keeps the resident set within the row table.
LEMMA ResidentsStep ==
  ASSUME KvCacheAssumption, SchedulerAssumption, StreamInv, Progress, LoopShape, Lengths,
         Residents, [Next]_vars, pc # "raised", pc' # "raised"
  PROVE  Residents'
<1> USE DEF seqVars, queueVars, stepVars, kvVars
<1>a. /\ TypeOK /\ StepShape
      /\ waiting \in Seq(Reqs) /\ decoding \in Seq(Reqs) /\ batch \in Seq(Reqs)
      /\ todo \in Seq(Reqs) /\ finished \in Seq(Reqs) /\ prefilled \in [Reqs -> Nat]
      /\ IsInjective(waiting)
  BY QueueFacts
<1>b. ASSUME NEW why, Raise(why) PROVE FALSE
  BY <1>b DEF Raise
<1>c. /\ IsFiniteSet(resident) /\ Cardinality(resident) \in Nat /\ NumRows \in Nat
      /\ loc \in Locals /\ loc.residents \in Int
  BY <1>a, FS_Subset, FS_CardinalityType DEF TypeOK, KvCacheAssumption, Locals
<1>d. ASSUME UNCHANGED <<rows, resident>>, Promised' = Promised, pc' # "prefill"
      PROVE  Residents'
  BY <1>d DEF Residents
<1>e. pc \in {"idle", "decode", "postprocess", "free"} => Promised = {}
  BY DEF Promised
<1>f. pc' \in {"idle", "decode", "postprocess", "free"} => Promised' = {}
  BY DEF Promised
<1>1. ASSUME NEW s \in Reqs, AddRequest(s) PROVE Residents'
  BY <1>1, <1>d, <1>e, <1>f DEF AddRequest
<1>2. ASSUME NEW s \in Reqs, AbortRequest(s) PROVE Residents'
  <2>1. pc = "idle" /\ pc' = "idle"
    BY <1>2, <1>b DEF AbortRequest
  <2>2. CASE FreeSeqPayload(s)
    BY <1>a, <1>e, <1>f, <2>1, <2>2, ResidentsFreed
  <2>3. CASE UNCHANGED <<resident, kvVars>>
    BY <1>d, <1>e, <1>f, <2>1, <2>3
  <2> QED BY <1>2, <1>b, <2>2, <2>3 DEF AbortRequest
<1>3. CASE BeginSchedule
  <2>1. /\ pc = "idle" /\ UNCHANGED <<rows, resident, batch>> /\ batch = <<>>
        /\ pc' = "prefill" \/ pc' = "decode"
    BY <1>3, <1>a DEF BeginSchedule, StepShape
  <2>2. Promised = {} /\ Promised' = {}
    BY <1>e, <2>1, EmptyOwnership DEF Promised
  <2>3. CASE pc' = "prefill"
    <3>1. loc'.residents = AtLeast0(NumRows - Cardinality(resident))
      BY <1>3, <2>3 DEF BeginSchedule
    <3>2. Cardinality(resident) <= NumRows
      BY DEF Residents
    <3>3. Cardinality(resident) + loc'.residents <= NumRows
      BY <1>c, <3>1, <3>2 DEF AtLeast0
    <3> QED BY <2>1, <2>2, <3>3 DEF Residents
  <2>4. CASE pc' = "decode"
    BY <1>d, <2>1, <2>2, <2>4
  <2> QED BY <2>1, <2>3, <2>4
<1>4. ASSUME NEW i \in DOMAIN waiting, NEW F, Requeue(i, F), pc = "prefill" PROVE Residents'
  <2>1. /\ UNCHANGED <<rows, resident, batch, pc>>
        /\ loc' = [loc EXCEPT !.scan = @ - 1, !.failures = @ \union F]
    BY <1>4 DEF Requeue
  <2>2. loc'.residents = loc.residents
    BY <1>c, <2>1 DEF Locals
  <2> QED BY <1>4, <2>1, <2>2 DEF Residents, Promised
<1>5. ASSUME NEW i \in DOMAIN waiting, PrefillBlocked(i) \/ PrefillDeferred(i)
      PROVE  Residents'
  BY <1>4, <1>5, <1>b DEF PrefillBlocked, PrefillDeferred, PrefillLoop
<1>6. ASSUME NEW i \in DOMAIN waiting, PrefillScheduled(i) PROVE Residents'
  <2>0. PICK s : s = waiting[i]
    OBVIOUS
  <2>1. /\ pc = "prefill" /\ pc' = "prefill" /\ batch' = Append(batch, s)
        /\ ~AdmissionFails(s) /\ UNCHANGED rows
        /\ resident' = IF prefilled[s] = 0 THEN resident \union {s} ELSE resident
    BY <1>6, <2>0 DEF PrefillScheduled, PrefillLoop
  <2>2. loc'.residents = IF prefilled[s] = 0 THEN loc.residents - ResidentCost(s)
                         ELSE loc.residents
    <3> DEFINE n == PrefillStepTokens(s)
               sl == IF prefilled[s] = 0 THEN loc.slots - PromptAdmissionCost(s) ELSE loc.slots
               rs == IF prefilled[s] = 0 THEN loc.residents - ResidentCost(s)
                     ELSE loc.residents
               fr == AtLeast0(loc.stepFree - PrefillStepReservationCost(s, n))
    <3>1. loc' = [loc EXCEPT !.scan = loc.scan - 1, !.slots = sl, !.residents = rs,
                             !.tokens = loc.tokens + n, !.stepFree = fr]
      BY <1>6, <2>0 DEF PrefillScheduled
    <3> HIDE DEF n, sl, rs, fr
    <3>2. loc'.residents = rs
      BY <1>c, <3>1 DEF Locals
    <3> QED BY <3>2 DEF rs
  <2>3. s \in Reqs /\ s \in ToSet(waiting)
    BY <1>a, <2>0, RotateOwnership
  <2>4. Promised = ToSet(batch) /\ Promised' = ToSet(batch) \union {s}
    BY <1>a, <2>1, <2>3, AppendOwnership DEF Promised
  <2>5. prefilled[s] \in Nat /\ (prefilled[s] # 0 => s \in rows)
    <3>1. prefilled[s] \in Nat
      BY <1>a, <2>3
    <3>2. prefilled[s] > 0 => s \in rows
      BY <2>1, <2>3, RowFacts
    <3> QED BY <3>1, <3>2
  <2>6. resident' = rows' \union Promised'
    BY <2>1, <2>4, <2>5 DEF Residents
  <2>7. Cardinality(resident) + loc.residents <= NumRows /\ Cardinality(resident) <= NumRows
    BY <2>1 DEF Residents
  <2>8. CASE prefilled[s] = 0 /\ s \notin resident
    <3>1. Cardinality(resident') = Cardinality(resident) + 1
      BY <1>c, <2>1, <2>8, FS_AddElement
    <3>2. loc'.residents = loc.residents - 1 /\ loc.residents >= 1
      BY <1>c, <2>1, <2>2, <2>8 DEF ResidentCost, AdmissionFails
    <3>3. /\ Cardinality(resident') <= NumRows
          /\ Cardinality(resident') + loc'.residents <= NumRows
      BY <1>c, <2>7, <3>1, <3>2
    <3> QED BY <2>6, <3>3 DEF Residents
  <2>9. CASE prefilled[s] # 0 \/ s \in resident
    <3>1. resident' = resident /\ loc'.residents = loc.residents
      BY <1>c, <2>1, <2>2, <2>9 DEF ResidentCost
    <3> QED BY <2>6, <2>7, <3>1 DEF Residents
  <2> QED BY <2>8, <2>9
<1>7. CASE EndPrefillScan
  <2>1. pc = "prefill" /\ UNCHANGED <<rows, resident, batch>>
    BY <1>7 DEF EndPrefillScan
  <2>2. CASE pc' = "prepare"
    <3>1. Promised' = Promised
      BY <1>7, <2>1, <2>2 DEF EndPrefillScan, Promised
    <3> QED BY <1>d, <2>1, <2>2, <3>1
  <2>3. CASE pc' = "prefill"
    <3>1. loc' = [loc EXCEPT !.modes = Tail(loc.modes), !.scan = Len(waiting)]
      BY <1>7, <2>3 DEF EndPrefillScan
    <3>2. loc'.residents = loc.residents
      BY <1>c, <3>1 DEF Locals
    <3> QED BY <2>1, <2>3, <3>2 DEF Residents, Promised
  <2>4. CASE pc' = "decode"
    <3>1. batch = <<>>
      BY <1>7, <2>4 DEF EndPrefillScan
    <3>2. Promised = {} /\ Promised' = {}
      BY <1>f, <2>1, <2>4, <3>1, EmptyOwnership DEF Promised
    <3> QED BY <1>d, <2>1, <2>4, <3>2
  <2> QED BY <1>7, <2>1, <2>2, <2>3, <2>4 DEF EndPrefillScan
<1>8. ASSUME NEW i \in DOMAIN decoding, DecodeScheduled(i) \/ DecodeBlocked(i)
      PROVE  Residents'
  BY <1>8, <1>d, <1>e, <1>f DEF DecodeScheduled, DecodeBlocked, DecodeLoop
<1>9. ASSUME NEW i \in DOMAIN decoding, PreemptCandidate(i) \/ PreemptBlocked(i)
      PROVE  Residents'
  <2>0. PICK v : v = decoding[i]
    OBVIOUS
  <2>1. PreemptDecodeVictim(v, RemoveAt(decoding, i)) /\ pc = "decode"
    BY <1>9, <2>0 DEF PreemptCandidate, PreemptBlocked, DecodeLoop, DecodeScanDone
  <2>2. FreeSeqPayload(v) /\ pc' = "idle"
    BY <1>b, <2>1 DEF PreemptDecodeVictim, Return
  <2> QED BY <1>a, <1>e, <1>f, <2>1, <2>2, ResidentsFreed
<1>10. CASE NothingRunnable
  BY <1>10 DEF NothingRunnable, Raise
<1>11. CASE EndDecodeScan
  <2>1. Promised = {} /\ Promised' = {}
    BY <1>11, <1>a DEF EndDecodeScan, DecodeScanDone, StepShape, Promised
  <2> QED BY <1>11, <1>d, <2>1 DEF EndDecodeScan
<1>12. CASE PrepareChunk
  <2>1. /\ pc = "prepare" /\ pc' = "prepare" /\ isPrefill /\ isPrefill' /\ todo # <<>>
        /\ todo' = Tail(todo) /\ UNCHANGED resident
        /\ rows' = rows \union {Head(todo)}
    BY <1>12, <1>b DEF PrepareChunk, Allocate
  <2>2. ToSet(todo) = {Head(todo)} \union ToSet(Tail(todo))
    BY <1>a, <2>1, TailOwnership
  <2>3. Promised = ToSet(todo) /\ Promised' = ToSet(Tail(todo))
    BY <2>1 DEF Promised
  <2>4. resident' = rows' \union Promised'
    BY <2>1, <2>2, <2>3 DEF Residents
  <2> QED BY <2>1, <2>4 DEF Residents
<1>13. CASE PrepareDecode
  <2>1. /\ pc = "prepare" /\ pc' = "prepare" /\ ~isPrefill /\ ~isPrefill'
        /\ UNCHANGED resident /\ rows' = rows \union ToSet(batch)
    BY <1>13, <1>b DEF PrepareDecode, AllocateBatch
  <2>2. ToSet(batch) \subseteq rows
    BY <2>1, RowFacts DEF StreamInv, DecodeShape
  <2>3. Promised = {} /\ Promised' = {}
    BY <2>1 DEF Promised
  <2>4. rows' = rows
    BY <2>1, <2>2
  <2> QED BY <1>d, <2>1, <2>3, <2>4
<1>14. CASE EndPrepare
  <2>1. Promised = {} /\ Promised' = {}
    BY <1>14, EmptyOwnership DEF EndPrepare, Promised
  <2> QED BY <1>14, <1>d, <2>1 DEF EndPrepare
<1>15. ASSUME NEW s \in Reqs, Postprocess(s) PROVE Residents'
  BY <1>15, <1>d, <1>e, <1>f DEF Postprocess
<1>16. CASE EndPostprocess
  BY <1>16, <1>d, <1>e, <1>f DEF EndPostprocess
<1>17. CASE FreeFinished
  <2>1. FreeSeqPayload(Head(finished)) /\ pc = "free" /\ pc' = "free"
    BY <1>17, <1>b DEF FreeFinished
  <2> QED BY <1>a, <1>e, <1>f, <2>1, ResidentsFreed
<1>18. CASE EndStep
  BY <1>18, <1>d, <1>e, <1>f DEF EndStep, Return
<1>19. CASE UNCHANGED vars
  BY <1>19 DEF vars, Residents, Promised
<1>20. MayAbort \subseteq Reqs
  BY DEF SchedulerAssumption
<1> QED
  BY <1>1, <1>2, <1>3, <1>5, <1>6, <1>7, <1>8, <1>9, <1>10, <1>11, <1>12, <1>13, <1>14,
     <1>15, <1>16, <1>17, <1>18, <1>19, <1>20
  DEF Next, EngineStep, Clients, Prefilling, Decoding, Running, Postprocessing, Freeing,
      PostPrefillPartial, PostPrefillReplay, PostPrefillToken, PostDecodeReplay, PostDecodeToken

\* No action trips over one of the checks: a released request owns a row, a
\* chunk starts where its row ends, the table has room, a replay has a token to
\* decode, and nobody who waits is fully prefilled.
LEMMA ChecksStep ==
  ASSUME KvCacheAssumption, SchedulerAssumption, KvInv, [Next]_vars
  PROVE  SelfChecksHold'
<1> USE DEF seqVars, queueVars, stepVars, kvVars
<1> DEFINE Bad == {"no_free_row", "no_row", "row_mismatch", "no_decode_input", "not_waiting"}
<1>a. raised \notin Bad /\ StreamInv
  BY DEF KvInv, SelfChecksHold
<1>0. CASE pc = "raised"
  <2>1. raised' = raised
    BY <1>0 DEF Next, EngineStep, Clients, BeginSchedule, Prefilling,
       Decoding, Running, Postprocessing, Freeing, AddRequest, AbortRequest,
       PrefillBlocked, PrefillDeferred, PrefillScheduled, EndPrefillScan, PrefillLoop,
       DecodeScheduled, DecodeBlocked, PreemptCandidate, PreemptBlocked, NothingRunnable,
       EndDecodeScan, DecodeLoop, DecodeScanDone, PrepareChunk, PrepareDecode, EndPrepare,
       PostPrefillPartial, PostPrefillReplay, PostDecodeReplay, PostPrefillToken,
       PostDecodeToken, Postprocess, EndPostprocess, FreeFinished, EndStep, vars
  <2> QED BY <1>a, <2>1 DEF SelfChecksHold
<1> SUFFICES ASSUME pc # "raised" PROVE raised' = raised \/ raised' \notin Bad
  BY <1>0, <1>a DEF SelfChecksHold
<1>b. /\ Progress /\ LoopShape /\ Lengths /\ Residents
      /\ ToSet(decoding) \subseteq rows
      /\ \A s \in ToSet(waiting) : prefilled[s] > 0 => s \in rows
      /\ ToSet(finished) \subseteq rows
  BY <1>a, RowFacts DEF KvInv
<1>c. /\ TypeOK /\ waiting \in Seq(Reqs) /\ decoding \in Seq(Reqs) /\ batch \in Seq(Reqs)
      /\ todo \in Seq(Reqs) /\ finished \in Seq(Reqs) /\ IsInjective(waiting)
      /\ IsInjective(decoding) /\ Live \subseteq Reqs
      /\ Live = ToSet(waiting) \union ToSet(decoding) \union ToSet(InHand)
      /\ prefilled \in [Reqs -> Nat] /\ PromptLen \in [Reqs -> Nat \ {0}]
      /\ completion \in [Reqs -> Nat] /\ cursor \in [Reqs -> Nat \union {-1}]
  BY <1>a, QueueFacts
<1>d. /\ IsFiniteSet(resident) /\ Cardinality(resident) \in Nat /\ NumRows \in Nat
      /\ Cardinality(resident) <= NumRows /\ rows \subseteq resident
  BY <1>b, <1>c, FS_Subset, FS_CardinalityType DEF TypeOK, KvCacheAssumption, Residents
<1>1. ASSUME NEW s \in Reqs, AbortRequest(s) PROVE raised' = raised
  <2>1. s \in ToSet(waiting) \/ s \in ToSet(decoding)
    BY <1>1, <1>c, RotateOwnership DEF AbortRequest, AbortFrom
  <2>2. AbortMustFree(s) => s \in rows
    BY <1>b, <2>1 DEF AbortMustFree
  <2> QED BY <1>1, <2>2 DEF AbortRequest
<1>2. ASSUME NEW i \in DOMAIN waiting, PrefillBlocked(i) PROVE raised' = raised
  <2>1. waiting[i] \in ToSet(waiting) /\ waiting[i] \in Reqs
    BY <1>c, RotateOwnership
  <2>2. ~Prefilled(waiting[i])
    BY <1>b, <2>1 DEF Progress
  <2>3. ~(RemainingPrefillTokens(waiting[i]) <= 0)
    BY <1>c, <2>1, <2>2 DEF Prefilled, RemainingPrefillTokens
  <2> QED BY <1>2, <2>3 DEF PrefillBlocked, Requeue
<1>3. ASSUME NEW i \in DOMAIN decoding, PreemptCandidate(i) \/ PreemptBlocked(i)
      PROVE  raised' = raised \/ raised' \notin Bad
  <2>1. decoding[i] \in rows
    BY <1>b, <1>c, RotateOwnership
  <2>2. PreemptDecodeVictim(decoding[i], RemoveAt(decoding, i))
    BY <1>3 DEF PreemptCandidate, PreemptBlocked
  <2> QED BY <2>1, <2>2 DEF PreemptDecodeVictim, Raise, Return
<1>4. CASE NothingRunnable
  BY <1>4 DEF NothingRunnable, Raise
<1>5. CASE PrepareChunk
  <2>0. PICK s : s = Head(todo)
    OBVIOUS
  <2>1. pc = "prepare" /\ isPrefill /\ todo # <<>>
    BY <1>5 DEF PrepareChunk
  <2>2. s \in ToSet(todo) /\ s \in Reqs /\ ToSet(todo) \subseteq ToSet(batch)
    BY <1>b, <1>c, <2>0, <2>1, TailOwnership DEF LoopShape
  <2>3. s \in Hand /\ s \in Live /\ s \notin Granted /\ s \in Promised
    BY <1>c, <2>1, <2>2 DEF Hand, InHand, Granted, Promised
  <2>4. kvLen[s] = prefilled[s]
    <3>1. Grant(s) = 0 /\ Booked(s) = prefilled[s] /\ prefilled[s] \in Nat
      BY <1>b, <1>c, <2>2, <2>3 DEF Grant, Booked, Progress
    <3>2. kvLen[s] = Booked(s) + Grant(s)
      BY <1>b, <2>2, <2>3 DEF Lengths, LengthOf
    <3> QED BY <3>1, <3>2
  <2>5. HasRowFor(s)
    <3> SUFFICES ASSUME s \notin rows PROVE Cardinality(rows) < NumRows
      BY DEF HasRowFor
    <3>1. s \in resident
      BY <1>b, <2>3 DEF Residents
    <3>2. IsFiniteSet(rows)
      BY <1>d, FS_Subset
    <3>3. Cardinality(rows) < Cardinality(resident) /\ Cardinality(rows) \in Nat
      BY <1>d, <3>1, <3>2, FS_Subset, FS_CardinalityType
    <3> QED BY <1>d, <3>3
  <2> QED BY <1>5, <2>0, <2>4, <2>5 DEF PrepareChunk, Raise
<1>6. CASE PrepareDecode
  <2>1. pc = "prepare" /\ ~isPrefill
    BY <1>6 DEF PrepareDecode
  <2>2. ToSet(batch) \subseteq ToSet(decoding)
    BY <1>a, <2>1 DEF StreamInv, DecodeShape
  <2>3. \A s \in ToSet(batch) : HasDecodeInput(s)
    <3> TAKE s \in ToSet(batch)
    <3>1. s \in Live /\ s \in Reqs
      BY <1>c, <2>2
    <3>2. IsRecomputeDecode(s) => cursor[s] + 1 < completion[s]
      BY <1>b, <3>1 DEF Progress, ProgressOf, IsRecomputeDecode, Prefilled
    <3>3. cursor[s] \in Nat \union {-1} /\ completion[s] \in Nat
      BY <1>c, <3>1
    <3> QED BY <3>2, <3>3 DEF HasDecodeInput, ReplayDecodeTokenCount, AtLeast0
  <2>4. ~(Cardinality(rows \union ToSet(batch)) > NumRows)
    <3>1. rows \union ToSet(batch) \subseteq resident
      BY <1>b, <1>d, <2>2
    <3>2. /\ Cardinality(rows \union ToSet(batch)) <= Cardinality(resident)
          /\ Cardinality(rows \union ToSet(batch)) \in Nat
      BY <1>d, <3>1, FS_Subset, FS_CardinalityType
    <3> QED BY <1>d, <3>2
  <2> QED BY <1>6, <2>3, <2>4 DEF PrepareDecode, Raise
<1>7. CASE FreeFinished
  <2>1. finished # <<>>
    BY <1>7 DEF FreeFinished
  <2>2. Head(finished) \in rows
    BY <1>b, <1>c, <2>1, TailOwnership
  <2> QED BY <1>7, <2>2 DEF FreeFinished
<1>8. ASSUME NEW s, Postprocess(s) PROVE raised' = raised
  BY <1>8 DEF Postprocess
<1>9. ASSUME NEW s \in Reqs, AddRequest(s) PROVE raised' = raised
  BY <1>9 DEF AddRequest
<1>10. CASE BeginSchedule \/ EndPrefillScan \/ EndDecodeScan \/ EndPrepare \/ EndPostprocess
  BY <1>10 DEF BeginSchedule, EndPrefillScan, EndDecodeScan, EndPrepare, EndPostprocess
<1>11. CASE EndStep \/ UNCHANGED vars
  BY <1>11 DEF EndStep, Return, vars
<1>12. ASSUME NEW i, PrefillDeferred(i) \/ PrefillScheduled(i) \/ DecodeScheduled(i)
                     \/ DecodeBlocked(i)
       PROVE  raised' = raised
  BY <1>12 DEF PrefillDeferred, PrefillScheduled, Requeue, DecodeScheduled, DecodeBlocked
<1>13. MayAbort \subseteq Reqs
  BY DEF SchedulerAssumption
<1> HIDE DEF Bad
<1> QED
  BY <1>1, <1>2, <1>3, <1>4, <1>5, <1>6, <1>7, <1>8, <1>9, <1>10, <1>11, <1>12, <1>13
  DEF Next, EngineStep, Clients, Prefilling, Decoding, Running, Postprocessing, Freeing,
      PostPrefillPartial, PostPrefillReplay, PostPrefillToken, PostDecodeReplay, PostDecodeToken

\* The initial state and every step keep the invariant of the KV cache.
LEMMA KvInductive ==
  /\ Init => KvInv
  /\ KvInv /\ [Next]_vars => KvInv'
<1> USE KvCacheAssumption, SchedulerAssumption
<1>1. Init => KvInv
  <2> SUFFICES ASSUME Init PROVE KvInv
    OBVIOUS
  <2>1. StreamInv /\ pc # "raised" /\ SelfChecksHold
    BY StreamInductive DEF Init, SelfChecksHold
  <2>2. /\ Live = {} /\ Hand = {} /\ Granted = {} /\ Promised = {}
        /\ ToSet(waiting) = {} /\ ToSet(finished) = {} /\ IsInjective(finished)
    BY EmptyOwnership DEF Init, Live, Hand, InHand, Granted, Promised
  <2>3. Progress
    BY <2>2 DEF Init, Progress, ProgressOf
  <2>4. LoopShape
    BY <2>2 DEF Init, LoopShape
  <2>5. Lengths
    BY <2>2 DEF Init, KvInit, Lengths, LengthOf
  <2>6. Residents
    <3>1. resident = {} /\ rows = {} /\ Cardinality(resident) = 0
      BY FS_EmptySet DEF Init, KvInit
    <3> QED BY <2>2, <3>1 DEF Residents, KvCacheAssumption, Init
  <2> QED BY <2>1, <2>3, <2>4, <2>5, <2>6 DEF KvInv
<1>2. KvInv /\ [Next]_vars => KvInv'
  <2> SUFFICES ASSUME KvInv, [Next]_vars PROVE KvInv'
    OBVIOUS
  <2>1. StreamInv'
    BY StreamInductive DEF KvInv
  <2>2. SelfChecksHold'
    BY ChecksStep
  <2>3. ASSUME pc' # "raised" PROVE (Progress /\ LoopShape /\ Lengths /\ Residents)'
    <3>1. CASE pc = "raised"
      <4>1. UNCHANGED vars
        BY <2>3, <3>1 DEF Next, EngineStep, Clients, BeginSchedule, Prefilling,
           Decoding, Running, Postprocessing, Freeing, AddRequest, AbortRequest,
           PrefillBlocked, PrefillDeferred, PrefillScheduled, EndPrefillScan, PrefillLoop,
           DecodeScheduled, DecodeBlocked, PreemptCandidate, PreemptBlocked, NothingRunnable,
           EndDecodeScan, DecodeLoop, DecodeScanDone, PrepareChunk, PrepareDecode, EndPrepare,
           PostPrefillPartial, PostPrefillReplay, PostDecodeReplay, PostPrefillToken,
           PostDecodeToken, Postprocess, EndPostprocess, FreeFinished, EndStep
      <4> QED BY <2>3, <3>1, <4>1 DEF vars, stepVars
    <3>2. CASE pc # "raised"
      <4>1. StreamInv /\ Progress /\ LoopShape /\ Lengths /\ Residents
        BY <3>2 DEF KvInv
      <4>2. Progress'
        BY <2>3, <3>2, <4>1, ProgressStep
      <4>3. LoopShape'
        BY <2>3, <3>2, <4>1, LoopShapeStep
      <4>4. Lengths'
        BY <2>3, <3>2, <4>1, LengthsStep
      <4>5. Residents'
        BY <2>3, <3>2, <4>1, ResidentsStep
      <4> QED BY <4>2, <4>3, <4>4, <4>5
    <3> QED BY <3>1, <3>2
  <2> QED BY <2>1, <2>2, <2>3 DEF KvInv
<1> QED
  BY <1>1, <1>2

\* Whatever was chunked, batched, evicted, rebuilt or cancelled before: between
\* two steps the KV of every request is its history, exactly the requests with
\* KV own a row, and exactly those are resident.
THEOREM KvIsHistory == Spec => []KvMatchesHistory
<1>1. KvInv => KvMatchesHistory
  <2> SUFFICES ASSUME KvInv, pc = "idle"
               PROVE  /\ \A s \in Reqs : kvLen[s] = HistoryLen(s)
                      /\ rows = {s \in Reqs : kvLen[s] > 0}
                      /\ resident = rows
    BY DEF KvMatchesHistory
  <2>1. StreamInv /\ Progress /\ LoopShape /\ Lengths /\ Residents
    BY DEF KvInv
  <2>2. /\ Granted = {} /\ Promised = {} /\ ToSet(InHand) = {} /\ ToSet(finished) = {}
    BY <2>1, EmptyOwnership DEF Granted, Promised, InHand, LoopShape
  <2>3. /\ Live = ToSet(waiting) \union ToSet(decoding) /\ TypeOK
        /\ ToSet(waiting) \cap ToSet(decoding) = {}
    BY <2>1, <2>2, SchedulerAssumption, QueueFacts
  <2>4. ASSUME NEW s \in Live PROVE kvLen[s] = Booked(s)
    <3>1. Booked(s) \in Nat /\ Grant(s) = 0 /\ s \in Reqs
      BY <2>1, <2>2, <2>3, <2>4, SchedulerAssumption, BookedFacts DEF Grant, Live
    <3>2. kvLen[s] = Booked(s) + Grant(s)
      BY <2>1, <2>4, <3>1 DEF Lengths, LengthOf
    <3> QED BY <3>1, <3>2
  <2>5. ASSUME NEW s \in Reqs PROVE kvLen[s] = HistoryLen(s)
    <3>1. CASE s \in ToSet(waiting)
      BY <2>1, <2>3, <2>4, <3>1 DEF HistoryLen, Progress, Booked
    <3>2. CASE s \in ToSet(decoding)
      <4>1. Prefilled(s) /\ s \notin ToSet(waiting)
        BY <2>1, <2>3, <3>2 DEF StreamInv, DecodeShape
      <4> QED BY <2>3, <2>4, <3>2, <4>1 DEF HistoryLen, Booked
    <3>3. CASE s \notin ToSet(waiting) /\ s \notin ToSet(decoding)
      BY <2>1, <2>2, <2>3, <2>5, <3>3 DEF HistoryLen, Lengths, LengthOf
    <3> QED BY <3>1, <3>2, <3>3
  <2>6. rows = {s \in Reqs : kvLen[s] > 0}
    BY <2>1, <2>3 DEF Lengths, LengthOf, TypeOK, KvTypeOK
  <2> QED BY <2>1, <2>2, <2>5, <2>6 DEF Residents
<1> QED
  BY <1>1, KvInductive, PTL DEF Spec

\* The row table never runs out, no release meets a missing row, no chunk a row
\* of another length, no replay an empty history, and no fully prefilled request
\* is scheduled for prefill: those exceptions of the code are unreachable.
THEOREM SelfChecksNeverFail == Spec => []SelfChecksHold
<1>1. KvInv => SelfChecksHold
  BY DEF KvInv
<1> QED
  BY <1>1, KvInductive, PTL DEF Spec

=============================================================================
