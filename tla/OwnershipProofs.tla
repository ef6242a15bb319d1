-------------------------- MODULE OwnershipProofs --------------------------
(***************************************************************************)
(* RequestsOwnedOnce, for every set of requests, every pool and every      *)
(* choice of the batching limits.  It is inductive once it is known when   *)
(* the batch is in the hands of the step (StepShape).                      *)
(*                                                                         *)
(* Two promises of the scan follow from it: a replay is rebuilt alone      *)
(* (ReplayIsolated), and a batch that is committed fits the slot-granular  *)
(* pool (CommittedBatchFits for PageSize = 1), where ownership makes the   *)
(* reservations of a scan those of different requests.                     *)
(*                                                                         *)
(* So does what a client sees: PublishedOnce, and that Scheduler           *)
(* implements RequestService.  A decode step of a replay must not publish. *)
(* It recognises itself by its prompt being prefilled, so everyone who     *)
(* decodes has to be: an eviction resets prefilled, and keeps that true    *)
(* only because nobody is queued twice.  A decode batch stays in the       *)
(* decode queue while it runs, so each of its requests is still live when  *)
(* its token arrives.                                                      *)
(***************************************************************************)
EXTENDS SchedulerProofs

\* What the locals of step() say about its phase.
StepShape ==
  /\ pc \in {"idle", "prefill", "decode"} => ~isPrefill
  /\ pc = "idle" => batch = <<>>

QueuesOwn == pc # "raised" => Owned(waiting, decoding, InHand, Live)

OwnershipInv == TypeOK /\ StepShape /\ QueuesOwn

-----------------------------------------------------------------------------
(* Ownership.                                                              *)

\* A request that changes its status between waiting and running stays live.
LEMMA LiveKept ==
  ASSUME TypeOK, NEW s \in Live, NEW v \in {"waiting", "running"},
         status' = [status EXCEPT ![s] = v]
  PROVE  Live' = Live
  BY DEF Live, TypeOK

\* A request that finishes is no longer live.
LEMMA LiveLeft ==
  ASSUME TypeOK, NEW s \in Reqs, status' = [status EXCEPT ![s] = "finished"]
  PROVE  Live' = Live \ {s}
  BY DEF Live, TypeOK

\* Nobody's status changes.
LEMMA LiveSame ==
  ASSUME UNCHANGED status
  PROVE  Live' = Live
  BY DEF Live

\* The shape of a step is kept by every action.
LEMMA ShapeStep ==
  ASSUME TypeOK, StepShape, [Next]_vars
  PROVE  StepShape'
<1> USE DEF StepShape, seqVars, queueVars, stepVars, kvVars
<1>1. ASSUME NEW why, Raise(why) PROVE StepShape'
  BY <1>1 DEF Raise
<1>2. ASSUME Return PROVE StepShape'
  BY <1>2 DEF Return
<1>3. ASSUME NEW v, NEW rest, PreemptDecodeVictim(v, rest) PROVE StepShape'
  BY <1>1, <1>2, <1>3 DEF PreemptDecodeVictim
<1>4. CASE Clients
  BY <1>1, <1>4 DEF Clients, AddRequest, AbortRequest
<1>5. CASE BeginSchedule
  BY <1>5 DEF BeginSchedule
<1>6. CASE Prefilling
  BY <1>1, <1>6 DEF Prefilling, PrefillBlocked, PrefillDeferred, PrefillScheduled,
                    EndPrefillScan, PrefillLoop, Requeue
<1>7. CASE Decoding
  <2>1. ASSUME NEW i, DecodeScheduled(i) \/ DecodeBlocked(i) PROVE StepShape'
    BY <2>1 DEF DecodeScheduled, DecodeBlocked, DecodeLoop
  <2>2. ASSUME NEW i, PreemptCandidate(i) \/ PreemptBlocked(i) PROVE StepShape'
    BY <1>3, <2>2 DEF PreemptCandidate, PreemptBlocked
  <2>3. ASSUME NothingRunnable PROVE StepShape'
    BY <2>3 DEF NothingRunnable, Raise
  <2>4. ASSUME EndDecodeScan PROVE StepShape'
    BY <2>4 DEF EndDecodeScan
  <2> QED BY <1>7, <2>1, <2>2, <2>3, <2>4 DEF Decoding
<1>8. CASE Running
  BY <1>1, <1>8 DEF Running, PrepareChunk, PrepareDecode, EndPrepare
<1>9. CASE Postprocessing
  BY <1>9 DEF Postprocessing, Postprocess, PostPrefillPartial, PostPrefillReplay,
              PostDecodeReplay, PostPrefillToken, PostDecodeToken, EndPostprocess
<1>10. CASE Freeing
  BY <1>1, <1>2, <1>10 DEF Freeing, FreeFinished, EndStep
<1>11. CASE UNCHANGED vars
  BY <1>11 DEF vars
<1> QED
  BY <1>4, <1>5, <1>6, <1>7, <1>8, <1>9, <1>10, <1>11 DEF Next, EngineStep

\* Every action keeps every live request in exactly one queue.
LEMMA QueuesStep ==
  ASSUME KvCacheAssumption, SchedulerAssumption, OwnershipInv, [Next]_vars
  PROVE  QueuesOwn'
<1> SUFFICES ASSUME pc # "raised", pc' # "raised"
             PROVE  Owned(waiting', decoding', InHand', Live')
  <2>1. CASE pc = "raised"
    BY <2>1 DEF QueuesOwn, Next, EngineStep, Clients, BeginSchedule, Prefilling,
       Decoding, Running, Postprocessing, Freeing, AddRequest, AbortRequest,
       PrefillBlocked, PrefillDeferred, PrefillScheduled, EndPrefillScan, PrefillLoop,
       DecodeScheduled, DecodeBlocked, PreemptCandidate, PreemptBlocked, NothingRunnable,
       EndDecodeScan, DecodeLoop, DecodeScanDone, PrepareChunk, PrepareDecode, EndPrepare,
       PostPrefillPartial, PostPrefillReplay, PostDecodeReplay, PostPrefillToken,
       PostDecodeToken, Postprocess, EndPostprocess, FreeFinished, EndStep, vars, stepVars
  <2> QED BY <2>1 DEF QueuesOwn
<1> USE DEF seqVars, queueVars, stepVars, kvVars
<1>0. /\ TypeOK /\ StepShape /\ Owned(waiting, decoding, InHand, Live)
      /\ waiting \in Seq(Reqs) /\ decoding \in Seq(Reqs)
      /\ batch \in Seq(Reqs) /\ todo \in Seq(Reqs)
  BY DEF OwnershipInv, QueuesOwn, TypeOK
<1>a. <<>> \in Seq(Reqs) /\ InHand \in Seq(Reqs)
  BY <1>0 DEF InHand
<1>b. ASSUME NEW why, Raise(why) PROVE FALSE
  BY <1>b DEF Raise
<1>1. ASSUME NEW s \in Reqs, AddRequest(s) PROVE Owned(waiting', decoding', InHand', Live')
  <2>1. s \notin Live /\ Live' = Live \union {s}
    BY <1>0, <1>1 DEF AddRequest, Live, TypeOK
  <2>2. InHand' = InHand
    BY <1>1 DEF AddRequest, InHand
  <2>3. waiting' = Append(waiting, s) /\ decoding' = decoding
    BY <1>1 DEF AddRequest
  <2>4. Owned(Append(waiting, s), decoding, InHand, Live \union {s})
    BY <1>0, <2>1, OwnedJoin
  <2> QED BY <2>1, <2>2, <2>3, <2>4
<1>2. ASSUME NEW s \in Reqs, AbortRequest(s) PROVE Owned(waiting', decoding', InHand', Live')
  <2>1. Live' = Live \ {s}
    BY <1>0, <1>2, LiveLeft DEF AbortRequest
  <2>2. InHand' = InHand
    BY <1>2, <1>b DEF AbortRequest, InHand
  <2>3. AbortFrom(s)
    BY <1>2 DEF AbortRequest
  <2>4. ASSUME NEW i \in DOMAIN waiting, waiting[i] = s,
               waiting' = RemoveAt(waiting, i), UNCHANGED decoding
        PROVE  Owned(waiting', decoding', InHand', Live')
    <3>1. Owned(RemoveAt(waiting, i), decoding, InHand, Live \ {waiting[i]})
      BY <1>0, <1>a, OwnedMove
    <3> QED BY <2>1, <2>2, <2>4, <3>1
  <2>5. ASSUME NEW i \in DOMAIN decoding, decoding[i] = s,
               decoding' = RemoveAt(decoding, i), UNCHANGED waiting
        PROVE  Owned(waiting', decoding', InHand', Live')
    <3>1. Owned(decoding, waiting, InHand, Live)
      BY <1>0, OwnedSymmetric
    <3>2. Owned(RemoveAt(decoding, i), waiting, InHand, Live \ {decoding[i]})
      BY <1>0, <1>a, <3>1, OwnedMove
    <3>3. Owned(waiting, RemoveAt(decoding, i), InHand, Live \ {decoding[i]})
      BY <3>2, OwnedSymmetric
    <3> QED BY <2>1, <2>2, <2>5, <3>3
  <2> QED BY <2>3, <2>4, <2>5 DEF AbortFrom
<1>3. ASSUME BeginSchedule PROVE Owned(waiting', decoding', InHand', Live')
  <2>1. InHand = <<>> /\ InHand' = <<>>
    BY <1>0, <1>3 DEF BeginSchedule, InHand, StepShape
  <2>2. UNCHANGED <<waiting, decoding, status>>
    BY <1>3 DEF BeginSchedule
  <2> QED BY <1>0, <2>1, <2>2, LiveSame
<1>4. ASSUME NEW i \in DOMAIN waiting, NEW F, Requeue(i, F)
      PROVE  Owned(waiting', decoding', InHand', Live')
  <2>1. /\ waiting' = Append(RemoveAt(waiting, i), waiting[i])
        /\ UNCHANGED <<decoding, status, pc, batch, isPrefill, todo>>
    BY <1>4 DEF Requeue
  <2>2. InHand' = InHand
    BY <2>1 DEF InHand
  <2>3. Owned(Append(RemoveAt(waiting, i), waiting[i]), decoding, InHand, Live)
    BY <1>0, <1>a, OwnedMove
  <2> QED BY <2>1, <2>2, <2>3, LiveSame
<1>5. ASSUME NEW i \in DOMAIN waiting, PrefillBlocked(i) \/ PrefillDeferred(i)
      PROVE  Owned(waiting', decoding', InHand', Live')
  <2>1. CASE PrefillBlocked(i)
    BY <2>1, <1>4, <1>b DEF PrefillBlocked
  <2>2. CASE PrefillDeferred(i)
    BY <2>2, <1>4 DEF PrefillDeferred
  <2> QED BY <1>5, <2>1, <2>2
<1>6. ASSUME NEW i \in DOMAIN waiting, PrefillScheduled(i)
      PROVE  Owned(waiting', decoding', InHand', Live')
  <2>1. /\ pc = "prefill" /\ pc' = pc
        /\ waiting' = RemoveAt(waiting, i) /\ batch' = Append(batch, waiting[i])
        /\ status' = [status EXCEPT ![waiting[i]] = "running"]
        /\ decoding' = decoding
    BY <1>6 DEF PrefillScheduled, PrefillLoop
  <2>2. InHand = batch /\ InHand' = Append(batch, waiting[i])
    BY <2>1 DEF InHand
  <2>3. Owned(waiting, batch, decoding, Live)
    BY <1>0, <2>2, OwnedSymmetric
  <2>4. /\ waiting[i] \in Live
        /\ Owned(RemoveAt(waiting, i), Append(batch, waiting[i]), decoding, Live)
    BY <1>0, <2>3, OwnedMove
  <2>5. Live' = Live
    BY <1>0, <2>1, <2>4, LiveKept
  <2>6. Owned(RemoveAt(waiting, i), decoding, Append(batch, waiting[i]), Live)
    BY <2>4, OwnedSymmetric
  <2> QED BY <2>1, <2>2, <2>5, <2>6
<1>7. ASSUME EndPrefillScan PROVE Owned(waiting', decoding', InHand', Live')
  <2>1. InHand = batch /\ InHand' = batch
    BY <1>7 DEF EndPrefillScan, InHand
  <2>2. UNCHANGED <<waiting, decoding, status>>
    BY <1>7 DEF EndPrefillScan
  <2> QED BY <1>0, <2>1, <2>2, LiveSame
<1>8. ASSUME pc = "decode", NEW i \in DOMAIN decoding
      PROVE  /\ decoding[i] \in Live
             /\ Owned(waiting, RemoveAt(decoding, i), Append(batch, decoding[i]), Live)
             /\ Owned(waiting, Append(RemoveAt(decoding, i), decoding[i]), batch, Live)
             /\ Owned(Append(waiting, decoding[i]), RemoveAt(decoding, i), batch, Live)
  <2>1. Owned(waiting, decoding, batch, Live)
    BY <1>0, <1>8 DEF InHand
  <2>2. Owned(decoding, waiting, batch, Live)
    BY <2>1, OwnedSymmetric
  <2>3. Owned(decoding, batch, waiting, Live)
    BY <2>2, OwnedSymmetric
  <2>4. /\ decoding[i] \in Live
        /\ Owned(Append(RemoveAt(decoding, i), decoding[i]), waiting, batch, Live)
        /\ Owned(RemoveAt(decoding, i), Append(waiting, decoding[i]), batch, Live)
    BY <1>0, <1>8, <2>2, OwnedMove
  <2>5. Owned(RemoveAt(decoding, i), Append(batch, decoding[i]), waiting, Live)
    BY <1>0, <1>8, <2>3, OwnedMove
  <2>6. Owned(waiting, Append(batch, decoding[i]), RemoveAt(decoding, i), Live)
    BY <2>5, OwnedSymmetric
  <2> QED BY <2>4, <2>6, OwnedSymmetric
<1>9. ASSUME NEW i \in DOMAIN decoding, DecodeScheduled(i)
      PROVE  Owned(waiting', decoding', InHand', Live')
  <2>1. /\ pc = "decode" /\ pc' = pc /\ decoding' = RemoveAt(decoding, i)
        /\ batch' = Append(batch, decoding[i]) /\ UNCHANGED <<waiting, status>>
    BY <1>9 DEF DecodeScheduled, DecodeLoop
  <2>2. InHand' = batch'
    BY <2>1 DEF InHand
  <2> QED BY <1>8, <2>1, <2>2, LiveSame
<1>10. ASSUME NEW i \in DOMAIN decoding, DecodeBlocked(i)
       PROVE  Owned(waiting', decoding', InHand', Live')
  <2>1. /\ pc = "decode" /\ pc' = pc
        /\ decoding' = Append(RemoveAt(decoding, i), decoding[i])
        /\ UNCHANGED <<batch, waiting, status>>
    BY <1>10 DEF DecodeBlocked, DecodeLoop
  <2>2. InHand' = batch
    BY <2>1 DEF InHand
  <2> QED BY <1>8, <2>1, <2>2, LiveSame
<1>11. ASSUME NEW i \in DOMAIN decoding, PreemptCandidate(i) \/ PreemptBlocked(i)
       PROVE  Owned(waiting', decoding', InHand', Live')
  <2>1. /\ pc = "decode" /\ batch = <<>>
        /\ PreemptDecodeVictim(decoding[i], RemoveAt(decoding, i))
    BY <1>11 DEF PreemptCandidate, PreemptBlocked, DecodeLoop, DecodeScanDone
  <2>2. /\ status' = [status EXCEPT ![decoding[i]] = "waiting"]
        /\ waiting' = Append(waiting, decoding[i])
        /\ decoding' = RemoveAt(decoding, i)
        /\ Return
    BY <1>b, <2>1 DEF PreemptDecodeVictim
  <2>3. InHand' = <<>>
    BY <2>2 DEF Return, InHand
  <2>4. Live' = Live
    BY <1>0, <1>8, <2>1, <2>2, LiveKept
  <2> QED BY <1>8, <2>1, <2>2, <2>3, <2>4
<1>12. ASSUME EndDecodeScan PROVE Owned(waiting', decoding', InHand', Live')
  <2>1. pc = "decode" /\ pc' = "prepare" /\ UNCHANGED <<waiting, status, isPrefill>>
    BY <1>12 DEF EndDecodeScan, DecodeScanDone
  <2>2. InHand = batch /\ InHand' = <<>>
    BY <1>0, <2>1 DEF InHand, StepShape
  <2>3. Owned(decoding, waiting, batch, Live)
    BY <1>0, <2>2, OwnedSymmetric
  <2>4. CASE decoding' = PutBack(decoding)
    <3>1. Owned(batch \o decoding, waiting, <<>>, Live)
      BY <1>0, <2>3, OwnedMerge
    <3>2. Owned(waiting, batch \o decoding, <<>>, Live)
      BY <3>1, OwnedSymmetric
    <3> QED BY <2>1, <2>2, <2>4, <3>2, LiveSame DEF PutBack
  <2>5. ASSUME NEW i \in DOMAIN decoding,
               decoding' = <<decoding[i]>> \o PutBack(RemoveAt(decoding, i))
        PROVE  Owned(waiting', decoding', InHand', Live')
    <3> DEFINE x == decoding[i]
               r == RemoveAt(decoding, i)
               c == batch \o r
    <3>1. x \in Reqs /\ x \in Live /\ r \in Seq(Reqs)
      BY <1>0, <1>8, <2>1, RemoveAtElements
    <3>2. Owned(r, waiting, batch, Live \ {x})
      BY <1>0, <2>3, OwnedMove
    <3> HIDE DEF r
    <3>3. Owned(c, waiting, <<>>, Live \ {x})
      BY <1>0, <3>1, <3>2, OwnedMerge
    <3>4. c \in Seq(Reqs)
      BY <1>0, <3>1, ConcatOwnership
    <3> HIDE DEF c, x
    <3> DEFINE y == <<x>>
    <3>5. y \in Seq(Reqs) /\ ToSet(y) = {x} /\ IsInjective(y)
      BY <3>1, SingletonOwnership
    <3> HIDE DEF y
    <3>6. x \notin ToSet(c) /\ x \notin ToSet(waiting)
          /\ Live = (ToSet(c) \union ToSet(waiting)) \union {x}
      BY <3>1, <3>3, EmptyOwnership DEF Owned
    <3>7. Owned(c, waiting, y, Live)
      BY <3>3, <3>5, <3>6 DEF Owned
    <3>8. Owned(y \o c, waiting, <<>>, Live)
      BY <3>4, <3>5, <3>7, OwnedMerge
    <3>9. Owned(waiting, y \o c, <<>>, Live)
      BY <3>8, OwnedSymmetric
    <3>10. decoding' = y \o c
      BY <2>5, Zenon DEF y, c, x, r, PutBack
    <3> QED BY <2>1, <2>2, <3>9, <3>10, LiveSame
  <2> QED BY <1>12, <2>4, <2>5 DEF EndDecodeScan
<1>13. ASSUME Running PROVE Owned(waiting', decoding', InHand', Live')
  <2>1. UNCHANGED <<waiting, decoding, status>>
    BY <1>13 DEF Running, PrepareChunk, PrepareDecode, EndPrepare
  <2>2. InHand' = InHand
    BY <1>13, <1>b DEF Running, PrepareChunk, PrepareDecode, EndPrepare, InHand
  <2> QED BY <1>0, <2>1, <2>2, LiveSame
<1>14. ASSUME NEW s, Postprocess(s), isPrefill
       PROVE  /\ s \in Live /\ s \in Reqs
              /\ InHand' = Tail(todo)
              /\ Owned(waiting, decoding, Tail(todo), Live \ {s})
              /\ Owned(<<s>> \o waiting, decoding, Tail(todo), Live)
              /\ Owned(waiting, Append(decoding, s), Tail(todo), Live)
  <2>1. /\ pc = "postprocess" /\ pc' = pc /\ todo # <<>> /\ s = Head(todo)
        /\ todo' = Tail(todo) /\ UNCHANGED isPrefill
    BY <1>14 DEF Postprocess
  <2>2. InHand = todo /\ InHand' = Tail(todo)
    BY <1>14, <2>1 DEF InHand
  <2>3. Owned(waiting, decoding, todo, Live) /\ Owned(decoding, waiting, todo, Live)
    BY <1>0, <2>2, OwnedSymmetric
  <2>4. /\ Head(todo) \in Live /\ Head(todo) \in Reqs
        /\ Owned(waiting, decoding, Tail(todo), Live \ {Head(todo)})
        /\ Owned(<<Head(todo)>> \o waiting, decoding, Tail(todo), Live)
    BY <1>0, <2>1, <2>3, OwnedPop
  <2>5. Owned(Append(decoding, Head(todo)), waiting, Tail(todo), Live)
    BY <1>0, <2>1, <2>3, OwnedPop
  <2>6. Owned(waiting, Append(decoding, Head(todo)), Tail(todo), Live)
    BY <2>5, OwnedSymmetric
  <2> QED BY <2>1, <2>2, <2>4, <2>6
<1>15. ASSUME NEW s \in Reqs, PostPrefillPartial(s)
       PROVE  Owned(waiting', decoding', InHand', Live')
  <2>1. /\ Postprocess(s) /\ isPrefill /\ status' = [status EXCEPT ![s] = "waiting"]
        /\ waiting' = <<s>> \o waiting /\ UNCHANGED decoding
    BY <1>15 DEF PostPrefillPartial
  <2>2. Live' = Live
    BY <1>0, <1>14, <2>1, LiveKept
  <2> QED BY <1>14, <2>1, <2>2
<1>16. ASSUME NEW s \in Reqs, PostPrefillReplay(s)
       PROVE  Owned(waiting', decoding', InHand', Live')
  <2>1. /\ Postprocess(s) /\ isPrefill /\ status' = [status EXCEPT ![s] = "running"]
        /\ decoding' = Append(decoding, s) /\ UNCHANGED waiting
    BY <1>16 DEF PostPrefillReplay
  <2>2. Live' = Live
    BY <1>0, <1>14, <2>1, LiveKept
  <2> QED BY <1>14, <2>1, <2>2
<1>17. ASSUME NEW s \in Reqs, NEW eos \in BOOLEAN, PostPrefillToken(s, eos)
       PROVE  Owned(waiting', decoding', InHand', Live')
  <2>1. Postprocess(s) /\ isPrefill /\ UNCHANGED waiting
    BY <1>17 DEF PostPrefillToken
  <2>2. CASE status' = [status EXCEPT ![s] = "finished"] /\ UNCHANGED decoding
    <3>1. Live' = Live \ {s}
      BY <1>0, <2>2, LiveLeft
    <3> QED BY <1>14, <2>1, <2>2, <3>1
  <2>3. CASE status' = [status EXCEPT ![s] = "running"] /\ decoding' = Append(decoding, s)
    <3>1. Live' = Live
      BY <1>0, <1>14, <2>1, <2>3, LiveKept
    <3> QED BY <1>14, <2>1, <2>3, <3>1
  <2> QED BY <1>17, <2>2, <2>3 DEF PostPrefillToken
<1>18. ASSUME NEW s, Postprocess(s), ~isPrefill PROVE InHand = <<>> /\ InHand' = <<>>
  BY <1>18 DEF Postprocess, InHand
<1>19. ASSUME NEW s \in Reqs, PostDecodeReplay(s)
       PROVE  Owned(waiting', decoding', InHand', Live')
  <2>1. Postprocess(s) /\ ~isPrefill /\ UNCHANGED <<status, waiting, decoding>>
    BY <1>19 DEF PostDecodeReplay
  <2> QED BY <1>0, <1>18, <2>1, LiveSame
<1>20. ASSUME NEW s \in Reqs, NEW eos \in BOOLEAN, PostDecodeToken(s, eos)
       PROVE  Owned(waiting', decoding', InHand', Live')
  <2>1. Postprocess(s) /\ ~isPrefill /\ UNCHANGED waiting
    BY <1>20 DEF PostDecodeToken
  <2>2. CASE UNCHANGED <<status, decoding>>
    BY <1>0, <1>18, <2>1, <2>2, LiveSame
  <2>3. ASSUME status' = [status EXCEPT ![s] = "finished"], NEW i \in DOMAIN decoding,
               decoding[i] = s, decoding' = RemoveAt(decoding, i)
        PROVE  Owned(waiting', decoding', InHand', Live')
    <3>1. Live' = Live \ {s}
      BY <1>0, <2>3, LiveLeft
    <3>2. Owned(decoding, waiting, InHand, Live)
      BY <1>0, OwnedSymmetric
    <3>3. Owned(RemoveAt(decoding, i), waiting, InHand, Live \ {decoding[i]})
      BY <1>0, <1>a, <3>2, OwnedMove
    <3>4. Owned(waiting, RemoveAt(decoding, i), InHand, Live \ {decoding[i]})
      BY <3>3, OwnedSymmetric
    <3> QED BY <1>18, <2>1, <2>3, <3>1, <3>4
  <2> QED BY <1>20, <2>2, <2>3 DEF PostDecodeToken
<1>21. ASSUME EndPostprocess \/ Freeing \/ UNCHANGED vars
       PROVE  Owned(waiting', decoding', InHand', Live')
  <2>1. UNCHANGED <<waiting, decoding, status>>
    BY <1>21 DEF EndPostprocess, Freeing, FreeFinished, EndStep, vars
  <2>2. InHand' = InHand
    <3>1. CASE EndPostprocess
      BY <3>1 DEF EndPostprocess, InHand
    <3>2. CASE Freeing
      BY <3>2, <1>b DEF Freeing, FreeFinished, EndStep, Return, InHand
    <3>3. CASE UNCHANGED vars
      BY <3>3 DEF vars, InHand
    <3> QED BY <1>21, <3>1, <3>2, <3>3
  <2> QED BY <1>0, <2>1, <2>2, LiveSame
<1>22. ASSUME NothingRunnable PROVE FALSE
  BY <1>22 DEF NothingRunnable, Raise
<1>23. MayAbort \subseteq Reqs
  BY DEF SchedulerAssumption
<1> QED
  BY <1>1, <1>2, <1>3, <1>5, <1>6, <1>7, <1>9, <1>10, <1>11, <1>12, <1>13, <1>15,
     <1>16, <1>17, <1>19, <1>20, <1>21, <1>22, <1>23
  DEF Next, EngineStep, Clients, Prefilling, Decoding, Postprocessing

\* Three disjoint queues without duplicates, joined, have none either.
LEMMA OwnedIsOwnedOnce ==
  ASSUME TypeOK, QueuesOwn
  PROVE  RequestsOwnedOnce
<1> SUFFICES ASSUME pc # "raised"
             PROVE  /\ IsInjective(waiting \o decoding \o InHand)
                    /\ ToSet(waiting \o decoding \o InHand) = Live
  BY DEF RequestsOwnedOnce
<1>1. /\ Owned(waiting, decoding, InHand, Live)
      /\ waiting \in Seq(Reqs) /\ decoding \in Seq(Reqs) /\ InHand \in Seq(Reqs)
  <2>1. <<>> \in Seq(Reqs)
    OBVIOUS
  <2> QED BY <2>1 DEF QueuesOwn, TypeOK, InHand
<1> DEFINE q == waiting \o decoding
<1>2. /\ q \in Seq(Reqs) /\ ToSet(q) = ToSet(waiting) \union ToSet(decoding)
      /\ IsInjective(q)
  BY <1>1, ConcatOwnership DEF Owned
<1> HIDE DEF q
<1>3. /\ ToSet(q \o InHand) = ToSet(q) \union ToSet(InHand)
      /\ (IsInjective(q) /\ IsInjective(InHand) /\ ToSet(q) \cap ToSet(InHand) = {})
           => IsInjective(q \o InHand)
  BY <1>1, <1>2, ConcatOwnership
<1>4. IsInjective(q \o InHand) /\ ToSet(q \o InHand) = Live
  BY <1>1, <1>2, <1>3 DEF Owned
<1> QED
  BY <1>4 DEF q

\* The initial state and every step keep the inductive invariant.
LEMMA OwnershipInductive ==
  /\ Init => OwnershipInv
  /\ OwnershipInv /\ [Next]_vars => OwnershipInv'
<1>1. Init => OwnershipInv
  <2> SUFFICES ASSUME Init PROVE OwnershipInv
    OBVIOUS
  <2>1. TypeOK
    BY KvCacheAssumption, SchedulerAssumption, TypeInit
  <2>2. StepShape
    BY DEF Init, StepShape
  <2>3. Live = {} /\ waiting = <<>> /\ decoding = <<>> /\ InHand = <<>>
    BY DEF Init, Live, InHand
  <2>4. Owned(<<>>, <<>>, <<>>, {})
    BY EmptyOwnership DEF Owned
  <2> QED BY <2>1, <2>2, <2>3, <2>4 DEF OwnershipInv, QueuesOwn
<1>2. OwnershipInv /\ [Next]_vars => OwnershipInv'
  <2> SUFFICES ASSUME OwnershipInv, [Next]_vars PROVE OwnershipInv'
    OBVIOUS
  <2>1. TypeOK'
    BY KvCacheAssumption, SchedulerAssumption, TypeStep DEF OwnershipInv
  <2>2. StepShape'
    BY ShapeStep DEF OwnershipInv
  <2>3. QueuesOwn'
    BY KvCacheAssumption, SchedulerAssumption, QueuesStep
  <2> QED BY <2>1, <2>2, <2>3 DEF OwnershipInv
<1> QED
  BY <1>1, <1>2

\* Whatever the workload, the pool and the limits: in every intermediate state
\* of scheduling, eviction, put-back and completion each unfinished request
\* is in exactly one queue, or in the batch in hand, exactly once.
THEOREM OwnedOnce == Spec => []RequestsOwnedOnce
<1>1. OwnershipInv => RequestsOwnedOnce
  BY OwnedIsOwnedOnce DEF OwnershipInv
<1> QED
  BY <1>1, OwnershipInductive, PTL DEF Spec

-----------------------------------------------------------------------------
(* A replay is rebuilt alone.                                              *)

\* What the prefill scan keeps while it collects its batch: nobody decodes as
\* long as a replay waits, an ordinary prompt is collected only once no replay
\* waits, and a replay that is collected is alone.
ScanIsolates ==
  pc = "prefill" =>
    /\ ReplayWaiting => decoding = <<>>
    /\ \A i \in DOMAIN batch : ReplayWaiting => IsReplay(batch[i])
    /\ \A i \in DOMAIN batch : IsReplay(batch[i]) => Len(batch) = 1 /\ decoding = <<>>

IsolationInv == OwnershipInv /\ ScanIsolates /\ ReplayIsolated

\* A request that leaves the waiting queue or moves to its tail brings no replay.
LEMMA ReplayWaitingShrinks ==
  ASSUME TypeOK, UNCHANGED cursor, NEW i \in DOMAIN waiting,
         \/ waiting' = RemoveAt(waiting, i)
         \/ waiting' = Append(RemoveAt(waiting, i), waiting[i])
  PROVE  ReplayWaiting' => ReplayWaiting
<1>1. waiting \in Seq(Reqs)
  BY DEF TypeOK
<1>2. PICK r : r = RemoveAt(waiting, i)
  OBVIOUS
<1>3. /\ r \in Seq(Reqs) /\ Len(r) = Len(waiting) - 1
      /\ \A j \in 1..(Len(waiting) - 1) :
           r[j] = IF j < i THEN waiting[j] ELSE waiting[j + 1]
  BY <1>1, <1>2, RemoveAtElements
<1>4. \A j \in DOMAIN r : \E k \in DOMAIN waiting : r[j] = waiting[k]
  BY <1>1, <1>3
<1>5. waiting[i] \in Reqs
  BY <1>1
<1>6. \A j \in DOMAIN waiting' : \E k \in DOMAIN waiting : waiting'[j] = waiting[k]
  <2>1. CASE waiting' = r
    BY <1>4, <2>1
  <2>2. CASE waiting' = Append(r, waiting[i])
    BY <1>3, <1>4, <1>5, <2>2
  <2> QED BY <1>2, <2>1, <2>2
<1> QED
  BY <1>6 DEF ReplayWaiting, IsReplay

\* Every action keeps a replay alone in its prefill batch.
LEMMA IsolationStep ==
  ASSUME KvCacheAssumption, SchedulerAssumption, IsolationInv, [Next]_vars
  PROVE  ScanIsolates' /\ ReplayIsolated'
<1> USE DEF seqVars, queueVars, stepVars
<1> DEFINE Goal == ScanIsolates' /\ ReplayIsolated'
<1> SUFFICES Goal
  OBVIOUS
<1>0. /\ TypeOK /\ StepShape /\ ScanIsolates /\ ReplayIsolated
      /\ waiting \in Seq(Reqs) /\ decoding \in Seq(Reqs) /\ batch \in Seq(Reqs)
  BY DEF IsolationInv, OwnershipInv, TypeOK
<1>1. ASSUME pc' \notin {"prefill", "prepare"} PROVE Goal
  BY <1>1 DEF ScanIsolates, ReplayIsolated
<1>2. ASSUME UNCHANGED <<cursor, waiting, decoding, pc, batch, isPrefill>> PROVE Goal
  BY <1>0, <1>2 DEF ScanIsolates, ReplayIsolated, ReplayWaiting, IsReplay
<1>3. ASSUME NEW why, Raise(why) PROVE Goal
  BY <1>1, <1>3 DEF Raise
<1>4. ASSUME Return PROVE Goal
  BY <1>1, <1>4 DEF Return
<1>5. CASE Clients
  BY <1>0, <1>1, <1>3, <1>5 DEF Clients, AddRequest, AbortRequest
<1>6. ASSUME BeginSchedule PROVE Goal
  <2>1. batch' = <<>> /\ UNCHANGED <<cursor, waiting, decoding>> /\ pc' # "prepare"
    BY <1>0, <1>6 DEF BeginSchedule, StepShape
  <2>2. pc' = "prefill" => PrefillOpen
    BY <1>6 DEF BeginSchedule, PrefillModeOrder
  <2> QED BY <2>1, <2>2 DEF PrefillOpen, ScanIsolates, ReplayIsolated, ReplayWaiting, IsReplay
<1>7. ASSUME NEW i \in DOMAIN waiting, NEW F, pc = "prefill", Requeue(i, F) PROVE Goal
  <2>1. /\ UNCHANGED <<cursor, decoding, pc, batch>>
        /\ waiting' = Append(RemoveAt(waiting, i), waiting[i])
    BY <1>7 DEF Requeue
  <2>2. ReplayWaiting' => ReplayWaiting
    BY <1>0, <2>1, ReplayWaitingShrinks
  <2> QED BY <1>0, <1>7, <2>1, <2>2 DEF ScanIsolates, ReplayIsolated, IsReplay
<1>8. ASSUME NEW i \in DOMAIN waiting, PrefillScheduled(i) PROVE Goal
  <2>0. PICK s : s = waiting[i]
    OBVIOUS
  <2>1. /\ pc = "prefill" /\ MayPrefill(s) /\ \A j \in DOMAIN batch : ~IsReplay(batch[j])
        /\ batch' = Append(batch, s) /\ waiting' = RemoveAt(waiting, i)
        /\ UNCHANGED <<cursor, decoding, pc>>
    BY <1>8, <2>0 DEF PrefillScheduled, PrefillLoop, CanContinuePrefillBatch,
                      PrefillCandidate, FirstAt
  <2>2. ReplayWaiting' => ReplayWaiting
    BY <1>0, <2>1, ReplayWaitingShrinks
  <2>3. s \in Reqs /\ IsReplay(s)' = IsReplay(s)
    BY <1>0, <2>0, <2>1 DEF IsReplay
  <2>4. CASE IsReplay(s)
    <3>1. ReplayWaiting
      BY <2>0, <2>4 DEF ReplayWaiting
    <3>a. decoding = <<>> /\ DOMAIN batch = {}
      BY <1>0, <2>1, <3>1 DEF ScanIsolates
    <3>2. decoding = <<>> /\ batch = <<>>
      BY <1>0, <3>a
    <3>3. batch' = <<s>>
      BY <2>1, <2>3, <3>2
    <3>4. /\ DOMAIN batch' = {1} /\ Len(batch') = 1 /\ batch'[1] = s /\ cursor'[s] # NoReplay
          /\ decoding' = <<>>
      BY <2>1, <2>4, <3>2, <3>3 DEF IsReplay
    <3> QED BY <3>4 DEF ScanIsolates, ReplayIsolated, IsReplay
  <2>5. CASE ~IsReplay(s)
    <3>1. ~ReplayWaiting'
      BY <2>1, <2>2, <2>5 DEF MayPrefill
    <3>a. \A j \in DOMAIN batch' : batch'[j] = s \/ \E k \in DOMAIN batch : batch'[j] = batch[k]
      <4>1. batch' = Append(batch, s) /\ batch \in Seq(Reqs) /\ s \in Reqs
        BY <1>0, <2>1, <2>3
      <4>2. DOMAIN batch' = 1..(Len(batch) + 1) /\ DOMAIN batch = 1..Len(batch) /\ Len(batch) \in Nat
        BY <4>1
      <4>3. \A j \in 1..Len(batch) : batch'[j] = batch[j]
        BY <4>1
      <4>4. batch'[Len(batch) + 1] = s
        BY <4>1
      <4> QED BY <4>2, <4>3, <4>4
    <3>2. \A j \in DOMAIN batch' : cursor'[batch'[j]] = NoReplay
      BY <2>1, <2>5, <3>a DEF IsReplay
    <3> QED BY <3>1, <3>2 DEF ScanIsolates, ReplayIsolated, IsReplay
  <2> QED BY <2>4, <2>5
<1>9. ASSUME NEW i \in DOMAIN waiting, PrefillBlocked(i) \/ PrefillDeferred(i) PROVE Goal
  BY <1>3, <1>7, <1>9 DEF PrefillBlocked, PrefillDeferred, PrefillLoop
<1>10. ASSUME EndPrefillScan PROVE Goal
  BY <1>0, <1>10 DEF EndPrefillScan, ScanIsolates, ReplayIsolated, ReplayWaiting, IsReplay
<1>11. CASE Decoding
  <2>1. ASSUME NEW v, NEW rest, PreemptDecodeVictim(v, rest) PROVE Goal
    BY <1>3, <1>4, <2>1 DEF PreemptDecodeVictim
  <2>2. ASSUME NEW i, DecodeScheduled(i) \/ DecodeBlocked(i) PROVE Goal
    BY <1>1, <2>2 DEF DecodeScheduled, DecodeBlocked, DecodeLoop
  <2>3. ASSUME EndDecodeScan PROVE Goal
    BY <1>0, <2>3 DEF EndDecodeScan, DecodeScanDone, StepShape, ScanIsolates, ReplayIsolated
  <2> HIDE DEF Goal
  <2> QED BY <1>3, <1>11, <2>1, <2>2, <2>3
          DEF Decoding, PreemptCandidate, PreemptBlocked, NothingRunnable
<1>12. CASE Running
  BY <1>1, <1>2, <1>3, <1>12 DEF Running, PrepareChunk, PrepareDecode, EndPrepare
<1>13. CASE Postprocessing
  BY <1>1, <1>13 DEF Postprocessing, Postprocess, PostPrefillPartial, PostPrefillReplay,
              PostDecodeReplay, PostPrefillToken, PostDecodeToken, EndPostprocess
<1>14. CASE Freeing
  BY <1>1, <1>3, <1>4, <1>14 DEF Freeing, FreeFinished, EndStep
<1>15. CASE UNCHANGED vars
  BY <1>2, <1>15 DEF vars
<1> HIDE DEF Goal
<1> QED
  BY <1>5, <1>6, <1>8, <1>9, <1>10, <1>11, <1>12, <1>13, <1>14, <1>15
  DEF Next, EngineStep, Prefilling
\* The prompt of a preempted request is rebuilt alone: no other prompt shares
\* its prefill batch, and everyone who was decoding has drained.
THEOREM ReplaysRunAlone == Spec => []ReplayIsolated
<1> USE KvCacheAssumption, SchedulerAssumption
<1>1. Init => IsolationInv
  BY OwnershipInductive DEF Init, IsolationInv, ScanIsolates, ReplayIsolated
<1>2. IsolationInv /\ [Next]_vars => IsolationInv'
  BY OwnershipInductive, IsolationStep DEF IsolationInv
<1>3. IsolationInv => ReplayIsolated
  BY DEF IsolationInv
<1> QED
  BY <1>1, <1>2, <1>3, PTL DEF Spec

-----------------------------------------------------------------------------
(* A committed batch fits the slot-granular pool.                          *)

\* What a prefill batch has been promised.
PromisedTo(q) == Cardinality(Cells(ToSet(q), chunk))

\* What the scan has promised to its batch, and what it still has to give, is
\* free; so is what the batch has yet to allocate once it is committed.
SlotsPromised ==
  /\ pc = "prefill" => /\ loc.stepFree >= 0
                       /\ PromisedTo(batch) + loc.stepFree <= freePages
                       /\ loc.decodeFree \in 0..freePages
  /\ pc = "prepare" /\ isPrefill => /\ PromisedTo(todo) <= freePages
                                    /\ IsInjective(todo)
  /\ pc = "decode" => /\ loc.decodeFree >= 0
                      /\ Cardinality(ToSet(batch)) + loc.decodeFree <= freePages
  /\ pc = "prepare" /\ ~isPrefill /\ todo # <<>> => Cardinality(ToSet(batch)) <= freePages

SlotInv == OwnershipInv /\ PagesConserved /\ SlotsPromised /\ CommittedBatchFits

\* With one token to a page no page is partly filled, and every hook of the
\* scheduler counts tokens.
LEMMA SlotHooks ==
  ASSUME KvCacheAssumption, SchedulerAssumption, PageSize = 1, TypeOK
  PROVE  /\ \A n \in Int : PagesOf(n) = n
         /\ NumFreeSlots = freePages
         /\ PrefillStepFreeSlots = freePages
         /\ DecodeStepFreeSlots = freePages
         /\ \A s \in Reqs :
              /\ PageOffset(s) = 0 /\ PartialSlots(s) = 0
              /\ DecodeStepReservationCost(s) = 1
              /\ \A n \in Nat : /\ RequiredNewPages(s, n) = n
                                /\ PrefillStepReservationCost(s, n) = n
<1>1. \A n \in Int : PagesOf(n) = n
  BY DEF PagesOf
<1>2. freePages \in Int /\ rows \subseteq Reqs /\ kvLen \in [Reqs -> Nat]
  BY DEF TypeOK, KvTypeOK
<1>3. NumFreeSlots = freePages
  BY <1>2 DEF NumFreeSlots
<1>4. \A s \in Reqs : PageOffset(s) = 0 /\ PartialSlots(s) = 0
  BY <1>2 DEF PageOffset, PartialSlots
<1>5. PrefillStepFreeSlots = freePages
  <2>1. \A s \in rows : {s} \X (1..PartialSlots(s)) = {}
    BY <1>2, <1>4
  <2>2. UNION {{s} \X (1..PartialSlots(s)) : s \in rows} = {}
    BY <2>1
  <2>3. SumOver(rows, PartialSlots) = 0
    BY <2>2, FS_EmptySet DEF SumOver
  <2> QED BY <1>2, <1>3, <2>3 DEF PrefillStepFreeSlots
<1>6. DecodeStepFreeSlots = freePages
  <2>1. {s \in rows : PageOffset(s) # 0} = {}
    BY <1>2, <1>4
  <2>2. Cardinality({s \in rows : PageOffset(s) # 0}) = 0
    BY <2>1, FS_EmptySet
  <2> QED BY <1>2, <1>3, <2>2 DEF DecodeStepFreeSlots
<1>7. ASSUME NEW s \in Reqs, NEW n \in Nat
      PROVE  RequiredNewPages(s, n) = n /\ PrefillStepReservationCost(s, n) = n
  <2>1. kvLen[s] \in Nat /\ kvLen[s] + n \in Int
    BY <1>2
  <2>2. RequiredNewPages(s, n) = n
    BY <1>1, <2>1 DEF RequiredNewPages
  <2>3. PagesOf(n - 0) = n /\ PartialSlots(s) = 0
    BY <1>1, <1>4
  <2>4. PrefillStepReservationCost(s, n) = n
    BY <2>3 DEF PrefillStepReservationCost, Least, CeilToPageSlots
  <2> QED BY <2>2, <2>4
<1>8. \A s \in Reqs : DecodeStepReservationCost(s) = 1
  BY <1>7 DEF DecodeStepReservationCost
<1> QED
  BY <1>1, <1>3, <1>4, <1>5, <1>6, <1>7, <1>8

\* The promise to a queue of requests: a natural number, 0 for nobody, and the
\* chunk of a request more when that request joins.
LEMMA PromiseFacts ==
  ASSUME KvCacheAssumption, TypeOK
  PROVE  /\ PromisedTo(<<>>) = 0
         /\ \A S \in SUBSET Reqs : /\ IsFiniteSet(S)
                                   /\ Cardinality(S) \in Nat
                                   /\ Cardinality(Cells(S, chunk)) \in Nat
                                   /\ \A s \in S : Cardinality(Cells(S, chunk))
                                        = Cardinality(Cells(S \ {s}, chunk)) + chunk[s]
<1>1. IsFiniteSet(Reqs) /\ \A s \in Reqs : chunk[s] \in Nat /\ chunk[s] \in Int
  BY DEF TypeOK, KvCacheAssumption
<1>2. ASSUME NEW S \in SUBSET Reqs
      PROVE  /\ IsFiniteSet(S)
             /\ Cardinality(S) \in Nat
             /\ Cardinality(Cells(S, chunk)) \in Nat
             /\ \A s \in S : Cardinality(Cells(S, chunk))
                               = Cardinality(Cells(S \ {s}, chunk)) + chunk[s]
  <2>1. IsFiniteSet(S) /\ Cardinality(S) \in Nat
    BY <1>1, FS_Subset, FS_CardinalityType
  <2>2. Cardinality(Cells(S, chunk)) \in Nat
    BY <1>1, <2>1, CellsFinite
  <2>3. ASSUME NEW s \in S
        PROVE  Cardinality(Cells(S, chunk)) = Cardinality(Cells(S \ {s}, chunk)) + chunk[s]
    BY <1>1, <2>1, CellsSplit
  <2> QED BY <2>1, <2>2, <2>3
<1>3. PromisedTo(<<>>) = 0
  <2>1. Cells(ToSet(<<>>), chunk) = {}
    BY EmptyOwnership DEF Cells
  <2> QED BY <2>1, FS_EmptySet DEF PromisedTo
<1> QED
  BY <1>2, <1>3

\* Every step keeps the promise, and no batch is refused for want of slots.
LEMMA SlotsStep ==
  ASSUME KvCacheAssumption, SchedulerAssumption, PageSize = 1, SlotInv, [Next]_vars
  PROVE  SlotsPromised' /\ CommittedBatchFits'
<1> USE DEF seqVars, queueVars, stepVars, kvVars
<1> DEFINE Goal == SlotsPromised' /\ CommittedBatchFits'
<1> SUFFICES Goal
  OBVIOUS
<1>0. /\ TypeOK /\ StepShape /\ SlotsPromised /\ CommittedBatchFits
      /\ waiting \in Seq(Reqs) /\ decoding \in Seq(Reqs) /\ batch \in Seq(Reqs)
      /\ todo \in Seq(Reqs) /\ ToSet(batch) \in SUBSET Reqs
      /\ chunk \in [Reqs -> Nat] /\ freePages \in Nat
  <2>1. freePages \in Nat
    BY ConservationLaw DEF SlotInv, OwnershipInv, TypeOK, KvTypeOK, Conserved
  <2>2. TypeOK /\ StepShape /\ SlotsPromised /\ CommittedBatchFits
    BY DEF SlotInv, OwnershipInv
  <2> QED BY <2>1, <2>2 DEF TypeOK, ToSet
<1>a. pc # "raised" => Owned(waiting, decoding, InHand, Live)
  BY DEF SlotInv, OwnershipInv, QueuesOwn
<1>1. ASSUME pc' \notin {"prefill", "prepare", "decode"}, raised' # "out_of_pages" PROVE Goal
  BY <1>1 DEF SlotsPromised, CommittedBatchFits
<1>2. ASSUME UNCHANGED <<chunk, freePages, pc, batch, isPrefill, todo, raised>>,
             loc' = loc \/ (loc'.stepFree = loc.stepFree /\ loc'.decodeFree = loc.decodeFree)
      PROVE  Goal
  BY <1>0, <1>2 DEF SlotsPromised, CommittedBatchFits, PromisedTo, Cells
<1>3. ASSUME NEW why, why # "out_of_pages", Raise(why) PROVE Goal
  BY <1>1, <1>3 DEF Raise
<1>4. ASSUME Return PROVE Goal
  BY <1>0, <1>1, <1>4 DEF Return, CommittedBatchFits
<1>5. ASSUME Clients PROVE Goal
  <2>1. pc = "idle" /\ (UNCHANGED stepVars \/ Raise("no_row"))
    BY <1>5 DEF Clients, AddRequest, AbortRequest
  <2>2. CASE UNCHANGED stepVars
    BY <1>0, <1>1, <2>1, <2>2 DEF CommittedBatchFits
  <2>3. CASE Raise("no_row")
    BY <1>3, <2>3
  <2> QED BY <2>1, <2>2, <2>3
<1>6. ASSUME BeginSchedule PROVE Goal
  <2>1. /\ pc' \in {"prefill", "decode"} /\ batch' = <<>> /\ UNCHANGED <<chunk, freePages, raised>>
        /\ loc'.stepFree = PrefillStepFreeSlots /\ loc'.decodeFree = DecodeStepFreeSlots
    <3>1. /\ pc' \in {"prefill", "decode"} /\ batch' = <<>>
          /\ UNCHANGED <<chunk, freePages, raised>>
      BY <1>0, <1>6 DEF BeginSchedule, StepShape
    <3>2. ASSUME NEW l, loc' = l \/ loc' = DecodeLocals(l),
                 l = [modes |-> PrefillModeOrder,
                      scan |-> Len(waiting),
                      stepFree |-> PrefillStepFreeSlots,
                      slots |-> AtLeast0(NumFreeSlots - ReservedPrefillSlots),
                      residents |-> AtLeast0(NumRows - Cardinality(resident)),
                      tokens |-> 0,
                      decodeFree |-> DecodeStepFreeSlots,
                      longTurn |-> FALSE,
                      failures |-> {}]
          PROVE  loc'.stepFree = PrefillStepFreeSlots /\ loc'.decodeFree = DecodeStepFreeSlots
      <4>1. l.stepFree = PrefillStepFreeSlots /\ l.decodeFree = DecodeStepFreeSlots
        BY <3>2
      <4>2. DecodeLocals(l).stepFree = l.stepFree /\ DecodeLocals(l).decodeFree = l.decodeFree
        <5> DEFINE turn == \A i \in DOMAIN decoding : IsLongText(decoding[i])
        <5>1. DecodeLocals(l) = [l EXCEPT !.scan = Len(decoding), !.longTurn = turn]
          BY DEF DecodeLocals
        <5> HIDE DEF turn
        <5> QED BY <3>2, <5>1
      <4> QED BY <3>2, <4>1, <4>2
    <3> QED BY <1>6, <3>1, <3>2 DEF BeginSchedule
  <2>2. loc'.stepFree = freePages /\ loc'.decodeFree = freePages
    BY <1>0, <2>1, SlotHooks
  <2>3. PromisedTo(batch)' = 0 /\ Cardinality(ToSet(batch')) = 0
    <3>1. ToSet(batch') = {} /\ Cells(ToSet(batch'), chunk') = {}
      BY <2>1, EmptyOwnership DEF Cells
    <3>2. PromisedTo(batch)' = Cardinality(Cells(ToSet(batch'), chunk'))
      BY DEF PromisedTo, Cells
    <3> QED BY <3>1, <3>2, FS_EmptySet
  <2> QED BY <1>0, <2>1, <2>2, <2>3 DEF SlotsPromised, CommittedBatchFits
<1>7. ASSUME NEW i \in DOMAIN waiting, NEW F, Requeue(i, F) PROVE Goal
  <2>1. loc'.stepFree = loc.stepFree /\ loc'.decodeFree = loc.decodeFree
    BY <1>7, LocalsFields, <1>0 DEF Requeue, Locals
  <2> QED BY <1>2, <1>7, <2>1 DEF Requeue
<1>8. ASSUME NEW i \in DOMAIN waiting, PrefillBlocked(i) \/ PrefillDeferred(i) PROVE Goal
  <2>1. Raise("not_waiting") \/ \E F : Requeue(i, F)
    BY <1>8 DEF PrefillBlocked, PrefillDeferred
  <2> QED BY <1>3, <1>7, <2>1
<1>9. ASSUME NEW i \in DOMAIN waiting, PrefillScheduled(i) PROVE Goal
  <2>0. PICK s : s = waiting[i]
    OBVIOUS
  <2>1. PICK n : n = PrefillStepTokens(s)
    OBVIOUS
  <2>2. s \in Reqs /\ s \in ToSet(waiting)
    BY <1>0, <2>0 DEF ToSet
  <2>3. /\ pc = "prefill" /\ n > 0 /\ batch' = Append(batch, s)
        /\ chunk' = [chunk EXCEPT ![s] = n]
        /\ UNCHANGED <<freePages, pc, isPrefill, raised>>
    BY <1>9, <2>0, <2>1 DEF PrefillScheduled, PrefillLoop
  <2>4. n \in Nat /\ n <= loc.stepFree /\ loc.stepFree \in Int /\ loc.decodeFree \in Int
    <3>1. /\ n \in Int /\ CandidateStepFree(s) \in Int /\ PrefillStepFreeSlotsFor(s) \in Int
          /\ RemainingPrefillTokens(s) \in Int /\ loc.stepFree \in Int /\ loc.tokens \in Nat
          /\ loc.decodeFree \in Int
      BY <1>0, <2>1, <2>2, PrefillTypes, LocalsFields, HooksType DEF TypeOK
    <3>2. CandidateStepFree(s) <= loc.stepFree
      BY <3>1 DEF CandidateStepFree, Least
    <3>3. n <= CandidateStepFree(s)
      BY <2>1, <2>3, <3>1 DEF PrefillStepTokens, Least, SchedulerAssumption
    <3> QED BY <2>3, <3>1, <3>2, <3>3
  <2>5. /\ loc'.stepFree = AtLeast0(loc.stepFree - PrefillStepReservationCost(s, n))
        /\ loc'.decodeFree = loc.decodeFree
    BY <1>0, <1>9, <2>0, <2>1, LocalsFields DEF PrefillScheduled, Locals
  <2>6. loc'.stepFree = loc.stepFree - n
    <3>1. PrefillStepReservationCost(s, n) = n
      BY <1>0, <2>2, <2>4, SlotHooks
    <3> QED BY <2>4, <2>5, <3>1 DEF AtLeast0
  <2>7. /\ s \notin ToSet(batch) /\ ToSet(batch') = ToSet(batch) \union {s}
        /\ ToSet(batch') \in SUBSET Reqs
    <3>1. InHand = batch
      BY <2>3 DEF InHand
    <3> QED BY <1>0, <1>a, <2>2, <2>3, <3>1, AppendOwnership DEF Owned
  <2>8. PromisedTo(batch)' = PromisedTo(batch) + n
    <3> DEFINE S == ToSet(batch')
    <3>1. S \ {s} = ToSet(batch) /\ s \in S
      BY <2>7
    <3>2. chunk' \in [Reqs -> Nat] /\ chunk'[s] = n /\ \A t \in ToSet(batch) : chunk'[t] = chunk[t]
      BY <1>0, <2>2, <2>3, <2>4, <2>7
    <3>3. IsFiniteSet(S) /\ \A t \in S : chunk'[t] \in Int
      <4>1. IsFiniteSet(S)
        BY <1>0, <2>7, PromiseFacts
      <4> QED BY <2>7, <3>2, <4>1
    <3> HIDE DEF S
    <3>4. Cardinality(Cells(S, chunk')) = Cardinality(Cells(S \ {s}, chunk')) + chunk'[s]
      BY <2>4, <3>1, <3>2, <3>3, CellsSplit
    <3>5. Cells(ToSet(batch), chunk') = Cells(ToSet(batch), chunk)
      BY <3>2 DEF Cells
    <3> QED BY <3>1, <3>2, <3>4, <3>5 DEF PromisedTo, S, Cells
  <2>9. PromisedTo(batch) \in Nat
    BY <1>0, PromiseFacts DEF PromisedTo
  <2>10. loc.stepFree >= 0 /\ PromisedTo(batch) + loc.stepFree <= freePages
         /\ loc.decodeFree \in 0..freePages
    BY <1>0, <2>3 DEF SlotsPromised
  <2>11. /\ loc'.stepFree >= 0 /\ PromisedTo(batch)' + loc'.stepFree <= freePages
    <3>1. PICK a : a = PromisedTo(batch)
      OBVIOUS
    <3>2. PICK b : b = loc.stepFree
      OBVIOUS
    <3>3. a \in Nat /\ b \in Int /\ n \in Nat /\ n <= b /\ b >= 0 /\ a + b <= freePages
      BY <2>4, <2>9, <2>10, <3>1, <3>2
    <3>4. b - n >= 0 /\ (a + n) + (b - n) <= freePages
      BY <1>0, <3>3
    <3> QED BY <2>6, <2>8, <3>1, <3>2, <3>4
  <2> QED BY <1>0, <2>3, <2>5, <2>10, <2>11 DEF SlotsPromised, CommittedBatchFits
<1>10. ASSUME EndPrefillScan PROVE Goal
  <2>0. /\ pc = "prefill" /\ UNCHANGED <<chunk, freePages, batch, raised>>
        /\ loc.stepFree >= 0 /\ PromisedTo(batch) + loc.stepFree <= freePages
        /\ loc.decodeFree \in 0..freePages
    BY <1>0, <1>10 DEF EndPrefillScan, SlotsPromised
  <2>1. PromisedTo(batch) \in Nat /\ loc.stepFree \in Int /\ loc.decodeFree \in Int
    BY <1>0, PromiseFacts, LocalsFields DEF PromisedTo
  <2>2. CASE batch # <<>>
    <3>1. pc' = "prepare" /\ isPrefill' /\ todo' = batch
      BY <1>10, <2>2 DEF EndPrefillScan
    <3>2. PromisedTo(todo)' = PromisedTo(batch) /\ PromisedTo(batch) <= freePages
      BY <1>0, <2>0, <2>1, <3>1 DEF PromisedTo, Cells
    <3>3. IsInjective(batch)
      BY <1>a, <2>0 DEF Owned, InHand
    <3> QED BY <1>0, <2>0, <3>1, <3>2, <3>3 DEF SlotsPromised, CommittedBatchFits
  <2>3. CASE batch = <<>>
    <3>1. /\ pc' \in {"prefill", "decode"}
          /\ loc'.stepFree = loc.stepFree /\ loc'.decodeFree = loc.decodeFree
      BY <1>0, <1>10, <2>0, <2>3, LocalsFields DEF EndPrefillScan, DecodeLocals, Locals
    <3>2. PromisedTo(batch)' = PromisedTo(batch) /\ Cardinality(ToSet(batch')) = 0
      BY <2>0, <2>3, EmptyOwnership, FS_EmptySet DEF PromisedTo, Cells
    <3> QED BY <1>0, <2>0, <2>1, <3>1, <3>2 DEF SlotsPromised, CommittedBatchFits
  <2> QED BY <2>2, <2>3
<1>11. ASSUME NEW i \in DOMAIN decoding, DecodeScheduled(i) PROVE Goal
  <2>0. PICK s : s = decoding[i]
    OBVIOUS
  <2>1. s \in Reqs /\ s \in ToSet(decoding)
    BY <1>0, <2>0 DEF ToSet
  <2>2. /\ pc = "decode" /\ batch' = Append(batch, s) /\ DecodeFits(s)
        /\ loc' = [loc EXCEPT !.scan = @ - 1, !.decodeFree = @ - DecodeStepReservationCost(s)]
        /\ UNCHANGED <<freePages, pc, isPrefill, raised>>
    BY <1>11, <2>0 DEF DecodeScheduled, DecodeLoop
  <2>3. DecodeStepReservationCost(s) = 1 /\ loc.decodeFree \in Int
    BY <1>0, <2>1, SlotHooks, LocalsFields
  <2>4. loc'.decodeFree = loc.decodeFree - 1
    BY <1>0, <2>2, <2>3, LocalsFields DEF Locals
  <2>5. loc.decodeFree >= 1
    <3>1. DecodeStepFreeSlotsFor(s) \in Int
      BY <1>0, <2>1, HooksType DEF TypeOK
    <3> QED BY <2>2, <2>3, <3>1 DEF DecodeFits, Least
  <2>6. s \notin ToSet(batch) /\ ToSet(batch') = ToSet(batch) \union {s}
    <3>1. InHand = batch
      BY <2>2 DEF InHand
    <3>2. s \notin ToSet(batch)
      BY <1>a, <2>1, <2>2, <3>1 DEF Owned
    <3>3. ToSet(Append(batch, s)) = ToSet(batch) \union {s}
      BY <1>0, <2>1, AppendOwnership
    <3> QED BY <2>2, <3>2, <3>3
  <2>7. /\ Cardinality(ToSet(batch)) \in Nat
        /\ Cardinality(ToSet(batch')) = Cardinality(ToSet(batch)) + 1
    BY <1>0, <2>6, PromiseFacts, FS_AddElement
  <2>8. Cardinality(ToSet(batch)) + loc.decodeFree <= freePages
    BY <1>0, <2>2 DEF SlotsPromised
  <2>9. loc'.decodeFree >= 0 /\ Cardinality(ToSet(batch')) + loc'.decodeFree <= freePages
    <3>1. PICK a : a = Cardinality(ToSet(batch))
      OBVIOUS
    <3>2. PICK b : b = loc.decodeFree
      OBVIOUS
    <3>3. a \in Nat /\ b \in Int /\ b >= 1 /\ a + b <= freePages
      BY <2>3, <2>5, <2>7, <2>8, <3>1, <3>2
    <3>4. b - 1 >= 0 /\ (a + 1) + (b - 1) <= freePages
      BY <1>0, <3>3
    <3> QED BY <2>4, <2>7, <3>1, <3>2, <3>4
  <2> QED BY <1>0, <2>2, <2>9 DEF SlotsPromised, CommittedBatchFits
<1>12. ASSUME NEW i \in DOMAIN decoding, DecodeBlocked(i) PROVE Goal
  <2>1. loc'.stepFree = loc.stepFree /\ loc'.decodeFree = loc.decodeFree
    BY <1>0, <1>12, LocalsFields DEF DecodeBlocked, Locals
  <2> QED BY <1>2, <1>12, <2>1 DEF DecodeBlocked
<1>13. ASSUME NEW v, NEW rest, PreemptDecodeVictim(v, rest) PROVE Goal
  <2> HIDE DEF Goal
  <2> QED BY <1>3, <1>4, <1>13 DEF PreemptDecodeVictim
<1>14. ASSUME NothingRunnable PROVE Goal
  <2> HIDE DEF Goal
  <2> QED BY <1>3, <1>14 DEF NothingRunnable
<1>15. ASSUME EndDecodeScan PROVE Goal
  <2>1. /\ pc = "decode" /\ ~isPrefill /\ pc' = "prepare"
        /\ UNCHANGED <<batch, freePages, isPrefill, raised>>
    BY <1>0, <1>15 DEF EndDecodeScan, DecodeScanDone, StepShape
  <2>2. /\ Cardinality(ToSet(batch)) \in Nat /\ loc.decodeFree \in Int /\ loc.decodeFree >= 0
        /\ Cardinality(ToSet(batch)) + loc.decodeFree <= freePages
    BY <1>0, <2>1, PromiseFacts, LocalsFields DEF SlotsPromised
  <2>3. Cardinality(ToSet(batch)) <= freePages
    BY <1>0, <2>2
  <2> QED BY <1>0, <2>1, <2>3 DEF SlotsPromised, CommittedBatchFits
<1>16. ASSUME PrepareChunk PROVE Goal
  <2>0. PICK s : s = Head(todo)
    OBVIOUS
  <2>1. pc = "prepare" /\ isPrefill /\ todo # <<>> /\ UNCHANGED chunk
    BY <1>16 DEF PrepareChunk
  <2>3. s \in Reqs /\ chunk[s] \in Nat /\ Tail(todo) \in Seq(Reqs)
        /\ ToSet(todo) \in SUBSET Reqs /\ s \in ToSet(todo)
        /\ ToSet(Tail(todo)) = ToSet(todo) \ {s} /\ IsInjective(Tail(todo))
    <3>1. IsInjective(todo)
      BY <1>0, <2>1 DEF SlotsPromised
    <3>2. /\ Head(todo) \in Reqs /\ Tail(todo) \in Seq(Reqs) /\ IsInjective(Tail(todo))
          /\ ToSet(todo) = {Head(todo)} \union ToSet(Tail(todo)) /\ Head(todo) \notin ToSet(Tail(todo))
      BY <1>0, <2>1, <3>1, TailOwnership
    <3>3. ToSet(todo) \in SUBSET Reqs
      BY <1>0 DEF ToSet
    <3> QED BY <1>0, <2>0, <3>2, <3>3
  <2>4. PromisedTo(todo) <= freePages /\ PromisedTo(todo) \in Nat
    BY <1>0, <2>1, <2>3, PromiseFacts DEF SlotsPromised, PromisedTo
  <2>5. PromisedTo(todo) = Cardinality(Cells(ToSet(todo) \ {s}, chunk)) + chunk[s]
        /\ Cardinality(Cells(ToSet(todo) \ {s}, chunk)) \in Nat
    BY <1>0, <2>3, PromiseFacts DEF PromisedTo
  <2>6. RequiredNewPages(s, chunk[s]) = chunk[s]
    BY <1>0, <2>3, SlotHooks
  <2>7. HasPagesFor(s, chunk[s])
    BY <1>0, <2>3, <2>4, <2>5, <2>6 DEF HasPagesFor
  <2>8. \/ Raise("row_mismatch") \/ Raise("no_free_row")
        \/ /\ Allocate(s, chunk[s]) /\ todo' = Tail(todo)
           /\ UNCHANGED <<pc, batch, isPrefill, raised>>
    BY <1>16, <2>0, <2>7 DEF PrepareChunk
  <2>9. ASSUME Allocate(s, chunk[s]), todo' = Tail(todo), UNCHANGED <<pc, batch, isPrefill, raised>>
        PROVE  Goal
    <3>1. freePages' = freePages - chunk[s]
      BY <2>6, <2>9 DEF Allocate
    <3>2. PromisedTo(todo)' = Cardinality(Cells(ToSet(todo) \ {s}, chunk))
      BY <2>1, <2>3, <2>9 DEF PromisedTo, Cells
    <3>3. PromisedTo(todo)' <= freePages'
      BY <1>0, <2>3, <2>4, <2>5, <3>1, <3>2
    <3> QED BY <1>0, <2>1, <2>3, <2>9, <3>3 DEF SlotsPromised, CommittedBatchFits
  <2> QED BY <1>3, <2>8, <2>9
<1>17. ASSUME PrepareDecode PROVE Goal
  <2>1. pc = "prepare" /\ ~isPrefill /\ todo # <<>>
    BY <1>17 DEF PrepareDecode
  <2>2. {s \in ToSet(batch) : PageOffset(s) = 0} = ToSet(batch)
    BY <1>0, SlotHooks
  <2>3. NeededPages(ToSet(batch)) <= freePages /\ NeededPages(ToSet(batch)) \in Nat
    BY <1>0, <2>1, <2>2, PromiseFacts DEF NeededPages, SlotsPromised
  <2>4. ~(NeededPages(ToSet(batch)) > freePages)
    BY <1>0, <2>3
  <2>5. \/ Raise("no_decode_input") \/ Raise("no_free_row")
        \/ todo' = <<>> /\ UNCHANGED <<pc, isPrefill, raised>>
    BY <1>17, <2>4 DEF PrepareDecode
  <2>6. ASSUME todo' = <<>>, UNCHANGED <<pc, isPrefill, raised>> PROVE Goal
    BY <1>0, <2>1, <2>6 DEF SlotsPromised, CommittedBatchFits
  <2> QED BY <1>3, <2>5, <2>6
<1>18. ASSUME EndPrepare \/ EndPostprocess PROVE Goal
  BY <1>0, <1>1, <1>18 DEF EndPrepare, EndPostprocess, CommittedBatchFits
<1>19. ASSUME NEW s, Postprocess(s) PROVE Goal
  BY <1>0, <1>1, <1>19 DEF Postprocess, CommittedBatchFits
<1>20. ASSUME Freeing PROVE Goal
  <2>1. Return \/ Raise("no_row") \/ (UNCHANGED <<pc, raised>> /\ pc = "free")
    BY <1>20 DEF Freeing, FreeFinished, EndStep
  <2> QED BY <1>0, <1>1, <1>3, <1>4, <2>1 DEF CommittedBatchFits
<1>21. ASSUME UNCHANGED vars PROVE Goal
  BY <1>2, <1>21 DEF vars
<1> HIDE DEF Goal
<1> QED
  BY <1>5, <1>6, <1>8, <1>9, <1>10, <1>11, <1>12, <1>13, <1>14, <1>15, <1>16, <1>17,
     <1>18, <1>19, <1>20, <1>21
  DEF Next, EngineStep, Prefilling, Decoding, Running, Postprocessing, PreemptCandidate,
      PreemptBlocked, PostPrefillPartial, PostPrefillReplay, PostPrefillToken,
      PostDecodeReplay, PostDecodeToken

\* With the slot-granular manager (one token to a page) a batch the scheduler
\* commits always fits the free slots: the reservations of one scan never add
\* up to more than it found, and the assertion of _allocate cannot fail.  With
\* larger pages the same reservations overcommit (see MCSchedulerPagedDecode).
THEOREM SlotBatchesFit == PageSize = 1 => (Spec => []CommittedBatchFits)
<1> USE KvCacheAssumption, SchedulerAssumption
<1> SUFFICES ASSUME PageSize = 1 PROVE Spec => []CommittedBatchFits
  OBVIOUS
<1>1. Init => SlotInv
  BY OwnershipInductive, PoolInductive DEF Init, SlotInv, SlotsPromised, CommittedBatchFits
<1>2. SlotInv /\ [Next]_vars => SlotInv'
  <2> SUFFICES ASSUME SlotInv, [Next]_vars PROVE SlotInv'
    OBVIOUS
  <2>1. OwnershipInv' /\ TypeOK
    BY OwnershipInductive DEF SlotInv, OwnershipInv
  <2>2. PagesConserved'
    BY <2>1, PoolInductive DEF SlotInv
  <2> QED BY <2>1, <2>2, SlotsStep DEF SlotInv
<1>3. SlotInv => CommittedBatchFits
  BY DEF SlotInv
<1> QED
  BY <1>1, <1>2, <1>3, PTL DEF Spec

-----------------------------------------------------------------------------
(* The tokens a client sees.                                               *)

Prefilled(s) == prefilled[s] >= PromptLen[s]

\* Everyone who decodes has its prompt prefilled, and a decode batch that runs
\* is part of the decode queue.
DecodeShape ==
  pc # "raised" =>
    /\ \A s \in ToSet(decoding) : Prefilled(s)
    /\ pc = "decode" => \A s \in ToSet(batch) : Prefilled(s)
    /\ pc = "prepare" /\ ~isPrefill =>
         ToSet(batch) \subseteq ToSet(decoding) /\ IsInjective(batch)
    /\ pc = "postprocess" /\ ~isPrefill =>
         ToSet(todo) \subseteq ToSet(decoding) /\ IsInjective(todo)

\* A request that is not finished has tokens left to generate.
BudgetOpen ==
  \A s \in Reqs : /\ status[s] = "new" => completion[s] = 0
                  /\ s \in Live => completion[s] < MaxTokens[s]

StreamInv == OwnershipInv /\ DecodeShape /\ PublishedOnce /\ BudgetOpen

-----------------------------------------------------------------------------
\* Every action keeps the shape of decoding.
LEMMA DecodeShapeStep ==
  ASSUME KvCacheAssumption, SchedulerAssumption, OwnershipInv, DecodeShape, [Next]_vars
  PROVE  DecodeShape'
<1> USE DEF seqVars, queueVars, stepVars, kvVars
<1>0. CASE pc = "raised"
  BY <1>0 DEF DecodeShape, Next, EngineStep, Clients, BeginSchedule, Prefilling,
     Decoding, Running, Postprocessing, Freeing, AddRequest, AbortRequest,
     PrefillBlocked, PrefillDeferred, PrefillScheduled, EndPrefillScan, PrefillLoop,
     DecodeScheduled, DecodeBlocked, PreemptCandidate, PreemptBlocked, NothingRunnable,
     EndDecodeScan, DecodeLoop, DecodeScanDone, PrepareChunk, PrepareDecode, EndPrepare,
     PostPrefillPartial, PostPrefillReplay, PostDecodeReplay, PostPrefillToken,
     PostDecodeToken, Postprocess, EndPostprocess, FreeFinished, EndStep, vars, stepVars
<1> SUFFICES ASSUME pc # "raised" PROVE DecodeShape'
  BY <1>0
<1>a. /\ TypeOK /\ StepShape /\ Owned(waiting, decoding, InHand, Live)
      /\ waiting \in Seq(Reqs) /\ decoding \in Seq(Reqs) /\ IsInjective(decoding)
      /\ batch \in Seq(Reqs) /\ todo \in Seq(Reqs)
      /\ prefilled \in [Reqs -> Nat] /\ chunk \in [Reqs -> Nat]
      /\ PromptLen \in [Reqs -> Nat \ {0}]
  BY DEF OwnershipInv, QueuesOwn, TypeOK, Owned, SchedulerAssumption
<1>b. ASSUME NEW why, Raise(why) PROVE DecodeShape'
  BY <1>b DEF Raise, DecodeShape
<1>c. ASSUME NEW i \in DOMAIN decoding
      PROVE  /\ ToSet(RemoveAt(decoding, i)) = ToSet(decoding) \ {decoding[i]}
             /\ decoding[i] \in ToSet(decoding)
             /\ decoding[i] \in Reqs
             /\ RemoveAt(decoding, i) \in Seq(Reqs)
             /\ ToSet(Append(RemoveAt(decoding, i), decoding[i])) = ToSet(decoding)
  <2>1. /\ ToSet(RemoveAt(decoding, i)) = ToSet(decoding) \ {decoding[i]}
        /\ RemoveAt(decoding, i) \in Seq(Reqs)
    BY <1>a, RemoveAtOwnership, RemoveAtElements
  <2>2. decoding[i] \in ToSet(decoding) /\ decoding[i] \in Reqs
    BY <1>a DEF ToSet
  <2>3. ToSet(Append(RemoveAt(decoding, i), decoding[i]))
          = ToSet(RemoveAt(decoding, i)) \union {decoding[i]}
    BY <2>1, <2>2, AppendOwnership
  <2> QED BY <2>1, <2>2, <2>3
<1>1. CASE Clients
  <2>1. ASSUME NEW s \in Reqs, AddRequest(s) PROVE DecodeShape'
    BY <2>1 DEF AddRequest, DecodeShape, Prefilled
  <2>2. ASSUME NEW s \in Reqs, AbortRequest(s) PROVE DecodeShape'
    <3>1. CASE pc' = "raised"
      BY <3>1 DEF DecodeShape
    <3>2. CASE pc' # "raised"
      <4>1. pc = "idle" /\ pc' = "idle" /\ UNCHANGED prefilled
        BY <2>2, <3>2 DEF AbortRequest, Raise
      <4>2. ToSet(decoding') \subseteq ToSet(decoding)
        BY <2>2, <1>c DEF AbortRequest, AbortFrom
      <4> QED BY <4>1, <4>2 DEF DecodeShape, Prefilled
    <3> QED BY <3>1, <3>2
  <2> QED BY <1>1, <2>1, <2>2 DEF Clients, SchedulerAssumption
<1>2. CASE BeginSchedule
  <2>1. /\ pc' \in {"prefill", "decode"} /\ batch = <<>>
        /\ UNCHANGED <<batch, decoding, prefilled>>
    BY <1>2, <1>a DEF BeginSchedule, StepShape
  <2>2. ToSet(batch) = {}
    BY <2>1, EmptyOwnership
  <2> QED BY <2>1, <2>2 DEF DecodeShape, Prefilled
<1>3. CASE Prefilling
  <2>1. ASSUME NEW i \in DOMAIN waiting, NEW F, Requeue(i, F), pc = "prefill"
        PROVE  DecodeShape'
    BY <2>1 DEF Requeue, DecodeShape, Prefilled
  <2>2. ASSUME NEW i \in DOMAIN waiting, PrefillBlocked(i) \/ PrefillDeferred(i)
        PROVE  DecodeShape'
    BY <1>b, <2>1, <2>2 DEF PrefillBlocked, PrefillDeferred, PrefillLoop
  <2>3. ASSUME NEW i \in DOMAIN waiting, PrefillScheduled(i) PROVE DecodeShape'
    BY <2>3 DEF PrefillScheduled, PrefillLoop, DecodeShape, Prefilled
  <2>4. ASSUME EndPrefillScan PROVE DecodeShape'
    <3>1. UNCHANGED <<batch, decoding, prefilled>> /\ pc = "prefill"
      BY <2>4 DEF EndPrefillScan
    <3>2. CASE batch # <<>>
      BY <2>4, <3>1, <3>2 DEF EndPrefillScan, DecodeShape, Prefilled
    <3>3. CASE batch = <<>>
      <4>1. ToSet(batch) = {} /\ pc' \in {"prefill", "decode"}
        BY <2>4, <3>3, EmptyOwnership DEF EndPrefillScan
      <4> QED BY <3>1, <4>1 DEF DecodeShape, Prefilled
    <3> QED BY <3>2, <3>3
  <2> QED BY <1>3, <2>2, <2>3, <2>4 DEF Prefilling
<1>4. ASSUME NEW i \in DOMAIN decoding, DecodeScheduled(i) PROVE DecodeShape'
  <2>1. /\ pc = "decode" /\ pc' = "decode" /\ decoding' = RemoveAt(decoding, i)
        /\ batch' = Append(batch, decoding[i]) /\ UNCHANGED prefilled
    BY <1>4 DEF DecodeScheduled, DecodeLoop
  <2>2. ToSet(Append(batch, decoding[i])) = ToSet(batch) \union {decoding[i]}
    BY <1>a, <1>c, AppendOwnership
  <2> QED BY <1>c, <2>1, <2>2 DEF DecodeShape, Prefilled
<1>5. ASSUME NEW i \in DOMAIN decoding, DecodeBlocked(i) PROVE DecodeShape'
  <2>1. /\ pc = "decode" /\ pc' = "decode" /\ UNCHANGED <<batch, prefilled>>
        /\ decoding' = Append(RemoveAt(decoding, i), decoding[i])
    BY <1>5 DEF DecodeBlocked, DecodeLoop
  <2> QED BY <1>c, <2>1 DEF DecodeShape, Prefilled
<1>6. ASSUME NEW i \in DOMAIN decoding, PreemptCandidate(i) \/ PreemptBlocked(i)
      PROVE  DecodeShape'
  <2>1. PreemptDecodeVictim(decoding[i], RemoveAt(decoding, i))
    BY <1>6 DEF PreemptCandidate, PreemptBlocked
  <2>2. CASE pc' = "raised"
    BY <2>2 DEF DecodeShape
  <2>3. CASE pc' # "raised"
    <3>1. /\ prefilled' = [prefilled EXCEPT ![decoding[i]] = 0]
          /\ decoding' = RemoveAt(decoding, i)
          /\ Return
      BY <2>1, <2>3 DEF PreemptDecodeVictim, Raise
    <3>2. ToSet(decoding') = ToSet(decoding) \ {decoding[i]} /\ pc' = "idle"
      BY <3>1, <1>c DEF Return
    <3>3. \A s \in ToSet(decoding') : prefilled'[s] = prefilled[s]
      <4>1. ToSet(decoding) \subseteq Reqs
        BY <1>a DEF ToSet
      <4> QED BY <1>a, <3>1, <3>2, <4>1
    <3> QED BY <3>2, <3>3 DEF DecodeShape, Prefilled
  <2> QED BY <2>2, <2>3
<1>7. CASE NothingRunnable
  BY <1>7 DEF NothingRunnable, Raise, DecodeShape
<1>8. CASE EndDecodeScan
  <2>1. /\ pc = "decode" /\ pc' = "prepare"
        /\ UNCHANGED <<prefilled, batch, isPrefill>>
    BY <1>8 DEF EndDecodeScan, DecodeScanDone
  <2>2. IsInjective(batch)
    BY <1>a, <2>1 DEF InHand, Owned
  <2>3. /\ ToSet(batch) \subseteq ToSet(decoding')
        /\ ToSet(decoding') \subseteq ToSet(batch) \union ToSet(decoding)
    <3>1. CASE decoding' = PutBack(decoding)
      BY <1>a, <3>1, ConcatOwnership DEF PutBack
    <3>2. ASSUME NEW i \in DOMAIN decoding,
                 decoding' = <<decoding[i]>> \o PutBack(RemoveAt(decoding, i))
          PROVE  /\ ToSet(batch) \subseteq ToSet(decoding')
                 /\ ToSet(decoding') \subseteq ToSet(batch) \union ToSet(decoding)
      <4> DEFINE c == batch \o RemoveAt(decoding, i)
                 y == <<decoding[i]>>
      <4>1. c \in Seq(Reqs) /\ ToSet(c) = ToSet(batch) \union ToSet(RemoveAt(decoding, i))
        BY <1>a, <1>c, ConcatOwnership
      <4>2. y \in Seq(Reqs) /\ ToSet(y) = {decoding[i]}
        BY <1>c, SingletonOwnership
      <4>3. decoding' = y \o c
        BY <3>2 DEF PutBack
      <4> HIDE DEF c, y
      <4>4. ToSet(y \o c) = ToSet(y) \union ToSet(c)
        BY <4>1, <4>2, ConcatOwnership
      <4> QED BY <1>c, <4>1, <4>2, <4>3, <4>4
    <3> QED BY <1>8, <3>1, <3>2 DEF EndDecodeScan
  <2> QED BY <2>1, <2>2, <2>3 DEF DecodeShape, Prefilled
<1>9. CASE Running
  <2>1. CASE pc' = "raised"
    BY <2>1 DEF DecodeShape
  <2>2. CASE pc' # "raised"
    <3>1. UNCHANGED <<prefilled, decoding>>
      BY <1>9 DEF Running, PrepareChunk, PrepareDecode, EndPrepare
    <3>2. CASE PrepareChunk \/ PrepareDecode
      BY <2>2, <3>1, <3>2 DEF PrepareChunk, PrepareDecode, Raise, DecodeShape, Prefilled
    <3>3. CASE EndPrepare
      BY <3>1, <3>3 DEF EndPrepare, DecodeShape, Prefilled
    <3> QED BY <1>9, <3>2, <3>3 DEF Running
  <2> QED BY <2>1, <2>2
<1>10. ASSUME NEW s \in Reqs, Postprocess(s), isPrefill,
              prefilled' = [prefilled EXCEPT ![s] = @ + chunk[s]],
              \/ UNCHANGED decoding
              \/ IsLastChunkPrefill(s) /\ decoding' = Append(decoding, s)
       PROVE  DecodeShape'
  <2>1. pc' = "postprocess" /\ isPrefill'
    BY <1>10 DEF Postprocess
  <2>2. /\ prefilled'[s] = prefilled[s] + chunk[s]
        /\ \A t \in Reqs : prefilled'[t] >= prefilled[t]
    BY <1>10, <1>a
  <2>3. ToSet(decoding) \subseteq Reqs
    BY <1>a DEF ToSet
  <2>4. \A t \in ToSet(decoding) : prefilled'[t] >= PromptLen[t]
    <3> TAKE t \in ToSet(decoding)
    <3>1. prefilled[t] >= PromptLen[t]
      BY DEF DecodeShape, Prefilled
    <3>2. /\ prefilled[t] \in Nat /\ PromptLen[t] \in Nat /\ prefilled'[t] \in Nat
          /\ prefilled'[t] >= prefilled[t]
      BY <1>10, <1>a, <2>2, <2>3
    <3> QED BY <3>1, <3>2
  <2>5. \A t \in ToSet(decoding') : prefilled'[t] >= PromptLen[t]
    <3>1. CASE UNCHANGED decoding
      BY <2>4, <3>1
    <3>2. CASE IsLastChunkPrefill(s) /\ decoding' = Append(decoding, s)
      <4>1. ToSet(decoding') = ToSet(decoding) \union {s}
        BY <1>a, <3>2, AppendOwnership
      <4>2. prefilled'[s] >= PromptLen[s]
        BY <2>2, <3>2 DEF IsLastChunkPrefill
      <4> QED BY <2>4, <4>1, <4>2
    <3> QED BY <1>10, <3>1, <3>2
  <2> QED BY <2>1, <2>5 DEF DecodeShape, Prefilled
<1>11. ASSUME NEW s \in Reqs,
              \/ PostPrefillPartial(s)
              \/ PostPrefillReplay(s)
              \/ \E eos \in BOOLEAN : PostPrefillToken(s, eos)
       PROVE  DecodeShape'
  BY <1>10, <1>11 DEF PostPrefillPartial, PostPrefillReplay, PostPrefillToken
<1>12. ASSUME NEW s \in Reqs, Postprocess(s), ~isPrefill, UNCHANGED prefilled,
              \/ UNCHANGED decoding
              \/ \E i \in DOMAIN decoding :
                   decoding[i] = s /\ decoding' = RemoveAt(decoding, i)
       PROVE  DecodeShape'
  <2>1. /\ pc = "postprocess" /\ pc' = "postprocess" /\ ~isPrefill'
        /\ todo # <<>> /\ todo' = Tail(todo) /\ s = Head(todo)
    BY <1>12 DEF Postprocess
  <2>2. ToSet(todo) \subseteq ToSet(decoding) /\ IsInjective(todo)
    BY <1>12, <2>1 DEF DecodeShape
  <2>3. /\ IsInjective(Tail(todo)) /\ ToSet(Tail(todo)) \subseteq ToSet(todo)
        /\ s \notin ToSet(Tail(todo))
    BY <1>a, <2>1, <2>2, TailOwnership
  <2>4. /\ ToSet(decoding') \subseteq ToSet(decoding)
        /\ ToSet(decoding) \ {s} \subseteq ToSet(decoding')
    BY <1>12, <1>c
  <2>5. ToSet(todo') \subseteq ToSet(decoding') /\ IsInjective(todo')
    BY <2>1, <2>2, <2>3, <2>4
  <2> QED BY <1>12, <2>1, <2>4, <2>5 DEF DecodeShape, Prefilled
<1>13. ASSUME NEW s \in Reqs, PostDecodeReplay(s) PROVE DecodeShape'
  BY <1>12, <1>13 DEF PostDecodeReplay
<1>14. ASSUME NEW s \in Reqs, NEW eos \in BOOLEAN, PostDecodeToken(s, eos)
       PROVE  DecodeShape'
  <2>1. /\ Postprocess(s) /\ ~isPrefill /\ UNCHANGED prefilled
        /\ \/ UNCHANGED decoding
           \/ \E i \in DOMAIN decoding :
                decoding[i] = s /\ decoding' = RemoveAt(decoding, i)
    BY <1>14 DEF PostDecodeToken
  <2> QED BY <1>12, <2>1
<1>15. CASE EndPostprocess
  BY <1>15 DEF EndPostprocess, DecodeShape, Prefilled
<1>16. CASE Freeing
  BY <1>16 DEF Freeing, FreeFinished, EndStep, Return, Raise, DecodeShape, Prefilled
<1>17. CASE UNCHANGED vars
  BY <1>17 DEF vars, DecodeShape, Prefilled
<1> QED
  BY <1>1, <1>2, <1>3, <1>4, <1>5, <1>6, <1>7, <1>8, <1>9, <1>11, <1>13, <1>14,
     <1>15, <1>16, <1>17
  DEF Next, EngineStep, Decoding, Postprocessing

-----------------------------------------------------------------------------
(* What one step does to the status, the history and the stream of a       *)
(* request: the only things a client can notice.                           *)

Quiet == UNCHANGED <<status, published, completion>>

Admits(s) ==
  /\ status[s] = "new"
  /\ status' = [status EXCEPT ![s] = "waiting"]
  /\ UNCHANGED <<published, completion>>

Cancels(s) ==
  /\ s \in Live
  /\ status' = [status EXCEPT ![s] = "finished"]
  /\ UNCHANGED <<published, completion>>

Refiles(s) ==
  /\ s \in Live
  /\ \E v \in {"waiting", "running"} : status' = [status EXCEPT ![s] = v]
  /\ UNCHANGED <<published, completion>>

Emits(s) ==
  /\ s \in Live
  /\ published' = [published EXCEPT ![s] = published[s] + 1]
  /\ completion' = [completion EXCEPT ![s] = completion[s] + 1]
  /\ \/ status' = [status EXCEPT ![s] = "finished"]
     \/ /\ completion[s] + 1 # MaxTokens[s]
        /\ \/ status' = [status EXCEPT ![s] = "running"]
           \/ UNCHANGED status

\* Every step of the engine has one of these effects, on at most one request.
LEMMA StepEffects ==
  ASSUME KvCacheAssumption, SchedulerAssumption, OwnershipInv, DecodeShape, [Next]_vars
  PROVE  Quiet \/ \E s \in Reqs : Admits(s) \/ Cancels(s) \/ Refiles(s) \/ Emits(s)
<1> DEFINE Effect == Quiet \/ \E s \in Reqs : Admits(s) \/ Cancels(s) \/ Refiles(s) \/ Emits(s)
<1> USE DEF seqVars, queueVars, stepVars, kvVars
<1> SUFFICES Effect
  OBVIOUS
<1>0. ASSUME pc # "raised"
      PROVE  /\ Live = ToSet(waiting) \union ToSet(decoding) \union ToSet(InHand)
             /\ waiting \in Seq(Reqs) /\ decoding \in Seq(Reqs) /\ todo \in Seq(Reqs)
             /\ \A i \in DOMAIN waiting : waiting[i] \in Live
             /\ \A i \in DOMAIN decoding : decoding[i] \in Live
             /\ Live \subseteq Reqs
  BY <1>0 DEF OwnershipInv, QueuesOwn, Owned, TypeOK, ToSet, Live
<1>a. published \in [Reqs -> Nat] /\ completion \in [Reqs -> Nat]
  BY DEF OwnershipInv, TypeOK
<1>1. ASSUME NEW s \in Reqs, AddRequest(s) PROVE Effect
  BY <1>1 DEF AddRequest, Admits
<1>2. ASSUME NEW s \in Reqs, AbortRequest(s) PROVE Effect
  <2>1. s \in Live
    BY <1>0, <1>2 DEF AbortRequest, AbortFrom
  <2>2. Cancels(s)
    BY <1>2, <2>1 DEF AbortRequest, Cancels
  <2> QED BY <2>2
<1>3. CASE BeginSchedule
  BY <1>3 DEF BeginSchedule, Quiet
<1>4. ASSUME NEW i \in DOMAIN waiting, PrefillBlocked(i) \/ PrefillDeferred(i) PROVE Effect
  BY <1>4 DEF PrefillBlocked, PrefillDeferred, Requeue, Quiet
<1>5. ASSUME NEW i \in DOMAIN waiting, PrefillScheduled(i) PROVE Effect
  <2>1. waiting[i] \in Live /\ waiting[i] \in Reqs
    BY <1>0, <1>5 DEF PrefillScheduled, PrefillLoop
  <2>2. Refiles(waiting[i])
    BY <1>5, <2>1 DEF PrefillScheduled, Refiles
  <2> QED BY <2>1, <2>2
<1>6. CASE EndPrefillScan
  BY <1>6 DEF EndPrefillScan, Quiet
<1>7. ASSUME NEW i \in DOMAIN decoding, DecodeScheduled(i) \/ DecodeBlocked(i) PROVE Effect
  BY <1>7 DEF DecodeScheduled, DecodeBlocked, Quiet
<1>8. ASSUME NEW i \in DOMAIN decoding, PreemptCandidate(i) \/ PreemptBlocked(i)
      PROVE  Effect
  <2>1. /\ decoding[i] \in Live /\ decoding[i] \in Reqs
        /\ PreemptDecodeVictim(decoding[i], RemoveAt(decoding, i))
    BY <1>0, <1>8 DEF PreemptCandidate, PreemptBlocked, DecodeLoop, DecodeScanDone
  <2>2. CASE SoleDecodeStuck(decoding[i], RemoveAt(decoding, i))
    BY <2>1, <2>2 DEF PreemptDecodeVictim, Quiet
  <2>3. CASE ~SoleDecodeStuck(decoding[i], RemoveAt(decoding, i))
    <3>1. Refiles(decoding[i])
      BY <2>1, <2>3 DEF PreemptDecodeVictim, Refiles
    <3> QED BY <2>1, <3>1
  <2> QED BY <2>2, <2>3
<1>9. CASE NothingRunnable \/ EndDecodeScan
  BY <1>9 DEF NothingRunnable, EndDecodeScan, Quiet
<1>10. CASE Running
  BY <1>10 DEF Running, PrepareChunk, PrepareDecode, EndPrepare, Quiet
<1>11. ASSUME NEW s \in Reqs, Postprocess(s)
       PROVE  /\ s \in Live
              /\ ~Publishes(s) => UNCHANGED published
              /\ Publishes(s) => published' = [published EXCEPT ![s] = published[s] + 1]
  <2>1. pc = "postprocess" /\ todo # <<>> /\ s = Head(todo)
    BY <1>11 DEF Postprocess
  <2>2. s \in ToSet(todo)
    BY <1>0, <2>1, TailOwnership
  <2>3. ASSUME isPrefill PROVE s \in Live
    BY <1>0, <2>1, <2>2, <2>3 DEF InHand
  <2>4. ASSUME ~isPrefill PROVE s \in Live
    BY <1>0, <2>1, <2>2, <2>4 DEF DecodeShape
  <2>5. published' = PublishedAfter(s)
    BY <1>11 DEF Postprocess
  <2>6. ~Publishes(s) => UNCHANGED published
    BY <1>a, <2>5 DEF PublishedAfter
  <2>7. Publishes(s) => published' = [published EXCEPT ![s] = published[s] + 1]
    BY <2>5 DEF PublishedAfter
  <2> QED BY <2>3, <2>4, <2>6, <2>7
<1>12. ASSUME NEW s \in Reqs, PostPrefillPartial(s) \/ PostPrefillReplay(s) PROVE Effect
  <2>1. Postprocess(s) /\ isPrefill /\ ~Publishes(s)
    BY <1>12 DEF PostPrefillPartial, PostPrefillReplay, Publishes, ShouldPublishSample
  <2>2. Refiles(s)
    BY <1>11, <1>12, <2>1 DEF PostPrefillPartial, PostPrefillReplay, Refiles
  <2> QED BY <2>2
<1>13. ASSUME NEW s \in Reqs, NEW eos \in BOOLEAN, PostPrefillToken(s, eos) PROVE Effect
  <2>1. Postprocess(s) /\ Publishes(s)
    BY <1>13 DEF PostPrefillToken, Publishes, ShouldPublishSample
  <2>2. Emits(s)
    BY <1>11, <1>13, <2>1 DEF PostPrefillToken, Emits, Stops
  <2> QED BY <2>2
<1>14. ASSUME NEW s \in Reqs, PostDecodeReplay(s) PROVE Effect
  <2>1. Postprocess(s) /\ ~Publishes(s)
    BY <1>14 DEF PostDecodeReplay, Publishes, ShouldPublishSample, IsRecomputeDecode
  <2>2. Quiet
    BY <1>11, <1>14, <2>1 DEF PostDecodeReplay, Quiet
  <2> QED BY <2>2
<1>15. ASSUME NEW s \in Reqs, NEW eos \in BOOLEAN, PostDecodeToken(s, eos) PROVE Effect
  <2>1. Postprocess(s) /\ ~isPrefill /\ ~IsRecomputeDecode(s)
    BY <1>15 DEF PostDecodeToken
  <2>2. pc = "postprocess" /\ todo # <<>> /\ s = Head(todo)
    BY <2>1 DEF Postprocess
  <2>3. s \in ToSet(todo)
    BY <1>0, <2>2, TailOwnership
  <2>4. Prefilled(s)
    BY <2>1, <2>2, <2>3 DEF DecodeShape
  <2>5. Publishes(s)
    BY <2>1, <2>4 DEF Publishes, ShouldPublishSample, IsRecomputeDecode, Prefilled
  <2>6. Emits(s)
    BY <1>11, <1>15, <2>1, <2>5 DEF PostDecodeToken, Emits, Stops
  <2> QED BY <2>6
<1>16. CASE EndPostprocess \/ Freeing \/ UNCHANGED vars
  BY <1>16 DEF EndPostprocess, Freeing, FreeFinished, EndStep, vars, Quiet
<1>17. MayAbort \subseteq Reqs
  BY DEF SchedulerAssumption
<1> HIDE DEF Effect
<1> QED
  BY <1>1, <1>2, <1>3, <1>4, <1>5, <1>6, <1>7, <1>8, <1>9, <1>10, <1>12, <1>13,
     <1>14, <1>15, <1>16, <1>17
  DEF Next, EngineStep, Clients, Prefilling, Decoding, Postprocessing

\* The stream and the token budget move together.
LEMMA StreamInductive ==
  /\ Init => StreamInv
  /\ StreamInv /\ [Next]_vars => StreamInv'
<1> USE KvCacheAssumption, SchedulerAssumption
<1>1. Init => StreamInv
  <2> SUFFICES ASSUME Init PROVE StreamInv
    OBVIOUS
  <2>1. OwnershipInv
    BY OwnershipInductive
  <2>2. DecodeShape
    BY EmptyOwnership DEF Init, DecodeShape
  <2>3. PublishedOnce
    BY DEF Init, PublishedOnce
  <2>4. BudgetOpen
    BY DEF Init, BudgetOpen, Live
  <2> QED BY <2>1, <2>2, <2>3, <2>4 DEF StreamInv
<1>2. StreamInv /\ [Next]_vars => StreamInv'
  <2> SUFFICES ASSUME StreamInv, [Next]_vars PROVE StreamInv'
    OBVIOUS
  <2>1. OwnershipInv'
    BY OwnershipInductive DEF StreamInv
  <2>2. DecodeShape'
    BY DecodeShapeStep DEF StreamInv
  <2>3. Quiet \/ \E s \in Reqs : Admits(s) \/ Cancels(s) \/ Refiles(s) \/ Emits(s)
    BY StepEffects DEF StreamInv
  <2>4. PublishedOnce'
    BY <2>3 DEF StreamInv, PublishedOnce, Quiet, Admits, Cancels, Refiles, Emits
  <2>5. BudgetOpen'
    <3>1. /\ status \in [Reqs -> {"new", "waiting", "running", "finished"}]
          /\ completion \in [Reqs -> Nat] /\ MaxTokens \in [Reqs -> Nat \ {0}]
          /\ BudgetOpen
      BY DEF StreamInv, OwnershipInv, TypeOK, SchedulerAssumption
    <3>2. CASE Quiet
      BY <3>1, <3>2 DEF Quiet, BudgetOpen, Live
    <3>3. ASSUME NEW s \in Reqs, Admits(s) \/ Cancels(s) \/ Refiles(s) PROVE BudgetOpen'
      BY <3>1, <3>3 DEF Admits, Cancels, Refiles, BudgetOpen, Live
    <3>4. ASSUME NEW s \in Reqs, Emits(s) PROVE BudgetOpen'
      BY <3>1, <3>4 DEF Emits, BudgetOpen, Live
    <3> QED BY <2>3, <3>2, <3>3, <3>4
  <2> QED BY <2>1, <2>2, <2>4, <2>5 DEF StreamInv
<1> QED
  BY <1>1, <1>2

\* Whatever is evicted and rebuilt, each accepted token is handed to the
\* client once and none that was not accepted is.
THEOREM PublishedExactlyOnce == Spec => []PublishedOnce
<1>1. StreamInv => PublishedOnce
  BY DEF StreamInv
<1> QED
  BY <1>1, StreamInductive, PTL DEF Spec

\* A client that sees only streams and their ends cannot tell that requests
\* are chunked, batched, evicted and rebuilt: the engine implements
\* RequestService, for every workload and every configuration.
THEOREM SchedulerImplementsService == Spec => ImplementsService
<1> DEFINE Phase(s) == IF status[s] = "new" THEN "new"
                       ELSE IF status[s] = "finished" THEN "done" ELSE "active"
           ph == [s \in Reqs |-> Phase(s)]
<1>1. Init => Service!Init
  BY DEF Init, Service!Init
<1>2. StreamInv /\ [Next]_vars => [Service!Next]_(Service!vars)
  <2> SUFFICES ASSUME StreamInv, [Next]_vars PROVE [Service!Next]_(Service!vars)
    OBVIOUS
  <2>1. Quiet \/ \E s \in Reqs : Admits(s) \/ Cancels(s) \/ Refiles(s) \/ Emits(s)
    BY KvCacheAssumption, SchedulerAssumption, StepEffects DEF StreamInv
  <2>2. /\ status \in [Reqs -> {"new", "waiting", "running", "finished"}]
        /\ published \in [Reqs -> Nat] /\ completion = published
        /\ MaxTokens \in [Reqs -> Nat \ {0}]
        /\ \A s \in Live : completion[s] < MaxTokens[s]
    BY SchedulerAssumption
    DEF StreamInv, OwnershipInv, TypeOK, SchedulerAssumption, PublishedOnce, BudgetOpen, Live
  <2>3. CASE Quiet
    BY <2>3 DEF Quiet, Service!vars
  <2>4. ASSUME NEW s \in Reqs, Admits(s) PROVE Service!Next
    <3>1. Service!Accept(s)
      BY <2>2, <2>4 DEF Admits, Service!Accept
    <3> QED BY <3>1 DEF Service!Next
  <2>5. ASSUME NEW s \in Reqs, Cancels(s) PROVE Service!Next
    <3>1. Service!Cancel(s)
      BY <2>2, <2>5 DEF Cancels, Live, Service!Cancel
    <3> QED BY <3>1 DEF Service!Next
  <2>6. ASSUME NEW s \in Reqs, Refiles(s) PROVE UNCHANGED Service!vars
    <3>1. ph' = ph
      BY <2>2, <2>6 DEF Refiles, Live
    <3> QED BY <2>6, <3>1 DEF Refiles, Service!vars
  <2>7. ASSUME NEW s \in Reqs, Emits(s) PROVE Service!Next
    <3>1. /\ status[s] \in {"waiting", "running"} /\ published[s] \in Nat
          /\ published[s] < MaxTokens[s] /\ MaxTokens[s] \in Nat
      BY <2>2, <2>7 DEF Emits, Live
    <3>2. CASE status' = [status EXCEPT ![s] = "finished"]
      <4>1. Service!StreamLast(s)
        BY <2>2, <2>7, <3>1, <3>2 DEF Emits, Service!StreamLast
      <4> QED BY <4>1 DEF Service!Next
    <3>3. CASE /\ published[s] + 1 # MaxTokens[s]
               /\ status' = [status EXCEPT ![s] = "running"] \/ UNCHANGED status
      <4>1. ph' = ph
        BY <2>2, <3>1, <3>3
      <4>2. published[s] + 1 < MaxTokens[s]
        BY <3>1, <3>3
      <4>3. Service!Stream(s)
        BY <2>2, <2>7, <3>1, <4>1, <4>2 DEF Emits, Service!Stream
      <4> QED BY <4>3 DEF Service!Next
    <3> QED BY <2>2, <2>7, <3>2, <3>3 DEF Emits
  <2> QED BY <2>1, <2>3, <2>4, <2>5, <2>6, <2>7
<1> QED
  BY <1>1, <1>2, StreamInductive, PTL DEF Spec, ImplementsService, Service!Spec

=============================================================================
