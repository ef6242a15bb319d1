----------------------------- MODULE Scheduler -----------------------------
(***************************************************************************)
(* The engine loop: Scheduler (engine/scheduler.py), the Sequence state it *)
(* drives (engine/sequence.py), the resident set of RuntimeState           *)
(* (engine/runtime_state.py) and LLMEngine.step / abort_request            *)
(* (engine/llm_engine.py), over the cache manager of KvCache.              *)
(*                                                                         *)
(* One call of step() is a sequence of actions, one per loop iteration:    *)
(*                                                                         *)
(*   idle --BeginSchedule--> prefill --(nothing fits)--> decode            *)
(*                             |                           |               *)
(*                             +-------> prepare <---------+--> idle       *)
(*                                          |              (preemption)    *)
(*                                     postprocess --> free --> idle       *)
(*                                                                         *)
(* Requests are added and aborted only between steps: the dispatcher       *)
(* thread calls admit_request, abort_request and step in turn.  An         *)
(* exception that leaves step() is fatal to the dispatcher, so "raised" is *)
(* a final state and the variable raised says which check failed.          *)
(*                                                                         *)
(* Token values are abstracted: completion[s] counts the accepted tokens,  *)
(* and whether a sampled token is an EOS is a free choice.                 *)
(***************************************************************************)
EXTENDS KvCache, Sequences, SequencesExt

CONSTANTS
  PromptLen,      \* num_prompt_tokens of each request
  MaxTokens,      \* max_tokens of each request
  FullPrefill,    \* requests whose prefill_execution_mode is "full"
  ChunkSize,      \* engine_prefill_chunk_size
  MaxBatchTokens, \* max_num_batched_tokens
  MaxBatchSeqs,   \* max_num_seqs_in_batch
  MaxDecoding,    \* max_decoding_seqs
  LongThreshold,  \* decode long-text boundary; 0 when sparse_method is empty
  MayAbort        \* requests a client may cancel

ASSUME SchedulerAssumption ==
  /\ PromptLen \in [Reqs -> Nat \ {0}]
  /\ MaxTokens \in [Reqs -> Nat \ {0}]
  /\ FullPrefill \in SUBSET Reqs
  /\ ChunkSize \in Nat \ {0}
  /\ MaxBatchTokens \in Nat \ {0}
  /\ MaxBatchSeqs \in Nat \ {0}
  /\ MaxDecoding \in Nat \ {0}
  /\ LongThreshold \in Nat
  /\ MayAbort \in SUBSET Reqs

VARIABLES
  \* Sequence
  status,       \* "new" before admission, then SequenceStatus
  prefilled,    \* num_prefilled_tokens
  completion,   \* num_completion_tokens
  chunk,        \* current_chunk_size (0 for None)
  cursor,       \* recompute_replay_cursor (NoReplay for None)
  checkpoint,   \* decode_progress_checkpoint
  published,    \* tokens handed out in last_step_token_outputs, in total
  \* Scheduler and RuntimeState
  waiting, decoding,
  resident,     \* _resident_seq_ids
  \* the step in progress
  pc,
  batch,        \* scheduled_seqs
  isPrefill,
  todo,         \* what is left of batch in the loop of this phase
  victim,       \* {} or {blocked_decode_victim}
  finished,     \* finished_seq_ids
  raised,       \* "none", or the check that raised
  loc           \* the other locals of _schedule_impl

seqVars == <<status, prefilled, completion, chunk, cursor, checkpoint, published>>
queueVars == <<waiting, decoding>>
stepVars == <<pc, batch, isPrefill, todo, victim, finished, raised, loc>>
vars == <<seqVars, queueVars, resident, stepVars, kvVars>>

NoReplay == -1

Modes == {"chunked", "full"}

Failures == {"step", "capacity", "deferred"}

Raises == {"sole_decode", "step", "capacity", "deferred", "no_runnable",
           "not_waiting", "row_mismatch", "no_decode_input", "out_of_pages",
           "no_free_row", "no_row"}

Phases == {"idle", "prefill", "decode", "prepare", "postprocess", "free", "raised"}

Locals == [modes : Seq(Modes),      \* prefill_mode_order still to try
           scan : Nat,              \* bucket_scan_budget / decode_scan_budget
           stepFree : Int,          \* step_free_count
           slots : Int,             \* admission_budgets["slots"]
           residents : Int,         \* admission_budgets["resident_seqs"]
           tokens : Nat,            \* num_batched_tokens
           decodeFree : Int,        \* decode_logical_free_count
           longTurn : BOOLEAN,      \* target_is_long_decode
           failures : SUBSET Failures]  \* which *_failure locals are set

IdleLocals == [modes |-> <<>>, scan |-> 0, stepFree |-> 0, slots |-> 0,
               residents |-> 0, tokens |-> 0, decodeFree |-> 0,
               longTurn |-> FALSE, failures |-> {}]

-----------------------------------------------------------------------------
(* Derived state of a Sequence.                                            *)

IsReplay(s) == cursor[s] # NoReplay

IsRecomputeDecode(s) == IsReplay(s) /\ prefilled[s] >= PromptLen[s]

\* Mutant: the last accepted token is replayed too.
ReplayEveryToken(s) == completion[s]

\* The last accepted token is the next decode input; only the ones before it
\* have their KV rebuilt.
ReplayDecodeTokenCount(s) == AtLeast0(completion[s] - 1)

NumTokens(s) == PromptLen[s] + completion[s]

\* Mutant: the samples of a replay are streamed again.
PublishReplaySample(s) == TRUE

ShouldPublishSample(s) == ~IsReplay(s)

IsLastChunkPrefill(s) == prefilled[s] + chunk[s] >= PromptLen[s]

RemainingPrefillTokens(s) == PromptLen[s] - prefilled[s]

IsLongText(s) == LongThreshold > 0 /\ NumTokens(s) > LongThreshold

PrefillMode(s) == IF s \in FullPrefill THEN "full" ELSE "chunked"

ReplayWaiting == \E i \in DOMAIN waiting : IsReplay(waiting[i])

\* i is the first position of q whose element satisfies P.
FirstAt(q, i, P(_)) ==
  /\ i \in DOMAIN q
  /\ P(q[i])
  /\ \A j \in 1..(i - 1) : ~P(q[j])

-----------------------------------------------------------------------------
(* The admission budget.                                                   *)

\* Slots still owed to prompts that were admitted and are partly prefilled.
ReservedPrefillSlots ==
  SumOver({s \in ToSet(waiting) : 0 < prefilled[s] /\ prefilled[s] < PromptLen[s]},
          LAMBDA s : CeilToPageSlots(RemainingPrefillTokens(s)))

PromptAdmissionCost(s) == CeilToPageSlots(PromptLen[s])

\* Mutant: a new prompt takes no row.
ResidentCostFree(s) == 0

ResidentCost(s) == IF s \in resident THEN 0 ELSE 1

-----------------------------------------------------------------------------
Init ==
  /\ KvInit
  /\ status = [s \in Reqs |-> "new"]
  /\ prefilled = [s \in Reqs |-> 0]
  /\ completion = [s \in Reqs |-> 0]
  /\ chunk = [s \in Reqs |-> 0]
  /\ cursor = [s \in Reqs |-> NoReplay]
  /\ checkpoint = [s \in Reqs |-> 0]
  /\ published = [s \in Reqs |-> 0]
  /\ waiting = <<>>
  /\ decoding = <<>>
  /\ resident = {}
  /\ pc = "idle"
  /\ batch = <<>>
  /\ isPrefill = FALSE
  /\ todo = <<>>
  /\ victim = {}
  /\ finished = <<>>
  /\ raised = "none"
  /\ loc = IdleLocals

\* step() returns: its locals are gone.
Return ==
  /\ pc' = "idle"
  /\ batch' = <<>>
  /\ isPrefill' = FALSE
  /\ todo' = <<>>
  /\ victim' = {}
  /\ finished' = <<>>
  /\ loc' = IdleLocals
  /\ UNCHANGED raised

\* step() raises: nothing runs afterwards.
Raise(why) ==
  /\ pc' = "raised"
  /\ raised' = why
  /\ UNCHANGED <<batch, isPrefill, todo, victim, finished, loc>>

\* RuntimeState._free_seq_payload; cache_manager.free_seq raises ValueError
\* for a sequence that owns no row.
FreeSeqPayload(s) ==
  /\ FreeSeq(s)
  /\ resident' = resident \ {s}

-----------------------------------------------------------------------------
(* Between steps.                                                          *)

\* admit_request without a chain: Scheduler.add.
AddRequest(s) ==
  /\ pc = "idle"
  /\ status[s] = "new"
  /\ status' = [status EXCEPT ![s] = "waiting"]
  /\ waiting' = Append(waiting, s)
  /\ UNCHANGED <<prefilled, completion, chunk, cursor, checkpoint, published,
                 decoding, resident, stepVars, kvVars>>

\* Scheduler.abort finds s in one of the queues ...
AbortFrom(s) ==
  \/ \E i \in DOMAIN waiting :
       /\ waiting[i] = s
       /\ waiting' = RemoveAt(waiting, i)
       /\ UNCHANGED decoding
  \/ \E i \in DOMAIN decoding :
       /\ decoding[i] = s
       /\ decoding' = RemoveAt(decoding, i)
       /\ UNCHANGED waiting

\* ... and tells whether it may own KV.
AbortMustFree(s) == prefilled[s] > 0 \/ s \in ToSet(decoding)

\* LLMEngine.abort_request.
AbortRequest(s) ==
  /\ pc = "idle"
  /\ AbortFrom(s)
  /\ status' = [status EXCEPT ![s] = "finished"]
  /\ IF ~AbortMustFree(s)
       THEN UNCHANGED <<resident, kvVars, stepVars>>
     ELSE IF s \in rows
       THEN FreeSeqPayload(s) /\ UNCHANGED stepVars
     ELSE Raise("no_row") /\ UNCHANGED <<resident, kvVars>>
  /\ UNCHANGED <<prefilled, completion, chunk, cursor, checkpoint, published>>

-----------------------------------------------------------------------------
(* Phase 1: prefill.                                                       *)

\* Prefill is suspended while a preempted request waits to be rebuilt and
\* other requests are still decoding.
PrefillOpen == waiting # <<>> /\ ~(ReplayWaiting /\ decoding # <<>>)

\* While a replay waits only replays may be picked.
MayPrefill(s) == ReplayWaiting => IsReplay(s)

\* _prefill_mode_order: the modes of the pickable requests, by first position.
PrefillModeOrder ==
  IF ~PrefillOpen THEN <<>>
  ELSE LET first(m) == {i \in DOMAIN waiting :
                          /\ MayPrefill(waiting[i])
                          /\ PrefillMode(waiting[i]) = m}
           c == first("chunked")
           f == first("full")
       IN IF f = {} THEN <<"chunked">>
          ELSE IF c = {} THEN <<"full">>
          ELSE IF Min(c) < Min(f) THEN <<"chunked", "full">>
          ELSE <<"full", "chunked">>

\* Entry of the decode scan.
DecodeLocals(l) ==
  [l EXCEPT !.scan = Len(decoding),
            !.longTurn = \A i \in DOMAIN decoding : IsLongText(decoding[i])]

BeginSchedule ==
  /\ pc = "idle"
  /\ waiting # <<>> \/ decoding # <<>>
  /\ LET l == [modes |-> PrefillModeOrder,
               scan |-> Len(waiting),
               stepFree |-> PrefillStepFreeSlots,
               slots |-> AtLeast0(NumFreeSlots - ReservedPrefillSlots),
               residents |-> AtLeast0(NumRows - Cardinality(resident)),
               tokens |-> 0,
               decodeFree |-> DecodeStepFreeSlots,
               longTurn |-> FALSE,
               failures |-> {}]
     IN IF l.modes # <<>> THEN pc' = "prefill" /\ loc' = l
        ELSE pc' = "decode" /\ loc' = DecodeLocals(l)
  /\ UNCHANGED <<seqVars, queueVars, resident, kvVars, batch, isPrefill, todo,
                 victim, finished, raised>>

\* Mutant: a replay shares its prefill batch.
CanContinueBesideReplay ==
  /\ waiting # <<>>
  /\ Len(decoding) < MaxDecoding
  /\ loc.stepFree > 0
  /\ loc.tokens <= MaxBatchTokens
  /\ Len(batch) < MaxBatchSeqs

\* _can_continue_prefill_batch; the token margin is 0 for these managers.
CanContinuePrefillBatch ==
  /\ waiting # <<>>
  /\ \A i \in DOMAIN batch : ~IsReplay(batch[i])
  /\ Len(decoding) < MaxDecoding
  /\ loc.stepFree > 0
  /\ loc.tokens <= MaxBatchTokens
  /\ Len(batch) < MaxBatchSeqs

\* i is where _pop_next_prefill_seq takes its candidate.
PrefillCandidate(i) ==
  FirstAt(waiting, i, LAMBDA s : MayPrefill(s) /\ PrefillMode(s) = Head(loc.modes))

PrefillLoop == pc = "prefill" /\ loc.scan > 0 /\ CanContinuePrefillBatch

CandidateStepFree(s) == Least(loc.stepFree, PrefillStepFreeSlotsFor(s))

\* _prefill_step_tokens: a full prefill takes all of its prompt or nothing.
PrefillStepTokens(s) ==
  LET available == Least(MaxBatchTokens - loc.tokens, CandidateStepFree(s))
  IN IF PrefillMode(s) = "full"
       THEN IF RemainingPrefillTokens(s) <= available
              THEN RemainingPrefillTokens(s) ELSE 0
       ELSE Least(Least(RemainingPrefillTokens(s), ChunkSize), available)

\* The budget check of a fresh prompt.  (prompt_logical_free_count starts at
\* loc.slots and is charged the same costs, so its re-check never fails.)
AdmissionFails(s) ==
  /\ prefilled[s] = 0
  /\ \/ loc.slots < PromptAdmissionCost(s)
     \/ loc.residents < ResidentCost(s)

\* Mutant: a requeued candidate does not use up the scan budget.
RequeueForever(i, failures) ==
  /\ waiting' = Append(RemoveAt(waiting, i), waiting[i])
  /\ loc' = [loc EXCEPT !.failures = @ \union failures]
  /\ UNCHANGED <<seqVars, decoding, resident, kvVars, pc, batch, isPrefill, todo,
                 victim, finished, raised>>

\* Mutant: a requeued candidate is charged twice.
RequeueChargedTwice(i, failures) ==
  /\ waiting' = Append(RemoveAt(waiting, i), waiting[i])
  /\ loc' = [loc EXCEPT !.scan = @ - 2, !.failures = @ \union failures]
  /\ UNCHANGED <<seqVars, decoding, resident, kvVars, pc, batch, isPrefill, todo,
                 victim, finished, raised>>

\* The candidate goes to the tail of the queue and the scan continues.
Requeue(i, failures) ==
  /\ waiting' = Append(RemoveAt(waiting, i), waiting[i])
  /\ loc' = [loc EXCEPT !.scan = @ - 1, !.failures = @ \union failures]
  /\ UNCHANGED <<seqVars, decoding, resident, kvVars, pc, batch, isPrefill, todo,
                 victim, finished, raised>>

PrefillBlocked(i) ==
  /\ PrefillLoop
  /\ PrefillCandidate(i)
  /\ LET s == waiting[i] IN
     /\ PrefillStepTokens(s) <= 0
     /\ IF RemainingPrefillTokens(s) <= 0
          THEN Raise("not_waiting") /\ UNCHANGED <<seqVars, queueVars, resident, kvVars>>
          ELSE Requeue(i, (IF CandidateStepFree(s) <= 0 THEN {"capacity"} ELSE {})
                          \union (IF PrefillMode(s) = "full" THEN {"step"} ELSE {}))

PrefillDeferred(i) ==
  /\ PrefillLoop
  /\ PrefillCandidate(i)
  /\ LET s == waiting[i] IN
     /\ PrefillStepTokens(s) > 0
     /\ AdmissionFails(s)
     /\ Requeue(i, {"deferred"})

PrefillScheduled(i) ==
  /\ PrefillLoop
  /\ PrefillCandidate(i)
  /\ LET s == waiting[i]
         n == PrefillStepTokens(s)
         fresh == prefilled[s] = 0
     IN
     /\ n > 0
     /\ ~AdmissionFails(s)
     /\ waiting' = RemoveAt(waiting, i)
     /\ batch' = Append(batch, s)
     /\ status' = [status EXCEPT ![s] = "running"]
     /\ chunk' = [chunk EXCEPT ![s] = n]
     /\ resident' = IF fresh THEN resident \union {s} ELSE resident
     /\ loc' = [loc EXCEPT
                  !.scan = @ - 1,
                  !.slots = IF fresh THEN @ - PromptAdmissionCost(s) ELSE @,
                  !.residents = IF fresh THEN @ - ResidentCost(s) ELSE @,
                  !.tokens = @ + n,
                  !.stepFree = AtLeast0(@ - PrefillStepReservationCost(s, n))]
  /\ UNCHANGED <<prefilled, completion, cursor, checkpoint, published, decoding,
                 kvVars, pc, isPrefill, todo, victim, finished, raised>>

\* The scan of one mode ends: run what was collected, try the next mode, or
\* fall through to decode.
EndPrefillScan ==
  /\ pc = "prefill"
  /\ ~(PrefillLoop /\ \E i \in DOMAIN waiting : PrefillCandidate(i))
  /\ IF batch # <<>>
       THEN /\ pc' = "prepare"
            /\ isPrefill' = TRUE
            /\ todo' = batch
            /\ UNCHANGED loc
       ELSE /\ IF Len(loc.modes) > 1
                 THEN /\ loc' = [loc EXCEPT !.modes = Tail(@), !.scan = Len(waiting)]
                      /\ UNCHANGED pc
                 ELSE /\ loc' = DecodeLocals(loc)
                      /\ pc' = "decode"
            /\ UNCHANGED <<isPrefill, todo>>
  /\ UNCHANGED <<seqVars, queueVars, resident, kvVars, batch, victim, finished, raised>>

-----------------------------------------------------------------------------
(* Phase 2: decode.  Short texts have the turn while there is one.         *)

DecodeCandidate(i) == FirstAt(decoding, i, LAMBDA s : IsLongText(s) = loc.longTurn)

DecodeLoop == pc = "decode" /\ loc.scan > 0 /\ Len(batch) < MaxDecoding

\* Mutant: what this scan already promised is not subtracted.
DecodeFitsAlone(s) == DecodeStepFreeSlotsFor(s) >= DecodeStepReservationCost(s)

DecodeFits(s) ==
  Least(loc.decodeFree, DecodeStepFreeSlotsFor(s)) >= DecodeStepReservationCost(s)

DecodeScheduled(i) ==
  /\ DecodeLoop
  /\ DecodeCandidate(i)
  /\ DecodeFits(decoding[i])
  /\ batch' = Append(batch, decoding[i])
  /\ decoding' = RemoveAt(decoding, i)
  /\ loc' = [loc EXCEPT !.scan = @ - 1,
                        !.decodeFree = @ - DecodeStepReservationCost(decoding[i])]
  /\ UNCHANGED <<seqVars, waiting, resident, kvVars, pc, isPrefill, todo, victim,
                 finished, raised>>

\* A candidate that does not fit goes to the tail and is remembered as the
\* victim; with no capacity left at all the scan ends here.
DecodeBlocked(i) ==
  /\ DecodeLoop
  /\ DecodeCandidate(i)
  /\ ~DecodeFits(decoding[i])
  /\ loc.decodeFree > 0 \/ batch # <<>>
  /\ victim' = IF victim = {} THEN {decoding[i]} ELSE victim
  /\ decoding' = Append(RemoveAt(decoding, i), decoding[i])
  /\ loc' = [loc EXCEPT !.scan = IF loc.decodeFree > 0 THEN @ - 1 ELSE 0]
  /\ UNCHANGED <<seqVars, waiting, resident, kvVars, pc, batch, isPrefill, todo,
                 finished, raised>>

\* Mutant: a waiting replay alone justifies evicting the last decode request.
SoleDecodeNeverStuck(v, rest) == completion[v] > 0 /\ rest = <<>> /\ ~ReplayWaiting

\* The check that opens _preempt_decode_victim: evicting the only decode
\* request must not just rebuild the same state.
SoleDecodeStuck(v, rest) ==
  /\ completion[v] > 0
  /\ rest = <<>>
  /\ ~(ReplayWaiting /\ completion[v] > checkpoint[v])

\* Progress is counted from here on for the victim and for every survivor.
CheckpointHandoff(v, rest) ==
  [s \in Reqs |-> IF s = v \/ s \in ToSet(rest) THEN completion[s] ELSE checkpoint[s]]

\* _preempt_decode_victim, with v already taken out of decoding, and
\* _release_preempted_sequences; step() returns without running a batch.
PreemptDecodeVictim(v, rest) ==
  IF SoleDecodeStuck(v, rest) THEN
    /\ Raise("sole_decode")
    /\ decoding' = rest
    /\ UNCHANGED <<seqVars, waiting, resident, kvVars>>
  ELSE
    /\ status' = [status EXCEPT ![v] = "waiting"]
    /\ cursor' = [cursor EXCEPT ![v] = IF completion[v] > 0 THEN 0 ELSE @]
    /\ prefilled' = [prefilled EXCEPT ![v] = 0]
    /\ chunk' = [chunk EXCEPT ![v] = IF completion[v] > 0 THEN 0 ELSE @]
    /\ checkpoint' = CheckpointHandoff(v, rest)
    /\ waiting' = Append(waiting, v)
    /\ decoding' = rest
    /\ IF v \in rows
         THEN FreeSeqPayload(v) /\ Return
         ELSE Raise("no_row") /\ UNCHANGED <<resident, kvVars>>
    /\ UNCHANGED <<completion, published>>

\* Nothing fits and nothing is scheduled: the candidate itself is evicted.
PreemptCandidate(i) ==
  /\ DecodeLoop
  /\ DecodeCandidate(i)
  /\ ~DecodeFits(decoding[i])
  /\ loc.decodeFree <= 0 /\ batch = <<>>
  /\ PreemptDecodeVictim(decoding[i], RemoveAt(decoding, i))

DecodeScanDone ==
  /\ pc = "decode"
  /\ ~(DecodeLoop /\ \E i \in DOMAIN decoding : DecodeCandidate(i))

\* The whole scan found nobody that fits: evict the first that did not.
PreemptBlocked(i) ==
  /\ DecodeScanDone
  /\ batch = <<>>
  /\ i \in DOMAIN decoding
  /\ victim = {decoding[i]}
  /\ PreemptDecodeVictim(decoding[i], RemoveAt(decoding, i))

\* Nothing to run and nobody to evict.  The checks are made in this order;
\* the last one is step()'s own.
NothingRunnable ==
  /\ DecodeScanDone
  /\ batch = <<>>
  /\ victim = {}
  /\ Raise(IF decoding # <<>> THEN "no_runnable"
           ELSE IF "step" \in loc.failures THEN "step"
           ELSE IF "capacity" \in loc.failures THEN "capacity"
           ELSE IF "deferred" \in loc.failures THEN "deferred"
           ELSE "no_runnable")
  /\ UNCHANGED <<seqVars, queueVars, resident, kvVars>>

\* Mutant: the scheduled batch is not put back.
PutNothingBack(q) == q

\* The scheduled requests return to the front of the queue they were popped from.
PutBack(q) == batch \o q

\* The first request that was blocked goes before them.
EndDecodeScan ==
  /\ DecodeScanDone
  /\ batch # <<>>
  /\ \/ /\ victim = {}
        /\ decoding' = PutBack(decoding)
     \/ \E i \in DOMAIN decoding :
          /\ victim = {decoding[i]}
          /\ decoding' = <<decoding[i]>> \o PutBack(RemoveAt(decoding, i))
  /\ pc' = "prepare"
  /\ todo' = batch
  /\ victim' = {}
  /\ UNCHANGED <<seqVars, waiting, resident, kvVars, batch, isPrefill, finished,
                 raised, loc>>

-----------------------------------------------------------------------------
(* model_runner.run: prepare_step allocates the KV of the batch.           *)

\* _prepare_prefill allocates one chunk after the other.
PrepareChunk ==
  /\ pc = "prepare"
  /\ isPrefill
  /\ todo # <<>>
  /\ LET s == Head(todo) IN
     IF s \in rows /\ kvLen[s] # prefilled[s]
       THEN Raise("row_mismatch") /\ UNCHANGED kvVars
     ELSE IF ~HasPagesFor(s, chunk[s])
       THEN Raise("out_of_pages") /\ UNCHANGED kvVars
     ELSE IF ~HasRowFor(s)
       THEN Raise("no_free_row") /\ UNCHANGED kvVars
     ELSE /\ Allocate(s, chunk[s])
          /\ todo' = Tail(todo)
          /\ UNCHANGED <<pc, batch, isPrefill, victim, finished, raised, loc>>
  /\ UNCHANGED <<seqVars, queueVars, resident>>

\* decode_input_token: there is an accepted token left to replay.
HasDecodeInput(s) == IsRecomputeDecode(s) => cursor[s] < ReplayDecodeTokenCount(s)

\* _prepare_decode allocates one token for the whole batch at once.
PrepareDecode ==
  /\ pc = "prepare"
  /\ ~isPrefill
  /\ todo # <<>>
  /\ IF \E s \in ToSet(batch) : ~HasDecodeInput(s)
       THEN Raise("no_decode_input") /\ UNCHANGED kvVars
     ELSE IF Cardinality(rows \union ToSet(batch)) > NumRows
       THEN Raise("no_free_row") /\ UNCHANGED kvVars
     ELSE IF NeededPages(ToSet(batch)) > freePages
       THEN Raise("out_of_pages") /\ UNCHANGED kvVars
     ELSE /\ AllocateBatch(ToSet(batch))
          /\ todo' = <<>>
          /\ UNCHANGED <<pc, batch, isPrefill, victim, finished, raised, loc>>
  /\ UNCHANGED <<seqVars, queueVars, resident>>

\* The forward pass and the sampler ran; postprocess walks over the batch.
EndPrepare ==
  /\ pc = "prepare"
  /\ todo = <<>>
  /\ pc' = "postprocess"
  /\ todo' = batch
  /\ UNCHANGED <<seqVars, queueVars, resident, kvVars, batch, isPrefill, victim,
                 finished, raised, loc>>

-----------------------------------------------------------------------------
(* Phase 3: Scheduler.postprocess, and what step() publishes.              *)

\* The sample of s goes into last_step_token_outputs.
Publishes(s) == ShouldPublishSample(s) /\ (isPrefill => IsLastChunkPrefill(s))

PublishedAfter(s) ==
  [published EXCEPT ![s] = IF Publishes(s) THEN @ + 1 ELSE @]

Postprocess(s) ==
  /\ pc = "postprocess"
  /\ todo # <<>>
  /\ s = Head(todo)
  /\ todo' = Tail(todo)
  /\ published' = PublishedAfter(s)
  /\ UNCHANGED <<chunk, resident, kvVars, pc, batch, isPrefill, victim, raised, loc>>

FinishRecomputeReplay(s) ==
  /\ cursor' = [cursor EXCEPT ![s] = NoReplay]
  /\ checkpoint' = [checkpoint EXCEPT ![s] = completion[s]]

\* Mutant: the budget is compared with the count before the new token.
StopsLate(s, eos) == eos \/ completion[s] = MaxTokens[s]

\* The request stops at an EOS or at its token budget.
Stops(s, eos) == eos \/ completion[s] + 1 = MaxTokens[s]

\* More chunks to go: back to the head of the queue.
PostPrefillPartial(s) ==
  /\ Postprocess(s)
  /\ isPrefill
  /\ ~IsLastChunkPrefill(s)
  /\ prefilled' = [prefilled EXCEPT ![s] = @ + chunk[s]]
  /\ status' = [status EXCEPT ![s] = "waiting"]
  /\ waiting' = <<s>> \o waiting
  /\ UNCHANGED <<completion, cursor, checkpoint, decoding, finished>>

\* The prompt of a replay is rebuilt; the sample is discarded.
PostPrefillReplay(s) ==
  /\ Postprocess(s)
  /\ isPrefill
  /\ IsLastChunkPrefill(s)
  /\ IsReplay(s)
  /\ prefilled' = [prefilled EXCEPT ![s] = @ + chunk[s]]
  /\ status' = [status EXCEPT ![s] = "running"]
  /\ decoding' = Append(decoding, s)
  /\ IF ReplayDecodeTokenCount(s) = 0
       THEN FinishRecomputeReplay(s)
       ELSE UNCHANGED <<cursor, checkpoint>>
  /\ UNCHANGED <<completion, waiting, finished>>

\* The first token of a request.
PostPrefillToken(s, eos) ==
  /\ Postprocess(s)
  /\ isPrefill
  /\ IsLastChunkPrefill(s)
  /\ ~IsReplay(s)
  /\ prefilled' = [prefilled EXCEPT ![s] = @ + chunk[s]]
  /\ completion' = [completion EXCEPT ![s] = @ + 1]
  /\ IF Stops(s, eos)
       THEN /\ status' = [status EXCEPT ![s] = "finished"]
            /\ finished' = Append(finished, s)
            /\ UNCHANGED decoding
       ELSE /\ status' = [status EXCEPT ![s] = "running"]
            /\ decoding' = Append(decoding, s)
            /\ UNCHANGED finished
  /\ UNCHANGED <<cursor, checkpoint, waiting>>

\* advance_recompute_replay.
PostDecodeReplay(s) ==
  /\ Postprocess(s)
  /\ ~isPrefill
  /\ IsRecomputeDecode(s)
  /\ IF cursor[s] + 1 >= ReplayDecodeTokenCount(s)
       THEN FinishRecomputeReplay(s)
       ELSE /\ cursor' = [cursor EXCEPT ![s] = @ + 1]
            /\ UNCHANGED checkpoint
  /\ UNCHANGED <<status, prefilled, completion, queueVars, finished>>

PostDecodeToken(s, eos) ==
  /\ Postprocess(s)
  /\ ~isPrefill
  /\ ~IsRecomputeDecode(s)
  /\ completion' = [completion EXCEPT ![s] = @ + 1]
  /\ IF Stops(s, eos)
       THEN /\ status' = [status EXCEPT ![s] = "finished"]
            /\ finished' = Append(finished, s)
            /\ \E i \in DOMAIN decoding :
                 decoding[i] = s /\ decoding' = RemoveAt(decoding, i)
       ELSE UNCHANGED <<status, finished, decoding>>
  /\ UNCHANGED <<prefilled, cursor, checkpoint, waiting>>

EndPostprocess ==
  /\ pc = "postprocess"
  /\ todo = <<>>
  /\ pc' = "free"
  /\ UNCHANGED <<seqVars, queueVars, resident, kvVars, batch, isPrefill, todo,
                 victim, finished, raised, loc>>

\* finish_slots_batch over finished_seq_ids, then step() returns.
FreeFinished ==
  /\ pc = "free"
  /\ finished # <<>>
  /\ LET s == Head(finished) IN
     IF s \in rows
       THEN /\ FreeSeqPayload(s)
            /\ finished' = Tail(finished)
            /\ UNCHANGED <<pc, batch, isPrefill, todo, victim, raised, loc>>
       ELSE Raise("no_row") /\ UNCHANGED <<resident, kvVars>>
  /\ UNCHANGED <<seqVars, queueVars>>

EndStep ==
  /\ pc = "free"
  /\ finished = <<>>
  /\ Return
  /\ UNCHANGED <<seqVars, queueVars, resident, kvVars>>

-----------------------------------------------------------------------------
Prefilling ==
  \/ \E i \in DOMAIN waiting :
       PrefillBlocked(i) \/ PrefillDeferred(i) \/ PrefillScheduled(i)
  \/ EndPrefillScan

Decoding ==
  \/ \E i \in DOMAIN decoding :
       DecodeScheduled(i) \/ DecodeBlocked(i) \/ PreemptCandidate(i) \/ PreemptBlocked(i)
  \/ NothingRunnable
  \/ EndDecodeScan

Running == PrepareChunk \/ PrepareDecode \/ EndPrepare

Postprocessing ==
  \/ \E s \in Reqs :
       \/ PostPrefillPartial(s) \/ PostPrefillReplay(s) \/ PostDecodeReplay(s)
       \/ \E eos \in BOOLEAN : PostPrefillToken(s, eos) \/ PostDecodeToken(s, eos)
  \/ EndPostprocess

Freeing == FreeFinished \/ EndStep

EngineStep == BeginSchedule \/ Prefilling \/ Decoding \/ Running \/ Postprocessing \/ Freeing

Clients ==
  \/ \E s \in Reqs : AddRequest(s)
  \/ \E s \in MayAbort : AbortRequest(s)

Next == EngineStep \/ Clients

\* The dispatcher keeps calling step() while a request is queued.
Spec == Init /\ [][Next]_vars /\ WF_vars(EngineStep)

-----------------------------------------------------------------------------
(* Properties.                                                             *)

Live == {s \in Reqs : status[s] \in {"waiting", "running"}}

\* The sequences the step holds outside the queues: a prefill batch until
\* postprocess files each one, a decode batch until the end of its scan.
InHand ==
  IF pc \in {"prefill", "decode"} THEN batch
  ELSE IF isPrefill /\ pc = "prepare" THEN batch
  ELSE IF isPrefill /\ pc = "postprocess" THEN todo
  ELSE <<>>

TypeOK ==
  /\ KvTypeOK
  /\ status \in [Reqs -> {"new", "waiting", "running", "finished"}]
  /\ prefilled \in [Reqs -> Nat]
  /\ completion \in [Reqs -> Nat]
  /\ chunk \in [Reqs -> Nat]
  /\ cursor \in [Reqs -> Nat \union {NoReplay}]
  /\ checkpoint \in [Reqs -> Nat]
  /\ published \in [Reqs -> Nat]
  /\ waiting \in Seq(Reqs) /\ decoding \in Seq(Reqs)
  /\ resident \in SUBSET Reqs
  /\ pc \in Phases
  /\ batch \in Seq(Reqs) /\ todo \in Seq(Reqs) /\ finished \in Seq(Reqs)
  /\ isPrefill \in BOOLEAN
  /\ victim \in SUBSET Reqs
  /\ raised \in Raises \union {"none"}
  /\ loc \in Locals

\* No request is lost and none is queued twice: every request that is not
\* finished sits in exactly one of waiting, decoding and the batch in hand,
\* in every intermediate state of scheduling, preemption, chunk hand-back and
\* completion.  (A request popped and not put back would hold its KV forever.)
RequestsOwnedOnce ==
  pc # "raised" =>
    /\ IsInjective(waiting \o decoding \o InHand)
    /\ ToSet(waiting \o decoding \o InHand) = Live

\* Between steps the resident KV of a request is exactly its history: the
\* prefilled part of the prompt while it waits, the prompt and all accepted
\* tokens but the last while it decodes, the part rebuilt so far during a
\* replay, and nothing once it is finished.  Decode reads a wrong position,
\* or a finished request leaks rows, as soon as one of them drifts.
HistoryLen(s) ==
  IF s \in ToSet(waiting) THEN prefilled[s]
  ELSE IF s \notin ToSet(decoding) THEN 0
  ELSE PromptLen[s] + (IF IsReplay(s) THEN cursor[s] ELSE completion[s] - 1)

KvMatchesHistory ==
  pc = "idle" =>
    /\ \A s \in Reqs : kvLen[s] = HistoryLen(s)
    /\ rows = {s \in Reqs : kvLen[s] > 0}
    /\ resident = rows

\* A token is streamed once: every sample handed to the client is appended to
\* the history and no step of a replay hands out one again.
PublishedOnce == published = completion

\* The prompt of a replay is rebuilt alone: no other prompt shares its prefill
\* batch and everyone who was decoding has drained.
ReplayIsolated ==
  (pc = "prepare" /\ isPrefill) =>
    \A i \in DOMAIN batch : IsReplay(batch[i]) => Len(batch) = 1 /\ decoding = <<>>

\* The checks the code makes on itself hold: the resident_seqs budget alone
\* keeps the row table from running out, a sequence that is released owns a
\* row, a chunk starts where the row ends, a replay decodes an accepted token,
\* and no fully prefilled request is picked from waiting.
SelfChecksHold ==
  raised \notin {"no_free_row", "no_row", "row_mismatch", "no_decode_input", "not_waiting"}

\* What the scheduler promises the cache manager: a batch it commits fits
\* the free pages.
CommittedBatchFits == raised # "out_of_pages"

\* The scheduler implements RequestService: a client that sees only streams
\* and completions cannot tell that requests are chunked, batched, evicted
\* and rebuilt, and no token follows the end of a stream.
Service == INSTANCE RequestService WITH
  phase <- [s \in Reqs |-> IF status[s] = "new" THEN "new"
                           ELSE IF status[s] = "finished" THEN "done" ELSE "active"],
  tokens <- published

ImplementsService == Service!Spec

\* step() ends, by returning or by raising.
StepEnds == pc # "idle" ~> pc \in {"idle", "raised"}

\* Every request ends, or the engine reports that it cannot go on: preemption
\* and replay never chase each other for ever.
RequestsSettle ==
  \A s \in Reqs : status[s] = "waiting" ~> (status[s] = "finished" \/ pc = "raised")

=============================================================================
