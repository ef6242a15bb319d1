----------------------------- MODULE ChainCache -----------------------------
(***************************************************************************)
(* The linear chain prefix cache: ChainCacheIndex and                      *)
(* ChainCacheCoordinator (engine/chain_cache.py), the chain entry points   *)
(* of RuntimeState (engine/runtime_state.py) and of LLMEngine              *)
(* (engine/llm_engine.py), over the rows and slots of the SnapKV cache     *)
(* manager (engine/cache_manager/snapkv.py).                               *)
(*                                                                         *)
(* A chain is a conversation whose compressed KV row stays resident        *)
(* between turns.  A turn is admitted against a plan that names the IDLE   *)
(* chains to evict and the growth to reserve; while the turn runs its row  *)
(* grows at every prefill chunk, shrinks to the layer budget at the last   *)
(* one and grows again at every decode; at the end the row is kept and the *)
(* chain is IDLE.                                                          *)
(*                                                                         *)
(* A layer that SnapKV keeps in full is a layer whose Budget is            *)
(* MaxModelLen: no row is longer, so it is never compacted.  The clock of  *)
(* last_access values is abstracted to the order it induces.  Token ids    *)
(* and digests are abstracted to lengths and to whether the input agrees   *)
(* with the processed prefix.  The scheduler is the one of module          *)
(* Scheduler with batches of one sequence and snapkv_window_size 1; which  *)
(* runnable sequence it takes is a free choice here.  As there, an         *)
(* exception that leaves step() is final.                                  *)
(***************************************************************************)
EXTENDS Integers, FiniteSets, FiniteSetsExt, Functions, Sums

CONSTANTS
  MaxChains,      \* bound on the chain ids the server issues
  Layers,         \* KV layers
  Budget,         \* tokens SnapKV keeps per layer after a prompt
  Slots,          \* KV slots of every layer
  NumRows,        \* max_num_seqs_in_gpu
  MaxModelLen,    \* max_model_len
  ChunkSize,      \* engine_prefill_chunk_size
  PromptLens,     \* lengths of the prompts clients send
  MaxTokens,      \* values of max_tokens clients ask for
  MaxTombstones   \* chain_cache_max_tombstones

ASSUME ChainAssumption ==
  /\ MaxChains \in Nat
  /\ IsFiniteSet(Layers) /\ Layers # {}
  /\ Budget \in [Layers -> Nat \ {0}]
  /\ Slots \in Nat
  /\ NumRows \in Nat \ {0}
  /\ MaxModelLen \in Nat \ {0}
  /\ ChunkSize \in Nat \ {0}
  /\ PromptLens \in SUBSET (Nat \ {0})
  /\ MaxTokens \in SUBSET (Nat \ {0})
  /\ MaxTombstones \in Nat \ {0}

VARIABLES
  index,    \* ChainCacheIndex
  rows,     \* seq_id_to_row and row_seq_lens: seq -> [len, seen]
  seqs,     \* the Sequence objects in the scheduler's queues
  active,   \* keys of _active_chain_sequences
  nextId,   \* the next id new_chain_id hands to a client
  raised    \* "none", or what left step() as an exception

vars == <<index, rows, seqs, active, nextId, raised>>

Ids == 1..MaxChains

\* A Sequence gets a fresh seq_id; the chain created with it has the number
\* that was fresh at the same moment.
SeqIds == Ids

NoReplay == -1

\* max(0, a - b)
Monus(a, b) == IF a > b THEN a - b ELSE 0

Larger(a, b) == IF a > b THEN a ELSE b

Smaller(a, b) == IF a < b THEN a ELSE b

Without(f, S) == Restrict(f, DOMAIN f \ S)

With(f, x, v) == [y \in DOMAIN f \cup {x} |-> IF y = x THEN v ELSE f[y]]

Nothing == [l \in Layers |-> 0]

-----------------------------------------------------------------------------
(* ChainCacheIndex.  A clock stamps every record when it is used and every *)
(* tombstone when it is added; an order is the set of pairs <<c, d>> with   *)
(* an earlier stamp on c.                                                   *)

Record ==
  [seq : SeqIds, state : {"active", "idle"}, processed : Nat, tokens : Nat,
   slots : [Layers -> Nat], reserved : [Layers -> Nat], reservedRows : {0, 1}]

InState(ix, state) == {c \in DOMAIN ix.records : ix.records[c].state = state}

Among(order, S) == order \cap (S \X S)

\* _tick: c gets the latest stamp of S.
Touch(order, S, c) == Among(order, S \ {c}) \cup ((S \ {c}) \X {c})

\* Mutant: the oldest tombstones are kept.
AddTombstonesUntrimmed(ix, cs) ==
  LET old == ix.tombstones.ids \ cs
  IN  [ids   |-> old \cup cs,
       order |-> Among(ix.tombstones.order, old) \cup (old \X cs) \cup Among(ix.used, cs)]

\* _add_tombstone for the chains cs, in the order they were used.
AddTombstones(ix, cs) ==
  LET old == ix.tombstones.ids \ cs
      all == old \cup cs
      order == Among(ix.tombstones.order, old) \cup (old \X cs) \cup Among(ix.used, cs)
      kept == {c \in all : Cardinality({d \in all : <<c, d>> \in order}) < MaxTombstones}
  IN  [ids |-> kept, order |-> Among(order, kept)]

HistoryOf(ix, cs) == SumOver(cs, LAMBDA c : ix.records[c].tokens)

\* Mutant: the running total is not lowered.
ForgetKeepsHistory(ix, cs) ==
  [records    |-> Without(ix.records, cs),
   bySeq      |-> Without(ix.bySeq, {ix.records[c].seq : c \in cs}),
   used       |-> Among(ix.used, DOMAIN ix.records \ cs),
   tombstones |-> AddTombstones(ix, cs),
   history    |-> ix.history]

\* Mutant: the inverse map keeps the sequence.
ForgetKeepsOwner(ix, cs) ==
  [records    |-> Without(ix.records, cs),
   bySeq      |-> ix.bySeq,
   used       |-> Among(ix.used, DOMAIN ix.records \ cs),
   tombstones |-> AddTombstones(ix, cs),
   history    |-> ix.history - HistoryOf(ix, cs)]

\* invalidate, and evict (which refuses an ACTIVE chain before it starts), one
\* after the other for the chains cs.
Forget(ix, cs) ==
  [records    |-> Without(ix.records, cs),
   bySeq      |-> Without(ix.bySeq, {ix.records[c].seq : c \in cs}),
   used       |-> Among(ix.used, DOMAIN ix.records \ cs),
   tombstones |-> AddTombstones(ix, cs),
   history    |-> ix.history - HistoryOf(ix, cs)]

-----------------------------------------------------------------------------
(* Capacity: the cache manager's hook and the coordinator's reservations.  *)

FreeSlots(rw, l) == Slots - SumOver(DOMAIN rw, LAMBDA s : rw[s].len[l])

\* num_free_slots: the scarcest layer
MinFree(rw) == Min({FreeSlots(rw, l) : l \in Layers})

FreeRows(rw) == NumRows - Cardinality(DOMAIN rw)

\* Peak growth over existing slots of a turn that adds suffix tokens and
\* samples up to gen tokens, the last of which is never run.
RequiredSlots(existing, suffix, gen, l) ==
  LET prefillPeak == existing + suffix
      afterPrefill == IF suffix > 0 THEN Smaller(prefillPeak, Budget[l]) ELSE existing
  IN  Larger(prefillPeak, afterPrefill + gen - 1) - existing

\* Mutant: the whole growth is taken for realized once the row is resident.
OutstandingUntilResident(record, rw, l) ==
  IF record.seq \in DOMAIN rw THEN 0 ELSE record.reserved[l]

\* What an ACTIVE chain may still claim of its reservation on layer l: the
\* reservation less the growth its row has realized since it was admitted.
Outstanding(record, rw, l) ==
  LET current == IF record.seq \in DOMAIN rw THEN rw[record.seq].len[l] ELSE record.slots[l]
  IN  Monus(record.reserved[l], Monus(current, record.slots[l]))

\* What all ACTIVE chains may still claim.
OutstandingSlots(ix, rw, l) ==
  SumOver(InState(ix, "active"), LAMBDA c : Outstanding(ix.records[c], rw, l))

OutstandingRows(ix, rw) ==
  SumOver(InState(ix, "active"),
          LAMBDA c : Monus(ix.records[c].reservedRows,
                           IF ix.records[c].seq \in DOMAIN rw THEN 1 ELSE 0))

\* Mutant: a running chain may be a victim.
CandidatesOfAnyState(ix, c) == DOMAIN ix.records \ {c}

\* The IDLE chains other than c.
Candidates(ix, c) == InState(ix, "idle") \ {c}

\* The least recently used candidates: as many as one likes, but with a
\* candidate all that were used before it.
LeastRecent(ix, c) ==
  {V \in SUBSET Candidates(ix, c) :
     \A d \in V, e \in Candidates(ix, c) : <<e, d>> \in ix.used => e \in V}

\* plan_admission: the victims, growth and rows for a turn on chain c.  As few
\* of the least recently used are taken as cover the deficits; no plan exists
\* when evicting every candidate leaves one.
Plans(ix, rw, c, seq, prompt, gen) ==
  LET known == c \in DOMAIN ix.records
      existing == IF known THEN ix.records[c].slots ELSE Nothing
      reused == IF known THEN ix.records[c].processed ELSE 0
      required == [l \in Layers |-> RequiredSlots(existing[l], Monus(prompt, reused), gen, l)]
      requiredRows == IF known THEN 0 ELSE 1
      slotDeficit(l) == Monus(required[l], Monus(FreeSlots(rw, l), OutstandingSlots(ix, rw, l)))
      rowDeficit == Monus(requiredRows, Monus(FreeRows(rw), OutstandingRows(ix, rw)))
      covers(V) == /\ rowDeficit <= Cardinality(V)
                   /\ \A l \in Layers :
                        slotDeficit(l) <= SumOver(V, LAMBDA d : ix.records[d].slots[l])
      victims == {V \in LeastRecent(ix, c) :
                    covers(V) /\ \A W \in LeastRecent(ix, c) : covers(W) => V \subseteq W}
  IN  {[chain |-> c, seq |-> seq, reused |-> reused, victims |-> V,
        reserved |-> required, reservedRows |-> requiredRows] : V \in victims}

-----------------------------------------------------------------------------
(* RuntimeState: the index and the payload move together.                  *)

\* apply_admission on the index: evict the victims, then create the record or
\* take the IDLE one.
ApplyAdmission(ix, plan) ==
  LET left == Forget(ix, plan.victims)
      fresh == [seq |-> plan.seq, state |-> "active", processed |-> 0, tokens |-> 0,
                slots |-> Nothing, reserved |-> plan.reserved,
                reservedRows |-> plan.reservedRows]
      record == IF plan.chain \in DOMAIN left.records
                THEN [left.records[plan.chain] EXCEPT !.state = "active",
                        !.reserved = plan.reserved, !.reservedRows = plan.reservedRows]
                ELSE fresh
  IN  [left EXCEPT !.records = With(@, plan.chain, record),
                   !.bySeq = With(@, plan.seq, plan.chain),
                   !.used = Touch(@, DOMAIN left.records, plan.chain)]

\* chain_apply_admission: the victims' rows are freed with their records.
FreeVictims(ix, rw, plan) ==
  Without(rw, {ix.records[c].seq : c \in plan.victims})

\* Mutant: the token sampled last is counted as run.
BoundaryOfAll(n) == n

\* The processed boundary of a turn of n tokens: the token sampled last was
\* never run.
Boundary(n) == n - 1

\* chain_finish: the row is kept and measured, the reservation is released.
FinishTurn(ix, rw, s, n) ==
  LET c == ix.bySeq[s]
  IN  [ix EXCEPT !.records[c] = [@ EXCEPT !.state = "idle", !.processed = Boundary(n),
                                          !.slots = rw[s].len, !.reserved = Nothing,
                                          !.reservedRows = 0],
                 !.used = Touch(@, DOMAIN ix.records, c)]

\* remember_processed_tokens, on rank 0 only
Remember(ix, s, n) ==
  LET c == ix.bySeq[s]
  IN  [ix EXCEPT !.records[c].tokens = n,
                 !.history = @ - ix.records[c].tokens + n]

\* max_token_history_tokens
HistoryCapacity == MaxModelLen * NumRows

\* The check of chain_finish or remember_processed_tokens that fails, if any.
FinishError(ix, rw, s, n) ==
  IF s \notin DOMAIN ix.bySeq \/ s \notin DOMAIN rw THEN "lost chain"
  ELSE LET record == ix.records[ix.bySeq[s]]
       IN  IF record.state # "active" THEN "not active"
           ELSE IF Boundary(n) < record.processed THEN "boundary moved backwards"
           ELSE IF ix.history - record.tokens + n > HistoryCapacity THEN "history full"
           ELSE "none"

-----------------------------------------------------------------------------
(* LLMEngine.admit_request.                                                *)

Running == raised = "none"

\* validate, apply and enqueue; the prompt beyond the boundary is to be run.
Admit(ix, rw, plan, prompt, gen) ==
  /\ index' = ApplyAdmission(ix, plan)
  /\ rows' = FreeVictims(ix, rw, plan)
  /\ seqs' = With(seqs, plan.seq,
                   [prompt |-> prompt, prefilled |-> plan.reused, completion |-> 0,
                    maxTokens |-> gen, replay |-> NoReplay, queue |-> "waiting"])
  /\ active' = active \cup {plan.seq}

Fits(prompt, gen) == prompt + gen <= MaxModelLen

\* A request without a chain_id.
AdmitNew(prompt, gen) ==
  /\ Running /\ Fits(prompt, gen) /\ nextId \in Ids
  /\ \E plan \in Plans(index, rows, nextId, nextId, prompt, gen) :
       Admit(index, rows, plan, prompt, gen)
  /\ nextId' = nextId + 1
  /\ UNCHANGED raised

\* A request that names an IDLE chain and agrees with its processed prefix.
\* An append-only request is one whose prompt is longer than the history.
AdmitResume(c, prompt, gen) ==
  /\ Running /\ Fits(prompt, gen)
  /\ c \in InState(index, "idle")
  /\ prompt > index.records[c].processed
  /\ \E plan \in Plans(index, rows, c, index.records[c].seq, prompt, gen) :
       Admit(index, rows, plan, prompt, gen)
  /\ UNCHANGED <<nextId, raised>>

\* A request that names an IDLE chain and departs from its processed prefix:
\* the chain is invalidated first and a new one is planned under its seq_id.
\* When no plan exists the request fails and the old chain stays gone.
AdmitRecreate(c, prompt, gen) ==
  /\ Running /\ Fits(prompt, gen) /\ nextId \in Ids
  /\ c \in InState(index, "idle")
  /\ LET s == index.records[c].seq
         ix == Forget(index, {c})
         rw == Without(rows, {s})
         plans == Plans(ix, rw, nextId, s, prompt, gen)
     IN  IF plans = {}
         THEN index' = ix /\ rows' = rw /\ UNCHANGED <<seqs, active, nextId>>
         ELSE /\ \E plan \in plans : Admit(ix, rw, plan, prompt, gen)
              /\ nextId' = nextId + 1
  /\ UNCHANGED raised

-----------------------------------------------------------------------------
(* LLMEngine.abort_request, discard_chain and the failure path of step.    *)

\* Mutant: the sequence stays in the scheduler's queues.
InvalidateQueued(c) ==
  /\ index' = Forget(index, {c})
  /\ rows' = Without(rows, {index.records[c].seq})
  /\ active' = active \ {index.records[c].seq}
  /\ UNCHANGED seqs

\* Chain c is invalidated and its sequence leaves the engine.
InvalidateChain(c) ==
  /\ index' = Forget(index, {c})
  /\ rows' = Without(rows, {index.records[c].seq})
  /\ seqs' = Without(seqs, {index.records[c].seq})
  /\ active' = active \ {index.records[c].seq}

\* A cancelled request: its chain goes with it, also when the turn has ended.
AbortRequest(s) ==
  /\ Running /\ s \in DOMAIN index.bySeq
  /\ InvalidateChain(index.bySeq[s])
  /\ UNCHANGED <<nextId, raised>>

\* The response of a finished turn is rejected: the chain is thrown away if it
\* is still there.
DiscardChain(c) ==
  /\ Running /\ c \in DOMAIN index.records
  /\ InvalidateChain(c)
  /\ UNCHANGED <<nextId, raised>>

\* The forward pass of the sequence s raises, or _get_free_row finds no row for
\* it: the step fails and every chain of the batch is invalidated.
ModelFailure(s) ==
  /\ Running /\ s \in active
  /\ InvalidateChain(index.bySeq[s])
  /\ raised' = "model"
  /\ UNCHANGED nextId

-----------------------------------------------------------------------------
(* LLMEngine.step on one sequence.                                         *)

Queued(queue) == {s \in DOMAIN seqs : seqs[s].queue = queue}

\* The rest of the prompts that are partly prefilled.
ReservedPrefill ==
  SumOver({s \in Queued("waiting") : seqs[s].prefilled > 0},
          LAMBDA s : seqs[s].prompt - seqs[s].prefilled)

WaitingReplay == \E s \in Queued("waiting") : seqs[s].replay # NoReplay

CanPrefill(s) ==
  /\ s \in Queued("waiting")
  /\ ~(WaitingReplay /\ Queued("decoding") # {})
  /\ MinFree(rows) > 0
  /\ seqs[s].prefilled = 0 => seqs[s].prompt <= Monus(MinFree(rows), ReservedPrefill)

\* Mutant: max_tokens is not looked at.
EndsOnEos(seq, eos) == eos

\* Sampling ends with max_tokens tokens or with an EOS.
Ends(seq, eos) == eos \/ seq.completion = seq.maxTokens

\* postprocess and the finish loop, after s ran and became seq over rw.
Complete(s, seq, rw, sampled, eos) ==
  IF ~(sampled /\ Ends(seq, eos))
  THEN /\ seqs' = [seqs EXCEPT ![s] = seq]
       /\ UNCHANGED <<index, active, raised>>
  ELSE LET tokens == seq.prompt + seq.completion
           error == FinishError(index, rw, s, tokens)
       IN  /\ seqs' = Without(seqs, {s})
           /\ active' = active \ {s}
           /\ raised' = error
           /\ index' = CASE error = "none" -> Remember(FinishTurn(index, rw, s, tokens), s, tokens)
                         [] error = "history full" -> FinishTurn(index, rw, s, tokens)
                         [] OTHER -> index

\* The row of s after n more tokens were run.  len is row_seq_lens; seen counts
\* the tokens whose KV was written, compacted away since or not.
Grow(rw, s, n) ==
  LET old == IF s \in DOMAIN rw THEN rw[s] ELSE [len |-> Nothing, seen |-> 0]
  IN  With(rw, s, [len |-> [l \in Layers |-> old.len[l] + n], seen |-> old.seen + n])

\* _snapkv_prefill_eviction
Compact(rw, s) == [rw EXCEPT ![s].len = [l \in Layers |-> Smaller(@[l], Budget[l])]]

\* A chunk of k prompt tokens; the last one compacts the row and samples.
PrefillStep(s, k, eos) ==
  /\ Running /\ CanPrefill(s)
  /\ k <= seqs[s].prompt - seqs[s].prefilled /\ k <= MinFree(rows)
  /\ s \in DOMAIN rows \/ FreeRows(rows) > 0
  /\ LET seq == [seqs[s] EXCEPT !.prefilled = @ + k]
         last == seq.prefilled = seq.prompt
         sampled == last /\ seq.replay = NoReplay
         rw == IF last THEN Compact(Grow(rows, s, k), s) ELSE Grow(rows, s, k)
         done == [seq EXCEPT !.queue = IF last THEN "decoding" ELSE @,
                             !.completion = IF sampled THEN @ + 1 ELSE @,
                             !.replay = IF last /\ @ = 0 THEN NoReplay ELSE @]
     IN  rows' = rw /\ Complete(s, done, rw, sampled, eos)
  /\ UNCHANGED nextId

\* One decode: a replayed token is run again, any other is sampled.
DecodeStep(s, eos) ==
  /\ Running /\ s \in Queued("decoding")
  /\ ~\E w \in DOMAIN seqs : CanPrefill(w)
  /\ MinFree(rows) > 0
  /\ LET replaying == seqs[s].replay > 0
         rw == Grow(rows, s, 1)
         seq == IF ~replaying THEN [seqs[s] EXCEPT !.completion = @ + 1]
                ELSE [seqs[s] EXCEPT !.replay = IF @ = 1 THEN NoReplay ELSE @ - 1]
     IN  rows' = rw /\ Complete(s, seq, rw, ~replaying, eos)
  /\ UNCHANGED nextId

\* No slot is left for a decode: the victim's row is released and the sequence
\* goes back to be run again from its first token; its chain stays ACTIVE.
\* decode_progress_checkpoint is left out: with a replay waiting, the sole decode
\* is either evicted or refused (StepRaises).
Preempt(s) ==
  /\ Running /\ s \in Queued("decoding")
  /\ ~\E w \in DOMAIN seqs : CanPrefill(w)
  /\ MinFree(rows) = 0
  /\ Queued("decoding") # {s} \/ WaitingReplay
  /\ rows' = Without(rows, {s})
  /\ seqs' = [seqs EXCEPT ![s].queue = "waiting", ![s].prefilled = 0,
                          ![s].replay = seqs[s].completion - 1]
  /\ UNCHANGED <<index, active, nextId, raised>>

\* Nothing can be run: the sole decode has no slot, or no queued prompt fits.
StepRaises ==
  /\ Running
  /\ ~\E w \in DOMAIN seqs : CanPrefill(w)
  /\ \/ /\ Cardinality(Queued("decoding")) = 1
        /\ MinFree(rows) = 0
        /\ raised' = "sole decode"
     \/ /\ Queued("decoding") = {} /\ Queued("waiting") # {}
        /\ raised' = "stalled"
  /\ UNCHANGED <<index, rows, seqs, active, nextId>>

-----------------------------------------------------------------------------

Init ==
  /\ index = [records |-> <<>>, bySeq |-> <<>>, used |-> {},
              tombstones |-> [ids |-> {}, order |-> {}], history |-> 0]
  /\ rows = <<>>
  /\ seqs = <<>>
  /\ active = {}
  /\ nextId = 1
  /\ raised = "none"

Step ==
  \/ \E s \in DOMAIN seqs, eos \in BOOLEAN :
       DecodeStep(s, eos) \/ \E k \in 1..ChunkSize : PrefillStep(s, k, eos)
  \/ \E s \in DOMAIN seqs : Preempt(s)
  \/ StepRaises

Next ==
  \/ \E prompt \in PromptLens, gen \in MaxTokens :
       \/ AdmitNew(prompt, gen)
       \/ \E c \in DOMAIN index.records : AdmitResume(c, prompt, gen) \/ AdmitRecreate(c, prompt, gen)
  \/ \E s \in SeqIds : AbortRequest(s) \/ ModelFailure(s)
  \/ \E c \in Ids : DiscardChain(c)
  \/ Step

Spec == Init /\ [][Next]_vars

\* The dispatcher calls step() whenever the engine has work.
FairSpec == Spec /\ WF_vars(Step)

-----------------------------------------------------------------------------
(* Properties.                                                             *)

\* The type of every variable; the tombstones stay within their limit.
TypeOK ==
  /\ DOMAIN index.records \in SUBSET Ids
  /\ \A c \in DOMAIN index.records : index.records[c] \in Record
  /\ DOMAIN index.bySeq \in SUBSET SeqIds
  /\ \A s \in DOMAIN index.bySeq : index.bySeq[s] \in Ids
  /\ index.used \in SUBSET (Ids \X Ids)
  /\ index.tombstones.ids \in SUBSET Ids /\ index.tombstones.order \in SUBSET (Ids \X Ids)
  /\ Cardinality(index.tombstones.ids) <= MaxTombstones
  /\ index.history \in Nat
  /\ DOMAIN rows \in SUBSET SeqIds
  /\ \A s \in DOMAIN rows : rows[s] \in [len : [Layers -> Nat], seen : Nat]
  /\ DOMAIN seqs \in SUBSET SeqIds
  /\ \A s \in DOMAIN seqs :
       seqs[s] \in [prompt : Nat, prefilled : Nat, completion : Nat, maxTokens : Nat,
                    replay : Nat \cup {NoReplay}, queue : {"waiting", "decoding"}]
  /\ active \in SUBSET SeqIds
  /\ nextId \in 1..(MaxChains + 1)
  /\ raised \in {"none", "model", "sole decode", "stalled", "history full",
                 "lost chain", "not active", "boundary moved backwards"}

\* The stamps of S are different, and nothing else has one.
Orders(order, S) ==
  /\ order \subseteq S \X S
  /\ \A c, d \in S : c # d => (<<c, d>> \in order <=> <<d, c>> \notin order)
  /\ \A c, d, e \in S : <<c, d>> \in order /\ <<d, e>> \in order => <<c, e>> \in order
  /\ \A c \in S : <<c, c>> \notin order

\* Four structures of three classes describe who is running and who is
\* resident, and every path (admission, recreation, eviction, finish, abort,
\* failure) updates them one by one: the records and their inverse
\* seq_id_to_chain_id, the engine's active sequences, the scheduler's queues
\* and the rows.  They always agree: nothing is leaked and nobody is lost.
IndexAgrees ==
  /\ DOMAIN index.bySeq = {index.records[c].seq : c \in DOMAIN index.records}
  /\ \A c \in DOMAIN index.records : index.bySeq[index.records[c].seq] = c
  /\ active = {index.records[c].seq : c \in InState(index, "active")}
  /\ DOMAIN seqs = active
  /\ DOMAIN rows \subseteq DOMAIN index.bySeq
  /\ index.tombstones.ids \cap DOMAIN index.records = {}
  /\ Orders(index.used, DOMAIN index.records)
  /\ Orders(index.tombstones.order, index.tombstones.ids)

\* An IDLE chain is worth what its record says: its row is resident, the
\* eviction planner credits exactly the slots the row holds, and the processed
\* boundary a resuming client is matched against is exactly the number of
\* tokens whose KV was written, also when the turn was preempted and replayed.
IdleChainsAreExact ==
  \A c \in InState(index, "idle") :
    LET record == index.records[c]
    IN  /\ record.seq \in DOMAIN rows
        /\ rows[record.seq].len = record.slots
        /\ rows[record.seq].seen = record.processed
        /\ raised # "history full" => record.tokens = record.processed + 1

\* _token_history_tokens is a running total adjusted in four places: it equals
\* the histories that are stored.
HistoryIsCounted == index.history = HistoryOf(index, DOMAIN index.records)

\* The checks the code makes on its own bookkeeping never fire when a turn
\* finishes: the chain and its row are still there, it is ACTIVE, and the
\* boundary does not move backwards.
FinishChecksHold ==
  raised \notin {"lost chain", "not active", "boundary moved backwards"}

\* What the turn of s may still add to layer l beyond what its row holds.
FutureGrowth(s, l) ==
  LET have == IF s \in DOMAIN rows THEN rows[s].len[l] ELSE 0
      seq == seqs[s]
  IN  IF seq.queue = "decoding"
      THEN seq.maxTokens - seq.completion + Larger(0, seq.replay)
      ELSE RequiredSlots(have, seq.prompt - seq.prefilled, seq.maxTokens, l)

\* The reservations of admitted turns hold to the end: on every layer the free
\* slots cover what all running turns may still write, and every turn that has
\* no row yet will find one.
GrowthCovered ==
  /\ \A l \in Layers :
       SumOver(DOMAIN seqs, LAMBDA s : FutureGrowth(s, l)) <= FreeSlots(rows, l)
  /\ Cardinality(DOMAIN seqs \ DOMAIN rows) <= FreeRows(rows)

\* A turn that was admitted is never stranded: the scheduler never runs out of
\* slots or rows for it, and its history can be stored when it finishes.
NeverStranded ==
  raised \notin {"sole decode", "stalled", "history full"}

\* The life of every id, as its clients see it.
Life ==
  [c \in Ids |-> IF c \in DOMAIN index.records THEN index.records[c].state
                 ELSE IF c < nextId THEN "gone" ELSE "unborn"]

Lifecycle == INSTANCE ChainLifecycle WITH Ids <- Ids, life <- Life

\* The index implements the lifecycle its clients rely on: one writer per
\* chain, no ACTIVE chain sacrificed for an admission, no id ever revived.
ImplementsLifecycle == Lifecycle!Spec

\* Every admitted turn ends: its chain becomes IDLE or is dropped, unless the
\* model itself fails.  Neither a lack of slots nor of rows ends the wait.
EveryTurnEnds ==
  \A s \in SeqIds : (s \in active) ~> (s \notin active \/ raised = "model")
=============================================================================
