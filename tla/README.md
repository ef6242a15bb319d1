# A TLA+ verification of the sparse-vLLM serving engine

This directory holds TLA+ models of the parts of sparse-vLLM (`src/sparsevllm`)
whose correctness depends on the order of events: the scheduler with its
preemption and recompute replay and the KV page pool it budgets, the dispatcher
thread that connects clients to the engine, the cache of conversations (chains),
the prefix cache with its host tier, and the command channel between the
tensor-parallel ranks. TLC checks small instances; TLAPS proves the safety
of the scheduler with its pool, of the dispatcher, of the chain cache and of the
command channel for every instance.

## 1. The system

| Part | State it keeps | Operations | Talks to |
|---|---|---|---|
| OpenAI server (`entrypoints/openai/api_server.py`, `serving` helpers) | HTTP streams | render a prompt, stream an answer | submits to, cancels at and controls the dispatcher |
| Dispatcher (`entrypoints/openai/dispatcher.py`) | queues `_pending`, `_aborts`, `_controls`; `active`; `_closing`, `_failed_message` | `submit`, `cancel`, `discard`, `control`, `close`; the thread's `_run` | event-loop threads on one side, the engine on the other; the only caller of the engine |
| LLMEngine (`engine/llm_engine.py`) | the sequences by id, `last_step_token_outputs` | `admit_request`, `abort_request`, `step` | scheduler, model runner |
| Scheduler (`engine/scheduler.py`) | `waiting`, `decoding` | `add`, `abort`, `schedule`, `postprocess` | asks RuntimeState for capacity and costs |
| Sequence (`engine/sequence.py`) | status, prefilled and accepted tokens, replay cursor, progress checkpoint | start / advance / finish a recompute replay | owned by the scheduler |
| RuntimeState (`engine/runtime_state.py`) | `_resident_seq_ids` | admission budgets and costs, `free_seq` | cache manager, recurrent state, prefix coordinator |
| KV cache managers (`engine/cache_manager/`) | rows, resident lengths, free pages, page tables | `_allocate`, `_allocate_batch`, `free_seq`, capacity hooks | model runner |
| Prefix cache (`engine/prefix_cache.py`, `prefix_cache_coordinator.py`, `cache_manager/prefix_offload.py`) | radix tree of blocks, residency, reference counts | match, insert, evict, offload | cache managers |
| Chain cache (`engine/chain_cache.py`) | one resident sequence per conversation, tombstones | plan/apply admission, finish, invalidate, evict | LLMEngine |
| Model runner (`engine/model_runner.py`) | the tensor-parallel command channel | run a batch, free slots on every rank | cache manager on each rank |
| Smart router (`entrypoints/openai/smart_router.py`) | load snapshots of several servers | choose a worker | HTTP |
| Kernels, layers, models, sparse methods, CUDA graphs | tensors | numeric | – |

**What is hard.** The dispatcher runs one thread against any number of
event-loop callers; cancellation, shutdown and failure race with admission.
Inside the engine everything is sequential, yet a request passes through many
short-lived owners (queue, batch in hand, queue again), it can be evicted and
rebuilt at any point of its life, and every capacity decision is taken on
counters that are copies of the state of the pool. Chains and prefix blocks outlive
the request that computed them, so their owners change, and with the host tier
copies between the tiers are under way while the next step is planned. The
tensor-parallel ranks share one command buffer, fail one by one and have to stay in
step in their collectives. The hazards are listed, with
the line where each bites, in `PROJECT.json`.

## 2. The modules

| Module | Models | Role |
|---|---|---|
| `KvCache` | `cache_manager/quest.py`, and `standard.py` as the case `PageSize = 1` | state of the pool, capacity hooks, allocation and release |
| `Scheduler` | `scheduler.py`, `sequence.py`, `RuntimeState`, `LLMEngine.step`/`abort_request` | extends `KvCache` |
| `RequestService` | – | what the engine promises its clients; `Scheduler` implements it |
| `Dispatcher` | `dispatcher.py` | the thread, its queues and its callers, over an abstract engine |
| `ChainCache` | `chain_cache.py`, the chain entry points of `runtime_state.py` and `llm_engine.py`, rows and slots of `cache_manager/snapkv.py` | conversations that keep their row between turns |
| `ChainLifecycle` | – | what a chain id promises; `ChainCache` implements it |
| `PrefixCache` | `prefix_cache.py`, `cache_manager/prefix_cache_mixin.py`, `cache_manager/prefix_offload.py`, the prefix parts of `cache_manager/quest.py` | the radix index, its device and host tiers and the requests that use it |
| `TpChannel` | the command channel of `model_runner.py`, `LLMEngine.exit` and `_shutdown_runtime` | rank 0, its exit thread and the workers |
| `MCScheduler`, `MCDispatcher`, `MCChainCache`, `MCPrefixCache` | – | small workloads for TLC |
| `Sums` | – | sums over finite sets, for the pools and totals of `KvCache`, `ChainCache` and `PrefixCache` |
| `DataLemmas` | – | what queues and sums do under the changes the models make |
| `SchedulerProofs`, `OwnershipProofs`, `KvHistoryProofs` | – | theorems about `Scheduler` over `KvCache` |
| `DispatcherProofs`, `ChainCacheProofs`, `PrefixCacheProofs`, `TpChannelProofs` | – | theorems about the module of that name |

A definition that a plausible bug would change has its changed form just above it,
marked `Mutant:`. It is not part of the model: replacing the definition by it
breaks the property that guards the line.

### Scheduler and KvCache

One call of `step()` is a sequence of actions, one per iteration of the loops of
the code (`pc` says which loop):

```
idle --BeginSchedule--> prefill --(nothing fits)--> decode
                           |                          |
                           +-------> prepare <--------+--> idle (preemption)
                                        |
                                   postprocess --> free --> idle
```

* `BeginSchedule` – `_schedule_impl` up to its loops: the admission budgets, the
  order of the prefill modes, the scan budgets.
* `PrefillBlocked`, `PrefillDeferred`, `PrefillScheduled`, `EndPrefillScan` – one
  iteration of the prefill scan: the candidate does not fit the step, does not
  fit the admission budget, is scheduled; the scan is over.
* `DecodeScheduled`, `DecodeBlocked`, `PreemptCandidate`, `PreemptBlocked`,
  `NothingRunnable`, `EndDecodeScan` – the decode scan and its exits, with
  `_preempt_decode_victim` and the release of the victim's KV.
* `PrepareChunk`, `PrepareDecode`, `EndPrepare` – `prepare_step`: rows and pages
  are allocated; the assertions of the cache manager are modelled.
* `PostPrefillPartial`, `PostPrefillReplay`, `PostPrefillToken`,
  `PostDecodeReplay`, `PostDecodeToken` – one iteration of `postprocess` and the
  publication of the sample in `LLMEngine.step`.
* `FreeFinished`, `EndStep` – `finish_slots_batch` and the return of `step()`.
* `AddRequest`, `AbortRequest` – between two steps, as the dispatcher calls them.

An exception leaves the engine in the phase `"raised"` for good (the dispatcher
treats it as fatal) and the variable `raised` names the check. Token values are
abstracted: `completion[s]` counts accepted tokens and whether a sample is an EOS
is a free choice. Prefix caching is off, so every reclaimable-slot term is 0 and
`apply_prefix_cache_hit` finds nothing; `_respect_min_final_prefill_chunk` is the
identity for these managers, whose minimal final chunk is 1.

`published` counts what `last_step_token_outputs` handed out. The refinement
mapping to `RequestService` reads the phase of a request off its status and its
stream off `published`.

### Dispatcher

Callers run on event-loop threads, `_run` on its own. Every access that another
thread can come between is an action: `cancel` is `CancelCheck` (reads
`terminal`), `CancelFlag`, `CancelPut` (reads `seq_id`, queues the abort) and
`CancelWake`; `_admit` is `Admit`, `EnterEngine` (sets `seq_id`) and `Activate`
(reads `cancelled` again). `control` and `discard` queue an entry and a wake-up
under `_state_lock` (`lock`), while the thread, which takes no lock to read a
queue, may see the one before the other. `pc` follows the loop:

```
controls -> aborts -> get (idle) -> admit -> enter -> recheck -+
   ^            \--> drain <----------------------------------+
   |                    \-> controls2 -> aborts2 -> step -> deltas -> finished
   +------------------------------------------------------------------+
any exception -> mark -> fail_active -> fail_queued -> fail_controls -> fail_aborts -> dead
```

`ends[r]` counts terminal events of a stream, `engine[q]` is the request that
sequence `q` runs. Requests of one conversation share a sequence id, as in chain
mode; the engine refuses a turn while another one runs. `Faults` selects the
calls that may raise. In `AbortInactive` the case of a plain cancel for a request
that neither runs nor has ended is translated but not reachable: the second look at
`cancelled` in `_admit` sees to it. Exceptions that the code catches and only
logs (a failing `abort_request` during clean-up) leave the engine in a state the
dispatcher cannot know; they are not modelled, nor is the forced `engine.exit()` when
the thread does not stop in time.

### ChainCache

`index` is `ChainCacheIndex` (records, the map from sequences to chains, the order
of last access, tombstones, the total of stored history), `rows` the SnapKV rows
with their length in every layer, `seqs` the scheduler's queues, `active` the keys of
`_active_chain_sequences`.

* `AdmitNew`, `AdmitResume`, `AdmitRecreate` – `admit_request` for a new chain, a
  continuation whose input agrees with the processed prefix, and one that does not
  (the old chain is invalidated first). `Plans` is `plan_admission`: the
  least set of IDLE victims, closed under "used before" (`LeastRecent`), with which slots
  and rows suffice over the outstanding reservations; `ApplyAdmission` and `FreeVictims`
  carry the plan out.
* `PrefillStep`, `DecodeStep`, `Preempt`, `StepRaises` – one `step()` with one sequence:
  rows grow by the chunk, shrink to the layer budget at the last chunk (`Compact`)
  and grow again while decoding; `Complete` records the boundary of the turn and
  the history, with the checks that `finish_turn` makes (`FinishError`).
* `AbortRequest`, `DiscardChain`, `ModelFailure` – the other ways a turn ends.

The stamps `last_access` and those of the tombstones are kept as the orders they induce,
sets of pairs; `Forget` evicts or invalidates a set of chains, one after the other in the
code. Plan and application are one action: `admit_request` runs on the engine's only
thread and nothing comes between. Tokens and digests are lengths and whether the
input agrees. The mapping to `ChainLifecycle` reads an id's life off the records.

### PrefixCache

The instance has `page_size = prefix_cache_block_size = 1`, so a token is a page is a
block; a block is the path of tokens from the root, which the code hashes. `tree`
holds the index: blocks, reference counts, the device and host residents, the
pinned blocks, the copies under way in both directions and `view`, the cached answer
of `reclaimable` questions. `view` is taken when the code marks a change of capacity,
so that a change the code does not mark leaves it stale.

```
idle --BeginSchedule--> scan --SchedulePrefill*, StartPrefill--> attach
attach --Attach--> promote --Reclaim*, Promote--> attach          (per request)
attach --StartAllocate--> alloc --Reclaim*, Allocate--> alloc --StartForward--> forward
scan --StartDecode--> decode --Reclaim*, AllocateDecode--> forward
forward --ForwardEnd--> insert --HoldDuplicate*, InsertNew*, ReleaseProtected--> forward   (per request)
forward --EndStep--> idle
scan --Preempt, NothingScheduled--> idle
idle: Arrive, Finish, Abort, Delete, SetPriority; an exception: stopped
```

* `Hit`, `AdmissionCost`, `Admissible` – the lookup and the admission hooks: the
  unreferenced device blocks of a hit leave the reclaimable pool, host-only blocks
  need pages.
* `Reclaim` – `_evict_prefix_cache_until_free` with its polls and waits; `Promote`
  gives the host-only blocks of a hit pages and starts their copy. `awaited` are the
  blocks whose copies the forward pass waits for. The code lists them anew for every
  prefill step, but the wait (`wait_for_layer`) is one of the compute stream: whatever that
  stream does later stays behind the copy, so a block stays in `awaited` until its copy is
  complete.
* `ForwardEnd` takes a reference on the blocks `on_forward_end` protects while it
  materialises what a request computed. The loop is one action per block: `InsertNew` gives
  the page of a new block to the index, `HoldDuplicate` holds a block that is there already
  beside the page of the request. `ReleaseProtected` is its `finally`; an exception in
  `insert_block` releases the protection in the same step.
* `FreeSeq` – release with write-through of what the request leaves behind.
* `Poll` – copies complete between calls: to the host in stream order, to the
  device one by one. A block is readable when its copy is complete.

Which leaf is least recently used, which request the scan takes and when copies
complete are free choices.

### TpChannel

One buffer, a command event, a completion event and a status byte per worker. Rank 0's
calling thread is `Call`, `Signal`, `Acknowledged`/`AckTimeout`, `Body`, `LeaveBody`,
`LeaveReduce`, `LeaveGather`, `TakeStatus`/`StatusTimeout`; a worker is `Load`, `Clear`,
`WorkerBody` ... `Report`, `Announce`; `exit()` is `Exit`, `ExitBody`, `ExitPassed` or
`ExitTimeout`, and `Reap` for the workers that have to be terminated. Collectives are
external: the n-th one a rank enters meets the n-th of every other rank. `Methods` holds
one method of each class the code distinguishes: acknowledged, synchronised by
status byte or by all-reduce, with results compared or not, recoverable or fatal.
`FailPoints` says where a rank may raise. `skipped` remembers the commands in whose body
a rank raised in front of the collective; when another rank has entered that collective,
the rank has `Deserted` it: the other waits there, and the next collective of the one that
raised meets it. No property of the code holds of the order of commands after that, and the
safety properties are stated for the time until it happens. `Forced` lets `exit()` come
while a call is under way: it then overwrites a buffer that not every worker has read,
which is harmless because the engine is going down, so the order of commands is asked
only of the run without it.

## 3. The runs

| Run | Instance | Shows |
|---|---|---|
| `scheduler_slots` | 4 requests, 6 slots, 2 rows, chunk 2, batch of 2; one full prefill, two abortable, long-text boundary 4 | ownership, KV = history, single publication, replay isolation, no overcommit, the self-checks, refinement of `RequestService` |
| `scheduler_paged` | 4 requests, 3 pages of 2, 2 decoders: one that fits, two that outgrow the pool, one whose prompt never fits | pages conserved; every step ends; every request ends or the engine reports why it cannot go on |
| `paged_decode_overcommit` | 4 short requests, 5 pages of 2 | violation: two decoders at a page boundary are committed against one free page |
| `dispatcher` | 2 turns of a conversation, a control call, cancel, discard, close, every fault point before the pop of a finished request | engine and dispatcher agree, no cancel is lost, a stream ends once, aborts hit only their own request, every request and call is answered, close ends the thread |
| `dispatcher_late_finish` | 1 request, all fault points | violation: an exception after the pop in `_publish_finished` leaves the client without an answer |
| `chain_full` | 4 chain ids, 2 rows, 8 slots of one layer kept in full, prompts of 1, 3, 4 | index, rows and queues agree, idle chains are exact, reservations cover growth, no admitted turn is stranded, every turn ends, refinement of `ChainLifecycle` |
| `chain_compact` | 3 chain ids, 2 rows, 7 slots in each of two layers with budgets 1 and 2 | the history total and the checks at the end of a turn survive compaction, preemption and replay |
| `chain_overcommit` | the instance of `chain_compact` | violation: slots returned by a compaction are promised twice |
| `tp_calls` | 2 workers, 3 calls and `exit()`, four methods of all classes, failures before and after the collective and diverging results, on any ranks | until a rank deserts a collective: commands in order, answers belong to their call, failures are reported, collectives match, and the ranks never all wait for each other in a call of a recoverable method, which leaves no worker dead or stuck |
| `tp_liveness` | 2 workers, 2 calls, failures before and after the collective, `exit()` during a call | shutdown always ends |
| `prefix_offload` | 4 requests with shared prefixes, 5 pages, 5 host blocks, chunk 2, batches of 2, one abortable, one subtree deletion, one pinned block | pages, host blocks and references conserved, residency rooted, nothing read before its copy, admitted batches find their pages, the cached capacity is current, no block is left behind |
| `prefix_replay` | 2 requests, 4 pages | violation: a rebuilt request inserts below a host-only block |

**Bounds.** In the scheduler four requests let two decoders, one evicted request and
one newcomer meet; the pools are chosen so that any two requests can be admitted
together and no two can finish together, which forces eviction, replay and the
hand-off of the checkpoint. Prompts of up to three tokens with chunks of two give first
and last chunks, and chunks that the limits of the batch cut short. Four chain ids over
two rows let two turns run while an admission evicts an idle chain and a tombstone
falls off the end. Two workers are the least for which one rank can fail, one succeed
and one wait; three calls are the least in which one kills a worker, the next times out on
it and leaves a completion event behind, and a third could take that for its own. In the
prefix cache one prompt continues another, one branches off and
one resumes prompt and answer, and five pages are fewer than they need together, so
that demotion, promotion, duplicates and preemption all occur. Every passing run
explores its whole state space, `tp_calls` up to the first desertion: `Deserted` never
becomes false again (`entered` and `skipped` only grow) and each of its invariants excepts
what follows.

**Fairness.** `Scheduler` assumes weak fairness of the engine's own steps: the
dispatcher's loop calls `step()` as long as a request is active and `step()` is
ordinary sequential code. Nothing is assumed of clients.
`Dispatcher` assumes weak fairness of the thread and of the remaining steps of a
call that has begun (`Continue`): both are straight-line code on running threads.
Nothing is assumed of which calls clients make, and the timeout of `discard` is
not fair, so its answer has to come by itself. `ChainCache` assumes weak fairness of
`Step`, for the same reason as the scheduler; its free choice of the sequence is not
fair, so turns end whichever runnable sequence is taken.
`TpChannel` assumes weak fairness of rank 0's thread inside a call, of the exit thread
and of every worker process. A timeout expires only on a worker that is stuck (dead
or in a collective that cannot complete), when the others have settled: that an
answer arrives just after the deadline is not modelled.

**Deadlock** checking is off: every workload is finite, so the systems come to rest when
all requests are answered, when `exit()` has returned or after an exception.

**Findings.** `paged_decode_overcommit`: `decode_step_free_slots` adds the partly
filled pages of all rows to the slots of the free pages, so the running counter
of the scan does not bound the number of new pages, and the per-candidate hook
reads the free-page count as it was before the scan; the assertion in
`_allocate_batch` fails.
`dispatcher_late_finish`: `_publish_finished` takes the request out of `active`
before it checks the text and refreshes the snapshots; the failure handler answers
only the requests in `active`. The tests
`test_dispatcher_stop_abort_refresh_failure_releases_request` and
`test_final_detokenizer_error_reaches_client` ask for an answer after the same
failures at an earlier line.
`chain_overcommit`: a reservation is the peak over the baseline a chain resumed with,
and `_outstanding_active_reservations` (`chain_cache.py:990`) clamps the growth realized
so far at zero. A row that the last chunk compacts below its baseline gives slots back
that its own decode will take again; a second chain is admitted against them. ADR
0004:57-59 says that reservations prevent this.
`prefix_replay`: the comment at `prefix_cache_mixin.py:415-417` provides for a replay
whose blocks duplicate those of the first pass. When these were demoted meanwhile, the
replay holds a host-only parent and `insert_block` raises (`prefix_cache.py:1131-1134`).

**Observations** met while modelling, which no run states:

* The sole-decode error (`scheduler.py:336`) says that the cache is too small; it is
  also raised when a partly prefilled prompt, kept out by the decode limit, holds the
  slots, and, with the host tier, when an unreferenced block waits below one that is in
  use and not on the host, so that its page is neither free nor reclaimable.
* `capture_startup_memory_snapshot` is recoverable (`model_runner.py:199-214`): a worker
  on which it raises logs the failure and goes on (`model_runner.py:741-748`), and rank 0
  is to learn of it from the status byte. But the gather is in the body, in front of the
  status bytes. When it raises on one worker in front of the gather, rank 0 waits there
  for that worker and never comes to its status byte; when it raises on rank 0, rank 0
  times out and returns, and the workers stay in the gather. `CallsReturn` without
  `Deserted` is violated in one call. Only the watchdog of torch.distributed ends the wait.
* When `run` fails on a rank without decode graphs, the workers leave their loop; the
  failure handler of `step()` then calls `chain_invalidate` (`llm_engine.py:1523`) and
  waits for ranks that are gone. Only the watchdog of torch.distributed ends the wait.
  `CallsReturn` therefore excepts the failure of a method that is not recoverable.
* A chain can be preempted and rebuilt (`llm_engine.py:1444`), which ADR 0004:51-52 does
  not provide for; in the model it is rebuilt correctly.
* The start-up check of the host pool (`quest.py:242-252`) does not count pinned blocks:
  with them write-through can raise "host pool cannot preserve write-through residency".
  `PromiseKept` excepts them.

## 4. What is proved

### Scheduler and KvCache

The theorems hold for every finite set of requests, prompt lengths, token budgets,
page size, pool, row table and batching limits (`KvCacheAssumption`,
`SchedulerAssumption`: the limits are positive, the rest are naturals).

| Theorem | Module | Statement |
|---|---|---|
| `TypeCorrect` | `SchedulerProofs` | `Spec => []TypeOK` |
| `PoolConserved` | `SchedulerProofs` | `Spec => []PagesConserved` |
| `OwnedOnce` | `OwnershipProofs` | `Spec => []RequestsOwnedOnce` |
| `ReplaysRunAlone` | `OwnershipProofs` | `Spec => []ReplayIsolated` |
| `SlotBatchesFit` | `OwnershipProofs` | `PageSize = 1 => (Spec => []CommittedBatchFits)` |
| `PublishedExactlyOnce` | `OwnershipProofs` | `Spec => []PublishedOnce` |
| `SchedulerImplementsService` | `OwnershipProofs` | `Spec => ImplementsService` |
| `KvIsHistory` | `KvHistoryProofs` | `Spec => []KvMatchesHistory` |
| `SelfChecksNeverFail` | `KvHistoryProofs` | `Spec => []SelfChecksHold` |

* `TypeCorrect` rests on `HooksType`: every capacity hook returns an integer whatever the
  state of the pool; the scan budgets stay natural because each iteration tests them.
* `PoolConserved`: `SumOver` is the cardinality of a set of cells, one for each page of
  each request, so a change of one row is a change of one column (`OneSummand`,
  `CellsSplit`) and a decode batch adds at most one cell to each of its rows
  (`OneMoreEach`). `AllocateConserves`, `AllocateBatchConserves` and `FreeSeqConserves`
  then need only the arithmetic of rounding up to a page.
* `OwnedOnce`: the inductive invariant `OwnershipInv` adds to the type `StepShape` (the
  batch is empty between steps and is not a prefill batch before the prefill scan has
  ended, so one knows when it is in hand) and states ownership as three disjoint
  duplicate-free queues (`Owned`), the form the lemmas of `DataLemmas` move requests
  between.
* `ReplaysRunAlone`: the invariant adds `ScanIsolates`, what the prefill scan keeps while it
  is under way. A replay is taken only into an empty batch and ends the scan.
* `SlotBatchesFit`: the invariant adds `SlotsPromised`: what the scan has promised to the
  batch and what its running counter still offers are together within the free pages. Since
  nobody is in the batch twice, the promises are to different requests. With larger pages
  it is false, and `paged_decode_overcommit` shows how.
* `PublishedExactlyOnce`: a replay recognises a decode step by its prompt being prefilled.
  `DecodeShape` says that everyone who decodes is; an eviction resets the count, so this
  needs that the victim is queued only once. `StepEffects` then classifies every step by
  what a client can notice.
* `SchedulerImplementsService`: from the same classification and `BudgetOpen` (an unfinished
  request has tokens left).
* `KvIsHistory` and `SelfChecksNeverFail` have one invariant, `KvInv`, because the length of
  a row is right only if no check fails and the checks hold only if the lengths are right.
  `Progress` relates a request's counters to the queue it is in, `LoopShape` says what is
  left to do in each loop of the step, `Lengths` gives the length of every row in every
  phase of the step (before its allocation, between allocation and postprocessing, after
  it) and `Residents` says who holds a row.

### Dispatcher

For every set of requests, sequence ids and control calls, every sharing of
sequence ids, and with every set of fault points (`DispatcherAssumption`: each request
has a sequence id, requests, control calls and the queue's markers are different things).

| Theorem | Statement |
|---|---|
| `EngineRunsActive` | `Spec => []NoOrphans` |
| `CancelsArrive` | `Spec => []CancelNotLost` |
| `StreamsEndOnce` | `Spec => EndIsFinal` |
| `AbortsHitTheirOwn` | `Spec => OnlyOwnAborts` |

The invariant `DispatcherInv` follows a request through its owners. `BeforeRun`: the
client, the queue and `_admit` hold it one after the other, and until it runs nobody
has told it anything. `Running`: what is in `_active` runs under its own
sequence id, is the latest of it and has not ended. `Agreement`: in which states of the
thread `_active` and the engine are the same, and by which request they differ in the
others. `Asking`: whoever has an abort queued was admitted and has its flag raised.
`CancelKept`: the abort of a cancelled running request is on its way. The last one
needs the second look at `cancelled` in `_admit`, and the test of `seq_id` in `cancel`
needs `BeforeRun`.

### ChainCache

For every number of chains, every set of layers with any budgets, every pool, row table,
chunk size and all prompts and token limits (`ChainAssumption`).

| Theorem | Statement |
|---|---|
| `ChainTypes` | `Spec => []TypeOK` |
| `ChainsAgree` | `Spec => []IndexAgrees` |
| `IdleChainsExact` | `Spec => []IdleChainsAreExact` |
| `HistoryCounted` | `Spec => []HistoryIsCounted` |
| `FinishNeverFails` | `Spec => []FinishChecksHold` |
| `ChainsLive` | `Spec => ImplementsLifecycle` |
| `ReservationsHold` | `KeepsAll` gives `Spec => []GrowthCovered` |
| `TurnsNeverStranded` | `KeepsAll` gives `Spec => []NeverStranded` |

`ChainInv` is inductive (`ChainsConsistent`). Its part `Consistent` is stated of any index,
rows and queues, because an admission passes through an index that no state has: the
victims are forgotten (`ForgetKeeps`), then the turn begins. `TurnExact` is what makes
`IdleChainsAreExact` inductive: at every moment of a turn the tokens written to its row
are determined by what is prefilled, sampled and still to be replayed, so that they are
the boundary when the turn ends, preempted or not. `Issued` (records, owners and
tombstones are older than the next id) makes a new id new. The total of the histories
changes by one summand at a time (`OneSummand`). For the refinement `StepHolds` classifies
every step: a turn begins and IDLE chains go, one chain rests, one is dropped, or nothing
changes in the life of a chain.

The capacity theorems are about layers that drop no tokens (`KeepsAll`: every budget
reaches `MaxModelLen`, as for SnapKV's full layers); with compaction both are false, and
`chain_overcommit` shows how. Their invariant is `FullInv`: a record's slots and its
reservation together are the peak of its turn (`TurnCovered`), an IDLE chain has nothing
reserved (`RestsBare`), and the sum of these claims is within the pool on every layer,
one row for every record (`ClaimsFit`). Free slots less outstanding reservations are then
exactly the pool less the claims (`SlotsLeft`), so a plan whose deficits its victims cover
keeps the sum within the pool (`AdmitFits`). What is left of a running turn is what is left
of its reservation and is never nothing (`TurnGrowth`): a decode always finds a slot, no turn
is preempted (`NeverPreempts`) and a step with work finds something to run
(`NeverStalls`). The histories fit because records are at most as many as rows
(`HistoryFits`).

### PrefixCache

For every finite set of requests with any token streams and prompt lengths, every number of
pages, chunk size and batch limit, every set of tokens operators delete or pin, and a
host pool with a block for every page (`StreamAssumption`, `HostAssumption`,
`BatchAssumption`; the code refuses to start with a smaller host pool). Demotion and
eviction may take any leaf.

| Theorem | Statement |
|---|---|
| `TiersAreConserved` | `Spec => []TiersConserved` |
| `RefsAreExact` | `Spec => []RefsExact` |
| `ResidencyIsRooted` | `Spec => []ResidencyRooted` |
| `PrefixIsReadable` | `Spec => []PrefixReadable` |
| `PromiseIsKept` | `Spec => []PromiseKept` |
| `CapacityViewIsFresh` | `Spec => []CapacityViewFresh` |
| `NothingIsStranded` | `Spec => []NothingStranded` |

All are consequences of one inductive invariant, `PrefixInv` (`PrefixInvariant`), because none
of them holds alone: a demotion is safe because the counts are right, the counts are
right because a row holds what it has run, and the pages a step finds depend on all three.

* The tree. `TreeOk` (both tiers hold whole paths, copies to the host are in the order
  of the tree, what is copied is where it should be, the view is fresh) is kept by each
  operation of the index: `ChangeRefs`, `InsertBlock`, `Demote`, `RemoveBlocks`,
  `SubmitD2H`, the completion of copies. These lemmas are about any index, so that
  they apply to what one action makes of it in between (`FreeSeq` changes counts,
  evicts from the host and submits copies in one call).
* The books. A count is the size of the set of holders and one more under
  protection; the private pages of the rows are the cells of a disjoint union (`Cells`),
  so that taking, handing over or returning a page moves one summand.
* The rows. `Saved`: a request holds exactly the blocks of the tokens it has run, but
  for those the step has yet to insert. It tells a duplicate from a new block and makes a release
  give back each page once. `Readable` follows a hit from its attachment through the
  promotion to the forward pass.
* The capacity. `Covered`: what the scan has promised, and what it may still promise, fits in
  the free and reclaimable pages that are left when the blocks of the hits not yet attached are
  set aside; after the scan the same for what the step has still to take (`Affords`).
  Attaching a hit, promoting it, demoting for somebody else and allocating each keep it.
* The release. `Remembered`: a block on the device that nobody uses is on the host, on its way
  there, or waits among the candidates below a block in use; otherwise its page could
  never be reclaimed. A write-through finds room on the host (`HostRoom`): a block that may
  not leave the host is on the device, or some request holds it and computed it again in a
  private page, so there are no more such blocks than pages. This is where
  `TiersConserved` and `HostAssumption` are needed.

That the insertion of new blocks never fails is false (`prefix_replay`), and the
theorems do not assume it: after an exception the engine is stopped and they hold of what it
leaves behind.

### TpChannel

For every number of workers and calls, every set of methods and failures at every point
(`TpAssumption`), as long as `exit()` waits for the caller (`~Forced`: otherwise the
buffer is overwritten while a worker has not read it).

| Theorem | Statement |
|---|---|
| `CommandsInOrder` | `~Forced => (Spec => []InOrder)` |
| `AnswersAreCurrent` | `~Forced => (Spec => []StatusIsCurrent)` |
| `FailuresReachRank0` | `~Forced => (Spec => []FailureReported)` |
| `RanksAgree` | `~Forced => (Spec => []CollectivesMatch)` |

Each of the four properties is `~Deserted => ...`. What the condition leaves out is one
thing: a rank raised in front of the collective of a body (`run`, a start-up gather) and
another rank has entered it. Then the ranks do get out of step, in the model as in the code
(`capture_startup_memory_snapshot`, and `run` without decode graphs, whose failure is fatal).
Covered are failures in a body without a collective and behind a collective, on any ranks,
diverging results, dead workers, timeouts, a body that raises in front of its collective
on every rank, and one that does so on some ranks for as long as nobody has entered it.

When a rank raises in front of its collective it is not yet known whether the others will
do so too, and so whether the command has a collective in its body. The invariant is
therefore stated for a set `K` of commands that stands for those nobody enters in the end:
`ChannelInvariant` says `\A K : Consistent(K) => ChannelInv(K)`, where a `K` is consistent
when it has the commands skipped so far and none whose body was entered. Commands and
collectives are only added, so a `K` that is consistent after a step was so before it
(`ConsistentBefore`) and `ChannelStep` applies; while nobody has deserted a collective
`skipped` itself is consistent (`NotDeserted`), and the theorems follow.

In `ChannelInv`, `Follows` says that the collectives a rank has entered are
those of the calls it has taken up, in their order; `Rank0At` and `WorkerAt` say what
command, event, status byte and log look like at each place of the protocol; `Keeping`,
`StatusKept`, `LogKept`, `FailuresKept` and `ResultsKept` say what is remembered of earlier
calls. `Determined` is the heart of it: the number of collectives
entered determines the call and the kind of the collective, so two ranks at their n-th
collective are in the same one (`EnterStep`), and a rank that is through with the calls
up to i is not behind one that has got no further (`NobodyAhead`). A timeout of rank 0
needs an argument of its own (`WaitsForTheGone`, `TimeoutTakenUp`): of the ranks that wait
in collectives take one that has entered the fewest; what it waits for is a rank that has
ended, so every worker has taken the call up or is gone.

### Only model-checked

`TpChannel` with `Forced`, and its `CallsReturn`, which is stated with `ENABLED`;
every liveness property (`StepEnds` and `RequestsSettle` of the scheduler, those of the
dispatcher, the chains and the channel), because the prover knows neither fairness nor
`ENABLED`.

## 5. What is not modelled

Most of the repository's 132 000 lines are numeric: kernels, layers, models, baselines
vendored from papers, benchmarks and scripts. They hold no protocol to check, and the
share of the source the models cover stays small for that reason. Of the rest:

* Scheduler and managers: tensor contents, sampling, sparse selection, CUDA graphs,
  statistics, structured output. The managers other than QuEST, standard and SnapKV's rows
  (H2O, ShadowKV, R-KV, SkipKV, DeltaKV) have hooks of their own.
* Dispatcher: text (a stop string "may match"), routing snapshots, exceptions
  the code catches and only logs.
* Chains: fingerprints, the copies of the index on the other ranks (`TpChannel` has the
  comparison of their results), the chain hooks of methods other than SnapKV;
  `LLMEngine.invalidate_chain`, which nothing in the server calls. The progress
  checkpoint that ends mutual preemption is in `Scheduler`; `ChainCache` leaves its
  outcome open.
* Prefix cache: blocks of several tokens, `prefix_cache_max_blocks`, the per-request
  caches of lookups and costs, mixed payloads, failed submissions, the standard
  manager's variant, routing events. `max_num_batched_tokens` and `max_decoding_seqs` are
  in `Scheduler`.
* The prefix coordinator, recurrent state and the offload of mixed models.
* Channel: commands larger than the buffer, late answers after a timeout (the engine
  treats a timeout as fatal), NCCL and its watchdog.
* The HTTP server and the smart router.

## 6. Plan

1. `KvCache`, `Scheduler`, `RequestService` and their proofs; `Dispatcher`;
   `ChainCache`, `ChainLifecycle`; `PrefixCache`; `TpChannel`. Done.
2. Proofs about `Scheduler` with `KvCache`, `Dispatcher`, `ChainCache`, `PrefixCache` and
   `TpChannel`. Done: every safety property of a passing run but
   `CallsReturn` is a theorem.
3. The router's load snapshots; the prefix coordinator with recurrent checkpoints.
