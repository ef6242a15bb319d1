---------------------------- MODULE PrefixCache ----------------------------
(***************************************************************************)
(* The radix prefix cache of the QuEST manager with its host tier:         *)
(* engine/prefix_cache.py (the index and the residency of its blocks),     *)
(* cache_manager/prefix_cache_mixin.py (materialisation), the prefix parts *)
(* of cache_manager/quest.py and the transfer queues of                    *)
(* cache_manager/prefix_offload.py, driven by the prefill and decode steps *)
(* of the scheduler.                                                       *)
(*                                                                         *)
(* The instance is the one with page_size = prefix_cache_block_size = 1,   *)
(* so that a token is a page is a block, and a block is the sequence of    *)
(* tokens from the root to it (in the code, a hash of that sequence).      *)
(* prefix_cache_max_blocks is unset.  The engine is one thread; the copies *)
(* between the tiers run beside it and are seen at the calls of poll().    *)
(* Which request is picked next, which leaf is the least recently used and *)
(* when a copy completes are left open.                                    *)
(***************************************************************************)
EXTENDS Integers, Sequences, SequencesExt, FiniteSets, FiniteSetsExt, Sums

CONSTANTS
  Reqs,         \* requests
  Tokens,       \* token ids
  Stream,       \* request -> the tokens it runs: its prompt, then what it samples
  PromptLen,    \* request -> length of its prompt
  NumPages,     \* pages on the device
  HostBlocks,   \* blocks of the pinned host pool
  ChunkSize,    \* engine_prefill_chunk_size
  MaxBatch,     \* max_num_seqs_in_batch
  MayAbort,     \* requests a client may abort
  MayDelete,    \* tokens of prefix_cache_delete_subtree calls
  MayPin        \* tokens of prefix_cache_set_eviction_priority calls

ASSUME StreamAssumption ==
  /\ IsFiniteSet(Reqs)
  /\ \A r \in Reqs : Stream[r] \in Seq(Tokens) /\ PromptLen[r] \in 1..Len(Stream[r])

\* "QuEST prefix host tier is too small for write-through safety"
ASSUME HostAssumption ==
  /\ NumPages \in Nat \ {0} /\ HostBlocks \in Nat
  /\ HostBlocks >= NumPages

ASSUME BatchAssumption == ChunkSize \in Nat \ {0} /\ MaxBatch \in Nat \ {0}

VARIABLES
  tree,      \* the index: blocks, their reference counts and residency
  free,      \* _num_free_pages
  hostFree,  \* free blocks of the host pool
  seq,       \* request -> its row and what it holds
  pc,        \* where the engine thread is in step()
  batch,     \* the requests of the step, in the order they were picked
  todo,      \* those of them the current loop has still to visit
  budget,    \* the counters of the scheduling scan
  awaited,   \* blocks whose copy to the device a prefill step has put the compute
             \* stream behind (wait_for_layer); later steps stay behind it
  protected, \* blocks on_forward_end keeps in use while it inserts
  raised     \* the exception that stopped the engine, or ""

vars == <<tree, free, hostFree, seq, pc, batch, todo, budget, awaited, protected, raised>>

Path(r, i) == SubSeq(Stream[r], 1, i)
Chain(r, n) == {Path(r, i) : i \in 1..n}
Blocks == UNION {Chain(r, Len(Stream[r])) : r \in Reqs}

Parent(b) == Front(b)
Children(S, b) == {c \in S : Len(c) = Len(b) + 1 /\ Parent(c) = b}
Subtree(S, b) == {c \in S : IsPrefix(b, c)}
Ancestors(b) == {SubSeq(b, 1, i) : i \in 1..(Len(b) - 1)}

-----------------------------------------------------------------------------
(* The index *)

InD2H(t) == UNION Range(t.d2h)
InH2D(t) == UNION t.h2d
Moving(t) == InD2H(t) \cup InH2D(t)

\* No request refers to the block and no operator pinned it.
Unused(t, b) == t.ref[b] = 0 /\ b \notin t.pinned

\* _device_reclaimable_block_ids(include_inflight_d2h=True): what repeated
\* demotion of device leaves can give back once the copies to the host under
\* way are complete.
DeviceReclaimable(t) ==
  LET ready(b) == Unused(t, b) /\ (b \in InD2H(t) \/ (b \in t.host /\ b \notin Moving(t)))
  IN  {b \in t.dev : \A c \in Subtree(t.dev, b) : ready(c)}

\* Mutant: a block is demoted whoever refers to it.
DeviceFreeableInUse(t) ==
  LET ready(b) == b \notin t.pinned /\ b \in t.host /\ b \notin Moving(t)
  IN  {b \in t.dev : \A c \in Subtree(t.dev, b) : ready(c)}

\* What repeated demotion can give back now.
DeviceFreeable(t) ==
  LET ready(b) == Unused(t, b) /\ b \in t.host /\ b \notin Moving(t)
  IN  {b \in t.dev : \A c \in Subtree(t.dev, b) : ready(c)}

\* What repeated eviction of host leaves can give back.
HostFreeable(t) ==
  LET ready(b) == Unused(t, b) /\ b \in t.host \ t.dev /\ b \notin Moving(t)
  IN  {b \in t.blocks : \A c \in Subtree(t.blocks, b) : ready(c)}

\* The outcomes of taking n leaves of S, or all of S, one after the other.
Leaves(S, n) ==
  {D \in SUBSET S : /\ Cardinality(D) = Min({n, Cardinality(S)})
                    /\ \A b \in D : Children(S, b) \subseteq D}

\* _mark_capacity_mutated: the next question about capacity scans the tree
\* again and its answer, view, is kept until the next mark.  It is taken here
\* at the mark, so that any change that is not marked leaves it stale.
MarkCapacity(t) == [t EXCEPT !.view = DeviceReclaimable(t)]

\* Mutant: only the last release is taken for a change of capacity.
ChangeRefsUnmarked(t, S, d) ==
  LET u == [t EXCEPT !.ref = [b \in Blocks |-> IF b \in S THEN t.ref[b] + d ELSE t.ref[b]]]
  IN  IF d < 0 /\ \E b \in S : u.ref[b] = 0 THEN MarkCapacity(u) ELSE u

\* set_block_ref_count for the blocks S, by d: capacity views only depend on
\* whether a count is zero.
ChangeRefs(t, S, d) ==
  LET u == [t EXCEPT !.ref = [b \in Blocks |-> IF b \in S THEN t.ref[b] + d ELSE t.ref[b]]]
  IN  IF \E b \in S : (t.ref[b] = 0) # (u.ref[b] = 0) THEN MarkCapacity(u) ELSE u

\* insert_block of a new block with ref_count = 1 on the device.  A block that
\* is in use below one that cannot be freed either leaves the views alone.
InsertBlock(t, b) ==
  LET p == Parent(b)
      parentBlocked == p = <<>> \/ ~Unused(t, p) \/ p \in Moving(t)
      u == [t EXCEPT !.blocks = @ \cup {b}, !.dev = @ \cup {b}, !.ref[b] = 1]
  IN  IF parentBlocked THEN u ELSE MarkCapacity(u)

\* poll(): copies to the host complete in the order of their stream, copies to
\* the device are looked at one by one.
FinishD2H(t, k) ==
  IF k = 0 THEN t
  ELSE MarkCapacity([t EXCEPT !.host = @ \cup UNION {t.d2h[i] : i \in 1..k},
                              !.d2h = SubSeq(@, k + 1, Len(@))])

FinishH2D(t, H) ==
  IF H = {} THEN t ELSE MarkCapacity([t EXCEPT !.h2d = @ \ H])

Polled(t) ==
  {FinishH2D(FinishD2H(t, k), H) : k \in 0..Len(t.d2h), H \in SUBSET t.h2d}

\* synchronize_all
Synchronized(t) == FinishH2D(FinishD2H(t, Len(t.d2h)), t.h2d)

\* demote_device_until_freeable
Demote(t, D) == IF D = {} THEN t ELSE MarkCapacity([t EXCEPT !.dev = @ \ D])

\* Removal from the index, by evict_host_until_freeable or a deletion.
RemoveBlocks(t, E) ==
  IF E = {} THEN t
  ELSE MarkCapacity([t EXCEPT !.blocks = @ \ E, !.dev = @ \ E, !.host = @ \ E,
                              !.pinned = @ \ E, !.pending = @ \ E])

\* select_write_through_candidates, after the blocks S lost a reference: the
\* blocks nobody uses any more whose path from the root is on the host, on its
\* way there, or goes with them.
Candidates(t, S) ==
  {b \in t.pending \cup S :
     b \in t.dev /\ t.ref[b] = 0 /\ b \notin t.host /\ b \notin Moving(t)}

\* Mutant: the parent of a block is not looked at.
SelectedAnywhere(t, S) == Candidates(t, S)

Selected(t, S) ==
  LET cand == Candidates(t, S)
  IN  {b \in cand : Ancestors(b) \subseteq t.host \cup InD2H(t) \cup cand}

\* Mutant: candidates whose parent is not ready are dropped.
SubmitD2HForgets(t, S) ==
  LET sel == Selected(t, S)
      u == [t EXCEPT !.pending = {}]
  IN  IF sel = {} THEN u ELSE MarkCapacity([u EXCEPT !.d2h = Append(@, sel)])

\* submit_d2h
SubmitD2H(t, S) ==
  LET sel == Selected(t, S)
      u == [t EXCEPT !.pending = Candidates(t, S) \ sel]
  IN  IF sel = {} THEN u ELSE MarkCapacity([u EXCEPT !.d2h = Append(@, sel)])

-----------------------------------------------------------------------------
(* Requests *)

NoRow(status) ==
  [status |-> status, len |-> 0, chunk |-> 0, hit |-> 0, cached |-> {}, held |-> {},
   mark |-> 0]

Unfinished(r) == seq[r].status \in {"new", "replay"}
Waiting(r) == Unfinished(r) /\ seq[r].len < PromptLen[r]
Decoding(r) == seq[r].len >= PromptLen[r] /\ seq[r].len < Len(Stream[r])
Finished(r) == Unfinished(r) /\ seq[r].len = Len(Stream[r])
PrivatePages(r) == seq[r].len - Cardinality(seq[r].cached)

\* The blocks a request refers to: its hit, once attached, and those it
\* computed.
HeldBlocks(r) == Chain(r, IF seq[r].len = 0 THEN 0 ELSE seq[r].hit) \cup seq[r].held

\* refresh_prefix_cache_hit: the longest indexed prefix, short of the last
\* token of the prompt.  A request that already has tokens is not looked up.
Hit(r) ==
  IF seq[r].status = "replay" \/ seq[r].len # 0 THEN 0
  ELSE Max({n \in 0..(PromptLen[r] - 1) : Chain(r, n) \subseteq tree.blocks})

\* Mutant: the blocks of the hit are counted as reclaimable too.
AdmissionCostNoReclaim(r) ==
  PromptLen[r] - Hit(r) + Cardinality(Chain(r, Hit(r)) \ tree.dev)

\* prompt_admission_cost: the rest of the prompt, the blocks to be promoted,
\* and the blocks of the hit that stop being reclaimable.
AdmissionCost(r) ==
  LET chain == Chain(r, Hit(r))
  IN  PromptLen[r] - Hit(r) + Cardinality(chain \ tree.dev) + Cardinality(chain \cap tree.view)

\* reserved_prefill_slots
Outstanding(r) == IF Waiting(r) /\ seq[r].len > 0 THEN PromptLen[r] - seq[r].len ELSE 0
Reserved == SumOver(Reqs, Outstanding)

Raise(what) ==
  /\ raised' = what
  /\ pc' = "stopped"

Quiet == pc = "idle" /\ ~\E r \in Reqs : Finished(r)

-----------------------------------------------------------------------------
(* Scheduling *)

\* add_request between two steps.
Arrive(r) ==
  /\ Quiet /\ seq[r].status = "absent"
  /\ seq' = [seq EXCEPT ![r] = NoRow("new")]
  /\ UNCHANGED <<tree, free, hostFree, pc, batch, todo, budget, awaited, protected, raised>>

\* The head of _schedule_impl: the capacities a scan starts with.
BeginSchedule ==
  /\ Quiet
  /\ \E r \in Reqs : Unfinished(r)
  /\ LET capacity == free + Cardinality(tree.view)
     IN  budget' = [prompt |-> Max({0, capacity - Reserved}), step |-> capacity,
                    decode |-> capacity]
  /\ pc' = "scan"
  /\ UNCHANGED <<tree, free, hostFree, seq, batch, todo, awaited, protected, raised>>

\* _prefill_step_tokens of a candidate.
Chunk(r) ==
  Min({PromptLen[r] - Max({seq[r].len, Hit(r)}), ChunkSize, budget.step})

\* _can_continue_prefill_batch: replays wait for the decodes to drain and run
\* alone.
Replays == {r \in Reqs : Waiting(r) /\ seq[r].status = "replay"}
PrefillOpen ==
  /\ Len(batch) < MaxBatch /\ budget.step > 0
  /\ Replays # {} => ~\E r \in Reqs : Decoding(r)
  /\ \A i \in DOMAIN batch : batch[i] \notin Replays

\* The scan takes r: replays come before fresh prompts, and a fresh prompt is
\* admitted only if all of it fits.
Admissible(r) ==
  /\ PrefillOpen
  /\ Waiting(r) /\ r \notin Range(batch)
  /\ Replays # {} => r \in Replays
  /\ seq[r].len = 0 => AdmissionCost(r) <= budget.prompt

\* One candidate of the prefill scan is taken into the batch.
SchedulePrefill(r) ==
  /\ pc = "scan" /\ Admissible(r)
  /\ seq' = [seq EXCEPT ![r].chunk = Chunk(r), ![r].hit = IF seq[r].len = 0 THEN Hit(r) ELSE @]
  /\ budget' = [budget EXCEPT !.prompt = IF seq[r].len = 0 THEN @ - AdmissionCost(r) ELSE @,
                              !.step = @ - Chunk(r)]
  /\ batch' = Append(batch, r)
  /\ UNCHANGED <<tree, free, hostFree, pc, todo, awaited, protected, raised>>

\* The scan ends with a prefill batch, which is run.
StartPrefill ==
  /\ pc = "scan" /\ batch # <<>> /\ ~\E r \in Reqs : Admissible(r)
  /\ pc' = "attach" /\ todo' = batch
  /\ UNCHANGED <<tree, free, hostFree, seq, batch, budget, awaited, protected, raised>>

\* The scan found no prefill.
DecodeScan == pc = "scan" /\ batch = <<>> /\ ~\E r \in Reqs : Admissible(r)

\* The decode batch: every decoding request as long as a page is left.
StartDecode(s) ==
  /\ DecodeScan
  /\ Len(s) = Min({budget.decode, Cardinality({r \in Reqs : Decoding(r)})})
  /\ batch' = s /\ todo' = s /\ pc' = "decode"
  /\ UNCHANGED <<tree, free, hostFree, seq, budget, awaited, protected, raised>>

\* refresh_prefix_cache_hit, _prepare_prefill, _attach_prefix_cache_if_needed and
\* _prepare_decode poll the copies under way.
Poll ==
  /\ pc \in {"attach", "decode"} \/ (pc = "scan" /\ batch = <<>>)
  /\ tree' \in Polled(tree) \ {tree}
  /\ UNCHANGED <<free, hostFree, seq, pc, batch, todo, budget, awaited, protected, raised>>

-----------------------------------------------------------------------------
(* One step of the engine *)

\* _attach_prefix_cache_if_needed, up to the promotion: the whole hit is
\* referenced, and its copies under way become copies the step waits for.
Attach ==
  /\ pc = "attach" /\ todo # <<>>
  /\ LET r == Head(todo)
         chain == Chain(r, seq[r].hit)
         fresh == seq[r].len = 0 /\ seq[r].hit > 0
     IN  IF ~fresh THEN /\ todo' = Tail(todo)
                        /\ UNCHANGED <<tree, free, hostFree, seq, pc, batch, budget, awaited, protected, raised>>
         ELSE IF ~(chain \subseteq tree.blocks)
         THEN /\ Raise("chain lost")
              /\ UNCHANGED <<tree, free, hostFree, seq, batch, todo, budget, awaited, protected>>
         ELSE /\ tree' = ChangeRefs(tree, chain, 1)
              /\ seq' = [seq EXCEPT ![r].len = seq[r].hit, ![r].cached = 1..seq[r].hit]
              /\ awaited' = (awaited \cap InH2D(tree))
                              \cup UNION {op \in tree.h2d : op \cap chain # {}}
              /\ pc' = "promote"
              /\ UNCHANGED <<free, hostFree, batch, todo, budget, protected, raised>>

\* What the thread needs before it can go on: pages for the host-only part of
\* the hit, for a chunk, or for the decode batch.
Need ==
  CASE pc = "promote" -> Cardinality(Chain(Head(todo), seq[Head(todo)].hit) \ tree.dev)
    [] pc = "alloc" -> seq[Head(todo)].chunk
    [] pc = "decode" -> Len(todo)
    [] OTHER -> 0

\* One turn of the loop of _evict_prefix_cache_until_free: poll, demote, and
\* wait for the oldest copy to the host when that is not enough.
Reclaim ==
  /\ pc \in {"promote", "alloc", "decode"} /\ todo # <<>> /\ free < Need
  /\ \E t \in Polled(tree) :
     \E D \in Leaves(DeviceFreeable(t), Need - free) :
       LET u == Demote(t, D)
       IN  /\ free' = free + Cardinality(D)
           /\ IF free' >= Need
              THEN /\ tree' = u
                   /\ UNCHANGED <<pc, raised>>
              ELSE IF u.d2h # <<>>
              THEN /\ \E k \in 1..Len(u.d2h) : tree' = FinishD2H(u, k)
                   /\ UNCHANGED <<pc, raised>>
              ELSE /\ tree' = u
                   /\ Raise("out of pages")
  /\ UNCHANGED <<hostFree, seq, batch, todo, budget, awaited, protected>>

\* The rest of the attachment: the host-only blocks get pages and are copied.
Promote ==
  /\ pc = "promote" /\ free >= Need
  /\ LET r == Head(todo)
         cpuOnly == Chain(r, seq[r].hit) \ tree.dev
     IN  /\ tree' = IF cpuOnly = {} THEN tree
                    ELSE MarkCapacity([tree EXCEPT !.dev = @ \cup cpuOnly,
                                                   !.h2d = @ \cup {cpuOnly}])
         /\ awaited' = awaited \cup cpuOnly
         /\ free' = free - Cardinality(cpuOnly)
  /\ todo' = Tail(todo) /\ pc' = "attach"
  /\ UNCHANGED <<hostFree, seq, batch, budget, protected, raised>>

StartAllocate ==
  /\ pc = "attach" /\ todo = <<>>
  /\ pc' = "alloc" /\ todo' = batch
  /\ UNCHANGED <<tree, free, hostFree, seq, batch, budget, awaited, protected, raised>>

\* _allocate of one chunk.
Allocate ==
  /\ pc = "alloc" /\ todo # <<>> /\ free >= Need
  /\ LET r == Head(todo)
     IN  /\ free' = free - seq[r].chunk
         /\ seq' = [seq EXCEPT ![r].len = @ + seq[r].chunk]
  /\ todo' = Tail(todo)
  /\ UNCHANGED <<tree, hostFree, pc, batch, budget, awaited, protected, raised>>

StartForward ==
  /\ pc = "alloc" /\ todo = <<>>
  /\ pc' = "forward" /\ todo' = batch
  /\ UNCHANGED <<tree, free, hostFree, seq, batch, budget, awaited, protected, raised>>

\* _allocate_batch: one token for every request of the decode batch.
AllocateDecode ==
  /\ pc = "decode" /\ free >= Need
  /\ free' = free - Need
  /\ seq' = [r \in Reqs |-> IF r \in Range(batch)
                            THEN [seq[r] EXCEPT !.len = @ + 1, !.chunk = 1] ELSE seq[r]]
  /\ pc' = "forward"
  /\ UNCHANGED <<tree, hostFree, batch, todo, budget, awaited, protected, raised>>

\* on_forward_end for one request: the blocks its chunk touches are protected
\* while the new ones are inserted.
ForwardEnd ==
  /\ pc = "forward" /\ todo # <<>>
  /\ LET r == Head(todo)
     IN  protected' = {b \in Chain(r, seq[r].len) : Len(b) >= seq[r].len - seq[r].chunk} \cap tree.blocks
  /\ tree' = ChangeRefs(tree, protected', 1)
  /\ pc' = "insert"
  /\ UNCHANGED <<free, hostFree, seq, batch, todo, budget, awaited, raised>>

\* What the loop of on_forward_end has still to insert is the end of the chunk.
Inserting(r) == pc = "insert" /\ r = Head(todo) /\ seq[r].chunk > 0
NextPos(r) == seq[r].len - seq[r].chunk + 1

\* Mutant: the page of a block computed twice is left to the index.
HoldDuplicateCached(r) ==
  /\ Inserting(r) /\ Path(r, NextPos(r)) \in tree.blocks
  /\ LET new == {Path(r, NextPos(r))} \ HeldBlocks(r)
     IN  /\ tree' = ChangeRefs(tree, new, 1)
         /\ seq' = [seq EXCEPT ![r].held = @ \cup new, ![r].chunk = @ - 1,
                               ![r].cached = @ \cup {NextPos(r)}]
  /\ UNCHANGED <<free, hostFree, pc, batch, todo, budget, awaited, protected, raised>>

\* Mutant: a block computed twice is held without a reference.
HoldDuplicateUnreferenced(r) ==
  /\ Inserting(r) /\ Path(r, NextPos(r)) \in tree.blocks
  /\ LET new == {Path(r, NextPos(r))} \ HeldBlocks(r)
     IN  seq' = [seq EXCEPT ![r].held = @ \cup new, ![r].chunk = @ - 1]
  /\ UNCHANGED <<tree, free, hostFree, pc, batch, todo, budget, awaited, protected, raised>>

\* A block the index has already is held beside the page of the request.
HoldDuplicate(r) ==
  /\ Inserting(r) /\ Path(r, NextPos(r)) \in tree.blocks
  /\ LET new == {Path(r, NextPos(r))} \ HeldBlocks(r)
     IN  /\ tree' = ChangeRefs(tree, new, 1)
         /\ seq' = [seq EXCEPT ![r].held = @ \cup new, ![r].chunk = @ - 1]
  /\ UNCHANGED <<free, hostFree, pc, batch, todo, budget, awaited, protected, raised>>

\* A new block takes the page of the request over; without its parent on the
\* device insert_block raises, and the protection is released all the same.
InsertNew(r) ==
  /\ Inserting(r) /\ Path(r, NextPos(r)) \notin tree.blocks
  /\ LET b == Path(r, NextPos(r))
         orphan(S) == Len(b) > 1 /\ Parent(b) \notin S
     IN  IF orphan(tree.dev)
         THEN /\ Raise(IF orphan(tree.blocks) THEN "parent missing" ELSE "host-only parent")
              /\ tree' = ChangeRefs(tree, protected, -1) /\ protected' = {}
              /\ UNCHANGED seq
         ELSE /\ tree' = InsertBlock(tree, b)
              /\ seq' = [seq EXCEPT ![r].held = @ \cup {b}, ![r].cached = @ \cup {NextPos(r)},
                                    ![r].chunk = @ - 1]
              /\ UNCHANGED <<pc, protected, raised>>
  /\ UNCHANGED <<free, hostFree, batch, todo, budget, awaited>>

\* The loop is over: the protection is released.
ReleaseProtected ==
  /\ pc = "insert" /\ seq[Head(todo)].chunk = 0
  /\ tree' = ChangeRefs(tree, protected, -1) /\ protected' = {}
  /\ pc' = "forward" /\ todo' = Tail(todo)
  /\ UNCHANGED <<free, hostFree, seq, batch, budget, awaited, raised>>

EndStep ==
  /\ pc = "forward" /\ todo = <<>>
  /\ pc' = "idle" /\ batch' = <<>>
  /\ budget' = [prompt |-> 0, step |-> 0, decode |-> 0]
  /\ UNCHANGED <<tree, free, hostFree, seq, todo, awaited, protected, raised>>

-----------------------------------------------------------------------------
(* Release *)

\* decode_progress_checkpoint of the victim and of the surviving decodes, as
\* the number of tokens in the row.
Checkpointed ==
  [r \in Reqs |-> IF Decoding(r) THEN [seq[r] EXCEPT !.mark = Max({@, seq[r].len})] ELSE seq[r]]

\* What becomes of the candidates, once the leaves E have left the host pool.
AfterEviction(t, S, room, E) ==
  LET need == Cardinality(Selected(t, S))
      left == room + Cardinality(E)
      u == RemoveBlocks(t, E)
  IN  IF left >= need
      THEN [tree |-> SubmitD2H(u, S), room |-> left - need, ok |-> TRUE]
      ELSE [tree |-> [u EXCEPT !.pending = Candidates(t, S)], room |-> left, ok |-> FALSE]

\* _schedule_write_through_prefix_blocks after the blocks S were released, with
\* room free blocks in the host pool, which is freed of leaves first.
WriteThrough(t, S, room) ==
  {AfterEviction(t, S, room, E) :
     E \in Leaves(HostFreeable(t), Max({0, Cardinality(Selected(t, S)) - room}))}

\* free_seq: private pages go back, the blocks lose a reference, and those
\* nobody uses are written through to the host.
FreeSeq(r, status) ==
  LET released == HeldBlocks(r)
  IN  \E p \in Polled(tree) :
      \E w \in WriteThrough(ChangeRefs(p, released, -1), released, hostFree) :
        /\ tree' = w.tree /\ hostFree' = w.room
        /\ free' = free + PrivatePages(r)
        /\ seq' = IF status = "done" THEN [seq EXCEPT ![r] = NoRow(status)]
                  ELSE [Checkpointed EXCEPT ![r] = [NoRow(status) EXCEPT !.mark = Checkpointed[r].mark]]
        /\ IF w.ok THEN pc' = "idle" /\ UNCHANGED raised ELSE Raise("host full")

\* A request that ran all its tokens is released after the step.
Finish(r) ==
  /\ pc = "idle" /\ Finished(r)
  /\ FreeSeq(r, "done")
  /\ UNCHANGED <<batch, todo, budget, awaited, protected>>

\* abort_request between two steps; a request without a row frees nothing.
Abort(r) ==
  /\ Quiet /\ r \in MayAbort /\ Unfinished(r)
  /\ IF seq[r].len > 0 THEN FreeSeq(r, "done")
     ELSE /\ seq' = [seq EXCEPT ![r] = NoRow("done")]
          /\ UNCHANGED <<tree, free, hostFree, pc, raised>>
  /\ UNCHANGED <<batch, todo, budget, awaited, protected>>

\* A sole decode gives way only to a replay that waits, after a new token.
SoleDecodeStuck(r) ==
  /\ ~\E s \in Reqs \ {r} : Decoding(s)
  /\ ~(Replays # {} /\ seq[r].len > seq[r].mark)

\* _preempt_decode_victim: no page is left for any decode.  The victim is
\* rebuilt from its first token and is not looked up again.
Preempt(r) ==
  /\ DecodeScan /\ budget.decode = 0
  /\ Decoding(r) /\ ~SoleDecodeStuck(r)
  /\ FreeSeq(r, "replay")
  /\ budget' = [prompt |-> 0, step |-> 0, decode |-> 0]
  /\ UNCHANGED <<batch, todo, awaited, protected>>

\* Nothing can be scheduled: the sole decode has no page or the prompts were
\* deferred, and the scheduler raises; without a free page the prompts were not
\* even looked at, and the step is empty.
NothingScheduled ==
  /\ DecodeScan
  /\ LET decoding == {r \in Reqs : Decoding(r)}
     IN  /\ decoding = {} \/ (budget.decode = 0 /\ \E r \in decoding : SoleDecodeStuck(r))
         /\ IF decoding = {} /\ budget.step = 0
            THEN pc' = "idle" /\ UNCHANGED raised
            ELSE Raise("no capacity")
  /\ budget' = [prompt |-> 0, step |-> 0, decode |-> 0]
  /\ UNCHANGED <<tree, free, hostFree, seq, batch, todo, awaited, protected>>

-----------------------------------------------------------------------------
(* Operator calls *)

\* prefix_cache_delete_subtree: every block of the subtree that nothing holds
\* and below which nothing is kept.
Delete(b) ==
  /\ Quiet /\ b \in tree.blocks
  /\ LET t == Synchronized(tree)
         gone == {c \in Subtree(t.blocks, b) : \A d \in Subtree(t.blocks, c) : Unused(t, d)}
     IN  /\ tree' = RemoveBlocks(t, gone)
         /\ free' = free + Cardinality(gone \cap t.dev)
         /\ hostFree' = hostFree + Cardinality(gone \cap t.host)
  /\ UNCHANGED <<seq, pc, batch, todo, budget, awaited, protected, raised>>

\* prefix_cache_set_eviction_priority with a negative priority (pin) or zero.
SetPriority(b, pin) ==
  /\ Quiet /\ b \in tree.blocks
  /\ LET sub == Subtree(tree.blocks, b)
         pins == IF pin THEN tree.pinned \cup sub ELSE tree.pinned \ sub
     IN  /\ pins # tree.pinned
         /\ tree' = MarkCapacity([tree EXCEPT !.pinned = pins])
  /\ UNCHANGED <<free, hostFree, seq, pc, batch, todo, budget, awaited, protected, raised>>

-----------------------------------------------------------------------------
Init ==
  /\ tree = [blocks |-> {}, ref |-> [b \in Blocks |-> 0], pinned |-> {}, dev |-> {},
             host |-> {}, d2h |-> <<>>, h2d |-> {}, pending |-> {}, view |-> {}]
  /\ free = NumPages /\ hostFree = HostBlocks
  /\ seq = [r \in Reqs |-> NoRow("absent")]
  /\ pc = "idle" /\ batch = <<>> /\ todo = <<>>
  /\ budget = [prompt |-> 0, step |-> 0, decode |-> 0]
  /\ awaited = {} /\ protected = {} /\ raised = ""

DecodeBatches ==
  {s \in UNION {[1..n -> {r \in Reqs : Decoding(r)}] : n \in 1..Cardinality(Reqs)} : IsInjective(s)}

Next ==
  \/ BeginSchedule
  \/ \E r \in Reqs : SchedulePrefill(r)
  \/ StartPrefill
  \/ \E s \in DecodeBatches : StartDecode(s)
  \/ Poll
  \/ Attach \/ Reclaim \/ Promote
  \/ StartAllocate \/ Allocate \/ AllocateDecode \/ StartForward
  \/ ForwardEnd \/ ReleaseProtected \/ EndStep
  \/ \E r \in Reqs : HoldDuplicate(r) \/ InsertNew(r)
  \/ \E r \in Reqs : Arrive(r) \/ Finish(r) \/ Abort(r) \/ Preempt(r)
  \/ NothingScheduled
  \/ \E b \in MayDelete : Delete(b)
  \/ \E b \in MayPin, pin \in BOOLEAN : SetPriority(b, pin)

Spec == Init /\ [][Next]_vars

-----------------------------------------------------------------------------
(* Properties *)

\* Every page of the device is free, private to one request or owned by one
\* block, and every block of the host pool is free, filled or being filled:
\* across attach, promotion, materialisation, demotion, eviction and release.
TiersConserved ==
  /\ free + SumOver(Reqs, PrivatePages) + Cardinality(tree.dev) = NumPages
  /\ hostFree + Cardinality(tree.host \cup InD2H(tree)) = HostBlocks

\* A reference count is the number of requests that hold the block, and one
\* more while on_forward_end protects it.
RefsExact ==
  \A b \in Blocks :
    tree.ref[b] = Cardinality({r \in Reqs : b \in HeldBlocks(r)})
                    + (IF b \in protected THEN 1 ELSE 0)

\* Index, device and host hold whole paths from the root, and the host path of
\* a block under way to the host is there or on its way before it.
ResidencyRooted ==
  /\ \A S \in {tree.blocks, tree.dev, tree.host} : \A b \in S : Ancestors(b) \subseteq S
  /\ \A i \in DOMAIN tree.d2h : \A b \in tree.d2h[i] :
       Ancestors(b) \subseteq tree.host \cup UNION {tree.d2h[j] : j \in 1..i}
  /\ tree.dev \cup tree.host = tree.blocks

\* While the model runs, every page of the batch that the cache owns is on the
\* device, indexed under the tokens the request has there, and no copy to it
\* is under way that the step does not wait for.
PrefixReadable ==
  pc \in {"forward", "insert"} =>
    \A r \in Range(batch) : \A i \in seq[r].cached :
      /\ Path(r, i) \in tree.dev
      /\ tree.ref[Path(r, i)] > 0
      /\ Path(r, i) \in InH2D(tree) => Path(r, i) \in awaited

\* A batch admitted against the capacity view finds its pages, and a host pool
\* with a block for every page has room for what is written through, unless an
\* operator pinned blocks.
PromiseKept ==
  /\ raised \notin {"out of pages", "chain lost"}
  /\ raised = "host full" => tree.pinned # {}

\* The capacity view kept since the last mark is what a scan would return.
CapacityViewFresh == tree.view = DeviceReclaimable(tree)

\* Nothing is lost to the cache for good: with no request in a row and no copy
\* to the device under way, every page not below a pinned block is free or
\* can be reclaimed.
NothingStranded ==
  pc # "stopped" /\ (\A r \in Reqs : seq[r].len = 0) /\ tree.h2d = {} =>
    \A b \in tree.dev \ tree.view : \E c \in Subtree(tree.dev, b) : c \in tree.pinned

\* A block computed again finds its parent on the device.
InsertsSucceed == raised \notin {"host-only parent", "parent missing"}

=============================================================================
