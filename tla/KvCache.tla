------------------------------ MODULE KvCache ------------------------------
(***************************************************************************)
(* The KV-cache manager as the scheduler sees it: how many tokens each     *)
(* sequence has resident (row_seq_lens), which sequences own a row         *)
(* (seq_id_to_row), how many pages are free, and the capacity hooks the    *)
(* scheduler consults before it commits a batch.                           *)
(*                                                                         *)
(* The definitions follow the paged manager of engine/cache_manager/       *)
(* quest.py.  The slot-granular manager of standard.py is the instance     *)
(* PageSize = 1: there no page is ever partly filled and every hook below  *)
(* reduces to the one standard.py inherits from base.py.  (standard.py      *)
(* also budgets free rows; the resident set contains the rows, so its      *)
(* budget of resident sequences is never the larger one.)                  *)
(*                                                                         *)
(* Prefix caching is off here (prefix_cache is None): every                *)
(* reclaimable-slot term of the hooks is 0 and every prefix hit is empty.  *)
(***************************************************************************)
EXTENDS Integers, FiniteSets, Sums

CONSTANTS
  Reqs,       \* requests (Sequence objects); seq_ids are never reused
  PageSize,   \* tokens per page; 1 gives the slot-granular manager
  NumPages,   \* physical pages of the pool
  NumRows     \* max_num_seqs_in_gpu: rows of the table, resident sequences

ASSUME KvCacheAssumption ==
  /\ IsFiniteSet(Reqs)
  /\ PageSize \in Nat \ {0}
  /\ NumPages \in Nat
  /\ NumRows \in Nat \ {0}

VARIABLES
  kvLen,      \* row_seq_lens: resident tokens of each sequence
  rows,       \* DOMAIN of seq_id_to_row
  freePages   \* _num_free_pages

kvVars == <<kvLen, rows, freePages>>

KvTypeOK ==
  /\ kvLen \in [Reqs -> Nat]
  /\ rows \in SUBSET Reqs
  /\ freePages \in Int

KvInit ==
  /\ kvLen = [s \in Reqs |-> 0]
  /\ rows = {}
  /\ freePages = NumPages

-----------------------------------------------------------------------------
(* Arithmetic of pages.                                                    *)

Least(a, b) == IF a <= b THEN a ELSE b

AtLeast0(n) == IF n >= 0 THEN n ELSE 0

PagesOf(n) == (n + PageSize - 1) \div PageSize

CeilToPageSlots(n) == IF n <= 0 THEN 0 ELSE PagesOf(n) * PageSize

PageOffset(s) == kvLen[s] % PageSize

\* Slots left in the last page of s.
PartialSlots(s) == IF PageOffset(s) = 0 THEN 0 ELSE PageSize - PageOffset(s)

RequiredNewPages(s, size) == PagesOf(kvLen[s] + size) - PagesOf(kvLen[s])

-----------------------------------------------------------------------------
(* The hooks of the scheduler.  A sequence without a row has kvLen 0.      *)

NumFreeSlots == freePages * PageSize

PrefillStepFreeSlots == NumFreeSlots + SumOver(rows, PartialSlots)

PrefillStepFreeSlotsFor(s) == NumFreeSlots + PartialSlots(s)

PrefillStepReservationCost(s, n) ==
  LET take == Least(n, PartialSlots(s)) IN take + CeilToPageSlots(n - take)

DecodeStepFreeSlots ==
  NumFreeSlots + Cardinality({s \in rows : PageOffset(s) # 0})

DecodeStepFreeSlotsFor(s) ==
  IF RequiredNewPages(s, 1) = 0 THEN 1
  ELSE IF freePages > 0 THEN PageSize ELSE 0

DecodeStepReservationCost(s) ==
  IF RequiredNewPages(s, 1) = 0 THEN 1 ELSE PageSize

-----------------------------------------------------------------------------
(* The operations.                                                         *)

\* _allocate: the pages it asserts, the row _get_free_row asks for, and the
\* allocation itself.
HasPagesFor(s, size) == freePages >= RequiredNewPages(s, size)

HasRowFor(s) == s \in rows \/ Cardinality(rows) < NumRows

Allocate(s, size) ==
  /\ freePages' = freePages - RequiredNewPages(s, size)
  /\ kvLen' = [kvLen EXCEPT ![s] = @ + size]
  /\ rows' = rows \union {s}

\* _allocate_batch: one decode token for each sequence of S, all or nothing.
\* A sequence at a page boundary needs a new page.
NeededPages(S) == Cardinality({s \in S : PageOffset(s) = 0})

AllocateBatch(S) ==
  /\ freePages' = freePages - NeededPages(S)
  /\ kvLen' = [s \in Reqs |-> IF s \in S THEN kvLen[s] + 1 ELSE kvLen[s]]
  /\ rows' = rows \union S

\* Mutant: a release that forgets the partly filled last page.
FreeSeqFullPagesOnly(s) ==
  /\ freePages' = freePages + kvLen[s] \div PageSize
  /\ kvLen' = [kvLen EXCEPT ![s] = 0]
  /\ rows' = rows \ {s}

\* free_seq: the row and every page of it go back to the pool.
FreeSeq(s) ==
  /\ freePages' = freePages + PagesOf(kvLen[s])
  /\ kvLen' = [kvLen EXCEPT ![s] = 0]
  /\ rows' = rows \ {s}

-----------------------------------------------------------------------------
(* Every page is either free or belongs to exactly one resident row: a     *)
(* release that forgets the partly filled last page, or an allocation      *)
(* that counts it twice, leaks or invents capacity.                        *)
PagesConserved ==
  /\ freePages >= 0
  /\ freePages + SumOver(Reqs, LAMBDA s : PagesOf(kvLen[s])) = NumPages

=============================================================================
