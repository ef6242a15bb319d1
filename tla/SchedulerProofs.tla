-------------------------- MODULE SchedulerProofs --------------------------
(***************************************************************************)
(* Theorems about Scheduler, for every set of requests, every pool and     *)
(* every choice of the batching limits, after facts about the cache        *)
(* manager of KvCache that hold for every pool: the capacity hooks return  *)
(* integers whatever its state, and the operations keep its type and       *)
(* conserve its pages.                                                     *)
(***************************************************************************)
EXTENDS Scheduler, DataLemmas

-----------------------------------------------------------------------------
(* The cache manager: its hooks and the type of its pool.                  *)

\* Rounding to pages keeps integers integers.
LEMMA PageArithmetic ==
  ASSUME KvCacheAssumption
  PROVE  /\ \A n \in Int : PagesOf(n) \in Int
         /\ \A n \in Nat : PagesOf(n) \in Nat
         /\ \A n \in Int : CeilToPageSlots(n) \in Nat
         /\ \A n \in Nat : n % PageSize \in 0..(PageSize - 1)
<1> USE DEF KvCacheAssumption
<1>1. \A n \in Int : PagesOf(n) \in Int
  BY DEF PagesOf
<1>2. \A n \in Nat : PagesOf(n) \in Nat
  BY DEF PagesOf
<1>3. \A n \in Int : CeilToPageSlots(n) \in Nat
  <2> TAKE n \in Int
  <2>1. CASE n <= 0
    BY <2>1 DEF CeilToPageSlots
  <2>2. CASE n > 0
    <3>1. PagesOf(n) \in Nat
      BY <1>2, <2>2
    <3> QED BY <2>2, <3>1 DEF CeilToPageSlots
  <2> QED BY <2>1, <2>2
<1>4. \A n \in Nat : n % PageSize \in 0..(PageSize - 1)
  OBVIOUS
<1> QED
  BY <1>1, <1>2, <1>3, <1>4

\* The slots left in the partly filled pages (_partial_page_free_slots) are a
\* natural number.
LEMMA PartialSlotsNat ==
  ASSUME KvCacheAssumption, KvTypeOK, NEW s \in Reqs
  PROVE  PartialSlots(s) \in Nat /\ PageOffset(s) \in Nat
<1>1. PageOffset(s) \in 0..(PageSize - 1)
  BY PageArithmetic DEF PageOffset, KvTypeOK
<1> QED
  BY <1>1 DEF PartialSlots, KvCacheAssumption

\* Every hook the scheduler calls returns an integer.
LEMMA HooksType ==
  ASSUME KvCacheAssumption, KvTypeOK
  PROVE  /\ NumFreeSlots \in Int
         /\ PrefillStepFreeSlots \in Int
         /\ DecodeStepFreeSlots \in Int
         /\ \A s \in Reqs : /\ PrefillStepFreeSlotsFor(s) \in Int
                            /\ DecodeStepFreeSlotsFor(s) \in Int
                            /\ DecodeStepReservationCost(s) \in Int
         /\ \A s \in Reqs, n \in Int : PrefillStepReservationCost(s, n) \in Int
<1> USE DEF KvCacheAssumption
<1>1. NumFreeSlots \in Int
  BY DEF NumFreeSlots, KvTypeOK
<1>2. IsFiniteSet(rows) /\ rows \subseteq Reqs
  BY FS_Subset DEF KvTypeOK
<1>3. SumOver(rows, PartialSlots) \in Nat
  <2> DEFINE f == [s \in rows |-> PartialSlots(s)]
  <2>1. f \in [rows -> Int]
    BY <1>2, PartialSlotsNat
  <2> HIDE DEF f
  <2>2. Cardinality(UNION {{s} \X (1..f[s]) : s \in rows}) \in Nat
    BY <1>2, <2>1, SumIsNat
  <2>3. {{s} \X (1..f[s]) : s \in rows} = {{s} \X (1..PartialSlots(s)) : s \in rows}
    BY DEF f
  <2> QED BY <2>2, <2>3 DEF SumOver
<1>4. Cardinality({s \in rows : PageOffset(s) # 0}) \in Nat
  <2>1. {s \in rows : PageOffset(s) # 0} \in SUBSET rows
    OBVIOUS
  <2>2. IsFiniteSet({s \in rows : PageOffset(s) # 0})
    BY <1>2, <2>1, FS_Subset
  <2> QED BY <2>2, FS_CardinalityType
<1>5. PrefillStepFreeSlots \in Int /\ DecodeStepFreeSlots \in Int
  BY <1>1, <1>3, <1>4 DEF PrefillStepFreeSlots, DecodeStepFreeSlots
<1>6. ASSUME NEW s \in Reqs
      PROVE  /\ PrefillStepFreeSlotsFor(s) \in Int
             /\ DecodeStepFreeSlotsFor(s) \in Int
             /\ DecodeStepReservationCost(s) \in Int
  BY <1>1, PartialSlotsNat
  DEF PrefillStepFreeSlotsFor, DecodeStepFreeSlotsFor, DecodeStepReservationCost
<1>7. ASSUME NEW s \in Reqs, NEW n \in Int
      PROVE  PrefillStepReservationCost(s, n) \in Int
  <2> DEFINE take == Least(n, PartialSlots(s))
  <2>1. take \in Int
    BY PartialSlotsNat DEF Least
  <2> HIDE DEF take
  <2>2. n - take \in Int /\ CeilToPageSlots(n - take) \in Nat
    BY <2>1, PageArithmetic
  <2>3. take + CeilToPageSlots(n - take) \in Int
    BY <2>1, <2>2
  <2> QED BY <2>3 DEF PrefillStepReservationCost, take
<1> QED
  BY <1>1, <1>5, <1>6, <1>7

\* Allocation and release keep the type of the pool.
LEMMA AllocateType ==
  ASSUME KvCacheAssumption, KvTypeOK, NEW s \in Reqs, NEW n \in Nat, Allocate(s, n)
  PROVE  KvTypeOK'
<1>1. RequiredNewPages(s, n) \in Int
  <2>1. kvLen[s] \in Nat /\ kvLen[s] + n \in Nat
    BY DEF KvTypeOK
  <2> QED BY <2>1, PageArithmetic DEF RequiredNewPages
<1> QED
  BY <1>1 DEF Allocate, KvTypeOK

\* The allocation of a decode batch (_allocate_batch) keeps the type of the pool.
LEMMA AllocateBatchType ==
  ASSUME KvCacheAssumption, KvTypeOK, NEW S \in SUBSET Reqs, AllocateBatch(S)
  PROVE  KvTypeOK'
<1>1. NeededPages(S) \in Int
  <2>1. {s \in S : PageOffset(s) = 0} \in SUBSET Reqs
    OBVIOUS
  <2>2. IsFiniteSet({s \in S : PageOffset(s) = 0})
    BY <2>1, FS_Subset DEF KvCacheAssumption
  <2> QED BY <2>2, FS_CardinalityType DEF NeededPages
<1> QED
  BY <1>1 DEF AllocateBatch, KvTypeOK

\* The release of a row (free_seq) keeps the type of the pool.
LEMMA FreeSeqType ==
  ASSUME KvCacheAssumption, KvTypeOK, NEW s \in Reqs, FreeSeq(s)
  PROVE  KvTypeOK'
<1>1. PagesOf(kvLen[s]) \in Int
  BY PageArithmetic DEF KvTypeOK
<1> QED
  BY <1>1 DEF FreeSeq, KvTypeOK

-----------------------------------------------------------------------------
(* Arithmetic: division by the page size.                                  *)

\* Quotient and remainder.
LEMMA DivMod ==
  ASSUME NEW p \in Nat \ {0}, NEW n \in Int
  PROVE  /\ n \div p \in Int
         /\ n % p \in 0..(p - 1)
         /\ n = p * (n \div p) + (n % p)
  BY SMT

\* The quotient is the only one.
LEMMA DivUnique ==
  ASSUME NEW p \in Nat \ {0}, NEW q \in Int, NEW r \in 0..(p - 1)
  PROVE  (p * q + r) \div p = q
<1> DEFINE m == p * q + r
           d == m \div p
           e == m % p
<1>1. m \in Int /\ d \in Int /\ e \in 0..(p - 1) /\ m = p * d + e
  BY DivMod
<1> HIDE DEF d, e
<1>2. ASSUME NEW k \in Int, k >= 1 PROVE p * k >= p
  BY <1>2
<1>3. CASE d - q >= 1
  <2>1. p * (d - q) = r - e
    BY <1>1
  <2> QED BY <1>1, <1>2, <1>3, <2>1
<1>4. CASE q - d >= 1
  <2>1. p * (q - d) = e - r
    BY <1>1
  <2> QED BY <1>1, <1>2, <1>4, <2>1
<1> QED
  BY <1>1, <1>3, <1>4 DEF d

\* One more token needs one more page exactly at a page boundary.
LEMMA NextTokenPages ==
  ASSUME KvCacheAssumption, NEW n \in Nat
  PROVE  PagesOf(n + 1) = PagesOf(n) + (IF n % PageSize = 0 THEN 1 ELSE 0)
<1> DEFINE q == n \div PageSize
           r == n % PageSize
<1>0. PageSize \in Nat \ {0}
  BY DEF KvCacheAssumption
<1>1. q \in Int /\ r \in 0..(PageSize - 1) /\ n = PageSize * q + r
  BY <1>0, DivMod
<1> HIDE DEF q, r
<1>2. CASE r = 0
  <2>1. n + PageSize - 1 = PageSize * q + (PageSize - 1)
    BY <1>0, <1>1, <1>2
  <2>2. n + 1 + PageSize - 1 = PageSize * (q + 1) + 0
    BY <1>0, <1>1, <1>2
  <2>3. PagesOf(n) = q
    BY <1>0, <1>1, <2>1, DivUnique DEF PagesOf
  <2>4. q + 1 \in Int /\ 0 \in 0..(PageSize - 1)
    BY <1>0, <1>1
  <2>5. PagesOf(n + 1) = q + 1
    BY <1>0, <2>2, <2>4, DivUnique DEF PagesOf
  <2> QED BY <1>2, <2>3, <2>5 DEF r
<1>3. CASE r # 0
  <2>1. n + PageSize - 1 = PageSize * (q + 1) + (r - 1)
    BY <1>0, <1>1
  <2>2. n + 1 + PageSize - 1 = PageSize * (q + 1) + r
    BY <1>0, <1>1
  <2>3. q + 1 \in Int /\ r - 1 \in 0..(PageSize - 1) /\ r \in 0..(PageSize - 1)
    BY <1>0, <1>1, <1>3
  <2>4. PagesOf(n) = q + 1
    BY <1>0, <2>1, <2>3, DivUnique DEF PagesOf
  <2>5. PagesOf(n + 1) = q + 1
    BY <1>0, <2>2, <2>3, DivUnique DEF PagesOf
  <2> QED BY <1>1, <1>3, <2>4, <2>5 DEF r
<1> QED
  BY <1>2, <1>3

\* An empty row owns no page.
LEMMA NoTokensNoPages ==
  ASSUME KvCacheAssumption
  PROVE  PagesOf(0) = 0
<1>1. /\ PageSize \in Nat \ {0} /\ PageSize - 1 \in 0..(PageSize - 1)
      /\ 0 + PageSize - 1 = PageSize * 0 + (PageSize - 1)
  BY DEF KvCacheAssumption
<1> QED BY <1>1, DivUnique DEF PagesOf

-----------------------------------------------------------------------------
(* No operation leaks or invents a page.                                   *)

\* The pages each request owns in a row table.
Owns(len) == [s \in Reqs |-> PagesOf(len[s])]

\* The conservation law for a row table and a number of free pages.
Conserved(len, free) == free >= 0 /\ free + Cardinality(Cells(Reqs, Owns(len))) = NumPages

\* Conserved is PagesConserved, in this state and in the next.
LEMMA ConservationLaw ==
  /\ PagesConserved <=> Conserved(kvLen, freePages)
  /\ PagesConserved' <=> Conserved(kvLen', freePages')
  BY DEF PagesConserved, Conserved, Owns, Cells, SumOver, PagesOf

\* What each request owns is a natural number.
LEMMA OwnsNat ==
  ASSUME KvCacheAssumption, NEW len \in [Reqs -> Nat]
  PROVE  /\ \A s \in Reqs : Owns(len)[s] = PagesOf(len[s]) /\ Owns(len)[s] \in Nat
         /\ Cardinality(Cells(Reqs, Owns(len))) \in Nat
<1>1. \A s \in Reqs : Owns(len)[s] = PagesOf(len[s]) /\ Owns(len)[s] \in Nat
  BY PageArithmetic DEF Owns
<1>2. IsFiniteSet(Reqs) /\ \A s \in Reqs : Owns(len)[s] \in Int
  BY <1>1 DEF KvCacheAssumption
<1> QED BY <1>1, <1>2, CellsFinite

\* A change of one row, paid for by the pool, conserves.
LEMMA RowChangeConserves ==
  ASSUME KvCacheAssumption, NEW len \in [Reqs -> Nat], NEW free \in Int,
         NEW s \in Reqs, NEW n \in Nat, Conserved(len, free),
         NEW free2, free2 = free - (PagesOf(n) - PagesOf(len[s])), free2 >= 0,
         NEW len2, len2 = [len EXCEPT ![s] = n]
  PROVE  Conserved(len2, free2)
<1> DEFINE f == Owns(len)
           g == Owns(len2)
<1>1. /\ len2 \in [Reqs -> Nat] /\ len2[s] = n
      /\ \A t \in Reqs \ {s} : len2[t] = len[t]
  OBVIOUS
<1>2. /\ \A t \in Reqs : f[t] = PagesOf(len[t]) /\ f[t] \in Nat
      /\ Cardinality(Cells(Reqs, f)) \in Nat
  BY OwnsNat
<1>3. \A t \in Reqs : g[t] = PagesOf(len2[t]) /\ g[t] \in Nat
  BY <1>1, OwnsNat
<1>4. free + Cardinality(Cells(Reqs, f)) = NumPages
  BY DEF Conserved
<1> HIDE DEF f, g
<1>5. /\ IsFiniteSet(Reqs) /\ \A t \in Reqs : f[t] \in Int /\ g[t] \in Int
      /\ \A t \in Reqs \ {s} : g[t] = f[t]
  BY <1>1, <1>2, <1>3 DEF KvCacheAssumption
<1>6. Cardinality(Cells(Reqs, g)) = Cardinality(Cells(Reqs, f)) + g[s] - f[s]
  BY <1>2, <1>3, <1>5, OneSummand
<1>7. free2 + Cardinality(Cells(Reqs, g)) = NumPages
  BY <1>1, <1>2, <1>3, <1>4, <1>6
<1> QED BY <1>7 DEF Conserved, g

\* _allocate takes from the pool what the row gains.
LEMMA AllocateConserves ==
  ASSUME KvCacheAssumption, KvTypeOK, PagesConserved, NEW s \in Reqs, NEW n \in Nat,
         HasPagesFor(s, n), Allocate(s, n)
  PROVE  PagesConserved'
<1>1. /\ kvLen \in [Reqs -> Nat] /\ freePages \in Int /\ kvLen[s] + n \in Nat
      /\ kvLen' = [kvLen EXCEPT ![s] = kvLen[s] + n]
      /\ freePages' = freePages - (PagesOf(kvLen[s] + n) - PagesOf(kvLen[s]))
  BY DEF Allocate, KvTypeOK, RequiredNewPages
<1>2. PagesOf(kvLen[s] + n) \in Int /\ PagesOf(kvLen[s]) \in Int
  BY <1>1, PageArithmetic
<1>3. freePages' >= 0
  BY <1>1, <1>2 DEF HasPagesFor, RequiredNewPages
<1> QED
  BY <1>1, <1>3, ConservationLaw, RowChangeConserves

\* free_seq returns every page of the row, the partly filled one too.
LEMMA FreeSeqConserves ==
  ASSUME KvCacheAssumption, KvTypeOK, PagesConserved, NEW s \in Reqs, FreeSeq(s)
  PROVE  PagesConserved'
<1>1. /\ kvLen \in [Reqs -> Nat] /\ freePages \in Int /\ kvLen[s] \in Nat
      /\ kvLen' = [kvLen EXCEPT ![s] = 0] /\ freePages' = freePages + PagesOf(kvLen[s])
  BY DEF FreeSeq, KvTypeOK
<1>2. PagesOf(kvLen[s]) \in Nat /\ PagesOf(0) = 0
  BY <1>1, PageArithmetic, NoTokensNoPages
<1>3. freePages' = freePages - (PagesOf(0) - PagesOf(kvLen[s])) /\ freePages' >= 0
  BY <1>1, <1>2 DEF PagesConserved
<1> QED
  BY <1>1, <1>3, ConservationLaw, RowChangeConserves

\* _allocate_batch takes one page for each sequence at a page boundary.
LEMMA AllocateBatchConserves ==
  ASSUME KvCacheAssumption, KvTypeOK, PagesConserved, NEW S \in SUBSET Reqs,
         NeededPages(S) <= freePages, AllocateBatch(S)
  PROVE  PagesConserved'
<1> DEFINE A == {s \in S : PageOffset(s) = 0}
           f == Owns(kvLen)
           g == Owns(kvLen')
<1>1. /\ kvLen \in [Reqs -> Nat] /\ freePages \in Int /\ IsFiniteSet(Reqs) /\ A \in SUBSET Reqs
      /\ kvLen' \in [Reqs -> Nat] /\ freePages' = freePages - Cardinality(A)
      /\ \A s \in Reqs : kvLen'[s] = IF s \in S THEN kvLen[s] + 1 ELSE kvLen[s]
  BY DEF AllocateBatch, KvTypeOK, NeededPages, KvCacheAssumption
<1>2. Cardinality(A) \in Nat /\ Cardinality(A) <= freePages
  <2>1. IsFiniteSet(A)
    BY <1>1, FS_Subset
  <2> QED BY <2>1, FS_CardinalityType DEF NeededPages
<1>3. /\ \A s \in Reqs : f[s] = PagesOf(kvLen[s]) /\ f[s] \in Nat
      /\ Cardinality(Cells(Reqs, f)) \in Nat
  BY <1>1, OwnsNat
<1>4. \A s \in Reqs : g[s] = PagesOf(kvLen'[s])
  BY <1>1, OwnsNat
<1>5. freePages + Cardinality(Cells(Reqs, f)) = NumPages
  BY ConservationLaw DEF Conserved
<1> HIDE DEF f, g
<1>6. ASSUME NEW s \in Reqs PROVE f[s] \in Nat /\ g[s] = f[s] + (IF s \in A THEN 1 ELSE 0)
  <2>1. kvLen[s] \in Nat
    BY <1>1
  <2>2. PagesOf(kvLen[s] + 1) = PagesOf(kvLen[s]) + (IF PageOffset(s) = 0 THEN 1 ELSE 0)
    BY <2>1, NextTokenPages DEF PageOffset
  <2> QED BY <1>1, <1>3, <1>4, <2>2
<1> HIDE DEF A
<1>7. Cardinality(Cells(Reqs, g)) = Cardinality(Cells(Reqs, f)) + Cardinality(A)
  BY <1>1, <1>6, OneMoreEach
<1>8. freePages' >= 0 /\ freePages' + Cardinality(Cells(Reqs, g)) = NumPages
  BY <1>1, <1>2, <1>3, <1>5, <1>7
<1> QED BY <1>8, ConservationLaw DEF Conserved, g

\* An idle pool is conserved from the start.
LEMMA InitConserves ==
  ASSUME KvCacheAssumption, KvInit
  PROVE  PagesConserved
<1>1. \A s \in Reqs : Owns(kvLen)[s] = 0
  BY NoTokensNoPages DEF KvInit, Owns
<1>2. Cells(Reqs, Owns(kvLen)) = {}
  BY <1>1, CellIs
<1>3. Cardinality(Cells(Reqs, Owns(kvLen))) = 0
  BY <1>2, FS_EmptySet
<1> QED BY <1>3, ConservationLaw DEF Conserved, KvInit, KvCacheAssumption

-----------------------------------------------------------------------------
(* Types.                                                                  *)

\* The slots reserved for partly prefilled prompts are a natural number.
LEMMA ReservedPrefillSlotsNat ==
  ASSUME KvCacheAssumption, SchedulerAssumption, TypeOK
  PROVE  ReservedPrefillSlots \in Nat
<1> DEFINE S == {s \in ToSet(waiting) : 0 < prefilled[s] /\ prefilled[s] < PromptLen[s]}
           f == [s \in S |-> CeilToPageSlots(RemainingPrefillTokens(s))]
<1>1. S \in SUBSET Reqs
  BY DEF TypeOK, ToSet
<1>2. IsFiniteSet(S)
  BY <1>1, FS_Subset DEF KvCacheAssumption
<1>3. f \in [S -> Int]
  <2> SUFFICES ASSUME NEW s \in S PROVE CeilToPageSlots(RemainingPrefillTokens(s)) \in Int
    OBVIOUS
  <2>1. RemainingPrefillTokens(s) \in Int
    BY <1>1 DEF RemainingPrefillTokens, TypeOK, SchedulerAssumption
  <2> QED BY <2>1, PageArithmetic
<1> HIDE DEF f
<1>4. Cardinality(UNION {{s} \X (1..f[s]) : s \in S}) \in Nat
  BY <1>2, <1>3, SumIsNat
<1>5. {{s} \X (1..f[s]) : s \in S}
        = {{s} \X (1..CeilToPageSlots(RemainingPrefillTokens(s))) : s \in S}
  BY DEF f
<1> QED
  BY <1>4, <1>5 DEF ReservedPrefillSlots, SumOver

\* The local variables of step() have their type between two steps.
LEMMA IdleLocalsType == IdleLocals \in Locals
<1>1. <<>> \in Seq(Modes)
  OBVIOUS
<1> QED
  BY <1>1 DEF IdleLocals, Locals

\* A new engine, with every request still outside, is well typed.
LEMMA TypeInit ==
  ASSUME KvCacheAssumption, SchedulerAssumption, Init
  PROVE  TypeOK
<1>1. KvTypeOK
  BY DEF Init, KvInit, KvTypeOK, KvCacheAssumption
<1>2. <<>> \in Seq(Reqs)
  OBVIOUS
<1> QED
  BY <1>1, <1>2, IdleLocalsType DEF Init, TypeOK, Phases

\* A return of step() resets the local variables, so it keeps their type.
LEMMA ReturnType ==
  ASSUME TypeOK, Return
  PROVE  /\ pc' \in Phases /\ batch' \in Seq(Reqs) /\ todo' \in Seq(Reqs)
         /\ finished' \in Seq(Reqs) /\ isPrefill' \in BOOLEAN
         /\ victim' \in SUBSET Reqs /\ raised' \in Raises \union {"none"}
         /\ loc' \in Locals
<1>1. <<>> \in Seq(Reqs)
  OBVIOUS
<1> QED
  BY <1>1, IdleLocalsType DEF TypeOK, Return, Phases

\* An exception raised by step() keeps the type of the queues and the pool.
LEMMA RaiseType ==
  ASSUME TypeOK, NEW why \in Raises, Raise(why)
  PROVE  /\ pc' \in Phases /\ batch' \in Seq(Reqs) /\ todo' \in Seq(Reqs)
         /\ finished' \in Seq(Reqs) /\ isPrefill' \in BOOLEAN
         /\ victim' \in SUBSET Reqs /\ raised' \in Raises \union {"none"}
         /\ loc' \in Locals
  BY DEF TypeOK, Raise, Phases

\* The quantities the prefill scan computes are integers.
LEMMA PrefillTypes ==
  ASSUME KvCacheAssumption, SchedulerAssumption, TypeOK, NEW s \in Reqs
  PROVE  /\ RemainingPrefillTokens(s) \in Int
         /\ CandidateStepFree(s) \in Int
         /\ PrefillStepTokens(s) \in Int
         /\ PromptAdmissionCost(s) \in Int
         /\ ResidentCost(s) \in Int
<1> USE DEF SchedulerAssumption
<1>1. RemainingPrefillTokens(s) \in Int
  BY DEF RemainingPrefillTokens, TypeOK
<1>2. loc.stepFree \in Int /\ loc.tokens \in Nat
  BY DEF TypeOK, Locals
<1>3. PrefillStepFreeSlotsFor(s) \in Int
  BY HooksType DEF TypeOK
<1>4. CandidateStepFree(s) \in Int
  BY <1>2, <1>3 DEF CandidateStepFree, Least
<1>5. PrefillStepTokens(s) \in Int
  BY <1>1, <1>2, <1>4 DEF PrefillStepTokens, Least
<1>6. PromptAdmissionCost(s) \in Int
  <2>1. PromptLen[s] \in Int
    OBVIOUS
  <2> QED BY <2>1, PageArithmetic DEF PromptAdmissionCost
<1> QED
  BY <1>1, <1>4, <1>5, <1>6 DEF ResidentCost

\* What the fields of the locals hold.
LEMMA LocalsFields ==
  ASSUME TypeOK
  PROVE  /\ loc \in Locals
         /\ loc.modes \in Seq(Modes) /\ loc.scan \in Nat /\ loc.stepFree \in Int
         /\ loc.slots \in Int /\ loc.residents \in Int /\ loc.tokens \in Nat
         /\ loc.decodeFree \in Int /\ loc.failures \in SUBSET Failures
         /\ loc.scan > 0 => loc.scan - 1 \in Nat
<1>1. loc \in Locals
  BY DEF TypeOK
<1>2. /\ loc.modes \in Seq(Modes) /\ loc.scan \in Nat /\ loc.stepFree \in Int
      /\ loc.slots \in Int /\ loc.residents \in Int /\ loc.tokens \in Nat
      /\ loc.decodeFree \in Int /\ loc.failures \in SUBSET Failures
  BY <1>1 DEF Locals
<1>3. loc.scan > 0 => loc.scan - 1 \in Nat
  BY <1>2
<1> QED
  BY <1>1, <1>2, <1>3

\* The locals of the decode scan.
LEMMA DecodeLocalsType ==
  ASSUME TypeOK, NEW l \in Locals
  PROVE  DecodeLocals(l) \in Locals
<1> DEFINE turn == \A i \in DOMAIN decoding : IsLongText(decoding[i])
           n == Len(decoding)
<1>1. n \in Nat
  BY DEF TypeOK
<1>2. turn \in BOOLEAN
  OBVIOUS
<1>3. DecodeLocals(l) = [l EXCEPT !.scan = n, !.longTurn = turn]
  BY DEF DecodeLocals
<1> HIDE DEF turn, n
<1>4. [l EXCEPT !.scan = n, !.longTurn = turn] \in Locals
  BY <1>1, <1>2 DEF Locals
<1> QED
  BY <1>3, <1>4

\* Sending a candidate to the tail of the queue.
LEMMA RequeueType ==
  ASSUME TypeOK, loc.scan > 0, NEW i \in DOMAIN waiting, NEW F \in SUBSET Failures,
         Requeue(i, F)
  PROVE  TypeOK'
<1> USE DEF seqVars, queueVars, stepVars, kvVars
<1>1. waiting' \in Seq(Reqs)
  <2>1. waiting[i] \in Reqs /\ RemoveAt(waiting, i) \in Seq(Reqs)
    BY RemoveAtElements DEF TypeOK
  <2>2. Append(RemoveAt(waiting, i), waiting[i]) \in Seq(Reqs)
    BY <2>1
  <2> QED BY <2>2 DEF Requeue
<1>2. loc' \in Locals
  <2>1. loc \in Locals /\ loc.scan - 1 \in Nat /\ loc.failures \union F \in SUBSET Failures
    BY LocalsFields
  <2>2. loc' = [loc EXCEPT !.scan = loc.scan - 1, !.failures = loc.failures \union F]
    BY <2>1 DEF Requeue, Locals
  <2> QED BY <2>1, <2>2 DEF Locals
<1> QED
  BY <1>1, <1>2 DEF Requeue, TypeOK, KvTypeOK

\* Evicting a decode request, whether it is requeued or the engine gives up.
LEMMA PreemptType ==
  ASSUME KvCacheAssumption, TypeOK, NEW v \in Reqs, NEW rest \in Seq(Reqs),
         PreemptDecodeVictim(v, rest)
  PROVE  TypeOK'
<1> USE DEF seqVars, queueVars, stepVars, kvVars
<1>1. CASE SoleDecodeStuck(v, rest)
  <2>1. /\ Raise("sole_decode") /\ decoding' = rest
        /\ UNCHANGED <<seqVars, waiting, resident, kvVars>>
    BY <1>1 DEF PreemptDecodeVictim
  <2>2. "sole_decode" \in Raises
    BY DEF Raises
  <2> QED BY <2>1, <2>2, RaiseType DEF TypeOK, KvTypeOK
<1>2. CASE ~SoleDecodeStuck(v, rest)
  <2>1. /\ status' = [status EXCEPT ![v] = "waiting"]
        /\ cursor' = [cursor EXCEPT ![v] = IF completion[v] > 0 THEN 0 ELSE @]
        /\ prefilled' = [prefilled EXCEPT ![v] = 0]
        /\ chunk' = [chunk EXCEPT ![v] = IF completion[v] > 0 THEN 0 ELSE @]
        /\ checkpoint' = CheckpointHandoff(v, rest)
        /\ waiting' = Append(waiting, v)
        /\ decoding' = rest
        /\ UNCHANGED <<completion, published>>
    BY <1>2 DEF PreemptDecodeVictim
  <2>2. /\ status' \in [Reqs -> {"new", "waiting", "running", "finished"}]
        /\ cursor' \in [Reqs -> Nat \union {NoReplay}]
        /\ prefilled' \in [Reqs -> Nat]
        /\ chunk' \in [Reqs -> Nat]
    BY <2>1 DEF TypeOK
  <2>3. checkpoint' \in [Reqs -> Nat]
    BY <2>1 DEF TypeOK, CheckpointHandoff
  <2>4. waiting' \in Seq(Reqs) /\ decoding' \in Seq(Reqs)
    BY <2>1 DEF TypeOK
  <2>5. completion' \in [Reqs -> Nat] /\ published' \in [Reqs -> Nat]
    BY <2>1 DEF TypeOK
  <2>6. CASE v \in rows
    <3>1. FreeSeqPayload(v) /\ Return
      BY <1>2, <2>6 DEF PreemptDecodeVictim
    <3>2. KvTypeOK' /\ resident' \in SUBSET Reqs
      BY <3>1, FreeSeqType DEF FreeSeqPayload, TypeOK
    <3> QED BY <2>2, <2>3, <2>4, <2>5, <3>1, <3>2, ReturnType DEF TypeOK
  <2>7. CASE v \notin rows
    <3>1. Raise("no_row") /\ UNCHANGED <<resident, kvVars>>
      BY <1>2, <2>7 DEF PreemptDecodeVictim
    <3>2. "no_row" \in Raises
      BY DEF Raises
    <3>3. KvTypeOK' /\ resident' \in SUBSET Reqs
      BY <3>1 DEF TypeOK, KvTypeOK
    <3> QED BY <2>2, <2>3, <2>4, <2>5, <3>1, <3>2, <3>3, RaiseType DEF TypeOK
  <2> QED BY <2>6, <2>7
<1> QED
  BY <1>1, <1>2

\* What every step of postprocess does before it files the request.
LEMMA PostprocessType ==
  ASSUME TypeOK, NEW s \in Reqs, Postprocess(s)
  PROVE  /\ KvTypeOK'
         /\ published' \in [Reqs -> Nat] /\ chunk' \in [Reqs -> Nat]
         /\ resident' \in SUBSET Reqs /\ pc' \in Phases
         /\ batch' \in Seq(Reqs) /\ todo' \in Seq(Reqs)
         /\ isPrefill' \in BOOLEAN /\ victim' \in SUBSET Reqs
         /\ raised' \in Raises \union {"none"} /\ loc' \in Locals
         /\ prefilled[s] + chunk[s] \in Nat
         /\ finished \in Seq(Reqs) /\ decoding \in Seq(Reqs) /\ waiting \in Seq(Reqs)
         /\ Append(finished, s) \in Seq(Reqs) /\ Append(decoding, s) \in Seq(Reqs)
<1> USE DEF seqVars, queueVars, stepVars, kvVars
<1>1. todo' \in Seq(Reqs)
  BY TailOwnership DEF Postprocess, TypeOK
<1>2. published' \in [Reqs -> Nat]
  <2>1. CASE Publishes(s)
    <3>1. published' = [published EXCEPT ![s] = published[s] + 1]
      BY <2>1 DEF Postprocess, PublishedAfter
    <3>2. published[s] + 1 \in Nat
      BY DEF TypeOK
    <3> QED BY <3>1, <3>2 DEF TypeOK
  <2>2. CASE ~Publishes(s)
    <3>1. published' = [published EXCEPT ![s] = published[s]]
      BY <2>2 DEF Postprocess, PublishedAfter
    <3> QED BY <3>1 DEF TypeOK
  <2> QED BY <2>1, <2>2
<1>3. Append(finished, s) \in Seq(Reqs) /\ Append(decoding, s) \in Seq(Reqs)
  BY DEF TypeOK
<1>4. prefilled[s] + chunk[s] \in Nat
  BY DEF TypeOK
<1>5. KvTypeOK'
  BY DEF Postprocess, TypeOK, KvTypeOK
<1> QED
  BY <1>1, <1>2, <1>3, <1>4, <1>5 DEF Postprocess, TypeOK

\* The end of a replay and its advance keep the cursor and the checkpoint.
LEMMA ReplayType ==
  ASSUME TypeOK, NEW s \in Reqs
  PROVE  /\ FinishRecomputeReplay(s) =>
              cursor' \in [Reqs -> Nat \union {NoReplay}] /\ checkpoint' \in [Reqs -> Nat]
         /\ cursor[s] + 1 \in Nat
<1>1. cursor[s] \in Nat \union {-1} /\ completion[s] \in Nat
  BY DEF TypeOK, NoReplay
<1>2. cursor[s] + 1 \in Nat
  BY <1>1
<1>3. FinishRecomputeReplay(s) =>
        cursor' \in [Reqs -> Nat \union {NoReplay}] /\ checkpoint' \in [Reqs -> Nat]
  BY DEF TypeOK, FinishRecomputeReplay
<1> QED
  BY <1>2, <1>3

\* Every action of the engine and of its clients keeps the type.
LEMMA TypeStep ==
  ASSUME KvCacheAssumption, SchedulerAssumption, TypeOK, [Next]_vars
  PROVE  TypeOK'
<1> USE DEF seqVars, queueVars, stepVars, kvVars
<1>1. ASSUME NEW s \in Reqs, AddRequest(s) PROVE TypeOK'
  <2>1. waiting' \in Seq(Reqs)
    BY <1>1 DEF AddRequest, TypeOK
  <2> QED BY <1>1, <2>1 DEF AddRequest, TypeOK, KvTypeOK
<1>2. ASSUME NEW s \in Reqs, AbortRequest(s) PROVE TypeOK'
  <2>1. waiting' \in Seq(Reqs) /\ decoding' \in Seq(Reqs)
    <3>1. AbortFrom(s)
      BY <1>2 DEF AbortRequest
    <3>2. CASE \E i \in DOMAIN waiting : /\ waiting[i] = s
                                         /\ waiting' = RemoveAt(waiting, i)
                                         /\ UNCHANGED decoding
      BY <3>2, RemoveAtElements DEF TypeOK
    <3>3. CASE \E i \in DOMAIN decoding : /\ decoding[i] = s
                                          /\ decoding' = RemoveAt(decoding, i)
                                          /\ UNCHANGED waiting
      BY <3>3, RemoveAtElements DEF TypeOK
    <3> QED BY <3>1, <3>2, <3>3 DEF AbortFrom
  <2>2. status' \in [Reqs -> {"new", "waiting", "running", "finished"}]
    BY <1>2 DEF AbortRequest, TypeOK
  <2>3. UNCHANGED <<prefilled, completion, chunk, cursor, checkpoint, published>>
    BY <1>2 DEF AbortRequest
  <2>4. CASE ~AbortMustFree(s)
    BY <1>2, <2>1, <2>2, <2>3, <2>4 DEF AbortRequest, TypeOK, KvTypeOK
  <2>5. CASE AbortMustFree(s) /\ s \in rows
    <3>1. FreeSeqPayload(s) /\ UNCHANGED stepVars
      BY <1>2, <2>5 DEF AbortRequest
    <3>2. KvTypeOK'
      BY <3>1, FreeSeqType DEF FreeSeqPayload, TypeOK
    <3> QED BY <2>1, <2>2, <2>3, <3>1, <3>2 DEF FreeSeqPayload, TypeOK
  <2>6. CASE AbortMustFree(s) /\ s \notin rows
    <3>1. Raise("no_row") /\ UNCHANGED <<resident, kvVars>>
      BY <1>2, <2>6 DEF AbortRequest
    <3>2. "no_row" \in Raises
      BY DEF Raises
    <3> QED BY <2>1, <2>2, <2>3, <3>1, <3>2, RaiseType DEF TypeOK, KvTypeOK
  <2> QED BY <2>4, <2>5, <2>6
<1>3. ASSUME BeginSchedule PROVE TypeOK'
  <2>1. PrefillModeOrder \in Seq(Modes)
    <3>1. /\ <<>> \in Seq(Modes)
          /\ <<"chunked">> \in Seq(Modes) /\ <<"full">> \in Seq(Modes)
          /\ <<"chunked", "full">> \in Seq(Modes) /\ <<"full", "chunked">> \in Seq(Modes)
      BY DEF Modes
    <3>2. \/ PrefillModeOrder = <<>>
          \/ PrefillModeOrder = <<"chunked">> \/ PrefillModeOrder = <<"full">>
          \/ PrefillModeOrder = <<"chunked", "full">>
          \/ PrefillModeOrder = <<"full", "chunked">>
      BY Zenon DEF PrefillModeOrder
    <3> QED BY <3>1, <3>2, Zenon
  <2>2. /\ Len(waiting) \in Nat /\ NumFreeSlots \in Int
        /\ PrefillStepFreeSlots \in Int /\ DecodeStepFreeSlots \in Int
    BY HooksType DEF TypeOK
  <2>3. AtLeast0(NumFreeSlots - ReservedPrefillSlots) \in Int
    BY <2>2, ReservedPrefillSlotsNat DEF AtLeast0
  <2>4. AtLeast0(NumRows - Cardinality(resident)) \in Int
    <3>1. IsFiniteSet(resident)
      BY FS_Subset DEF TypeOK, KvCacheAssumption
    <3>2. Cardinality(resident) \in Nat
      BY <3>1, FS_CardinalityType
    <3> QED BY <3>2 DEF AtLeast0, KvCacheAssumption
  <2> DEFINE l == [modes |-> PrefillModeOrder,
                   scan |-> Len(waiting),
                   stepFree |-> PrefillStepFreeSlots,
                   slots |-> AtLeast0(NumFreeSlots - ReservedPrefillSlots),
                   residents |-> AtLeast0(NumRows - Cardinality(resident)),
                   tokens |-> 0,
                   decodeFree |-> DecodeStepFreeSlots,
                   longTurn |-> FALSE,
                   failures |-> {}]
  <2>5. l \in Locals
    BY <2>1, <2>2, <2>3, <2>4 DEF Locals
  <2>6. pc' \in Phases /\ (loc' = l \/ loc' = DecodeLocals(l))
    BY <1>3 DEF BeginSchedule, Phases
  <2> HIDE DEF l
  <2>7. loc' \in Locals
    BY <2>5, <2>6, DecodeLocalsType
  <2> QED BY <1>3, <2>6, <2>7 DEF BeginSchedule, TypeOK, KvTypeOK
<1>4. ASSUME NEW i \in DOMAIN waiting, PrefillBlocked(i) PROVE TypeOK'
  <2> DEFINE s == waiting[i]
             F == (IF CandidateStepFree(s) <= 0 THEN {"capacity"} ELSE {})
                    \union (IF PrefillMode(s) = "full" THEN {"step"} ELSE {})
  <2>1. CASE RemainingPrefillTokens(s) <= 0
    <3>1. Raise("not_waiting") /\ UNCHANGED <<seqVars, queueVars, resident, kvVars>>
      BY <1>4, <2>1 DEF PrefillBlocked
    <3>2. "not_waiting" \in Raises
      BY DEF Raises
    <3> QED BY <3>1, <3>2, RaiseType DEF TypeOK, KvTypeOK
  <2>2. CASE ~(RemainingPrefillTokens(s) <= 0)
    <3>1. Requeue(i, F) /\ loc.scan > 0
      BY <1>4, <2>2 DEF PrefillBlocked, PrefillLoop
    <3>2. F \in SUBSET Failures
      BY DEF Failures
    <3> HIDE DEF F
    <3> QED BY <3>1, <3>2, RequeueType
  <2> QED BY <2>1, <2>2
<1>5. ASSUME NEW i \in DOMAIN waiting, PrefillDeferred(i) PROVE TypeOK'
  <2>1. Requeue(i, {"deferred"}) /\ loc.scan > 0
    BY <1>5 DEF PrefillDeferred, PrefillLoop
  <2>2. {"deferred"} \in SUBSET Failures
    BY DEF Failures
  <2> QED BY <2>1, <2>2, RequeueType
<1>6. ASSUME NEW i \in DOMAIN waiting, PrefillScheduled(i) PROVE TypeOK'
  <2> DEFINE s == waiting[i]
             n == PrefillStepTokens(s)
             fresh == prefilled[s] = 0
             slots == IF fresh THEN loc.slots - PromptAdmissionCost(s) ELSE loc.slots
             residents == IF fresh THEN loc.residents - ResidentCost(s) ELSE loc.residents
             stepFree == AtLeast0(loc.stepFree - PrefillStepReservationCost(s, n))
  <2>1. s \in Reqs
    BY DEF TypeOK
  <2>2. n \in Int /\ n > 0 /\ loc.scan > 0
    BY <1>6, <2>1, PrefillTypes DEF PrefillScheduled, PrefillLoop
  <2>3. waiting' \in Seq(Reqs)
    BY <1>6, RemoveAtElements DEF PrefillScheduled, TypeOK
  <2>4. batch' \in Seq(Reqs)
    BY <1>6, <2>1 DEF PrefillScheduled, TypeOK
  <2>5. status' \in [Reqs -> {"new", "waiting", "running", "finished"}]
    BY <1>6, <2>1 DEF PrefillScheduled, TypeOK
  <2>6. chunk' \in [Reqs -> Nat]
    <3>1. chunk' = [chunk EXCEPT ![s] = n] /\ n \in Nat
      BY <1>6, <2>2 DEF PrefillScheduled
    <3> HIDE DEF n
    <3> QED BY <3>1, <2>1 DEF TypeOK
  <2>7. resident' \in SUBSET Reqs
    BY <1>6, <2>1 DEF PrefillScheduled, TypeOK
  <2>8. loc' \in Locals
    <3>1. loc \in Locals
      BY DEF TypeOK
    <3>2. /\ loc.scan - 1 \in Nat /\ loc.slots \in Int /\ loc.residents \in Int
          /\ loc.stepFree \in Int /\ loc.tokens \in Nat
      BY <2>2, <3>1 DEF Locals
    <3>3. PrefillStepReservationCost(s, n) \in Int
      BY <2>1, <2>2, HooksType DEF TypeOK
    <3>4. PromptAdmissionCost(s) \in Int /\ ResidentCost(s) \in Int
      BY <2>1, PrefillTypes
    <3>5. slots \in Int /\ residents \in Int
      BY <3>2, <3>4
    <3>6. stepFree \in Int
      BY <3>2, <3>3 DEF AtLeast0
    <3>7. loc.tokens + n \in Nat
      BY <2>2, <3>2
    <3>8. loc' = [loc EXCEPT !.scan = loc.scan - 1, !.slots = slots,
                             !.residents = residents, !.tokens = loc.tokens + n,
                             !.stepFree = stepFree]
      BY <1>6, <3>1 DEF PrefillScheduled, Locals
    <3> HIDE DEF slots, residents, stepFree, n
    <3> QED BY <3>1, <3>2, <3>5, <3>6, <3>7, <3>8 DEF Locals
  <2>9. UNCHANGED <<prefilled, completion, cursor, checkpoint, published, decoding,
                    kvVars, pc, isPrefill, todo, victim, finished, raised>>
    BY <1>6 DEF PrefillScheduled
  <2> QED BY <2>3, <2>4, <2>5, <2>6, <2>7, <2>8, <2>9 DEF TypeOK, KvTypeOK
<1>7. ASSUME EndPrefillScan PROVE TypeOK'
  <2>1. loc' \in Locals
    <3>1. loc \in Locals /\ Len(waiting) \in Nat
      BY DEF TypeOK
    <3>2. CASE loc' = loc
      BY <3>1, <3>2
    <3>3. CASE loc' = DecodeLocals(loc)
      BY <3>1, <3>3, DecodeLocalsType
    <3>4. CASE /\ Len(loc.modes) > 1
               /\ loc' = [loc EXCEPT !.modes = Tail(@), !.scan = Len(waiting)]
      <4>1. loc.modes \in Seq(Modes)
        BY <3>1 DEF Locals
      <4>2. loc.modes # <<>>
        BY <4>1, <3>4
      <4>3. Tail(loc.modes) \in Seq(Modes)
        BY <4>1, <4>2, TailOwnership
      <4> QED BY <3>1, <3>4, <4>3 DEF Locals
    <3> QED BY <1>7, <3>2, <3>3, <3>4 DEF EndPrefillScan
  <2>2. pc' \in Phases /\ isPrefill' \in BOOLEAN
    BY <1>7 DEF EndPrefillScan, TypeOK, Phases
  <2>3. todo' \in Seq(Reqs)
    BY <1>7 DEF EndPrefillScan, TypeOK
  <2>4. UNCHANGED <<seqVars, queueVars, resident, kvVars, batch, victim, finished, raised>>
    BY <1>7 DEF EndPrefillScan
  <2> QED BY <2>1, <2>2, <2>3, <2>4 DEF TypeOK, KvTypeOK
<1>8. ASSUME NEW i \in DOMAIN decoding
      PROVE  decoding[i] \in Reqs /\ RemoveAt(decoding, i) \in Seq(Reqs)
  BY RemoveAtElements DEF TypeOK
<1>9. ASSUME NEW i \in DOMAIN decoding, DecodeScheduled(i) PROVE TypeOK'
  <2>1. batch' \in Seq(Reqs) /\ decoding' \in Seq(Reqs)
    BY <1>8, <1>9 DEF DecodeScheduled, TypeOK
  <2>2. loc' \in Locals
    <3>1. loc \in Locals /\ loc.scan - 1 \in Nat /\ loc.decodeFree \in Int
      BY <1>9, LocalsFields DEF DecodeScheduled, DecodeLoop
    <3>2. DecodeStepReservationCost(decoding[i]) \in Int
      BY <1>8, HooksType DEF TypeOK
    <3>3. loc' = [loc EXCEPT !.scan = loc.scan - 1,
                    !.decodeFree = loc.decodeFree - DecodeStepReservationCost(decoding[i])]
      BY <1>9, <3>1 DEF DecodeScheduled, Locals
    <3>4. loc.decodeFree - DecodeStepReservationCost(decoding[i]) \in Int
      BY <3>1, <3>2
    <3> DEFINE n == loc.scan - 1
               free == loc.decodeFree - DecodeStepReservationCost(decoding[i])
    <3>5. loc' = [loc EXCEPT !.scan = n, !.decodeFree = free] /\ n \in Nat /\ free \in Int
      BY <3>1, <3>3, <3>4
    <3> HIDE DEF n, free
    <3> QED BY <3>1, <3>5 DEF Locals
  <2>3. UNCHANGED <<seqVars, waiting, resident, kvVars, pc, isPrefill, todo, victim,
                    finished, raised>>
    BY <1>9 DEF DecodeScheduled
  <2> QED BY <2>1, <2>2, <2>3 DEF TypeOK, KvTypeOK
<1>10. ASSUME NEW i \in DOMAIN decoding, DecodeBlocked(i) PROVE TypeOK'
  <2>1. decoding' \in Seq(Reqs)
    BY <1>8, <1>10 DEF DecodeBlocked
  <2>2. loc' \in Locals
    <3>1. loc \in Locals /\ loc.scan - 1 \in Nat
      BY <1>10, LocalsFields DEF DecodeBlocked, DecodeLoop
    <3>2. loc' = [loc EXCEPT !.scan = loc.scan - 1] \/ loc' = [loc EXCEPT !.scan = 0]
      BY <1>10, <3>1 DEF DecodeBlocked, Locals
    <3> DEFINE n == loc.scan - 1
    <3>3. n \in Nat /\ (loc' = [loc EXCEPT !.scan = n] \/ loc' = [loc EXCEPT !.scan = 0])
      BY <3>1, <3>2
    <3> HIDE DEF n
    <3>4. [loc EXCEPT !.scan = n] \in Locals
      BY <3>1, <3>3 DEF Locals
    <3>5. [loc EXCEPT !.scan = 0] \in Locals
      BY <3>1 DEF Locals
    <3> QED BY <3>3, <3>4, <3>5
  <2>3. victim' \in SUBSET Reqs
    BY <1>8, <1>10 DEF DecodeBlocked, TypeOK
  <2>4. UNCHANGED <<seqVars, waiting, resident, kvVars, pc, batch, isPrefill, todo,
                    finished, raised>>
    BY <1>10 DEF DecodeBlocked
  <2> QED BY <2>1, <2>2, <2>3, <2>4 DEF TypeOK, KvTypeOK
<1>11. ASSUME NEW i \in DOMAIN decoding, PreemptCandidate(i) \/ PreemptBlocked(i)
       PROVE  TypeOK'
  BY <1>8, <1>11, PreemptType DEF PreemptCandidate, PreemptBlocked
<1>12. ASSUME NothingRunnable PROVE TypeOK'
  <2>1. PICK why \in Raises : Raise(why)
    BY <1>12 DEF NothingRunnable, Raises
  <2>2. UNCHANGED <<seqVars, queueVars, resident, kvVars>>
    BY <1>12 DEF NothingRunnable
  <2> QED BY <2>1, <2>2, RaiseType DEF TypeOK, KvTypeOK
<1>13. ASSUME EndDecodeScan PROVE TypeOK'
  <2>1. decoding' \in Seq(Reqs)
    <3>1. CASE decoding' = PutBack(decoding)
      BY <3>1, ConcatOwnership DEF PutBack, TypeOK
    <3>2. CASE \E i \in DOMAIN decoding :
                 decoding' = <<decoding[i]>> \o PutBack(RemoveAt(decoding, i))
      <4>1. PICK i \in DOMAIN decoding :
              decoding' = <<decoding[i]>> \o PutBack(RemoveAt(decoding, i))
        BY <3>2
      <4>2. PutBack(RemoveAt(decoding, i)) \in Seq(Reqs)
        BY <1>8, ConcatOwnership DEF PutBack, TypeOK
      <4>3. <<decoding[i]>> \in Seq(Reqs)
        BY <1>8, SingletonOwnership
      <4> QED BY <4>1, <4>2, <4>3, ConcatOwnership
    <3> QED BY <1>13, <3>1, <3>2 DEF EndDecodeScan
  <2>2. /\ pc' = "prepare" /\ todo' = batch /\ victim' = {}
        /\ UNCHANGED <<seqVars, waiting, resident, kvVars, batch, isPrefill, finished,
                       raised, loc>>
    BY <1>13 DEF EndDecodeScan
  <2> QED BY <2>1, <2>2 DEF TypeOK, KvTypeOK, Phases
<1>14. ASSUME PrepareChunk PROVE TypeOK'
  <2>1. UNCHANGED <<seqVars, queueVars, resident>>
    BY <1>14 DEF PrepareChunk
  <2>2. Head(todo) \in Reqs /\ Tail(todo) \in Seq(Reqs)
    BY <1>14, TailOwnership DEF PrepareChunk, TypeOK
  <2>3. CASE /\ Allocate(Head(todo), chunk[Head(todo)])
             /\ todo' = Tail(todo)
             /\ UNCHANGED <<pc, batch, isPrefill, victim, finished, raised, loc>>
    <3>1. chunk[Head(todo)] \in Nat
      BY <2>2 DEF TypeOK
    <3>2. KvTypeOK'
      BY <2>2, <2>3, <3>1, AllocateType DEF TypeOK
    <3> QED BY <2>1, <2>2, <2>3, <3>2 DEF TypeOK
  <2>4. CASE \E why \in Raises : Raise(why) /\ UNCHANGED kvVars
    BY <2>1, <2>4, RaiseType DEF TypeOK, KvTypeOK
  <2>5. {"row_mismatch", "out_of_pages", "no_free_row"} \subseteq Raises
    BY DEF Raises
  <2> QED BY <1>14, <2>3, <2>4, <2>5 DEF PrepareChunk
<1>15. ASSUME PrepareDecode PROVE TypeOK'
  <2>1. UNCHANGED <<seqVars, queueVars, resident>>
    BY <1>15 DEF PrepareDecode
  <2>2. CASE /\ AllocateBatch(ToSet(batch))
             /\ todo' = <<>>
             /\ UNCHANGED <<pc, batch, isPrefill, victim, finished, raised, loc>>
    <3>1. ToSet(batch) \in SUBSET Reqs
      BY DEF TypeOK, ToSet
    <3>2. KvTypeOK'
      BY <2>2, <3>1, AllocateBatchType DEF TypeOK
    <3>3. todo' \in Seq(Reqs)
      BY <2>2
    <3> QED BY <2>1, <2>2, <3>2, <3>3 DEF TypeOK
  <2>3. CASE \E why \in Raises : Raise(why) /\ UNCHANGED kvVars
    BY <2>1, <2>3, RaiseType DEF TypeOK, KvTypeOK
  <2>4. {"no_decode_input", "out_of_pages", "no_free_row"} \subseteq Raises
    BY DEF Raises
  <2> QED BY <1>15, <2>2, <2>3, <2>4 DEF PrepareDecode
<1>16. ASSUME EndPrepare PROVE TypeOK'
  BY <1>16 DEF EndPrepare, TypeOK, KvTypeOK, Phases
<1>17. ASSUME NEW s \in Reqs, PostPrefillPartial(s) PROVE TypeOK'
  <2>1. waiting' \in Seq(Reqs)
    BY <1>17, SingletonOwnership, ConcatOwnership DEF PostPrefillPartial, TypeOK
  <2>2. /\ prefilled' \in [Reqs -> Nat]
        /\ status' \in [Reqs -> {"new", "waiting", "running", "finished"}]
    BY <1>17, PostprocessType DEF PostPrefillPartial, TypeOK
  <2>3. UNCHANGED <<completion, cursor, checkpoint, decoding, finished>> /\ Postprocess(s)
    BY <1>17 DEF PostPrefillPartial
  <2> QED BY <2>1, <2>2, <2>3, PostprocessType DEF TypeOK
<1>18. ASSUME NEW s \in Reqs, PostPrefillReplay(s) PROVE TypeOK'
  <2>1. /\ Postprocess(s) /\ decoding' = Append(decoding, s)
        /\ UNCHANGED <<completion, waiting, finished>>
    BY <1>18 DEF PostPrefillReplay
  <2>2. /\ prefilled' \in [Reqs -> Nat]
        /\ status' \in [Reqs -> {"new", "waiting", "running", "finished"}]
    BY <1>18, PostprocessType DEF PostPrefillReplay, TypeOK
  <2>3. cursor' \in [Reqs -> Nat \union {NoReplay}] /\ checkpoint' \in [Reqs -> Nat]
    BY <1>18, ReplayType DEF PostPrefillReplay, TypeOK
  <2> QED BY <2>1, <2>2, <2>3, PostprocessType DEF TypeOK
<1>19. ASSUME NEW s \in Reqs, NEW eos \in BOOLEAN, PostPrefillToken(s, eos) PROVE TypeOK'
  <2>1. Postprocess(s) /\ UNCHANGED <<cursor, checkpoint, waiting>>
    BY <1>19 DEF PostPrefillToken
  <2>2. /\ prefilled' \in [Reqs -> Nat] /\ completion' \in [Reqs -> Nat]
        /\ status' \in [Reqs -> {"new", "waiting", "running", "finished"}]
    <3>1. completion' = [completion EXCEPT ![s] = completion[s] + 1]
      BY <1>19 DEF PostPrefillToken
    <3>2. completion[s] + 1 \in Nat
      BY DEF TypeOK
    <3>3. completion' \in [Reqs -> Nat]
      BY <3>1, <3>2 DEF TypeOK
    <3>4. prefilled' \in [Reqs -> Nat]
      BY <1>19, PostprocessType DEF PostPrefillToken, TypeOK
    <3>5. status' \in [Reqs -> {"new", "waiting", "running", "finished"}]
      BY <1>19 DEF PostPrefillToken, TypeOK
    <3> QED BY <3>3, <3>4, <3>5
  <2>3. decoding' \in Seq(Reqs) /\ finished' \in Seq(Reqs)
    BY <1>19, <2>1, PostprocessType DEF PostPrefillToken
  <2> QED BY <2>1, <2>2, <2>3, PostprocessType DEF TypeOK
<1>20. ASSUME NEW s \in Reqs, PostDecodeReplay(s) PROVE TypeOK'
  <2>1. Postprocess(s) /\ UNCHANGED <<status, prefilled, completion, queueVars, finished>>
    BY <1>20 DEF PostDecodeReplay
  <2>2. cursor' \in [Reqs -> Nat \union {NoReplay}] /\ checkpoint' \in [Reqs -> Nat]
    BY <1>20, ReplayType DEF PostDecodeReplay, TypeOK
  <2> QED BY <2>1, <2>2, PostprocessType DEF TypeOK
<1>21. ASSUME NEW s \in Reqs, NEW eos \in BOOLEAN, PostDecodeToken(s, eos) PROVE TypeOK'
  <2>1. Postprocess(s) /\ UNCHANGED <<prefilled, cursor, checkpoint, waiting>>
    BY <1>21 DEF PostDecodeToken
  <2>2. /\ completion' \in [Reqs -> Nat]
        /\ status' \in [Reqs -> {"new", "waiting", "running", "finished"}]
    <3>1. completion' = [completion EXCEPT ![s] = completion[s] + 1]
      BY <1>21 DEF PostDecodeToken
    <3>2. completion[s] + 1 \in Nat
      BY DEF TypeOK
    <3>3. completion' \in [Reqs -> Nat]
      BY <3>1, <3>2 DEF TypeOK
    <3>4. status' \in [Reqs -> {"new", "waiting", "running", "finished"}]
      BY <1>21 DEF PostDecodeToken, TypeOK
    <3> QED BY <3>3, <3>4
  <2>3. decoding' \in Seq(Reqs) /\ finished' \in Seq(Reqs)
    BY <1>8, <1>21, <2>1, PostprocessType DEF PostDecodeToken
  <2> QED BY <2>1, <2>2, <2>3, PostprocessType DEF TypeOK
<1>22. ASSUME EndPostprocess PROVE TypeOK'
  BY <1>22 DEF EndPostprocess, TypeOK, KvTypeOK, Phases
<1>23. ASSUME FreeFinished PROVE TypeOK'
  <2>1. UNCHANGED <<seqVars, queueVars>>
    BY <1>23 DEF FreeFinished
  <2>2. Head(finished) \in Reqs /\ Tail(finished) \in Seq(Reqs)
    BY <1>23, TailOwnership DEF FreeFinished, TypeOK
  <2>3. CASE /\ FreeSeqPayload(Head(finished))
             /\ finished' = Tail(finished)
             /\ UNCHANGED <<pc, batch, isPrefill, todo, victim, raised, loc>>
    <3>1. KvTypeOK' /\ resident' \in SUBSET Reqs
      BY <2>2, <2>3, FreeSeqType DEF FreeSeqPayload, TypeOK
    <3> QED BY <2>1, <2>2, <2>3, <3>1 DEF TypeOK
  <2>4. CASE Raise("no_row") /\ UNCHANGED <<resident, kvVars>>
    <3>1. "no_row" \in Raises
      BY DEF Raises
    <3> QED BY <2>1, <2>4, <3>1, RaiseType DEF TypeOK, KvTypeOK
  <2> QED BY <1>23, <2>3, <2>4 DEF FreeFinished
<1>24. ASSUME EndStep PROVE TypeOK'
  <2>1. Return /\ UNCHANGED <<seqVars, queueVars, resident, kvVars>>
    BY <1>24 DEF EndStep
  <2> QED BY <2>1, ReturnType DEF TypeOK, KvTypeOK
<1>25. ASSUME UNCHANGED vars PROVE TypeOK'
  BY <1>25 DEF vars, TypeOK, KvTypeOK
<1>26. MayAbort \subseteq Reqs
  BY DEF SchedulerAssumption
<1> QED
  BY <1>1, <1>2, <1>3, <1>4, <1>5, <1>6, <1>7, <1>9, <1>10, <1>11, <1>12, <1>13,
     <1>14, <1>15, <1>16, <1>17, <1>18, <1>19, <1>20, <1>21, <1>22, <1>23, <1>24,
     <1>25, <1>26
  DEF Next, EngineStep, Clients, Prefilling, Decoding, Running, Postprocessing, Freeing

\* Every state of the engine, whatever its limits, has the declared type; in
\* particular the scan budget, the batched-token count and the replay cursor
\* never become negative.
THEOREM TypeCorrect == Spec => []TypeOK
<1>1. Init => TypeOK
  BY KvCacheAssumption, SchedulerAssumption, TypeInit
<1>2. TypeOK /\ [Next]_vars => TypeOK'
  BY KvCacheAssumption, SchedulerAssumption, TypeStep
<1> QED
  BY <1>1, <1>2, PTL DEF Spec

-----------------------------------------------------------------------------
(* No page is leaked or invented.                                          *)

\* A step leaves the pool alone, allocates what it has checked, or releases a row.
LEMMA PoolStep ==
  ASSUME KvCacheAssumption, SchedulerAssumption, TypeOK, [Next]_vars
  PROVE  \/ UNCHANGED kvVars
         \/ \E s \in Reqs : FreeSeq(s)
         \/ \E s \in Reqs, n \in Nat : HasPagesFor(s, n) /\ Allocate(s, n)
         \/ \E S \in SUBSET Reqs : NeededPages(S) <= freePages /\ AllocateBatch(S)
<1> DEFINE Effect == \/ UNCHANGED kvVars
                     \/ \E s \in Reqs : FreeSeq(s)
                     \/ \E s \in Reqs, n \in Nat : HasPagesFor(s, n) /\ Allocate(s, n)
                     \/ \E S \in SUBSET Reqs : NeededPages(S) <= freePages /\ AllocateBatch(S)
<1> SUFFICES Effect
  OBVIOUS
<1>1. ASSUME NEW s \in Reqs, FreeSeqPayload(s) PROVE Effect
  BY <1>1 DEF FreeSeqPayload
<1>2. ASSUME NEW s \in Reqs, AddRequest(s) \/ AbortRequest(s) PROVE Effect
  <2>1. CASE UNCHANGED kvVars
    BY <2>1
  <2> HIDE DEF Effect
  <2> QED BY <1>1, <1>2, <2>1 DEF AddRequest, AbortRequest
<1>3. ASSUME NEW v \in Reqs, NEW rest, PreemptDecodeVictim(v, rest) PROVE Effect
  <2>1. CASE UNCHANGED kvVars
    BY <2>1
  <2> HIDE DEF Effect
  <2> QED BY <1>1, <1>3, <2>1 DEF PreemptDecodeVictim
<1>4. ASSUME NEW i \in DOMAIN decoding, PreemptCandidate(i) \/ PreemptBlocked(i) PROVE Effect
  <2>1. decoding[i] \in Reqs
    BY DEF TypeOK
  <2> HIDE DEF Effect
  <2> QED BY <1>3, <1>4, <2>1 DEF PreemptCandidate, PreemptBlocked
<1>5. ASSUME PrepareChunk PROVE Effect
  <2>1. PICK s : s = Head(todo)
    OBVIOUS
  <2>2. s \in Reqs /\ chunk[s] \in Nat
    <3>1. todo # <<>> /\ todo \in Seq(Reqs) /\ chunk \in [Reqs -> Nat]
      BY <1>5 DEF PrepareChunk, TypeOK
    <3> QED BY <2>1, <3>1
  <2>3. UNCHANGED kvVars \/ (HasPagesFor(s, chunk[s]) /\ Allocate(s, chunk[s]))
    BY <1>5, <2>1 DEF PrepareChunk
  <2> QED BY <2>2, <2>3
<1>6. ASSUME PrepareDecode PROVE Effect
  <2>1. ToSet(batch) \in SUBSET Reqs
    BY DEF TypeOK, ToSet
  <2>2. NeededPages(ToSet(batch)) \in Nat /\ freePages \in Int
    <3>1. {s \in ToSet(batch) : PageOffset(s) = 0} \in SUBSET Reqs
      BY <2>1
    <3>2. IsFiniteSet({s \in ToSet(batch) : PageOffset(s) = 0})
      BY <3>1, FS_Subset DEF KvCacheAssumption
    <3> QED BY <3>2, FS_CardinalityType DEF NeededPages, TypeOK, KvTypeOK
  <2>3. \/ UNCHANGED kvVars
        \/ ~(NeededPages(ToSet(batch)) > freePages) /\ AllocateBatch(ToSet(batch))
    BY <1>6 DEF PrepareDecode
  <2> QED BY <2>1, <2>2, <2>3
<1>7. ASSUME FreeFinished PROVE Effect
  <2>1. PICK s : s = Head(finished)
    OBVIOUS
  <2>2. s \in Reqs
    BY <1>7, <2>1 DEF FreeFinished, TypeOK
  <2>3. UNCHANGED kvVars \/ FreeSeqPayload(s)
    BY <1>7, <2>1 DEF FreeFinished
  <2> QED BY <1>1, <2>2, <2>3
<1>8. ASSUME \/ BeginSchedule \/ Prefilling \/ NothingRunnable \/ EndDecodeScan \/ EndPrepare
             \/ Postprocessing \/ EndStep \/ UNCHANGED vars
             \/ \E i \in DOMAIN decoding : DecodeScheduled(i) \/ DecodeBlocked(i)
      PROVE  UNCHANGED kvVars
  BY <1>8 DEF BeginSchedule, Prefilling, PrefillBlocked, PrefillDeferred, PrefillScheduled,
     Requeue, EndPrefillScan, DecodeScheduled, DecodeBlocked, NothingRunnable, EndDecodeScan,
     EndPrepare, Postprocessing, PostPrefillPartial, PostPrefillReplay, PostPrefillToken,
     PostDecodeReplay, PostDecodeToken, Postprocess, EndPostprocess, EndStep, vars
<1>9. ASSUME UNCHANGED kvVars PROVE Effect
  BY <1>9
<1>10. MayAbort \subseteq Reqs
  BY DEF SchedulerAssumption
<1> HIDE DEF Effect
<1> QED
  BY <1>2, <1>4, <1>5, <1>6, <1>7, <1>8, <1>9, <1>10
  DEF Next, EngineStep, Clients, Decoding, Running, Freeing

\* Every step conserves the pages of the pool.
LEMMA PoolInductive ==
  /\ Init => TypeOK /\ PagesConserved
  /\ TypeOK /\ PagesConserved /\ [Next]_vars => (TypeOK /\ PagesConserved)'
<1> USE KvCacheAssumption, SchedulerAssumption
<1>1. Init => TypeOK /\ PagesConserved
  BY TypeInit, InitConserves DEF Init
<1>2. ASSUME TypeOK, PagesConserved, [Next]_vars PROVE (TypeOK /\ PagesConserved)'
  <2>1. TypeOK'
    BY <1>2, TypeStep
  <2>2. KvTypeOK
    BY <1>2 DEF TypeOK
  <2>3. CASE UNCHANGED kvVars
    BY <1>2, <2>1, <2>3, ConservationLaw DEF kvVars
  <2>4. ASSUME NEW s \in Reqs, FreeSeq(s) PROVE PagesConserved'
    BY <1>2, <2>2, <2>4, FreeSeqConserves
  <2>5. ASSUME NEW s \in Reqs, NEW n \in Nat, HasPagesFor(s, n), Allocate(s, n)
        PROVE  PagesConserved'
    BY <1>2, <2>2, <2>5, AllocateConserves
  <2>6. ASSUME NEW S \in SUBSET Reqs, NeededPages(S) <= freePages, AllocateBatch(S)
        PROVE  PagesConserved'
    BY <1>2, <2>2, <2>6, AllocateBatchConserves
  <2> QED BY <1>2, <2>1, <2>3, <2>4, <2>5, <2>6, PoolStep
<1> QED
  BY <1>1, <1>2

\* Through every schedule, eviction, failed step and cancellation, each page is
\* free or belongs to exactly one row: the pool neither leaks nor invents pages.
THEOREM PoolConserved == Spec => []PagesConserved
  BY PoolInductive, PTL DEF Spec

=============================================================================
