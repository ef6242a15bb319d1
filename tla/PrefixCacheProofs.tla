------------------------- MODULE PrefixCacheProofs -------------------------
(***************************************************************************)
(* The invariants of PrefixCache, for every set of requests, both sizes of *)
(* tiers, every chunk size and batch limit, and every set of tokens that   *)
(* operators delete or pin.                                                *)
(*                                                                         *)
(* The proof has four parts.  The tree: each operation of the index maps   *)
(* an index that is right (TreeOk: whole paths on both tiers, copies in    *)
(* the order of the tree, a fresh capacity view) to one that is right, and *)
(* says what it changes.  The books: reference counts are sizes of sets of *)
(* holders, private pages are cells of a disjoint union, and both move by  *)
(* what a step moves.  The rows: a request holds the blocks of the tokens  *)
(* it has run, but for those the step has not inserted yet (Saved), and    *)
(* its cached pages are on the device or being copied for this step        *)
(* (Readable).  The capacity: what a scan has promised fits in what is     *)
(* free or reclaimable once the blocks it hit are set aside (Covered), and *)
(* stays so while the step attaches, promotes, demotes and allocates; a    *)
(* block nobody uses is on the host, on its way there, or waits below one  *)
(* in use (Remembered).                                                    *)
(*                                                                         *)
(* The host pool is never full without a pinned block (HostRoom): a block  *)
(* it must keep is on the device, or a request that holds it computed it   *)
(* again in a private page, so such blocks are no more than the pages.     *)
(***************************************************************************)
EXTENDS PrefixCache, DataLemmas, NaturalsInduction, WellFoundedInduction

-----------------------------------------------------------------------------
(* The index.                                                              *)

\* S holds the ancestors of its blocks.
Rooted(S) == \A b \in S : Ancestors(b) \subseteq S

\* The fields of an index.
TreeType ==
  [blocks : SUBSET Blocks, ref : [Blocks -> Nat], pinned : SUBSET Blocks, dev : SUBSET Blocks,
   host : SUBSET Blocks, d2h : Seq(SUBSET Blocks), h2d : SUBSET SUBSET Blocks,
   pending : SUBSET Blocks, view : SUBSET Blocks]

\* Copies to the host follow the order of the tree.
CopiesOrdered(t) ==
  \A i \in DOMAIN t.d2h : \A b \in t.d2h[i] :
    Ancestors(b) \subseteq t.host \cup UNION {t.d2h[j] : j \in 1..i}

\* What is under way to the host is on the device, what is under way to the
\* device is in both tiers, and no block goes both ways.
CopiesPlaced(t) ==
  /\ InD2H(t) \subseteq t.dev
  /\ InH2D(t) \subseteq t.dev \cap t.host
  /\ InD2H(t) \cap InH2D(t) = {}

\* The capacity view is what a scan would return.
Fresh(t) == t.view = DeviceReclaimable(t)

\* An index the thread can be left with.
TreeOk(t) ==
  /\ t \in TreeType
  /\ Rooted(t.dev) /\ Rooted(t.host) /\ t.blocks = t.dev \cup t.host
  /\ CopiesOrdered(t)
  /\ CopiesPlaced(t)
  /\ Fresh(t)

\* The blocks that fill a place of the host pool.
Hosted(t) == t.host \cup InD2H(t)

\* A block on the device that nobody uses is on the host, on its way there, or
\* kept in mind because of an ancestor in use that is not.
Remembered(t) ==
  \A b \in t.dev \ Hosted(t) : t.ref[b] = 0 =>
    /\ b \in t.pending
    /\ \E a \in Ancestors(b) : t.ref[a] > 0 /\ a \notin Hosted(t)

-----------------------------------------------------------------------------
(* The requests.                                                           *)

\* The states of a request, and the places of the engine thread.
Statuses == {"absent", "new", "replay", "done"}
PCs == {"idle", "scan", "attach", "promote", "alloc", "decode", "forward", "insert", "stopped"}

\* The fields of a row.
RowType ==
  [status : Statuses, len : Nat, chunk : Nat, hit : Nat, cached : SUBSET Nat, held : SUBSET Blocks,
   mark : Nat]

\* The types of the variables but the index.
StateType ==
  /\ free \in Nat /\ hostFree \in Nat
  /\ seq \in [Reqs -> RowType]
  /\ pc \in PCs
  /\ batch \in Seq(Reqs) /\ IsInjective(batch)
  /\ todo \in Seq(Reqs) /\ IsInjective(todo) /\ ToSet(todo) \subseteq ToSet(batch)
  /\ budget \in [prompt : Nat, step : Nat, decode : Nat]
  /\ protected \subseteq tree.blocks

\* A row is within its stream, and the cached pages are blocks it holds.
RowOk(r) ==
  /\ seq[r].len <= Len(Stream[r])
  /\ seq[r].hit < PromptLen[r]
  /\ seq[r].cached \subseteq 1..seq[r].len
  /\ seq[r].len > 0 => seq[r].hit <= seq[r].len
  /\ seq[r].len = 0 => seq[r].held = {} /\ seq[r].cached = {}
  /\ seq[r].len > 0 => Unfinished(r)
  /\ HeldBlocks(r) \subseteq tree.blocks
  /\ \A i \in seq[r].cached : Path(r, i) \in HeldBlocks(r)

\* The position of the engine thread in the step.
Flow ==
  /\ pc = "idle" => batch = <<>>
  /\ pc \in {"idle", "scan"} => todo = <<>>
  /\ pc \in {"promote", "insert"} => todo # <<>>
  /\ pc = "decode" => todo = batch /\ \A r \in ToSet(batch) : Decoding(r)
  /\ pc = "promote" => seq[Head(todo)].len = seq[Head(todo)].hit
  /\ pc # "insert" => protected = {}
  /\ pc = "insert" => protected \subseteq Chain(Head(todo), seq[Head(todo)].len)

\* Prefill rows not yet extended by their chunk.
ToAllocateAt(p, b, t) ==
  IF p \in {"scan", "attach", "promote"} THEN ToSet(b) ELSE IF p = "alloc" THEN ToSet(t) ELSE {}

\* The same in the current state.
ToAllocate == ToAllocateAt(pc, batch, todo)

\* The chunk planned for r stays within its prompt.
ChunkFits(r) ==
  /\ Waiting(r) /\ seq[r].chunk > 0
  /\ seq[r].hit + seq[r].chunk <= PromptLen[r]
  /\ seq[r].len + seq[r].chunk <= PromptLen[r]

\* Rows extended by their chunk, whose blocks are still to be inserted.
ToInsertAt(p, b, t) ==
  IF p = "alloc" THEN ToSet(b) \ ToSet(t) ELSE IF p \in {"forward", "insert"} THEN ToSet(t) ELSE {}

\* The same in the current state.
ToInsert == ToInsertAt(pc, batch, todo)

\* The tokens of r whose blocks are not inserted yet.
Unsaved(r) == IF r \in ToInsert THEN seq[r].chunk ELSE 0

\* A request holds the blocks of all its tokens but those still to be inserted.
Saved(r) ==
  /\ Unsaved(r) <= seq[r].len
  /\ HeldBlocks(r) = Chain(r, seq[r].len - Unsaved(r))

\* The pages of a row that the cache owns are on the device, and the step waits
\* for the copies to them.
OnDevice(r) == \A i \in seq[r].cached : Path(r, i) \in tree.dev
CopiesAwaited(r) == \A i \in seq[r].cached : Path(r, i) \in InH2D(tree) => Path(r, i) \in awaited
Promoting(r) == pc = "promote" /\ r = Head(todo)
Readable(r) == (Promoting(r) \/ OnDevice(r)) /\ CopiesAwaited(r)

-----------------------------------------------------------------------------
(* Capacity.                                                               *)

\* Requests of the batch whose hit is not attached and on the device yet.
AttachingAt(p, b, t, s) ==
  IF p = "scan" THEN {r \in ToSet(b) : s[r].len = 0}
  ELSE IF p = "attach" THEN {r \in ToSet(t) : s[r].len = 0}
  ELSE IF p = "promote" THEN {r \in ToSet(t) : s[r].len = 0 \/ r = Head(t)}
  ELSE {}

\* The blocks of the hits of A.
HitsOf(A, s) == UNION {Chain(r, s[r].hit) : r \in A}

\* The same in the current state.
Attaching == AttachingAt(pc, batch, todo, seq)

\* A hit is attached before a chunk is allocated.
HitTaken(r) == seq[r].len = 0 /\ seq[r].hit > 0 => r \in Attaching

\* The blocks they hit.
Hits == HitsOf(Attaching, seq)

\* What the prefill batch takes besides its hits.
TakesOf(A, s) == [r \in Reqs |-> IF r \in A THEN s[r].chunk ELSE 0]
\* The same in the current state.
Takes == TakesOf(ToAllocate, seq)

\* What the prompts in rows and in the batch take besides their hits.
Claims == [r \in Reqs |-> IF r \in Attaching THEN PromptLen[r] - seq[r].hit ELSE Outstanding(r)]

\* The batch needs n pages and those of the host-only blocks of its hits H; the
\* hits themselves cannot be reclaimed for it.
Affords(t, f, H, n) == Cardinality(H \ t.dev) + n <= f + Cardinality(t.view \ H)

\* What the scan has promised so far and what it may still promise fit in the
\* capacity there is.
ScanCovered ==
  LET capacity == free + Cardinality(tree.view)
  IN  /\ budget.decode <= capacity
      /\ budget.step + Cardinality(Cells(Reqs, Takes)) <= capacity
      /\ budget.prompt > 0 \/ Attaching # {} =>
           budget.prompt + Cardinality(Hits \ tree.dev) + Cardinality(Hits \cap tree.view)
             + Cardinality(Cells(Reqs, Claims)) <= capacity

\* The pages the step still takes, besides those of the hits.
PagesToTake == IF pc = "decode" THEN Len(todo) ELSE Cardinality(Cells(Reqs, Takes))

\* The step finds the pages it was scheduled for.
Covered ==
  /\ Hits \subseteq tree.blocks
  /\ pc = "scan" => ScanCovered
  /\ pc \in {"attach", "promote", "alloc", "decode"} => Affords(tree, free, Hits, PagesToTake)

-----------------------------------------------------------------------------
(* The invariant.                                                          *)

\* What holds until something is raised.
Running ==
  pc # "stopped" =>
    /\ \A r \in Reqs : Saved(r)
    /\ \A r \in Reqs : Readable(r)
    /\ \A r \in ToAllocate : ChunkFits(r) /\ HitTaken(r)
    /\ Remembered(tree)
    /\ Covered

\* The inductive invariant.
PrefixInv ==
  /\ TreeOk(tree)
  /\ StateType
  /\ \A r \in Reqs : RowOk(r)
  /\ Flow
  /\ RefsExact
  /\ TiersConserved
  /\ Running
  /\ PromiseKept
-----------------------------------------------------------------------------
(* Paths.                                                                  *)

\* A path is a sequence of tokens as long as it is deep, and its beginnings
\* are the paths above it.
LEMMA PathFacts ==
  ASSUME NEW r \in Reqs, NEW i \in 0..Len(Stream[r])
  PROVE  /\ Path(r, i) \in Seq(Tokens) /\ Len(Path(r, i)) = i
         /\ \A j \in 0..i : SubSeq(Path(r, i), 1, j) = Path(r, j)
<1> DEFINE s == Stream[r]
<1>0. s \in Seq(Tokens) /\ Len(s) \in Nat /\ i \in Nat
  BY StreamAssumption
<1>1. /\ SubSeq(s, 1, i) \in Seq(Tokens) /\ Len(SubSeq(s, 1, i)) = i
      /\ \A k \in 1..i : SubSeq(s, 1, i)[k] = s[k]
  BY <1>0
<1>2. ASSUME NEW j \in 0..i PROVE SubSeq(SubSeq(s, 1, i), 1, j) = SubSeq(s, 1, j)
  <2> DEFINE p == SubSeq(s, 1, i)
  <2>1. p \in Seq(Tokens) /\ Len(p) = i /\ \A k \in 1..i : p[k] = s[k]
    BY <1>1
  <2> HIDE DEF p
  <2>2. /\ SubSeq(p, 1, j) \in Seq(Tokens) /\ Len(SubSeq(p, 1, j)) = j
        /\ \A k \in 1..j : SubSeq(p, 1, j)[k] = p[k]
    BY <1>0, <1>2, <2>1
  <2>3. /\ SubSeq(s, 1, j) \in Seq(Tokens) /\ Len(SubSeq(s, 1, j)) = j
        /\ \A k \in 1..j : SubSeq(s, 1, j)[k] = s[k]
    BY <1>0, <1>2
  <2>4. \A k \in 1..j : SubSeq(p, 1, j)[k] = SubSeq(s, 1, j)[k]
    BY <1>0, <1>2, <2>1, <2>2, <2>3
  <2> QED BY <2>2, <2>3, <2>4, SeqEqual DEF p
<1> QED BY <1>1, <1>2 DEF Path

\* The blocks of the index are the paths of the requests.
LEMMA BlockIs ==
  \A b : b \in Blocks <=> \E r \in Reqs : \E i \in 1..Len(Stream[r]) : b = Path(r, i)
  BY DEF Blocks, Chain

\* The paths above a path.
LEMMA PathAncestors ==
  ASSUME NEW r \in Reqs, NEW i \in 1..Len(Stream[r])
  PROVE  Ancestors(Path(r, i)) = Chain(r, i - 1)
<1>1. Len(Stream[r]) \in Nat
  BY StreamAssumption
<1>2. Len(Path(r, i)) = i /\ \A j \in 0..i : SubSeq(Path(r, i), 1, j) = Path(r, j)
  BY <1>1, PathFacts
<1>3. \A j \in 1..(i - 1) : j \in 0..i
  BY <1>1
<1>4. {SubSeq(Path(r, i), 1, j) : j \in 1..(i - 1)} = {Path(r, j) : j \in 1..(i - 1)}
  BY <1>2, <1>3
<1> QED BY <1>2, <1>4 DEF Ancestors, Chain

\* Depth tells the blocks of a chain apart.
LEMMA ChainFacts ==
  ASSUME NEW r \in Reqs, NEW n \in 0..Len(Stream[r])
  PROVE  /\ Chain(r, n) \subseteq Blocks
         /\ \A m \in 0..n : Chain(r, m) \subseteq Chain(r, n)
         /\ \A i \in 1..n : Path(r, i) \in Chain(r, n)
         /\ \A b \in Chain(r, n) : Len(b) \in 1..n /\ b = Path(r, Len(b))
         /\ Rooted(Chain(r, n))
<1>1. Len(Stream[r]) \in Nat /\ n \in Nat /\ n <= Len(Stream[r])
  BY StreamAssumption
<1>2. \A i \in 1..n : i \in 1..Len(Stream[r])
  BY <1>1
<1>3. Chain(r, n) \subseteq Blocks
  BY <1>2, BlockIs DEF Chain
<1>4. ASSUME NEW m \in 0..n PROVE Chain(r, m) \subseteq Chain(r, n)
  <2>1. \A i \in 1..m : i \in 1..n
    BY <1>1, <1>4
  <2> QED BY <2>1 DEF Chain
<1>5. \A i \in 1..n : Path(r, i) \in Chain(r, n)
  BY DEF Chain
<1>6. ASSUME NEW b \in Chain(r, n)
      PROVE  Len(b) \in 1..n /\ b = Path(r, Len(b)) /\ Ancestors(b) \subseteq Chain(r, n)
  <2>1. PICK i \in 1..n : b = Path(r, i)
    BY <1>6 DEF Chain
  <2>2. i \in 0..Len(Stream[r]) /\ i \in 1..Len(Stream[r]) /\ i - 1 \in 0..n
    BY <1>1
  <2>3. Len(b) = i
    BY <2>1, <2>2, PathFacts
  <2>4. Ancestors(b) = Chain(r, i - 1)
    BY <2>1, <2>2, PathAncestors
  <2> QED BY <1>4, <2>1, <2>2, <2>3, <2>4
<1> QED BY <1>3, <1>4, <1>5, <1>6 DEF Rooted

\* What lies above a block is a block, and so on up.
LEMMA AncestorFacts ==
  ASSUME NEW b \in Blocks
  PROVE  /\ Len(b) \in Nat \ {0}
         /\ \A a \in Ancestors(b) : /\ a \in Blocks /\ Len(a) < Len(b)
                                    /\ Ancestors(a) \subseteq Ancestors(b)
<1>1p. PICK r \in Reqs : \E i \in 1..Len(Stream[r]) : b = Path(r, i)
  BY BlockIs
<1>1. PICK i \in 1..Len(Stream[r]) : b = Path(r, i)
  BY <1>1p
<1>2. Len(Stream[r]) \in Nat /\ i - 1 \in 0..Len(Stream[r]) /\ i \in 0..Len(Stream[r])
  BY StreamAssumption
<1>3. Len(b) = i
  BY <1>1, <1>2, PathFacts
<1>4. Ancestors(b) = Chain(r, i - 1)
  BY <1>1, PathAncestors
<1>5. /\ Chain(r, i - 1) \subseteq Blocks
      /\ \A a \in Chain(r, i - 1) : Len(a) \in 1..(i - 1)
      /\ Rooted(Chain(r, i - 1))
  BY <1>2, ChainFacts
<1> QED BY <1>2, <1>3, <1>4, <1>5 DEF Rooted

\* A block begins with another one if it is that block or lies below it.
LEMMA PrefixIs ==
  ASSUME NEW a \in Blocks, NEW b \in Blocks
  PROVE  IsPrefix(a, b) <=> (a = b \/ a \in Ancestors(b))
<1>1p. PICK r \in Reqs : \E i \in 1..Len(Stream[r]) : b = Path(r, i)
  BY BlockIs
<1>1. PICK i \in 1..Len(Stream[r]) : b = Path(r, i)
  BY <1>1p
<1>2p. PICK q \in Reqs : \E j \in 1..Len(Stream[q]) : a = Path(q, j)
  BY BlockIs
<1>2. PICK j \in 1..Len(Stream[q]) : a = Path(q, j)
  BY <1>2p
<1>3. /\ Len(Stream[r]) \in Nat /\ i \in 0..Len(Stream[r])
      /\ Len(Stream[q]) \in Nat /\ j \in 0..Len(Stream[q])
  BY StreamAssumption
<1>4. Len(b) = i /\ \A k \in 0..i : SubSeq(b, 1, k) = Path(r, k)
  BY <1>1, <1>3, PathFacts
<1>5. Len(a) = j /\ SubSeq(a, 1, j) = a
  <2>1. Len(a) = j /\ \A k \in 0..j : SubSeq(a, 1, k) = Path(q, k)
    BY <1>2, <1>3, PathFacts
  <2> QED BY <1>2, <1>3, <2>1
<1>6. Ancestors(b) = Chain(r, i - 1)
  BY <1>1, PathAncestors
<1>7. ASSUME IsPrefix(a, b) PROVE a = b \/ a \in Ancestors(b)
  <2>1. j <= i /\ a = SubSeq(b, 1, j)
    BY <1>4, <1>5, <1>7 DEF IsPrefix
  <2>2. j \in 0..i
    BY <1>3, <2>1
  <2>3. a = Path(r, j)
    BY <1>4, <2>1, <2>2
  <2>4. CASE j = i
    BY <1>1, <2>3, <2>4
  <2>5. CASE j # i
    <3>1. j \in 1..(i - 1)
      BY <1>3, <2>1, <2>5
    <3> QED BY <1>6, <2>3, <3>1 DEF Chain
  <2> QED BY <2>4, <2>5
<1>8. ASSUME a = b PROVE IsPrefix(a, b)
  BY <1>3, <1>4, <1>8 DEF IsPrefix
<1>9. ASSUME a \in Ancestors(b) PROVE IsPrefix(a, b)
  <2>1. PICK k \in 1..(i - 1) : a = Path(r, k)
    BY <1>6, <1>9 DEF Chain
  <2>2. k \in 0..Len(Stream[r]) /\ k \in 0..i /\ k <= i
    BY <1>3
  <2>3. Len(a) = k
    BY <2>1, <2>2, PathFacts
  <2>4. SubSeq(b, 1, k) = a
    BY <1>4, <2>1, <2>2
  <2> QED BY <1>4, <1>5, <2>2, <2>3, <2>4 DEF IsPrefix
<1> QED BY <1>7, <1>8, <1>9

\* The part of a set of blocks at and below a block.
LEMMA SubtreeIs ==
  ASSUME NEW S \in SUBSET Blocks, NEW b \in Blocks
  PROVE  \A c : c \in Subtree(S, b) <=> c \in S /\ (c = b \/ b \in Ancestors(c))
<1>1. \A c \in S : IsPrefix(b, c) <=> (b = c \/ b \in Ancestors(c))
  BY PrefixIs
<1> QED BY <1>1 DEF Subtree

\* What lies below a block lies below what is above it.
LEMMA SubtreeDown ==
  ASSUME NEW S \in SUBSET Blocks, NEW b \in Blocks, NEW c \in Subtree(S, b)
  PROVE  c \in S /\ c \in Blocks /\ Subtree(S, c) \subseteq Subtree(S, b)
<1>1. c \in S /\ c \in Blocks /\ (c = b \/ b \in Ancestors(c))
  BY SubtreeIs
<1>2. ASSUME NEW d \in Subtree(S, c) PROVE d \in Subtree(S, b)
  <2>1. d \in S /\ d \in Blocks /\ (d = c \/ c \in Ancestors(d))
    BY <1>1, <1>2, SubtreeIs
  <2>2. CASE d = c
    BY <2>2
  <2>3. CASE c \in Ancestors(d)
    <3>1. Ancestors(c) \subseteq Ancestors(d)
      BY <2>1, <2>3, AncestorFacts
    <3>2. b \in Ancestors(d)
      BY <1>1, <2>3, <3>1
    <3> QED BY <2>1, <3>2, SubtreeIs
  <2> QED BY <2>1, <2>2, <2>3
<1> QED BY <1>1, <1>2

\* The parent of a block that is not a root lies above it, and everything
\* else above the block is above the parent.
LEMMA ParentFacts ==
  ASSUME NEW r \in Reqs, NEW i \in 1..Len(Stream[r]), i > 1
  PROVE  /\ Parent(Path(r, i)) = Path(r, i - 1)
         /\ Path(r, i - 1) \in Blocks
         /\ Ancestors(Path(r, i)) = Ancestors(Path(r, i - 1)) \cup {Path(r, i - 1)}
<1>1. Len(Stream[r]) \in Nat /\ i \in 0..Len(Stream[r]) /\ i - 1 \in 1..Len(Stream[r])
      /\ i - 1 \in 0..i
  BY StreamAssumption
<1>2. Len(Path(r, i)) = i /\ SubSeq(Path(r, i), 1, i - 1) = Path(r, i - 1)
  BY <1>1, PathFacts
<1>3. Ancestors(Path(r, i)) = Chain(r, i - 1) /\ Ancestors(Path(r, i - 1)) = Chain(r, (i - 1) - 1)
  BY <1>1, PathAncestors
<1>4. \A j : j \in 1..(i - 1) <=> (j \in 1..((i - 1) - 1) \/ j = i - 1)
  BY <1>1
<1>5. Chain(r, i - 1) = Chain(r, (i - 1) - 1) \cup {Path(r, i - 1)}
  BY <1>4 DEF Chain
<1> QED BY <1>1, <1>2, <1>3, <1>5, BlockIs DEF Parent, Front

\* A root has no parent and nothing above it.
LEMMA RootFacts ==
  ASSUME NEW r \in Reqs, 1 \in 1..Len(Stream[r])
  PROVE  Ancestors(Path(r, 1)) = {}
<1>1. Ancestors(Path(r, 1)) = Chain(r, 1 - 1)
  BY PathAncestors
<1>2. Chain(r, 1 - 1) = {}
  BY DEF Chain
<1> QED BY <1>1, <1>2

\* There are finitely many blocks.
LEMMA BlocksFinite ==
  IsFiniteSet(Blocks)
<1>1. ASSUME NEW r \in Reqs PROVE IsFiniteSet(Chain(r, Len(Stream[r])))
  <2> DEFINE n == Len(Stream[r])
             g == [i \in 1..n |-> Path(r, i)]
  <2>1. n \in Nat
    BY StreamAssumption
  <2>2. IsFiniteSet(1..n)
    BY <2>1, FS_Interval
  <2>3. g \in Surjection(1..n, Chain(r, n))
    BY DEF Surjection, Chain
  <2> QED BY <2>2, <2>3, FS_Surjection
<1> DEFINE T == {Chain(r, Len(Stream[r])) : r \in Reqs}
           h == [r \in Reqs |-> Chain(r, Len(Stream[r]))]
<1>2. h \in Surjection(Reqs, T)
  BY DEF Surjection
<1>3. IsFiniteSet(Reqs)
  BY StreamAssumption
<1>4. IsFiniteSet(T)
  BY <1>2, <1>3, FS_Surjection
<1>5. \A X \in T : IsFiniteSet(X)
  BY <1>1
<1>6. IsFiniteSet(UNION T)
  BY <1>4, <1>5, FS_UNION
<1> QED BY <1>6 DEF Blocks

\* A set of numbers has a least one.
LEMMA LeastNat ==
  ASSUME NEW T, T \subseteq Nat, T # {}
  PROVE  \E x \in T : \A y \in T : x <= y
<1>1. \E x \in T : \A y \in T : ~(<<y, x>> \in OpToRel(<, Nat))
  BY NatLessThanWellFounded, WFMin
<1>2. PICK x \in T : \A y \in T : ~(<<y, x>> \in OpToRel(<, Nat))
  BY <1>1
<1>3. \A y \in T : <<y, x>> \in Nat \X Nat /\ <<y, x>>[1] = y /\ <<y, x>>[2] = x
  OBVIOUS
<1>4. \A y \in T : ~(y < x)
  BY <1>2, <1>3 DEF OpToRel
<1>5. \A y \in T : x <= y
  BY <1>4
<1> QED BY <1>5

\* Below is the sense in which the two tiers shrink from the leaves: D is a
\* part of the freeable blocks S that has the children, within S, of its
\* members; S has all of T that lies below its members.
Pruned(T, S, D) ==
  /\ S \subseteq T /\ D \subseteq S
  /\ \A b \in S : Subtree(T, b) \subseteq S
  /\ \A b \in D : Children(S, b) \subseteq D

\* Taking leaves away leaves whole paths.
LEMMA PrunedRooted ==
  ASSUME NEW T \in SUBSET Blocks, Rooted(T), NEW S, NEW D, Pruned(T, S, D)
  PROVE  Rooted(T \ D)
<1> SUFFICES ASSUME NEW b \in T \ D, NEW a \in Ancestors(b), a \in D PROVE FALSE
  BY DEF Rooted
<1>1p. PICK r \in Reqs : \E i \in 1..Len(Stream[r]) : b = Path(r, i)
  BY BlockIs
<1>1. PICK i \in 1..Len(Stream[r]) : b = Path(r, i)
  BY <1>1p
<1>2. Len(Stream[r]) \in Nat /\ i \in Nat /\ i <= Len(Stream[r])
  BY StreamAssumption
<1>3. Ancestors(b) = Chain(r, i - 1)
  BY <1>1, PathAncestors
<1>4. PICK j \in 1..(i - 1) : a = Path(r, j)
  BY <1>3 DEF Chain
<1>5. j \in Nat /\ j < i /\ j > 0
  BY <1>2
<1> DEFINE N == {n \in (j + 1)..i : Path(r, n) \notin D}
<1>6. i \in N /\ N \subseteq Nat
  BY <1>1, <1>2, <1>5
<1>7. PICK n \in N : \A m \in N : n <= m
  BY <1>6, LeastNat
<1>8. n \in Nat /\ n > j /\ n <= i /\ Path(r, n) \notin D
  BY <1>7, <1>2, <1>5
<1>9. Path(r, n - 1) \in D
  <2>1. CASE n - 1 = j
    BY <1>4, <2>1
  <2>2. CASE n - 1 # j
    <3>1. n - 1 \in (j + 1)..i /\ ~(n <= n - 1)
      BY <1>2, <1>5, <1>8, <2>2
    <3> QED BY <1>7, <3>1
  <2> QED BY <2>1, <2>2
<1>10. n \in 1..Len(Stream[r]) /\ n > 1 /\ n - 1 \in 1..Len(Stream[r])
  BY <1>2, <1>5, <1>8
<1>11. /\ Parent(Path(r, n)) = Path(r, n - 1)
       /\ Path(r, n - 1) \in Blocks
       /\ Path(r, n - 1) \in Ancestors(Path(r, n))
  BY <1>10, ParentFacts
<1>12. Len(Path(r, n)) = n /\ Len(Path(r, n - 1)) = n - 1
  <2>1. n \in 0..Len(Stream[r]) /\ n - 1 \in 0..Len(Stream[r])
    BY <1>2, <1>10
  <2> QED BY <2>1, PathFacts
<1>13. Path(r, n) \in T
  <2>1. CASE n = i
    BY <1>1, <2>1
  <2>2. CASE n # i
    <3>1. n \in 1..(i - 1)
      BY <1>2, <1>5, <1>8, <2>2
    <3>2. Path(r, n) \in Ancestors(b)
      BY <1>3, <3>1 DEF Chain
    <3> QED BY <3>2 DEF Rooted
  <2> QED BY <2>1, <2>2
<1>14. Path(r, n - 1) \in S
  BY <1>9 DEF Pruned
<1>15. Path(r, n) \in Subtree(T, Path(r, n - 1))
  BY <1>11, <1>13, SubtreeIs
<1>16. Path(r, n) \in S
  BY <1>14, <1>15 DEF Pruned
<1>17. Path(r, n) \in Children(S, Path(r, n - 1))
  BY <1>8, <1>11, <1>12, <1>16 DEF Children
<1> QED BY <1>8, <1>9, <1>17 DEF Pruned

-----------------------------------------------------------------------------
(* Operations of the index.                                                *)

\* TreeOk without the capacity view.
CoreOk(t) ==
  /\ t \in TreeType
  /\ Rooted(t.dev) /\ Rooted(t.host) /\ t.blocks = t.dev \cup t.host
  /\ CopiesOrdered(t)
  /\ CopiesPlaced(t)

\* The trees differ in the capacity view at most.
SameCore(t, u) ==
  /\ u.blocks = t.blocks /\ u.ref = t.ref /\ u.pinned = t.pinned /\ u.dev = t.dev
  /\ u.host = t.host /\ u.d2h = t.d2h /\ u.h2d = t.h2d /\ u.pending = t.pending

\* The fields of a tree.
LEMMA TreeFields ==
  ASSUME NEW t, t \in TreeType
  PROVE  /\ t.blocks \subseteq Blocks /\ t.pinned \subseteq Blocks /\ t.dev \subseteq Blocks
         /\ t.host \subseteq Blocks /\ t.pending \subseteq Blocks /\ t.view \subseteq Blocks
         /\ t.d2h \in Seq(SUBSET Blocks) /\ t.h2d \subseteq SUBSET Blocks
         /\ t.ref \in [Blocks -> Nat] /\ \A b \in Blocks : t.ref[b] \in Nat
  BY DEF TreeType

\* The blocks under way.
LEMMA MovingIs ==
  ASSUME NEW t
  PROVE  /\ \A b : b \in InD2H(t) <=> \E i \in DOMAIN t.d2h : b \in t.d2h[i]
         /\ \A b : b \in InH2D(t) <=> \E op \in t.h2d : b \in op
         /\ \A b : b \in Moving(t) <=> (b \in InD2H(t) \/ b \in InH2D(t))
         /\ \A b : b \in Hosted(t) <=> (b \in t.host \/ b \in InD2H(t))
  BY DEF InD2H, InH2D, Moving, Hosted, Range

\* May the block leave the device once the copies to the host are complete?
Reclaimable(t, c) ==
  Unused(t, c) /\ (c \in InD2H(t) \/ (c \in t.host /\ c \notin Moving(t)))

\* The capacity view, block by block.
LEMMA ViewIs ==
  ASSUME NEW t, t \in TreeType
  PROVE  \A b : b \in DeviceReclaimable(t) <=>
                  /\ b \in t.dev
                  /\ \A c \in t.dev : (c = b \/ b \in Ancestors(c)) => Reclaimable(t, c)
<1>1. t.dev \in SUBSET Blocks
  BY TreeFields
<1>2. ASSUME NEW b \in t.dev
      PROVE  (\A c \in Subtree(t.dev, b) : Reclaimable(t, c)) <=>
             (\A c \in t.dev : (c = b \/ b \in Ancestors(c)) => Reclaimable(t, c))
  BY <1>1, SubtreeIs
<1>3. DeviceReclaimable(t) = {b \in t.dev : \A c \in Subtree(t.dev, b) : Reclaimable(t, c)}
  BY DEF DeviceReclaimable, Reclaimable
<1> QED BY <1>2, <1>3

\* The view does not depend on itself or on what is remembered.
LEMMA ViewOf ==
  ASSUME NEW t, t \in TreeType, NEW u, u \in TreeType,
         u.dev = t.dev, \A c \in t.dev : Reclaimable(u, c) <=> Reclaimable(t, c)
  PROVE  DeviceReclaimable(u) = DeviceReclaimable(t)
<1>1. \A b : b \in DeviceReclaimable(u) <=> b \in DeviceReclaimable(t)
  BY ViewIs
<1> QED BY <1>1

\* What can be reclaimed depends on the blocks in use, pinned, hosted and
\* under way.
LEMMA ReclaimableOf ==
  ASSUME NEW t, NEW u, u.host = t.host, u.d2h = t.d2h, u.h2d = t.h2d, u.pinned = t.pinned,
         NEW c, (u.ref[c] = 0) <=> (t.ref[c] = 0)
  PROVE  Reclaimable(u, c) <=> Reclaimable(t, c)
<1>1. InD2H(u) = InD2H(t) /\ Moving(u) = Moving(t)
  BY DEF InD2H, InH2D, Moving
<1> QED BY <1>1 DEF Reclaimable, Unused

\* A mark brings the view up to date and leaves the rest alone.
LEMMA MarkEffects ==
  ASSUME NEW t, t \in TreeType
  PROVE  /\ MarkCapacity(t) \in TreeType
         /\ SameCore(t, MarkCapacity(t))
         /\ MarkCapacity(t).view = DeviceReclaimable(t)
         /\ Fresh(MarkCapacity(t))
<1> DEFINE u == MarkCapacity(t)
<1>1. DeviceReclaimable(t) \in SUBSET Blocks
  BY TreeFields, ViewIs
<1>2. u \in TreeType /\ SameCore(t, u) /\ u.view = DeviceReclaimable(t)
  BY <1>1 DEF MarkCapacity, TreeType, SameCore
<1> HIDE DEF u
<1>3. \A c \in t.dev : Reclaimable(u, c) <=> Reclaimable(t, c)
  BY <1>2, ReclaimableOf DEF SameCore
<1>4. DeviceReclaimable(u) = DeviceReclaimable(t)
  BY <1>2, <1>3, ViewOf DEF SameCore
<1> QED BY <1>2, <1>4 DEF Fresh, u

\* The rest of the tree does not look at the view.
LEMMA CoreKept ==
  ASSUME NEW t, CoreOk(t), NEW u, u \in TreeType, SameCore(t, u)
  PROVE  CoreOk(u)
<1>1. InD2H(u) = InD2H(t) /\ InH2D(u) = InH2D(t)
  BY DEF InD2H, InH2D, SameCore
<1>2. CopiesOrdered(u)
  BY DEF CoreOk, CopiesOrdered, SameCore
<1>3. CopiesPlaced(u)
  BY <1>1 DEF CoreOk, CopiesPlaced, SameCore
<1> QED BY <1>2, <1>3 DEF CoreOk, SameCore

\* A mark makes a sound tree of a tree that is sound but for the view.
LEMMA MarkOk ==
  ASSUME NEW t, CoreOk(t)
  PROVE  /\ TreeOk(MarkCapacity(t))
         /\ SameCore(t, MarkCapacity(t))
         /\ MarkCapacity(t).view = DeviceReclaimable(t)
<1>1. t \in TreeType
  BY DEF CoreOk
<1>2. /\ MarkCapacity(t) \in TreeType /\ SameCore(t, MarkCapacity(t))
      /\ MarkCapacity(t).view = DeviceReclaimable(t) /\ Fresh(MarkCapacity(t))
  BY <1>1, MarkEffects
<1>3. CoreOk(MarkCapacity(t))
  BY <1>2, CoreKept
<1> QED BY <1>2, <1>3 DEF CoreOk, TreeOk

\* An index is right when its blocks are and its view is fresh.
LEMMA TreeOkIs ==
  ASSUME NEW t
  PROVE  TreeOk(t) <=> CoreOk(t) /\ Fresh(t)
  BY DEF TreeOk, CoreOk

\* The trees differ in the reference counts of S, by d, and in the view.
RefsChanged(t, u, S, d) ==
  /\ u.blocks = t.blocks /\ u.pinned = t.pinned /\ u.dev = t.dev /\ u.host = t.host
  /\ u.d2h = t.d2h /\ u.h2d = t.h2d /\ u.pending = t.pending
  /\ \A b \in Blocks : u.ref[b] = IF b \in S THEN t.ref[b] + d ELSE t.ref[b]

\* set_block_ref_count keeps the view right although it marks only the counts
\* that leave or reach zero.
LEMMA ChangeRefsOk ==
  ASSUME NEW t, TreeOk(t), NEW S \in SUBSET Blocks, NEW d \in Int,
         \A b \in S : t.ref[b] + d \in Nat
  PROVE  TreeOk(ChangeRefs(t, S, d)) /\ RefsChanged(t, ChangeRefs(t, S, d), S, d)
<1> DEFINE f == [b \in Blocks |-> IF b \in S THEN t.ref[b] + d ELSE t.ref[b]]
           u == [t EXCEPT !.ref = f]
<1>1. t \in TreeType /\ CoreOk(t) /\ Fresh(t)
  BY TreeOkIs DEF CoreOk
<1>2. f \in [Blocks -> Nat]
  BY <1>1, TreeFields
<1>3. \A b \in Blocks : f[b] = IF b \in S THEN t.ref[b] + d ELSE t.ref[b]
  OBVIOUS
<1> HIDE DEF f
<1>4. /\ u \in TreeType /\ u.ref = f /\ u.blocks = t.blocks /\ u.pinned = t.pinned
      /\ u.dev = t.dev /\ u.host = t.host /\ u.d2h = t.d2h /\ u.h2d = t.h2d
      /\ u.pending = t.pending /\ u.view = t.view
  BY <1>1, <1>2 DEF TreeType
<1>5. ChangeRefs(t, S, d) = IF \E b \in S : (t.ref[b] = 0) # (u.ref[b] = 0)
                            THEN MarkCapacity(u) ELSE u
  BY DEF ChangeRefs, f
<1> HIDE DEF u
<1>6. CoreOk(u)
  <2>1. InD2H(u) = InD2H(t) /\ InH2D(u) = InH2D(t)
    BY <1>4 DEF InD2H, InH2D
  <2>2. CopiesOrdered(u)
    BY <1>1, <1>4 DEF CoreOk, CopiesOrdered
  <2>3. CopiesPlaced(u)
    BY <1>1, <1>4, <2>1 DEF CoreOk, CopiesPlaced
  <2> QED BY <1>1, <1>4, <2>2, <2>3 DEF CoreOk
<1>7. RefsChanged(t, u, S, d)
  BY <1>3, <1>4 DEF RefsChanged
<1>8. CASE \E b \in S : (t.ref[b] = 0) # (u.ref[b] = 0)
  <2>1. ChangeRefs(t, S, d) = MarkCapacity(u)
    BY <1>5, <1>8
  <2>2. TreeOk(MarkCapacity(u)) /\ SameCore(u, MarkCapacity(u))
    BY <1>6, MarkOk
  <2> QED BY <1>7, <2>1, <2>2 DEF RefsChanged, SameCore
<1>9. CASE ~\E b \in S : (t.ref[b] = 0) # (u.ref[b] = 0)
  <2>1. ChangeRefs(t, S, d) = u
    BY <1>5, <1>9
  <2>2. \A c \in t.dev : (u.ref[c] = 0) <=> (t.ref[c] = 0)
    <3> TAKE c \in t.dev
    <3>1. c \in Blocks
      BY <1>1, TreeFields
    <3>2. CASE c \in S
      BY <1>9, <3>2
    <3>3. CASE c \notin S
      BY <1>3, <1>4, <3>1, <3>3
    <3> QED BY <3>2, <3>3
  <2>3. \A c \in t.dev : Reclaimable(u, c) <=> Reclaimable(t, c)
    BY <1>4, <2>2, ReclaimableOf
  <2>4. DeviceReclaimable(u) = DeviceReclaimable(t)
    BY <1>1, <1>4, <2>3, ViewOf
  <2>5. Fresh(u)
    BY <1>1, <1>4, <2>4 DEF Fresh
  <2> QED BY <1>6, <1>7, <2>1, <2>5, TreeOkIs
<1> QED BY <1>8, <1>9

\* References to S make everything outside the paths to S no less
\* reclaimable than before.
LEMMA ChangeRefsView ==
  ASSUME NEW t, TreeOk(t), NEW u, TreeOk(u), NEW S, Rooted(S), NEW d, RefsChanged(t, u, S, d)
  PROVE  t.view \ S \subseteq u.view
<1>1. /\ t \in TreeType /\ u \in TreeType /\ t.view = DeviceReclaimable(t)
      /\ u.view = DeviceReclaimable(u)
  BY DEF TreeOk, Fresh
<1>2. u.dev = t.dev /\ t.dev \subseteq Blocks
  BY <1>1, TreeFields DEF RefsChanged
<1> SUFFICES ASSUME NEW b \in t.view \ S PROVE b \in DeviceReclaimable(u)
  BY <1>1
<1>3. b \in t.dev /\ \A c \in t.dev : (c = b \/ b \in Ancestors(c)) => Reclaimable(t, c)
  BY <1>1, ViewIs
<1>4. ASSUME NEW c \in t.dev, c = b \/ b \in Ancestors(c) PROVE Reclaimable(u, c)
  <2>1. c \notin S
    BY <1>4 DEF Rooted
  <2>2. u.ref[c] = t.ref[c]
    BY <1>2, <2>1 DEF RefsChanged
  <2>3. Reclaimable(u, c) <=> Reclaimable(t, c)
    BY <2>2, ReclaimableOf DEF RefsChanged
  <2> QED BY <1>3, <1>4, <2>3
<1> QED BY <1>1, <1>2, <1>3, <1>4, ViewIs

\* The block b joins the index on the device, in use.
Inserted(t, u, b) ==
  /\ u.blocks = t.blocks \cup {b} /\ u.dev = t.dev \cup {b} /\ u.host = t.host
  /\ u.pinned = t.pinned /\ u.d2h = t.d2h /\ u.h2d = t.h2d /\ u.pending = t.pending
  /\ u.ref[b] = 1 /\ \A c \in Blocks \ {b} : u.ref[c] = t.ref[c]

\* insert_block keeps the view right although it does not mark an insertion
\* below a block in use.
LEMMA InsertBlockOk ==
  ASSUME NEW t, TreeOk(t), NEW r \in Reqs, NEW i \in 1..Len(Stream[r]),
         Path(r, i) \notin t.blocks,
         i > 1 => Path(r, i - 1) \in t.dev /\ t.ref[Path(r, i - 1)] > 0
  PROVE  TreeOk(InsertBlock(t, Path(r, i))) /\ Inserted(t, InsertBlock(t, Path(r, i)), Path(r, i))
<1> DEFINE b == Path(r, i)
           u == [t EXCEPT !.blocks = @ \cup {b}, !.dev = @ \cup {b}, !.ref[b] = 1]
<1>0. i \in Nat /\ i >= 1 /\ Len(Stream[r]) \in Nat
  BY StreamAssumption
<1>1. t \in TreeType /\ CoreOk(t) /\ Fresh(t)
  BY TreeOkIs DEF CoreOk
<1>2. b \in Blocks
  BY BlockIs
<1>3. InsertBlock(t, b) = MarkCapacity(u) \/ InsertBlock(t, b) = u
  BY DEF InsertBlock
<1> HIDE DEF b
<1>4. /\ u \in TreeType /\ Inserted(t, u, b) /\ u.view = t.view
  BY <1>1, <1>2 DEF TreeType, Inserted
<1> HIDE DEF u
<1>5. Ancestors(b) \subseteq t.dev
  <2>1. CASE i = 1
    BY <1>0, <2>1, RootFacts DEF b
  <2>2. CASE i # 1
    <3>1. i > 1
      BY <1>0, <2>2
    <3>2. Ancestors(b) = Ancestors(Path(r, i - 1)) \cup {Path(r, i - 1)}
      BY <3>1, ParentFacts DEF b
    <3> QED BY <1>1, <3>1, <3>2 DEF CoreOk, Rooted
  <2> QED BY <2>1, <2>2
<1>6. CoreOk(u)
  <2>1. InD2H(u) = InD2H(t) /\ InH2D(u) = InH2D(t)
    BY <1>4 DEF InD2H, InH2D, Inserted
  <2>2. CopiesOrdered(u)
    BY <1>1, <1>4 DEF CoreOk, CopiesOrdered, Inserted
  <2>3. CopiesPlaced(u)
    BY <1>1, <1>4, <2>1 DEF CoreOk, CopiesPlaced, Inserted
  <2>4. Rooted(u.dev) /\ Rooted(u.host) /\ u.blocks = u.dev \cup u.host
    BY <1>1, <1>4, <1>5 DEF CoreOk, Inserted, Rooted
  <2> QED BY <1>4, <2>2, <2>3, <2>4 DEF CoreOk
<1>7. b \notin t.dev /\ t.dev \subseteq Blocks
  BY <1>1, TreeFields DEF CoreOk, b
<1>8. \A c \in t.dev : Reclaimable(u, c) <=> Reclaimable(t, c)
  <2> TAKE c \in t.dev
  <2>1. u.ref[c] = t.ref[c]
    BY <1>4, <1>7 DEF Inserted
  <2> QED BY <1>4, <2>1, ReclaimableOf DEF Inserted
<1>9. ~Reclaimable(u, b)
  BY <1>4 DEF Inserted, Reclaimable, Unused
<1>10. ASSUME NEW a \in Ancestors(b) PROVE a \notin DeviceReclaimable(t)
  <2>1. i > 1
    <3>1. CASE i = 1
      BY <1>0, <1>10, <3>1, RootFacts DEF b
    <3> QED BY <1>0, <3>1
  <2>2. Ancestors(b) = Ancestors(Path(r, i - 1)) \cup {Path(r, i - 1)}
    BY <2>1, ParentFacts DEF b
  <2>3. Path(r, i - 1) \in t.dev /\ t.ref[Path(r, i - 1)] > 0
    BY <2>1
  <2>4. t.ref[Path(r, i - 1)] \in Nat
    BY <1>1, <1>7, <2>3, TreeFields
  <2>5. ~Reclaimable(t, Path(r, i - 1))
    BY <2>3, <2>4 DEF Reclaimable, Unused
  <2> QED BY <1>1, <1>10, <2>2, <2>3, <2>5, ViewIs
<1>11. DeviceReclaimable(u) = DeviceReclaimable(t)
  <2>1. u.dev = t.dev \cup {b}
    BY <1>4 DEF Inserted
  <2>2. ASSUME NEW x PROVE x \in DeviceReclaimable(u) <=> x \in DeviceReclaimable(t)
    <3>1. x \in DeviceReclaimable(u) <=>
             x \in u.dev /\ \A c \in u.dev : (c = x \/ x \in Ancestors(c)) => Reclaimable(u, c)
      BY <1>4, ViewIs
    <3>2. x \in DeviceReclaimable(t) <=>
             x \in t.dev /\ \A c \in t.dev : (c = x \/ x \in Ancestors(c)) => Reclaimable(t, c)
      BY <1>1, ViewIs
    <3>3. ASSUME x \in DeviceReclaimable(u) PROVE x \in DeviceReclaimable(t)
      BY <1>8, <1>9, <2>1, <3>1, <3>2, <3>3
    <3>4. ASSUME x \in DeviceReclaimable(t) PROVE x \in DeviceReclaimable(u)
      BY <1>7, <1>8, <1>10, <2>1, <3>1, <3>2, <3>4
    <3> QED BY <3>3, <3>4
  <2> QED BY <2>2
<1>12. TreeOk(u)
  BY <1>1, <1>4, <1>6, <1>11, TreeOkIs DEF Fresh
<1>13. TreeOk(MarkCapacity(u)) /\ Inserted(t, MarkCapacity(u), b)
  <2>1. TreeOk(MarkCapacity(u)) /\ SameCore(u, MarkCapacity(u))
    BY <1>6, MarkOk
  <2> QED BY <1>4, <2>1 DEF SameCore, Inserted
<1> QED BY <1>3, <1>4, <1>12, <1>13, Zenon DEF b

-----------------------------------------------------------------------------
(* Copies that complete.                                                   *)

\* Copies of t have completed in u.
Advanced(t, u) ==
  /\ u.blocks = t.blocks /\ u.ref = t.ref /\ u.pinned = t.pinned /\ u.dev = t.dev
  /\ u.pending = t.pending /\ Hosted(u) = Hosted(t)
  /\ t.host \subseteq u.host
  /\ InD2H(u) \subseteq InD2H(t) /\ InH2D(u) \subseteq InH2D(t)
  /\ t.view \subseteq u.view

\* Nothing has to complete, and more completes later.
LEMMA AdvancedOrder ==
  ASSUME NEW t, NEW u, NEW v
  PROVE  /\ Advanced(t, t)
         /\ Advanced(t, u) /\ Advanced(u, v) => Advanced(t, v)
  BY DEF Advanced

\* Copies to the host complete in their order.
LEMMA FinishD2HOk ==
  ASSUME NEW t, TreeOk(t), NEW k \in 0..Len(t.d2h)
  PROVE  /\ TreeOk(FinishD2H(t, k)) /\ Advanced(t, FinishD2H(t, k))
         /\ FinishD2H(t, k).h2d = t.h2d
         /\ FinishD2H(t, k).d2h = SubSeq(t.d2h, k + 1, Len(t.d2h))
<1>1. t \in TreeType /\ CoreOk(t) /\ Fresh(t)
  BY TreeOkIs DEF CoreOk
<1>2. t.d2h \in Seq(SUBSET Blocks) /\ Len(t.d2h) \in Nat /\ k \in Nat /\ k <= Len(t.d2h)
      /\ DOMAIN t.d2h = 1..Len(t.d2h)
  BY <1>1, TreeFields
<1>3. CASE k = 0
  <2>1. FinishD2H(t, k) = t
    BY <1>3 DEF FinishD2H
  <2>2. SubSeq(t.d2h, 1, Len(t.d2h)) = t.d2h
    BY <1>2
  <2> QED BY <1>3, <2>1, <2>2, AdvancedOrder
<1>4. CASE k # 0
  <2> DEFINE done == UNION {t.d2h[i] : i \in 1..k}
             q == SubSeq(t.d2h, k + 1, Len(t.d2h))
             u == [t EXCEPT !.host = @ \cup done, !.d2h = q]
  <2>1. FinishD2H(t, k) = MarkCapacity(u)
    BY <1>4 DEF FinishD2H
  <2>2. /\ q \in Seq(SUBSET Blocks) /\ Len(q) = Len(t.d2h) - k
        /\ DOMAIN q = 1..(Len(t.d2h) - k)
        /\ \A i \in 1..(Len(t.d2h) - k) : q[i] = t.d2h[k + i]
    BY <1>2
  <2>3. done \subseteq Blocks
    BY <1>2
  <2>d. \A b : b \in done <=> \E i \in 1..k : b \in t.d2h[i]
    OBVIOUS
  <2> HIDE DEF done, q
  <2>4. /\ u \in TreeType /\ u.blocks = t.blocks /\ u.ref = t.ref /\ u.pinned = t.pinned
        /\ u.dev = t.dev /\ u.pending = t.pending /\ u.h2d = t.h2d /\ u.view = t.view
        /\ u.host = t.host \cup done /\ u.d2h = q
    BY <1>1, <2>2, <2>3 DEF TreeType
  <2> HIDE DEF u
  <2>5. \A i \in 1..(Len(t.d2h) - k) : k + i \in 1..Len(t.d2h)
    BY <1>2
  <2>6. \A i \in 1..k : i \in 1..Len(t.d2h)
    BY <1>2
  <2>7. \A i \in 1..Len(t.d2h) : i \in 1..k \/ (i - k \in 1..(Len(t.d2h) - k) /\ k + (i - k) = i)
    BY <1>2
  <2>8. InD2H(u) \subseteq InD2H(t) /\ done \subseteq InD2H(t) /\ InD2H(t) \subseteq InD2H(u) \cup done
    <3>1. \A b : b \in InD2H(t) <=> \E i \in 1..Len(t.d2h) : b \in t.d2h[i]
      BY <1>2, MovingIs
    <3>2. \A b : b \in InD2H(u) <=> \E i \in 1..(Len(t.d2h) - k) : b \in t.d2h[k + i]
      BY <2>2, <2>4, MovingIs
    <3>3. done \subseteq InD2H(t)
      BY <2>6, <2>d, <3>1
    <3>4. InD2H(u) \subseteq InD2H(t)
      BY <2>5, <3>1, <3>2
    <3>5. ASSUME NEW b \in InD2H(t) PROVE b \in InD2H(u) \cup done
      <4>1. PICK i \in 1..Len(t.d2h) : b \in t.d2h[i]
        BY <3>1
      <4>2. CASE i \in 1..k
        BY <2>d, <4>1, <4>2
      <4>3. CASE i \notin 1..k
        <5>1. i - k \in 1..(Len(t.d2h) - k) /\ k + (i - k) = i
          BY <2>7, <4>3
        <5> QED BY <3>2, <4>1, <5>1
      <4> QED BY <4>2, <4>3
    <3> QED BY <3>3, <3>4, <3>5
  <2>9. InH2D(u) = InH2D(t)
    BY <2>4 DEF InH2D
  <2>10. Rooted(u.host)
    <3> SUFFICES ASSUME NEW b \in u.host PROVE Ancestors(b) \subseteq u.host
      BY DEF Rooted
    <3>1. CASE b \in t.host
      BY <1>1, <2>4, <3>1 DEF CoreOk, Rooted
    <3>2. CASE b \in done
      <4>1. PICK i \in 1..k : b \in t.d2h[i]
        BY <2>d, <3>2
      <4>2. Ancestors(b) \subseteq t.host \cup UNION {t.d2h[j] : j \in 1..i}
        BY <1>1, <1>2, <2>6, <4>1 DEF CoreOk, CopiesOrdered
      <4>3. \A j \in 1..i : j \in 1..k
        BY <1>2
      <4>4. UNION {t.d2h[j] : j \in 1..i} \subseteq done
        BY <2>d, <4>3
      <4> QED BY <2>4, <4>2, <4>4
    <3> QED BY <2>4, <3>1, <3>2
  <2>11. CopiesOrdered(u)
    <3> SUFFICES ASSUME NEW i \in DOMAIN u.d2h, NEW b \in u.d2h[i], NEW a \in Ancestors(b)
                 PROVE  a \in u.host \cup UNION {u.d2h[j] : j \in 1..i}
      BY DEF CopiesOrdered
    <3>1. i \in 1..(Len(t.d2h) - k) /\ k + i \in 1..Len(t.d2h) /\ b \in t.d2h[k + i] /\ i \in Nat
      BY <1>2, <2>2, <2>4, <2>5
    <3>2. a \in t.host \cup UNION {t.d2h[j] : j \in 1..(k + i)}
      BY <1>1, <1>2, <3>1 DEF CoreOk, CopiesOrdered
    <3>3. CASE a \in t.host
      BY <2>4, <3>3
    <3>4. CASE a \notin t.host
      <4>1. PICK j \in 1..(k + i) : a \in t.d2h[j]
        BY <3>2, <3>4
      <4>2. CASE j \in 1..k
        BY <2>4, <2>d, <4>1, <4>2
      <4>3. CASE j \notin 1..k
        <5>1. j - k \in 1..i /\ j - k \in 1..(Len(t.d2h) - k) /\ k + (j - k) = j
          BY <1>2, <3>1, <4>1, <4>3
        <5>2. a \in u.d2h[j - k]
          BY <2>2, <2>4, <4>1, <5>1
        <5> QED BY <5>1, <5>2
      <4> QED BY <4>2, <4>3
    <3> QED BY <3>3, <3>4
  <2>12. InD2H(t) \subseteq t.dev /\ InH2D(t) \subseteq t.dev \cap t.host /\ InD2H(t) \cap InH2D(t) = {}
    BY <1>1 DEF CoreOk, CopiesPlaced
  <2>13. CopiesPlaced(u)
    BY <2>4, <2>8, <2>9, <2>12 DEF CopiesPlaced
  <2>14. CoreOk(u)
    <3>1. u.blocks = u.dev \cup u.host
      BY <1>1, <2>4, <2>8, <2>12 DEF CoreOk
    <3> QED BY <1>1, <2>4, <2>10, <2>11, <2>13, <3>1 DEF CoreOk
  <2>15. TreeOk(MarkCapacity(u)) /\ SameCore(u, MarkCapacity(u)) /\ MarkCapacity(u).view = DeviceReclaimable(u)
    BY <2>14, MarkOk
  <2>16. \A c \in t.dev : Reclaimable(t, c) => Reclaimable(u, c)
    <3> SUFFICES ASSUME NEW c \in t.dev, Reclaimable(t, c) PROVE Reclaimable(u, c)
      OBVIOUS
    <3>1. Unused(u, c)
      BY <2>4 DEF Reclaimable, Unused
    <3>2. c \in InD2H(t) \/ (c \in t.host /\ c \notin Moving(t))
      BY DEF Reclaimable
    <3>3. c \in InD2H(u) \/ (c \in u.host /\ c \notin Moving(u))
      BY <2>4, <2>8, <2>9, <2>12, <3>2, MovingIs
    <3> QED BY <3>1, <3>3 DEF Reclaimable
  <2>17. DeviceReclaimable(t) \subseteq DeviceReclaimable(u)
    <3>1. u.dev = t.dev
      BY <2>4
    <3> QED BY <1>1, <2>4, <2>16, <3>1, ViewIs
  <2>18. Hosted(u) = Hosted(t)
    BY <2>4, <2>8 DEF Hosted
  <2>19. \A v : SameCore(u, v) => InD2H(v) = InD2H(u) /\ InH2D(v) = InH2D(u) /\ Hosted(v) = Hosted(u)
    BY DEF SameCore, InD2H, InH2D, Hosted
  <2>20. Advanced(t, MarkCapacity(u))
    BY <1>1, <2>4, <2>8, <2>9, <2>15, <2>17, <2>18, <2>19 DEF Advanced, SameCore, Fresh
  <2> QED BY <2>1, <2>4, <2>15, <2>20 DEF SameCore, q
<1> QED BY <1>3, <1>4

\* Copies to the device complete in any order.
LEMMA FinishH2DOk ==
  ASSUME NEW t, TreeOk(t), NEW H \in SUBSET t.h2d
  PROVE  /\ TreeOk(FinishH2D(t, H)) /\ Advanced(t, FinishH2D(t, H))
         /\ FinishH2D(t, H).d2h = t.d2h /\ FinishH2D(t, H).host = t.host
         /\ FinishH2D(t, H).h2d = t.h2d \ H
<1>1. t \in TreeType /\ CoreOk(t) /\ Fresh(t)
  BY TreeOkIs DEF CoreOk
<1>3. CASE H = {}
  <2>1. FinishH2D(t, H) = t
    BY <1>3 DEF FinishH2D
  <2> QED BY <1>3, <2>1, AdvancedOrder
<1>4. CASE H # {}
  <2> DEFINE u == [t EXCEPT !.h2d = @ \ H]
  <2>1. FinishH2D(t, H) = MarkCapacity(u)
    BY <1>4 DEF FinishH2D
  <2>4. /\ u \in TreeType /\ u.blocks = t.blocks /\ u.ref = t.ref /\ u.pinned = t.pinned
        /\ u.dev = t.dev /\ u.pending = t.pending /\ u.d2h = t.d2h /\ u.view = t.view
        /\ u.host = t.host /\ u.h2d = t.h2d \ H
    BY <1>1 DEF TreeType
  <2> HIDE DEF u
  <2>8. InD2H(u) = InD2H(t) /\ InH2D(u) \subseteq InH2D(t)
    BY <2>4 DEF InD2H, InH2D
  <2>11. CopiesOrdered(u)
    BY <1>1, <2>4 DEF CopiesOrdered, CoreOk
  <2>12. InD2H(t) \subseteq t.dev /\ InH2D(t) \subseteq t.dev \cap t.host /\ InD2H(t) \cap InH2D(t) = {}
    BY <1>1 DEF CoreOk, CopiesPlaced
  <2>13. CopiesPlaced(u)
    BY <2>4, <2>8, <2>12 DEF CopiesPlaced
  <2>14. CoreOk(u)
    BY <1>1, <2>4, <2>11, <2>13 DEF CoreOk
  <2>15. TreeOk(MarkCapacity(u)) /\ SameCore(u, MarkCapacity(u)) /\ MarkCapacity(u).view = DeviceReclaimable(u)
    BY <2>14, MarkOk
  <2>16. \A c \in t.dev : Reclaimable(t, c) => Reclaimable(u, c)
    <3> SUFFICES ASSUME NEW c \in t.dev, Reclaimable(t, c) PROVE Reclaimable(u, c)
      OBVIOUS
    <3>1. Unused(u, c)
      BY <2>4 DEF Reclaimable, Unused
    <3>2. c \in InD2H(t) \/ (c \in t.host /\ c \notin Moving(t))
      BY DEF Reclaimable
    <3>3. c \in InD2H(u) \/ (c \in u.host /\ c \notin Moving(u))
      BY <2>4, <2>8, <2>12, <3>2, MovingIs
    <3> QED BY <3>1, <3>3 DEF Reclaimable
  <2>17. DeviceReclaimable(t) \subseteq DeviceReclaimable(u)
    <3>1. u.dev = t.dev
      BY <2>4
    <3> QED BY <1>1, <2>4, <2>16, <3>1, ViewIs
  <2>18. Hosted(u) = Hosted(t)
    BY <2>4, <2>8 DEF Hosted
  <2>19. \A v : SameCore(u, v) => InD2H(v) = InD2H(u) /\ InH2D(v) = InH2D(u) /\ Hosted(v) = Hosted(u)
    BY DEF SameCore, InD2H, InH2D, Hosted
  <2>20. Advanced(t, MarkCapacity(u))
    BY <1>1, <2>4, <2>8, <2>15, <2>17, <2>18, <2>19 DEF Advanced, SameCore, Fresh
  <2> QED BY <2>1, <2>4, <2>15, <2>20 DEF SameCore
<1> QED BY <1>3, <1>4

\* A poll completes copies.
LEMMA PolledOk ==
  ASSUME NEW t, TreeOk(t), NEW u \in Polled(t)
  PROVE  TreeOk(u) /\ Advanced(t, u)
<1>1. PICK k \in 0..Len(t.d2h), H \in SUBSET t.h2d : u = FinishH2D(FinishD2H(t, k), H)
  BY DEF Polled
<1>2. TreeOk(FinishD2H(t, k)) /\ Advanced(t, FinishD2H(t, k)) /\ FinishD2H(t, k).h2d = t.h2d
  BY FinishD2HOk
<1>3. TreeOk(u) /\ Advanced(FinishD2H(t, k), u)
  BY <1>1, <1>2, FinishH2DOk
<1> QED BY <1>2, <1>3, AdvancedOrder

\* synchronize_all completes all of them.
LEMMA SynchronizedOk ==
  ASSUME NEW t, TreeOk(t)
  PROVE  /\ TreeOk(Synchronized(t)) /\ Advanced(t, Synchronized(t))
         /\ Synchronized(t).d2h = <<>> /\ InD2H(Synchronized(t)) = {}
         /\ InH2D(Synchronized(t)) = {}
<1> DEFINE u == FinishD2H(t, Len(t.d2h))
           v == Synchronized(t)
<1>0. t.d2h \in Seq(SUBSET Blocks) /\ Len(t.d2h) \in Nat /\ Len(t.d2h) \in 0..Len(t.d2h)
  BY TreeFields DEF TreeOk
<1>1. /\ TreeOk(u) /\ Advanced(t, u) /\ u.h2d = t.h2d
      /\ u.d2h = SubSeq(t.d2h, Len(t.d2h) + 1, Len(t.d2h))
  BY <1>0, FinishD2HOk
<1>2. u.d2h = <<>>
  BY <1>0, <1>1
<1>3. v = FinishH2D(u, t.h2d)
  BY DEF Synchronized
<1> HIDE DEF u, v
<1>h. u.h2d \in SUBSET u.h2d
  OBVIOUS
<1>4. TreeOk(v) /\ Advanced(u, v) /\ v.d2h = u.d2h /\ v.h2d = u.h2d \ u.h2d
  <2>1. v = FinishH2D(u, u.h2d)
    BY <1>1, <1>3
  <2>2. /\ TreeOk(FinishH2D(u, u.h2d)) /\ Advanced(u, FinishH2D(u, u.h2d))
        /\ FinishH2D(u, u.h2d).d2h = u.d2h /\ FinishH2D(u, u.h2d).h2d = u.h2d \ u.h2d
    BY <1>1, <1>h, FinishH2DOk
  <2> QED BY <2>1, <2>2
<1>5. InD2H(v) = {} /\ InH2D(v) = {}
  <2>1. DOMAIN v.d2h = {}
    BY <1>2, <1>4
  <2>2. v.h2d = {}
    BY <1>4
  <2> QED BY <2>1, <2>2, MovingIs
<1> QED BY <1>1, <1>2, <1>4, <1>5, AdvancedOrder DEF v

-----------------------------------------------------------------------------
(* Blocks that leave a tier.                                               *)

\* The outcomes of taking leaves.
LEMMA LeavesAre ==
  ASSUME NEW S, NEW n, NEW D \in Leaves(S, n)
  PROVE  /\ D \subseteq S /\ \A b \in D : Children(S, b) \subseteq D
         /\ Cardinality(D) = Min({n, Cardinality(S)})
  BY DEF Leaves

\* May the block leave the device now?
Demotable(t, c) == Unused(t, c) /\ c \in t.host /\ c \notin Moving(t)

\* What can be demoted now, block by block.
LEMMA FreeableIs ==
  ASSUME NEW t, t \in TreeType
  PROVE  \A b : b \in DeviceFreeable(t) <=>
                  b \in t.dev /\ \A c \in Subtree(t.dev, b) : Demotable(t, c)
  BY DEF DeviceFreeable, Demotable

\* The blocks D have left the device.
Demoted(t, u, D) ==
  /\ u.blocks = t.blocks /\ u.ref = t.ref /\ u.pinned = t.pinned /\ u.dev = t.dev \ D
  /\ u.host = t.host /\ u.d2h = t.d2h /\ u.h2d = t.h2d /\ u.pending = t.pending
  /\ u.view = t.view \ D
  /\ D \subseteq t.view /\ D \subseteq t.dev
  /\ \A b \in D : b \in t.host /\ t.ref[b] = 0 /\ b \notin Moving(t)

\* demote_device_until_freeable takes leaves that are on the host, and the
\* view loses exactly them.
LEMMA DemoteOk ==
  ASSUME NEW t, TreeOk(t), NEW n, NEW D \in Leaves(DeviceFreeable(t), n)
  PROVE  TreeOk(Demote(t, D)) /\ Demoted(t, Demote(t, D), D)
<1> DEFINE S == DeviceFreeable(t)
           u == [t EXCEPT !.dev = @ \ D]
<1>1. t \in TreeType /\ CoreOk(t) /\ Fresh(t)
  BY TreeOkIs DEF CoreOk
<1>2. t.dev \in SUBSET Blocks
  BY <1>1, TreeFields
<1>3. \A b : b \in S <=> b \in t.dev /\ \A c \in Subtree(t.dev, b) : Demotable(t, c)
  BY <1>1, FreeableIs
<1>4. D \subseteq S /\ \A b \in D : Children(S, b) \subseteq D
  BY LeavesAre
<1>5. Demote(t, D) = IF D = {} THEN t ELSE MarkCapacity(u)
  BY DEF Demote
<1> HIDE DEF S
<1>6. /\ u \in TreeType /\ u.blocks = t.blocks /\ u.ref = t.ref /\ u.pinned = t.pinned
      /\ u.dev = t.dev \ D /\ u.host = t.host /\ u.d2h = t.d2h /\ u.h2d = t.h2d
      /\ u.pending = t.pending /\ u.view = t.view
  BY <1>1 DEF TreeType
<1> HIDE DEF u
<1>7. \A b \in S : Demotable(t, b)
  <2> TAKE b \in S
  <2>1. b \in t.dev /\ b \in Subtree(t.dev, b)
    BY <1>2, <1>3, SubtreeIs
  <2> QED BY <1>3, <2>1
<1>8. Pruned(t.dev, S, D)
  <2>1. ASSUME NEW b \in S, NEW c \in Subtree(t.dev, b) PROVE c \in S
    <3>1. b \in t.dev /\ b \in Blocks
      BY <1>2, <1>3
    <3>2. c \in t.dev /\ Subtree(t.dev, c) \subseteq Subtree(t.dev, b)
      BY <1>2, <2>1, <3>1, SubtreeDown
    <3> QED BY <1>3, <2>1, <3>2
  <2> QED BY <1>3, <1>4, <2>1 DEF Pruned
<1>9. Rooted(u.dev)
  BY <1>1, <1>2, <1>6, <1>8, PrunedRooted DEF CoreOk
<1>10. D \subseteq t.dev /\ \A b \in D : b \in t.host /\ b \notin Moving(t) /\ Unused(t, b)
  BY <1>3, <1>4, <1>7 DEF Demotable
<1>11. InD2H(u) = InD2H(t) /\ InH2D(u) = InH2D(t) /\ Moving(u) = Moving(t)
  BY <1>6 DEF InD2H, InH2D, Moving
<1>12. CopiesOrdered(u)
  BY <1>1, <1>6 DEF CoreOk, CopiesOrdered
<1>13. CopiesPlaced(u)
  <2>1. \A b \in D : b \notin InD2H(t) /\ b \notin InH2D(t)
    BY <1>10, MovingIs
  <2> QED BY <1>1, <1>6, <1>11, <2>1 DEF CoreOk, CopiesPlaced
<1>14. CoreOk(u)
  <2>1. u.blocks = u.dev \cup u.host
    BY <1>1, <1>6, <1>10 DEF CoreOk
  <2> QED BY <1>1, <1>6, <1>9, <1>12, <1>13, <2>1 DEF CoreOk
<1>15. \A c : Reclaimable(u, c) <=> Reclaimable(t, c)
  BY <1>6, <1>11 DEF Reclaimable, Unused
<1>16. D \subseteq DeviceReclaimable(t)
  <2> SUFFICES ASSUME NEW b \in D PROVE b \in DeviceReclaimable(t)
    OBVIOUS
  <2>1. b \in t.dev /\ b \in Blocks /\ \A c \in Subtree(t.dev, b) : Demotable(t, c)
    BY <1>2, <1>3, <1>4
  <2>2. ASSUME NEW c \in t.dev, c = b \/ b \in Ancestors(c) PROVE Reclaimable(t, c)
    <3>1. c \in Subtree(t.dev, b)
      BY <1>2, <2>1, <2>2, SubtreeIs
    <3> QED BY <2>1, <3>1 DEF Demotable, Reclaimable
  <2> QED BY <1>1, <2>1, <2>2, ViewIs
<1>17. DeviceReclaimable(u) = DeviceReclaimable(t) \ D
  <2>1. \A c \in D : Reclaimable(t, c)
    BY <1>10 DEF Reclaimable
  <2>2. ASSUME NEW x PROVE x \in DeviceReclaimable(u) <=> x \in DeviceReclaimable(t) /\ x \notin D
    <3>1. x \in DeviceReclaimable(u) <=>
             x \in u.dev /\ \A c \in u.dev : (c = x \/ x \in Ancestors(c)) => Reclaimable(u, c)
      BY <1>6, ViewIs
    <3>2. x \in DeviceReclaimable(t) <=>
             x \in t.dev /\ \A c \in t.dev : (c = x \/ x \in Ancestors(c)) => Reclaimable(t, c)
      BY <1>1, ViewIs
    <3> QED BY <1>6, <1>15, <2>1, <3>1, <3>2
  <2> QED BY <2>2
<1>18. \A b \in D : t.ref[b] = 0
  BY <1>10 DEF Unused
<1>19. CASE D = {}
  <2>1. Demote(t, D) = t
    BY <1>5, <1>19
  <2> QED BY <1>19, <2>1 DEF Demoted
<1>20. CASE D # {}
  <2>1. Demote(t, D) = MarkCapacity(u)
    BY <1>5, <1>20
  <2>2. TreeOk(MarkCapacity(u)) /\ SameCore(u, MarkCapacity(u)) /\ MarkCapacity(u).view = DeviceReclaimable(u)
    BY <1>14, MarkOk
  <2>3. Demoted(t, MarkCapacity(u), D)
    BY <1>1, <1>6, <1>10, <1>16, <1>17, <1>18, <2>2 DEF Demoted, SameCore, Fresh
  <2> QED BY <2>1, <2>2, <2>3
<1> QED BY <1>19, <1>20

\* With nothing under way to the host, what the view counts can be demoted now.
LEMMA FreeableNow ==
  ASSUME NEW t, TreeOk(t), InD2H(t) = {}
  PROVE  DeviceFreeable(t) = t.view
<1>1. t \in TreeType /\ t.view = DeviceReclaimable(t) /\ t.dev \in SUBSET Blocks
  BY TreeFields DEF TreeOk, Fresh
<1>2. \A c : Reclaimable(t, c) <=> Demotable(t, c)
  BY DEF Reclaimable, Demotable
<1>3. DeviceReclaimable(t) = {b \in t.dev : \A c \in Subtree(t.dev, b) : Reclaimable(t, c)}
  BY DEF DeviceReclaimable, Reclaimable
<1>4. DeviceFreeable(t) = {b \in t.dev : \A c \in Subtree(t.dev, b) : Demotable(t, c)}
  BY DEF DeviceFreeable, Demotable
<1> QED BY <1>1, <1>2, <1>3, <1>4

\* The blocks E, which nobody uses, have left the index.
Removed(t, u, E) ==
  /\ u.blocks = t.blocks \ E /\ u.dev = t.dev \ E /\ u.host = t.host \ E
  /\ u.pinned = t.pinned \ E /\ u.pending = t.pending \ E
  /\ u.ref = t.ref /\ u.d2h = t.d2h /\ u.h2d = t.h2d
  /\ \A b \in E : t.ref[b] = 0 /\ b \notin t.pinned /\ b \notin Moving(t)

\* Removing blocks with all that lies below them.
LEMMA RemoveBlocksOk ==
  ASSUME NEW t, TreeOk(t), NEW E, E \subseteq t.blocks,
         Rooted(t.dev \ E), Rooted(t.host \ E),
         \A b \in E : Unused(t, b) /\ b \notin Moving(t),
         \A b \in InD2H(t) : Ancestors(b) \cap E = {}
  PROVE  TreeOk(RemoveBlocks(t, E)) /\ Removed(t, RemoveBlocks(t, E), E)
<1> DEFINE u == [t EXCEPT !.blocks = @ \ E, !.dev = @ \ E, !.host = @ \ E,
                          !.pinned = @ \ E, !.pending = @ \ E]
<1>1. t \in TreeType /\ CoreOk(t) /\ Fresh(t)
  BY TreeOkIs DEF CoreOk
<1>2. RemoveBlocks(t, E) = IF E = {} THEN t ELSE MarkCapacity(u)
  BY DEF RemoveBlocks
<1>3. /\ u \in TreeType /\ u.blocks = t.blocks \ E /\ u.dev = t.dev \ E /\ u.host = t.host \ E
      /\ u.pinned = t.pinned \ E /\ u.pending = t.pending \ E
      /\ u.ref = t.ref /\ u.d2h = t.d2h /\ u.h2d = t.h2d
  BY <1>1 DEF TreeType
<1> HIDE DEF u
<1>4. InD2H(u) = InD2H(t) /\ InH2D(u) = InH2D(t)
  BY <1>3 DEF InD2H, InH2D
<1>5. \A b \in E : b \notin InD2H(t) /\ b \notin InH2D(t)
  BY MovingIs
<1>6. CopiesPlaced(u)
  BY <1>1, <1>3, <1>4, <1>5 DEF CoreOk, CopiesPlaced
<1>7. CopiesOrdered(u)
  <2> SUFFICES ASSUME NEW i \in DOMAIN u.d2h, NEW b \in u.d2h[i], NEW a \in Ancestors(b)
               PROVE  a \in u.host \cup UNION {u.d2h[j] : j \in 1..i}
    BY DEF CopiesOrdered
  <2>1. i \in DOMAIN t.d2h /\ b \in t.d2h[i] /\ u.d2h = t.d2h
    BY <1>3
  <2>2. a \in t.host \cup UNION {t.d2h[j] : j \in 1..i}
    BY <1>1, <2>1 DEF CoreOk, CopiesOrdered
  <2>3. b \in InD2H(t)
    BY <2>1, MovingIs
  <2>4. a \notin E
    BY <2>3
  <2> QED BY <1>3, <2>1, <2>2, <2>4
<1>8. CoreOk(u)
  <2>1. u.blocks = u.dev \cup u.host
    BY <1>1, <1>3 DEF CoreOk
  <2> QED BY <1>3, <1>6, <1>7, <2>1 DEF CoreOk
<1>9. \A b \in E : t.ref[b] = 0 /\ b \notin t.pinned
  BY DEF Unused
<1>10. CASE E = {}
  <2>1. RemoveBlocks(t, E) = t
    BY <1>2, <1>10
  <2> QED BY <1>10, <2>1 DEF Removed
<1>11. CASE E # {}
  <2>1. RemoveBlocks(t, E) = MarkCapacity(u)
    BY <1>2, <1>11
  <2>2. TreeOk(MarkCapacity(u)) /\ SameCore(u, MarkCapacity(u))
    BY <1>8, MarkOk
  <2>3. Removed(t, MarkCapacity(u), E)
    BY <1>3, <1>9, <2>2 DEF Removed, SameCore
  <2> QED BY <2>1, <2>2, <2>3
<1> QED BY <1>10, <1>11

\* May the block leave the host?
Evictable(t, c) == Unused(t, c) /\ c \in t.host \ t.dev /\ c \notin Moving(t)

\* What can be evicted from the host, block by block.
LEMMA HostFreeableIs ==
  ASSUME NEW t
  PROVE  \A b : b \in HostFreeable(t) <=>
                  b \in t.blocks /\ \A c \in Subtree(t.blocks, b) : Evictable(t, c)
  BY DEF HostFreeable, Evictable

\* evict_host_until_freeable takes leaves that are on the host only.
LEMMA EvictOk ==
  ASSUME NEW t, TreeOk(t), NEW n, NEW E \in Leaves(HostFreeable(t), n)
  PROVE  /\ TreeOk(RemoveBlocks(t, E)) /\ Removed(t, RemoveBlocks(t, E), E)
         /\ E \subseteq t.host /\ E \cap t.dev = {} /\ E \cap InD2H(t) = {}
<1> DEFINE S == HostFreeable(t)
<1>1. t \in TreeType /\ CoreOk(t)
  BY TreeOkIs DEF CoreOk
<1>2. t.blocks \in SUBSET Blocks
  BY <1>1, TreeFields
<1>3. \A b : b \in S <=> b \in t.blocks /\ \A c \in Subtree(t.blocks, b) : Evictable(t, c)
  BY HostFreeableIs
<1>4. E \subseteq S /\ \A b \in E : Children(S, b) \subseteq E
  BY LeavesAre
<1> HIDE DEF S
<1>5. \A b \in S : Evictable(t, b)
  <2> TAKE b \in S
  <2>1. b \in t.blocks /\ b \in Subtree(t.blocks, b)
    BY <1>2, <1>3, SubtreeIs
  <2> QED BY <1>3, <2>1
<1>6. \A b \in E : Unused(t, b) /\ b \in t.blocks /\ b \in t.host /\ b \notin t.dev /\ b \notin Moving(t)
  BY <1>3, <1>4, <1>5 DEF Evictable
<1>7. Pruned(t.blocks, S, E)
  <2>1. ASSUME NEW b \in S, NEW c \in Subtree(t.blocks, b) PROVE c \in S
    <3>1. b \in t.blocks /\ b \in Blocks
      BY <1>2, <1>3
    <3>2. c \in t.blocks /\ Subtree(t.blocks, c) \subseteq Subtree(t.blocks, b)
      BY <1>2, <2>1, <3>1, SubtreeDown
    <3> QED BY <1>3, <2>1, <3>2
  <2> QED BY <1>3, <1>4, <2>1 DEF Pruned
<1>8. Rooted(t.blocks)
  BY <1>1 DEF CoreOk, Rooted
<1>9. Rooted(t.blocks \ E)
  BY <1>2, <1>7, <1>8, PrunedRooted
<1>10. Rooted(t.dev \ E) /\ Rooted(t.host \ E)
  <2>1. t.dev \subseteq t.blocks /\ t.host \subseteq t.blocks /\ Rooted(t.dev) /\ Rooted(t.host)
    BY <1>1 DEF CoreOk
  <2> QED BY <1>9, <2>1 DEF Rooted
<1>11. \A b \in InD2H(t) : Ancestors(b) \cap E = {}
  <2> SUFFICES ASSUME NEW b \in InD2H(t), NEW a \in Ancestors(b), a \in E PROVE FALSE
    OBVIOUS
  <2>1. b \in t.dev /\ b \in t.blocks /\ b \in Blocks
    BY <1>1, <1>2 DEF CoreOk, CopiesPlaced
  <2>2. a \in S /\ a \in Blocks
    BY <1>2, <1>3, <1>4
  <2>3. b \in Subtree(t.blocks, a)
    BY <1>2, <2>1, <2>2, SubtreeIs
  <2>4. Evictable(t, b)
    BY <1>3, <2>2, <2>3
  <2> QED BY <2>1, <2>4 DEF Evictable
<1>12. E \cap InD2H(t) = {}
  BY <1>6, MovingIs
<1> QED BY <1>6, <1>10, <1>11, <1>12, RemoveBlocksOk

-----------------------------------------------------------------------------
(* Write-through.                                                          *)

\* The blocks X have been submitted, the candidates Y have to wait.
Submitted(t, u, X, Y) ==
  /\ u.blocks = t.blocks /\ u.ref = t.ref /\ u.pinned = t.pinned /\ u.dev = t.dev
  /\ u.host = t.host /\ u.h2d = t.h2d /\ u.pending = Y
  /\ Hosted(u) = Hosted(t) \cup X /\ X \cap Hosted(t) = {}

\* A candidate.
LEMMA CandidateIs ==
  ASSUME NEW t, NEW S
  PROVE  \A b : b \in Candidates(t, S) <=>
                  /\ b \in t.pending \cup S /\ b \in t.dev /\ t.ref[b] = 0
                  /\ b \notin t.host /\ b \notin Moving(t)
  BY DEF Candidates

\* A candidate that goes with its ancestors.
LEMMA SelectedIs ==
  ASSUME NEW t, NEW S
  PROVE  \A b : b \in Selected(t, S) <=>
                  b \in Candidates(t, S) /\ Ancestors(b) \subseteq Hosted(t) \cup Candidates(t, S)
  BY DEF Selected, Hosted

\* submit_d2h keeps the order of the tree.
LEMMA SubmitOk ==
  ASSUME NEW t, TreeOk(t), NEW S \in SUBSET Blocks
  PROVE  /\ TreeOk(SubmitD2H(t, S))
         /\ Submitted(t, SubmitD2H(t, S), Selected(t, S), Candidates(t, S) \ Selected(t, S))
<1> DEFINE cand == Candidates(t, S)
           sel == Selected(t, S)
           Y == cand \ sel
           u == [t EXCEPT !.pending = Y]
           v == [u EXCEPT !.d2h = Append(@, sel)]
<1>1. t \in TreeType /\ CoreOk(t) /\ Fresh(t)
  BY TreeOkIs DEF CoreOk
<1>2. SubmitD2H(t, S) = IF sel = {} THEN u ELSE MarkCapacity(v)
  BY DEF SubmitD2H
<1>3. /\ \A b \in cand : b \in t.dev /\ b \notin t.host /\ b \notin Moving(t)
      /\ sel \subseteq cand
      /\ \A b \in sel : Ancestors(b) \subseteq Hosted(t) \cup cand
  BY CandidateIs, SelectedIs
<1>4. t.dev \subseteq Blocks /\ t.d2h \in Seq(SUBSET Blocks)
  BY <1>1, TreeFields
<1>5. \A b \in sel : Ancestors(b) \subseteq Hosted(t) \cup sel
  <2> SUFFICES ASSUME NEW b \in sel, NEW a \in Ancestors(b), a \in cand PROVE a \in sel
    BY <1>3
  <2>1. b \in Blocks
    BY <1>3, <1>4
  <2>2. Ancestors(a) \subseteq Ancestors(b)
    BY <2>1, AncestorFacts
  <2>3. Ancestors(a) \subseteq Hosted(t) \cup cand
    BY <1>3, <2>2
  <2> QED BY <2>3, SelectedIs
<1>6. sel \in SUBSET Blocks /\ Y \in SUBSET Blocks /\ sel \subseteq t.dev
  BY <1>3, <1>4
<1>7. sel \cap Hosted(t) = {} /\ sel \cap InH2D(t) = {}
  BY <1>3, MovingIs
<1> HIDE DEF cand, sel, Y
<1>8. /\ u \in TreeType /\ u.blocks = t.blocks /\ u.ref = t.ref /\ u.pinned = t.pinned
      /\ u.dev = t.dev /\ u.host = t.host /\ u.h2d = t.h2d /\ u.d2h = t.d2h
      /\ u.pending = Y /\ u.view = t.view
  BY <1>1, <1>6 DEF TreeType
<1>9. CASE sel = {}
  <2> HIDE DEF u
  <2>1. SubmitD2H(t, S) = u
    BY <1>2, <1>9
  <2>2. InD2H(u) = InD2H(t) /\ InH2D(u) = InH2D(t) /\ Hosted(u) = Hosted(t)
    BY <1>8 DEF InD2H, InH2D, Hosted
  <2>3. CopiesOrdered(u) /\ CopiesPlaced(u)
    BY <1>1, <1>8, <2>2 DEF CoreOk, CopiesOrdered, CopiesPlaced
  <2>4. CoreOk(u)
    BY <1>1, <1>8, <2>3 DEF CoreOk
  <2>5. \A c \in t.dev : Reclaimable(u, c) <=> Reclaimable(t, c)
    BY <1>8, ReclaimableOf
  <2>6. DeviceReclaimable(u) = DeviceReclaimable(t)
    BY <1>1, <1>8, <2>5, ViewOf
  <2>7. TreeOk(u)
    BY <1>1, <1>8, <2>4, <2>6, TreeOkIs DEF Fresh
  <2>8. Submitted(t, u, sel, Y)
    BY <1>8, <1>9, <2>2 DEF Submitted
  <2> QED BY <2>1, <2>7, <2>8 DEF sel, Y, cand
<1>10. CASE sel # {}
  <2>1. SubmitD2H(t, S) = MarkCapacity(v)
    BY <1>2, <1>10
  <2> DEFINE q == Append(t.d2h, sel)
  <2>2. /\ q \in Seq(SUBSET Blocks) /\ DOMAIN q = 1..(Len(t.d2h) + 1)
        /\ \A i \in 1..Len(t.d2h) : q[i] = t.d2h[i]
        /\ q[Len(t.d2h) + 1] = sel
    BY <1>4, <1>6, AppendProperties
  <2>3. Len(t.d2h) \in Nat /\ DOMAIN t.d2h = 1..Len(t.d2h)
    BY <1>4
  <2> HIDE DEF q
  <2>4. /\ v \in TreeType /\ v.blocks = t.blocks /\ v.ref = t.ref /\ v.pinned = t.pinned
        /\ v.dev = t.dev /\ v.host = t.host /\ v.h2d = t.h2d /\ v.d2h = q
        /\ v.pending = Y
    BY <1>1, <1>6, <2>2 DEF TreeType, q
  <2> HIDE DEF u, v
  <2>5. InD2H(v) = InD2H(t) \cup sel
    <3>1. \A b : b \in InD2H(t) <=> \E i \in 1..Len(t.d2h) : b \in t.d2h[i]
      BY <2>3, MovingIs
    <3>2. \A b : b \in InD2H(v) <=> \E i \in 1..(Len(t.d2h) + 1) : b \in q[i]
      BY <2>2, <2>4, MovingIs
    <3>3. \A i \in 1..Len(t.d2h) : i \in 1..(Len(t.d2h) + 1)
      BY <2>3
    <3>4. \A i \in 1..(Len(t.d2h) + 1) : i \in 1..Len(t.d2h) \/ i = Len(t.d2h) + 1
      BY <2>3
    <3>5. Len(t.d2h) + 1 \in 1..(Len(t.d2h) + 1)
      BY <2>3
    <3>6. ASSUME NEW b \in InD2H(v) PROVE b \in InD2H(t) \cup sel
      BY <2>2, <3>1, <3>2, <3>4
    <3>7. ASSUME NEW b \in InD2H(t) PROVE b \in InD2H(v)
      BY <2>2, <3>1, <3>2, <3>3
    <3>8. ASSUME NEW b \in sel PROVE b \in InD2H(v)
      BY <2>2, <3>2, <3>5
    <3> QED BY <3>6, <3>7, <3>8
  <2>6. InH2D(v) = InH2D(t) /\ Hosted(v) = Hosted(t) \cup sel
    BY <2>4, <2>5 DEF InH2D, Hosted
  <2>7. CopiesPlaced(v)
    BY <1>1, <1>6, <1>7, <2>4, <2>5, <2>6 DEF CoreOk, CopiesPlaced
  <2>8. CopiesOrdered(v)
    <3> SUFFICES ASSUME NEW i \in DOMAIN v.d2h, NEW b \in v.d2h[i], NEW a \in Ancestors(b)
                 PROVE  a \in v.host \cup UNION {v.d2h[j] : j \in 1..i}
      BY DEF CopiesOrdered
    <3>0. i \in 1..(Len(t.d2h) + 1) /\ v.d2h = q
      BY <2>2, <2>4
    <3>1. CASE i \in 1..Len(t.d2h)
      <4>1. a \in t.host \cup UNION {t.d2h[j] : j \in 1..i}
        BY <1>1, <2>2, <2>3, <3>0, <3>1 DEF CoreOk, CopiesOrdered
      <4>2. \A j \in 1..i : q[j] = t.d2h[j]
        <5> TAKE j \in 1..i
        <5>1. j \in 1..Len(t.d2h)
          BY <2>3, <3>1
        <5> QED BY <2>2, <5>1
      <4>3. CASE a \in t.host
        BY <2>4, <4>3
      <4>4. CASE a \notin t.host
        <5>1. PICK j \in 1..i : a \in t.d2h[j]
          BY <4>1, <4>4
        <5> QED BY <3>0, <4>2, <5>1
      <4> QED BY <4>3, <4>4
    <3>2. CASE i = Len(t.d2h) + 1
      <4>1. b \in sel
        BY <2>2, <3>0, <3>2
      <4>2. a \in Hosted(t) \cup sel
        BY <1>5, <4>1
      <4>3. a \in v.host \/ a \in InD2H(v)
        BY <2>4, <2>5, <4>2 DEF Hosted
      <4>4. CASE a \in InD2H(v)
        BY <2>2, <3>0, <3>2, <4>4, MovingIs
      <4> QED BY <4>3, <4>4
    <3>3. i \in 1..Len(t.d2h) \/ i = Len(t.d2h) + 1
      BY <2>3, <3>0
    <3> QED BY <3>1, <3>2, <3>3
  <2>9. CoreOk(v)
    BY <1>1, <2>4, <2>7, <2>8 DEF CoreOk
  <2>10. TreeOk(MarkCapacity(v)) /\ SameCore(v, MarkCapacity(v))
    BY <2>9, MarkOk
  <2>11. Submitted(t, MarkCapacity(v), sel, Y)
    <3>1. Hosted(MarkCapacity(v)) = Hosted(v)
      BY <2>10 DEF SameCore, Hosted, InD2H
    <3> QED BY <1>7, <2>4, <2>6, <2>10, <3>1 DEF Submitted, SameCore
  <2> QED BY <2>1, <2>10, <2>11 DEF sel, Y, cand
<1> QED BY <1>9, <1>10

\* Before a submission: whatever nobody uses and is not on the host has just
\* been released or is remembered.
ToSubmit(t, S) ==
  \A b \in t.dev \ Hosted(t) : t.ref[b] = 0 => b \in t.pending \cup S

\* After it: what had to wait has an ancestor in use.
LEMMA SubmitRemembers ==
  ASSUME NEW t, TreeOk(t), NEW S \in SUBSET Blocks, ToSubmit(t, S), NEW u,
         Submitted(t, u, Selected(t, S), Candidates(t, S) \ Selected(t, S))
  PROVE  Remembered(u)
<1>1. t \in TreeType /\ CoreOk(t)
  BY TreeOkIs DEF CoreOk
<1>2. /\ InH2D(t) \subseteq t.host /\ Rooted(t.dev) /\ t.dev \subseteq Blocks
      /\ \A b \in Blocks : t.ref[b] \in Nat
  BY <1>1, TreeFields DEF CoreOk, CopiesPlaced
<1>3. \A b \in t.dev \ Hosted(t) : t.ref[b] = 0 => b \in Candidates(t, S)
  <2> SUFFICES ASSUME NEW b \in t.dev \ Hosted(t), t.ref[b] = 0 PROVE b \in Candidates(t, S)
    OBVIOUS
  <2>1. b \in t.pending \cup S
    BY DEF ToSubmit
  <2>2. b \notin t.host /\ b \notin InD2H(t)
    BY DEF Hosted
  <2>3. b \notin Moving(t)
    BY <1>2, <2>2, MovingIs
  <2> QED BY <2>1, <2>2, <2>3, CandidateIs
<1> SUFFICES ASSUME NEW b \in u.dev \ Hosted(u), u.ref[b] = 0
             PROVE  b \in u.pending /\ \E a \in Ancestors(b) : u.ref[a] > 0 /\ a \notin Hosted(u)
  BY DEF Remembered
<1>4. /\ b \in t.dev /\ b \notin Hosted(t) /\ b \notin Selected(t, S) /\ t.ref[b] = 0
      /\ u.pending = Candidates(t, S) \ Selected(t, S) /\ u.ref = t.ref
      /\ Hosted(u) = Hosted(t) \cup Selected(t, S)
  BY DEF Submitted
<1>5. b \in Candidates(t, S)
  BY <1>3, <1>4
<1>6. PICK a \in Ancestors(b) : a \notin Hosted(t) /\ a \notin Candidates(t, S)
  BY <1>4, <1>5, SelectedIs
<1>7. a \in t.dev /\ a \in Blocks
  BY <1>2, <1>4 DEF Rooted
<1>8. t.ref[a] # 0
  BY <1>3, <1>6, <1>7
<1>9. t.ref[a] > 0
  BY <1>2, <1>7, <1>8
<1>10. a \notin Hosted(u)
  BY <1>4, <1>6, SelectedIs
<1> QED BY <1>4, <1>5, <1>9, <1>10

\* Evicting host-only blocks changes nothing for the submission.
LEMMA EvictSelects ==
  ASSUME NEW t, TreeOk(t), NEW S \in SUBSET Blocks, NEW E, E \cap t.dev = {},
         NEW u, Removed(t, u, E)
  PROVE  /\ Selected(u, S) = Selected(t, S)
         /\ Candidates(u, S) = Candidates(t, S)
         /\ ToSubmit(t, S) => ToSubmit(u, S)
<1>1. t \in TreeType /\ CoreOk(t) /\ Rooted(t.dev)
  BY TreeOkIs DEF CoreOk
<1>2. InD2H(u) = InD2H(t) /\ Moving(u) = Moving(t)
  BY DEF InD2H, InH2D, Moving, Removed
<1>3. /\ u.dev = t.dev /\ u.host = t.host \ E /\ u.pending = t.pending \ E /\ u.ref = t.ref
  BY DEF Removed
<1>4. \A b : b \in Candidates(u, S) <=> b \in Candidates(t, S)
  BY <1>2, <1>3, CandidateIs
<1>5. Candidates(u, S) = Candidates(t, S)
  BY <1>4
<1>6. \A b \in t.dev : b \in Hosted(u) <=> b \in Hosted(t)
  BY <1>2, <1>3 DEF Hosted
<1>7. ASSUME NEW b PROVE b \in Selected(u, S) <=> b \in Selected(t, S)
  <2>1. CASE b \in Candidates(t, S)
    <3>1. Ancestors(b) \subseteq t.dev
      BY <1>1, <2>1, CandidateIs DEF Rooted
    <3>2. Ancestors(b) \subseteq Hosted(u) \cup Candidates(u, S)
            <=> Ancestors(b) \subseteq Hosted(t) \cup Candidates(t, S)
      BY <1>5, <1>6, <3>1
    <3> QED BY <1>5, <3>2, SelectedIs
  <2>2. CASE b \notin Candidates(t, S)
    BY <1>5, <2>2, SelectedIs
  <2> QED BY <2>1, <2>2
<1>8. ASSUME ToSubmit(t, S) PROVE ToSubmit(u, S)
  BY <1>3, <1>6, <1>8 DEF ToSubmit
<1>9. Selected(u, S) = Selected(t, S)
  BY <1>7
<1> QED BY <1>5, <1>8, <1>9

\* Minimum and maximum of two numbers.
LEMMA TwoNumbers ==
  ASSUME NEW m \in Int, NEW n \in Int
  PROVE  /\ Min({m, n}) = (IF m <= n THEN m ELSE n)
         /\ Max({m, n}) = (IF m >= n THEN m ELSE n)
<1>1. ASSUME NEW x \in {m, n}, \A y \in {m, n} : x <= y PROVE Min({m, n}) = x
  <2>1. Min({m, n}) \in {m, n} /\ \A y \in {m, n} : Min({m, n}) <= y
    BY <1>1 DEF Min
  <2>2. x \in Int /\ Min({m, n}) \in Int /\ x <= Min({m, n}) /\ Min({m, n}) <= x
    BY <1>1, <2>1
  <2> QED BY <2>2
<1>2. ASSUME NEW x \in {m, n}, \A y \in {m, n} : x >= y PROVE Max({m, n}) = x
  <2>1. Max({m, n}) \in {m, n} /\ \A y \in {m, n} : Max({m, n}) >= y
    BY <1>2 DEF Max
  <2>2. x \in Int /\ Max({m, n}) \in Int /\ x >= Max({m, n}) /\ Max({m, n}) >= x
    BY <1>2, <2>1
  <2> QED BY <2>2
<1>3. CASE m <= n
  BY <1>1, <1>2, <1>3
<1>4. CASE ~(m <= n)
  BY <1>1, <1>2, <1>4
<1> QED BY <1>3, <1>4

\* Sets of blocks are finite.
LEMMA BlockSets ==
  ASSUME NEW S \in SUBSET Blocks
  PROVE  IsFiniteSet(S) /\ Cardinality(S) \in Nat
  BY BlocksFinite, FS_Subset, FS_CardinalityType

\* Taking a part away, and adding something new.
LEMMA BlockCounts ==
  ASSUME NEW S \in SUBSET Blocks, NEW T \in SUBSET Blocks
  PROVE  /\ T \subseteq S => Cardinality(S \ T) = Cardinality(S) - Cardinality(T)
         /\ S \cap T = {} => Cardinality(S \cup T) = Cardinality(S) + Cardinality(T)
         /\ Cardinality(S \cup T) <= Cardinality(S) + Cardinality(T)
         /\ S \subseteq T => Cardinality(S) <= Cardinality(T)
         /\ S \subseteq T /\ Cardinality(S) = Cardinality(T) => S = T
<1>1. IsFiniteSet(S) /\ IsFiniteSet(T) /\ Cardinality(S) \in Nat /\ Cardinality(T) \in Nat
  BY BlockSets
<1>2. ASSUME T \subseteq S PROVE Cardinality(S \ T) = Cardinality(S) - Cardinality(T)
  <2>1. Cardinality(S \ T) = Cardinality(S) - Cardinality(S \cap T)
    BY <1>1, FS_Difference
  <2>2. S \cap T = T
    BY <1>2
  <2> QED BY <2>1, <2>2
<1>3. Cardinality(S \cup T) = Cardinality(S) + Cardinality(T) - Cardinality(S \cap T)
  BY <1>1, FS_Union
<1>4. Cardinality(S \cap T) \in Nat
  BY BlockSets
<1>5. S \cap T = {} => Cardinality(S \cap T) = 0
  BY FS_EmptySet
<1>6. ASSUME S \subseteq T PROVE Cardinality(S) <= Cardinality(T)
  BY <1>1, <1>6, FS_Subset
<1>7. ASSUME S \subseteq T, Cardinality(S) = Cardinality(T) PROVE S = T
  BY <1>1, <1>7, FS_Subset
<1> QED BY <1>1, <1>2, <1>3, <1>4, <1>5, <1>6, <1>7

\* What a release leaves of the tree and of the host pool.
WrittenThrough(t, S, room, w) ==
  /\ TreeOk(w.tree)
  /\ w.tree.ref = t.ref /\ w.tree.dev = t.dev /\ w.tree.h2d = t.h2d
  /\ w.tree.blocks \subseteq t.blocks
  /\ \A b \in t.blocks \ w.tree.blocks : t.ref[b] = 0
  /\ w.room \in Nat
  /\ w.room + Cardinality(Hosted(w.tree)) = room + Cardinality(Hosted(t))
  /\ w.ok /\ ToSubmit(t, S) => Remembered(w.tree)
  /\ ~w.ok => room + Cardinality(HostFreeable(t)) < Cardinality(Selected(t, S))
  /\ w.tree.pinned = {} => t.pinned = {}

\* _schedule_write_through_prefix_blocks.
LEMMA WriteThroughOk ==
  ASSUME NEW t, TreeOk(t), NEW S \in SUBSET Blocks, NEW room \in Nat,
         NEW w \in WriteThrough(t, S, room)
  PROVE  WrittenThrough(t, S, room, w)
<1> DEFINE sel == Selected(t, S)
           need == Cardinality(sel)
<1>1. t \in TreeType /\ CoreOk(t)
  BY TreeOkIs DEF CoreOk
<1>2. /\ t.dev \subseteq Blocks /\ t.host \subseteq Blocks /\ t.blocks \subseteq Blocks
      /\ t.pinned \subseteq Blocks
  BY <1>1, TreeFields
<1>3. sel \in SUBSET Blocks /\ sel \subseteq t.dev
  BY <1>2, CandidateIs, SelectedIs
<1>4. need \in Nat
  BY <1>3, BlockSets
<1>m. PICK m : m = Max({0, need - room})
  OBVIOUS
<1>e. PICK E \in Leaves(HostFreeable(t), m) : w = AfterEviction(t, S, room, E)
  BY <1>m DEF WriteThrough
<1>l. Cardinality(E) = Min({m, Cardinality(HostFreeable(t))})
  BY LeavesAre
<1>5. /\ room + Cardinality(E) >= need =>
           /\ w.tree = SubmitD2H(RemoveBlocks(t, E), S)
           /\ w.room = (room + Cardinality(E)) - need /\ w.ok = TRUE
      /\ ~(room + Cardinality(E) >= need) =>
           /\ w.tree = [RemoveBlocks(t, E) EXCEPT !.pending = Candidates(t, S)]
           /\ w.room = room + Cardinality(E) /\ w.ok = FALSE
  <2> DEFINE c == room + Cardinality(E) >= need
             a == [tree |-> SubmitD2H(RemoveBlocks(t, E), S),
                   room |-> (room + Cardinality(E)) - need, ok |-> TRUE]
             b == [tree |-> [RemoveBlocks(t, E) EXCEPT !.pending = Candidates(t, S)],
                   room |-> room + Cardinality(E), ok |-> FALSE]
  <2>1. AfterEviction(t, S, room, E) = IF c THEN a ELSE b
    BY DEF AfterEviction
  <2>2. a.tree = SubmitD2H(RemoveBlocks(t, E), S) /\ a.room = (room + Cardinality(E)) - need /\ a.ok = TRUE
    OBVIOUS
  <2>3. /\ b.tree = [RemoveBlocks(t, E) EXCEPT !.pending = Candidates(t, S)]
        /\ b.room = room + Cardinality(E) /\ b.ok = FALSE
    OBVIOUS
  <2> HIDE DEF a, b
  <2> QED BY <1>e, <2>1, <2>2, <2>3
<1> DEFINE u == RemoveBlocks(t, E)
<1>6. /\ TreeOk(u) /\ Removed(t, u, E)
      /\ E \subseteq t.host /\ E \cap t.dev = {} /\ E \cap InD2H(t) = {}
  BY EvictOk
<1> HIDE DEF u
<1>7. E \in SUBSET Blocks /\ Cardinality(E) \in Nat
  BY <1>2, <1>6, BlockSets
<1>8. Hosted(t) \in SUBSET Blocks /\ E \subseteq Hosted(t) /\ Hosted(u) = Hosted(t) \ E
  <2>1. InD2H(t) \subseteq Blocks
    BY <1>1, <1>2 DEF CoreOk, CopiesPlaced
  <2>2. InD2H(u) = InD2H(t)
    BY <1>6 DEF InD2H, Removed
  <2>3. u.host = t.host \ E
    BY <1>6 DEF Removed
  <2> QED BY <1>2, <1>6, <2>1, <2>2, <2>3 DEF Hosted
<1>9. Cardinality(Hosted(u)) = Cardinality(Hosted(t)) - Cardinality(E)
      /\ Cardinality(Hosted(t)) \in Nat
  <2>1. Cardinality(Hosted(t) \ E) = Cardinality(Hosted(t)) - Cardinality(E)
    BY <1>7, <1>8, BlockCounts
  <2>2. Cardinality(Hosted(t)) \in Nat
    BY <1>8, BlockSets
  <2> QED BY <1>8, <2>1, <2>2
<1>10. Selected(u, S) = sel /\ Candidates(u, S) = Candidates(t, S)
       /\ (ToSubmit(t, S) => ToSubmit(u, S))
  BY <1>6, EvictSelects
<1>11. u.dev = t.dev /\ u.ref = t.ref /\ u.h2d = t.h2d /\ u.blocks = t.blocks \ E
       /\ (\A b \in E : t.ref[b] = 0) /\ (u.pinned = {} => t.pinned = {})
  <2>1. \A b \in E : b \notin t.pinned
    BY <1>6 DEF Removed
  <2>2. u.pinned = t.pinned \ E
    BY <1>6 DEF Removed
  <2>3. u.dev = t.dev
    BY <1>6 DEF Removed
  <2>4. u.ref = t.ref /\ u.h2d = t.h2d /\ u.blocks = t.blocks \ E /\ (\A b \in E : t.ref[b] = 0)
    BY <1>6 DEF Removed
  <2> QED BY <2>1, <2>2, <2>3, <2>4
<1>12. CASE room + Cardinality(E) >= need
  <2> DEFINE v == SubmitD2H(u, S)
  <2>1. w.tree = v /\ w.room = (room + Cardinality(E)) - need /\ w.ok = TRUE
    BY <1>5, <1>12 DEF u
  <2>2. TreeOk(v) /\ Submitted(u, v, Selected(u, S), Candidates(u, S) \ Selected(u, S))
    BY <1>6, SubmitOk
  <2> HIDE DEF v
  <2>3. /\ v.ref = u.ref /\ v.dev = u.dev /\ v.h2d = u.h2d /\ v.blocks = u.blocks
        /\ v.pinned = u.pinned /\ Hosted(v) = Hosted(u) \cup sel /\ sel \cap Hosted(u) = {}
    BY <1>10, <2>2 DEF Submitted
  <2>4. Hosted(u) \in SUBSET Blocks
    BY <1>8
  <2>5. Cardinality(Hosted(v)) = Cardinality(Hosted(u)) + need
    <3> HIDE DEF sel
    <3>0. Hosted(u) \cap sel = {}
      BY <2>3
    <3>1. Cardinality(Hosted(u) \cup sel) = Cardinality(Hosted(u)) + Cardinality(sel)
      BY <1>3, <2>4, <3>0, BlockCounts
    <3> QED BY <2>3, <3>1
  <2>6. w.room \in Nat /\ w.room + Cardinality(Hosted(v)) = room + Cardinality(Hosted(t))
    <3> HIDE DEF need
    <3> QED BY <1>4, <1>7, <1>9, <1>12, <2>1, <2>5
  <2>7. ToSubmit(t, S) => Remembered(v)
    BY <1>6, <1>10, <2>2, SubmitRemembers
  <2> QED BY <1>11, <2>1, <2>2, <2>3, <2>6, <2>7 DEF WrittenThrough
<1>13. CASE ~(room + Cardinality(E) >= need)
  <2> DEFINE v == [u EXCEPT !.pending = Candidates(t, S)]
  <2>1. w.tree = v /\ w.room = room + Cardinality(E) /\ w.ok = FALSE
    BY <1>5, <1>13 DEF u
  <2>2. u \in TreeType /\ CoreOk(u) /\ Fresh(u)
    BY <1>6, TreeOkIs DEF CoreOk
  <2>3. Candidates(t, S) \subseteq Blocks
    BY <1>2, CandidateIs
  <2>4. /\ v \in TreeType /\ v.blocks = u.blocks /\ v.ref = u.ref /\ v.pinned = u.pinned
        /\ v.dev = u.dev /\ v.host = u.host /\ v.h2d = u.h2d /\ v.d2h = u.d2h
        /\ v.view = u.view
    BY <2>2, <2>3 DEF TreeType
  <2> HIDE DEF v
  <2>5. InD2H(v) = InD2H(u) /\ InH2D(v) = InH2D(u) /\ Hosted(v) = Hosted(u)
    BY <2>4 DEF InD2H, InH2D, Hosted
  <2>6. CopiesOrdered(v) /\ CopiesPlaced(v)
    BY <2>2, <2>4, <2>5 DEF CoreOk, CopiesOrdered, CopiesPlaced
  <2>7. CoreOk(v)
    BY <2>2, <2>4, <2>6 DEF CoreOk
  <2>8. \A c \in u.dev : Reclaimable(v, c) <=> Reclaimable(u, c)
    BY <2>4, ReclaimableOf
  <2>9. DeviceReclaimable(v) = DeviceReclaimable(u)
    BY <2>2, <2>4, <2>8, ViewOf
  <2>10. TreeOk(v)
    BY <2>2, <2>4, <2>7, <2>9, TreeOkIs DEF Fresh
  <2>11. w.room \in Nat /\ w.room + Cardinality(Hosted(v)) = room + Cardinality(Hosted(t))
    BY <1>7, <1>9, <2>1, <2>5
  <2>12. room + Cardinality(HostFreeable(t)) < need
    <3> DEFINE h == Cardinality(HostFreeable(t))
    <3>1. Cardinality(E) = Min({m, h})
      BY <1>l
    <3>2. h \in Nat
      <4>1. HostFreeable(t) \in SUBSET Blocks
        BY <1>2, HostFreeableIs
      <4> QED BY <4>1, BlockSets
    <3> HIDE DEF need, h
    <3>3. m = (IF 0 >= need - room THEN 0 ELSE need - room)
      <4>1. 0 \in Int /\ need - room \in Int
        BY <1>4
      <4> QED BY <1>m, <4>1, TwoNumbers
    <3>4. m \in Int
      BY <1>4, <3>3
    <3>5. Cardinality(E) = IF m <= h THEN m ELSE h
      BY <3>1, <3>2, <3>4, TwoNumbers
    <3>6. room + h < need
      BY <1>4, <1>7, <1>13, <3>2, <3>3, <3>4, <3>5
    <3> QED BY <3>6 DEF h
  <2> QED BY <1>11, <2>1, <2>4, <2>10, <2>11, <2>12 DEF WrittenThrough
<1> QED BY <1>12, <1>13

-----------------------------------------------------------------------------
(* Promotion, pins.                                                        *)

\* The blocks X are on the device, and being copied to it.
Promoted(t, u, X) ==
  /\ u.blocks = t.blocks /\ u.ref = t.ref /\ u.pinned = t.pinned /\ u.dev = t.dev \cup X
  /\ u.host = t.host /\ u.d2h = t.d2h /\ u.pending = t.pending
  /\ InH2D(u) = InH2D(t) \cup X

\* The index once X has pages and is being copied to the device.
PromoteTree(t, X) ==
  IF X = {} THEN t ELSE MarkCapacity([t EXCEPT !.dev = @ \cup X, !.h2d = @ \cup {X}])

\* The host-only part of a hit goes to the device; nothing off the hit becomes
\* less reclaimable.
LEMMA PromoteOk ==
  ASSUME NEW t, TreeOk(t), NEW C, Rooted(C), C \subseteq t.blocks, NEW X, X = C \ t.dev
  PROVE  /\ TreeOk(PromoteTree(t, X)) /\ Promoted(t, PromoteTree(t, X), X)
         /\ t.view \ C \subseteq PromoteTree(t, X).view
<1> DEFINE u == [t EXCEPT !.dev = @ \cup X, !.h2d = @ \cup {X}]
<1>1. t \in TreeType /\ CoreOk(t) /\ Fresh(t)
  BY TreeOkIs DEF CoreOk
<1>2. X \subseteq t.host /\ X \cap t.dev = {} /\ X \in SUBSET Blocks
  BY <1>1, TreeFields DEF CoreOk
<1>3. /\ u \in TreeType /\ u.blocks = t.blocks /\ u.ref = t.ref /\ u.pinned = t.pinned
      /\ u.dev = t.dev \cup X /\ u.host = t.host /\ u.d2h = t.d2h /\ u.pending = t.pending
      /\ u.h2d = t.h2d \cup {X} /\ u.view = t.view
  BY <1>1, <1>2 DEF TreeType
<1>4. PromoteTree(t, X) = IF X = {} THEN t ELSE MarkCapacity(u)
  BY DEF PromoteTree
<1> HIDE DEF u
<1>5. InD2H(u) = InD2H(t) /\ InH2D(u) = InH2D(t) \cup X
  BY <1>3 DEF InD2H, InH2D
<1>6. CopiesPlaced(u)
  BY <1>1, <1>2, <1>3, <1>5 DEF CoreOk, CopiesPlaced
<1>7. CopiesOrdered(u)
  BY <1>1, <1>3 DEF CoreOk, CopiesOrdered
<1>8. Rooted(u.dev)
  BY <1>1, <1>3 DEF CoreOk, Rooted
<1>9. u.blocks = u.dev \cup u.host
  BY <1>1, <1>2, <1>3 DEF CoreOk
<1>10. CoreOk(u)
  BY <1>1, <1>3, <1>6, <1>7, <1>8, <1>9 DEF CoreOk
<1>11. t.view \ C \subseteq DeviceReclaimable(u)
  <2> SUFFICES ASSUME NEW b \in t.view, b \notin C PROVE b \in DeviceReclaimable(u)
    OBVIOUS
  <2>1. b \in t.dev /\ \A c \in t.dev : (c = b \/ b \in Ancestors(c)) => Reclaimable(t, c)
    BY <1>1, ViewIs DEF Fresh
  <2>2. ASSUME NEW c \in u.dev, c = b \/ b \in Ancestors(c) PROVE Reclaimable(u, c)
    <3>1. c \notin C
      BY <2>2 DEF Rooted
    <3>2. c \in t.dev /\ c \notin X
      BY <1>3, <3>1
    <3>3. Reclaimable(t, c)
      BY <2>1, <2>2, <3>2
    <3>4. c \in Moving(u) <=> c \in Moving(t)
      BY <1>5, <3>2, MovingIs
    <3> QED BY <1>3, <1>5, <3>3, <3>4 DEF Reclaimable, Unused
  <2>3. b \in u.dev
    BY <1>3, <2>1
  <2> QED BY <1>3, <2>2, <2>3, ViewIs
<1>12. CASE X = {}
  <2>1. PromoteTree(t, X) = t
    BY <1>4, <1>12
  <2> QED BY <1>12, <2>1 DEF Promoted
<1>13. CASE X # {}
  <2>1. PromoteTree(t, X) = MarkCapacity(u)
    BY <1>4, <1>13
  <2>2. TreeOk(MarkCapacity(u)) /\ SameCore(u, MarkCapacity(u)) /\ MarkCapacity(u).view = DeviceReclaimable(u)
    BY <1>10, MarkOk
  <2>3. Promoted(t, MarkCapacity(u), X)
    <3>1. InH2D(MarkCapacity(u)) = InH2D(u)
      BY <2>2 DEF SameCore, InH2D
    <3> QED BY <1>3, <1>5, <2>2, <3>1 DEF Promoted, SameCore
  <2> QED BY <1>11, <2>1, <2>2, <2>3
<1> QED BY <1>12, <1>13

\* A change of pins.
LEMMA PinsOk ==
  ASSUME NEW t, TreeOk(t), NEW P \in SUBSET Blocks, NEW u, u = MarkCapacity([t EXCEPT !.pinned = P])
  PROVE  /\ TreeOk(u)
         /\ u.blocks = t.blocks /\ u.ref = t.ref /\ u.dev = t.dev /\ u.host = t.host
         /\ u.d2h = t.d2h /\ u.h2d = t.h2d /\ u.pending = t.pending
<1> DEFINE v == [t EXCEPT !.pinned = P]
<1>1. t \in TreeType /\ CoreOk(t)
  BY TreeOkIs DEF CoreOk
<1>2. /\ v \in TreeType /\ v.blocks = t.blocks /\ v.ref = t.ref /\ v.dev = t.dev
      /\ v.host = t.host /\ v.d2h = t.d2h /\ v.h2d = t.h2d /\ v.pending = t.pending
  BY <1>1 DEF TreeType
<1>3. u = MarkCapacity(v)
  OBVIOUS
<1> HIDE DEF v
<1>4. InD2H(v) = InD2H(t) /\ InH2D(v) = InH2D(t)
  BY <1>2 DEF InD2H, InH2D
<1>5. CopiesOrdered(v) /\ CopiesPlaced(v)
  BY <1>1, <1>2, <1>4 DEF CoreOk, CopiesOrdered, CopiesPlaced
<1>6. CoreOk(v)
  BY <1>1, <1>2, <1>5 DEF CoreOk
<1>7. TreeOk(u) /\ SameCore(v, u)
  BY <1>3, <1>6, MarkOk
<1> QED BY <1>2, <1>7 DEF SameCore

-----------------------------------------------------------------------------
(* References, pages and capacity, as numbers.                             *)

\* The requests that hold a block.
Holders(h, b) == {q \in Reqs : b \in h[q]}

\* The reference counts f are right for the holdings h and the protection p.
RefsOf(h, p, f) ==
  \A b \in Blocks :
    f[b] = Cardinality(Holders(h, b)) + (IF b \in p THEN 1 ELSE 0)

\* Every page is free, private or owned by a block on the device.
PagesOf(n, g, D) == n + Cardinality(Cells(Reqs, g)) + Cardinality(D) = NumPages

\* Every block of the host pool is free or filled.
HostPagesOf(n, t) == n + Cardinality(Hosted(t)) = HostBlocks

\* What the requests hold, their private pages and what their prompts still
\* need, as functions.
Held == [r \in Reqs |-> HeldBlocks(r)]
Private == [r \in Reqs |-> PrivatePages(r)]
Outstandings == [r \in Reqs |-> Outstanding(r)]

\* RefsExact and TiersConserved in these terms.
LEMMA Restated ==
  /\ RefsExact <=> RefsOf(Held, protected, tree.ref)
  /\ TiersConserved <=> PagesOf(free, Private, tree.dev) /\ HostPagesOf(hostFree, tree)
  /\ Reserved = Cardinality(Cells(Reqs, Outstandings))
<1>1. {{s} \X (1..Private[s]) : s \in Reqs} = {{s} \X (1..PrivatePages(s)) : s \in Reqs}
  BY DEF Private
<1>2. {{s} \X (1..Outstandings[s]) : s \in Reqs} = {{s} \X (1..Outstanding(s)) : s \in Reqs}
  BY DEF Outstandings
<1>3. \A b : {r \in Reqs : b \in Held[r]} = {r \in Reqs : b \in HeldBlocks(r)}
  BY DEF Held
<1>4. RefsExact <=> RefsOf(Held, protected, tree.ref)
  BY <1>3 DEF RefsExact, RefsOf, Holders
<1>5. TiersConserved <=> PagesOf(free, Private, tree.dev) /\ HostPagesOf(hostFree, tree)
  BY <1>1 DEF TiersConserved, PagesOf, HostPagesOf, Hosted, SumOver, Cells
<1>6. Reserved = Cardinality(Cells(Reqs, Outstandings))
  BY <1>2 DEF Reserved, SumOver, Cells
<1> QED BY <1>4, <1>5, <1>6

\* The same after a step.
LEMMA RestatedNext ==
  /\ RefsExact' <=> RefsOf(Held', protected', tree'.ref)
  /\ TiersConserved' <=> PagesOf(free', Private', tree'.dev) /\ HostPagesOf(hostFree', tree')
<1>1. {{s} \X (1..(Private')[s]) : s \in Reqs} = {{s} \X (1..PrivatePages(s)') : s \in Reqs}
  BY DEF Private
<1>3. \A b : {r \in Reqs : b \in (Held')[r]} = {r \in Reqs : b \in HeldBlocks(r)'}
  BY DEF Held
<1>4. RefsExact' <=> RefsOf(Held', protected', tree'.ref)
  BY <1>3 DEF RefsExact, RefsOf, Holders
<1>5. TiersConserved' <=> PagesOf(free', Private', tree'.dev) /\ HostPagesOf(hostFree', tree')
  BY <1>1 DEF TiersConserved, PagesOf, HostPagesOf, Hosted, SumOver, Cells
<1> QED BY <1>4, <1>5

\* Only the request r changes.
SameBut(h, k, r) == \A q \in Reqs \ {r} : k[q] = h[q]

\* The counts of X change by d.
Counted(f, g, X, d) == \A b \in Blocks : g[b] = IF b \in X THEN f[b] + d ELSE f[b]

\* One request more, or less, among finitely many.
LEMMA OneHolder ==
  ASSUME NEW h, NEW k, NEW r \in Reqs, SameBut(h, k, r), NEW b
  PROVE  /\ Cardinality(Holders(h, b)) \in Nat
         /\ b \notin h[r] /\ b \in k[r] =>
              Cardinality(Holders(k, b)) = Cardinality(Holders(h, b)) + 1
         /\ (b \in h[r] <=> b \in k[r]) =>
              Cardinality(Holders(k, b)) = Cardinality(Holders(h, b))
<1> DEFINE A == {q \in Reqs : b \in h[q]}
           B == {q \in Reqs : b \in k[q]}
<1>a. A = Holders(h, b) /\ B = Holders(k, b)
  BY DEF Holders
<1>0. IsFiniteSet(Reqs)
  BY StreamAssumption
<1>1. IsFiniteSet(A) /\ Cardinality(A) \in Nat
  BY <1>0, FS_Subset, FS_CardinalityType
<1>2. ASSUME b \notin h[r], b \in k[r] PROVE Cardinality(B) = Cardinality(A) + 1
  <2>1. B = A \cup {r} /\ r \notin A
    BY <1>2 DEF SameBut
  <2> HIDE DEF A, B
  <2> QED BY <1>1, <2>1, FS_AddElement
<1>3. ASSUME b \in h[r] <=> b \in k[r] PROVE A = B
  BY <1>3 DEF SameBut
<1> HIDE DEF A, B
<1> QED BY <1>a, <1>1, <1>2, <1>3

\* A block has finitely many holders.
LEMMA HoldersFinite ==
  ASSUME NEW h, NEW b
  PROVE  Cardinality(Holders(h, b)) \in Nat
<1>1. IsFiniteSet(Reqs) /\ Holders(h, b) \subseteq Reqs
  BY StreamAssumption DEF Holders
<1> QED BY <1>1, FS_Subset, FS_CardinalityType

\* Disjoint sets of blocks.
LEMMA UnionCount ==
  ASSUME NEW S \in SUBSET Blocks, NEW T \in SUBSET Blocks, S \cap T = {}
  PROVE  Cardinality(S \cup T) = Cardinality(S) + Cardinality(T)
BY BlockCounts

\* A request takes the blocks X up.
LEMMA RefsAdd ==
  ASSUME NEW h, NEW k, NEW r \in Reqs, SameBut(h, k, r),
         NEW X, X \cap h[r] = {}, k[r] = h[r] \cup X, NEW p, NEW f, NEW g, RefsOf(h, p, f),
         Counted(f, g, X, 1)
  PROVE  RefsOf(k, p, g)
<1> SUFFICES ASSUME NEW b \in Blocks
             PROVE  g[b] = Cardinality(Holders(k, b)) + (IF b \in p THEN 1 ELSE 0)
  BY DEF RefsOf
<1>c. g[b] = IF b \in X THEN f[b] + 1 ELSE f[b]
  BY DEF Counted
<1>1. PICK m : m = Cardinality(Holders(h, b))
  OBVIOUS
<1>2. PICK n : n = Cardinality(Holders(k, b))
  OBVIOUS
<1>3. f[b] = m + (IF b \in p THEN 1 ELSE 0)
  BY <1>1 DEF RefsOf
<1>4. Cardinality(Holders(h, b)) \in Nat
  BY HoldersFinite
<1>5. ASSUME b \notin h[r], b \in k[r]
      PROVE  Cardinality(Holders(k, b)) = Cardinality(Holders(h, b)) + 1
  BY <1>5, OneHolder
<1>6. (b \in h[r] <=> b \in k[r]) => Cardinality(Holders(k, b)) = Cardinality(Holders(h, b))
  BY OneHolder
<1>7. g[b] = n + (IF b \in p THEN 1 ELSE 0)
  <2>1. CASE b \in X
    <3>1. n = m + 1 /\ g[b] = f[b] + 1
      BY <1>c, <1>1, <1>2, <1>5, <2>1
    <3> QED BY <1>1, <1>3, <1>4, <3>1
  <2>2. CASE b \notin X
    <3>1. n = m /\ g[b] = f[b]
      BY <1>c, <1>1, <1>2, <1>6, <2>2
    <3> QED BY <1>3, <3>1
  <2> QED BY <2>1, <2>2
<1> QED BY <1>2, <1>7

\* A request lets all its blocks go.
LEMMA RefsDrop ==
  ASSUME NEW h, NEW k, NEW r \in Reqs, SameBut(h, k, r),
         k[r] = {}, NEW p, NEW f, NEW g, RefsOf(h, p, f),
         Counted(f, g, h[r], -1)
  PROVE  RefsOf(k, p, g)
<1> SUFFICES ASSUME NEW b \in Blocks
             PROVE  g[b] = Cardinality(Holders(k, b)) + (IF b \in p THEN 1 ELSE 0)
  BY DEF RefsOf
<1>c. g[b] = IF b \in h[r] THEN f[b] + (-1) ELSE f[b]
  BY DEF Counted
<1>1. PICK m : m = Cardinality(Holders(h, b))
  OBVIOUS
<1>2. PICK n : n = Cardinality(Holders(k, b))
  OBVIOUS
<1>3. f[b] = m + (IF b \in p THEN 1 ELSE 0)
  BY <1>1 DEF RefsOf
<1>0. SameBut(k, h, r)
  BY DEF SameBut
<1>4. Cardinality(Holders(k, b)) \in Nat
  BY HoldersFinite
<1>5. ASSUME b \notin k[r], b \in h[r]
      PROVE  Cardinality(Holders(h, b)) = Cardinality(Holders(k, b)) + 1
  BY <1>0, <1>5, OneHolder
<1>6. (b \in k[r] <=> b \in h[r]) => Cardinality(Holders(h, b)) = Cardinality(Holders(k, b))
  BY <1>0, OneHolder
<1>7. g[b] = n + (IF b \in p THEN 1 ELSE 0)
  <2>1. CASE b \in h[r]
    <3>1. m = n + 1 /\ g[b] = f[b] + (-1)
      BY <1>c, <1>1, <1>2, <1>5, <2>1
    <3> QED BY <1>2, <1>3, <1>4, <3>1
  <2>2. CASE b \notin h[r]
    <3>1. n = m /\ g[b] = f[b]
      BY <1>c, <1>1, <1>2, <1>6, <2>2
    <3> QED BY <1>3, <3>1
  <2> QED BY <2>1, <2>2
<1> QED BY <1>2, <1>7

\* A protection begins or ends.
LEMMA RefsProtect ==
  ASSUME NEW h, NEW p, NEW f, NEW g
  PROVE  /\ RefsOf(h, {}, f) /\ Counted(f, g, p, 1)
              => RefsOf(h, p, g)
         /\ RefsOf(h, p, f) /\ Counted(f, g, p, -1)
              => RefsOf(h, {}, g)
<1>1. ASSUME NEW b \in Blocks PROVE Cardinality(Holders(h, b)) \in Nat
  BY HoldersFinite
<1>2. ASSUME RefsOf(h, {}, f), Counted(f, g, p, 1)
      PROVE  RefsOf(h, p, g)
  <2> SUFFICES ASSUME NEW b \in Blocks
               PROVE  g[b] = Cardinality(Holders(h, b)) + (IF b \in p THEN 1 ELSE 0)
    BY DEF RefsOf
  <2>1. PICK m : m = Cardinality(Holders(h, b))
    OBVIOUS
  <2>2. m \in Nat
    BY <1>1, <2>1
  <2>3. f[b] = m + (IF b \in {} THEN 1 ELSE 0)
    BY <1>2, <2>1 DEF RefsOf
  <2>4. g[b] = m + (IF b \in p THEN 1 ELSE 0)
    BY <1>2, <2>2, <2>3 DEF Counted
  <2> QED BY <2>1, <2>4
<1>3. ASSUME RefsOf(h, p, f), Counted(f, g, p, -1)
      PROVE  RefsOf(h, {}, g)
  <2> SUFFICES ASSUME NEW b \in Blocks
               PROVE  g[b] = Cardinality(Holders(h, b)) + (IF b \in {} THEN 1 ELSE 0)
    BY DEF RefsOf
  <2>1. PICK m : m = Cardinality(Holders(h, b))
    OBVIOUS
  <2>2. m \in Nat
    BY <1>1, <2>1
  <2>3. f[b] = m + (IF b \in p THEN 1 ELSE 0)
    BY <1>3, <2>1 DEF RefsOf
  <2>4. g[b] = m + (IF b \in {} THEN 1 ELSE 0)
    BY <1>3, <2>2, <2>3 DEF Counted
  <2> QED BY <2>1, <2>4
<1> QED BY <1>2, <1>3

\* A count of zero means that nobody holds the block.
LEMMA RefsZero ==
  ASSUME NEW h, NEW p, NEW f, RefsOf(h, p, f), NEW b \in Blocks
  PROVE  /\ f[b] \in Nat
         /\ f[b] = 0 <=> b \notin p /\ \A r \in Reqs : b \notin h[r]
<1> DEFINE A == {q \in Reqs : b \in h[q]}
<1>1. f[b] = Cardinality(A) + (IF b \in p THEN 1 ELSE 0)
  BY DEF RefsOf, Holders
<1>2. IsFiniteSet(A) /\ Cardinality(A) \in Nat
  BY StreamAssumption, FS_Subset, FS_CardinalityType
<1>3. Cardinality(A) = 0 <=> A = {}
  BY <1>2, FS_EmptySet
<1>4. A = {} <=> \A r \in Reqs : b \notin h[r]
  OBVIOUS
<1> HIDE DEF A
<1> QED BY <1>1, <1>2, <1>3, <1>4

\* A larger summand makes a sum no smaller.
LEMMA CellsMonotone ==
  ASSUME NEW S, IsFiniteSet(S), NEW f, NEW g, \A s \in S : f[s] \in Int /\ g[s] \in Int /\ f[s] <= g[s]
  PROVE  Cardinality(Cells(S, f)) <= Cardinality(Cells(S, g))
<1>1. IsFiniteSet(Cells(S, g))
  BY CellsFinite
<1>2. \A s \in S : 1..f[s] \subseteq 1..g[s]
  OBVIOUS
<1>3. Cells(S, f) \subseteq Cells(S, g)
  BY <1>2 DEF Cells
<1> QED BY <1>1, <1>3, FS_Subset

\* The pages of one row change hands.
LEMMA PagesMove ==
  ASSUME NEW r \in Reqs, NEW g, NEW k, \A q \in Reqs : g[q] \in Nat /\ k[q] \in Nat,
         \A q \in Reqs \ {r} : k[q] = g[q]
  PROVE  /\ Cardinality(Cells(Reqs, g)) \in Nat
         /\ Cardinality(Cells(Reqs, k)) = Cardinality(Cells(Reqs, g)) + (k[r] - g[r])
         /\ g[r] <= Cardinality(Cells(Reqs, g))
<1>1. IsFiniteSet(Reqs) /\ \A q \in Reqs : g[q] \in Int /\ k[q] \in Int
  BY StreamAssumption
<1>2. Cardinality(Cells(Reqs, k)) = Cardinality(Cells(Reqs, g)) + k[r] - g[r]
  BY <1>1, OneSummand
<1>3. Cardinality(Cells(Reqs, g)) \in Nat
  BY <1>1, CellsFinite
<1>4. Cardinality(Cells(Reqs, g)) = Cardinality(Cells(Reqs \ {r}, g)) + g[r]
  BY <1>1, CellsSplit
<1>5. IsFiniteSet(Reqs \ {r})
  BY <1>1, FS_Subset
<1>6. Cardinality(Cells(Reqs \ {r}, g)) \in Nat
  BY <1>1, <1>5, CellsFinite
<1>7. k[r] \in Nat /\ g[r] \in Nat
  OBVIOUS
<1> QED BY <1>2, <1>3, <1>4, <1>6, <1>7

\* Copies that complete do not take capacity away.
LEMMA AffordsAdvanced ==
  ASSUME NEW t, TreeOk(t), NEW u, TreeOk(u), Advanced(t, u), NEW f \in Nat, NEW H \in SUBSET Blocks,
         NEW n \in Nat, Affords(t, f, H, n)
  PROVE  Affords(u, f, H, n)
<1>1. t.view \subseteq Blocks /\ u.view \subseteq Blocks
  BY TreeFields DEF TreeOk
<1>2. u.dev = t.dev /\ t.view \subseteq u.view
  BY DEF Advanced
<1>3. t.view \ H \in SUBSET Blocks /\ u.view \ H \in SUBSET Blocks /\ t.view \ H \subseteq u.view \ H
  BY <1>1, <1>2
<1>4. Cardinality(t.view \ H) <= Cardinality(u.view \ H)
  BY <1>3, BlockCounts
<1>5. Cardinality(t.view \ H) \in Nat /\ Cardinality(u.view \ H) \in Nat
  BY <1>3, BlockSets
<1>6. Cardinality(H \ t.dev) \in Nat
  BY BlockSets
<1> QED BY <1>2, <1>4, <1>5, <1>6 DEF Affords

\* A demotion turns reclaimable pages into free ones.
LEMMA AffordsDemoted ==
  ASSUME NEW t, TreeOk(t), NEW u, NEW D, Demoted(t, u, D), NEW f \in Nat, NEW H \in SUBSET Blocks,
         NEW n \in Nat, Affords(t, f, H, n)
  PROVE  Affords(u, f + Cardinality(D), H, n)
<1>1. t.view \in SUBSET Blocks /\ t.dev \in SUBSET Blocks
  BY TreeFields DEF TreeOk
<1>2. u.dev = t.dev \ D /\ u.view = t.view \ D /\ D \subseteq t.view /\ D \subseteq t.dev
  BY DEF Demoted
<1>d. D \in SUBSET Blocks
  BY <1>1, <1>2
<1>3. H \ u.dev = (H \ t.dev) \cup (H \cap D) /\ (H \ t.dev) \cap (H \cap D) = {}
  BY <1>2
<1>4. Cardinality(H \ u.dev) = Cardinality(H \ t.dev) + Cardinality(H \cap D)
  <2>1. H \ t.dev \in SUBSET Blocks /\ H \cap D \in SUBSET Blocks
    OBVIOUS
  <2>2. Cardinality((H \ t.dev) \cup (H \cap D)) = Cardinality(H \ t.dev) + Cardinality(H \cap D)
    BY <1>3, <2>1, BlockCounts
  <2> QED BY <1>3, <2>2
<1>5. u.view \ H = (t.view \ H) \ (D \ H) /\ D \ H \subseteq t.view \ H
  BY <1>2
<1>6. Cardinality(u.view \ H) = Cardinality(t.view \ H) - Cardinality(D \ H)
  <2>1. t.view \ H \in SUBSET Blocks /\ D \ H \in SUBSET Blocks
    BY <1>1, <1>d
  <2>2. Cardinality((t.view \ H) \ (D \ H)) = Cardinality(t.view \ H) - Cardinality(D \ H)
    BY <1>5, <2>1, BlockCounts
  <2> QED BY <1>5, <2>2
<1>7. Cardinality(D) = Cardinality(D \ H) + Cardinality(H \cap D)
  <2>1. D \ H \in SUBSET Blocks /\ H \cap D \in SUBSET Blocks /\ (D \ H) \cap (H \cap D) = {}
    BY <1>d
  <2>2. Cardinality((D \ H) \cup (H \cap D)) = Cardinality(D \ H) + Cardinality(H \cap D)
    BY <2>1, BlockCounts
  <2>3. D = (D \ H) \cup (H \cap D)
    OBVIOUS
  <2> QED BY <2>2, <2>3
<1>8. /\ Cardinality(H \ t.dev) \in Nat /\ Cardinality(H \cap D) \in Nat
      /\ Cardinality(t.view \ H) \in Nat /\ Cardinality(D \ H) \in Nat
  <2>1. H \ t.dev \in SUBSET Blocks /\ H \cap D \in SUBSET Blocks
        /\ t.view \ H \in SUBSET Blocks /\ D \ H \in SUBSET Blocks
    BY <1>1, <1>d
  <2> QED BY <2>1, BlockSets
<1> QED BY <1>4, <1>6, <1>7, <1>8 DEF Affords

\* Attaching a hit changes nothing outside the hits.
LEMMA AffordsAttached ==
  ASSUME NEW t, TreeOk(t), NEW u, TreeOk(u), NEW C, Rooted(C), RefsChanged(t, u, C, 1),
         NEW f \in Nat, NEW H \in SUBSET Blocks, C \subseteq H, NEW n \in Nat, Affords(t, f, H, n)
  PROVE  Affords(u, f, H, n)
<1>1. t.view \in SUBSET Blocks /\ u.view \in SUBSET Blocks
  BY TreeFields DEF TreeOk
<1>2. u.dev = t.dev
  BY DEF RefsChanged
<1>3. t.view \ C \subseteq u.view
  BY ChangeRefsView
<1>4. t.view \ H \subseteq u.view \ H /\ t.view \ H \in SUBSET Blocks /\ u.view \ H \in SUBSET Blocks
  BY <1>1, <1>3
<1>5. Cardinality(t.view \ H) <= Cardinality(u.view \ H)
  BY <1>4, BlockCounts
<1>6. Cardinality(t.view \ H) \in Nat /\ Cardinality(u.view \ H) \in Nat /\ Cardinality(H \ t.dev) \in Nat
  BY <1>4, BlockSets
<1> QED BY <1>2, <1>5, <1>6 DEF Affords

\* Promoting a hit takes the pages that were kept for it.
LEMMA AffordsPromoted ==
  ASSUME NEW t, TreeOk(t), NEW u, TreeOk(u), NEW C \in SUBSET Blocks, NEW X, X = C \ t.dev,
         Promoted(t, u, X), t.view \ C \subseteq u.view,
         NEW f \in Nat, NEW H \in SUBSET Blocks, NEW K \in SUBSET Blocks, H = K \cup C,
         NEW n \in Nat, Affords(t, f, H, n), Cardinality(X) <= f
  PROVE  Affords(u, f - Cardinality(X), K, n)
<1>1. t.view \in SUBSET Blocks /\ u.view \in SUBSET Blocks
  BY TreeFields DEF TreeOk
<1>2. u.dev = t.dev \cup X
  BY DEF Promoted
<1>3. H \ t.dev = (K \ u.dev) \cup X /\ (K \ u.dev) \cap X = {}
  BY <1>2
<1>4. K \ u.dev \in SUBSET Blocks /\ X \in SUBSET Blocks
  OBVIOUS
<1>5. Cardinality((K \ u.dev) \cup X) = Cardinality(K \ u.dev) + Cardinality(X)
  <2>1. PICK W : W = K \ u.dev
    OBVIOUS
  <2>2. W \in SUBSET Blocks /\ X \in SUBSET Blocks /\ W \cap X = {}
    BY <1>3, <1>4, <2>1
  <2>3. Cardinality(W \cup X) = Cardinality(W) + Cardinality(X)
    BY <2>2, UnionCount
  <2> QED BY <2>1, <2>3
<1>6. t.view \ H \subseteq u.view \ K /\ t.view \ H \in SUBSET Blocks /\ u.view \ K \in SUBSET Blocks
  BY <1>1
<1>7. Cardinality(t.view \ H) <= Cardinality(u.view \ K)
  BY <1>6, BlockCounts
<1>8. /\ Cardinality(t.view \ H) \in Nat /\ Cardinality(u.view \ K) \in Nat
      /\ Cardinality(K \ u.dev) \in Nat /\ Cardinality(X) \in Nat
  BY <1>4, <1>6, BlockSets
<1>9. Cardinality(H \ t.dev) = Cardinality(K \ u.dev) + Cardinality(X)
  BY <1>3, <1>5
<1> QED BY <1>7, <1>8, <1>9 DEF Affords

-----------------------------------------------------------------------------
(* Rows from one state to the next.                                        *)

\* The constants of a request.
LEMMA Lengths ==
  ASSUME NEW r \in Reqs
  PROVE  /\ Len(Stream[r]) \in Nat /\ PromptLen[r] \in Nat
         /\ 0 < PromptLen[r] /\ PromptLen[r] <= Len(Stream[r])
<1>1. Stream[r] \in Seq(Tokens) /\ PromptLen[r] \in 1..Len(Stream[r])
  BY StreamAssumption
<1>2. Len(Stream[r]) \in Nat
  BY <1>1
<1> QED BY <1>1, <1>2

\* The fields of a row.
LEMMA RowFields ==
  ASSUME NEW x \in RowType
  PROVE  /\ x.status \in Statuses /\ x.len \in Nat /\ x.chunk \in Nat /\ x.hit \in Nat
         /\ x.cached \subseteq Nat /\ x.held \subseteq Blocks /\ x.mark \in Nat
BY DEF RowType

\* Positions of a row: a part of 1..n has at most n elements.
LEMMA PositionCount ==
  ASSUME NEW n \in Nat, NEW C, C \subseteq 1..n
  PROVE  IsFiniteSet(C) /\ Cardinality(C) \in Nat /\ Cardinality(C) <= n
<1>1. IsFiniteSet(1..n) /\ Cardinality(1..n) = n
  BY FS_Interval
<1>2. IsFiniteSet(C) /\ Cardinality(C) <= Cardinality(1..n)
  BY <1>1, FS_Subset
<1> QED BY <1>1, <1>2, FS_CardinalityType

\* The numbers of a row.
LEMMA RowNumbers ==
  ASSUME seq \in [Reqs -> RowType], NEW r \in Reqs, RowOk(r)
  PROVE  /\ seq[r].len \in Nat /\ seq[r].chunk \in Nat /\ seq[r].hit \in Nat
         /\ seq[r].len <= Len(Stream[r]) /\ seq[r].hit < PromptLen[r]
         /\ PrivatePages(r) \in Nat /\ Outstanding(r) \in Nat
<1>1. seq[r] \in RowType
  OBVIOUS
<1>2. /\ seq[r].len \in Nat /\ seq[r].chunk \in Nat /\ seq[r].hit \in Nat
  BY <1>1, RowFields
<1>3. seq[r].len <= Len(Stream[r]) /\ seq[r].hit < PromptLen[r] /\ seq[r].cached \subseteq 1..seq[r].len
  BY DEF RowOk
<1>4. Cardinality(seq[r].cached) \in Nat /\ Cardinality(seq[r].cached) <= seq[r].len
  BY <1>2, <1>3, PositionCount
<1>5. PrivatePages(r) \in Nat
  BY <1>2, <1>4 DEF PrivatePages
<1>6. Outstanding(r) \in Nat
  BY <1>2, Lengths DEF Outstanding, Waiting
<1> QED BY <1>2, <1>3, <1>5, <1>6

\* What a request holds is indexed and in use, and so is what is protected.
LEMMA InUse ==
  ASSUME PrefixInv
  PROVE  /\ \A r \in Reqs : \A b \in HeldBlocks(r) :
              b \in Blocks /\ b \in tree.blocks /\ tree.ref[b] \in Nat /\ tree.ref[b] > 0
         /\ \A b \in protected :
              b \in Blocks /\ b \in tree.blocks /\ tree.ref[b] \in Nat /\ tree.ref[b] > 0
         /\ \A b \in Blocks : /\ tree.ref[b] \in Nat
                              /\ tree.ref[b] > 0 => b \in protected \/ \E r \in Reqs : b \in HeldBlocks(r)
<1>1. RefsOf(Held, protected, tree.ref)
  BY Restated DEF PrefixInv
<1>2. tree.blocks \subseteq Blocks
  BY TreeFields DEF PrefixInv, TreeOk
<1>3. ASSUME NEW b \in Blocks
      PROVE  /\ tree.ref[b] \in Nat
             /\ tree.ref[b] = 0 <=> b \notin protected /\ \A r \in Reqs : b \notin HeldBlocks(r)
  <2>1. /\ tree.ref[b] \in Nat
        /\ tree.ref[b] = 0 <=> b \notin protected /\ \A r \in Reqs : b \notin Held[r]
    BY <1>1, RefsZero
  <2> QED BY <2>1 DEF Held
<1>4. protected \subseteq tree.blocks /\ \A r \in Reqs : HeldBlocks(r) \subseteq tree.blocks
  BY DEF PrefixInv, StateType, RowOk
<1> QED BY <1>2, <1>3, <1>4

\* The row of a request is the same but for the mark.
Kept(r) ==
  /\ seq'[r] \in RowType
  /\ seq'[r].status = seq[r].status /\ seq'[r].len = seq[r].len /\ seq'[r].chunk = seq[r].chunk
  /\ seq'[r].hit = seq[r].hit /\ seq'[r].cached = seq[r].cached /\ seq'[r].held = seq[r].held

\* What is computed from a row that is kept is kept.
LEMMA RowKept ==
  ASSUME NEW r \in Reqs, Kept(r)
  PROVE  /\ HeldBlocks(r)' = HeldBlocks(r)
         /\ PrivatePages(r)' = PrivatePages(r)
         /\ Waiting(r)' <=> Waiting(r)
         /\ Decoding(r)' <=> Decoding(r)
         /\ RowOk(r) /\ HeldBlocks(r) \subseteq tree'.blocks => RowOk(r)'
         /\ ChunkFits(r) => ChunkFits(r)'
<1>1. HeldBlocks(r)' = HeldBlocks(r)
  BY DEF Kept, HeldBlocks
<1>2. PrivatePages(r)' = PrivatePages(r) /\ (Waiting(r)' <=> Waiting(r)) /\ (Decoding(r)' <=> Decoding(r))
  BY DEF Kept, PrivatePages, Waiting, Decoding, Unfinished
<1>3. ASSUME RowOk(r), HeldBlocks(r) \subseteq tree'.blocks PROVE RowOk(r)'
  BY <1>1, <1>3 DEF Kept, RowOk, Unfinished
<1>4. ChunkFits(r) => ChunkFits(r)'
  BY <1>2 DEF Kept, ChunkFits
<1> QED BY <1>1, <1>2, <1>3, <1>4

\* A row that is kept stays saved when nothing more of it is inserted.
LEMMA SavedKept ==
  ASSUME NEW r \in Reqs, Kept(r), Saved(r), Unsaved(r)' = Unsaved(r)
  PROVE  Saved(r)'
<1>1. HeldBlocks(r)' = HeldBlocks(r) /\ seq'[r].len = seq[r].len
  BY RowKept DEF Kept
<1> QED BY <1>1 DEF Saved

\* Pages in use stay where they are, and copies to the device stay awaited.
LEMMA ReadableKept ==
  ASSUME NEW r \in Reqs, Kept(r), RowOk(r), Readable(r), Promoting(r) => Promoting(r)',
         \A b \in HeldBlocks(r) : b \in tree.dev => b \in tree'.dev,
         \A b \in InH2D(tree') : (b \in InH2D(tree) => b \in awaited) => b \in awaited'
  PROVE  Readable(r)'
<1>1. seq'[r].cached = seq[r].cached /\ \A i \in seq[r].cached : Path(r, i) \in HeldBlocks(r)
  BY DEF Kept, RowOk
<1>2. OnDevice(r) => OnDevice(r)'
  BY <1>1 DEF OnDevice
<1>3. CopiesAwaited(r)'
  BY <1>1 DEF CopiesAwaited, Readable
<1> QED BY <1>2, <1>3 DEF Readable

\* No row changes, and no block in use leaves the index.
LEMMA RowsKept ==
  ASSUME PrefixInv, \A r \in Reqs : Kept(r), \A b \in tree.blocks \ tree'.blocks : tree.ref[b] = 0
  PROVE  /\ \A r \in Reqs : RowOk(r)'
         /\ Held' = Held /\ Private' = Private
<1>1. ASSUME NEW r \in Reqs
      PROVE  RowOk(r)' /\ HeldBlocks(r)' = HeldBlocks(r) /\ PrivatePages(r)' = PrivatePages(r)
  <2>1. RowOk(r)
    BY DEF PrefixInv
  <2>2. HeldBlocks(r) \subseteq tree'.blocks
    BY InUse
  <2> QED BY <2>1, <2>2, RowKept
<1>2. Held' = Held
  BY <1>1 DEF Held
<1>3. Private' = Private
  BY <1>1 DEF Private
<1> QED BY <1>1, <1>2, <1>3

\* No row changes.
LEMMA SameRows ==
  ASSUME StateType, seq' = seq
  PROVE  \A r \in Reqs : Kept(r)
BY DEF StateType, Kept

\* The parts of the invariant a step that moves no page and no reference keeps.
LEMMA StillHeld ==
  ASSUME PrefixInv, \A r \in Reqs : Kept(r), tree' = tree, free' = free, hostFree' = hostFree,
         protected' = protected
  PROVE  /\ TreeOk(tree') /\ \A r \in Reqs : RowOk(r)'
         /\ RefsExact' /\ TiersConserved'
<1>1. (\A r \in Reqs : RowOk(r)') /\ Held' = Held /\ Private' = Private
  BY RowsKept
<1>2. RefsExact' /\ TiersConserved'
  BY <1>1, Restated, RestatedNext DEF PrefixInv
<1> QED BY <1>1, <1>2 DEF PrefixInv
-----------------------------------------------------------------------------
(* Steps of the thread that move no page and no reference.                 *)

\* What holds of a running engine.
LEMMA RunningParts ==
  ASSUME PrefixInv, pc # "stopped"
  PROVE  /\ \A r \in Reqs : Saved(r) /\ Readable(r)
         /\ \A r \in ToAllocate : ChunkFits(r) /\ HitTaken(r)
         /\ Remembered(tree) /\ Covered
BY DEF PrefixInv, Running

\* Rows that are kept stay saved.
LEMMA StillSaved ==
  ASSUME PrefixInv, pc # "stopped", \A r \in Reqs : Kept(r), \A r \in Reqs : Unsaved(r)' = Unsaved(r)
  PROVE  \A r \in Reqs : Saved(r)'
BY RunningParts, SavedKept

\* Rows that are kept stay readable when the index does not change.
LEMMA StillReadable ==
  ASSUME PrefixInv, pc # "stopped", \A r \in Reqs : Kept(r), tree' = tree, awaited' = awaited,
         pc # "promote"
  PROVE  \A r \in Reqs : Readable(r)'
<1> SUFFICES ASSUME NEW r \in Reqs PROVE Readable(r)'
  OBVIOUS
<1>1. RowOk(r) /\ Readable(r) /\ ~Promoting(r)
  BY RunningParts DEF PrefixInv, Promoting
<1> QED BY <1>1, ReadableKept

\* Nothing taken, nothing hit.
LEMMA NoTakes ==
  ASSUME NEW s
  PROVE  Cardinality(Cells(Reqs, TakesOf({}, s))) = 0 /\ HitsOf({}, s) = {}
<1>1. Cells(Reqs, TakesOf({}, s)) = {}
  BY DEF Cells, TakesOf
<1> QED BY <1>1, FS_EmptySet DEF HitsOf

\* The numbers of the capacity arguments.
LEMMA Quantities ==
  ASSUME PrefixInv
  PROVE  /\ free \in Nat /\ hostFree \in Nat /\ Cardinality(tree.view) \in Nat
         /\ Reserved \in Nat /\ Cardinality(Cells(Reqs, Takes)) \in Nat
         /\ Cardinality(Cells(Reqs, Claims)) \in Nat
         /\ budget.prompt \in Nat /\ budget.step \in Nat /\ budget.decode \in Nat
         /\ \A r \in Reqs : Takes[r] \in Nat /\ Claims[r] \in Nat /\ Outstandings[r] \in Nat
<1>1. IsFiniteSet(Reqs)
  BY StreamAssumption
<1>2. ASSUME NEW r \in Reqs
      PROVE  Takes[r] \in Nat /\ Claims[r] \in Nat /\ Outstandings[r] \in Nat
  <2>1. RowOk(r) /\ seq \in [Reqs -> RowType]
    BY DEF PrefixInv, StateType
  <2>2. /\ seq[r].len \in Nat /\ seq[r].chunk \in Nat /\ seq[r].hit \in Nat
        /\ seq[r].hit < PromptLen[r] /\ Outstanding(r) \in Nat
    BY <2>1, RowNumbers
  <2>3. PromptLen[r] \in Nat
    BY Lengths
  <2>4. Takes[r] \in Nat
    BY <2>2 DEF Takes, TakesOf
  <2>5. PromptLen[r] - seq[r].hit \in Nat
    BY <2>2, <2>3
  <2>6. Claims[r] \in Nat
    BY <2>2, <2>5 DEF Claims
  <2> QED BY <2>2, <2>4, <2>6 DEF Outstandings
<1>3. /\ Cardinality(Cells(Reqs, Takes)) \in Nat /\ Cardinality(Cells(Reqs, Claims)) \in Nat
      /\ Cardinality(Cells(Reqs, Outstandings)) \in Nat
  BY <1>1, <1>2, CellsFinite
<1>4. tree.view \in SUBSET Blocks
  BY TreeFields DEF PrefixInv, TreeOk
<1>5. Cardinality(tree.view) \in Nat
  BY <1>4, BlockSets
<1> QED BY <1>2, <1>3, <1>5, Restated DEF PrefixInv, StateType

\* Nothing of the step has begun.
LEMMA AtRest ==
  ASSUME PrefixInv, pc \in {"idle", "scan"}
  PROVE  /\ todo = <<>> /\ protected = {} /\ ToInsert = {}
         /\ \A r \in Reqs : Unsaved(r) = 0 /\ HeldBlocks(r) = Chain(r, seq[r].len)
         /\ \A r \in Reqs : OnDevice(r) /\ CopiesAwaited(r)
         /\ Remembered(tree)
<1>1. pc # "stopped"
  OBVIOUS
<1>2. todo = <<>> /\ protected = {}
  BY DEF PrefixInv, Flow
<1>3. ToInsert = {} /\ \A r \in Reqs : Unsaved(r) = 0
  BY DEF ToInsert, ToInsertAt, Unsaved
<1>4. ASSUME NEW r \in Reqs PROVE HeldBlocks(r) = Chain(r, seq[r].len) /\ OnDevice(r) /\ CopiesAwaited(r)
  <2>1. Saved(r) /\ Readable(r) /\ ~Promoting(r)
    BY <1>1, RunningParts DEF Promoting
  <2>2. seq[r].len \in Nat
    BY RowNumbers DEF PrefixInv, StateType
  <2>3. seq[r].len - 0 = seq[r].len
    BY <2>2
  <2> QED BY <1>3, <2>1, <2>3 DEF Saved, Readable
<1> QED BY <1>1, <1>2, <1>3, <1>4, RunningParts

\* Between two steps nothing has to be shown of capacity.
LEMMA IdleRunning ==
  ASSUME pc' = "idle", \A r \in Reqs : Saved(r)' /\ Readable(r)', Remembered(tree')
  PROVE  Running'
<1>1. ToAllocate' = {} /\ Attaching' = {}
  BY DEF ToAllocate, ToAllocateAt, Attaching, AttachingAt
<1>2. Hits' = {}
  BY <1>1, NoTakes DEF Hits
<1>3. Covered'
  BY <1>2 DEF Covered
<1> QED BY <1>1, <1>3 DEF Running

\* A scan starts with what is free or reclaimable, less what is reserved.
LEMMA BeginScheduleStep ==
  ASSUME PrefixInv, BeginSchedule
  PROVE  PrefixInv'
<1>0. /\ pc = "idle" /\ pc' = "scan" /\ batch = <<>> /\ todo = <<>> /\ protected = {}
      /\ UNCHANGED <<tree, free, hostFree, seq, batch, todo, awaited, protected, raised>>
  BY DEF PrefixInv, Flow, BeginSchedule, Quiet
<1>1. PICK c : c = free + Cardinality(tree.view)
  OBVIOUS
<1>2. c \in Nat /\ Reserved \in Nat
  BY <1>1, Quantities
<1>3. PICK m : m = Max({0, c - Reserved})
  OBVIOUS
<1>4. m \in Nat /\ (m > 0 => m + Reserved = c)
  <2>1. c - Reserved \in Int /\ 0 \in Int
    BY <1>2
  <2>2. m = IF 0 >= c - Reserved THEN 0 ELSE c - Reserved
    BY <1>3, <2>1, TwoNumbers
  <2> QED BY <1>2, <2>2
<1>5. budget' = [prompt |-> m, step |-> c, decode |-> c]
  BY <1>1, <1>3 DEF BeginSchedule
<1>6. \A r \in Reqs : Kept(r)
  BY <1>0, SameRows DEF PrefixInv
<1>7. TreeOk(tree') /\ (\A r \in Reqs : RowOk(r)') /\ RefsExact' /\ TiersConserved'
  BY <1>0, <1>6, StillHeld
<1>8. StateType'
  BY <1>0, <1>2, <1>4, <1>5 DEF PrefixInv, StateType, PCs
<1>9. Flow'
  BY <1>0 DEF Flow
<1>10. \A r \in Reqs : Unsaved(r)' = Unsaved(r)
  BY <1>0 DEF Unsaved, ToInsert, ToInsertAt
<1>11. \A r \in Reqs : Saved(r)' /\ Readable(r)'
  BY <1>0, <1>6, <1>10, StillSaved, StillReadable
<1>12. ToAllocate' = {} /\ Attaching' = {}
  BY <1>0, EmptyOwnership DEF ToAllocate, ToAllocateAt, Attaching, AttachingAt
<1>13. Hits' = {} /\ Cardinality(Cells(Reqs, Takes')) = 0
  BY <1>12, NoTakes DEF Hits, Takes
<1>14. Claims' = Outstandings
  BY <1>0, <1>12 DEF Claims, Outstandings, Outstanding, Waiting, Unfinished
<1>15. Cardinality(Cells(Reqs, Claims')) = Reserved
  BY <1>14, Restated
<1>16. ScanCovered'
  <2>1. Cardinality(Hits' \ tree'.dev) = 0 /\ Cardinality(Hits' \cap tree'.view) = 0
    BY <1>13, FS_EmptySet
  <2>2. free' + Cardinality(tree'.view) = c
    BY <1>0, <1>1
  <2>3. budget'.prompt = m /\ budget'.step = c /\ budget'.decode = c
    BY <1>5
  <2> QED BY <1>2, <1>4, <1>12, <1>13, <1>15, <2>1, <2>2, <2>3 DEF ScanCovered
<1>17. Covered'
  BY <1>0, <1>13, <1>16 DEF Covered
<1>18. Remembered(tree')
  BY <1>0, RunningParts
<1>19. Running'
  BY <1>11, <1>12, <1>17, <1>18 DEF Running
<1>20. PromiseKept'
  BY <1>0 DEF PrefixInv, PromiseKept
<1> QED BY <1>7, <1>8, <1>9, <1>19, <1>20 DEF PrefixInv
\* What a chunk takes is part of what its prompt claims.
LEMMA TakesWithinClaims ==
  ASSUME PrefixInv, pc = "scan"
  PROVE  Cardinality(Cells(Reqs, Takes)) <= Cardinality(Cells(Reqs, Claims))
<1>1. ASSUME NEW r \in Reqs PROVE Takes[r] \in Int /\ Claims[r] \in Int /\ Takes[r] <= Claims[r]
  <2>1. Takes[r] \in Nat /\ Claims[r] \in Nat
    BY Quantities
  <2>2. CASE r \notin ToAllocate
    <3>1. Takes[r] = 0
      BY <2>2 DEF Takes, TakesOf
    <3> QED BY <2>1, <3>1
  <2>3. CASE r \in ToAllocate
    <3>1. ChunkFits(r) /\ Takes[r] = seq[r].chunk /\ r \in ToSet(batch)
      BY <2>3, RunningParts DEF Takes, TakesOf, ToAllocate, ToAllocateAt
    <3>2. /\ seq[r].len \in Nat /\ seq[r].chunk \in Nat /\ seq[r].hit \in Nat /\ PromptLen[r] \in Nat
      BY RowNumbers, Lengths DEF PrefixInv, StateType
    <3>3. CASE seq[r].len = 0
      <4>1. r \in Attaching
        BY <3>1, <3>3 DEF Attaching, AttachingAt
      <4>2. Claims[r] = PromptLen[r] - seq[r].hit
        BY <4>1 DEF Claims
      <4> QED BY <2>1, <3>1, <3>2, <4>2 DEF ChunkFits
    <3>4. CASE seq[r].len # 0
      <4>1. r \notin Attaching
        BY <3>4 DEF Attaching, AttachingAt
      <4>2. Claims[r] = PromptLen[r] - seq[r].len
        BY <3>1, <3>2, <3>4, <4>1 DEF Claims, Outstanding, ChunkFits
      <4> QED BY <2>1, <3>1, <3>2, <4>2 DEF ChunkFits
    <3> QED BY <3>3, <3>4
  <2> QED BY <2>2, <2>3
<1>2. IsFiniteSet(Reqs)
  BY StreamAssumption
<1> QED BY <1>1, <1>2, CellsMonotone

\* The hits are blocks.
LEMMA HitsAre ==
  ASSUME PrefixInv
  PROVE  /\ Hits \in SUBSET Blocks /\ tree.view \in SUBSET Blocks /\ tree.dev \in SUBSET Blocks
         /\ Attaching \subseteq Reqs /\ ToAllocate \subseteq Reqs
<1>1. batch \in Seq(Reqs) /\ todo \in Seq(Reqs) /\ todo \in Seq(Reqs)
  BY DEF PrefixInv, StateType
<1>2. ToSet(batch) \subseteq Reqs /\ ToSet(todo) \subseteq Reqs
  BY <1>1 DEF ToSet
<1>3. Attaching \subseteq Reqs /\ ToAllocate \subseteq Reqs
  BY <1>2 DEF Attaching, AttachingAt, ToAllocate, ToAllocateAt
<1>4. ASSUME NEW r \in Reqs PROVE Chain(r, seq[r].hit) \subseteq Blocks
  <2>1. seq[r].hit \in Nat /\ seq[r].hit < PromptLen[r]
    BY RowNumbers DEF PrefixInv, StateType
  <2>2. seq[r].hit \in 0..Len(Stream[r])
    BY <2>1, Lengths
  <2> QED BY <2>2, ChainFacts
<1>5. Hits \subseteq Blocks
  BY <1>3, <1>4 DEF Hits, HitsOf
<1>6. tree.view \subseteq Blocks /\ tree.dev \subseteq Blocks
  BY TreeFields DEF PrefixInv, TreeOk
<1> QED BY <1>3, <1>5, <1>6

\* A prompt admitted against the capacity of the scan finds its pages.
LEMMA ScanAffords ==
  ASSUME PrefixInv, pc = "scan"
  PROVE  Affords(tree, free, Hits, Cardinality(Cells(Reqs, Takes)))
<1>1. ScanCovered
  BY RunningParts DEF Covered
<1>2. PICK k : k = Cardinality(Cells(Reqs, Takes))
  OBVIOUS
<1>3. PICK c : c = Cardinality(Cells(Reqs, Claims))
  OBVIOUS
<1>4. k \in Nat /\ c \in Nat /\ k <= c
  BY <1>2, <1>3, Quantities, TakesWithinClaims
<1>5. PICK V : V = tree.view
  OBVIOUS
<1>6. PICK H : H = Hits
  OBVIOUS
<1>7. V \in SUBSET Blocks /\ H \in SUBSET Blocks
  BY <1>5, <1>6, HitsAre
<1>8. PICK hd : hd = Cardinality(H \ tree.dev)
  OBVIOUS
<1>9. hd \in Nat
  BY <1>7, <1>8, BlockSets
<1>10. Cardinality(V) = Cardinality(V \ H) + Cardinality(H \cap V) /\ Cardinality(V \ H) \in Nat
       /\ Cardinality(H \cap V) \in Nat
  <2>1. V \ H \in SUBSET Blocks /\ H \cap V \in SUBSET Blocks /\ (V \ H) \cap (H \cap V) = {}
    BY <1>7
  <2>2. Cardinality((V \ H) \cup (H \cap V)) = Cardinality(V \ H) + Cardinality(H \cap V)
    BY <2>1, UnionCount
  <2>3. V = (V \ H) \cup (H \cap V)
    OBVIOUS
  <2> QED BY <2>1, <2>2, <2>3, BlockSets
<1>11. free \in Nat /\ budget.step \in Nat /\ budget.prompt \in Nat
  BY Quantities
<1>12. hd + k <= free + Cardinality(V \ H)
  <2>1. CASE Attaching = {}
    <3>1. H = {}
      BY <1>6, <2>1, NoTakes DEF Hits
    <3>2. hd = 0 /\ V \ H = V
      BY <1>8, <3>1, FS_EmptySet
    <3>3. budget.step + k <= free + Cardinality(V)
      BY <1>1, <1>2, <1>5 DEF ScanCovered
    <3> QED BY <1>4, <1>10, <1>11, <3>2, <3>3
  <2>2. CASE Attaching # {}
    <3>1. budget.prompt + hd + Cardinality(H \cap V) + c <= free + Cardinality(V)
      BY <1>1, <1>3, <1>5, <1>6, <1>8, <2>2 DEF ScanCovered
    <3> QED BY <1>4, <1>9, <1>10, <1>11, <3>1
  <2> QED BY <2>1, <2>2
<1> QED BY <1>2, <1>5, <1>6, <1>8, <1>12 DEF Affords

\* What a step within the prefill batch keeps of the requests.
LEMMA StillTaking ==
  ASSUME PrefixInv, pc # "stopped", \A r \in Reqs : Kept(r), ToAllocate' \subseteq ToAllocate,
         \A r \in ToAllocate' : r \in Attaching /\ seq[r].hit > 0 => r \in Attaching'
  PROVE  \A r \in ToAllocate' : ChunkFits(r)' /\ HitTaken(r)'
<1> SUFFICES ASSUME NEW r \in ToAllocate' PROVE ChunkFits(r)' /\ HitTaken(r)'
  OBVIOUS
<1>1. r \in Reqs /\ ChunkFits(r) /\ HitTaken(r)
  BY HitsAre, RunningParts
<1>2. ChunkFits(r)'
  BY <1>1, RowKept
<1>3. HitTaken(r)'
  BY <1>1 DEF HitTaken, Kept
<1> QED BY <1>2, <1>3

\* The prefill batch is run: the scan has covered it.
LEMMA StartPrefillStep ==
  ASSUME PrefixInv, StartPrefill
  PROVE  PrefixInv'
<1>0. /\ pc = "scan" /\ pc' = "attach" /\ todo' = batch /\ protected = {}
      /\ UNCHANGED <<tree, free, hostFree, seq, batch, budget, awaited, protected, raised>>
  BY DEF PrefixInv, Flow, StartPrefill
<1>1. \A r \in Reqs : Kept(r)
  BY <1>0, SameRows DEF PrefixInv
<1>2. TreeOk(tree') /\ (\A r \in Reqs : RowOk(r)') /\ RefsExact' /\ TiersConserved'
  BY <1>0, <1>1, StillHeld
<1>3. StateType'
  BY <1>0 DEF PrefixInv, StateType, PCs
<1>4. Flow'
  BY <1>0 DEF Flow
<1>5. \A r \in Reqs : Saved(r)' /\ Readable(r)'
  <2>1. \A r \in Reqs : Unsaved(r)' = Unsaved(r)
    BY <1>0 DEF Unsaved, ToInsert, ToInsertAt
  <2> QED BY <1>0, <1>1, <2>1, StillSaved, StillReadable
<1>6. ToAllocate' = ToAllocate /\ Attaching' = Attaching
  BY <1>0 DEF ToAllocate, ToAllocateAt, Attaching, AttachingAt
<1>7. \A r \in ToAllocate' : ChunkFits(r)' /\ HitTaken(r)'
  BY <1>0, <1>1, <1>6, StillTaking
<1>8. Hits' = Hits /\ Takes' = Takes
  BY <1>0, <1>6 DEF Hits, HitsOf, Takes, TakesOf
<1>9. Affords(tree', free', Hits', PagesToTake')
  BY <1>0, <1>8, ScanAffords DEF PagesToTake
<1>10. Covered'
  BY <1>0, <1>8, <1>9, RunningParts DEF Covered
<1>11. Running'
  BY <1>0, <1>5, <1>7, <1>10, RunningParts DEF Running
<1>12. PromiseKept'
  BY <1>0 DEF PrefixInv, PromiseKept
<1> QED BY <1>2, <1>3, <1>4, <1>11, <1>12 DEF PrefixInv

\* The decode batch is run: it has at most a request for each page of capacity.
LEMMA StartDecodeStep ==
  ASSUME PrefixInv, NEW s \in DecodeBatches, StartDecode(s)
  PROVE  PrefixInv'
<1>0. /\ pc = "scan" /\ pc' = "decode" /\ todo' = s /\ batch' = s /\ protected = {}
      /\ UNCHANGED <<tree, free, hostFree, seq, budget, awaited, protected, raised>>
  BY DEF PrefixInv, Flow, StartDecode, DecodeScan
<1>1. s \in Seq(Reqs) /\ IsInjective(s) /\ \A r \in ToSet(s) : Decoding(r)
  <2>1. PICK n \in 1..Cardinality(Reqs) : s \in [1..n -> {r \in Reqs : Decoding(r)}] /\ IsInjective(s)
    BY DEF DecodeBatches
  <2>2. Cardinality(Reqs) \in Nat
    BY StreamAssumption, FS_CardinalityType
  <2>3. n \in Nat /\ s \in [1..n -> Reqs]
    BY <2>1, <2>2
  <2> QED BY <2>1, <2>3 DEF ToSet
<1>2. \A r \in Reqs : Kept(r)
  BY <1>0, SameRows DEF PrefixInv
<1>3. TreeOk(tree') /\ (\A r \in Reqs : RowOk(r)') /\ RefsExact' /\ TiersConserved'
  BY <1>0, <1>2, StillHeld
<1>4. StateType'
  BY <1>0, <1>1 DEF PrefixInv, StateType, PCs
<1>5. Flow'
  BY <1>0, <1>1 DEF Flow, Decoding
<1>6. \A r \in Reqs : Saved(r)' /\ Readable(r)'
  <2>1. \A r \in Reqs : Unsaved(r)' = Unsaved(r)
    BY <1>0 DEF Unsaved, ToInsert, ToInsertAt
  <2> QED BY <1>0, <1>2, <2>1, StillSaved, StillReadable
<1>7. ToAllocate' = {} /\ Attaching' = {}
  BY <1>0 DEF ToAllocate, ToAllocateAt, Attaching, AttachingAt
<1>8. Hits' = {}
  BY <1>7, NoTakes DEF Hits
<1>9. Affords(tree', free', Hits', PagesToTake')
  <2>1. PagesToTake' = Len(s)
    BY <1>0 DEF PagesToTake
  <2>2. Len(s) <= budget.decode
    <3>1. PICK d : d = Cardinality({r \in Reqs : Decoding(r)})
      OBVIOUS
    <3>2. d \in Int
      <4>1. IsFiniteSet({r \in Reqs : Decoding(r)})
        BY StreamAssumption, FS_Subset
      <4> QED BY <3>1, <4>1, FS_CardinalityType
    <3>3. Len(s) = Min({budget.decode, d})
      BY <3>1 DEF StartDecode
    <3>4. budget.decode \in Int
      BY Quantities
    <3> QED BY <3>2, <3>3, <3>4, TwoNumbers
  <2>3. budget.decode <= free + Cardinality(tree.view)
    BY <1>0, RunningParts DEF Covered, ScanCovered
  <2>4. Cardinality(Hits' \ tree'.dev) = 0 /\ tree'.view \ Hits' = tree.view
    BY <1>0, <1>8, FS_EmptySet
  <2>5. Len(s) \in Nat
    BY <1>1
  <2>6. free \in Nat /\ Cardinality(tree.view) \in Nat /\ budget.decode \in Nat
    BY Quantities
  <2>7. 0 + Len(s) <= free + Cardinality(tree.view)
    BY <2>2, <2>3, <2>5, <2>6
  <2> QED BY <1>0, <2>1, <2>4, <2>7 DEF Affords
<1>10. Covered'
  BY <1>0, <1>8, <1>9 DEF Covered
<1>11. Running'
  BY <1>0, <1>6, <1>7, <1>10, RunningParts DEF Running
<1>12. PromiseKept'
  BY <1>0 DEF PrefixInv, PromiseKept
<1> QED BY <1>3, <1>4, <1>5, <1>11, <1>12 DEF PrefixInv

\* The hits are attached, and the chunks are allocated.
LEMMA StartAllocateStep ==
  ASSUME PrefixInv, StartAllocate
  PROVE  PrefixInv'
<1>0. /\ pc = "attach" /\ pc' = "alloc" /\ todo = <<>> /\ todo' = batch /\ protected = {}
      /\ UNCHANGED <<tree, free, hostFree, seq, batch, budget, awaited, protected, raised>>
  BY DEF PrefixInv, Flow, StartAllocate
<1>1. \A r \in Reqs : Kept(r)
  BY <1>0, SameRows DEF PrefixInv
<1>2. TreeOk(tree') /\ (\A r \in Reqs : RowOk(r)') /\ RefsExact' /\ TiersConserved'
  BY <1>0, <1>1, StillHeld
<1>3. StateType'
  BY <1>0 DEF PrefixInv, StateType, PCs
<1>4. Flow'
  BY <1>0 DEF Flow
<1>5. \A r \in Reqs : Saved(r)' /\ Readable(r)'
  <2>1. \A r \in Reqs : Unsaved(r)' = Unsaved(r)
    BY <1>0 DEF Unsaved, ToInsert, ToInsertAt
  <2> QED BY <1>0, <1>1, <2>1, StillSaved, StillReadable
<1>6. ToAllocate' = ToAllocate /\ Attaching = {} /\ Attaching' = {}
  BY <1>0, EmptyOwnership DEF ToAllocate, ToAllocateAt, Attaching, AttachingAt
<1>7. \A r \in ToAllocate' : ChunkFits(r)' /\ HitTaken(r)'
  BY <1>0, <1>1, <1>6, StillTaking
<1>8. Hits' = Hits /\ Takes' = Takes
  BY <1>0, <1>6 DEF Hits, HitsOf, Takes, TakesOf
<1>9. Affords(tree', free', Hits', PagesToTake')
  BY <1>0, <1>8, RunningParts DEF PagesToTake, Covered
<1>10. Covered'
  BY <1>0, <1>8, <1>9, RunningParts DEF Covered
<1>11. Running'
  BY <1>0, <1>5, <1>7, <1>10, RunningParts DEF Running
<1>12. PromiseKept'
  BY <1>0 DEF PrefixInv, PromiseKept
<1> QED BY <1>2, <1>3, <1>4, <1>11, <1>12 DEF PrefixInv

\* Past the allocation nothing has to be shown of capacity.
LEMMA ForwardRunning ==
  ASSUME pc' \in {"forward", "insert"}, \A r \in Reqs : Saved(r)' /\ Readable(r)', Remembered(tree')
  PROVE  Running'
<1>1. ToAllocate' = {} /\ Attaching' = {}
  BY DEF ToAllocate, ToAllocateAt, Attaching, AttachingAt
<1>2. Hits' = {}
  BY <1>1, NoTakes DEF Hits
<1>3. Covered'
  BY <1>2 DEF Covered
<1> QED BY <1>1, <1>3 DEF Running

\* The chunks are allocated, and the model runs.
LEMMA StartForwardStep ==
  ASSUME PrefixInv, StartForward
  PROVE  PrefixInv'
<1>0. /\ pc = "alloc" /\ pc' = "forward" /\ todo = <<>> /\ todo' = batch /\ protected = {}
      /\ UNCHANGED <<tree, free, hostFree, seq, batch, budget, awaited, protected, raised>>
  BY DEF PrefixInv, Flow, StartForward
<1>1. \A r \in Reqs : Kept(r)
  BY <1>0, SameRows DEF PrefixInv
<1>2. TreeOk(tree') /\ (\A r \in Reqs : RowOk(r)') /\ RefsExact' /\ TiersConserved'
  BY <1>0, <1>1, StillHeld
<1>3. StateType'
  BY <1>0 DEF PrefixInv, StateType, PCs
<1>4. Flow'
  BY <1>0 DEF Flow
<1>5. \A r \in Reqs : Saved(r)' /\ Readable(r)'
  <2>1. \A r \in Reqs : Unsaved(r)' = Unsaved(r)
    BY <1>0, EmptyOwnership DEF Unsaved, ToInsert, ToInsertAt
  <2> QED BY <1>0, <1>1, <2>1, StillSaved, StillReadable
<1>11. Running'
  BY <1>0, <1>5, RunningParts, ForwardRunning
<1>12. PromiseKept'
  BY <1>0 DEF PrefixInv, PromiseKept
<1> QED BY <1>2, <1>3, <1>4, <1>11, <1>12 DEF PrefixInv

\* The step is over.
LEMMA EndStepStep ==
  ASSUME PrefixInv, EndStep
  PROVE  PrefixInv'
<1>0. /\ pc = "forward" /\ pc' = "idle" /\ todo = <<>> /\ batch' = <<>> /\ protected = {}
      /\ budget' = [prompt |-> 0, step |-> 0, decode |-> 0]
      /\ UNCHANGED <<tree, free, hostFree, seq, todo, awaited, protected, raised>>
  BY DEF PrefixInv, Flow, EndStep
<1>1. \A r \in Reqs : Kept(r)
  BY <1>0, SameRows DEF PrefixInv
<1>2. TreeOk(tree') /\ (\A r \in Reqs : RowOk(r)') /\ RefsExact' /\ TiersConserved'
  BY <1>0, <1>1, StillHeld
<1>3. StateType'
  BY <1>0, EmptyOwnership DEF PrefixInv, StateType, PCs
<1>4. Flow'
  BY <1>0 DEF Flow
<1>5. \A r \in Reqs : Saved(r)' /\ Readable(r)'
  <2>1. \A r \in Reqs : Unsaved(r)' = Unsaved(r)
    BY <1>0, EmptyOwnership DEF Unsaved, ToInsert, ToInsertAt
  <2> QED BY <1>0, <1>1, <2>1, StillSaved, StillReadable
<1>11. Running'
  BY <1>0, <1>5, RunningParts, IdleRunning
<1>12. PromiseKept'
  BY <1>0 DEF PrefixInv, PromiseKept
<1> QED BY <1>2, <1>3, <1>4, <1>11, <1>12 DEF PrefixInv

\* The scan found nothing.
LEMMA NothingScheduledStep ==
  ASSUME PrefixInv, NothingScheduled
  PROVE  PrefixInv'
<1>0. /\ pc = "scan" /\ todo = <<>> /\ batch = <<>> /\ protected = {}
      /\ (pc' = "idle" /\ raised' = raised) \/ (pc' = "stopped" /\ raised' = "no capacity")
      /\ budget' = [prompt |-> 0, step |-> 0, decode |-> 0]
      /\ UNCHANGED <<tree, free, hostFree, seq, batch, todo, awaited, protected>>
  BY DEF PrefixInv, Flow, NothingScheduled, DecodeScan, Raise
<1>1. \A r \in Reqs : Kept(r)
  BY <1>0, SameRows DEF PrefixInv
<1>2. TreeOk(tree') /\ (\A r \in Reqs : RowOk(r)') /\ RefsExact' /\ TiersConserved'
  BY <1>0, <1>1, StillHeld
<1>3. StateType'
  BY <1>0, EmptyOwnership DEF PrefixInv, StateType, PCs
<1>4. Flow'
  BY <1>0 DEF Flow
<1>5. \A r \in Reqs : Saved(r)' /\ Readable(r)'
  <2>1. \A r \in Reqs : Unsaved(r)' = Unsaved(r)
    BY <1>0 DEF Unsaved, ToInsert, ToInsertAt
  <2> QED BY <1>0, <1>1, <2>1, StillSaved, StillReadable
<1>11. Running'
  <2>1. CASE pc' = "idle"
    BY <1>0, <1>5, <2>1, RunningParts, IdleRunning
  <2>2. CASE pc' = "stopped"
    BY <2>2 DEF Running
  <2> QED BY <1>0, <2>1, <2>2
<1>12. PromiseKept'
  BY <1>0 DEF PrefixInv, PromiseKept
<1> QED BY <1>2, <1>3, <1>4, <1>11, <1>12 DEF PrefixInv
-----------------------------------------------------------------------------
(* Arrival and the scan.                                                   *)

\* The chain of no token.
LEMMA EmptyChain ==
  ASSUME NEW r
  PROVE  Chain(r, 0) = {}
<1>1. 1..0 = {}
  OBVIOUS
<1> QED BY <1>1 DEF Chain

\* A request without a row holds nothing.
LEMMA EmptyRow ==
  ASSUME NEW r \in Reqs, RowOk(r), seq[r].len = 0
  PROVE  HeldBlocks(r) = {} /\ PrivatePages(r) = 0 /\ seq[r].cached = {}
<1>1. seq[r].held = {} /\ seq[r].cached = {}
  BY DEF RowOk
<1>2. HeldBlocks(r) = {}
  BY <1>1, EmptyChain DEF HeldBlocks
<1>3. PrivatePages(r) = 0
  BY <1>1, FS_EmptySet DEF PrivatePages
<1> QED BY <1>1, <1>2, <1>3

\* Nor does one that got a new one.
LEMMA NewRow ==
  ASSUME NEW r \in Reqs, NEW status \in Statuses, NEW m \in Nat,
         seq'[r] = [NoRow(status) EXCEPT !.mark = m]
  PROVE  /\ seq'[r] \in RowType /\ RowOk(r)' /\ HeldBlocks(r)' = {} /\ PrivatePages(r)' = 0
         /\ (Unsaved(r)' = 0 => Saved(r)') /\ Readable(r)'
<1>1. /\ seq'[r].status = status /\ seq'[r].len = 0 /\ seq'[r].chunk = 0 /\ seq'[r].hit = 0
      /\ seq'[r].cached = {} /\ seq'[r].held = {} /\ seq'[r] \in RowType
  BY DEF NoRow, RowType
<1>2. HeldBlocks(r)' = {}
  BY <1>1, EmptyChain DEF HeldBlocks
<1>3. PrivatePages(r)' = 0
  <2>1. PrivatePages(r)' = 0 - Cardinality({})
    BY <1>1 DEF PrivatePages
  <2> QED BY <2>1, FS_EmptySet
<1>4. RowOk(r)'
  BY <1>1, <1>2, Lengths DEF RowOk
<1>5. Unsaved(r)' = 0 => Saved(r)'
  BY <1>1, <1>2, EmptyChain DEF Saved
<1>6. Readable(r)'
  BY <1>1 DEF Readable, OnDevice, CopiesAwaited
<1> QED BY <1>1, <1>2, <1>3, <1>4, <1>5, <1>6

\* A request without a row changes between two steps.
LEMMA EmptyRowStep ==
  ASSUME PrefixInv, pc = "idle", NEW r \in Reqs, seq[r].len = 0, NEW status \in Statuses,
         seq' = [seq EXCEPT ![r] = NoRow(status)],
         UNCHANGED <<tree, free, hostFree, pc, batch, todo, budget, awaited, protected, raised>>
  PROVE  PrefixInv'
<1>1. seq'[r] = [NoRow(status) EXCEPT !.mark = 0]
  <2>1. seq'[r] = NoRow(status)
    BY DEF PrefixInv, StateType
  <2> QED BY <2>1 DEF NoRow
<1>2. /\ seq'[r] \in RowType /\ RowOk(r)' /\ HeldBlocks(r)' = {} /\ PrivatePages(r)' = 0
      /\ (Unsaved(r)' = 0 => Saved(r)') /\ Readable(r)'
  BY <1>1, NewRow
<1>3. HeldBlocks(r) = {} /\ PrivatePages(r) = 0
  BY EmptyRow DEF PrefixInv
<1>4. ASSUME NEW q \in Reqs \ {r} PROVE Kept(q)
  BY DEF Kept, PrefixInv, StateType
<1>5. ASSUME NEW q \in Reqs \ {r}
      PROVE  RowOk(q)' /\ HeldBlocks(q)' = HeldBlocks(q) /\ PrivatePages(q)' = PrivatePages(q)
  BY <1>4, RowKept DEF PrefixInv, RowOk
<1>6. Held' = Held
  BY <1>2, <1>3, <1>5 DEF Held
<1>7. Private' = Private
  BY <1>2, <1>3, <1>5 DEF Private
<1>8. RefsExact' /\ TiersConserved'
  BY <1>6, <1>7, Restated, RestatedNext DEF PrefixInv
<1>9. StateType'
  BY <1>2 DEF PrefixInv, StateType
<1>10. Flow'
  BY DEF PrefixInv, Flow
<1>11. \A q \in Reqs : Unsaved(q) = 0 /\ Unsaved(q)' = 0
  BY DEF Unsaved, ToInsert, ToInsertAt
<1>12. ASSUME NEW q \in Reqs PROVE Saved(q)' /\ Readable(q)'
  <2>1. CASE q = r
    BY <1>2, <1>11, <2>1
  <2>2. CASE q # r
    <3>1. Saved(q) /\ Readable(q) /\ RowOk(q) /\ Kept(q) /\ ~Promoting(q)
      BY <1>4, <2>2, RunningParts DEF PrefixInv, Promoting
    <3>2. Saved(q)'
      BY <1>11, <3>1, SavedKept
    <3> QED BY <3>1, <3>2, ReadableKept
  <2> QED BY <2>1, <2>2
<1>13. Running'
  BY <1>12, RunningParts, IdleRunning
<1>14. PromiseKept'
  BY DEF PrefixInv, PromiseKept
<1>15. TreeOk(tree') /\ \A q \in Reqs : RowOk(q)'
  BY <1>2, <1>5 DEF PrefixInv
<1> QED BY <1>8, <1>9, <1>10, <1>13, <1>14, <1>15 DEF PrefixInv

\* add_request.
LEMMA ArriveStep ==
  ASSUME PrefixInv, NEW r \in Reqs, Arrive(r)
  PROVE  PrefixInv'
<1>1. /\ pc = "idle" /\ seq' = [seq EXCEPT ![r] = NoRow("new")] /\ seq[r].status = "absent"
      /\ UNCHANGED <<tree, free, hostFree, pc, batch, todo, budget, awaited, protected, raised>>
  BY DEF Arrive, Quiet
<1>2. seq[r].len = 0
  <2>1. seq[r].len \in Nat
    BY RowNumbers DEF PrefixInv, StateType
  <2>2. ~(seq[r].len > 0)
    BY <1>1 DEF PrefixInv, RowOk, Unfinished
  <2> QED BY <2>1, <2>2
<1>3. "new" \in Statuses
  BY DEF Statuses
<1> QED BY <1>1, <1>2, <1>3, EmptyRowStep

\* A bounded set of numbers has a greatest element.
LEMMA GreatestNat ==
  ASSUME NEW N \in Nat, NEW T, T \subseteq 0..N, T # {}
  PROVE  \E x \in T : \A y \in T : x >= y
<1> DEFINE U == {N - n : n \in T}
<1>1. U \subseteq Nat /\ U # {}
  <2>1. \A n \in T : N - n \in Nat
    OBVIOUS
  <2>2. PICK n \in T : TRUE
    OBVIOUS
  <2>3. N - n \in U
    OBVIOUS
  <2> QED BY <2>1, <2>3
<1> HIDE DEF U
<1>2. PICK u \in U : \A y \in U : u <= y
  BY <1>1, LeastNat
<1>3. PICK x \in T : u = N - x
  BY DEF U
<1>4. ASSUME NEW y \in T PROVE x >= y
  <2>1. N - y \in U
    BY DEF U
  <2>2. N - x <= N - y
    BY <1>2, <1>3, <2>1
  <2>3. x \in Int /\ y \in Int
    OBVIOUS
  <2> QED BY <2>2, <2>3
<1> QED BY <1>4

\* A hit is short of the last token of the prompt, and its blocks are indexed.
LEMMA HitFacts ==
  ASSUME NEW r \in Reqs
  PROVE  /\ Hit(r) \in 0..(PromptLen[r] - 1)
         /\ Chain(r, Hit(r)) \subseteq tree.blocks
         /\ seq[r].len # 0 => Hit(r) = 0
<1>1. PromptLen[r] - 1 \in Nat
  BY Lengths
<1>2. CASE seq[r].status = "replay" \/ seq[r].len # 0
  <2>1. Hit(r) = 0
    BY <1>2 DEF Hit
  <2> QED BY <1>1, <2>1, EmptyChain
<1>3. CASE ~(seq[r].status = "replay" \/ seq[r].len # 0)
  <2> DEFINE T == {n \in 0..(PromptLen[r] - 1) : Chain(r, n) \subseteq tree.blocks}
  <2>1. Hit(r) = Max(T)
    BY <1>3 DEF Hit
  <2>2. T \subseteq 0..(PromptLen[r] - 1) /\ 0 \in T
    BY <1>1, EmptyChain
  <2>3. \E x \in T : \A y \in T : x >= y
    <3> HIDE DEF T
    <3> QED BY <1>1, <2>2, GreatestNat
  <2>4. Max(T) \in T
    <3> HIDE DEF T
    <3> QED BY <2>3 DEF Max
  <2>5. seq[r].len = 0
    BY <1>3
  <2> QED BY <2>1, <2>4, <2>5
<1> QED BY <1>2, <1>3

\* The least of three numbers.
LEMMA ThreeNumbers ==
  ASSUME NEW a \in Nat, NEW b \in Nat, NEW c \in Nat, NEW m, m = Min({a, b, c})
  PROVE  m \in Nat /\ m <= a /\ m <= b /\ m <= c /\ (m = a \/ m = b \/ m = c)
<1>1. {a, b, c} \subseteq Nat /\ {a, b, c} # {}
  OBVIOUS
<1>2. \E x \in {a, b, c} : \A y \in {a, b, c} : x <= y
  BY <1>1, LeastNat
<1>3. m \in {a, b, c} /\ \A y \in {a, b, c} : m <= y
  BY <1>2 DEF Min
<1> QED BY <1>3

\* A candidate's chunk is not empty and ends within the prompt.
LEMMA ChunkFacts ==
  ASSUME PrefixInv, NEW r \in Reqs, Waiting(r), budget.step > 0
  PROVE  /\ Chunk(r) \in Nat /\ Chunk(r) > 0 /\ Chunk(r) <= budget.step
         /\ seq[r].len + Chunk(r) <= PromptLen[r]
         /\ Hit(r) + Chunk(r) <= PromptLen[r]
<1>1. PICK h : h = Hit(r)
  OBVIOUS
<1>2. h \in Nat /\ h < PromptLen[r] /\ (seq[r].len # 0 => h = 0)
  BY <1>1, HitFacts, Lengths
<1>3. seq[r].len \in Nat /\ PromptLen[r] \in Nat /\ seq[r].len < PromptLen[r]
  BY RowNumbers, Lengths DEF PrefixInv, StateType, Waiting
<1>4. PICK x : x = Max({seq[r].len, Hit(r)})
  OBVIOUS
<1>5. x \in Nat /\ x < PromptLen[r] /\ x >= h /\ x >= seq[r].len
  <2>1. x = IF seq[r].len >= h THEN seq[r].len ELSE h
    <3>1. PICK l : l = seq[r].len
      OBVIOUS
    <3>2. l \in Int /\ h \in Int /\ x = Max({l, h})
      BY <1>1, <1>2, <1>3, <1>4, <3>1
    <3>3. x = IF l >= h THEN l ELSE h
      BY <3>2, TwoNumbers
    <3> QED BY <3>1, <3>3
  <2> QED BY <1>2, <1>3, <2>1
<1>6. PICK m : m = Chunk(r)
  OBVIOUS
<1>7. m = Min({PromptLen[r] - x, ChunkSize, budget.step})
  BY <1>4, <1>6 DEF Chunk
<1>8. PromptLen[r] - x \in Nat /\ PromptLen[r] - x > 0
  BY <1>3, <1>5
<1>9. ChunkSize \in Nat /\ ChunkSize > 0 /\ budget.step \in Nat
  BY BatchAssumption, Quantities
<1>10. /\ m \in Nat /\ m <= PromptLen[r] - x /\ m <= ChunkSize /\ m <= budget.step
       /\ (m = PromptLen[r] - x \/ m = ChunkSize \/ m = budget.step)
  BY <1>7, <1>8, <1>9, ThreeNumbers
<1>11. m > 0 /\ seq[r].len + m <= PromptLen[r] /\ h + m <= PromptLen[r]
  BY <1>2, <1>3, <1>5, <1>8, <1>9, <1>10
<1> QED BY <1>1, <1>6, <1>10, <1>11
\* The budgets of the scan cover what one more candidate takes.
LEMMA ScheduledCovered ==
  ASSUME PrefixInv, NEW r \in Reqs, SchedulePrefill(r),
         \A q \in Reqs \ {r} : seq'[q] = seq[q],
         seq'[r].len = seq[r].len, seq'[r].status = seq[r].status, seq'[r].chunk = Chunk(r),
         seq'[r].hit = IF seq[r].len = 0 THEN Hit(r) ELSE seq[r].hit,
         ToSet(batch') = ToSet(batch) \cup {r}, r \notin ToSet(batch)
  PROVE  Covered'
<1>0. /\ pc = "scan" /\ pc' = "scan" /\ Waiting(r) /\ budget.step > 0
      /\ seq[r].len = 0 => AdmissionCost(r) <= budget.prompt
      /\ UNCHANGED <<tree, free>>
  BY DEF SchedulePrefill, Admissible, PrefillOpen
<1>1. ScanCovered /\ Hits \subseteq tree.blocks
  BY <1>0, RunningParts DEF Covered
<1>2. PICK c : c = Chunk(r)
  OBVIOUS
<1>3. PICK h : h = Hit(r)
  OBVIOUS
<1>4. c \in Nat /\ c <= budget.step
  BY <1>0, <1>2, ChunkFacts
<1>5. h \in Nat /\ h < PromptLen[r] /\ PromptLen[r] \in Nat /\ Chain(r, h) \subseteq tree.blocks
  BY <1>3, HitFacts, Lengths
<1>6. /\ budget \in [prompt : Nat, step : Nat, decode : Nat]
      /\ budget'.decode = budget.decode /\ budget'.step = budget.step - c
      /\ budget'.prompt = IF seq[r].len = 0 THEN budget.prompt - AdmissionCost(r) ELSE budget.prompt
  BY <1>2 DEF SchedulePrefill, PrefixInv, StateType
<1>7. PICK cap : cap = free + Cardinality(tree.view)
  OBVIOUS
<1>8. cap \in Nat /\ budget.prompt \in Nat /\ budget.step \in Nat /\ budget.decode \in Nat
  BY <1>7, Quantities
<1>9. budget'.step + Cardinality(Cells(Reqs, Takes')) <= cap
  <2>1. ToAllocate = ToSet(batch) /\ ToAllocate' = ToSet(batch) \cup {r}
    BY <1>0 DEF ToAllocate, ToAllocateAt
  <2>2. PICK f : f = Takes
    OBVIOUS
  <2>3. PICK g : g = Takes'
    OBVIOUS
  <2>4. f[r] = 0 /\ g[r] = c /\ \A q \in Reqs \ {r} : g[q] = f[q]
    BY <1>2, <2>1, <2>2, <2>3 DEF Takes, TakesOf
  <2>5. \A q \in Reqs : f[q] \in Nat
    BY <2>2, Quantities
  <2>6. \A q \in Reqs : f[q] \in Nat /\ g[q] \in Nat
    BY <1>4, <2>4, <2>5
  <2>7. /\ Cardinality(Cells(Reqs, f)) \in Nat
        /\ Cardinality(Cells(Reqs, g)) = Cardinality(Cells(Reqs, f)) + (g[r] - f[r])
    BY <2>4, <2>6, PagesMove
  <2>8. budget.step + Cardinality(Cells(Reqs, f)) <= cap
    BY <1>1, <1>7, <2>2 DEF ScanCovered
  <2>9. (budget.step - c) + Cardinality(Cells(Reqs, g)) <= cap
    BY <1>4, <1>8, <2>4, <2>7, <2>8
  <2> QED BY <1>6, <2>3, <2>9
<1>10. Attaching = {q \in ToSet(batch) : seq[q].len = 0}
       /\ Attaching' = {q \in ToSet(batch) \cup {r} : seq'[q].len = 0}
  BY <1>0 DEF Attaching, AttachingAt
<1>11. batch \in Seq(Reqs) /\ ToSet(batch) \subseteq Reqs
  BY DEF PrefixInv, StateType, ToSet
<1>12. CASE seq[r].len # 0
  <2>1. Attaching' = Attaching /\ r \notin Attaching
    BY <1>10, <1>11, <1>12
  <2>2. Hits' = Hits
    BY <1>11, <2>1, HitsAre DEF Hits, HitsOf
  <2>3. Claims' = Claims
    BY <2>1, HitsAre DEF Claims, Outstanding, Waiting, Unfinished
  <2>4. budget'.prompt = budget.prompt
    BY <1>6, <1>12
  <2>5. budget'.prompt > 0 \/ Attaching' # {} =>
          budget'.prompt + Cardinality(Hits' \ tree'.dev) + Cardinality(Hits' \cap tree'.view)
            + Cardinality(Cells(Reqs, Claims')) <= cap
    BY <1>0, <1>1, <1>7, <2>1, <2>2, <2>3, <2>4 DEF ScanCovered
  <2>6. ScanCovered'
    BY <1>0, <1>1, <1>6, <1>7, <1>9, <2>5 DEF ScanCovered
  <2> QED BY <1>0, <1>1, <2>2, <2>6 DEF Covered
<1>13. CASE seq[r].len = 0
  <2>1. Attaching' = Attaching \cup {r} /\ r \notin Attaching
    BY <1>10, <1>11, <1>13
  <2>2. Hits' = Hits \cup Chain(r, h)
    <3>1. \A q \in Attaching : Chain(q, seq'[q].hit) = Chain(q, seq[q].hit)
      BY <2>1, HitsAre
    <3>2. Chain(r, seq'[r].hit) = Chain(r, h)
      BY <1>3, <1>13
    <3>3. Hits' = UNION {Chain(q, seq'[q].hit) : q \in Attaching \cup {r}}
      BY <2>1 DEF Hits, HitsOf
    <3>4. Hits = UNION {Chain(q, seq[q].hit) : q \in Attaching}
      BY DEF Hits, HitsOf
    <3> QED BY <3>1, <3>2, <3>3, <3>4
  <2>3. PICK a : a = AdmissionCost(r)
    OBVIOUS
  <2>4. PICK C : C = Chain(r, h)
    OBVIOUS
  <2>5. PICK H : H = Hits
    OBVIOUS
  <2>6. /\ C \in SUBSET Blocks /\ H \in SUBSET Blocks /\ tree.view \in SUBSET Blocks
        /\ tree.dev \in SUBSET Blocks
    <3>1. h \in 0..Len(Stream[r])
      BY <1>5, Lengths
    <3> QED BY <2>4, <2>5, <3>1, ChainFacts, HitsAre
  <2>7. PICK cd : cd = Cardinality(C \ tree.dev)
    OBVIOUS
  <2>8. PICK cv : cv = Cardinality(C \cap tree.view)
    OBVIOUS
  <2>9. a = PromptLen[r] - h + cd + cv
    BY <1>3, <2>3, <2>4, <2>7, <2>8 DEF AdmissionCost
  <2>10. cd \in Nat /\ cv \in Nat
    BY <2>6, <2>7, <2>8, BlockSets
  <2>11. a \in Nat /\ a > 0 /\ a <= budget.prompt
    BY <1>0, <1>5, <1>13, <2>3, <2>9, <2>10
  <2>12. PICK hd : hd = Cardinality(H \ tree.dev)
    OBVIOUS
  <2>13. PICK hv : hv = Cardinality(H \cap tree.view)
    OBVIOUS
  <2>14. hd \in Nat /\ hv \in Nat
    BY <2>6, <2>12, <2>13, BlockSets
  <2>15. PICK k : k = Cardinality(Cells(Reqs, Claims))
    OBVIOUS
  <2>16. budget.prompt + hd + hv + k <= cap
    BY <1>1, <1>7, <1>8, <2>5, <2>11, <2>12, <2>13, <2>15 DEF ScanCovered
  <2>17. Cardinality((H \cup C) \ tree.dev) \in Nat /\ Cardinality((H \cup C) \ tree.dev) <= hd + cd
    <3>1. (H \cup C) \ tree.dev = (H \ tree.dev) \cup (C \ tree.dev)
      OBVIOUS
    <3>2. H \ tree.dev \in SUBSET Blocks /\ C \ tree.dev \in SUBSET Blocks
      BY <2>6
    <3>3. Cardinality((H \ tree.dev) \cup (C \ tree.dev)) <= hd + cd
      BY <2>7, <2>12, <3>2, BlockCounts
    <3>4. (H \ tree.dev) \cup (C \ tree.dev) \in SUBSET Blocks
      BY <3>2
    <3>5. Cardinality((H \ tree.dev) \cup (C \ tree.dev)) \in Nat
      BY <3>4, BlockSets
    <3> QED BY <3>1, <3>3, <3>5
  <2>18. /\ Cardinality((H \cup C) \cap tree.view) \in Nat
         /\ Cardinality((H \cup C) \cap tree.view) <= hv + cv
    <3>1. (H \cup C) \cap tree.view = (H \cap tree.view) \cup (C \cap tree.view)
      OBVIOUS
    <3>2. H \cap tree.view \in SUBSET Blocks /\ C \cap tree.view \in SUBSET Blocks
      BY <2>6
    <3>3. Cardinality((H \cap tree.view) \cup (C \cap tree.view)) <= hv + cv
      BY <2>8, <2>13, <3>2, BlockCounts
    <3>4. (H \cap tree.view) \cup (C \cap tree.view) \in SUBSET Blocks
      BY <3>2
    <3>5. Cardinality((H \cap tree.view) \cup (C \cap tree.view)) \in Nat
      BY <3>4, BlockSets
    <3> QED BY <3>1, <3>3, <3>5
  <2>19. Cardinality(Cells(Reqs, Claims')) = k + (PromptLen[r] - h) /\ k \in Nat
    <3>2. PICK f : f = Claims
      OBVIOUS
    <3>3. PICK g : g = Claims'
      OBVIOUS
    <3>4. f[r] = 0
      BY <1>13, <2>1, <3>2 DEF Claims, Outstanding
    <3>5. g[r] = PromptLen[r] - h
      BY <1>3, <1>13, <2>1, <3>3 DEF Claims
    <3>6. \A q \in Reqs \ {r} : g[q] = f[q]
      BY <2>1, <3>2, <3>3 DEF Claims, Outstanding, Waiting, Unfinished
    <3>7. \A q \in Reqs : f[q] \in Nat
      BY <3>2, Quantities
    <3>8. g[r] \in Nat
      BY <1>5, <3>5
    <3>9. \A q \in Reqs : f[q] \in Nat /\ g[q] \in Nat
      BY <3>6, <3>7, <3>8
    <3>10. /\ Cardinality(Cells(Reqs, f)) \in Nat
           /\ Cardinality(Cells(Reqs, g)) = Cardinality(Cells(Reqs, f)) + (g[r] - f[r])
      BY <3>6, <3>9, PagesMove
    <3> QED BY <1>5, <2>15, <3>2, <3>3, <3>4, <3>5, <3>10
  <2>20. budget'.prompt = budget.prompt - a
    BY <1>6, <1>13, <2>3
  <2>21. budget'.prompt + Cardinality((H \cup C) \ tree.dev) + Cardinality((H \cup C) \cap tree.view)
           + Cardinality(Cells(Reqs, Claims')) <= cap
    <3>1. PICK x : x = Cardinality((H \cup C) \ tree.dev)
      OBVIOUS
    <3>2. PICK y : y = Cardinality((H \cup C) \cap tree.view)
      OBVIOUS
    <3>3. x \in Nat /\ y \in Nat /\ x <= hd + cd /\ y <= hv + cv
      BY <2>17, <2>18, <3>1, <3>2
    <3>4. (budget.prompt - a) + x + y + (k + (PromptLen[r] - h)) <= cap
      BY <1>5, <1>8, <2>9, <2>10, <2>11, <2>14, <2>16, <2>19, <3>3
    <3> QED BY <2>19, <2>20, <3>1, <3>2, <3>4
  <2>22. ScanCovered'
    BY <1>0, <1>1, <1>6, <1>7, <1>9, <2>2, <2>4, <2>5, <2>21 DEF ScanCovered
  <2>23. Hits' \subseteq tree'.blocks
    BY <1>0, <1>1, <1>5, <2>2
  <2> QED BY <1>0, <2>22, <2>23 DEF Covered
<1> QED BY <1>12, <1>13

\* The scan takes one more candidate.
LEMMA SchedulePrefillStep ==
  ASSUME PrefixInv, NEW r \in Reqs, SchedulePrefill(r)
  PROVE  PrefixInv'
<1>0. /\ pc = "scan" /\ pc' = "scan" /\ Waiting(r) /\ budget.step > 0 /\ r \notin ToSet(batch)
      /\ seq[r].len = 0 => AdmissionCost(r) <= budget.prompt
      /\ batch' = Append(batch, r) /\ todo = <<>> /\ protected = {}
      /\ UNCHANGED <<tree, free, hostFree, pc, todo, awaited, protected, raised>>
  BY DEF PrefixInv, Flow, SchedulePrefill, Admissible, PrefillOpen, ToSet, Range
<1>1. PICK c : c = Chunk(r)
  OBVIOUS
<1>2. PICK h : h = Hit(r)
  OBVIOUS
<1>3. /\ c \in Nat /\ c > 0 /\ c <= budget.step /\ seq[r].len + c <= PromptLen[r]
      /\ h + c <= PromptLen[r]
  BY <1>0, <1>1, <1>2, ChunkFacts
<1>4. h \in Nat /\ h < PromptLen[r]
  BY <1>2, HitFacts, Lengths
<1>5. seq \in [Reqs -> RowType] /\ seq[r] \in RowType /\ RowOk(r)
  BY DEF PrefixInv, StateType
<1>6. seq[r].len \in Nat /\ seq[r].hit \in Nat
  BY <1>5, RowFields
<1>7. seq' = [seq EXCEPT ![r] = [seq[r] EXCEPT !.chunk = c, !.hit = IF seq[r].len = 0 THEN h ELSE seq[r].hit]]
  BY <1>1, <1>2, <1>5 DEF SchedulePrefill, RowType
<1>8. /\ seq'[r] \in RowType /\ seq'[r].chunk = c
      /\ seq'[r].hit = (IF seq[r].len = 0 THEN h ELSE seq[r].hit)
      /\ seq'[r].status = seq[r].status /\ seq'[r].len = seq[r].len
      /\ seq'[r].cached = seq[r].cached /\ seq'[r].held = seq[r].held
  BY <1>3, <1>4, <1>5, <1>6, <1>7 DEF RowType
<1>9. seq' \in [Reqs -> RowType] /\ \A q \in Reqs \ {r} : seq'[q] = seq[q]
  BY <1>5, <1>7, <1>8
<1>10. \A q \in Reqs \ {r} : Kept(q)
  BY <1>5, <1>9 DEF Kept
<1>11. HeldBlocks(r)' = HeldBlocks(r) /\ PrivatePages(r)' = PrivatePages(r)
  BY <1>8 DEF HeldBlocks, PrivatePages
<1>12. RowOk(r)'
  BY <1>0, <1>4, <1>5, <1>6, <1>8, <1>11 DEF RowOk, Unfinished
<1>13. ASSUME NEW q \in Reqs
       PROVE  RowOk(q)' /\ HeldBlocks(q)' = HeldBlocks(q) /\ PrivatePages(q)' = PrivatePages(q)
  <2>1. CASE q = r
    BY <1>11, <1>12, <2>1
  <2>2. CASE q # r
    <3>1. HeldBlocks(q) \subseteq tree'.blocks /\ RowOk(q)
      BY <1>0 DEF PrefixInv, RowOk
    <3> QED BY <1>10, <2>2, <3>1, RowKept
  <2> QED BY <2>1, <2>2
<1>14. Held' = Held /\ Private' = Private
  BY <1>13 DEF Held, Private
<1>15. RefsExact' /\ TiersConserved'
  BY <1>0, <1>14, Restated, RestatedNext DEF PrefixInv
<1>16. batch' \in Seq(Reqs) /\ IsInjective(batch') /\ ToSet(batch') = ToSet(batch) \cup {r}
  BY <1>0, AppendOwnership DEF PrefixInv, StateType
<1>17. budget' \in [prompt : Nat, step : Nat, decode : Nat]
  <2>1. budget \in [prompt : Nat, step : Nat, decode : Nat]
    BY DEF PrefixInv, StateType
  <2>2. budget.step - c \in Nat
    BY <1>3, <2>1
  <2>3. PICK a : a = AdmissionCost(r)
    OBVIOUS
  <2>4. seq[r].len = 0 => budget.prompt - a \in Nat
    <3>1. a \in Nat
      <4>1. Chain(r, h) \subseteq Blocks
        <5>1. h \in 0..Len(Stream[r])
          BY <1>4, Lengths
        <5> QED BY <5>1, ChainFacts
      <4>2. Cardinality(Chain(r, h) \ tree.dev) \in Nat /\ Cardinality(Chain(r, h) \cap tree.view) \in Nat
        BY <4>1, BlockSets
      <4>3. a = PromptLen[r] - h + Cardinality(Chain(r, h) \ tree.dev) + Cardinality(Chain(r, h) \cap tree.view)
        BY <1>2, <2>3 DEF AdmissionCost
      <4> QED BY <1>4, <4>2, <4>3, Lengths
    <3> QED BY <1>0, <2>1, <2>3, <3>1
  <2>5. budget' = [budget EXCEPT !.prompt = IF seq[r].len = 0 THEN budget.prompt - a ELSE budget.prompt,
                                 !.step = budget.step - c]
    BY <1>1, <2>1, <2>3 DEF SchedulePrefill
  <2> QED BY <2>1, <2>2, <2>4, <2>5
<1>18. StateType'
  BY <1>0, <1>9, <1>16, <1>17, EmptyOwnership DEF PrefixInv, StateType
<1>19. Flow'
  BY <1>0 DEF Flow
<1>20. ASSUME NEW q \in Reqs PROVE Saved(q)' /\ Readable(q)'
  <2>1. Unsaved(q)' = 0 /\ Unsaved(q) = 0
    BY <1>0 DEF Unsaved, ToInsert, ToInsertAt
  <2>2. Saved(q) /\ Readable(q) /\ RowOk(q) /\ ~Promoting(q)
    BY <1>0, RunningParts DEF PrefixInv, Promoting
  <2>3. CASE q = r
    <3>1. Saved(r)'
      BY <1>8, <1>11, <2>1, <2>2, <2>3 DEF Saved
    <3>2. Readable(r)'
      BY <1>0, <1>8, <2>2, <2>3 DEF Readable, OnDevice, CopiesAwaited
    <3> QED BY <2>3, <3>1, <3>2
  <2>4. CASE q # r
    <3>1. Kept(q)
      BY <1>10, <2>4
    <3>2. Saved(q)'
      BY <2>1, <2>2, <3>1, SavedKept
    <3>3. Readable(q)'
      BY <1>0, <2>2, <3>1, ReadableKept
    <3> QED BY <3>2, <3>3
  <2> QED BY <2>3, <2>4
<1>21. ToAllocate = ToSet(batch) /\ ToAllocate' = ToSet(batch) \cup {r}
  BY <1>0, <1>16 DEF ToAllocate, ToAllocateAt
<1>22. ASSUME NEW q \in ToAllocate' PROVE ChunkFits(q)' /\ HitTaken(q)'
  <2>1. HitTaken(q)'
    BY <1>0, <1>16, <1>21, <1>22 DEF HitTaken, Attaching, AttachingAt
  <2>2. CASE q = r
    <3>1. Waiting(r)'
      BY <1>0, <1>8 DEF Waiting, Unfinished
    <3>2. seq'[r].hit + c <= PromptLen[r]
      <4>1. CASE seq[r].len = 0
        BY <1>3, <1>8, <4>1
      <4>2. CASE seq[r].len # 0
        <5>1. seq'[r].hit <= seq[r].len
          BY <1>5, <1>6, <1>8, <4>2 DEF RowOk
        <5> QED BY <1>3, <1>6, <1>8, <4>2, <5>1, Lengths
      <4> QED BY <4>1, <4>2
    <3> QED BY <1>3, <1>8, <2>1, <2>2, <3>1, <3>2 DEF ChunkFits
  <2>3. CASE q # r
    <3>1. q \in ToAllocate /\ q \in Reqs
      BY <1>21, <2>3, HitsAre
    <3>2. ChunkFits(q) /\ Kept(q)
      BY <1>0, <1>10, <2>3, <3>1, RunningParts
    <3> QED BY <2>1, <3>1, <3>2, RowKept
  <2> QED BY <2>2, <2>3
<1>23. Covered'
  BY <1>0, <1>1, <1>2, <1>8, <1>9, <1>16, ScheduledCovered
<1>24. Running'
  BY <1>0, <1>20, <1>22, <1>23, RunningParts DEF Running
<1>25. PromiseKept'
  BY <1>0 DEF PrefixInv, PromiseKept
<1>26. TreeOk(tree')
  BY <1>0 DEF PrefixInv
<1> QED BY <1>13, <1>15, <1>18, <1>19, <1>24, <1>25, <1>26 DEF PrefixInv
-----------------------------------------------------------------------------
(* Copies that complete, and pages that are reclaimed.                     *)

\* Blocks nobody uses have left the device, and copies were completed.
Reclaimed(t, u, D) ==
  /\ u.blocks = t.blocks /\ u.ref = t.ref /\ u.pinned = t.pinned
  /\ u.dev = t.dev \ D /\ D \subseteq t.dev /\ \A b \in D : t.ref[b] = 0
  /\ u.pending = t.pending /\ Hosted(u) = Hosted(t) /\ InH2D(u) \subseteq InH2D(t)

\* Copies complete and blocks nobody uses leave the device.
LEMMA ReclaimedStep ==
  ASSUME PrefixInv, pc # "stopped", NEW D, TreeOk(tree'), Reclaimed(tree, tree', D),
         free' = free + Cardinality(D), Covered',
         UNCHANGED <<hostFree, seq, pc, batch, todo, budget, awaited, protected, raised>>
  PROVE  PrefixInv'
<1>1. \A r \in Reqs : Kept(r)
  BY SameRows DEF PrefixInv
<1>2. (\A r \in Reqs : RowOk(r)') /\ Held' = Held /\ Private' = Private
  BY <1>1, RowsKept DEF Reclaimed
<1>3. RefsExact'
  BY <1>2, Restated, RestatedNext DEF PrefixInv, Reclaimed
<1>4. tree.dev \in SUBSET Blocks /\ D \in SUBSET Blocks
  BY HitsAre DEF Reclaimed
<1>5. Cardinality(tree'.dev) = Cardinality(tree.dev) - Cardinality(D)
  <2>1. PICK A : A = tree.dev
    OBVIOUS
  <2>2. A \in SUBSET Blocks /\ D \in SUBSET Blocks /\ D \subseteq A /\ tree'.dev = A \ D
    BY <1>4, <2>1 DEF Reclaimed
  <2>3. Cardinality(A \ D) = Cardinality(A) - Cardinality(D)
    BY <2>2, BlockCounts
  <2> QED BY <2>1, <2>2, <2>3
<1>6. Cardinality(tree.dev) \in Nat /\ Cardinality(D) \in Nat /\ free \in Nat
  BY <1>4, BlockSets, Quantities
<1>7. TiersConserved'
  <2>1. PICK k : k = Cardinality(Cells(Reqs, Private))
    OBVIOUS
  <2>2. k \in Nat
    <3>1. \A r \in Reqs : Private[r] \in Int
      BY RowNumbers DEF PrefixInv, StateType, Private
    <3> QED BY <2>1, <3>1, StreamAssumption, CellsFinite
  <2>3. free + k + Cardinality(tree.dev) = NumPages /\ HostPagesOf(hostFree, tree)
    BY <2>1, Restated DEF PrefixInv, PagesOf
  <2>4. (free + Cardinality(D)) + k + (Cardinality(tree.dev) - Cardinality(D)) = NumPages
    BY <1>6, <2>2, <2>3
  <2>5. PagesOf(free', Private', tree'.dev)
    BY <1>2, <1>5, <2>1, <2>4 DEF PagesOf
  <2>6. HostPagesOf(hostFree', tree')
    BY <2>3 DEF HostPagesOf, Reclaimed
  <2> QED BY <2>5, <2>6, RestatedNext
<1>8. StateType'
  BY <1>6 DEF PrefixInv, StateType, Reclaimed
<1>9. Flow'
  BY DEF PrefixInv, Flow, Decoding
<1>10. ASSUME NEW r \in Reqs PROVE Saved(r)' /\ Readable(r)'
  <2>1. Saved(r) /\ Readable(r) /\ RowOk(r) /\ Kept(r)
    BY <1>1, RunningParts DEF PrefixInv
  <2>2. Unsaved(r)' = Unsaved(r) /\ (Promoting(r)' <=> Promoting(r))
    BY DEF Unsaved, ToInsert, ToInsertAt, Promoting
  <2>3. \A b \in HeldBlocks(r) : b \in tree.dev => b \in tree'.dev
    BY InUse DEF Reclaimed
  <2>4. \A b \in InH2D(tree') : (b \in InH2D(tree) => b \in awaited) => b \in awaited'
    BY DEF Reclaimed
  <2> QED BY <2>1, <2>2, <2>3, <2>4, SavedKept, ReadableKept
<1>11. \A r \in ToAllocate' : ChunkFits(r)' /\ HitTaken(r)'
  <2>1. ToAllocate' = ToAllocate /\ Attaching' = Attaching
    BY DEF ToAllocate, ToAllocateAt, Attaching, AttachingAt
  <2> QED BY <1>1, <2>1, StillTaking
<1>12. Remembered(tree')
  BY RunningParts DEF Remembered, Reclaimed
<1>13. Running'
  BY <1>10, <1>11, <1>12 DEF Running
<1>14. PromiseKept'
  BY DEF PrefixInv, PromiseKept, Reclaimed
<1> QED BY <1>2, <1>3, <1>7, <1>8, <1>9, <1>13, <1>14 DEF PrefixInv

\* The number of pages the batch has still to take.
LEMMA PagesToTakeIs ==
  ASSUME PrefixInv
  PROVE  PagesToTake \in Nat
<1>1. Len(todo) \in Nat
  BY DEF PrefixInv, StateType
<1> QED BY <1>1, Quantities DEF PagesToTake

\* poll().
LEMMA PollStep ==
  ASSUME PrefixInv, Poll
  PROVE  PrefixInv'
<1>0. /\ pc \in {"attach", "decode"} \/ (pc = "scan" /\ batch = <<>>)
      /\ tree' \in Polled(tree)
      /\ UNCHANGED <<free, hostFree, seq, pc, batch, todo, budget, awaited, protected, raised>>
  BY DEF Poll
<1>1. TreeOk(tree) /\ TreeOk(tree') /\ Advanced(tree, tree')
  BY <1>0, PolledOk DEF PrefixInv
<1>2. Reclaimed(tree, tree', {})
  BY <1>1 DEF Advanced, Reclaimed
<1>3. pc # "stopped"
  BY <1>0
<1>4. /\ Hits' = Hits /\ PagesToTake' = PagesToTake /\ Takes' = Takes /\ Claims' = Claims
      /\ Attaching' = Attaching
  BY <1>0 DEF Hits, HitsOf, PagesToTake, Takes, TakesOf, Claims, Outstanding, Waiting, Unfinished,
              Attaching, AttachingAt, ToAllocate, ToAllocateAt
<1>5. Covered
  BY <1>3, RunningParts
<1>6. free \in Nat /\ Hits \in SUBSET Blocks /\ PagesToTake \in Nat
  BY Quantities, HitsAre, PagesToTakeIs
<1>7. CASE pc \in {"attach", "decode"}
  <2>1. Affords(tree, free, Hits, PagesToTake)
    BY <1>5, <1>7 DEF Covered
  <2>2. Affords(tree', free, Hits, PagesToTake)
    BY <1>1, <1>6, <2>1, AffordsAdvanced
  <2>3. Hits' \subseteq tree'.blocks
    BY <1>1, <1>4, <1>5 DEF Covered, Advanced
  <2>4. Covered'
    BY <1>0, <1>4, <1>7, <2>2, <2>3 DEF Covered
  <2> QED BY <1>0, <1>1, <1>2, <1>3, <1>6, <2>4, ReclaimedStep, FS_EmptySet
<1>8. CASE pc = "scan" /\ batch = <<>>
  <2>1. Attaching = {}
    BY <1>8, EmptyOwnership DEF Attaching, AttachingAt
  <2>2. Hits = {}
    BY <2>1, NoTakes DEF Hits
  <2>3. PICK v : v = Cardinality(tree.view)
    OBVIOUS
  <2>4. PICK w : w = Cardinality(tree'.view)
    OBVIOUS
  <2>5. v \in Nat /\ w \in Nat /\ v <= w
    <3>1. tree.view \in SUBSET Blocks /\ tree'.view \in SUBSET Blocks /\ tree.view \subseteq tree'.view
      BY <1>1, TreeFields DEF TreeOk, Advanced
    <3> QED BY <2>3, <2>4, <3>1, BlockSets, BlockCounts
  <2>6. PICK k : k = Cardinality(Cells(Reqs, Takes))
    OBVIOUS
  <2>7. PICK c : c = Cardinality(Cells(Reqs, Claims))
    OBVIOUS
  <2>8. k \in Nat /\ c \in Nat /\ budget.prompt \in Nat /\ budget.step \in Nat /\ budget.decode \in Nat
    BY <2>6, <2>7, Quantities
  <2>9. /\ Cardinality(Hits \ tree.dev) = 0 /\ Cardinality(Hits \cap tree.view) = 0
        /\ Cardinality(Hits \ tree'.dev) = 0 /\ Cardinality(Hits \cap tree'.view) = 0
    BY <2>2, FS_EmptySet
  <2>10. ScanCovered
    BY <1>5, <1>8 DEF Covered
  <2>11. /\ budget.decode <= free + v /\ budget.step + k <= free + v
         /\ budget.prompt > 0 => budget.prompt + 0 + 0 + c <= free + v
    BY <2>3, <2>6, <2>7, <2>9, <2>10 DEF ScanCovered
  <2>12. /\ budget.decode <= free + w /\ budget.step + k <= free + w
         /\ budget.prompt > 0 => budget.prompt + 0 + 0 + c <= free + w
    BY <1>6, <2>5, <2>8, <2>11
  <2>13. ScanCovered'
    BY <1>0, <1>4, <2>1, <2>4, <2>6, <2>7, <2>9, <2>12 DEF ScanCovered
  <2>14. Covered'
    BY <1>0, <1>4, <1>8, <2>2, <2>13 DEF Covered
  <2> QED BY <1>0, <1>1, <1>2, <1>3, <1>6, <2>14, ReclaimedStep, FS_EmptySet
<1> QED BY <1>0, <1>7, <1>8

\* What the thread waits for is part of what the batch was granted.
LEMMA NeedGranted ==
  ASSUME PrefixInv, pc \in {"promote", "alloc", "decode"}, todo # <<>>
  PROVE  Need \in Nat /\ Need <= Cardinality(Hits \ tree.dev) + PagesToTake
<1>1. todo \in Seq(Reqs) /\ Head(todo) \in Reqs /\ Head(todo) \in ToSet(todo)
  BY TailOwnership DEF PrefixInv, StateType
<1>2. Cardinality(Hits \ tree.dev) \in Nat /\ PagesToTake \in Nat
  <2>1. Hits \ tree.dev \in SUBSET Blocks
    BY HitsAre
  <2> QED BY <2>1, BlockSets, PagesToTakeIs
<1>3. CASE pc = "promote"
  <2>1. PICK C : C = Chain(Head(todo), seq[Head(todo)].hit)
    OBVIOUS
  <2>2. Need = Cardinality(C \ tree.dev)
    BY <1>3, <2>1 DEF Need
  <2>3. Head(todo) \in Attaching
    BY <1>1, <1>3 DEF Attaching, AttachingAt
  <2>4. C \subseteq Hits
    BY <2>1, <2>3 DEF Hits, HitsOf
  <2>5. C \ tree.dev \in SUBSET Blocks /\ Hits \ tree.dev \in SUBSET Blocks
        /\ C \ tree.dev \subseteq Hits \ tree.dev
    BY <2>4, HitsAre
  <2>6. Cardinality(C \ tree.dev) <= Cardinality(Hits \ tree.dev) /\ Cardinality(C \ tree.dev) \in Nat
    BY <2>5, BlockSets, BlockCounts
  <2> QED BY <1>2, <2>2, <2>6
<1>4. CASE pc = "alloc"
  <2>1. Need = seq[Head(todo)].chunk
    BY <1>4 DEF Need
  <2>2. Takes[Head(todo)] = seq[Head(todo)].chunk
    BY <1>1, <1>4 DEF Takes, TakesOf, ToAllocate, ToAllocateAt
  <2>3. PICK f : f = Takes
    OBVIOUS
  <2>4. \A q \in Reqs : f[q] \in Nat /\ f[q] \in Nat
    BY <2>3, Quantities
  <2>5. f[Head(todo)] <= Cardinality(Cells(Reqs, f)) /\ Cardinality(Cells(Reqs, f)) \in Nat
    BY <1>1, <2>4, PagesMove
  <2>6. PagesToTake = Cardinality(Cells(Reqs, f))
    BY <1>4, <2>3 DEF PagesToTake
  <2> QED BY <1>1, <1>2, <2>1, <2>2, <2>3, <2>4, <2>5, <2>6
<1>5. CASE pc = "decode"
  <2>1. Need = Len(todo) /\ PagesToTake = Len(todo)
    BY <1>5 DEF Need, PagesToTake
  <2> QED BY <1>2, <2>1
<1> QED BY <1>3, <1>4, <1>5

\* When no copy to the host is left to wait for, a batch that is granted its
\* pages has found them.
LEMMA PagesFound ==
  ASSUME NEW t, TreeOk(t), t.d2h = <<>>, NEW f \in Nat, NEW H \in SUBSET Blocks, NEW n \in Nat,
         Affords(t, f, H, n), NEW k \in Nat, k <= Cardinality(H \ t.dev) + n, f < k,
         NEW D \in Leaves(DeviceFreeable(t), k - f)
  PROVE  f + Cardinality(D) >= k
<1>1. InD2H(t) = {}
  BY DEF InD2H, Range
<1>2. DeviceFreeable(t) = t.view
  BY <1>1, FreeableNow
<1>3. PICK v : v = Cardinality(t.view)
  OBVIOUS
<1>4. t.view \in SUBSET Blocks
  BY TreeFields DEF TreeOk
<1>5. t.view \ H \in SUBSET Blocks /\ t.view \ H \subseteq t.view /\ H \ t.dev \in SUBSET Blocks
  BY <1>4
<1>6. v \in Nat /\ Cardinality(t.view \ H) \in Nat /\ Cardinality(t.view \ H) <= v
      /\ Cardinality(H \ t.dev) \in Nat
  BY <1>3, <1>4, <1>5, BlockSets, BlockCounts
<1>7. Cardinality(D) = Min({k - f, v})
  BY <1>2, <1>3, LeavesAre
<1>8. Cardinality(D) = IF k - f <= v THEN k - f ELSE v
  BY <1>6, <1>7, TwoNumbers
<1>9. k <= f + v
  BY <1>6 DEF Affords
<1> QED BY <1>6, <1>8, <1>9

\* A turn of the loop that frees pages: the last one finds them.
LEMMA ReclaimStep ==
  ASSUME PrefixInv, Reclaim
  PROVE  PrefixInv'
<1>0. /\ pc \in {"promote", "alloc", "decode"} /\ todo # <<>> /\ free < Need
      /\ UNCHANGED <<hostFree, seq, batch, todo, budget, awaited, protected>>
  BY DEF Reclaim
<1>1. PICK k : k = Need
  OBVIOUS
<1>2. PICK t \in Polled(tree) : \E D \in Leaves(DeviceFreeable(t), k - free) :
        /\ free' = free + Cardinality(D)
        /\ IF free' >= k
           THEN tree' = Demote(t, D) /\ UNCHANGED <<pc, raised>>
           ELSE IF Demote(t, D).d2h # <<>>
           THEN (\E j \in 1..Len(Demote(t, D).d2h) : tree' = FinishD2H(Demote(t, D), j))
                /\ UNCHANGED <<pc, raised>>
           ELSE tree' = Demote(t, D) /\ Raise("out of pages")
  BY <1>1 DEF Reclaim
<1>3. PICK D \in Leaves(DeviceFreeable(t), k - free) :
        /\ free' = free + Cardinality(D)
        /\ IF free' >= k
           THEN tree' = Demote(t, D) /\ UNCHANGED <<pc, raised>>
           ELSE IF Demote(t, D).d2h # <<>>
           THEN (\E j \in 1..Len(Demote(t, D).d2h) : tree' = FinishD2H(Demote(t, D), j))
                /\ UNCHANGED <<pc, raised>>
           ELSE tree' = Demote(t, D) /\ Raise("out of pages")
  BY <1>2
<1>4. PICK u : u = Demote(t, D)
  OBVIOUS
<1>5. TreeOk(tree) /\ TreeOk(t) /\ Advanced(tree, t)
  BY PolledOk DEF PrefixInv
<1>6. TreeOk(u) /\ Demoted(t, u, D)
  BY <1>4, <1>5, DemoteOk
<1>7. free \in Nat /\ Hits \in SUBSET Blocks /\ PagesToTake \in Nat
  BY Quantities, HitsAre, PagesToTakeIs
<1>8. k \in Nat /\ k <= Cardinality(Hits \ tree.dev) + PagesToTake
  BY <1>0, <1>1, NeedGranted
<1>9. Affords(tree, free, Hits, PagesToTake) /\ Hits \subseteq tree.blocks /\ pc # "stopped"
  BY <1>0, RunningParts DEF Covered
<1>10. Affords(t, free, Hits, PagesToTake)
  BY <1>5, <1>7, <1>9, AffordsAdvanced
<1>11. Affords(u, free + Cardinality(D), Hits, PagesToTake)
  BY <1>5, <1>6, <1>7, <1>10, AffordsDemoted
<1>12. free' >= k \/ u.d2h # <<>>
  <2>1. SUFFICES ASSUME u.d2h = <<>> PROVE free' >= k
    OBVIOUS
  <2>2. t.d2h = <<>>
    BY <1>6, <2>1 DEF Demoted
  <2>3. k <= Cardinality(Hits \ t.dev) + PagesToTake
    BY <1>5, <1>8 DEF Advanced
  <2> QED BY <1>0, <1>1, <1>3, <1>5, <1>7, <1>8, <1>10, <2>2, <2>3, PagesFound
<1>13. TreeOk(tree') /\ Advanced(u, tree') /\ pc' = pc /\ raised' = raised
  <2>1. CASE free' >= k
    BY <1>3, <1>4, <1>6, <2>1, AdvancedOrder
  <2>2. CASE ~(free' >= k)
    <3>1. PICK j \in 1..Len(u.d2h) : tree' = FinishD2H(u, j)
      BY <1>3, <1>4, <1>12, <2>2
    <3>2. j \in 0..Len(u.d2h)
      BY <3>1
    <3>3. TreeOk(tree') /\ Advanced(u, tree')
      BY <1>6, <3>1, <3>2, FinishD2HOk
    <3> QED BY <1>3, <1>4, <1>12, <2>2, <3>3
  <2> QED BY <2>1, <2>2
<1>14. free + Cardinality(D) \in Nat
  <2>1. D \subseteq t.dev /\ t.dev \subseteq Blocks
    BY <1>5, <1>6, TreeFields DEF TreeOk, Demoted
  <2>2. D \in SUBSET Blocks
    BY <2>1
  <2>3. Cardinality(D) \in Nat
    BY <2>2, BlockSets
  <2> QED BY <1>7, <2>3
<1>15. Affords(tree', free', Hits, PagesToTake)
  BY <1>3, <1>6, <1>7, <1>11, <1>13, <1>14, AffordsAdvanced
<1>16. Reclaimed(tree, tree', D)
  <2>1. InH2D(u) = InH2D(t) /\ Hosted(u) = Hosted(t)
    BY <1>6 DEF Demoted, InH2D, Hosted, InD2H
  <2> QED BY <1>5, <1>6, <1>13, <2>1 DEF Advanced, Demoted, Reclaimed
<1>17. Covered'
  <2>1. Hits' = Hits /\ PagesToTake' = PagesToTake
    BY <1>0, <1>13 DEF Hits, HitsOf, PagesToTake, Takes, TakesOf, Attaching, AttachingAt,
                       ToAllocate, ToAllocateAt
  <2>2. Hits \subseteq tree'.blocks
    BY <1>9, <1>16 DEF Reclaimed
  <2> QED BY <1>0, <1>13, <1>15, <2>1, <2>2 DEF Covered
<1> QED BY <1>0, <1>3, <1>9, <1>13, <1>16, <1>17, ReclaimedStep
-----------------------------------------------------------------------------
(* Attachment, promotion and allocation.                                   *)

\* Only the row of r changes, and what the others hold stays indexed.
LEMMA OthersKept ==
  ASSUME PrefixInv, NEW r \in Reqs, \A q \in Reqs \ {r} : Kept(q),
         \A q \in Reqs \ {r} : HeldBlocks(q) \subseteq tree'.blocks
  PROVE  /\ \A q \in Reqs \ {r} : RowOk(q)'
         /\ SameBut(Held, Held', r) /\ SameBut(Private, Private', r)
<1>1. ASSUME NEW q \in Reqs \ {r}
      PROVE  RowOk(q)' /\ HeldBlocks(q)' = HeldBlocks(q) /\ PrivatePages(q)' = PrivatePages(q)
  BY RowKept DEF PrefixInv
<1>2. SameBut(Held, Held', r)
  BY <1>1 DEF SameBut, Held
<1>3. SameBut(Private, Private', r)
  BY <1>1 DEF SameBut, Private
<1> QED BY <1>1, <1>2, <1>3

\* Whoever keeps a reference more forgets nothing.
LEMMA RemembersAdded ==
  ASSUME NEW t, TreeOk(t), NEW u, NEW S, RefsChanged(t, u, S, 1), Remembered(t)
  PROVE  Remembered(u)
<1>1. /\ u.dev = t.dev /\ u.pending = t.pending /\ Hosted(u) = Hosted(t)
      /\ \A b \in Blocks : u.ref[b] = IF b \in S THEN t.ref[b] + 1 ELSE t.ref[b]
  BY DEF RefsChanged, Hosted, InD2H
<1>2. t.dev \subseteq Blocks /\ \A b \in Blocks : t.ref[b] \in Nat
  BY TreeFields DEF TreeOk
<1> SUFFICES ASSUME NEW b \in u.dev \ Hosted(u), u.ref[b] = 0
             PROVE  b \in u.pending /\ \E a \in Ancestors(b) : u.ref[a] > 0 /\ a \notin Hosted(u)
  BY DEF Remembered
<1>3. b \in Blocks /\ b \in t.dev \ Hosted(t)
  BY <1>1, <1>2
<1>4. t.ref[b] = 0
  BY <1>1, <1>2, <1>3
<1>5. PICK a \in Ancestors(b) : t.ref[a] > 0 /\ a \notin Hosted(t)
  BY <1>3, <1>4 DEF Remembered
<1>6. a \in Blocks
  BY <1>3, AncestorFacts
<1>7. u.ref[a] > 0
  BY <1>1, <1>2, <1>5, <1>6
<1> QED BY <1>1, <1>3, <1>4, <1>5, <1>7 DEF Remembered

\* The hit of a request is referenced.
LEMMA AttachStep ==
  ASSUME PrefixInv, Attach
  PROVE  PrefixInv'
<1>0. pc = "attach" /\ todo # <<>> /\ protected = {} /\ pc # "stopped"
  BY DEF Attach, PrefixInv, Flow
<1>1. PICK r : r = Head(todo)
  OBVIOUS
<1>2. /\ todo \in Seq(Reqs) /\ Tail(todo) \in Seq(Reqs) /\ r \in Reqs /\ r \in ToSet(todo)
      /\ ToSet(todo) = {r} \cup ToSet(Tail(todo)) /\ IsInjective(Tail(todo))
      /\ r \notin ToSet(Tail(todo)) /\ ToSet(todo) \subseteq ToSet(batch)
  BY <1>0, <1>1, TailOwnership DEF PrefixInv, StateType
<1>3. seq \in [Reqs -> RowType] /\ seq[r] \in RowType /\ RowOk(r)
  BY <1>2 DEF PrefixInv, StateType
<1>4. seq[r].len \in Nat /\ seq[r].hit \in Nat /\ seq[r].hit < PromptLen[r]
  BY <1>2, <1>3, RowNumbers
<1>5. CASE ~(seq[r].len = 0 /\ seq[r].hit > 0)
  <2>0. /\ todo' = Tail(todo)
        /\ UNCHANGED <<tree, free, hostFree, seq, pc, batch, budget, awaited, protected, raised>>
    BY <1>1, <1>5 DEF Attach
  <2>1. \A q \in Reqs : Kept(q)
    BY <2>0, SameRows DEF PrefixInv
  <2>2. TreeOk(tree') /\ (\A q \in Reqs : RowOk(q)') /\ RefsExact' /\ TiersConserved'
    BY <2>0, <2>1, StillHeld
  <2>3. StateType'
    BY <1>2, <2>0 DEF PrefixInv, StateType, PCs
  <2>4. Flow'
    BY <1>0, <2>0 DEF Flow
  <2>5. \A q \in Reqs : Saved(q)' /\ Readable(q)'
    <3>1. \A q \in Reqs : Unsaved(q)' = Unsaved(q)
      BY <1>0, <2>0 DEF Unsaved, ToInsert, ToInsertAt
    <3> QED BY <1>0, <2>0, <2>1, <3>1, StillSaved, StillReadable
  <2>6. ToAllocate' = ToAllocate /\ Takes' = Takes
    BY <1>0, <2>0 DEF ToAllocate, ToAllocateAt, Takes, TakesOf
  <2>7. /\ Attaching = {q \in ToSet(todo) : seq[q].len = 0}
        /\ Attaching' = {q \in ToSet(Tail(todo)) : seq[q].len = 0}
    BY <1>0, <2>0 DEF Attaching, AttachingAt
  <2>8. \A q \in ToAllocate' : q \in Attaching /\ seq[q].hit > 0 => q \in Attaching'
    BY <1>2, <1>5, <2>7
  <2>9. \A q \in ToAllocate' : ChunkFits(q)' /\ HitTaken(q)'
    BY <1>0, <2>1, <2>6, <2>8, StillTaking
  <2>10. Hits' = Hits
    <3>1. seq[r].len = 0 => Chain(r, seq[r].hit) = {}
      BY <1>4, <1>5, EmptyChain
    <3>2. Hits = UNION {Chain(q, seq[q].hit) : q \in Attaching}
          /\ Hits' = UNION {Chain(q, seq[q].hit) : q \in Attaching'}
      BY <2>0 DEF Hits, HitsOf
    <3> QED BY <1>2, <2>7, <3>1, <3>2
  <2>11. Covered'
    BY <1>0, <2>0, <2>6, <2>10, RunningParts DEF Covered, PagesToTake
  <2>12. Running'
    BY <1>0, <2>0, <2>5, <2>9, <2>11, RunningParts DEF Running
  <2>13. PromiseKept'
    BY <2>0 DEF PrefixInv, PromiseKept
  <2> QED BY <2>2, <2>3, <2>4, <2>12, <2>13 DEF PrefixInv
<1>6. CASE seq[r].len = 0 /\ seq[r].hit > 0
  <2>1. PICK C : C = Chain(r, seq[r].hit)
    OBVIOUS
  <2>2. r \in Attaching /\ Attaching = {q \in ToSet(todo) : seq[q].len = 0}
    BY <1>0, <1>2, <1>6 DEF Attaching, AttachingAt
  <2>3. C \subseteq Hits /\ Hits \subseteq tree.blocks
    BY <1>0, <2>1, <2>2, RunningParts DEF Hits, HitsOf, Covered
  <2>4. /\ tree' = ChangeRefs(tree, C, 1)
        /\ seq' = [seq EXCEPT ![r].len = seq[r].hit, ![r].cached = 1..seq[r].hit]
        /\ awaited' = (awaited \cap InH2D(tree)) \cup UNION {op \in tree.h2d : op \cap C # {}}
        /\ pc' = "promote"
        /\ UNCHANGED <<free, hostFree, batch, todo, budget, protected, raised>>
    BY <1>1, <1>6, <2>1, <2>3 DEF Attach
  <2>5. seq[r].hit \in 0..Len(Stream[r])
    BY <1>2, <1>4, Lengths
  <2>6. C \in SUBSET Blocks /\ Rooted(C)
    BY <1>2, <2>1, <2>5, ChainFacts
  <2>7. TreeOk(tree) /\ \A b \in Blocks : tree.ref[b] \in Nat
    BY InUse DEF PrefixInv
  <2>8. TreeOk(tree') /\ RefsChanged(tree, tree', C, 1)
    BY <2>4, <2>6, <2>7, ChangeRefsOk
  <2>9. /\ tree'.blocks = tree.blocks /\ tree'.dev = tree.dev /\ tree'.pinned = tree.pinned
        /\ Hosted(tree') = Hosted(tree) /\ InH2D(tree') = InH2D(tree)
        /\ \A b \in Blocks : tree'.ref[b] = IF b \in C THEN tree.ref[b] + 1 ELSE tree.ref[b]
    BY <2>8 DEF RefsChanged, Hosted, InD2H, InH2D
  <2>10. /\ seq'[r] \in RowType /\ seq'[r].len = seq[r].hit /\ seq'[r].cached = 1..seq[r].hit
         /\ seq'[r].status = seq[r].status /\ seq'[r].chunk = seq[r].chunk
         /\ seq'[r].hit = seq[r].hit /\ seq'[r].held = seq[r].held
         /\ seq' \in [Reqs -> RowType] /\ \A q \in Reqs \ {r} : seq'[q] = seq[q]
    <3>1. seq' = [seq EXCEPT ![r] = [seq[r] EXCEPT !.len = seq[r].hit, !.cached = 1..seq[r].hit]]
      BY <1>3, <2>4 DEF RowType
    <3>2. 1..seq[r].hit \in SUBSET Nat
      BY <1>4
    <3>3. [seq[r] EXCEPT !.len = seq[r].hit, !.cached = 1..seq[r].hit] \in RowType
      BY <1>3, <1>4, <3>2 DEF RowType
    <3>4. seq'[r] = [seq[r] EXCEPT !.len = seq[r].hit, !.cached = 1..seq[r].hit]
          /\ seq' \in [Reqs -> RowType] /\ \A q \in Reqs \ {r} : seq'[q] = seq[q]
      BY <1>2, <1>3, <3>1, <3>3
    <3> QED BY <1>3, <3>3, <3>4 DEF RowType
  <2>11. \A q \in Reqs \ {r} : Kept(q)
    BY <1>3, <2>10 DEF Kept
  <2>12. HeldBlocks(r) = {} /\ PrivatePages(r) = 0 /\ seq[r].held = {}
    BY <1>2, <1>3, <1>6, EmptyRow DEF RowOk
  <2>13. HeldBlocks(r)' = C
    BY <1>6, <2>1, <2>10, <2>12 DEF HeldBlocks
  <2>14. PrivatePages(r)' = 0
    <3>1. Cardinality(1..seq[r].hit) = seq[r].hit
      BY <1>4, FS_Interval
    <3> QED BY <1>4, <2>10, <3>1 DEF PrivatePages
  <2>15. \A i \in 1..seq[r].hit : Path(r, i) \in C
    BY <1>2, <2>1, <2>5, ChainFacts
  <2>16. ChunkFits(r)
    <3>1. r \in ToAllocate
      BY <1>0, <1>2 DEF ToAllocate, ToAllocateAt
    <3> QED BY <1>0, <3>1, RunningParts
  <2>17. RowOk(r)'
    <3>1. Unfinished(r)'
      BY <2>10, <2>16 DEF ChunkFits, Waiting, Unfinished
    <3> QED BY <1>4, <1>6, <2>3, <2>5, <2>9, <2>10, <2>13, <2>15, <3>1 DEF RowOk
  <2>18. /\ \A q \in Reqs \ {r} : RowOk(q)'
         /\ SameBut(Held, Held', r) /\ SameBut(Private, Private', r)
    <3>1. \A q \in Reqs \ {r} : HeldBlocks(q) \subseteq tree'.blocks
      BY <2>9 DEF PrefixInv, RowOk
    <3> QED BY <1>2, <2>11, <3>1, OthersKept
  <2>19. RefsExact'
    <3>1. Held[r] = {} /\ (Held')[r] = C
      BY <1>2, <2>12, <2>13 DEF Held
    <3>2. C \cap Held[r] = {} /\ (Held')[r] = Held[r] \cup C
      BY <3>1
    <3>3. RefsOf(Held, protected, tree.ref)
      BY Restated DEF PrefixInv
    <3>4. PICK h : h = Held
      OBVIOUS
    <3>5. PICK k : k = Held'
      OBVIOUS
    <3>6. PICK f : f = tree.ref
      OBVIOUS
    <3>7. PICK g : g = tree'.ref
      OBVIOUS
    <3>8. /\ SameBut(h, k, r) /\ C \cap h[r] = {} /\ k[r] = h[r] \cup C /\ RefsOf(h, protected, f)
          /\ Counted(f, g, C, 1)
      BY <2>9, <2>18, <3>2, <3>3, <3>4, <3>5, <3>6, <3>7 DEF Counted
    <3>9. RefsOf(k, protected, g)
      BY <1>2, <3>8, RefsAdd
    <3> QED BY <2>4, <3>5, <3>7, <3>9, RestatedNext
  <2>20. TiersConserved'
    <3>1. Private' = Private
      BY <1>2, <2>12, <2>14, <2>18 DEF Private, SameBut
    <3> QED BY <2>4, <2>9, <3>1, Restated, RestatedNext DEF PrefixInv, HostPagesOf
  <2>21. StateType'
    BY <2>4, <2>9, <2>10 DEF PrefixInv, StateType, PCs
  <2>22. Flow'
    BY <1>0, <1>1, <2>4, <2>10 DEF Flow
  <2>23. ASSUME NEW q \in Reqs PROVE Saved(q)' /\ Readable(q)'
    <3>1. Unsaved(q)' = 0 /\ Unsaved(q) = 0
      BY <1>0, <2>4 DEF Unsaved, ToInsert, ToInsertAt
    <3>2. CASE q = r
      <4>1. Saved(r)'
        <5>1. seq'[r].len - 0 = seq[r].hit /\ 0 <= seq'[r].len
          BY <1>4, <2>10
        <5> QED BY <2>1, <2>13, <3>1, <3>2, <5>1 DEF Saved
      <4>2. Promoting(r)'
        BY <1>1, <2>4 DEF Promoting
      <4>3. CopiesAwaited(r)'
        <5> SUFFICES ASSUME NEW i \in 1..seq[r].hit, Path(r, i) \in InH2D(tree)
                     PROVE  Path(r, i) \in awaited'
          BY <2>9, <2>10 DEF CopiesAwaited
        <5>1. PICK op \in tree.h2d : Path(r, i) \in op
          BY MovingIs
        <5>2. op \cap C # {}
          BY <2>15, <5>1
        <5> QED BY <2>4, <5>1, <5>2
      <4> QED BY <3>2, <4>1, <4>2, <4>3 DEF Readable
    <3>3. CASE q # r
      <4>1. Saved(q) /\ Readable(q) /\ RowOk(q) /\ Kept(q) /\ ~Promoting(q)
        BY <1>0, <2>11, <3>3, RunningParts DEF PrefixInv, Promoting
      <4>2. Saved(q)'
        BY <3>1, <4>1, SavedKept
      <4>3. \A b \in InH2D(tree') : (b \in InH2D(tree) => b \in awaited) => b \in awaited'
        BY <2>4, <2>9
      <4>4. \A b \in HeldBlocks(q) : b \in tree.dev => b \in tree'.dev
        BY <2>9
      <4>5. Readable(q)'
        BY <4>1, <4>3, <4>4, ReadableKept
      <4> QED BY <4>2, <4>5
    <3> QED BY <3>2, <3>3
  <2>24. ToAllocate' = ToAllocate /\ Attaching' = Attaching
    <3>1. ToAllocate' = ToAllocate
      BY <1>0, <2>4 DEF ToAllocate, ToAllocateAt
    <3>2. Attaching' = {q \in ToSet(todo) : seq'[q].len = 0 \/ q = r}
      BY <1>1, <2>4 DEF Attaching, AttachingAt
    <3>3. ToSet(todo) \subseteq Reqs
      BY <1>2 DEF ToSet
    <3> QED BY <1>6, <2>2, <2>10, <3>1, <3>2, <3>3
  <2>25. ASSUME NEW q \in ToAllocate' PROVE ChunkFits(q)' /\ HitTaken(q)'
    <3>1. q \in ToAllocate /\ q \in Reqs /\ ChunkFits(q) /\ HitTaken(q)
      BY <1>0, <2>24, HitsAre, RunningParts
    <3>2. CASE q = r
      <4>1. ChunkFits(r)'
        BY <1>4, <2>10, <2>16 DEF ChunkFits, Waiting, Unfinished
      <4>2. HitTaken(r)'
        BY <2>2, <2>24 DEF HitTaken
      <4> QED BY <3>2, <4>1, <4>2
    <3>3. CASE q # r
      <4>1. Kept(q)
        BY <2>11, <3>1, <3>3
      <4>2. ChunkFits(q)'
        BY <3>1, <4>1, RowKept
      <4> QED BY <2>24, <3>1, <4>1, <4>2 DEF HitTaken, Kept
    <3> QED BY <3>2, <3>3
  <2>26. Hits' = Hits /\ Takes' = Takes
    <3>1. \A q \in Reqs : seq'[q].hit = seq[q].hit /\ seq'[q].chunk = seq[q].chunk
      BY <2>10
    <3> QED BY <2>24, <3>1, HitsAre DEF Hits, HitsOf, Takes, TakesOf
  <2>27. Covered'
    <3>1. Affords(tree, free, Hits, PagesToTake)
      BY <1>0, RunningParts DEF Covered
    <3>2. free \in Nat /\ Hits \in SUBSET Blocks /\ PagesToTake \in Nat
      BY Quantities, HitsAre, PagesToTakeIs
    <3>3. Affords(tree', free, Hits, PagesToTake)
      BY <2>3, <2>6, <2>7, <2>8, <3>1, <3>2, AffordsAttached
    <3>4. PagesToTake' = PagesToTake
      BY <1>0, <2>4, <2>26 DEF PagesToTake
    <3> QED BY <2>3, <2>4, <2>9, <2>26, <3>3, <3>4 DEF Covered
  <2>28. Remembered(tree')
    BY <1>0, <2>7, <2>8, RunningParts, RemembersAdded
  <2>29. Running'
    BY <2>23, <2>25, <2>27, <2>28 DEF Running
  <2>30. PromiseKept'
    BY <2>4, <2>9 DEF PrefixInv, PromiseKept
  <2>31. \A q \in Reqs : RowOk(q)'
    BY <2>17, <2>18
  <2> QED BY <2>8, <2>19, <2>20, <2>21, <2>22, <2>29, <2>30, <2>31 DEF PrefixInv
<1> QED BY <1>5, <1>6
\* The host-only part of the hit gets pages.
LEMMA PromoteStep ==
  ASSUME PrefixInv, Promote
  PROVE  PrefixInv'
<1>0. /\ pc = "promote" /\ pc' = "attach" /\ todo # <<>> /\ todo' = Tail(todo) /\ protected = {}
      /\ pc # "stopped"
      /\ UNCHANGED <<hostFree, seq, batch, budget, protected, raised>>
  BY DEF Promote, PrefixInv, Flow
<1>1. PICK r : r = Head(todo)
  OBVIOUS
<1>2. /\ todo \in Seq(Reqs) /\ Tail(todo) \in Seq(Reqs) /\ r \in Reqs /\ r \in ToSet(todo)
      /\ ToSet(todo) = {r} \cup ToSet(Tail(todo)) /\ IsInjective(Tail(todo))
      /\ r \notin ToSet(Tail(todo)) /\ ToSet(todo) \subseteq ToSet(batch)
  BY <1>0, <1>1, TailOwnership DEF PrefixInv, StateType
<1>3. RowOk(r) /\ seq[r].len = seq[r].hit
  BY <1>0, <1>1, <1>2 DEF PrefixInv, Flow
<1>4. seq[r].hit \in Nat /\ seq[r].hit \in 0..Len(Stream[r])
  <2>1. seq[r].hit \in Nat /\ seq[r].hit < PromptLen[r]
    BY <1>2, RowNumbers DEF PrefixInv, StateType
  <2> QED BY <1>2, <2>1, Lengths
<1>5. PICK C : C = Chain(r, seq[r].hit)
  OBVIOUS
<1>6. PICK X : X = C \ tree.dev
  OBVIOUS
<1>7. C \in SUBSET Blocks /\ Rooted(C) /\ X \in SUBSET Blocks
  BY <1>2, <1>4, <1>5, <1>6, ChainFacts
<1>8. /\ tree' = PromoteTree(tree, X) /\ awaited' = awaited \cup X
      /\ free' = free - Cardinality(X) /\ free >= Cardinality(X)
  BY <1>0, <1>1, <1>5, <1>6 DEF Promote, PromoteTree, Need
<1>9. /\ Attaching = {q \in ToSet(todo) : seq[q].len = 0 \/ q = r}
      /\ Attaching' = {q \in ToSet(Tail(todo)) : seq[q].len = 0}
  BY <1>0, <1>1 DEF Attaching, AttachingAt
<1>10. Hits = Hits' \cup C
  <2>1. Hits = UNION {Chain(q, seq[q].hit) : q \in Attaching}
        /\ Hits' = UNION {Chain(q, seq[q].hit) : q \in Attaching'}
    BY <1>0 DEF Hits, HitsOf
  <2>2. Attaching = Attaching' \cup {r}
    BY <1>2, <1>9
  <2> QED BY <1>5, <2>1, <2>2
<1>11. C \subseteq tree.blocks /\ Hits' \subseteq tree.blocks /\ Affords(tree, free, Hits, PagesToTake)
       /\ Hits \in SUBSET Blocks /\ Hits' \in SUBSET Blocks
  BY <1>0, <1>10, RunningParts, HitsAre DEF Covered
<1>12. TreeOk(tree)
  BY DEF PrefixInv
<1>13. TreeOk(tree') /\ Promoted(tree, tree', X) /\ tree.view \ C \subseteq tree'.view
  BY <1>6, <1>7, <1>8, <1>11, <1>12, PromoteOk
<1>14. /\ tree'.blocks = tree.blocks /\ tree'.ref = tree.ref /\ tree'.pinned = tree.pinned
       /\ tree'.dev = tree.dev \cup X /\ tree'.host = tree.host /\ tree'.pending = tree.pending
       /\ Hosted(tree') = Hosted(tree) /\ InH2D(tree') = InH2D(tree) \cup X
  BY <1>13 DEF Promoted, Hosted, InD2H
<1>15. X \subseteq tree.host
  BY <1>6, <1>11, <1>12 DEF TreeOk
<1>16. \A q \in Reqs : Kept(q)
  BY <1>0, SameRows DEF PrefixInv
<1>17. (\A q \in Reqs : RowOk(q)') /\ Held' = Held /\ Private' = Private
  BY <1>14, <1>16, RowsKept
<1>18. RefsExact'
  BY <1>0, <1>14, <1>17, Restated, RestatedNext DEF PrefixInv
<1>19. free \in Nat /\ Cardinality(X) \in Nat /\ Cardinality(tree.dev) \in Nat
  BY <1>7, BlockSets, Quantities, HitsAre
<1>20. TiersConserved'
  <2>1. PICK k : k = Cardinality(Cells(Reqs, Private))
    OBVIOUS
  <2>2. k \in Nat
    <3>1. \A q \in Reqs : Private[q] \in Int
      BY RowNumbers DEF PrefixInv, StateType, Private
    <3> QED BY <2>1, <3>1, StreamAssumption, CellsFinite
  <2>3. free + k + Cardinality(tree.dev) = NumPages /\ HostPagesOf(hostFree, tree)
    BY <2>1, Restated DEF PrefixInv, PagesOf
  <2>4. Cardinality(tree'.dev) = Cardinality(tree.dev) + Cardinality(X)
    <3>1. PICK A : A = tree.dev
      OBVIOUS
    <3>2. A \in SUBSET Blocks /\ A \cap X = {} /\ tree'.dev = A \cup X
      BY <1>6, <1>14, <3>1, HitsAre
    <3>3. Cardinality(A \cup X) = Cardinality(A) + Cardinality(X)
      BY <1>7, <3>2, UnionCount
    <3> QED BY <3>1, <3>2, <3>3
  <2>5. (free - Cardinality(X)) + k + (Cardinality(tree.dev) + Cardinality(X)) = NumPages
    BY <1>19, <2>2, <2>3
  <2>6. PagesOf(free', Private', tree'.dev)
    BY <1>8, <1>17, <2>1, <2>4, <2>5 DEF PagesOf
  <2>7. HostPagesOf(hostFree', tree')
    BY <1>0, <1>14, <2>3 DEF HostPagesOf
  <2> QED BY <2>6, <2>7, RestatedNext
<1>21. StateType'
  BY <1>0, <1>2, <1>8, <1>14, <1>19 DEF PrefixInv, StateType, PCs
<1>22. Flow'
  BY <1>0 DEF Flow
<1>23. ASSUME NEW q \in Reqs PROVE Saved(q)' /\ Readable(q)'
  <2>1. Unsaved(q)' = Unsaved(q)
    BY <1>0 DEF Unsaved, ToInsert, ToInsertAt
  <2>2. Saved(q) /\ Readable(q) /\ RowOk(q) /\ Kept(q)
    BY <1>0, <1>16, RunningParts DEF PrefixInv
  <2>3. Saved(q)'
    BY <2>1, <2>2, SavedKept
  <2>4. \A b \in InH2D(tree') : (b \in InH2D(tree) => b \in awaited) => b \in awaited'
    BY <1>8, <1>14
  <2>5. \A b \in HeldBlocks(q) : b \in tree.dev => b \in tree'.dev
    BY <1>14
  <2>6. CASE q # r
    <3>1. ~Promoting(q)
      BY <1>1, <2>6 DEF Promoting
    <3> QED BY <2>2, <2>3, <2>4, <2>5, <3>1, ReadableKept
  <2>7. CASE q = r
    <3>1. HeldBlocks(r) = C
      <4>1. Unsaved(r) = 0 /\ Saved(r)
        BY <1>0, <2>2, <2>7 DEF Unsaved, ToInsert, ToInsertAt
      <4>2. seq[r].len - 0 = seq[r].hit
        BY <1>3, <1>4
      <4> QED BY <1>5, <4>1, <4>2 DEF Saved
    <3>2. C \subseteq tree'.dev
      BY <1>6, <1>14
    <3>3. OnDevice(r)'
      BY <1>0, <1>3, <3>1, <3>2 DEF OnDevice, RowOk
    <3>4. CopiesAwaited(r)'
      BY <1>0, <2>2, <2>4, <2>7 DEF CopiesAwaited, Readable
    <3> QED BY <2>3, <2>7, <3>3, <3>4 DEF Readable
  <2> QED BY <2>6, <2>7
<1>24. ToAllocate' = ToAllocate /\ Takes' = Takes
  BY <1>0 DEF ToAllocate, ToAllocateAt, Takes, TakesOf
<1>25. \A q \in ToAllocate' : ChunkFits(q)' /\ HitTaken(q)'
  <2> SUFFICES ASSUME NEW q \in ToAllocate' PROVE ChunkFits(q)' /\ HitTaken(q)'
    OBVIOUS
  <2>1. q \in Reqs /\ ChunkFits(q) /\ HitTaken(q)
    BY <1>0, <1>24, HitsAre, RunningParts
  <2>2. ChunkFits(q)'
    BY <1>16, <2>1, RowKept
  <2>3. HitTaken(q)'
    BY <1>0, <1>2, <1>3, <1>9, <2>1 DEF HitTaken
  <2> QED BY <2>2, <2>3
<1>26. Covered'
  <2>1. PagesToTake \in Nat /\ PagesToTake' = PagesToTake
    BY <1>0, <1>24, PagesToTakeIs DEF PagesToTake
  <2>2. PICK K : K = Hits'
    OBVIOUS
  <2>3. PICK H : H = Hits
    OBVIOUS
  <2>4. PICK n : n = PagesToTake
    OBVIOUS
  <2>5. K \in SUBSET Blocks /\ H \in SUBSET Blocks /\ H = K \cup C /\ Affords(tree, free, H, n) /\ n \in Nat
    BY <1>10, <1>11, <2>1, <2>2, <2>3, <2>4
  <2>6. Cardinality(X) <= free
    BY <1>8, <1>19
  <2>7. Affords(tree', free - Cardinality(X), K, n)
    BY <1>6, <1>7, <1>12, <1>13, <1>19, <2>5, <2>6, AffordsPromoted
  <2> QED BY <1>0, <1>8, <1>11, <1>14, <2>1, <2>2, <2>4, <2>7 DEF Covered
<1>27. Remembered(tree')
  <2>1. tree'.dev \ Hosted(tree') \subseteq tree.dev \ Hosted(tree)
    BY <1>14, <1>15 DEF Hosted
  <2> QED BY <1>0, <1>14, <2>1, RunningParts DEF Remembered
<1>28. Running'
  BY <1>23, <1>25, <1>26, <1>27 DEF Running
<1>29. PromiseKept'
  BY <1>0, <1>14 DEF PrefixInv, PromiseKept
<1> QED BY <1>13, <1>17, <1>18, <1>20, <1>21, <1>22, <1>28, <1>29 DEF PrefixInv

\* A chunk gets its pages.
LEMMA AllocateStep ==
  ASSUME PrefixInv, Allocate
  PROVE  PrefixInv'
<1>0. /\ pc = "alloc" /\ pc' = "alloc" /\ todo # <<>> /\ todo' = Tail(todo) /\ protected = {}
      /\ pc # "stopped"
      /\ UNCHANGED <<tree, hostFree, pc, batch, budget, awaited, protected, raised>>
  BY DEF Allocate, PrefixInv, Flow
<1>1. PICK r : r = Head(todo)
  OBVIOUS
<1>2. /\ todo \in Seq(Reqs) /\ Tail(todo) \in Seq(Reqs) /\ r \in Reqs /\ r \in ToSet(todo)
      /\ ToSet(todo) = {r} \cup ToSet(Tail(todo)) /\ IsInjective(Tail(todo))
      /\ r \notin ToSet(Tail(todo)) /\ ToSet(todo) \subseteq ToSet(batch)
  BY <1>0, <1>1, TailOwnership DEF PrefixInv, StateType
<1>3. seq \in [Reqs -> RowType] /\ seq[r] \in RowType /\ RowOk(r)
  BY <1>2 DEF PrefixInv, StateType
<1>4. PICK c : c = seq[r].chunk
  OBVIOUS
<1>5. /\ free' = free - c /\ free >= c
      /\ seq' = [seq EXCEPT ![r].len = @ + c]
  BY <1>0, <1>1, <1>4 DEF Allocate, Need
<1>6. seq[r].len \in Nat /\ c \in Nat /\ seq[r].hit \in Nat /\ PrivatePages(r) \in Nat /\ free \in Nat
  BY <1>2, <1>3, <1>4, RowNumbers, Quantities
<1>7. ToAllocate = ToSet(todo) /\ ToAllocate' = ToSet(Tail(todo)) /\ Attaching = {} /\ Attaching' = {}
  BY <1>0 DEF ToAllocate, ToAllocateAt, Attaching, AttachingAt
<1>8. ChunkFits(r) /\ (seq[r].len = 0 => seq[r].hit = 0)
  BY <1>0, <1>2, <1>6, <1>7, RunningParts DEF HitTaken
<1>9. c > 0 /\ seq[r].len + c <= PromptLen[r] /\ Waiting(r)
  BY <1>4, <1>8 DEF ChunkFits
<1>10. /\ seq'[r] \in RowType /\ seq'[r].len = seq[r].len + c /\ seq'[r].cached = seq[r].cached
       /\ seq'[r].status = seq[r].status /\ seq'[r].chunk = c
       /\ seq'[r].hit = seq[r].hit /\ seq'[r].held = seq[r].held
       /\ seq' \in [Reqs -> RowType] /\ \A q \in Reqs \ {r} : seq'[q] = seq[q]
  <2>1. seq' = [seq EXCEPT ![r] = [seq[r] EXCEPT !.len = seq[r].len + c]]
    BY <1>3, <1>5 DEF RowType
  <2>2. [seq[r] EXCEPT !.len = seq[r].len + c] \in RowType
    BY <1>3, <1>6 DEF RowType
  <2>3. seq'[r] = [seq[r] EXCEPT !.len = seq[r].len + c]
        /\ seq' \in [Reqs -> RowType] /\ \A q \in Reqs \ {r} : seq'[q] = seq[q]
    BY <1>2, <1>3, <2>1, <2>2
  <2> QED BY <1>3, <1>4, <2>2, <2>3 DEF RowType
<1>11. \A q \in Reqs \ {r} : Kept(q)
  BY <1>3, <1>10 DEF Kept
<1>12. HeldBlocks(r)' = HeldBlocks(r)
  <2>1. Chain(r, IF seq[r].len = 0 THEN 0 ELSE seq[r].hit) = Chain(r, seq[r].hit)
    BY <1>8
  <2>2. seq'[r].len # 0
    BY <1>6, <1>9, <1>10
  <2> QED BY <1>10, <2>1, <2>2 DEF HeldBlocks
<1>13. PrivatePages(r)' = PrivatePages(r) + c
  <2>1. seq[r].cached \subseteq 1..seq[r].len
    BY <1>3 DEF RowOk
  <2>2. Cardinality(seq[r].cached) \in Nat
    BY <1>6, <2>1, PositionCount
  <2> QED BY <1>6, <1>10, <2>2 DEF PrivatePages
<1>14. RowOk(r)'
  <2>1. seq[r].cached \subseteq 1..(seq[r].len + c)
    BY <1>3, <1>6 DEF RowOk
  <2>2. seq'[r].hit <= seq'[r].len
    BY <1>3, <1>6, <1>8, <1>9, <1>10 DEF RowOk
  <2>3. Unfinished(r)'
    BY <1>9, <1>10 DEF Waiting, Unfinished
  <2>4. seq'[r].len # 0 /\ seq'[r].len <= Len(Stream[r])
    BY <1>2, <1>6, <1>9, <1>10, Lengths
  <2> QED BY <1>0, <1>3, <1>10, <1>12, <2>1, <2>2, <2>3, <2>4 DEF RowOk
<1>15. /\ \A q \in Reqs \ {r} : RowOk(q)'
       /\ SameBut(Held, Held', r) /\ SameBut(Private, Private', r)
  <2>1. \A q \in Reqs \ {r} : HeldBlocks(q) \subseteq tree'.blocks
    BY <1>0 DEF PrefixInv, RowOk
  <2> QED BY <1>2, <1>11, <2>1, OthersKept
<1>16. Held' = Held
  BY <1>2, <1>12, <1>15 DEF Held, SameBut
<1>17. RefsExact'
  BY <1>0, <1>16, Restated, RestatedNext DEF PrefixInv
<1>18. TiersConserved'
  <2>1. PICK f : f = Private
    OBVIOUS
  <2>2. PICK g : g = Private'
    OBVIOUS
  <2>3. f[r] = PrivatePages(r) /\ g[r] = PrivatePages(r) + c
    BY <1>2, <1>13, <2>1, <2>2 DEF Private
  <2>4. \A q \in Reqs \ {r} : g[q] = f[q]
    BY <1>15, <2>1, <2>2 DEF SameBut
  <2>5. \A q \in Reqs : f[q] \in Nat
    BY <2>1, RowNumbers DEF PrefixInv, StateType, Private
  <2>6. \A q \in Reqs : f[q] \in Nat /\ g[q] \in Nat
    BY <1>6, <2>3, <2>4, <2>5
  <2>7. /\ Cardinality(Cells(Reqs, f)) \in Nat
        /\ Cardinality(Cells(Reqs, g)) = Cardinality(Cells(Reqs, f)) + (g[r] - f[r])
    BY <1>2, <2>4, <2>6, PagesMove
  <2>8. free + Cardinality(Cells(Reqs, f)) + Cardinality(tree.dev) = NumPages /\ HostPagesOf(hostFree, tree)
    BY <2>1, Restated DEF PrefixInv, PagesOf
  <2>9. Cardinality(tree.dev) \in Nat
    BY HitsAre, BlockSets
  <2>10. (free - c) + Cardinality(Cells(Reqs, g)) + Cardinality(tree.dev) = NumPages
    BY <1>6, <2>3, <2>7, <2>8, <2>9
  <2>11. PagesOf(free', Private', tree'.dev)
    BY <1>0, <1>5, <2>2, <2>10 DEF PagesOf
  <2> QED BY <1>0, <2>8, <2>11, RestatedNext
<1>19. StateType'
  BY <1>0, <1>2, <1>5, <1>6, <1>10 DEF PrefixInv, StateType, PCs
<1>20. Flow'
  BY <1>0 DEF Flow
<1>21. ToInsert = ToSet(batch) \ ToSet(todo) /\ ToInsert' = ToSet(batch) \ ToSet(Tail(todo))
  BY <1>0 DEF ToInsert, ToInsertAt
<1>22. ASSUME NEW q \in Reqs PROVE Saved(q)' /\ Readable(q)'
  <2>1. Saved(q) /\ Readable(q) /\ RowOk(q) /\ ~Promoting(q)
    BY <1>0, RunningParts DEF PrefixInv, Promoting
  <2>2. CASE q = r
    <3>1. Unsaved(r) = 0 /\ Unsaved(r)' = c
      BY <1>2, <1>10, <1>21 DEF Unsaved
    <3>2. HeldBlocks(r) = Chain(r, seq[r].len - 0)
      BY <2>1, <2>2, <3>1 DEF Saved
    <3>3. seq'[r].len - c = seq[r].len - 0 /\ c <= seq'[r].len
      BY <1>6, <1>10
    <3>4. Saved(r)'
      BY <1>12, <3>1, <3>2, <3>3 DEF Saved
    <3>5. Readable(r)'
      BY <1>0, <1>10, <2>1, <2>2 DEF Readable, OnDevice, CopiesAwaited
    <3> QED BY <2>2, <3>4, <3>5
  <2>3. CASE q # r
    <3>1. Kept(q)
      BY <1>11, <2>3
    <3>2. Unsaved(q)' = Unsaved(q)
      BY <1>2, <1>21, <2>3, <3>1 DEF Unsaved, Kept
    <3> QED BY <1>0, <2>1, <3>1, <3>2, SavedKept, ReadableKept
  <2> QED BY <2>2, <2>3
<1>23. ASSUME NEW q \in ToAllocate' PROVE ChunkFits(q)' /\ HitTaken(q)'
  <2>1. q \in ToAllocate /\ q # r /\ q \in Reqs
    BY <1>2, <1>7, HitsAre
  <2>2. ChunkFits(q) /\ HitTaken(q) /\ Kept(q)
    BY <1>0, <1>11, <2>1, RunningParts
  <2>3. ChunkFits(q)'
    BY <2>1, <2>2, RowKept
  <2> QED BY <1>7, <2>2, <2>3 DEF HitTaken, Kept
<1>24. Covered'
  <2>1. PICK f : f = Takes
    OBVIOUS
  <2>2. PICK g : g = Takes'
    OBVIOUS
  <2>3. f[r] = c /\ g[r] = 0
    BY <1>2, <1>4, <1>7, <2>1, <2>2 DEF Takes, TakesOf
  <2>4. \A q \in Reqs \ {r} : g[q] = f[q]
    BY <1>2, <1>7, <1>10, <2>1, <2>2 DEF Takes, TakesOf
  <2>5. \A q \in Reqs : f[q] \in Nat
    BY <2>1, Quantities
  <2>6. \A q \in Reqs : f[q] \in Nat /\ g[q] \in Nat
    BY <2>3, <2>4, <2>5
  <2>7. /\ Cardinality(Cells(Reqs, f)) \in Nat
        /\ Cardinality(Cells(Reqs, g)) = Cardinality(Cells(Reqs, f)) + (g[r] - f[r])
    BY <1>2, <2>4, <2>6, PagesMove
  <2>8. Hits = {} /\ Hits' = {}
    BY <1>7, NoTakes DEF Hits
  <2>9. PagesToTake = Cardinality(Cells(Reqs, f)) /\ PagesToTake' = Cardinality(Cells(Reqs, g))
    BY <1>0, <2>1, <2>2 DEF PagesToTake
  <2>10. Affords(tree, free, {}, Cardinality(Cells(Reqs, f)))
    BY <1>0, <2>8, <2>9, RunningParts DEF Covered
  <2>11. PICK v : v = Cardinality(tree.view \ {})
    OBVIOUS
  <2>12. Cardinality({} \ tree.dev) = 0 /\ v \in Nat
    <3>1. tree.view \ {} \in SUBSET Blocks /\ {} \ tree.dev = {}
      BY HitsAre
    <3> QED BY <2>11, <3>1, FS_EmptySet, BlockSets
  <2>13. 0 + Cardinality(Cells(Reqs, f)) <= free + v
    BY <2>10, <2>11, <2>12 DEF Affords
  <2>14. 0 + Cardinality(Cells(Reqs, g)) <= (free - c) + v
    BY <1>6, <2>3, <2>7, <2>12, <2>13
  <2>15. Affords(tree, free - c, {}, Cardinality(Cells(Reqs, g)))
    BY <2>11, <2>12, <2>14 DEF Affords
  <2> QED BY <1>0, <1>5, <2>8, <2>9, <2>15 DEF Covered
<1>25. Running'
  BY <1>0, <1>22, <1>23, <1>24, RunningParts DEF Running
<1>26. PromiseKept'
  BY <1>0 DEF PrefixInv, PromiseKept
<1>27. \A q \in Reqs : RowOk(q)'
  BY <1>14, <1>15
<1>28. TreeOk(tree')
  BY <1>0 DEF PrefixInv
<1> QED BY <1>17, <1>18, <1>19, <1>20, <1>25, <1>26, <1>27, <1>28 DEF PrefixInv
\* A sequence without repetitions has as many elements as positions.
LEMMA DistinctCount ==
  ASSUME NEW S, NEW q \in Seq(S), IsInjective(q)
  PROVE  Cardinality(ToSet(q)) = Len(q)
<1>1. Len(q) \in Nat /\ DOMAIN q = 1..Len(q)
  OBVIOUS
<1>2. IsFiniteSet(1..Len(q)) /\ Cardinality(1..Len(q)) = Len(q)
  BY <1>1, FS_Interval
<1>3. PICK C : C = 1..Len(q)
  OBVIOUS
<1>4. PICK D : D = ToSet(q)
  OBVIOUS
<1>5. q \in [C -> D]
  BY <1>1, <1>3, <1>4 DEF ToSet
<1>6. \A x, y \in C : q[x] = q[y] => x = y
  BY <1>1, <1>3 DEF IsInjective
<1>7. \A z \in D : \E x \in C : q[x] = z
  BY <1>1, <1>3, <1>4 DEF ToSet
<1>8. Cardinality(D) = Cardinality(C)
  <2>1. IsFiniteSet(C)
    BY <1>2, <1>3
  <2> QED BY <2>1, <1>5, <1>6, <1>7, CellsMatch, Zenon
<1> QED BY <1>2, <1>3, <1>4, <1>8

\* Every request of the decode batch gets a page.
LEMMA AllocateDecodeStep ==
  ASSUME PrefixInv, AllocateDecode
  PROVE  PrefixInv'
<1>0. /\ pc = "decode" /\ pc' = "forward" /\ todo = batch /\ protected = {} /\ pc # "stopped"
      /\ \A r \in ToSet(batch) : Decoding(r)
      /\ UNCHANGED <<tree, hostFree, batch, todo, budget, awaited, protected, raised>>
  BY DEF AllocateDecode, PrefixInv, Flow
<1>1. seq' = [r \in Reqs |-> IF r \in ToSet(batch) THEN [seq[r] EXCEPT !.len = @ + 1, !.chunk = 1] ELSE seq[r]]
  BY DEF AllocateDecode, Range, ToSet
<1>2. PICK k : k = Len(batch)
  OBVIOUS
<1>3. /\ batch \in Seq(Reqs) /\ IsInjective(batch) /\ k \in Nat /\ Cardinality(ToSet(batch)) = k
      /\ ToSet(batch) \in SUBSET Reqs
  <2>1. batch \in Seq(Reqs) /\ IsInjective(batch)
    BY DEF PrefixInv, StateType
  <2>2. Len(batch) \in Nat /\ ToSet(batch) \in SUBSET Reqs
    BY <2>1 DEF ToSet
  <2> QED BY <1>2, <2>1, <2>2, DistinctCount
<1>4. free' = free - k /\ free >= k /\ free \in Nat
  BY <1>0, <1>2, Quantities DEF AllocateDecode, Need
<1>5. seq \in [Reqs -> RowType]
  BY DEF PrefixInv, StateType
<1>6. ASSUME NEW r \in ToSet(batch)
      PROVE  /\ r \in Reqs /\ RowOk(r) /\ Decoding(r)
             /\ seq'[r] \in RowType /\ seq'[r].len = seq[r].len + 1 /\ seq'[r].cached = seq[r].cached
             /\ seq'[r].status = seq[r].status /\ seq'[r].chunk = 1
             /\ seq'[r].hit = seq[r].hit /\ seq'[r].held = seq[r].held
  <2>1. r \in Reqs /\ seq[r] \in RowType
    BY <1>3, <1>5
  <2>2. seq[r].len \in Nat
    BY <2>1, RowFields
  <2>3. seq'[r] = [seq[r] EXCEPT !.len = seq[r].len + 1, !.chunk = 1]
    BY <1>1, <2>1 DEF RowType
  <2>4. [seq[r] EXCEPT !.len = seq[r].len + 1, !.chunk = 1] \in RowType
    <3>1. PICK n : n = seq[r].len + 1
      OBVIOUS
    <3>2. n \in Nat /\ 1 \in Nat
      BY <2>2, <3>1
    <3>3. [seq[r] EXCEPT !.len = n, !.chunk = 1] \in RowType
      BY <2>1, <3>2 DEF RowType
    <3> QED BY <3>1, <3>3
  <2> QED BY <1>0, <2>1, <2>3, <2>4 DEF PrefixInv, RowType
<1>7. ASSUME NEW r \in Reqs, r \notin ToSet(batch) PROVE Kept(r) /\ seq'[r] = seq[r]
  BY <1>1, <1>5, <1>7 DEF Kept
<1>8. ASSUME NEW r \in ToSet(batch)
      PROVE  /\ HeldBlocks(r)' = HeldBlocks(r) /\ PrivatePages(r)' = PrivatePages(r) + 1
             /\ RowOk(r)'
  <2>1. r \in Reqs /\ RowOk(r) /\ Decoding(r)
    BY <1>6
  <2>2. /\ seq[r].len \in Nat /\ seq[r].hit \in Nat /\ PromptLen[r] \in Nat /\ PromptLen[r] > 0
        /\ Len(Stream[r]) \in Nat /\ seq[r].hit < PromptLen[r]
    BY <1>5, <2>1, RowNumbers, Lengths
  <2>3. seq[r].len > 0 /\ seq'[r].len > 0 /\ seq'[r].len <= Len(Stream[r])
    BY <1>6, <2>1, <2>2 DEF Decoding
  <2>4. HeldBlocks(r)' = HeldBlocks(r)
    BY <1>6, <2>2, <2>3 DEF HeldBlocks
  <2>5. seq[r].cached \subseteq 1..seq[r].len
    BY <2>1 DEF RowOk
  <2>6. Cardinality(seq[r].cached) \in Nat
    BY <2>2, <2>5, PositionCount
  <2>7. PrivatePages(r)' = PrivatePages(r) + 1
    BY <1>6, <2>2, <2>6 DEF PrivatePages
  <2>8. seq[r].cached \subseteq 1..(seq[r].len + 1) /\ seq[r].hit <= seq[r].len + 1
    BY <2>1, <2>2, <2>3, <2>5 DEF RowOk
  <2>9. Unfinished(r)'
    BY <1>6, <2>1, <2>3 DEF RowOk, Unfinished
  <2> QED BY <1>0, <1>6, <2>1, <2>2, <2>3, <2>4, <2>7, <2>8, <2>9 DEF RowOk
<1>9. ASSUME NEW r \in Reqs, r \notin ToSet(batch)
      PROVE  HeldBlocks(r)' = HeldBlocks(r) /\ PrivatePages(r)' = PrivatePages(r) /\ RowOk(r)'
  <2>1. HeldBlocks(r) \subseteq tree'.blocks /\ RowOk(r)
    BY <1>0 DEF PrefixInv, RowOk
  <2> QED BY <1>7, <1>9, <2>1, RowKept
<1>10. Held' = Held
  BY <1>8, <1>9 DEF Held
<1>11. RefsExact'
  BY <1>0, <1>10, Restated, RestatedNext DEF PrefixInv
<1>12. TiersConserved'
  <2>1. PICK f : f = Private
    OBVIOUS
  <2>2. PICK g : g = Private'
    OBVIOUS
  <2>3. \A r \in Reqs : f[r] \in Nat
    BY <1>5, <2>1, RowNumbers DEF PrefixInv, Private
  <2>4. \A r \in Reqs : f[r] \in Nat /\ g[r] = f[r] + (IF r \in ToSet(batch) THEN 1 ELSE 0)
    <3> SUFFICES ASSUME NEW r \in Reqs PROVE f[r] \in Nat /\ g[r] = f[r] + (IF r \in ToSet(batch) THEN 1 ELSE 0)
      OBVIOUS
    <3>1. f[r] = PrivatePages(r) /\ g[r] = PrivatePages(r)' /\ f[r] \in Nat
      BY <2>1, <2>2, <2>3 DEF Private
    <3>2. CASE r \in ToSet(batch)
      BY <1>8, <3>1, <3>2
    <3>3. CASE r \notin ToSet(batch)
      BY <1>9, <3>1, <3>3
    <3> QED BY <3>2, <3>3
  <2>5. IsFiniteSet(Reqs)
    BY StreamAssumption
  <2>6. Cardinality(Cells(Reqs, g)) = Cardinality(Cells(Reqs, f)) + k
    BY <1>3, <2>4, <2>5, OneMoreEach
  <2>7. Cardinality(Cells(Reqs, f)) \in Nat
    BY <2>3, <2>5, CellsFinite
  <2>8. free + Cardinality(Cells(Reqs, f)) + Cardinality(tree.dev) = NumPages /\ HostPagesOf(hostFree, tree)
    BY <2>1, Restated DEF PrefixInv, PagesOf
  <2>9. Cardinality(tree.dev) \in Nat
    BY HitsAre, BlockSets
  <2>10. (free - k) + Cardinality(Cells(Reqs, g)) + Cardinality(tree.dev) = NumPages
    BY <1>3, <1>4, <2>6, <2>7, <2>8, <2>9
  <2>11. PagesOf(free', Private', tree'.dev)
    BY <1>0, <1>4, <2>2, <2>10 DEF PagesOf
  <2> QED BY <1>0, <2>8, <2>11, RestatedNext
<1>13. StateType'
  <2>1. seq' \in [Reqs -> RowType]
    <3>1. \A r \in Reqs : seq'[r] \in RowType
      BY <1>5, <1>6, <1>7
    <3> QED BY <1>1, <3>1
  <2>2. free' \in Nat
    BY <1>3, <1>4
  <2> QED BY <1>0, <2>1, <2>2 DEF PrefixInv, StateType, PCs
<1>14. Flow'
  BY <1>0 DEF Flow
<1>15. ToInsert = {} /\ ToInsert' = ToSet(batch)
  BY <1>0 DEF ToInsert, ToInsertAt
<1>16. ASSUME NEW r \in Reqs PROVE Saved(r)' /\ Readable(r)'
  <2>1. Saved(r) /\ Readable(r) /\ RowOk(r) /\ ~Promoting(r)
    BY <1>0, RunningParts DEF PrefixInv, Promoting
  <2>2. CASE r \in ToSet(batch)
    <3>1. Unsaved(r) = 0 /\ Unsaved(r)' = 1
      BY <1>6, <1>15, <2>2 DEF Unsaved
    <3>2. HeldBlocks(r) = Chain(r, seq[r].len - 0)
      BY <2>1, <3>1 DEF Saved
    <3>3. seq[r].len \in Nat
      BY <1>5, <2>1, RowNumbers
    <3>4. seq'[r].len - 1 = seq[r].len - 0 /\ 1 <= seq'[r].len
      BY <1>6, <2>2, <3>3
    <3>5. Saved(r)'
      BY <1>8, <2>2, <3>1, <3>2, <3>4 DEF Saved
    <3>6. Readable(r)'
      BY <1>0, <1>6, <2>1, <2>2 DEF Readable, OnDevice, CopiesAwaited
    <3> QED BY <3>5, <3>6
  <2>3. CASE r \notin ToSet(batch)
    <3>1. Kept(r) /\ Unsaved(r)' = Unsaved(r)
      BY <1>7, <1>15, <2>3 DEF Unsaved
    <3> QED BY <1>0, <2>1, <3>1, SavedKept, ReadableKept
  <2> QED BY <2>2, <2>3
<1>17. Running'
  BY <1>0, <1>16, RunningParts, ForwardRunning
<1>18. PromiseKept'
  BY <1>0 DEF PrefixInv, PromiseKept
<1>19. \A r \in Reqs : RowOk(r)'
  BY <1>8, <1>9
<1>20. TreeOk(tree')
  BY <1>0 DEF PrefixInv
<1> QED BY <1>11, <1>12, <1>13, <1>14, <1>17, <1>18, <1>19, <1>20 DEF PrefixInv

-----------------------------------------------------------------------------
(* Materialisation.                                                        *)

\* on_forward_end protects the blocks of the chunk.
LEMMA ForwardEndStep ==
  ASSUME PrefixInv, ForwardEnd
  PROVE  PrefixInv'
<1>0. /\ pc = "forward" /\ pc' = "insert" /\ todo # <<>> /\ protected = {} /\ pc # "stopped"
      /\ UNCHANGED <<free, hostFree, seq, batch, todo, budget, awaited, raised>>
  BY DEF ForwardEnd, PrefixInv, Flow
<1>1. PICK r : r = Head(todo)
  OBVIOUS
<1>2. r \in Reqs
  BY <1>0, <1>1, TailOwnership DEF PrefixInv, StateType
<1>3. PICK P : P = protected'
  OBVIOUS
<1>4. P \subseteq Chain(r, seq[r].len) /\ P \subseteq tree.blocks /\ tree' = ChangeRefs(tree, P, 1)
  BY <1>1, <1>3 DEF ForwardEnd
<1>5. TreeOk(tree) /\ (\A b \in Blocks : tree.ref[b] \in Nat) /\ P \in SUBSET Blocks
  BY <1>4, InUse, TreeFields DEF PrefixInv, TreeOk
<1>6. TreeOk(tree') /\ RefsChanged(tree, tree', P, 1)
  BY <1>4, <1>5, ChangeRefsOk
<1>7. /\ tree'.blocks = tree.blocks /\ tree'.dev = tree.dev /\ tree'.pinned = tree.pinned
      /\ Hosted(tree') = Hosted(tree) /\ InH2D(tree') = InH2D(tree)
      /\ Counted(tree.ref, tree'.ref, P, 1)
  BY <1>6 DEF RefsChanged, Hosted, InD2H, InH2D, Counted
<1>8. \A q \in Reqs : Kept(q)
  BY <1>0, SameRows DEF PrefixInv
<1>9. (\A q \in Reqs : RowOk(q)') /\ Held' = Held /\ Private' = Private
  BY <1>7, <1>8, RowsKept
<1>10. RefsExact'
  <2>1. RefsOf(Held, {}, tree.ref)
    BY <1>0, Restated DEF PrefixInv
  <2>2. RefsOf(Held, P, tree'.ref)
    BY <1>7, <2>1, RefsProtect
  <2> QED BY <1>3, <1>9, <2>2, RestatedNext
<1>11. TiersConserved'
  BY <1>0, <1>7, <1>9, Restated, RestatedNext DEF PrefixInv, HostPagesOf
<1>12. StateType'
  BY <1>0, <1>3, <1>4, <1>7 DEF PrefixInv, StateType, PCs
<1>13. Flow'
  BY <1>0, <1>1, <1>3, <1>4 DEF Flow
<1>14. ASSUME NEW q \in Reqs PROVE Saved(q)' /\ Readable(q)'
  <2>1. Saved(q) /\ Readable(q) /\ RowOk(q) /\ Kept(q) /\ ~Promoting(q)
    BY <1>0, <1>8, RunningParts DEF PrefixInv, Promoting
  <2>2. Unsaved(q)' = Unsaved(q)
    BY <1>0 DEF Unsaved, ToInsert, ToInsertAt
  <2> QED BY <1>0, <1>7, <2>1, <2>2, SavedKept, ReadableKept
<1>15. Remembered(tree')
  BY <1>0, <1>5, <1>6, RunningParts, RemembersAdded
<1>16. Running'
  BY <1>0, <1>14, <1>15, ForwardRunning
<1>17. PromiseKept'
  BY <1>0, <1>7 DEF PrefixInv, PromiseKept
<1> QED BY <1>6, <1>9, <1>10, <1>11, <1>12, <1>13, <1>16, <1>17 DEF PrefixInv

\* The protection is released: what it covered is held by the request.
LEMMA ReleaseProtectedStep ==
  ASSUME PrefixInv, ReleaseProtected
  PROVE  PrefixInv'
<1>0. /\ pc = "insert" /\ pc' = "forward" /\ todo # <<>> /\ todo' = Tail(todo) /\ protected' = {}
      /\ pc # "stopped" /\ tree' = ChangeRefs(tree, protected, -1)
      /\ UNCHANGED <<free, hostFree, seq, batch, budget, awaited, raised>>
  BY DEF ReleaseProtected, PrefixInv, Flow
<1>1. PICK r : r = Head(todo)
  OBVIOUS
<1>2. /\ todo \in Seq(Reqs) /\ Tail(todo) \in Seq(Reqs) /\ r \in Reqs /\ r \in ToSet(todo)
      /\ ToSet(todo) = {r} \cup ToSet(Tail(todo)) /\ IsInjective(Tail(todo))
      /\ r \notin ToSet(Tail(todo)) /\ ToSet(todo) \subseteq ToSet(batch)
  BY <1>0, <1>1, TailOwnership DEF PrefixInv, StateType
<1>3. seq[r].chunk = 0 /\ seq[r].len \in Nat /\ protected \subseteq Chain(r, seq[r].len)
  BY <1>0, <1>1, <1>2, RowNumbers DEF ReleaseProtected, PrefixInv, StateType, Flow
<1>4. protected \subseteq HeldBlocks(r)
  <2>1. r \in ToInsert
    BY <1>0, <1>2 DEF ToInsert, ToInsertAt
  <2>2. Saved(r) /\ Unsaved(r) = 0
    BY <1>0, <1>2, <1>3, <2>1, RunningParts DEF Unsaved
  <2>3. seq[r].len - 0 = seq[r].len
    BY <1>3
  <2> QED BY <1>3, <2>2, <2>3 DEF Saved
<1>5. TreeOk(tree) /\ protected \in SUBSET Blocks /\ \A b \in protected : tree.ref[b] + (-1) \in Nat
  BY InUse DEF PrefixInv
<1>6. TreeOk(tree') /\ RefsChanged(tree, tree', protected, -1)
  BY <1>0, <1>5, ChangeRefsOk
<1>7. /\ tree'.blocks = tree.blocks /\ tree'.dev = tree.dev /\ tree'.pinned = tree.pinned
      /\ Hosted(tree') = Hosted(tree) /\ InH2D(tree') = InH2D(tree) /\ tree'.pending = tree.pending
      /\ Counted(tree.ref, tree'.ref, protected, -1)
  BY <1>6 DEF RefsChanged, Hosted, InD2H, InH2D, Counted
<1>8. \A q \in Reqs : Kept(q)
  BY <1>0, SameRows DEF PrefixInv
<1>9. (\A q \in Reqs : RowOk(q)') /\ Held' = Held /\ Private' = Private
  BY <1>7, <1>8, RowsKept
<1>10. RefsOf(Held, {}, tree'.ref)
  <2>1. RefsOf(Held, protected, tree.ref)
    BY Restated DEF PrefixInv
  <2> QED BY <1>7, <2>1, RefsProtect
<1>a. RefsExact'
  BY <1>0, <1>9, <1>10, RestatedNext
<1>11. TiersConserved'
  BY <1>0, <1>7, <1>9, Restated, RestatedNext DEF PrefixInv, HostPagesOf
<1>12. StateType'
  BY <1>0, <1>2 DEF PrefixInv, StateType, PCs
<1>13. Flow'
  BY <1>0 DEF Flow
<1>14. ASSUME NEW q \in Reqs PROVE Saved(q)' /\ Readable(q)'
  <2>1. Saved(q) /\ Readable(q) /\ RowOk(q) /\ Kept(q) /\ ~Promoting(q)
    BY <1>0, <1>8, RunningParts DEF PrefixInv, Promoting
  <2>2. ToInsert = ToSet(todo) /\ ToInsert' = ToSet(Tail(todo))
    BY <1>0 DEF ToInsert, ToInsertAt
  <2>3. Unsaved(q)' = Unsaved(q)
    BY <1>0, <1>2, <1>3, <2>2 DEF Unsaved
  <2> QED BY <1>0, <1>7, <2>1, <2>3, SavedKept, ReadableKept
<1>15. Remembered(tree')
  <2>1. ASSUME NEW b \in Blocks
        PROVE  /\ tree'.ref[b] \in Nat
               /\ tree'.ref[b] = 0 <=> \A q \in Reqs : b \notin HeldBlocks(q)
    <3>1. /\ tree'.ref[b] \in Nat
          /\ tree'.ref[b] = 0 <=> b \notin {} /\ \A q \in Reqs : b \notin Held[q]
      BY <1>10, RefsZero
    <3> QED BY <3>1 DEF Held
  <2>2. tree.dev \subseteq Blocks
    BY HitsAre
  <2> SUFFICES ASSUME NEW b \in tree'.dev \ Hosted(tree'), tree'.ref[b] = 0
               PROVE  b \in tree'.pending /\ \E a \in Ancestors(b) : tree'.ref[a] > 0 /\ a \notin Hosted(tree')
    BY DEF Remembered
  <2>3. b \in Blocks /\ b \in tree.dev \ Hosted(tree) /\ b \notin protected
    BY <1>2, <1>4, <1>7, <2>1, <2>2
  <2>4. tree.ref[b] = 0
    BY <1>7, <2>3 DEF Counted
  <2>5. b \in tree.pending /\ \E a \in Ancestors(b) : tree.ref[a] > 0 /\ a \notin Hosted(tree)
    BY <1>0, <2>3, <2>4, RunningParts DEF Remembered
  <2>6. PICK a \in Ancestors(b) : tree.ref[a] > 0 /\ a \notin Hosted(tree)
    BY <2>5
  <2>7. a \in Blocks
    BY <2>3, AncestorFacts
  <2>8. \E q \in Reqs : a \in HeldBlocks(q)
    BY <1>2, <1>4, <2>6, <2>7, InUse
  <2>9. tree'.ref[a] > 0
    BY <2>1, <2>7, <2>8
  <2> QED BY <1>7, <2>5, <2>6, <2>9
<1>16. Running'
  BY <1>0, <1>14, <1>15, ForwardRunning
<1>17. PromiseKept'
  BY <1>0, <1>7 DEF PrefixInv, PromiseKept
<1> QED BY <1>6, <1>9, <1>a, <1>11, <1>12, <1>13, <1>16, <1>17 DEF PrefixInv
\* The next block to insert extends what the request holds.
LEMMA InsertingFacts ==
  ASSUME PrefixInv, NEW r \in Reqs, Inserting(r), NEW i, i = NextPos(r), NEW b, b = Path(r, i)
  PROVE  /\ r \in ToSet(todo) /\ r = Head(todo) /\ r \in ToInsert
         /\ seq[r].len \in Nat /\ seq[r].chunk \in Nat /\ seq[r].chunk > 0 /\ seq[r].chunk <= seq[r].len
         /\ i \in 1..Len(Stream[r]) /\ i = (seq[r].len - seq[r].chunk) + 1 /\ i <= seq[r].len
         /\ b \in Blocks /\ Len(b) = i
         /\ HeldBlocks(r) = Chain(r, i - 1)
         /\ HeldBlocks(r) \cup {b} = Chain(r, i)
         /\ b \notin HeldBlocks(r)
<1>1. pc = "insert" /\ r = Head(todo) /\ seq[r].chunk > 0 /\ todo # <<>>
  BY DEF Inserting, PrefixInv, Flow
<1>2. r \in ToSet(todo) /\ r \in ToInsert
  BY <1>1, TailOwnership DEF PrefixInv, StateType, ToInsert, ToInsertAt
<1>3. seq[r].len \in Nat /\ seq[r].chunk \in Nat /\ seq[r].len <= Len(Stream[r])
      /\ Len(Stream[r]) \in Nat
  BY RowNumbers, Lengths DEF PrefixInv, StateType
<1>4. seq[r].chunk <= seq[r].len /\ HeldBlocks(r) = Chain(r, seq[r].len - seq[r].chunk)
  BY <1>1, <1>2, RunningParts DEF Saved, Unsaved
<1>5. i = (seq[r].len - seq[r].chunk) + 1
  BY DEF NextPos
<1>6. i \in 1..Len(Stream[r]) /\ i - 1 = seq[r].len - seq[r].chunk /\ i <= seq[r].len
  BY <1>1, <1>3, <1>4, <1>5
<1>7. i \in 0..Len(Stream[r]) /\ i - 1 \in 0..Len(Stream[r])
  BY <1>3, <1>6
<1>8. Chain(r, i) \subseteq Blocks /\ b \in Chain(r, i) /\ Len(b) = i
  <2>1. i \in 1..i
    BY <1>6
  <2> QED BY <1>7, <2>1, ChainFacts, PathFacts
<1>9. HeldBlocks(r) = Chain(r, i - 1)
  BY <1>4, <1>6
<1>10. b \notin Chain(r, i - 1)
  <2>1. b \in Chain(r, i - 1) => Len(b) \in 1..(i - 1)
    BY <1>7, ChainFacts
  <2> QED BY <1>6, <1>8, <2>1
<1>11. Chain(r, i - 1) \cup {b} = Chain(r, i)
  <2>1. 1..i = (1..(i - 1)) \cup {i}
    BY <1>6
  <2> QED BY <2>1 DEF Chain
<1> QED BY <1>1, <1>2, <1>3, <1>4, <1>5, <1>6, <1>8, <1>9, <1>10, <1>11

\* The row once the block is held.
LEMMA InsertedSaved ==
  ASSUME PrefixInv, NEW r \in Reqs, Inserting(r), pc' = pc, todo' = todo,
         NEW i, i = NextPos(r), NEW b, b = Path(r, i), HeldBlocks(r)' = HeldBlocks(r) \cup {b},
         seq'[r].chunk = seq[r].chunk - 1, seq'[r].len = seq[r].len
  PROVE  Saved(r)'
<1>1. /\ r \in ToInsert /\ seq[r].len \in Nat /\ seq[r].chunk \in Nat /\ seq[r].chunk > 0
      /\ seq[r].chunk <= seq[r].len
      /\ i = (seq[r].len - seq[r].chunk) + 1 /\ HeldBlocks(r) \cup {b} = Chain(r, i)
  BY InsertingFacts
<1>2. r \in ToInsert'
  <2>1. pc = "insert"
    BY DEF Inserting
  <2> QED BY <1>1, <2>1 DEF ToInsert, ToInsertAt
<1>3. Unsaved(r)' = seq[r].chunk - 1
  BY <1>2 DEF Unsaved
<1>4. seq[r].len - (seq[r].chunk - 1) = i /\ seq[r].chunk - 1 <= seq[r].len
  BY <1>1
<1> QED BY <1>1, <1>3, <1>4 DEF Saved

\* A block computed twice is held once more.
LEMMA HoldDuplicateStep ==
  ASSUME PrefixInv, NEW r \in Reqs, HoldDuplicate(r)
  PROVE  PrefixInv'
<1>1. PICK i : i = NextPos(r)
  OBVIOUS
<1>2. PICK b : b = Path(r, i)
  OBVIOUS
<1>3. Inserting(r) /\ b \in tree.blocks
  BY <1>1, <1>2 DEF HoldDuplicate
<1>4. /\ r \in ToSet(todo) /\ r = Head(todo) /\ r \in ToInsert
      /\ seq[r].len \in Nat /\ seq[r].chunk \in Nat /\ seq[r].chunk > 0 /\ seq[r].chunk <= seq[r].len
      /\ i \in 1..Len(Stream[r]) /\ i = (seq[r].len - seq[r].chunk) + 1 /\ i <= seq[r].len
      /\ b \in Blocks /\ Len(b) = i
      /\ HeldBlocks(r) = Chain(r, i - 1)
      /\ HeldBlocks(r) \cup {b} = Chain(r, i)
      /\ b \notin HeldBlocks(r)
  BY <1>1, <1>2, <1>3, InsertingFacts
<1>5. {b} \ HeldBlocks(r) = {b}
  BY <1>4
<1>6. /\ pc = "insert" /\ pc # "stopped" /\ tree' = ChangeRefs(tree, {b}, 1)
      /\ seq' = [seq EXCEPT ![r].held = @ \cup {b}, ![r].chunk = @ - 1]
      /\ UNCHANGED <<free, hostFree, pc, batch, todo, budget, awaited, protected, raised>>
  BY <1>1, <1>2, <1>3, <1>5 DEF HoldDuplicate, Inserting
<1>7. seq \in [Reqs -> RowType] /\ seq[r] \in RowType /\ RowOk(r)
  BY DEF PrefixInv, StateType
<1>8. /\ seq'[r] \in RowType /\ seq'[r].len = seq[r].len /\ seq'[r].cached = seq[r].cached
      /\ seq'[r].status = seq[r].status /\ seq'[r].chunk = seq[r].chunk - 1
      /\ seq'[r].hit = seq[r].hit /\ seq'[r].held = seq[r].held \cup {b}
      /\ seq' \in [Reqs -> RowType] /\ \A q \in Reqs \ {r} : seq'[q] = seq[q]
  <2>1. PICK n : n = seq[r].chunk - 1
    OBVIOUS
  <2>2. PICK h : h = seq[r].held \cup {b}
    OBVIOUS
  <2>3. n \in Nat /\ h \in SUBSET Blocks
    BY <1>4, <1>7, <2>1, <2>2, RowFields
  <2>4. seq' = [seq EXCEPT ![r] = [seq[r] EXCEPT !.held = h, !.chunk = n]]
    BY <1>6, <1>7, <2>1, <2>2 DEF RowType
  <2>5. [seq[r] EXCEPT !.held = h, !.chunk = n] \in RowType
    BY <1>7, <2>3 DEF RowType
  <2>6. seq'[r] = [seq[r] EXCEPT !.held = h, !.chunk = n]
        /\ seq' \in [Reqs -> RowType] /\ \A q \in Reqs \ {r} : seq'[q] = seq[q]
    BY <1>7, <2>4, <2>5
  <2> QED BY <1>7, <2>1, <2>2, <2>5, <2>6 DEF RowType
<1>9. \A q \in Reqs \ {r} : Kept(q)
  BY <1>7, <1>8 DEF Kept
<1>10. HeldBlocks(r)' = HeldBlocks(r) \cup {b} /\ PrivatePages(r)' = PrivatePages(r)
  BY <1>8 DEF HeldBlocks, PrivatePages
<1>11. TreeOk(tree) /\ {b} \in SUBSET Blocks /\ \A c \in {b} : tree.ref[c] + 1 \in Nat
  <2>1. tree.ref[b] \in Nat
    BY <1>4, InUse
  <2>2. \A c \in {b} : tree.ref[c] + 1 \in Nat
    BY <2>1
  <2>3. {b} \in SUBSET Blocks
    BY <1>4
  <2>4. TreeOk(tree)
    BY DEF PrefixInv
  <2> QED BY <2>2, <2>3, <2>4
<1>12. TreeOk(tree') /\ RefsChanged(tree, tree', {b}, 1)
  BY <1>6, <1>11, ChangeRefsOk
<1>13. /\ tree'.blocks = tree.blocks /\ tree'.dev = tree.dev /\ tree'.pinned = tree.pinned
       /\ Hosted(tree') = Hosted(tree) /\ InH2D(tree') = InH2D(tree)
       /\ Counted(tree.ref, tree'.ref, {b}, 1)
  BY <1>12 DEF RefsChanged, Hosted, InD2H, InH2D, Counted
<1>14. RowOk(r)'
  <2>1. Unfinished(r)'
    BY <1>4, <1>7, <1>8 DEF RowOk, Unfinished
  <2>2. seq'[r].len # 0
    BY <1>4, <1>8
  <2>3. HeldBlocks(r) \cup {b} \subseteq tree.blocks
    BY <1>3, <1>7 DEF RowOk
  <2> QED BY <1>7, <1>8, <1>10, <1>13, <2>1, <2>2, <2>3 DEF RowOk
<1>15. /\ \A q \in Reqs \ {r} : RowOk(q)'
       /\ SameBut(Held, Held', r) /\ SameBut(Private, Private', r)
  <2>1. \A q \in Reqs \ {r} : HeldBlocks(q) \subseteq tree'.blocks
    BY <1>13 DEF PrefixInv, RowOk
  <2> QED BY <1>9, <2>1, OthersKept
<1>16. RefsExact'
  <2>1. PICK h : h = Held
    OBVIOUS
  <2>2. PICK k : k = Held'
    OBVIOUS
  <2>3. PICK f : f = tree.ref
    OBVIOUS
  <2>4. PICK g : g = tree'.ref
    OBVIOUS
  <2>5. h[r] = HeldBlocks(r) /\ k[r] = HeldBlocks(r)'
    BY <2>1, <2>2 DEF Held
  <2>6. SameBut(h, k, r) /\ {b} \cap h[r] = {} /\ k[r] = h[r] \cup {b} /\ Counted(f, g, {b}, 1)
    BY <1>4, <1>10, <1>13, <1>15, <2>1, <2>2, <2>3, <2>4, <2>5
  <2>7. RefsOf(h, protected, f)
    BY <2>1, <2>3, Restated DEF PrefixInv
  <2>8. RefsOf(k, protected, g)
    BY <2>6, <2>7, RefsAdd
  <2> QED BY <1>6, <2>2, <2>4, <2>8, RestatedNext
<1>17. TiersConserved'
  <2>1. Private' = Private
    BY <1>10, <1>15 DEF Private, SameBut
  <2> QED BY <1>6, <1>13, <2>1, Restated, RestatedNext DEF PrefixInv, HostPagesOf
<1>18. StateType'
  BY <1>6, <1>8, <1>13 DEF PrefixInv, StateType
<1>19. Flow'
  BY <1>4, <1>6, <1>8 DEF PrefixInv, Flow
<1>20. ASSUME NEW q \in Reqs PROVE Saved(q)' /\ Readable(q)'
  <2>1. Saved(q) /\ Readable(q) /\ RowOk(q) /\ ~Promoting(q)
    BY <1>6, RunningParts DEF PrefixInv, Promoting
  <2>2. CASE q = r
    <3>1. Saved(r)'
      BY <1>1, <1>2, <1>3, <1>6, <1>8, <1>10, InsertedSaved
    <3>2. Readable(r)'
      BY <1>6, <1>8, <1>13, <2>1, <2>2 DEF Readable, OnDevice, CopiesAwaited
    <3> QED BY <2>2, <3>1, <3>2
  <2>3. CASE q # r
    <3>1. Kept(q)
      BY <1>9, <2>3
    <3>2. Unsaved(q)' = Unsaved(q)
      BY <1>6, <3>1 DEF Unsaved, ToInsert, Kept
    <3> QED BY <1>6, <1>13, <2>1, <3>1, <3>2, SavedKept, ReadableKept
  <2> QED BY <2>2, <2>3
<1>21. Remembered(tree')
  BY <1>6, <1>11, <1>12, RunningParts, RemembersAdded
<1>22. Running'
  BY <1>6, <1>20, <1>21, ForwardRunning
<1>23. PromiseKept'
  BY <1>6, <1>13 DEF PrefixInv, PromiseKept
<1>24. \A q \in Reqs : RowOk(q)'
  BY <1>14, <1>15
<1> QED BY <1>12, <1>16, <1>17, <1>18, <1>19, <1>22, <1>23, <1>24 DEF PrefixInv

\* insert_block raises: the protection is released.
InsertRaised ==
  /\ pc = "insert" /\ pc' = "stopped"
  /\ tree' = ChangeRefs(tree, protected, -1) /\ protected' = {}
  /\ raised' \in {"parent missing", "host-only parent"}
  /\ UNCHANGED <<free, hostFree, seq, batch, todo, budget, awaited>>

\* Nothing is left protected when insert_block raises.
LEMMA InsertRaises ==
  ASSUME PrefixInv, InsertRaised
  PROVE  PrefixInv'
<1>0. /\ pc = "insert" /\ pc' = "stopped" /\ protected' = {}
      /\ raised' \in {"parent missing", "host-only parent"}
      /\ UNCHANGED <<free, hostFree, seq, batch, todo, budget, awaited>>
  BY DEF InsertRaised
<1>1. TreeOk(tree) /\ protected \in SUBSET Blocks /\ \A b \in protected : tree.ref[b] + (-1) \in Nat
  <2>1. \A b \in protected : b \in Blocks /\ tree.ref[b] \in Nat /\ tree.ref[b] > 0
    BY InUse
  <2>2. \A b \in protected : tree.ref[b] + (-1) \in Nat
    BY <2>1
  <2>3. protected \in SUBSET Blocks
    BY <2>1
  <2>4. TreeOk(tree)
    BY DEF PrefixInv
  <2> QED BY <2>2, <2>3, <2>4
<1>2. TreeOk(tree') /\ RefsChanged(tree, tree', protected, -1)
  <2>1. PICK d : d = -1
    OBVIOUS
  <2>2. d \in Int /\ \A b \in protected : tree.ref[b] + d \in Nat
    BY <1>1, <2>1
  <2>3. tree' = ChangeRefs(tree, protected, d)
    BY <2>1 DEF InsertRaised
  <2>4. TreeOk(tree') /\ RefsChanged(tree, tree', protected, d)
    BY <1>1, <2>2, <2>3, ChangeRefsOk
  <2> QED BY <2>1, <2>4
<1>3. /\ tree'.blocks = tree.blocks /\ tree'.dev = tree.dev /\ tree'.pinned = tree.pinned
      /\ Hosted(tree') = Hosted(tree) /\ Counted(tree.ref, tree'.ref, protected, -1)
  BY <1>2 DEF RefsChanged, Hosted, InD2H, Counted
<1>4. \A q \in Reqs : Kept(q)
  BY <1>0, SameRows DEF PrefixInv
<1>5. (\A q \in Reqs : RowOk(q)') /\ Held' = Held /\ Private' = Private
  BY <1>3, <1>4, RowsKept
<1>6. RefsExact'
  <2>1. RefsOf(Held, protected, tree.ref)
    BY Restated DEF PrefixInv
  <2>2. RefsOf(Held, {}, tree'.ref)
    BY <1>3, <2>1, RefsProtect
  <2> QED BY <1>0, <1>5, <2>2, RestatedNext
<1>7. TiersConserved'
  BY <1>0, <1>3, <1>5, Restated, RestatedNext DEF PrefixInv, HostPagesOf
<1>8. StateType'
  BY <1>0, <1>3 DEF PrefixInv, StateType, PCs
<1>9. Flow' /\ Running'
  BY <1>0 DEF Flow, Running
<1>10. PromiseKept'
  BY <1>0 DEF PromiseKept
<1> QED BY <1>2, <1>5, <1>6, <1>7, <1>8, <1>9, <1>10 DEF PrefixInv

\* A page of the request becomes a block.
LEMMA InsertNewStep ==
  ASSUME PrefixInv, NEW r \in Reqs, InsertNew(r)
  PROVE  PrefixInv'
<1>1. PICK i : i = NextPos(r)
  OBVIOUS
<1>2. PICK b : b = Path(r, i)
  OBVIOUS
<1>3. Inserting(r) /\ b \notin tree.blocks /\ pc = "insert" /\ pc # "stopped"
  BY <1>1, <1>2 DEF InsertNew, Inserting
<1>4. /\ r \in ToSet(todo) /\ r = Head(todo) /\ r \in ToInsert
      /\ seq[r].len \in Nat /\ seq[r].chunk \in Nat /\ seq[r].chunk > 0 /\ seq[r].chunk <= seq[r].len
      /\ i \in 1..Len(Stream[r]) /\ i = (seq[r].len - seq[r].chunk) + 1 /\ i <= seq[r].len
      /\ b \in Blocks /\ Len(b) = i
      /\ HeldBlocks(r) = Chain(r, i - 1)
      /\ HeldBlocks(r) \cup {b} = Chain(r, i)
      /\ b \notin HeldBlocks(r)
  BY <1>1, <1>2, <1>3, InsertingFacts
<1>5. CASE Len(b) > 1 /\ Parent(b) \notin tree.dev
  <2>1. InsertRaised
    BY <1>1, <1>2, <1>3, <1>5 DEF InsertRaised, InsertNew, Raise
  <2> QED BY <2>1, InsertRaises
<1>6. CASE ~(Len(b) > 1 /\ Parent(b) \notin tree.dev)
  <2>1. /\ tree' = InsertBlock(tree, b)
        /\ seq' = [seq EXCEPT ![r].held = @ \cup {b}, ![r].cached = @ \cup {i}, ![r].chunk = @ - 1]
        /\ UNCHANGED <<free, hostFree, pc, batch, todo, budget, awaited, protected, raised>>
    BY <1>1, <1>2, <1>6 DEF InsertNew
  <2>2. seq \in [Reqs -> RowType] /\ seq[r] \in RowType /\ RowOk(r) /\ TreeOk(tree)
    BY DEF PrefixInv, StateType
  <2>3. i > 1 => Path(r, i - 1) \in tree.dev /\ tree.ref[Path(r, i - 1)] > 0
    <3> SUFFICES ASSUME i > 1 PROVE Path(r, i - 1) \in tree.dev /\ tree.ref[Path(r, i - 1)] > 0
      OBVIOUS
    <3>1. Parent(b) = Path(r, i - 1)
      BY <1>2, <1>4, ParentFacts
    <3>2. Path(r, i - 1) \in tree.dev
      BY <1>4, <1>6, <3>1
    <3>3. i - 1 \in 1..(i - 1)
      BY <1>4
    <3>4. Path(r, i - 1) \in HeldBlocks(r)
      BY <1>4, <3>3 DEF Chain
    <3> QED BY <3>2, <3>4, InUse
  <2>4. TreeOk(tree') /\ Inserted(tree, tree', b)
    BY <1>2, <1>3, <1>4, <2>1, <2>2, <2>3, InsertBlockOk
  <2>5. /\ tree'.blocks = tree.blocks \cup {b} /\ tree'.dev = tree.dev \cup {b}
        /\ tree'.pinned = tree.pinned /\ tree'.pending = tree.pending
        /\ Hosted(tree') = Hosted(tree) /\ InH2D(tree') = InH2D(tree)
        /\ tree'.ref[b] = 1 /\ \A c \in Blocks \ {b} : tree'.ref[c] = tree.ref[c]
    BY <2>4 DEF Inserted, Hosted, InD2H, InH2D
  <2>6. tree.ref[b] = 0
    <3>1. b \notin protected /\ (\A q \in Reqs : b \notin HeldBlocks(q)) /\ tree.ref[b] \in Nat
      BY <1>3, <1>4, InUse
    <3> QED BY <1>4, <3>1, InUse
  <2>7. Counted(tree.ref, tree'.ref, {b}, 1)
    BY <2>5, <2>6 DEF Counted
  <2>8. /\ seq'[r] \in RowType /\ seq'[r].len = seq[r].len /\ seq'[r].cached = seq[r].cached \cup {i}
        /\ seq'[r].status = seq[r].status /\ seq'[r].chunk = seq[r].chunk - 1
        /\ seq'[r].hit = seq[r].hit /\ seq'[r].held = seq[r].held \cup {b}
        /\ seq' \in [Reqs -> RowType] /\ \A q \in Reqs \ {r} : seq'[q] = seq[q]
    <3>1. PICK n : n = seq[r].chunk - 1
      OBVIOUS
    <3>2. PICK h : h = seq[r].held \cup {b}
      OBVIOUS
    <3>3. PICK c : c = seq[r].cached \cup {i}
      OBVIOUS
    <3>4. n \in Nat /\ h \in SUBSET Blocks /\ c \in SUBSET Nat
      BY <1>4, <2>2, <3>1, <3>2, <3>3, RowFields
    <3>5. seq' = [seq EXCEPT ![r] = [seq[r] EXCEPT !.held = h, !.cached = c, !.chunk = n]]
      BY <2>1, <2>2, <3>1, <3>2, <3>3 DEF RowType
    <3>6. [seq[r] EXCEPT !.held = h, !.cached = c, !.chunk = n] \in RowType
      BY <2>2, <3>4 DEF RowType
    <3>7. seq'[r] = [seq[r] EXCEPT !.held = h, !.cached = c, !.chunk = n]
          /\ seq' \in [Reqs -> RowType] /\ \A q \in Reqs \ {r} : seq'[q] = seq[q]
      BY <2>2, <3>5, <3>6
    <3> QED BY <2>2, <3>1, <3>2, <3>3, <3>6, <3>7 DEF RowType
  <2>9. \A q \in Reqs \ {r} : Kept(q)
    BY <2>2, <2>8 DEF Kept
  <2>10. HeldBlocks(r)' = HeldBlocks(r) \cup {b}
    BY <2>8 DEF HeldBlocks
  <2>11. i \notin seq[r].cached /\ seq[r].cached \subseteq 1..seq[r].len
    BY <1>2, <1>4, <2>2 DEF RowOk
  <2>12. PrivatePages(r)' = PrivatePages(r) - 1 /\ PrivatePages(r) \in Nat /\ PrivatePages(r)' \in Nat
    <3>1. IsFiniteSet(seq[r].cached) /\ Cardinality(seq[r].cached) \in Nat
      BY <1>4, <2>11, PositionCount
    <3>2. Cardinality(seq[r].cached \cup {i}) = Cardinality(seq[r].cached) + 1
      BY <2>11, <3>1, FS_AddElement
    <3>3. seq[r].cached \cup {i} \subseteq 1..seq[r].len
      BY <1>4, <2>11
    <3>4. Cardinality(seq[r].cached \cup {i}) <= seq[r].len
      BY <1>4, <3>3, PositionCount
    <3>5. PrivatePages(r)' = seq[r].len - Cardinality(seq[r].cached \cup {i})
      BY <2>8 DEF PrivatePages
    <3> QED BY <1>4, <3>1, <3>2, <3>4, <3>5 DEF PrivatePages
  <2>13. RowOk(r)'
    <3>1. Unfinished(r)'
      BY <1>4, <2>2, <2>8 DEF RowOk, Unfinished
    <3>2. seq'[r].len # 0
      BY <1>4, <2>8
    <3>3. HeldBlocks(r) \cup {b} \subseteq tree'.blocks
      BY <2>2, <2>5 DEF RowOk
    <3>4. seq'[r].cached \subseteq 1..seq'[r].len
      BY <1>4, <2>8, <2>11
    <3>5. \A j \in seq'[r].cached : Path(r, j) \in HeldBlocks(r)'
      BY <1>2, <2>2, <2>8, <2>10 DEF RowOk
    <3> QED BY <2>2, <2>8, <2>10, <3>1, <3>2, <3>3, <3>4, <3>5 DEF RowOk
  <2>14. /\ \A q \in Reqs \ {r} : RowOk(q)'
         /\ SameBut(Held, Held', r) /\ SameBut(Private, Private', r)
    <3>1. \A q \in Reqs \ {r} : HeldBlocks(q) \subseteq tree'.blocks
      BY <2>5 DEF PrefixInv, RowOk
    <3> QED BY <2>9, <3>1, OthersKept
  <2>15. RefsExact'
    <3>1. PICK h : h = Held
      OBVIOUS
    <3>2. PICK k : k = Held'
      OBVIOUS
    <3>3. PICK f : f = tree.ref
      OBVIOUS
    <3>4. PICK g : g = tree'.ref
      OBVIOUS
    <3>5. h[r] = HeldBlocks(r) /\ k[r] = HeldBlocks(r)'
      BY <3>1, <3>2 DEF Held
    <3>6. SameBut(h, k, r) /\ {b} \cap h[r] = {} /\ k[r] = h[r] \cup {b} /\ Counted(f, g, {b}, 1)
      BY <1>4, <2>7, <2>10, <2>14, <3>1, <3>2, <3>3, <3>4, <3>5
    <3>7. RefsOf(h, protected, f)
      BY <3>1, <3>3, Restated DEF PrefixInv
    <3>8. RefsOf(k, protected, g)
      BY <3>6, <3>7, RefsAdd
    <3> QED BY <2>1, <3>2, <3>4, <3>8, RestatedNext
  <2>16. TiersConserved'
    <3>1. PICK f : f = Private
      OBVIOUS
    <3>2. PICK g : g = Private'
      OBVIOUS
    <3>3. f[r] = PrivatePages(r) /\ g[r] = PrivatePages(r) - 1
      BY <2>12, <3>1, <3>2 DEF Private
    <3>4. \A q \in Reqs \ {r} : g[q] = f[q]
      BY <2>14, <3>1, <3>2 DEF SameBut
    <3>5. \A q \in Reqs : f[q] \in Nat
      BY <2>2, <3>1, RowNumbers DEF PrefixInv, Private
    <3>6. \A q \in Reqs : f[q] \in Nat /\ g[q] \in Nat
      BY <2>12, <3>2, <3>3, <3>4, <3>5
    <3>7. /\ Cardinality(Cells(Reqs, f)) \in Nat
          /\ Cardinality(Cells(Reqs, g)) = Cardinality(Cells(Reqs, f)) + (g[r] - f[r])
      BY <3>4, <3>6, PagesMove
    <3>8. free + Cardinality(Cells(Reqs, f)) + Cardinality(tree.dev) = NumPages /\ HostPagesOf(hostFree, tree)
      BY <3>1, Restated DEF PrefixInv, PagesOf
    <3>9. Cardinality(tree.dev) \in Nat /\ free \in Nat
      BY HitsAre, BlockSets, Quantities
    <3>10. Cardinality(tree'.dev) = Cardinality(tree.dev) + 1
      <4>1. PICK A : A = tree.dev
        OBVIOUS
      <4>2. A \in SUBSET Blocks /\ b \notin A
        BY <1>3, <2>2, <4>1, HitsAre DEF TreeOk
      <4>3. Cardinality(A \cup {b}) = Cardinality(A) + 1
        BY <4>2, BlockSets, FS_AddElement
      <4> QED BY <2>5, <4>1, <4>3
    <3>11. free + Cardinality(Cells(Reqs, g)) + (Cardinality(tree.dev) + 1) = NumPages
      BY <2>12, <3>3, <3>7, <3>8, <3>9
    <3>12. PagesOf(free', Private', tree'.dev)
      BY <2>1, <3>2, <3>10, <3>11 DEF PagesOf
    <3>13. HostPagesOf(hostFree', tree')
      BY <2>1, <2>5, <3>8 DEF HostPagesOf
    <3> QED BY <3>12, <3>13, RestatedNext
  <2>17. StateType'
    BY <2>1, <2>5, <2>8 DEF PrefixInv, StateType
  <2>18. Flow'
    BY <1>3, <1>4, <2>1, <2>8 DEF PrefixInv, Flow
  <2>19. ASSUME NEW q \in Reqs PROVE Saved(q)' /\ Readable(q)'
    <3>1. Saved(q) /\ Readable(q) /\ RowOk(q) /\ ~Promoting(q)
      BY <1>3, RunningParts DEF PrefixInv, Promoting
    <3>2. CASE q = r
      <4>1. Saved(r)'
        BY <1>1, <1>2, <1>3, <2>1, <2>8, <2>10, InsertedSaved
      <4>2. OnDevice(r)'
        BY <1>2, <2>5, <2>8, <3>1, <3>2 DEF Readable, OnDevice
      <4>3. b \notin InH2D(tree)
        <5>1. InH2D(tree) \subseteq tree.blocks
          BY <2>2 DEF TreeOk, CopiesPlaced
        <5> QED BY <1>3, <5>1
      <4>4. CopiesAwaited(r)'
        BY <1>2, <2>1, <2>5, <2>8, <3>1, <3>2, <4>3 DEF Readable, CopiesAwaited
      <4> QED BY <3>2, <4>1, <4>2, <4>4 DEF Readable
    <3>3. CASE q # r
      <4>1. Kept(q)
        BY <2>9, <3>3
      <4>2. Unsaved(q)' = Unsaved(q)
        BY <2>1, <4>1 DEF Unsaved, ToInsert, Kept
      <4>3. \A c \in HeldBlocks(q) : c \in tree.dev => c \in tree'.dev
        BY <2>5
      <4> QED BY <2>1, <2>5, <3>1, <4>1, <4>2, <4>3, SavedKept, ReadableKept
    <3> QED BY <3>2, <3>3
  <2>20. Remembered(tree')
    <3> SUFFICES ASSUME NEW d \in tree'.dev \ Hosted(tree'), tree'.ref[d] = 0
                 PROVE  d \in tree'.pending /\ \E a \in Ancestors(d) : tree'.ref[a] > 0 /\ a \notin Hosted(tree')
      BY DEF Remembered
    <3>1. d # b
      BY <2>5
    <3>2. d \in Blocks /\ d \in tree.dev \ Hosted(tree) /\ tree.ref[d] = 0
      BY <2>5, <3>1, HitsAre
    <3>3. d \in tree.pending /\ \E a \in Ancestors(d) : tree.ref[a] > 0 /\ a \notin Hosted(tree)
      BY <1>3, <3>2, RunningParts DEF Remembered
    <3>4. PICK a \in Ancestors(d) : tree.ref[a] > 0 /\ a \notin Hosted(tree)
      BY <3>3
    <3>5. a \in Blocks
      BY <3>2, AncestorFacts
    <3>6. tree'.ref[a] > 0
      BY <2>5, <3>4, <3>5
    <3> QED BY <2>5, <3>3, <3>4, <3>6
  <2>21. Running'
    BY <1>3, <2>1, <2>19, <2>20, ForwardRunning
  <2>22. PromiseKept'
    BY <2>1, <2>5 DEF PrefixInv, PromiseKept
  <2>23. \A q \in Reqs : RowOk(q)'
    BY <2>13, <2>14
  <2> QED BY <2>4, <2>15, <2>16, <2>17, <2>18, <2>21, <2>22, <2>23 DEF PrefixInv
<1> QED BY <1>5, <1>6
-----------------------------------------------------------------------------
(* Release.                                                                *)

\* Every element of P is named, by N, by one of the f[s] elements of some g[s].
Reached(S, f, g, N, P) ==
  /\ \A s \in S : f[s] \in Nat /\ IsFiniteSet(g[s]) /\ Cardinality(g[s]) = f[s]
  /\ \A b \in P : \E s \in S : \E j \in g[s] : b = N[s][j]

\* It has no more elements than there are cells.
LEMMA CellsReach ==
  ASSUME NEW S, IsFiniteSet(S), NEW f, NEW g, NEW N, NEW P, Reached(S, f, g, N, P)
  PROVE  IsFiniteSet(P) /\ Cardinality(P) <= Cardinality(Cells(S, f))
<1> DEFINE e == [s \in S |-> CHOOSE x : x \in Surjection(1..f[s], g[s])]
           C == Cells(S, f)
           m == [x \in C |-> N[x[1]][e[x[1]][x[2]]]]
           T == {m[x] : x \in C}
<1>0. /\ \A s \in S : f[s] \in Nat /\ IsFiniteSet(g[s]) /\ Cardinality(g[s]) = f[s]
      /\ \A b \in P : \E s \in S : \E j \in g[s] : b = N[s][j]
  BY DEF Reached
<1>1. ASSUME NEW s \in S, NEW j \in g[s] PROVE \E i \in 1..f[s] : e[s][i] = j
  <2>1. ExistsBijection(1..f[s], g[s])
    BY <1>0, FS_CardinalityType
  <2>2. \E x : x \in Surjection(1..f[s], g[s])
    BY <2>1 DEF ExistsBijection, Bijection
  <2>3. e[s] \in Surjection(1..f[s], g[s])
    BY <2>2
  <2> HIDE DEF e
  <2> QED BY <2>3 DEF Surjection
<1>2. \A x : x \in C <=> \E s \in S : \E k \in 1..f[s] : x = <<s, k>>
  BY CellIs
<1>3. IsFiniteSet(C)
  BY <1>0, CellsFinite
<1> HIDE DEF C, e
<1>4. P \subseteq T
  <2> SUFFICES ASSUME NEW b \in P PROVE b \in T
    OBVIOUS
  <2>1. PICK s \in S : \E j \in g[s] : b = N[s][j]
    BY <1>0
  <2>2. PICK j \in g[s] : b = N[s][j]
    BY <2>1
  <2>3. PICK i \in 1..f[s] : e[s][i] = j
    BY <1>1
  <2>4. <<s, i>> \in C
    BY <1>2
  <2>5. m[<<s, i>>] = b
    BY <2>2, <2>3, <2>4
  <2> QED BY <2>4, <2>5
<1>5. m \in Surjection(C, T)
  BY DEF Surjection
<1> HIDE DEF m, T
<1>6. IsFiniteSet(T) /\ Cardinality(T) <= Cardinality(C)
  BY <1>3, <1>5, FS_Surjection
<1>7. IsFiniteSet(P) /\ Cardinality(P) <= Cardinality(T)
  BY <1>4, <1>6, FS_Subset
<1>8. Cardinality(P) \in Nat /\ Cardinality(T) \in Nat /\ Cardinality(C) \in Nat
  BY <1>3, <1>6, <1>7, FS_CardinalityType
<1>9. Cardinality(P) <= Cardinality(C)
  BY <1>6, <1>7, <1>8
<1> QED BY <1>7, <1>9 DEF C

\* Blocks in use that are off the device are recomputed in private pages.
LEMMA OffDevice ==
  ASSUME PrefixInv, pc \in {"idle", "scan"}, NEW P \in SUBSET Blocks,
         \A b \in P : b \notin tree.dev /\ \E q \in Reqs : b \in HeldBlocks(q)
  PROVE  Cardinality(P) <= Cardinality(Cells(Reqs, Private))
<1> DEFINE g == [q \in Reqs |-> (1..seq[q].len) \ seq[q].cached]
           N == [q \in Reqs |-> [j \in Nat |-> Path(q, j)]]
<1>1. ASSUME NEW q \in Reqs
      PROVE  Private[q] \in Nat /\ IsFiniteSet(g[q]) /\ Cardinality(g[q]) = Private[q]
  <2>1. seq[q].len \in Nat /\ PrivatePages(q) \in Nat /\ seq[q].cached \subseteq 1..seq[q].len
    BY RowNumbers DEF PrefixInv, StateType, RowOk
  <2>2. PICK n : n = seq[q].len
    OBVIOUS
  <2>3. PICK A : A = seq[q].cached
    OBVIOUS
  <2>4. IsFiniteSet(A) /\ Cardinality(A) \in Nat /\ IsFiniteSet(1..n) /\ Cardinality(1..n) = n
    BY <2>1, <2>2, <2>3, PositionCount, FS_Interval
  <2>5. IsFiniteSet((1..n) \ A) /\ Cardinality((1..n) \ A) = Cardinality(1..n) - Cardinality((1..n) \cap A)
    BY <2>4, FS_Difference
  <2>6. (1..n) \cap A = A
    BY <2>1, <2>2, <2>3
  <2>7. g[q] = (1..n) \ A /\ Private[q] = n - Cardinality(A)
    BY <2>2, <2>3 DEF Private, PrivatePages
  <2> QED BY <2>1, <2>4, <2>5, <2>6, <2>7 DEF Private
<1>2. ASSUME NEW b \in P PROVE \E q \in Reqs : \E j \in g[q] : b = N[q][j]
  <2>1. PICK q \in Reqs : b \in HeldBlocks(q)
    OBVIOUS
  <2>2. seq[q].len \in Nat /\ seq[q].len \in 0..Len(Stream[q])
    BY RowNumbers, Lengths DEF PrefixInv, StateType
  <2>3. b \in Chain(q, seq[q].len)
    BY <2>1, AtRest
  <2>4. Len(b) \in 1..seq[q].len /\ b = Path(q, Len(b))
    BY <2>2, <2>3, ChainFacts
  <2>5. Len(b) \notin seq[q].cached
    BY <2>4, AtRest DEF OnDevice
  <2>6. PICK j : j = Len(b)
    OBVIOUS
  <2>7. j \in g[q] /\ j \in Nat
    BY <2>2, <2>4, <2>5, <2>6
  <2>8. N[q][j] = b
    BY <2>4, <2>6, <2>7
  <2> QED BY <2>7, <2>8
<1>3. IsFiniteSet(Reqs)
  BY StreamAssumption
<1> HIDE DEF g, N
<1>4. \A q \in Reqs : Private[q] \in Nat /\ IsFiniteSet(g[q]) /\ Cardinality(g[q]) = Private[q]
  BY <1>1
<1>5. \A b \in P : \E q \in Reqs : \E j \in g[q] : b = N[q][j]
  BY <1>2
<1>6. Reached(Reqs, Private, g, N, P)
  BY <1>4, <1>5 DEF Reached
<1> QED BY <1>3, <1>6, CellsReach

\* With a block for every page the host pool has room for what is written
\* through, once host leaves nobody uses are evicted: what stays is on the
\* device or recomputed in a private page.
LEMMA HostRoom ==
  ASSUME PrefixInv, pc \in {"idle", "scan"}, NEW t, TreeOk(t), NEW X,
         t.dev = tree.dev, t.blocks = tree.blocks, Hosted(t) = Hosted(tree), t.pinned = {},
         \A b \in Blocks : t.ref[b] > 0 => tree.ref[b] > 0
  PROVE  Cardinality(Selected(t, X)) <= hostFree + Cardinality(HostFreeable(t))
<1>1. PICK Sel : Sel = Selected(t, X)
  OBVIOUS
<1>2. PICK F : F = HostFreeable(t)
  OBVIOUS
<1>3. PICK H : H = Hosted(t)
  OBVIOUS
<1>4. PICK D : D = tree.dev
  OBVIOUS
<1>5. PICK P : P = H \ (D \cup F)
  OBVIOUS
<1>6. t \in TreeType /\ t.blocks = t.dev \cup t.host /\ Rooted(t.dev) /\ CopiesPlaced(t)
  BY DEF TreeOk
<1>7. /\ t.blocks \subseteq Blocks /\ t.dev \subseteq Blocks /\ t.host \subseteq Blocks
      /\ \A b \in Blocks : t.ref[b] \in Nat
  BY <1>6, TreeFields
<1>8. InD2H(t) \subseteq t.dev /\ Moving(t) \subseteq t.dev
  BY <1>6 DEF CopiesPlaced, Moving
<1>9. Sel \subseteq t.dev /\ Sel \cap H = {}
  BY <1>1, <1>3, SelectedIs, CandidateIs DEF Hosted, Moving
<1>10. \A b \in F : b \in t.blocks /\ \A c \in Subtree(t.blocks, b) : Evictable(t, c)
  BY <1>2, HostFreeableIs
<1>11. F \subseteq H /\ F \cap t.dev = {}
  <2> SUFFICES ASSUME NEW b \in F PROVE b \in t.host /\ b \notin t.dev
    BY <1>3 DEF Hosted
  <2>1. b \in Subtree(t.blocks, b)
    BY <1>7, <1>10, SubtreeIs
  <2> QED BY <1>10, <2>1 DEF Evictable
<1>12. ASSUME NEW b \in P PROVE b \in Blocks /\ b \notin tree.dev /\ \E q \in Reqs : b \in HeldBlocks(q)
  <2>1. b \in t.host /\ b \notin t.dev /\ b \notin F /\ b \in Blocks /\ b \in t.blocks
    BY <1>3, <1>4, <1>5, <1>6, <1>7, <1>8 DEF Hosted
  <2>2. PICK c \in Subtree(t.blocks, b) : ~Evictable(t, c)
    BY <1>2, <2>1, HostFreeableIs
  <2>3. c \in t.blocks /\ c \in Blocks /\ (c = b \/ b \in Ancestors(c))
    BY <1>7, <2>1, <2>2, SubtreeIs
  <2>4. c \notin t.dev
    BY <1>6, <2>1, <2>3 DEF Rooted
  <2>5. c \in t.host \ t.dev /\ c \notin Moving(t)
    BY <1>6, <1>8, <2>3, <2>4
  <2>6. t.ref[c] # 0 /\ t.ref[c] \in Nat
    BY <1>7, <2>2, <2>3, <2>5 DEF Evictable, Unused
  <2>7. tree.ref[c] > 0
    BY <2>3, <2>6
  <2>8. PICK q \in Reqs : c \in HeldBlocks(q)
    BY <2>3, <2>7, InUse, AtRest
  <2>9. seq[q].len \in 0..Len(Stream[q])
    BY RowNumbers, Lengths DEF PrefixInv, StateType
  <2>10. Rooted(HeldBlocks(q))
    BY <2>9, AtRest, ChainFacts
  <2>11. b \in HeldBlocks(q)
    BY <2>3, <2>8, <2>10 DEF Rooted
  <2> QED BY <2>1, <2>11
<1>13. P \in SUBSET Blocks
  BY <1>12
<1>14. PICK m : m = Cardinality(Cells(Reqs, Private))
  OBVIOUS
<1>15. Cardinality(P) <= m
  BY <1>12, <1>13, <1>14, OffDevice
<1>16. m \in Nat
  <2>1. \A q \in Reqs : Private[q] \in Int
    BY RowNumbers DEF PrefixInv, StateType, Private
  <2>2. IsFiniteSet(Reqs)
    BY StreamAssumption
  <2> QED BY <1>14, <2>1, <2>2, CellsFinite
<1>17. free + m + Cardinality(D) = NumPages /\ hostFree + Cardinality(H) = HostBlocks
  BY <1>3, <1>4, <1>14, Restated DEF PrefixInv, PagesOf, HostPagesOf
<1>18. /\ D \in SUBSET Blocks /\ H \in SUBSET Blocks /\ F \in SUBSET Blocks /\ Sel \in SUBSET Blocks
       /\ F \subseteq H /\ Sel \subseteq D /\ Sel \cap H = {} /\ D \cap F = {}
  BY <1>3, <1>4, <1>6, <1>7, <1>8, <1>9, <1>11 DEF Hosted
<1>19. Cardinality(H \cup Sel) = Cardinality(H) + Cardinality(Sel)
  BY <1>18, UnionCount
<1>20. Cardinality(D \cup P) <= Cardinality(D) + Cardinality(P)
  BY <1>13, <1>18, BlockCounts
<1>21. Cardinality((D \cup P) \cup F) <= Cardinality(D \cup P) + Cardinality(F)
  BY <1>13, <1>18, BlockCounts
<1>22. Cardinality(H \cup Sel) <= Cardinality((D \cup P) \cup F)
  <2>1. PICK A : A = H \cup Sel
    OBVIOUS
  <2>2. PICK B : B = (D \cup P) \cup F
    OBVIOUS
  <2>3. A \subseteq B /\ A \in SUBSET Blocks /\ B \in SUBSET Blocks
    BY <1>5, <1>13, <1>18, <2>1, <2>2
  <2>4. Cardinality(A) <= Cardinality(B)
    BY <2>3, BlockCounts
  <2> QED BY <2>1, <2>2, <2>4
<1>23. /\ Cardinality(D) \in Nat /\ Cardinality(H) \in Nat /\ Cardinality(F) \in Nat
       /\ Cardinality(Sel) \in Nat /\ Cardinality(P) \in Nat /\ Cardinality(D \cup P) \in Nat
       /\ Cardinality(H \cup Sel) \in Nat /\ Cardinality((D \cup P) \cup F) \in Nat
  BY <1>13, <1>18, BlockSets
<1>24. free \in Nat /\ hostFree \in Nat /\ NumPages \in Nat /\ HostBlocks \in Nat /\ NumPages <= HostBlocks
  BY Quantities, HostAssumption
<1>25. Cardinality(H) + Cardinality(Sel) <= (Cardinality(D) + m) + Cardinality(F)
  BY <1>15, <1>16, <1>19, <1>20, <1>21, <1>22, <1>23
<1>26. Cardinality(D) + m <= HostBlocks
  BY <1>16, <1>17, <1>23, <1>24
<1> QED BY <1>1, <1>2, <1>16, <1>17, <1>23, <1>24, <1>25, <1>26
\* A row without a mark has the mark 0.
LEMMA NoRowMark ==
  ASSUME NEW x, NEW status, x = NoRow(status)
  PROVE  x = [NoRow(status) EXCEPT !.mark = 0]
BY DEF NoRow

\* free_seq.
LEMMA FreeSeqStep ==
  ASSUME PrefixInv, pc \in {"idle", "scan"}, batch = <<>>, NEW r \in Reqs,
         NEW status \in {"done", "replay"}, FreeSeq(r, status),
         budget' \in [prompt : Nat, step : Nat, decode : Nat],
         UNCHANGED <<batch, todo, awaited, protected>>
  PROVE  PrefixInv'
<1>1. PICK X : X = HeldBlocks(r)
  OBVIOUS
<1>2. PICK d : d = -1
  OBVIOUS
<1>3. PICK p \in Polled(tree) :
        \E w \in WriteThrough(ChangeRefs(p, X, d), X, hostFree) :
          /\ tree' = w.tree /\ hostFree' = w.room
          /\ free' = free + PrivatePages(r)
          /\ seq' = IF status = "done" THEN [seq EXCEPT ![r] = NoRow(status)]
                    ELSE [Checkpointed EXCEPT ![r] = [NoRow(status) EXCEPT !.mark = Checkpointed[r].mark]]
          /\ IF w.ok THEN pc' = "idle" /\ UNCHANGED raised ELSE Raise("host full")
  BY <1>1, <1>2 DEF FreeSeq
<1>4. PICK t : t = ChangeRefs(p, X, d)
  OBVIOUS
<1>5. PICK w \in WriteThrough(t, X, hostFree) :
        /\ tree' = w.tree /\ hostFree' = w.room
        /\ free' = free + PrivatePages(r)
        /\ seq' = IF status = "done" THEN [seq EXCEPT ![r] = NoRow(status)]
                  ELSE [Checkpointed EXCEPT ![r] = [NoRow(status) EXCEPT !.mark = Checkpointed[r].mark]]
        /\ IF w.ok THEN pc' = "idle" /\ UNCHANGED raised ELSE Raise("host full")
  BY <1>3, <1>4
<1>6. TreeOk(tree) /\ TreeOk(p) /\ Advanced(tree, p)
  BY <1>3, PolledOk DEF PrefixInv
<1>7. X \in SUBSET Blocks /\ d \in Int /\ \A b \in X : p.ref[b] + d \in Nat
  <2>1. \A b \in X : b \in Blocks /\ tree.ref[b] \in Nat /\ tree.ref[b] > 0
    BY <1>1, InUse
  <2>2. \A b \in X : tree.ref[b] + d \in Nat
    BY <1>2, <2>1
  <2>3. p.ref = tree.ref
    BY <1>6 DEF Advanced
  <2> QED BY <1>2, <2>1, <2>2, <2>3
<1>8. TreeOk(t) /\ RefsChanged(p, t, X, d)
  BY <1>4, <1>6, <1>7, ChangeRefsOk
<1>9. /\ t.blocks = tree.blocks /\ t.dev = tree.dev /\ t.pinned = tree.pinned
      /\ Hosted(t) = Hosted(tree) /\ InH2D(t) \subseteq InH2D(tree) /\ t.pending = tree.pending
      /\ Counted(tree.ref, t.ref, X, d)
  BY <1>6, <1>8 DEF RefsChanged, Advanced, Hosted, InD2H, InH2D, Counted
<1>10. WrittenThrough(t, X, hostFree, w)
  <2>1. hostFree \in Nat
    BY Quantities
  <2> QED BY <1>5, <1>7, <1>8, <2>1, WriteThroughOk
<1>11. /\ TreeOk(tree') /\ tree'.dev = tree.dev /\ InH2D(tree') \subseteq InH2D(tree)
       /\ Counted(tree.ref, tree'.ref, X, d)
       /\ tree'.blocks \subseteq tree.blocks
       /\ \A b \in tree.blocks \ tree'.blocks : tree'.ref[b] = 0
       /\ hostFree' \in Nat
       /\ hostFree' + Cardinality(Hosted(tree')) = hostFree + Cardinality(Hosted(tree))
       /\ tree'.pinned = {} => tree.pinned = {}
  BY <1>5, <1>9, <1>10 DEF WrittenThrough, InH2D
<1>12. ToSubmit(t, X)
  <2> SUFFICES ASSUME NEW b \in t.dev \ Hosted(t), t.ref[b] = 0 PROVE b \in t.pending \cup X
    BY DEF ToSubmit
  <2>1. b \in tree.dev \ Hosted(tree) /\ b \in Blocks
    BY <1>9, HitsAre
  <2>2. b \notin X => tree.ref[b] = 0
    BY <1>9, <2>1 DEF Counted
  <2>3. b \notin X => b \in tree.pending
    BY <2>1, <2>2, AtRest DEF Remembered
  <2> QED BY <1>9, <2>3
<1>13. seq \in [Reqs -> RowType] /\ RowOk(r)
  BY DEF PrefixInv, StateType
<1>14. PICK c : c = Checkpointed
  OBVIOUS
<1>15. ASSUME NEW q \in Reqs
       PROVE  /\ c[q] \in RowType /\ c[q].mark \in Nat
              /\ c[q].status = seq[q].status /\ c[q].len = seq[q].len /\ c[q].chunk = seq[q].chunk
              /\ c[q].hit = seq[q].hit /\ c[q].cached = seq[q].cached /\ c[q].held = seq[q].held
  <2>1. seq[q] \in RowType /\ seq[q].mark \in Nat /\ seq[q].len \in Nat
    BY <1>13, RowFields
  <2>2. PICK m : m = Max({seq[q].mark, seq[q].len})
    OBVIOUS
  <2>3. m \in Nat
    <3>1. PICK x : x = seq[q].mark
      OBVIOUS
    <3>2. PICK y : y = seq[q].len
      OBVIOUS
    <3>3. x \in Nat /\ y \in Nat /\ x \in Int /\ y \in Int /\ m = Max({x, y})
      BY <2>1, <2>2, <3>1, <3>2
    <3> QED BY <3>3, TwoNumbers
  <2>4. c[q] = IF Decoding(q) THEN [seq[q] EXCEPT !.mark = m] ELSE seq[q]
    BY <1>14, <2>1, <2>2 DEF Checkpointed, RowType
  <2>5. CASE Decoding(q)
    <3>1. [seq[q] EXCEPT !.mark = m] \in RowType
      BY <2>1, <2>3 DEF RowType
    <3> QED BY <2>1, <2>3, <2>4, <2>5, <3>1 DEF RowType
  <2>6. CASE ~Decoding(q)
    BY <2>1, <2>4, <2>6
  <2> QED BY <2>5, <2>6
<1>16. c = [q \in Reqs |-> c[q]]
  BY <1>14 DEF Checkpointed
<1>17. PICK m \in Nat : seq'[r] = [NoRow(status) EXCEPT !.mark = m]
  <2>1. CASE status = "done"
    <3>1. seq'[r] = NoRow(status)
      BY <1>5, <1>13, <2>1
    <3>2. seq'[r] = [NoRow(status) EXCEPT !.mark = 0]
      BY <3>1, NoRowMark
    <3> QED BY <3>2
  <2>2. CASE status # "done"
    <3>1. seq' = [c EXCEPT ![r] = [NoRow(status) EXCEPT !.mark = c[r].mark]]
      BY <1>5, <1>14, <2>2
    <3> QED BY <1>15, <1>16, <3>1
  <2> QED BY <2>1, <2>2
<1>18. /\ seq'[r] \in RowType /\ RowOk(r)' /\ HeldBlocks(r)' = {} /\ PrivatePages(r)' = 0
       /\ (Unsaved(r)' = 0 => Saved(r)') /\ Readable(r)'
  <2>1. status \in Statuses
    BY DEF Statuses
  <2> QED BY <1>17, <2>1, NewRow
<1>19. seq' \in [Reqs -> RowType] /\ \A q \in Reqs \ {r} : Kept(q)
  <2>1. CASE status = "done"
    <3>1. \A q \in Reqs \ {r} : seq'[q] = seq[q]
      BY <1>5, <1>13, <2>1
    <3>2. seq' = [q \in Reqs |-> seq'[q]]
      BY <1>5, <1>13, <2>1
    <3> QED BY <1>13, <1>18, <3>1, <3>2 DEF Kept
  <2>2. CASE status # "done"
    <3>1. seq' = [c EXCEPT ![r] = [NoRow(status) EXCEPT !.mark = c[r].mark]]
      BY <1>5, <1>14, <2>2
    <3>2. \A q \in Reqs \ {r} : seq'[q] = c[q]
      BY <1>16, <3>1
    <3>3. seq' = [q \in Reqs |-> seq'[q]]
      BY <1>16, <3>1
    <3> QED BY <1>15, <1>18, <3>2, <3>3 DEF Kept
  <2> QED BY <2>1, <2>2
<1>20. /\ SameBut(Held, Held', r) /\ SameBut(Private, Private', r)
       /\ \A q \in Reqs \ {r} : HeldBlocks(q)' = HeldBlocks(q)
  BY <1>19, RowKept DEF SameBut, Held, Private
<1>21. RefsOf(Held', {}, tree'.ref)
  <2>1. PICK h : h = Held
    OBVIOUS
  <2>2. PICK k : k = Held'
    OBVIOUS
  <2>3. PICK f : f = tree.ref
    OBVIOUS
  <2>4. PICK g : g = tree'.ref
    OBVIOUS
  <2>5. h[r] = X /\ k[r] = {}
    BY <1>1, <1>18, <2>1, <2>2 DEF Held
  <2>6. SameBut(h, k, r) /\ Counted(f, g, h[r], -1)
    BY <1>2, <1>11, <1>20, <2>1, <2>2, <2>3, <2>4, <2>5
  <2>7. RefsOf(h, {}, f)
    BY <2>1, <2>3, AtRest, Restated DEF PrefixInv
  <2>8. RefsOf(k, {}, g)
    BY <2>5, <2>6, <2>7, RefsDrop
  <2> QED BY <2>2, <2>4, <2>8
<1>22. protected = {} /\ protected' = {} /\ todo = <<>> /\ todo' = <<>> /\ batch' = <<>>
  BY AtRest
<1>23. RefsExact'
  BY <1>21, <1>22, RestatedNext
<1>24. ASSUME NEW q \in Reqs \ {r} PROVE HeldBlocks(q) \subseteq tree'.blocks
  <2> SUFFICES ASSUME NEW b \in HeldBlocks(q) PROVE b \in tree'.blocks
    OBVIOUS
  <2>1. b \in Blocks /\ b \in tree.blocks
    BY InUse
  <2>2. b \in Held'[q]
    BY <1>20 DEF Held
  <2>3. tree'.ref[b] # 0
    BY <1>21, <2>1, <2>2, RefsZero
  <2> QED BY <1>11, <2>1, <2>3
<1>25. \A q \in Reqs : RowOk(q)'
  BY <1>18, <1>19, <1>24, OthersKept
<1>26. TiersConserved'
  <2>1. PICK f : f = Private
    OBVIOUS
  <2>2. PICK g : g = Private'
    OBVIOUS
  <2>3. f[r] = PrivatePages(r) /\ g[r] = 0
    BY <1>18, <2>1, <2>2 DEF Private
  <2>4. \A q \in Reqs \ {r} : g[q] = f[q]
    BY <1>20, <2>1, <2>2 DEF SameBut
  <2>5. \A q \in Reqs : f[q] \in Nat
    BY <1>13, <2>1, RowNumbers DEF PrefixInv, Private
  <2>6. \A q \in Reqs : f[q] \in Nat /\ g[q] \in Nat
    BY <2>3, <2>4, <2>5
  <2>7. /\ Cardinality(Cells(Reqs, f)) \in Nat
        /\ Cardinality(Cells(Reqs, g)) = Cardinality(Cells(Reqs, f)) + (g[r] - f[r])
    BY <2>4, <2>6, PagesMove
  <2>8. free + Cardinality(Cells(Reqs, f)) + Cardinality(tree.dev) = NumPages /\ HostPagesOf(hostFree, tree)
    BY <2>1, Restated DEF PrefixInv, PagesOf
  <2>9. Cardinality(tree.dev) \in Nat /\ free \in Nat
    BY HitsAre, BlockSets, Quantities
  <2>10. free' + Cardinality(Cells(Reqs, g)) + Cardinality(tree'.dev) = NumPages
    <3>1. PICK n : n = PrivatePages(r)
      OBVIOUS
    <3>2. PICK x : x = Cardinality(Cells(Reqs, f))
      OBVIOUS
    <3>3. PICK y : y = Cardinality(Cells(Reqs, g))
      OBVIOUS
    <3>4. PICK z : z = Cardinality(tree.dev)
      OBVIOUS
    <3>5. n \in Nat /\ x \in Nat /\ z \in Nat /\ free \in Nat
      BY <2>3, <2>5, <2>7, <2>9, <3>1, <3>2, <3>4
    <3>6. y = x + (0 - n) /\ free + x + z = NumPages /\ free' = free + n
      BY <1>5, <2>3, <2>7, <2>8, <3>1, <3>2, <3>3, <3>4
    <3>7. free' + y + z = NumPages
      BY <3>5, <3>6
    <3>8. Cardinality(tree'.dev) = z
      BY <1>11, <3>4
    <3> QED BY <3>3, <3>7, <3>8
  <2>11. PagesOf(free', Private', tree'.dev)
    BY <2>2, <2>10 DEF PagesOf
  <2>12. HostPagesOf(hostFree', tree')
    BY <1>11, <2>8 DEF HostPagesOf
  <2> QED BY <2>11, <2>12, RestatedNext
<1>27. pc' \in {"idle", "stopped"} /\ (pc' = "idle" <=> w.ok)
  BY <1>5 DEF Raise
<1>28. StateType'
  <2>1. free' \in Nat
    <3>1. PICK n : n = PrivatePages(r)
      OBVIOUS
    <3>2. n \in Nat /\ free \in Nat
      BY <1>13, <3>1, RowNumbers, Quantities
    <3>3. free' = free + n
      BY <1>5, <3>1
    <3> QED BY <3>2, <3>3
  <2> QED BY <1>11, <1>19, <1>22, <1>27, <2>1, EmptyOwnership DEF PrefixInv, StateType, PCs
<1>29. Flow'
  BY <1>22, <1>27 DEF Flow
<1>30. Running'
  <2>1. CASE pc' = "idle"
    <3>1. Remembered(tree')
      BY <1>5, <1>10, <1>12, <1>27, <2>1 DEF WrittenThrough
    <3>2. ASSUME NEW q \in Reqs PROVE Unsaved(q)' = 0 /\ Unsaved(q) = 0
      BY <2>1, AtRest DEF Unsaved, ToInsert, ToInsertAt
    <3>3. ASSUME NEW q \in Reqs \ {r} PROVE Saved(q)' /\ Readable(q)'
      <4>1. Saved(q) /\ Readable(q) /\ RowOk(q) /\ ~Promoting(q) /\ Kept(q)
        BY <1>19, RunningParts DEF PrefixInv, Promoting
      <4> QED BY <1>11, <3>2, <4>1, SavedKept, ReadableKept
    <3> QED BY <1>18, <2>1, <3>1, <3>2, <3>3, IdleRunning
  <2>2. CASE pc' # "idle"
    BY <1>27, <2>2 DEF Running
  <2> QED BY <2>1, <2>2
<1>31. PromiseKept'
  <2>1. CASE w.ok
    BY <1>5, <1>11, <2>1 DEF PrefixInv, PromiseKept
  <2>2. CASE ~w.ok
    <3>1. raised' = "host full"
      BY <1>5, <2>2 DEF Raise
    <3>2. hostFree + Cardinality(HostFreeable(t)) < Cardinality(Selected(t, X))
      BY <1>10, <2>2 DEF WrittenThrough
    <3>3. t.pinned # {}
      <4> SUFFICES ASSUME t.pinned = {} PROVE FALSE
        OBVIOUS
      <4>1. \A b \in Blocks : t.ref[b] > 0 => tree.ref[b] > 0
        <5>1. \A b \in Blocks : tree.ref[b] \in Nat
          BY InUse
        <5> QED BY <1>2, <1>9, <5>1 DEF Counted
      <4>2. Cardinality(Selected(t, X)) <= hostFree + Cardinality(HostFreeable(t))
        BY <1>8, <1>9, <4>1, HostRoom
      <4>3. /\ Selected(t, X) \in SUBSET Blocks /\ HostFreeable(t) \in SUBSET Blocks
            /\ hostFree \in Nat
        <5>1. t.dev \subseteq Blocks /\ t.blocks \subseteq Blocks
          BY <1>8, TreeFields DEF TreeOk
        <5> QED BY <5>1, Quantities, SelectedIs, CandidateIs, HostFreeableIs
      <4>4. Cardinality(Selected(t, X)) \in Nat /\ Cardinality(HostFreeable(t)) \in Nat
        BY <4>3, BlockSets
      <4> QED BY <3>2, <4>2, <4>3, <4>4
    <3> QED BY <1>9, <1>11, <3>1, <3>3 DEF PromiseKept
  <2> QED BY <2>1, <2>2
<1> QED BY <1>11, <1>23, <1>25, <1>26, <1>28, <1>29, <1>30, <1>31 DEF PrefixInv
\* A request that ran all its tokens is released.
LEMMA FinishStep ==
  ASSUME PrefixInv, NEW r \in Reqs, Finish(r)
  PROVE  PrefixInv'
<1>1. /\ pc = "idle" /\ FreeSeq(r, "done") /\ UNCHANGED <<batch, todo, budget, awaited, protected>>
  BY DEF Finish
<1>2. batch = <<>> /\ budget' \in [prompt : Nat, step : Nat, decode : Nat]
  BY <1>1 DEF PrefixInv, Flow, StateType
<1> QED BY <1>1, <1>2, FreeSeqStep

\* abort_request.
LEMMA AbortStep ==
  ASSUME PrefixInv, NEW r \in Reqs, Abort(r)
  PROVE  PrefixInv'
<1>1. pc = "idle" /\ UNCHANGED <<batch, todo, budget, awaited, protected>>
  BY DEF Abort, Quiet
<1>2. CASE seq[r].len > 0
  <2>1. FreeSeq(r, "done")
    BY <1>2 DEF Abort
  <2>2. batch = <<>> /\ budget' \in [prompt : Nat, step : Nat, decode : Nat]
    BY <1>1 DEF PrefixInv, Flow, StateType
  <2> QED BY <1>1, <2>1, <2>2, FreeSeqStep
<1>3. CASE ~(seq[r].len > 0)
  <2>1. seq[r].len = 0
    BY <1>3, RowNumbers DEF PrefixInv, StateType
  <2>2. seq' = [seq EXCEPT ![r] = NoRow("done")] /\ UNCHANGED <<tree, free, hostFree, pc, raised>>
    BY <1>3 DEF Abort
  <2>3. "done" \in Statuses
    BY DEF Statuses
  <2> QED BY <1>1, <2>1, <2>2, <2>3, EmptyRowStep
<1> QED BY <1>2, <1>3

\* The victim of a preemption is released.
LEMMA PreemptStep ==
  ASSUME PrefixInv, NEW r \in Reqs, Preempt(r)
  PROVE  PrefixInv'
<1>1. /\ pc = "scan" /\ batch = <<>> /\ FreeSeq(r, "replay")
      /\ budget' \in [prompt : Nat, step : Nat, decode : Nat]
      /\ UNCHANGED <<batch, todo, awaited, protected>>
  BY DEF Preempt, DecodeScan
<1> QED BY <1>1, FreeSeqStep

\* What a deletion takes: nothing of it is in use, and all below it goes too.
Gone(t, b) == {c \in Subtree(t.blocks, b) : \A d \in Subtree(t.blocks, c) : Unused(t, d)}

\* Deleting what nothing holds leaves whole paths.
LEMMA GoneOk ==
  ASSUME NEW t, TreeOk(t), InD2H(t) = {}, InH2D(t) = {}, NEW b \in t.blocks
  PROVE  /\ TreeOk(RemoveBlocks(t, Gone(t, b))) /\ Removed(t, RemoveBlocks(t, Gone(t, b)), Gone(t, b))
         /\ Gone(t, b) \subseteq t.blocks
<1>1. /\ t.blocks \subseteq Blocks /\ t.dev \subseteq t.blocks /\ t.host \subseteq t.blocks
      /\ Rooted(t.dev) /\ Rooted(t.host)
  BY TreeFields DEF TreeOk
<1>2. PICK E : E = Gone(t, b)
  OBVIOUS
<1>3. \A c : c \in E <=> /\ c \in t.blocks /\ (c = b \/ b \in Ancestors(c))
                         /\ \A d \in Subtree(t.blocks, c) : Unused(t, d)
  <2>1. \A c : c \in Subtree(t.blocks, b) <=> c \in t.blocks /\ (c = b \/ b \in Ancestors(c))
    BY <1>1, SubtreeIs
  <2> QED BY <1>2, <2>1 DEF Gone
<1>4. ASSUME NEW c \in t.blocks, NEW a \in Ancestors(c), a \in E PROVE c \in E
  <2>1. c \in Blocks /\ a \in Blocks /\ Ancestors(a) \subseteq Ancestors(c) /\ a \in t.blocks
    BY <1>1, <1>3, <1>4, AncestorFacts
  <2>2. b \in Ancestors(c)
    BY <1>3, <1>4, <2>1
  <2>3. c \in Subtree(t.blocks, a)
    BY <1>1, <1>4, <2>1, SubtreeIs
  <2>4. Subtree(t.blocks, c) \subseteq Subtree(t.blocks, a)
    BY <1>1, <2>1, <2>3, SubtreeDown
  <2> QED BY <1>3, <1>4, <2>2, <2>4
<1>5. Rooted(t.dev \ E) /\ Rooted(t.host \ E)
  BY <1>1, <1>4 DEF Rooted
<1>6. \A c \in E : Unused(t, c) /\ c \notin Moving(t)
  <2> SUFFICES ASSUME NEW c \in E PROVE Unused(t, c) /\ c \notin Moving(t)
    OBVIOUS
  <2>1. c \in Subtree(t.blocks, c)
    BY <1>1, <1>3, SubtreeIs
  <2> QED BY <1>3, <2>1 DEF Moving
<1>7. E \subseteq t.blocks /\ \A c \in InD2H(t) : Ancestors(c) \cap E = {}
  BY <1>3
<1>8. TreeOk(RemoveBlocks(t, E)) /\ Removed(t, RemoveBlocks(t, E), E)
  BY <1>5, <1>6, <1>7, RemoveBlocksOk
<1> QED BY <1>2, <1>7, <1>8

\* prefix_cache_delete_subtree.
LEMMA DeleteStep ==
  ASSUME PrefixInv, NEW b, Delete(b)
  PROVE  PrefixInv'
<1>1. PICK t : t = Synchronized(tree)
  OBVIOUS
<1>2. PICK E : E = Gone(t, b)
  OBVIOUS
<1>3. /\ pc = "idle" /\ b \in tree.blocks /\ tree' = RemoveBlocks(t, E)
      /\ free' = free + Cardinality(E \cap t.dev) /\ hostFree' = hostFree + Cardinality(E \cap t.host)
      /\ UNCHANGED <<seq, pc, batch, todo, budget, awaited, protected, raised>>
  BY <1>1, <1>2 DEF Delete, Gone, Quiet
<1>4. /\ TreeOk(t) /\ Advanced(tree, t) /\ InD2H(t) = {} /\ InH2D(t) = {}
  BY <1>1, SynchronizedOk DEF PrefixInv
<1>5. TreeOk(tree') /\ Removed(t, tree', E) /\ E \subseteq t.blocks
  <2>1. b \in t.blocks
    BY <1>3, <1>4 DEF Advanced
  <2> QED BY <1>2, <1>3, <1>4, <2>1, GoneOk
<1>6. /\ tree'.blocks = tree.blocks \ E /\ tree'.dev = tree.dev \ E /\ tree'.ref = tree.ref
      /\ tree'.pinned = tree.pinned \ E /\ tree'.pending = tree.pending \ E
      /\ t.dev = tree.dev /\ Hosted(t) = Hosted(tree) /\ Hosted(t) = t.host
      /\ Hosted(tree') = t.host \ E /\ InH2D(tree') = {}
      /\ \A c \in E : tree.ref[c] = 0 /\ c \notin tree.pinned
  BY <1>4, <1>5 DEF Advanced, Removed, Hosted, InD2H, InH2D
<1>7. \A q \in Reqs : Kept(q)
  BY <1>3, SameRows DEF PrefixInv
<1>8. (\A q \in Reqs : RowOk(q)') /\ Held' = Held /\ Private' = Private
  BY <1>6, <1>7, RowsKept
<1>9. RefsExact'
  BY <1>3, <1>6, <1>8, Restated, RestatedNext DEF PrefixInv
<1>10. /\ tree.dev \in SUBSET Blocks /\ t.host \in SUBSET Blocks /\ E \in SUBSET Blocks
  BY <1>4, <1>5, HitsAre, TreeFields DEF TreeOk
<1>11. TiersConserved'
  <2>1. PICK m : m = Cardinality(Cells(Reqs, Private))
    OBVIOUS
  <2>2. PICK D : D = tree.dev
    OBVIOUS
  <2>3. PICK H : H = t.host
    OBVIOUS
  <2>4. PICK DE : DE = E \cap D
    OBVIOUS
  <2>5. PICK HE : HE = E \cap H
    OBVIOUS
  <2>6. /\ D \in SUBSET Blocks /\ H \in SUBSET Blocks /\ DE \in SUBSET Blocks /\ HE \in SUBSET Blocks
        /\ DE \subseteq D /\ HE \subseteq H /\ D \ E = D \ DE /\ H \ E = H \ HE
    BY <1>10, <2>2, <2>3, <2>4, <2>5
  <2>7. /\ Cardinality(D \ DE) = Cardinality(D) - Cardinality(DE)
        /\ Cardinality(H \ HE) = Cardinality(H) - Cardinality(HE)
    BY <2>6, BlockCounts
  <2>8. /\ Cardinality(D) \in Nat /\ Cardinality(H) \in Nat
        /\ Cardinality(DE) \in Nat /\ Cardinality(HE) \in Nat
    BY <2>6, BlockSets
  <2>9. free + m + Cardinality(D) = NumPages /\ hostFree + Cardinality(H) = HostBlocks
    BY <1>6, <2>1, <2>2, <2>3, Restated DEF PrefixInv, PagesOf, HostPagesOf
  <2>10. free \in Nat /\ hostFree \in Nat
    BY Quantities
  <2>11. m \in Nat
    <3>1. \A q \in Reqs : Private[q] \in Int
      BY RowNumbers DEF PrefixInv, StateType, Private
    <3>2. IsFiniteSet(Reqs)
      BY StreamAssumption
    <3> QED BY <2>1, <3>1, <3>2, CellsFinite
  <2>12. free' = free + Cardinality(DE) /\ hostFree' = hostFree + Cardinality(HE)
    BY <1>3, <1>6, <2>2, <2>3, <2>4, <2>5
  <2>13. /\ free' + m + Cardinality(D \ DE) = NumPages
         /\ hostFree' + Cardinality(H \ HE) = HostBlocks
    BY <2>7, <2>8, <2>9, <2>10, <2>11, <2>12
  <2>14. tree'.dev = D \ DE /\ Hosted(tree') = H \ HE
    BY <1>6, <2>2, <2>3, <2>6
  <2>15. PagesOf(free', Private', tree'.dev)
    BY <1>8, <2>1, <2>13, <2>14 DEF PagesOf
  <2>16. HostPagesOf(hostFree', tree')
    BY <2>13, <2>14 DEF HostPagesOf
  <2> QED BY <2>15, <2>16, RestatedNext
<1>12. protected = {} /\ protected' = {}
  BY <1>3, AtRest
<1>13. StateType'
  <2>1. Cardinality(E \cap t.dev) \in Nat /\ Cardinality(E \cap t.host) \in Nat
    BY <1>10, BlockSets
  <2>2. free' \in Nat /\ hostFree' \in Nat
    BY <1>3, <2>1, Quantities
  <2> QED BY <1>3, <1>12, <2>2 DEF PrefixInv, StateType
<1>14. Flow'
  BY <1>3, <1>12 DEF PrefixInv, Flow
<1>15. ASSUME NEW q \in Reqs PROVE Saved(q)' /\ Readable(q)'
  <2>1. Saved(q) /\ Readable(q) /\ RowOk(q) /\ Kept(q) /\ ~Promoting(q)
    BY <1>3, <1>7, RunningParts DEF PrefixInv, Promoting
  <2>2. Unsaved(q)' = Unsaved(q)
    BY <1>3 DEF Unsaved, ToInsert
  <2>3. \A c \in HeldBlocks(q) : c \in tree.dev => c \in tree'.dev
    BY <1>6, InUse
  <2> QED BY <1>3, <1>6, <2>1, <2>2, <2>3, SavedKept, ReadableKept
<1>16. Remembered(tree')
  <2> SUFFICES ASSUME NEW c \in tree'.dev \ Hosted(tree'), tree'.ref[c] = 0
               PROVE  c \in tree'.pending /\ \E a \in Ancestors(c) : tree'.ref[a] > 0 /\ a \notin Hosted(tree')
    BY DEF Remembered
  <2>1. c \in tree.dev \ Hosted(tree) /\ c \notin E /\ tree.ref[c] = 0
    BY <1>6
  <2>2. c \in tree.pending /\ \E a \in Ancestors(c) : tree.ref[a] > 0 /\ a \notin Hosted(tree)
    BY <1>3, <2>1, AtRest DEF Remembered
  <2> QED BY <1>6, <2>1, <2>2
<1>17. Running'
  BY <1>3, <1>15, <1>16, IdleRunning
<1>18. PromiseKept'
  BY <1>3, <1>6 DEF PrefixInv, PromiseKept
<1> QED BY <1>5, <1>8, <1>9, <1>11, <1>13, <1>14, <1>17, <1>18 DEF PrefixInv

\* The engine stops when something is raised, and only then.
Awake == pc # "stopped" => raised = ""

\* prefix_cache_set_eviction_priority.
LEMMA SetPriorityStep ==
  ASSUME PrefixInv, Awake, NEW b, NEW pin, SetPriority(b, pin)
  PROVE  PrefixInv'
<1>1. PICK P : P = IF pin THEN tree.pinned \cup Subtree(tree.blocks, b)
                   ELSE tree.pinned \ Subtree(tree.blocks, b)
  OBVIOUS
<1>2. /\ pc = "idle" /\ tree' = MarkCapacity([tree EXCEPT !.pinned = P])
      /\ UNCHANGED <<free, hostFree, seq, pc, batch, todo, budget, awaited, protected, raised>>
  BY <1>1 DEF SetPriority, Quiet
<1>3. P \in SUBSET Blocks
  BY <1>1, TreeFields DEF PrefixInv, TreeOk, Subtree
<1>4. /\ TreeOk(tree')
      /\ tree'.blocks = tree.blocks /\ tree'.ref = tree.ref /\ tree'.dev = tree.dev
      /\ tree'.host = tree.host /\ tree'.d2h = tree.d2h /\ tree'.h2d = tree.h2d
      /\ tree'.pending = tree.pending
  BY <1>2, <1>3, PinsOk DEF PrefixInv
<1>5. Hosted(tree') = Hosted(tree) /\ InH2D(tree') = InH2D(tree)
  BY <1>4 DEF Hosted, InD2H, InH2D
<1>6. \A q \in Reqs : Kept(q)
  BY <1>2, SameRows DEF PrefixInv
<1>7. (\A q \in Reqs : RowOk(q)') /\ Held' = Held /\ Private' = Private
  BY <1>4, <1>6, RowsKept
<1>8. RefsExact' /\ TiersConserved'
  BY <1>2, <1>4, <1>5, <1>7, Restated, RestatedNext DEF PrefixInv, HostPagesOf
<1>9. StateType' /\ Flow'
  BY <1>2, <1>4 DEF PrefixInv, StateType, Flow
<1>10. ASSUME NEW q \in Reqs PROVE Saved(q)' /\ Readable(q)'
  <2>1. Saved(q) /\ Readable(q) /\ RowOk(q) /\ Kept(q) /\ ~Promoting(q)
    BY <1>2, <1>6, RunningParts DEF PrefixInv, Promoting
  <2>2. Unsaved(q)' = Unsaved(q)
    BY <1>2 DEF Unsaved, ToInsert
  <2> QED BY <1>2, <1>4, <1>5, <2>1, <2>2, SavedKept, ReadableKept
<1>11. Remembered(tree')
  BY <1>2, <1>4, <1>5, AtRest DEF Remembered
<1>12. Running'
  BY <1>2, <1>10, <1>11, IdleRunning
<1>13. PromiseKept'
  BY <1>2 DEF Awake, PromiseKept
<1> QED BY <1>4, <1>7, <1>8, <1>9, <1>12, <1>13 DEF PrefixInv
-----------------------------------------------------------------------------
(* The invariant and the theorems.                                         *)

\* The empty cache.
LEMMA InitHolds ==
  ASSUME Init
  PROVE  PrefixInv /\ Awake
<1>1. /\ tree = [blocks |-> {}, ref |-> [b \in Blocks |-> 0], pinned |-> {}, dev |-> {},
                 host |-> {}, d2h |-> <<>>, h2d |-> {}, pending |-> {}, view |-> {}]
      /\ free = NumPages /\ hostFree = HostBlocks
      /\ seq = [r \in Reqs |-> NoRow("absent")]
      /\ pc = "idle" /\ batch = <<>> /\ todo = <<>>
      /\ budget = [prompt |-> 0, step |-> 0, decode |-> 0]
      /\ awaited = {} /\ protected = {} /\ raised = ""
  BY DEF Init
<1>2. /\ tree.blocks = {} /\ tree.dev = {} /\ tree.host = {} /\ tree.d2h = <<>> /\ tree.h2d = {}
      /\ tree.view = {} /\ tree.pinned = {} /\ \A b \in Blocks : tree.ref[b] = 0
  BY <1>1
<1>3. tree \in TreeType
  <2>1. PICK f : f = [b \in Blocks |-> 0]
    OBVIOUS
  <2>2. f \in [Blocks -> Nat]
    BY <2>1
  <2>3. tree = [blocks |-> {}, ref |-> f, pinned |-> {}, dev |-> {},
                host |-> {}, d2h |-> <<>>, h2d |-> {}, pending |-> {}, view |-> {}]
    BY <1>1, <2>1
  <2>4. <<>> \in Seq(SUBSET Blocks)
    OBVIOUS
  <2> QED BY <2>2, <2>3, <2>4 DEF TreeType
<1>4. InD2H(tree) = {} /\ InH2D(tree) = {} /\ Hosted(tree) = {}
  BY <1>2, MovingIs DEF Hosted
<1>5. TreeOk(tree)
  <2>1. DeviceReclaimable(tree) = {}
    BY <1>2, <1>3, ViewIs
  <2> QED BY <1>2, <1>3, <1>4, <2>1 DEF TreeOk, Rooted, CopiesOrdered, CopiesPlaced, Fresh
<1>6. ASSUME NEW r \in Reqs
      PROVE  /\ seq[r] \in RowType /\ seq[r].len = 0 /\ seq[r].cached = {} /\ seq[r].held = {}
             /\ seq[r].hit = 0 /\ seq[r].chunk = 0
  BY <1>1 DEF NoRow, RowType, Statuses
<1>7. ASSUME NEW r \in Reqs
      PROVE  HeldBlocks(r) = {} /\ PrivatePages(r) = 0 /\ RowOk(r) /\ Saved(r) /\ Readable(r)
  <2>1. HeldBlocks(r) = {}
    BY <1>6, EmptyChain DEF HeldBlocks
  <2>2. RowOk(r)
    BY <1>6, <2>1, Lengths DEF RowOk
  <2>3. Unsaved(r) = 0
    BY <1>1 DEF Unsaved, ToInsert, ToInsertAt
  <2>4. Saved(r)
    BY <1>6, <2>1, <2>3, EmptyChain DEF Saved
  <2>5. Readable(r)
    BY <1>6 DEF Readable, OnDevice, CopiesAwaited
  <2> QED BY <1>6, <2>1, <2>2, <2>4, <2>5, EmptyRow
<1>8. RefsExact
  <2>1. ASSUME NEW b \in Blocks
        PROVE  tree.ref[b] = Cardinality(Holders(Held, b)) + (IF b \in protected THEN 1 ELSE 0)
    <3>1. Holders(Held, b) = {}
      BY <1>7 DEF Holders, Held
    <3>2. Cardinality(Holders(Held, b)) = 0
      BY <3>1, FS_EmptySet
    <3>3. tree.ref[b] = 0 /\ b \notin protected
      BY <1>1, <1>2
    <3> QED BY <3>2, <3>3
  <2>2. RefsOf(Held, protected, tree.ref)
    BY <2>1 DEF RefsOf
  <2> QED BY <2>2, Restated
<1>9. TiersConserved
  <2>1. \A r \in Reqs : Private[r] = 0
    BY <1>7 DEF Private
  <2>2. Cells(Reqs, Private) = {}
    BY <2>1 DEF Cells
  <2>3. NumPages \in Nat /\ HostBlocks \in Nat
    BY HostAssumption
  <2>4. /\ Cardinality(Cells(Reqs, Private)) = 0 /\ Cardinality(tree.dev) = 0
        /\ Cardinality(Hosted(tree)) = 0
    BY <1>2, <1>4, <2>2, FS_EmptySet
  <2>5. free = NumPages /\ hostFree = HostBlocks
    BY <1>1
  <2>6. PagesOf(free, Private, tree.dev)
    BY <2>3, <2>4, <2>5 DEF PagesOf
  <2>7. HostPagesOf(hostFree, tree)
    BY <2>3, <2>4, <2>5 DEF HostPagesOf
  <2> QED BY <2>6, <2>7, Restated
<1>10. StateType
  <2>1. seq \in [Reqs -> RowType]
    BY <1>1, <1>6
  <2>2. free \in Nat /\ hostFree \in Nat
    BY <1>1, HostAssumption
  <2>3. batch = <<>> /\ todo = <<>> /\ batch \in Seq(Reqs) /\ todo \in Seq(Reqs)
    <3>1. <<>> \in Seq(Reqs)
      OBVIOUS
    <3>2. batch = <<>> /\ todo = <<>>
      BY <1>1
    <3> QED BY <3>1, <3>2
  <2>4. pc \in PCs /\ budget \in [prompt : Nat, step : Nat, decode : Nat] /\ protected \subseteq tree.blocks
    BY <1>1 DEF PCs
  <2> QED BY <2>1, <2>2, <2>3, <2>4, EmptyOwnership DEF StateType
<1>11. Flow
  BY <1>1 DEF Flow
<1>12. Running
  <2>1. ToAllocate = {} /\ Attaching = {}
    BY <1>1 DEF ToAllocate, ToAllocateAt, Attaching, AttachingAt
  <2>2. Hits = {}
    BY <2>1, NoTakes DEF Hits
  <2>3. Covered
    BY <1>1, <2>2 DEF Covered
  <2>4. Remembered(tree)
    BY <1>2 DEF Remembered
  <2> QED BY <1>7, <2>1, <2>3, <2>4 DEF Running
<1>13. PromiseKept /\ Awake
  BY <1>1 DEF PromiseKept, Awake
<1> QED BY <1>5, <1>7, <1>8, <1>9, <1>10, <1>11, <1>12, <1>13 DEF PrefixInv

\* Every step of the engine and every call from outside keeps the invariant.
LEMMA NextHolds ==
  ASSUME PrefixInv, Awake, Next
  PROVE  PrefixInv'
<1>1. CASE BeginSchedule
  BY <1>1, BeginScheduleStep
<1>2. CASE \E r \in Reqs : SchedulePrefill(r)
  BY <1>2, SchedulePrefillStep
<1>3. CASE StartPrefill
  BY <1>3, StartPrefillStep
<1>4. CASE \E s \in DecodeBatches : StartDecode(s)
  BY <1>4, StartDecodeStep
<1>5. CASE Poll
  BY <1>5, PollStep
<1>6. CASE Attach
  BY <1>6, AttachStep
<1>7. CASE Reclaim
  BY <1>7, ReclaimStep
<1>8. CASE Promote
  BY <1>8, PromoteStep
<1>9. CASE StartAllocate
  BY <1>9, StartAllocateStep
<1>10. CASE Allocate
  BY <1>10, AllocateStep
<1>11. CASE AllocateDecode
  BY <1>11, AllocateDecodeStep
<1>12. CASE StartForward
  BY <1>12, StartForwardStep
<1>13. CASE ForwardEnd
  BY <1>13, ForwardEndStep
<1>14. CASE ReleaseProtected
  BY <1>14, ReleaseProtectedStep
<1>15. CASE EndStep
  BY <1>15, EndStepStep
<1>16. CASE \E r \in Reqs : HoldDuplicate(r) \/ InsertNew(r)
  BY <1>16, HoldDuplicateStep, InsertNewStep
<1>17. CASE \E r \in Reqs : Arrive(r) \/ Finish(r) \/ Abort(r) \/ Preempt(r)
  BY <1>17, ArriveStep, FinishStep, AbortStep, PreemptStep
<1>18. CASE NothingScheduled
  BY <1>18, NothingScheduledStep
<1>19. CASE \E b \in MayDelete : Delete(b)
  BY <1>19, DeleteStep
<1>20. CASE \E b \in MayPin, pin \in BOOLEAN : SetPriority(b, pin)
  BY <1>20, SetPriorityStep
<1> QED BY <1>1, <1>2, <1>3, <1>4, <1>5, <1>6, <1>7, <1>8, <1>9, <1>10, <1>11, <1>12, <1>13,
           <1>14, <1>15, <1>16, <1>17, <1>18, <1>19, <1>20 DEF Next

\* Nothing is raised by a step that does not stop the engine.
LEMMA NextAwake ==
  ASSUME Awake, Next
  PROVE  Awake'
<1>1. CASE \E r \in Reqs : Finish(r) \/ Abort(r) \/ Preempt(r)
  BY <1>1 DEF Awake, Finish, Abort, Preempt, FreeSeq, Raise, Quiet, DecodeScan
<1>2. CASE Attach \/ Reclaim \/ Promote \/ NothingScheduled
  BY <1>2 DEF Awake, Attach, Reclaim, Promote, NothingScheduled, Raise, DecodeScan
<1>3. CASE \E r \in Reqs : HoldDuplicate(r) \/ InsertNew(r)
  BY <1>3 DEF Awake, HoldDuplicate, InsertNew, Raise, Inserting
<1>4. CASE \/ BeginSchedule \/ StartPrefill \/ Poll \/ StartAllocate \/ Allocate \/ AllocateDecode
           \/ StartForward \/ ForwardEnd \/ ReleaseProtected \/ EndStep
           \/ \E r \in Reqs : SchedulePrefill(r) \/ Arrive(r)
           \/ \E s \in DecodeBatches : StartDecode(s)
           \/ \E b \in MayDelete : Delete(b)
           \/ \E b \in MayPin, pin \in BOOLEAN : SetPriority(b, pin)
  BY <1>4 DEF Awake, BeginSchedule, StartPrefill, Poll, StartAllocate, Allocate, AllocateDecode,
     StartForward, ForwardEnd, ReleaseProtected, EndStep, SchedulePrefill, Arrive, StartDecode,
     Delete, SetPriority, Quiet, DecodeScan
<1> QED BY <1>1, <1>2, <1>3, <1>4 DEF Next

\* The index, the tiers, the rows and the promises of the scheduler are right
\* in every reachable state, whatever the sizes of the two tiers, the requests
\* and the calls of operators.
THEOREM PrefixInvariant ==
  Spec => [](PrefixInv /\ Awake)
<1>1. Init => PrefixInv /\ Awake
  BY InitHolds
<1>2. PrefixInv /\ Awake /\ [Next]_vars => (PrefixInv /\ Awake)'
  <2> SUFFICES ASSUME PrefixInv, Awake, [Next]_vars PROVE (PrefixInv /\ Awake)'
    OBVIOUS
  <2>1. CASE Next
    BY <2>1, NextHolds, NextAwake
  <2>2. CASE UNCHANGED vars
    <3>1. /\ \A r \in Reqs : Kept(r)
          /\ UNCHANGED <<tree, free, hostFree, seq, pc, batch, todo, budget, awaited, protected, raised>>
      BY <2>2, SameRows DEF vars, PrefixInv
    <3>2. TreeOk(tree') /\ (\A r \in Reqs : RowOk(r)') /\ RefsExact' /\ TiersConserved'
      BY <3>1, StillHeld
    <3>3. StateType' /\ Flow' /\ PromiseKept' /\ Awake'
      BY <3>1 DEF PrefixInv, StateType, Flow, Decoding, PromiseKept, Awake
    <3>4. Running'
      BY <2>2 DEF vars, PrefixInv, Running, Saved, Unsaved, ToInsert, HeldBlocks, Readable, OnDevice,
         Promoting, CopiesAwaited, ToAllocate, ChunkFits, Waiting, Unfinished, HitTaken, Attaching,
         Covered, Hits, ScanCovered, Takes, Claims, Outstanding, PagesToTake
    <3> QED BY <3>2, <3>3, <3>4 DEF PrefixInv
  <2> QED BY <2>1, <2>2
<1> QED BY <1>1, <1>2, PTL DEF Spec

\* No page of either tier is lost or owned twice, by whatever sequence of
\* attachments, promotions, insertions, demotions, evictions, releases and
\* deletions it came to be there.
THEOREM TiersAreConserved ==
  Spec => []TiersConserved
<1>1. PrefixInv /\ Awake => TiersConserved
  BY DEF PrefixInv
<1> QED BY <1>1, PrefixInvariant, PTL

\* set_block_ref_count is called with the number of holders: no block in use is
\* ever seen as free, and none is kept for ever.
THEOREM RefsAreExact ==
  Spec => []RefsExact
<1>1. PrefixInv /\ Awake => RefsExact
  BY DEF PrefixInv
<1> QED BY <1>1, PrefixInvariant, PTL

\* Demotion, eviction and the copies to the host keep whole paths on each tier.
THEOREM ResidencyIsRooted ==
  Spec => []ResidencyRooted
<1>1. PrefixInv /\ Awake => ResidencyRooted
  <2> SUFFICES ASSUME PrefixInv PROVE ResidencyRooted
    OBVIOUS
  <2>1. Rooted(tree.dev) /\ Rooted(tree.host) /\ tree.blocks = tree.dev \cup tree.host /\ CopiesOrdered(tree)
    BY DEF PrefixInv, TreeOk
  <2>2. Rooted(tree.blocks)
    BY <2>1 DEF Rooted
  <2>3. \A S \in {tree.blocks, tree.dev, tree.host} : \A b \in S : Ancestors(b) \subseteq S
    BY <2>1, <2>2 DEF Rooted
  <2> QED BY <2>1, <2>3 DEF ResidencyRooted, CopiesOrdered
<1> QED BY <1>1, PrefixInvariant, PTL

\* The forward pass reads no cached page that is off the device, out of use, or
\* still being written by a copy the step did not wait for.
THEOREM PrefixIsReadable ==
  Spec => []PrefixReadable
<1>1. PrefixInv /\ Awake => PrefixReadable
  <2> SUFFICES ASSUME PrefixInv, pc \in {"forward", "insert"}, NEW r \in Range(batch), NEW i \in seq[r].cached
               PROVE  /\ Path(r, i) \in tree.dev
                      /\ tree.ref[Path(r, i)] > 0
                      /\ Path(r, i) \in InH2D(tree) => Path(r, i) \in awaited
    BY DEF PrefixReadable
  <2>1. r \in Reqs
    BY DEF PrefixInv, StateType, Range
  <2>2. Readable(r) /\ RowOk(r) /\ ~Promoting(r)
    BY <2>1, RunningParts DEF PrefixInv, Promoting
  <2>3. Path(r, i) \in HeldBlocks(r)
    BY <2>2 DEF RowOk
  <2> QED BY <2>1, <2>2, <2>3, InUse DEF Readable, OnDevice, CopiesAwaited
<1> QED BY <1>1, PrefixInvariant, PTL

\* The scheduler admits no batch for which the pages cannot be reclaimed, no
\* chain it hit is evicted before it is attached, and a host tier with a block
\* for every page never fills up without a pinned block.
THEOREM PromiseIsKept ==
  Spec => []PromiseKept
<1>1. PrefixInv /\ Awake => PromiseKept
  BY DEF PrefixInv
<1> QED BY <1>1, PrefixInvariant, PTL

\* No change of the tree that the epoch of the capacity view misses changes the
\* answer of a scan.
THEOREM CapacityViewIsFresh ==
  Spec => []CapacityViewFresh
<1>1. PrefixInv /\ Awake => CapacityViewFresh
  BY DEF PrefixInv, TreeOk, Fresh, CapacityViewFresh
<1> QED BY <1>1, PrefixInvariant, PTL

\* A block nobody uses any more is on the host or on its way there, so that the
\* page it has on the device can be taken, unless a block below it is pinned.
THEOREM NothingIsStranded ==
  Spec => []NothingStranded
<1>1. PrefixInv /\ Awake => NothingStranded
  <2> SUFFICES ASSUME PrefixInv, pc # "stopped", \A r \in Reqs : seq[r].len = 0, tree.h2d = {},
                      NEW b \in tree.dev \ tree.view
               PROVE  \E c \in Subtree(tree.dev, b) : c \in tree.pinned
    BY DEF NothingStranded
  <2>1. tree \in TreeType /\ tree.view = DeviceReclaimable(tree) /\ tree.dev \in SUBSET Blocks
    BY HitsAre DEF PrefixInv, TreeOk, Fresh
  <2>2. \A r \in Reqs : HeldBlocks(r) = {}
    BY EmptyRow DEF PrefixInv
  <2>3. protected = {}
    <3>1. CASE pc = "insert"
      <4>1. Head(todo) \in Reqs
        BY <3>1, TailOwnership DEF PrefixInv, Flow, StateType
      <4> QED BY <3>1, <4>1, EmptyChain DEF PrefixInv, Flow
    <3>2. CASE pc # "insert"
      BY <3>2 DEF PrefixInv, Flow
    <3> QED BY <3>1, <3>2
  <2>4. \A c \in Blocks : tree.ref[c] = 0
    BY <2>2, <2>3, InUse
  <2>5. tree.dev \subseteq Hosted(tree)
    <3> SUFFICES ASSUME NEW c \in tree.dev \ Hosted(tree) PROVE FALSE
      OBVIOUS
    <3>1. c \in Blocks /\ tree.ref[c] = 0
      BY <2>1, <2>4
    <3>2. PICK a \in Ancestors(c) : tree.ref[a] > 0
      BY <3>1, RunningParts DEF Remembered
    <3>3. a \in Blocks
      BY <3>1, AncestorFacts
    <3> QED BY <2>4, <3>2, <3>3
  <2>6. PICK c \in tree.dev : (c = b \/ b \in Ancestors(c)) /\ ~Reclaimable(tree, c)
    BY <2>1, ViewIs
  <2>7. c \in Blocks /\ tree.ref[c] = 0 /\ c \in Hosted(tree)
    BY <2>1, <2>4, <2>5
  <2>8. InH2D(tree) = {}
    BY DEF InH2D
  <2>9. c \in tree.pinned
    BY <2>6, <2>7, <2>8 DEF Reclaimable, Unused, Hosted, Moving
  <2>10. b \in Blocks
    BY <2>1
  <2>11. c \in Subtree(tree.dev, b)
    BY <2>1, <2>6, <2>10, SubtreeIs
  <2> QED BY <2>9, <2>11
<1> QED BY <1>1, PrefixInvariant, PTL
=============================================================================
