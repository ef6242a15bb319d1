----------------------------- MODULE DataLemmas -----------------------------
(***************************************************************************)
(* What the queue operations of the scheduler (deque.append, appendleft,   *)
(* extendleft, remove and the rotate/popleft of _pop_waiting_at) do to the *)
(* set of queued requests and to its freedom from duplicates, and what     *)
(* becomes of a sum when its summands or its range change.                 *)
(***************************************************************************)
EXTENDS Integers, Sequences, SequencesExt, Sums, FiniteSetTheorems, SequenceTheorems, TLAPS

-----------------------------------------------------------------------------
(* Queues.                                                                 *)

\* Taking the i-th element out closes the gap and keeps the order.
LEMMA RemoveAtElements ==
  ASSUME NEW S, NEW q \in Seq(S), NEW i \in DOMAIN q
  PROVE  /\ RemoveAt(q, i) \in Seq(S)
         /\ Len(RemoveAt(q, i)) = Len(q) - 1
         /\ \A j \in 1..(Len(q) - 1) :
              RemoveAt(q, i)[j] = IF j < i THEN q[j] ELSE q[j + 1]
<1> DEFINE a == SubSeq(q, 1, i - 1)
           b == SubSeq(q, i + 1, Len(q))
<1>0. i \in 1..Len(q) /\ Len(q) \in Nat
  OBVIOUS
<1>1. /\ a \in Seq(S) /\ Len(a) = i - 1
      /\ \A j \in 1..(i - 1) : a[j] = q[j]
  BY <1>0
<1>2. /\ b \in Seq(S) /\ Len(b) = Len(q) - i
      /\ \A j \in 1..(Len(q) - i) : b[j] = q[j + i]
  BY <1>0
<1> HIDE DEF a, b
<1>3. /\ a \o b \in Seq(S) /\ Len(a \o b) = Len(q) - 1
      /\ \A j \in 1..(Len(q) - 1) :
           (a \o b)[j] = IF j <= Len(a) THEN a[j] ELSE b[j - Len(a)]
  <2>1. /\ a \o b \in Seq(S) /\ Len(a \o b) = Len(a) + Len(b)
        /\ \A j \in 1..(Len(a) + Len(b)) :
             (a \o b)[j] = IF j <= Len(a) THEN a[j] ELSE b[j - Len(a)]
    BY <1>1, <1>2, ConcatProperties
  <2>2. Len(a) + Len(b) = Len(q) - 1
    BY <1>0, <1>1, <1>2
  <2> QED BY <2>1, <2>2
<1>4. \A j \in 1..(Len(q) - 1) : (a \o b)[j] = IF j < i THEN q[j] ELSE q[j + 1]
  <2> TAKE j \in 1..(Len(q) - 1)
  <2>1. CASE j < i
    BY <1>0, <1>1, <1>3, <2>1
  <2>2. CASE j >= i
    <3>1. /\ j - Len(a) \in 1..(Len(q) - i)
          /\ (j - Len(a)) + i = j + 1
      BY <1>0, <1>1, <2>2
    <3>2. (a \o b)[j] = b[j - Len(a)]
      BY <1>0, <1>1, <1>3, <2>2
    <3>3. b[j - Len(a)] = q[(j - Len(a)) + i]
      BY <1>2, <3>1
    <3>4. (a \o b)[j] = q[j + 1]
      BY <3>1, <3>2, <3>3, Zenon
    <3>5. ~(j < i)
      BY <1>0, <2>2
    <3> QED BY <3>4, <3>5
  <2>3. j < i \/ j >= i
    BY <1>0
  <2> QED BY <2>1, <2>2, <2>3, Zenon
<1>5. RemoveAt(q, i) = a \o b
  BY DEF RemoveAt, a, b
<1> QED
  BY <1>3, <1>4, <1>5

\* Removing a request from a queue without duplicates removes that request
\* and nothing else.
LEMMA RemoveAtOwnership ==
  ASSUME NEW S, NEW q \in Seq(S), NEW i \in DOMAIN q, IsInjective(q)
  PROVE  /\ IsInjective(RemoveAt(q, i))
         /\ ToSet(RemoveAt(q, i)) = ToSet(q) \ {q[i]}
<1> DEFINE r == RemoveAt(q, i)
<1>1. /\ r \in Seq(S) /\ Len(r) = Len(q) - 1
      /\ \A j \in 1..(Len(q) - 1) : r[j] = IF j < i THEN q[j] ELSE q[j + 1]
  BY RemoveAtElements
<1> HIDE DEF r
<1>0. Len(q) \in Nat /\ i \in 1..Len(q) /\ DOMAIN q = 1..Len(q)
      /\ DOMAIN r = 1..(Len(q) - 1)
  BY <1>1
<1>2. IsInjective(r)
  <2> SUFFICES ASSUME NEW j \in DOMAIN r, NEW k \in DOMAIN r, r[j] = r[k]
               PROVE  j = k
    BY DEF IsInjective
  <2> DEFINE old(n) == IF n < i THEN n ELSE n + 1
  <2>1. old(j) \in DOMAIN q /\ old(k) \in DOMAIN q
    BY <1>0
  <2>2. r[j] = q[old(j)] /\ r[k] = q[old(k)]
    BY <1>0, <1>1
  <2>3. old(j) = old(k)
    BY <2>1, <2>2 DEF IsInjective
  <2> QED BY <1>0, <2>3
<1>3. ASSUME NEW x \in ToSet(q) \ {q[i]} PROVE x \in ToSet(r)
  <2>1. PICK k \in DOMAIN q : q[k] = x
    BY DEF ToSet
  <2>2. CASE k < i
    BY <1>1, <2>1, <2>2 DEF ToSet
  <2>3. CASE k > i
    <3>1. k - 1 \in DOMAIN r /\ r[k - 1] = x
      <4>1. k - 1 \in 1..(Len(q) - 1) /\ ~(k - 1 < i) /\ (k - 1) + 1 = k
        BY <1>0, <2>1, <2>3
      <4> QED BY <1>0, <1>1, <2>1, <4>1
    <3> QED BY <3>1 DEF ToSet
  <2> QED BY <1>0, <2>1, <2>2, <2>3
<1>4. ToSet(r) \subseteq ToSet(q) \ {q[i]}
  BY <1>1 DEF ToSet, IsInjective
<1> QED
  BY <1>2, <1>3, <1>4 DEF r

\* Joining two queues joins their requests, and duplicates none if the queues
\* shared none.
LEMMA ConcatOwnership ==
  ASSUME NEW S, NEW q \in Seq(S), NEW r \in Seq(S)
  PROVE  /\ q \o r \in Seq(S)
         /\ ToSet(q \o r) = ToSet(q) \union ToSet(r)
         /\ (IsInjective(q) /\ IsInjective(r) /\ ToSet(q) \cap ToSet(r) = {})
              => IsInjective(q \o r)
<1>1. /\ q \o r \in Seq(S) /\ Len(q \o r) = Len(q) + Len(r)
      /\ \A j \in 1..(Len(q) + Len(r)) :
           (q \o r)[j] = IF j <= Len(q) THEN q[j] ELSE r[j - Len(q)]
  BY ConcatProperties
<1> DEFINE c == q \o r
<1> HIDE DEF c
<1>2. ToSet(c) \subseteq ToSet(q) \union ToSet(r)
  BY <1>1 DEF ToSet, c
<1>3. ToSet(q) \subseteq ToSet(c)
  BY <1>1 DEF ToSet, c
<1>4. ASSUME NEW x \in ToSet(r) PROVE x \in ToSet(c)
  <2>1. PICK k \in DOMAIN r : r[k] = x
    BY DEF ToSet
  <2>2. Len(q) + k \in DOMAIN c /\ c[Len(q) + k] = x
    BY <1>1, <2>1 DEF c
  <2> QED BY <2>2 DEF ToSet
<1>5. ASSUME IsInjective(q), IsInjective(r), ToSet(q) \cap ToSet(r) = {}
      PROVE  IsInjective(c)
  <2> SUFFICES ASSUME NEW j \in DOMAIN c, NEW k \in DOMAIN c, c[j] = c[k]
               PROVE  j = k
    BY DEF IsInjective
  <2>1. j \in 1..(Len(q) + Len(r)) /\ k \in 1..(Len(q) + Len(r))
    BY <1>1 DEF c
  <2>2. \A m \in DOMAIN q, n \in DOMAIN r : q[m] # r[n]
    BY <1>5 DEF ToSet
  <2>3. CASE j <= Len(q) /\ k <= Len(q)
    BY <1>1, <1>5, <2>1, <2>3 DEF IsInjective, c
  <2>4. CASE j > Len(q) /\ k > Len(q)
    <3>1. r[j - Len(q)] = r[k - Len(q)]
      BY <1>1, <2>1, <2>4 DEF c
    <3>2. j - Len(q) \in DOMAIN r /\ k - Len(q) \in DOMAIN r
      BY <2>1, <2>4
    <3> QED BY <1>5, <2>1, <3>1, <3>2 DEF IsInjective
  <2>5. CASE j <= Len(q) /\ k > Len(q)
    BY <1>1, <2>1, <2>2, <2>5 DEF c
  <2>6. CASE j > Len(q) /\ k <= Len(q)
    BY <1>1, <2>1, <2>2, <2>6 DEF c
  <2> QED BY <2>1, <2>3, <2>4, <2>5, <2>6
<1> QED
  BY <1>1, <1>2, <1>3, <1>4, <1>5 DEF c

\* A queue of one request.
LEMMA SingletonOwnership ==
  ASSUME NEW S, NEW x \in S
  PROVE  /\ <<x>> \in Seq(S)
         /\ ToSet(<<x>>) = {x}
         /\ IsInjective(<<x>>)
  BY DEF ToSet, IsInjective

\* The empty queue.
LEMMA EmptyOwnership ==
  ToSet(<<>>) = {} /\ IsInjective(<<>>)
  BY DEF ToSet, IsInjective

\* Appending a request that is not queued yet.
LEMMA AppendOwnership ==
  ASSUME NEW S, NEW q \in Seq(S), NEW x \in S
  PROVE  /\ Append(q, x) \in Seq(S)
         /\ ToSet(Append(q, x)) = ToSet(q) \union {x}
         /\ (IsInjective(q) /\ x \notin ToSet(q)) => IsInjective(Append(q, x))
<1>1. Append(q, x) = q \o <<x>>
  BY AppendIsConcat
<1>2. x \notin ToSet(q) => ToSet(q) \cap ToSet(<<x>>) = {}
  BY SingletonOwnership
<1>3. <<x>> \in Seq(S) /\ ToSet(<<x>>) = {x} /\ IsInjective(<<x>>)
  BY SingletonOwnership
<1>4. /\ q \o <<x>> \in Seq(S)
      /\ ToSet(q \o <<x>>) = ToSet(q) \union ToSet(<<x>>)
      /\ (IsInjective(q) /\ ToSet(q) \cap ToSet(<<x>>) = {}) => IsInjective(q \o <<x>>)
  BY <1>3, ConcatOwnership
<1> QED
  BY <1>1, <1>2, <1>3, <1>4

\* Popping the head.
LEMMA TailOwnership ==
  ASSUME NEW S, NEW q \in Seq(S), q # <<>>
  PROVE  /\ Tail(q) \in Seq(S)
         /\ Head(q) \in S
         /\ Head(q) \in ToSet(q)
         /\ ToSet(q) = {Head(q)} \union ToSet(Tail(q))
         /\ IsInjective(q) => IsInjective(Tail(q)) /\ Head(q) \notin ToSet(Tail(q))
<1>1. /\ Len(q) \in Nat \ {0} /\ Head(q) = q[1] /\ Tail(q) \in Seq(S)
      /\ Len(Tail(q)) = Len(q) - 1
      /\ \A j \in 1..(Len(q) - 1) : Tail(q)[j] = q[j + 1]
  BY HeadTailProperties, EmptySeq
<1>2. \A j \in DOMAIN q : j = 1 \/ (j - 1 \in DOMAIN Tail(q) /\ q[j] = Tail(q)[j - 1])
  BY <1>1
<1>3. \A j \in DOMAIN Tail(q) : j + 1 \in DOMAIN q /\ Tail(q)[j] = q[j + 1] /\ j + 1 # 1
  BY <1>1
<1>4. 1 \in DOMAIN q /\ Head(q) \in S /\ Head(q) \in ToSet(q)
  BY <1>1 DEF ToSet
<1>5. ToSet(q) = {Head(q)} \union ToSet(Tail(q))
  BY <1>1, <1>2, <1>3, <1>4 DEF ToSet
<1>6. ASSUME IsInjective(q)
      PROVE  IsInjective(Tail(q)) /\ Head(q) \notin ToSet(Tail(q))
  BY <1>1, <1>3, <1>4, <1>6 DEF IsInjective, ToSet
<1> QED
  BY <1>1, <1>4, <1>5, <1>6

-----------------------------------------------------------------------------
(* Three queues that share out a set of requests.                          *)

\* Every request of L is in exactly one place of exactly one queue.
Owned(a, b, c, L) ==
  /\ IsInjective(a) /\ IsInjective(b) /\ IsInjective(c)
  /\ ToSet(a) \cap ToSet(b) = {}
  /\ ToSet(a) \cap ToSet(c) = {}
  /\ ToSet(b) \cap ToSet(c) = {}
  /\ L = ToSet(a) \union ToSet(b) \union ToSet(c)

\* The order of the queues does not matter.
LEMMA OwnedSymmetric ==
  ASSUME NEW a, NEW b, NEW c, NEW L, Owned(a, b, c, L)
  PROVE  /\ Owned(b, a, c, L)
         /\ Owned(c, b, a, L)
         /\ Owned(a, c, b, L)
  BY DEF Owned

\* Taking a request out of a queue: it leaves the set, or it goes to the tail
\* of the same or of another queue.
LEMMA OwnedMove ==
  ASSUME NEW S, NEW a \in Seq(S), NEW b \in Seq(S), NEW c \in Seq(S), NEW L,
         Owned(a, b, c, L), NEW i \in DOMAIN a
  PROVE  /\ a[i] \in L /\ a[i] \in S
         /\ Owned(RemoveAt(a, i), b, c, L \ {a[i]})
         /\ Owned(Append(RemoveAt(a, i), a[i]), b, c, L)
         /\ Owned(RemoveAt(a, i), Append(b, a[i]), c, L)
<1> DEFINE x == a[i]
           r == RemoveAt(a, i)
<1>1. x \in S /\ x \in ToSet(a)
  BY DEF ToSet
<1>2. r \in Seq(S)
  BY RemoveAtElements
<1>3. IsInjective(r) /\ ToSet(r) = ToSet(a) \ {x}
  BY RemoveAtOwnership DEF Owned
<1> HIDE DEF x, r
<1>4. /\ ToSet(Append(r, x)) = ToSet(r) \union {x}
      /\ (IsInjective(r) /\ x \notin ToSet(r)) => IsInjective(Append(r, x))
      /\ ToSet(Append(b, x)) = ToSet(b) \union {x}
      /\ (IsInjective(b) /\ x \notin ToSet(b)) => IsInjective(Append(b, x))
  BY <1>1, <1>2, AppendOwnership
<1>5. Owned(r, b, c, L \ {x})
  BY <1>1, <1>3 DEF Owned
<1>6. Owned(Append(r, x), b, c, L)
  BY <1>1, <1>3, <1>4 DEF Owned
<1>7. Owned(r, Append(b, x), c, L)
  BY <1>1, <1>3, <1>4 DEF Owned
<1>8. x \in L
  BY <1>1 DEF Owned
<1> QED
  BY <1>1, <1>5, <1>6, <1>7, <1>8 DEF x, r

\* A new request joins the tail of a queue.
LEMMA OwnedJoin ==
  ASSUME NEW S, NEW a \in Seq(S), NEW b, NEW c, NEW L, Owned(a, b, c, L),
         NEW x \in S, x \notin L
  PROVE  Owned(Append(a, x), b, c, L \union {x})
<1>1. /\ ToSet(Append(a, x)) = ToSet(a) \union {x}
      /\ (IsInjective(a) /\ x \notin ToSet(a)) => IsInjective(Append(a, x))
  BY AppendOwnership
<1> QED
  BY <1>1 DEF Owned

\* The head of a queue leaves the set, or goes to the head or to the tail of
\* another queue.
LEMMA OwnedPop ==
  ASSUME NEW S, NEW a \in Seq(S), NEW b, NEW c \in Seq(S), NEW L,
         Owned(a, b, c, L), c # <<>>
  PROVE  /\ Head(c) \in L /\ Head(c) \in S
         /\ Owned(a, b, Tail(c), L \ {Head(c)})
         /\ Owned(<<Head(c)>> \o a, b, Tail(c), L)
         /\ Owned(Append(a, Head(c)), b, Tail(c), L)
<1> DEFINE x == Head(c)
           t == Tail(c)
<1>1. /\ x \in S /\ x \in ToSet(c) /\ ToSet(c) = {x} \union ToSet(t)
      /\ IsInjective(t) /\ x \notin ToSet(t)
  BY TailOwnership DEF Owned
<1> HIDE DEF x, t
<1>2. /\ ToSet(Append(a, x)) = ToSet(a) \union {x}
      /\ (IsInjective(a) /\ x \notin ToSet(a)) => IsInjective(Append(a, x))
  BY <1>1, AppendOwnership
<1> DEFINE y == <<x>>
<1>3. y \in Seq(S) /\ ToSet(y) = {x} /\ IsInjective(y)
  BY <1>1, SingletonOwnership
<1> HIDE DEF y
<1>4. /\ ToSet(y \o a) = ToSet(y) \union ToSet(a)
      /\ (IsInjective(y) /\ IsInjective(a) /\ ToSet(y) \cap ToSet(a) = {})
           => IsInjective(y \o a)
  BY <1>3, ConcatOwnership
<1>5. Owned(a, b, t, L \ {x})
  BY <1>1 DEF Owned
<1>6. Owned(Append(a, x), b, t, L)
  BY <1>1, <1>2 DEF Owned
<1>7. Owned(y \o a, b, t, L)
  <2>1. ToSet(y \o a) = {x} \union ToSet(a)
    BY <1>3, <1>4
  <2>2. IsInjective(y \o a)
    BY <1>1, <1>3, <1>4 DEF Owned
  <2> QED BY <1>1, <2>1, <2>2 DEF Owned
<1>8. x \in L
  BY <1>1 DEF Owned
<1> QED
  BY <1>1, <1>5, <1>6, <1>7, <1>8, Zenon DEF x, t, y

\* A whole queue goes to the front of another one.
LEMMA OwnedMerge ==
  ASSUME NEW S, NEW a \in Seq(S), NEW b, NEW c \in Seq(S), NEW L, Owned(a, b, c, L)
  PROVE  Owned(c \o a, b, <<>>, L)
<1>1. /\ ToSet(c \o a) = ToSet(c) \union ToSet(a)
      /\ (IsInjective(c) /\ IsInjective(a) /\ ToSet(c) \cap ToSet(a) = {})
           => IsInjective(c \o a)
  BY ConcatOwnership
<1> QED
  BY <1>1, EmptyOwnership DEF Owned

\* Taking one request out of a queue, and putting it back at the tail.
LEMMA RotateOwnership ==
  ASSUME NEW S, NEW q \in Seq(S), IsInjective(q), NEW i \in DOMAIN q
  PROVE  /\ q[i] \in ToSet(q) /\ q[i] \in S
         /\ RemoveAt(q, i) \in Seq(S)
         /\ ToSet(RemoveAt(q, i)) = ToSet(q) \ {q[i]}
         /\ ToSet(Append(RemoveAt(q, i), q[i])) = ToSet(q)
<1>1. /\ ToSet(RemoveAt(q, i)) = ToSet(q) \ {q[i]}
      /\ RemoveAt(q, i) \in Seq(S)
  BY RemoveAtOwnership, RemoveAtElements
<1>2. q[i] \in ToSet(q) /\ q[i] \in S
  BY DEF ToSet
<1>3. ToSet(Append(RemoveAt(q, i), q[i])) = ToSet(RemoveAt(q, i)) \union {q[i]}
  BY <1>1, <1>2, AppendOwnership
<1> QED
  BY <1>1, <1>2, <1>3

-----------------------------------------------------------------------------
(* Sums.                                                                   *)

\* The set SumOver counts, for a function.
Cells(S, f) == UNION {{s} \X (1..f[s]) : s \in S}

\* Finitely many cells.
LEMMA CellsFinite ==
  ASSUME NEW S, IsFiniteSet(S), NEW f, \A s \in S : f[s] \in Int
  PROVE  IsFiniteSet(Cells(S, f)) /\ Cardinality(Cells(S, f)) \in Nat
<1> DEFINE g == [s \in S |-> {s} \X (1..f[s])]
           T == {{s} \X (1..f[s]) : s \in S}
<1>1. g \in Surjection(S, T)
  BY DEF Surjection
<1>2. IsFiniteSet(T)
  BY <1>1, FS_Surjection
<1>3. ASSUME NEW s \in S PROVE IsFiniteSet({s} \X (1..f[s]))
  <2>1. IsFiniteSet({s}) /\ f[s] \in Int
    BY FS_Singleton
  <2>2. IsFiniteSet(1..f[s])
    BY <2>1, FS_Interval
  <2> QED BY <2>1, <2>2, FS_Product
<1>4. IsFiniteSet(UNION T)
  BY <1>2, <1>3, FS_UNION
<1> QED BY <1>4, FS_CardinalityType DEF Cells

\* A sum over a finite set of sequences is a natural number.
LEMMA SumIsNat ==
  ASSUME NEW S, IsFiniteSet(S), NEW f \in [S -> Int]
  PROVE  Cardinality(UNION {{s} \X (1..f[s]) : s \in S}) \in Nat
  BY CellsFinite DEF Cells

\* A cell is an index and a number up to the value there.
LEMMA CellIs ==
  ASSUME NEW S, NEW f
  PROVE  \A x : x \in Cells(S, f) <=> \E s \in S : \E k \in 1..f[s] : x = <<s, k>>
  BY DEF Cells

\* SumOver counts the cells of the function it sums.
LEMMA SumIsCells ==
  ASSUME NEW S, NEW F(_), NEW f, \A s \in S : f[s] = F(s)
  PROVE  SumOver(S, F) = Cardinality(Cells(S, f))
<1>1. {{s} \X (1..f[s]) : s \in S} = {{s} \X (1..F(s)) : s \in S}
  OBVIOUS
<1> QED BY <1>1 DEF SumOver, Cells

\* A sum is one summand plus the sum of the others.
LEMMA CellsSplit ==
  ASSUME NEW S, IsFiniteSet(S), NEW f, \A s \in S : f[s] \in Int,
         NEW x \in S, f[x] \in Nat
  PROVE  Cardinality(Cells(S, f)) = Cardinality(Cells(S \ {x}, f)) + f[x]
<1> DEFINE R == S \ {x}
           C == {x} \X (1..f[x])
<1>1. IsFiniteSet(R)
  BY FS_Subset
<1>2. IsFiniteSet(Cells(R, f)) /\ Cardinality(Cells(R, f)) \in Nat
  BY <1>1, CellsFinite
<1>3. IsFiniteSet(C) /\ Cardinality(C) = f[x]
  <2>a. f[x] \in Int /\ 1 \in Int
    OBVIOUS
  <2>b. IsFiniteSet(1..f[x]) /\ Cardinality(1..f[x]) = IF 1 > f[x] THEN 0 ELSE f[x] - 1 + 1
    BY <2>a, FS_Interval
  <2>1. /\ IsFiniteSet({x}) /\ Cardinality({x}) = 1
        /\ IsFiniteSet(1..f[x]) /\ Cardinality(1..f[x]) = f[x]
    <3>1. IsFiniteSet({x}) /\ Cardinality({x}) = 1
      BY FS_Singleton
    <3>2. (IF 1 > f[x] THEN 0 ELSE f[x] - 1 + 1) = f[x]
      OBVIOUS
    <3> QED BY <2>b, <3>1, <3>2
  <2>2. IsFiniteSet(C) /\ Cardinality(C) = Cardinality({x}) * Cardinality(1..f[x])
    BY <2>1, FS_Product
  <2> QED BY <2>1, <2>2
<1>4. Cells(S, f) = Cells(R, f) \union C
  BY DEF Cells
<1>5. Cells(R, f) \cap C = {}
  BY DEF Cells
<1>6. Cardinality(Cells(R, f) \union C)
        = Cardinality(Cells(R, f)) + Cardinality(C) - Cardinality(Cells(R, f) \cap C)
  BY <1>2, <1>3, FS_Union
<1>7. Cardinality(Cells(R, f) \cap C) = 0
  BY <1>5, FS_EmptySet
<1> HIDE DEF C, R
<1>8. Cardinality(Cells(S, f)) = Cardinality(Cells(R, f)) + f[x]
  BY <1>2, <1>3, <1>4, <1>6, <1>7
<1> QED BY <1>8 DEF R

\* A sum over S is the sum over a part of S and over the rest.
LEMMA CellsPart ==
  ASSUME NEW S, IsFiniteSet(S), NEW f, \A s \in S : f[s] \in Int, NEW T \in SUBSET S
  PROVE  Cardinality(Cells(S, f)) = Cardinality(Cells(S \ T, f)) + Cardinality(Cells(T, f))
<1>1. IsFiniteSet(T) /\ IsFiniteSet(S \ T)
  BY FS_Subset
<1>2. /\ IsFiniteSet(Cells(T, f)) /\ Cardinality(Cells(T, f)) \in Nat
      /\ IsFiniteSet(Cells(S \ T, f)) /\ Cardinality(Cells(S \ T, f)) \in Nat
  BY <1>1, CellsFinite
<1>3. Cells(S, f) = Cells(S \ T, f) \union Cells(T, f)
  BY DEF Cells
<1>4. Cells(S \ T, f) \cap Cells(T, f) = {}
  BY DEF Cells
<1>5. Cardinality(Cells(S \ T, f) \cap Cells(T, f)) = 0
  BY <1>4, FS_EmptySet
<1>6. Cardinality(Cells(S \ T, f) \union Cells(T, f))
        = Cardinality(Cells(S \ T, f)) + Cardinality(Cells(T, f)) - Cardinality(Cells(S \ T, f) \cap Cells(T, f))
  BY <1>2, FS_Union
<1> QED BY <1>2, <1>3, <1>5, <1>6

\* Changing one summand changes the sum by as much.
LEMMA OneSummand ==
  ASSUME NEW S, IsFiniteSet(S), NEW f, NEW g, \A s \in S : f[s] \in Int /\ g[s] \in Int,
         NEW x \in S, f[x] \in Nat, g[x] \in Nat, \A s \in S \ {x} : g[s] = f[s]
  PROVE  Cardinality(Cells(S, g)) = Cardinality(Cells(S, f)) + g[x] - f[x]
<1>1. Cells(S \ {x}, g) = Cells(S \ {x}, f)
  BY DEF Cells
<1>2. /\ Cardinality(Cells(S, g)) = Cardinality(Cells(S \ {x}, g)) + g[x]
      /\ Cardinality(Cells(S, f)) = Cardinality(Cells(S \ {x}, f)) + f[x]
  BY CellsSplit
<1>3. Cardinality(Cells(S \ {x}, f)) \in Nat
  BY FS_Subset, CellsFinite
<1> QED BY <1>1, <1>2, <1>3

\* Adding one to the summands of A adds as much as A has elements.
LEMMA OneMoreEach ==
  ASSUME NEW S, IsFiniteSet(S), NEW f, NEW g, NEW A \in SUBSET S,
         \A s \in S : f[s] \in Nat /\ g[s] = f[s] + (IF s \in A THEN 1 ELSE 0)
  PROVE  Cardinality(Cells(S, g)) = Cardinality(Cells(S, f)) + Cardinality(A)
<1> DEFINE top(s) == <<s, f[s] + 1>>
           T == {top(s) : s \in A}
           h == [s \in A |-> top(s)]
<1>0. \A s \in S : f[s] \in Int
  OBVIOUS
<1>1. IsFiniteSet(Cells(S, f)) /\ Cardinality(Cells(S, f)) \in Nat
  BY <1>0, CellsFinite
<1>2. IsFiniteSet(A) /\ Cardinality(A) \in Nat
  BY FS_Subset, FS_CardinalityType
<1>3. ExistsBijection(A, T)
  <2>1. h \in [A -> T] /\ \A s \in A : h[s] = top(s)
    OBVIOUS
  <2>2. \A s, t \in A : h[s] = h[t] => s = t
    BY <2>1
  <2>3. \A x \in T : \E s \in A : h[s] = x
    BY <2>1
  <2> HIDE DEF h, T
  <2>4. h \in Bijection(A, T)
    BY <2>1, <2>2, <2>3 DEF Bijection, Injection, Surjection, IsInjective
  <2> QED BY <2>4 DEF ExistsBijection
<1>4. IsFiniteSet(T) /\ Cardinality(T) = Cardinality(A)
  BY <1>2, <1>3, FS_Bijection
<1>5. ASSUME NEW x PROVE x \in Cells(S, g) <=> x \in Cells(S, f) \union T
  <2>1. ASSUME NEW s \in S, NEW k \in 1..g[s], x = <<s, k>>
        PROVE  x \in Cells(S, f) \union T
    <3>1. CASE k \in 1..f[s]
      BY <2>1, <3>1, CellIs
    <3>2. CASE k \notin 1..f[s]
      <4>1. s \in A /\ k = f[s] + 1
        BY <2>1, <3>2
      <4> QED BY <2>1, <4>1
    <3> QED BY <3>1, <3>2
  <2>2. ASSUME NEW s \in S, NEW k \in 1..f[s], x = <<s, k>>
        PROVE  x \in Cells(S, g)
    <3>1. k \in 1..g[s]
      OBVIOUS
    <3> QED BY <2>2, <3>1, CellIs
  <2>3. ASSUME NEW s \in A, x = top(s) PROVE x \in Cells(S, g)
    <3>1. f[s] + 1 \in 1..g[s] /\ s \in S
      OBVIOUS
    <3> QED BY <2>3, <3>1, CellIs
  <2> HIDE DEF top
  <2> QED BY <2>1, <2>2, <2>3, CellIs
<1>6. Cells(S, g) = Cells(S, f) \union T
  BY <1>5
<1>7. Cells(S, f) \cap T = {}
  <2> SUFFICES ASSUME NEW s \in A, NEW t \in S, NEW k \in 1..f[t], top(s) = <<t, k>>
               PROVE  FALSE
    BY CellIs
  <2> QED OBVIOUS
<1>8. Cardinality(Cells(S, f) \union T)
        = Cardinality(Cells(S, f)) + Cardinality(T) - Cardinality(Cells(S, f) \cap T)
  BY <1>1, <1>4, FS_Union
<1>9. Cardinality(Cells(S, f) \cap T) = 0
  BY <1>7, FS_EmptySet
<1> HIDE DEF T
<1> QED BY <1>1, <1>2, <1>4, <1>6, <1>8, <1>9

\* A one-to-one map between the cells of two sums.
LEMMA CellsMatch ==
  ASSUME NEW C, NEW D, IsFiniteSet(C), NEW m, m \in [C -> D],
         \A x, y \in C : m[x] = m[y] => x = y,
         \A z \in D : \E x \in C : m[x] = z
  PROVE  IsFiniteSet(D) /\ Cardinality(D) = Cardinality(C)
<1>1. m \in Bijection(C, D)
  BY DEF Bijection, Injection, Surjection, IsInjective
<1> QED BY <1>1, FS_Bijection DEF ExistsBijection

\* A sum over names is a sum over what they name.
LEMMA CellsRenamed ==
  ASSUME NEW S, IsFiniteSet(S), NEW f, \A s \in S : f[s] \in Int,
         NEW T, NEW g, NEW h, \A s \in S : h[s] \in T /\ g[h[s]] = f[s],
         \A s, t \in S : h[s] = h[t] => s = t, \A t \in T : \E s \in S : h[s] = t
  PROVE  Cardinality(Cells(S, f)) = Cardinality(Cells(T, g))
<1> DEFINE C == Cells(S, f)
           D == Cells(T, g)
           m == [x \in C |-> <<h[x[1]], x[2]>>]
<1>1. IsFiniteSet(C)
  BY CellsFinite
<1>2. \A x : x \in C <=> \E s \in S : \E k \in 1..f[s] : x = <<s, k>>
  BY CellIs
<1>3. \A x : x \in D <=> \E t \in T : \E k \in 1..g[t] : x = <<t, k>>
  BY CellIs
<1> HIDE DEF C, D
<1>4. \A s \in S : \A k \in 1..f[s] : <<s, k>> \in C /\ m[<<s, k>>] = <<h[s], k>>
  BY <1>2
<1> HIDE DEF m
<1>5. \A x \in C : m[x] \in D
  <2> TAKE x \in C
  <2>1. PICK s \in S : \E k \in 1..f[s] : x = <<s, k>>
    BY <1>2
  <2>2. PICK k \in 1..f[s] : x = <<s, k>>
    BY <2>1
  <2>3. m[x] = <<h[s], k>> /\ k \in 1..g[h[s]] /\ h[s] \in T
    BY <1>4, <2>2
  <2> QED BY <1>3, <2>3
<1>6. m \in [C -> D]
  BY <1>5 DEF m
<1>7. \A x, y \in C : m[x] = m[y] => x = y
  <2> SUFFICES ASSUME NEW x \in C, NEW y \in C, m[x] = m[y] PROVE x = y
    OBVIOUS
  <2>1. PICK s \in S : \E k \in 1..f[s] : x = <<s, k>>
    BY <1>2
  <2>2. PICK k \in 1..f[s] : x = <<s, k>>
    BY <2>1
  <2>3. PICK t \in S : \E j \in 1..f[t] : y = <<t, j>>
    BY <1>2
  <2>4. PICK j \in 1..f[t] : y = <<t, j>>
    BY <2>3
  <2>5. <<h[s], k>> = <<h[t], j>>
    BY <1>4, <2>2, <2>4
  <2>6. s = t /\ k = j
    BY <2>5
  <2> QED BY <2>2, <2>4, <2>6
<1>8. \A z \in D : \E x \in C : m[x] = z
  <2> TAKE z \in D
  <2>1. PICK t \in T : \E k \in 1..g[t] : z = <<t, k>>
    BY <1>3
  <2>2. PICK k \in 1..g[t] : z = <<t, k>>
    BY <2>1
  <2>3. PICK s \in S : h[s] = t
    OBVIOUS
  <2>4. k \in 1..f[s] /\ m[<<s, k>>] = z /\ <<s, k>> \in C
    BY <1>4, <2>2, <2>3
  <2> QED BY <2>4
<1>9. Cardinality(D) = Cardinality(C)
  BY <1>1, <1>6, <1>7, <1>8, CellsMatch
<1> QED BY <1>9 DEF C, D

\* The sum of the sums.
LEMMA CellsSum ==
  ASSUME NEW S, IsFiniteSet(S), NEW f, NEW g, NEW h,
         \A s \in S : f[s] \in Nat /\ g[s] \in Nat /\ h[s] = f[s] + g[s]
  PROVE  Cardinality(Cells(S, h)) = Cardinality(Cells(S, f)) + Cardinality(Cells(S, g))
<1> DEFINE C == Cells(S, g)
           F == Cells(S, f)
           m == [x \in C |-> <<x[1], f[x[1]] + x[2]>>]
           D == {m[x] : x \in C}
<1>0. \A s \in S : f[s] \in Int /\ g[s] \in Int
  OBVIOUS
<1>1. /\ IsFiniteSet(C) /\ Cardinality(C) \in Nat
      /\ IsFiniteSet(F) /\ Cardinality(F) \in Nat
  BY <1>0, CellsFinite
<1>2. \A x : x \in C <=> \E s \in S : \E k \in 1..g[s] : x = <<s, k>>
  BY CellIs
<1>3. \A x : x \in F <=> \E s \in S : \E k \in 1..f[s] : x = <<s, k>>
  BY CellIs
<1>4. \A x : x \in Cells(S, h) <=> \E s \in S : \E k \in 1..h[s] : x = <<s, k>>
  BY CellIs
<1> HIDE DEF C, F
<1>5. \A s \in S : \A k \in 1..g[s] : <<s, k>> \in C /\ m[<<s, k>>] = <<s, f[s] + k>>
  BY <1>2
<1>6. m \in [C -> D] /\ \A z \in D : \E x \in C : m[x] = z
  OBVIOUS
<1>7. \A z : z \in D <=> \E s \in S : \E k \in 1..g[s] : z = <<s, f[s] + k>>
  <2>1. ASSUME NEW z \in D PROVE \E s \in S : \E k \in 1..g[s] : z = <<s, f[s] + k>>
    <3>1. PICK x \in C : z = m[x]
      OBVIOUS
    <3> HIDE DEF m, D
    <3>2. PICK s \in S : \E k \in 1..g[s] : x = <<s, k>>
      BY <1>2
    <3>3. PICK k \in 1..g[s] : x = <<s, k>>
      BY <3>2
    <3>4. z = <<s, f[s] + k>>
      BY <1>5, <3>1, <3>3
    <3> QED BY <3>4
  <2>2. ASSUME NEW s \in S, NEW k \in 1..g[s] PROVE <<s, f[s] + k>> \in D
    <3>1. <<s, k>> \in C /\ m[<<s, k>>] = <<s, f[s] + k>>
      BY <1>5
    <3> HIDE DEF m
    <3> QED BY <3>1
  <2> HIDE DEF D, m
  <2> QED BY <2>1, <2>2
<1> HIDE DEF D, m
<1>8. \A x, y \in C : m[x] = m[y] => x = y
  <2> SUFFICES ASSUME NEW x \in C, NEW y \in C, m[x] = m[y] PROVE x = y
    OBVIOUS
  <2>1. PICK s \in S : \E k \in 1..g[s] : x = <<s, k>>
    BY <1>2
  <2>2. PICK k \in 1..g[s] : x = <<s, k>>
    BY <2>1
  <2>3. PICK t \in S : \E j \in 1..g[t] : y = <<t, j>>
    BY <1>2
  <2>4. PICK j \in 1..g[t] : y = <<t, j>>
    BY <2>3
  <2>5. <<s, f[s] + k>> = <<t, f[t] + j>>
    BY <1>5, <2>2, <2>4
  <2>6. s = t /\ f[s] + k = f[t] + j
    BY <2>5
  <2>7. k = j
    BY <2>6
  <2> QED BY <2>2, <2>4, <2>6, <2>7
<1>9. IsFiniteSet(D) /\ Cardinality(D) = Cardinality(C)
  BY <1>1, <1>6, <1>8, CellsMatch
<1>10. ASSUME NEW x PROVE x \in Cells(S, h) <=> x \in F \union D
  <2>1. ASSUME NEW s \in S, NEW k \in 1..h[s], x = <<s, k>> PROVE x \in F \union D
    <3>1. CASE k <= f[s]
      <4>1. k \in 1..f[s]
        BY <3>1
      <4> QED BY <1>3, <2>1, <4>1
    <3>2. CASE ~(k <= f[s])
      <4>1. k - f[s] \in 1..g[s] /\ f[s] + (k - f[s]) = k
        BY <3>2
      <4>2. <<s, f[s] + (k - f[s])>> \in D
        BY <1>7, <4>1
      <4> QED BY <2>1, <4>1, <4>2
    <3> QED BY <3>1, <3>2
  <2>2. ASSUME NEW s \in S, NEW k \in 1..f[s], x = <<s, k>> PROVE x \in Cells(S, h)
    <3>1. k \in 1..h[s]
      OBVIOUS
    <3> QED BY <1>4, <2>2, <3>1
  <2>3. ASSUME NEW s \in S, NEW k \in 1..g[s], x = <<s, f[s] + k>> PROVE x \in Cells(S, h)
    <3>1. f[s] + k \in 1..h[s]
      OBVIOUS
    <3> QED BY <1>4, <2>3, <3>1
  <2>4. x \in Cells(S, h) => x \in F \union D
    BY <1>4, <2>1
  <2>5. x \in F => x \in Cells(S, h)
    BY <1>3, <2>2
  <2>6. x \in D => x \in Cells(S, h)
    BY <1>7, <2>3
  <2> QED BY <2>4, <2>5, <2>6
<1>11. F \cap D = {}
  <2> SUFFICES ASSUME NEW x, x \in F, x \in D PROVE FALSE
    OBVIOUS
  <2>1. PICK s \in S : \E k \in 1..f[s] : x = <<s, k>>
    BY <1>3
  <2>2. PICK k \in 1..f[s] : x = <<s, k>>
    BY <2>1
  <2>3. PICK t \in S : \E j \in 1..g[t] : x = <<t, f[t] + j>>
    BY <1>7
  <2>4. PICK j \in 1..g[t] : x = <<t, f[t] + j>>
    BY <2>3
  <2>5. s = t /\ k = f[t] + j
    BY <2>2, <2>4
  <2> QED BY <2>5
<1>12. Cells(S, h) = F \union D
  BY <1>10
<1>13. Cardinality(F \union D) = Cardinality(F) + Cardinality(D) - Cardinality(F \cap D)
  BY <1>1, <1>9, FS_Union
<1>14. Cardinality(F \cap D) = 0
  BY <1>11, FS_EmptySet
<1>15. Cardinality(Cells(S, h)) = Cardinality(F) + Cardinality(C)
  BY <1>1, <1>9, <1>12, <1>13, <1>14
<1> QED BY <1>15 DEF C, F

\* Summands that are nothing can be left out.
LEMMA CellsNothing ==
  ASSUME NEW S, NEW T \in SUBSET S, NEW f, \A s \in S \ T : f[s] = 0
  PROVE  Cells(S, f) = Cells(T, f)
<1>1. \A s \in S \ T : 1..f[s] = {}
  OBVIOUS
<1>2. ASSUME NEW x PROVE x \in Cells(S, f) <=> x \in Cells(T, f)
  <2>1. ASSUME NEW s \in S, NEW k \in 1..f[s], x = <<s, k>> PROVE x \in Cells(T, f)
    <3>1. s \in T
      BY <1>1
    <3> QED BY <2>1, <3>1, CellIs
  <2>2. ASSUME NEW s \in T, NEW k \in 1..f[s], x = <<s, k>> PROVE x \in Cells(S, f)
    BY <2>2, CellIs
  <2>3. x \in Cells(S, f) => x \in Cells(T, f)
    BY <2>1, CellIs
  <2>4. x \in Cells(T, f) => x \in Cells(S, f)
    BY <2>2, CellIs
  <2> QED BY <2>3, <2>4
<1> QED BY <1>2

\* The sum of ones.
LEMMA CellsOfOnes ==
  ASSUME NEW S, IsFiniteSet(S), NEW f, \A s \in S : f[s] = 1
  PROVE  Cardinality(Cells(S, f)) = Cardinality(S)
<1> DEFINE m == [s \in S |-> <<s, 1>>]
           C == Cells(S, f)
<1>1. \A x : x \in C <=> \E s \in S : \E k \in 1..f[s] : x = <<s, k>>
  BY CellIs
<1> HIDE DEF C
<1>2. \A s \in S : 1..f[s] = {1}
  OBVIOUS
<1>3. m \in [S -> C] /\ \A s \in S : m[s] = <<s, 1>>
  BY <1>1, <1>2
<1> HIDE DEF m
<1>4. \A x, y \in S : m[x] = m[y] => x = y
  BY <1>3
<1>5. \A z \in C : \E x \in S : m[x] = z
  <2> TAKE z \in C
  <2>1. PICK s \in S : \E k \in 1..f[s] : z = <<s, k>>
    BY <1>1
  <2> QED BY <1>2, <1>3, <2>1
<1>6. Cardinality(C) = Cardinality(S)
  BY <1>3, <1>4, <1>5, CellsMatch
<1> QED BY <1>6 DEF C

\* Summands that are at most M add up to at most M for each.
LEMMA CellsBounded ==
  ASSUME NEW S, IsFiniteSet(S), NEW M \in Nat, NEW f, \A s \in S : f[s] \in Nat /\ f[s] <= M
  PROVE  Cardinality(Cells(S, f)) <= Cardinality(S) * M
<1>1. IsFiniteSet(1..M) /\ Cardinality(1..M) = M
  BY FS_Interval
<1>2. IsFiniteSet(S \X (1..M)) /\ Cardinality(S \X (1..M)) = Cardinality(S) * M
  BY <1>1, FS_Product
<1>3. Cells(S, f) \subseteq S \X (1..M)
  <2> SUFFICES ASSUME NEW s \in S, NEW k \in 1..f[s] PROVE <<s, k>> \in S \X (1..M)
    BY CellIs
  <2> QED OBVIOUS
<1>4. Cardinality(Cells(S, f)) <= Cardinality(S \X (1..M))
  BY <1>2, <1>3, FS_Subset
<1> QED BY <1>2, <1>4

=============================================================================
