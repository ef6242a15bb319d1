-------------------------- MODULE ChainCacheProofs --------------------------
(***************************************************************************)
(* Theorems about ChainCache, for every pool, every profile of layer       *)
(* budgets and every number of chains: the index, the engine's active      *)
(* sequences, the scheduler's queues and the rows agree, an IDLE chain is  *)
(* worth what its record says, the total of stored histories is right, the *)
(* checks at the end of a turn never fail, and the chains live as          *)
(* ChainLifecycle says.  Where no layer drops tokens, reservations hold to *)
(* the end of every turn and no turn is stranded.                          *)
(***************************************************************************)
EXTENDS ChainCache, DataLemmas

-----------------------------------------------------------------------------
(* Orders of stamps.                                                       *)

\* A part of an ordered set is ordered.
LEMMA AmongOrders ==
  ASSUME NEW S, NEW o, Orders(o, S), NEW T \in SUBSET S
  PROVE  Orders(Among(o, T), T)
  BY DEF Orders, Among

\* The latest stamp goes to c, whether it had one or not.
LEMMA TouchOrders ==
  ASSUME NEW S, NEW o, Orders(o, S), NEW c
  PROVE  Orders(Touch(o, S, c), S \cup {c})
<1> DEFINE T == S \ {c}
           p == Among(o, T) \cup (T \X {c})
<1>1. Orders(Among(o, T), T)
  BY AmongOrders
<1>2. /\ \A a, b \in T : <<a, b>> \in p <=> <<a, b>> \in Among(o, T)
      /\ \A a \in T : <<a, c>> \in p /\ <<c, a>> \notin p
      /\ <<c, c>> \notin p
  BY <1>1 DEF Orders
<1>3. S \cup {c} = T \cup {c}
  OBVIOUS
<1>4. p \subseteq (T \cup {c}) \X (T \cup {c})
  BY <1>1 DEF Orders
<1> HIDE DEF p, T
<1>5. Orders(p, T \cup {c})
  <2>1. \A a, b \in T \cup {c} : a # b => (<<a, b>> \in p <=> <<b, a>> \notin p)
    BY <1>1, <1>2 DEF Orders
  <2>2. \A a, b, d \in T \cup {c} : <<a, b>> \in p /\ <<b, d>> \in p => <<a, d>> \in p
    BY <1>1, <1>2 DEF Orders
  <2>3. \A a \in T \cup {c} : <<a, a>> \notin p
    BY <1>1, <1>2 DEF Orders
  <2> QED BY <1>4, <2>1, <2>2, <2>3 DEF Orders
<1> QED BY <1>3, <1>5 DEF Touch, p, T

\* One ordered set after another.
LEMMA JoinOrders ==
  ASSUME NEW A, NEW B, A \cap B = {}, NEW o, Orders(o, A), NEW p, Orders(p, B)
  PROVE  Orders(o \cup (A \X B) \cup p, A \cup B)
<1> DEFINE u == o \cup (A \X B) \cup p
<1>1. /\ \A a, b \in A : <<a, b>> \in u <=> <<a, b>> \in o
      /\ \A a, b \in B : <<a, b>> \in u <=> <<a, b>> \in p
      /\ \A a \in A, b \in B : <<a, b>> \in u /\ <<b, a>> \notin u
      /\ u \subseteq (A \cup B) \X (A \cup B)
  BY DEF Orders
<1> HIDE DEF u
<1>2. \A a, b \in A \cup B : a # b => (<<a, b>> \in u <=> <<b, a>> \notin u)
  BY <1>1 DEF Orders
<1>3. \A a, b, c \in A \cup B : <<a, b>> \in u /\ <<b, c>> \in u => <<a, c>> \in u
  BY <1>1 DEF Orders
<1>4. \A a \in A \cup B : <<a, a>> \notin u
  BY <1>1 DEF Orders
<1> QED BY <1>1, <1>2, <1>3, <1>4 DEF Orders, u

\* The elements that fewer than k others follow.
Latest(S, o, k) == {c \in S : Cardinality({d \in S : <<c, d>> \in o}) < k}

\* At most k elements are followed by fewer than k others.
LEMMA LatestFew ==
  ASSUME NEW S, IsFiniteSet(S), NEW o, Orders(o, S), NEW k \in Nat
  PROVE  Cardinality(Latest(S, o, k)) <= k
<1> DEFINE T == Latest(S, o, k)
           after(c) == {d \in S : <<c, d>> \in o}
           f == [c \in T |-> Cardinality(after(c))]
<1>0. T \in SUBSET S /\ \A c \in T : Cardinality(after(c)) < k
  BY DEF Latest
<1> HIDE DEF T
<1>1. \A c \in S : IsFiniteSet(after(c)) /\ Cardinality(after(c)) \in Nat
  BY FS_Subset, FS_CardinalityType
<1>2. ASSUME NEW a \in S, NEW b \in S, <<a, b>> \in o
      PROVE  Cardinality(after(b)) < Cardinality(after(a))
  <2>1. after(b) \in SUBSET after(a)
    BY <1>2 DEF Orders
  <2>2. b \in after(a) /\ b \notin after(b)
    BY <1>2 DEF Orders
  <2>3. Cardinality(after(b)) <= Cardinality(after(a)) /\ Cardinality(after(a)) # Cardinality(after(b))
    BY <1>1, <2>1, <2>2, FS_Subset
  <2> QED BY <1>1, <2>3
<1>3. \A a, b \in T : f[a] = f[b] => a = b
  <2> SUFFICES ASSUME NEW a \in T, NEW b \in T, f[a] = f[b], a # b PROVE FALSE
    OBVIOUS
  <2>1. a \in S /\ b \in S /\ Cardinality(after(a)) = Cardinality(after(b))
    BY <1>0
  <2>2. <<a, b>> \in o \/ <<b, a>> \in o
    BY <2>1 DEF Orders
  <2> HIDE DEF after, f
  <2> QED BY <1>1, <1>2, <2>1, <2>2
<1>4. f \in [T -> 0..(k - 1)]
  <2> SUFFICES ASSUME NEW c \in T PROVE Cardinality(after(c)) \in 0..(k - 1)
    OBVIOUS
  <2>1. Cardinality(after(c)) \in Nat /\ Cardinality(after(c)) < k
    BY <1>0, <1>1
  <2> HIDE DEF after
  <2> QED BY <2>1
<1>5. f \in Injection(T, 0..(k - 1))
  BY <1>3, <1>4 DEF Injection, IsInjective
<1>6. IsFiniteSet(0..(k - 1)) /\ Cardinality(0..(k - 1)) = k
  BY FS_Interval
<1>7. IsFiniteSet(T) /\ Cardinality(T) <= k
  BY <1>5, <1>6, FS_Injection
<1> QED BY <1>7 DEF T

-----------------------------------------------------------------------------
(* The invariant.  Its parts are stated for any index ix, rows rw, queued  *)
(* sequences sq and active sequences act, since an admission passes        *)
(* through indexes that no state has.                                      *)

Shape(ix) ==
  /\ ix = [records |-> ix.records, bySeq |-> ix.bySeq, used |-> ix.used,
           tombstones |-> ix.tombstones, history |-> ix.history]
  /\ DOMAIN ix.records \subseteq Ids
  /\ \A c \in DOMAIN ix.records : ix.records[c] \in Record

RowsShape(rw) == \A s \in DOMAIN rw : rw[s] \in [len : [Layers -> Nat], seen : Nat]

Turn == [prompt : Nat, prefilled : Nat, completion : Nat, maxTokens : Nat,
         replay : Nat \cup {NoReplay}, queue : {"waiting", "decoding"}]

\* Records, inverse map, active sequences, queues and rows.
Agree(ix, rw, sq, act) ==
  /\ DOMAIN ix.bySeq = {ix.records[c].seq : c \in DOMAIN ix.records}
  /\ \A c \in DOMAIN ix.records : ix.bySeq[ix.records[c].seq] = c
  /\ act = {ix.records[c].seq : c \in InState(ix, "active")}
  /\ DOMAIN sq = act
  /\ DOMAIN rw \subseteq DOMAIN ix.bySeq

\* The stamps of the records and of the tombstones.
Stamped(ix) ==
  /\ Orders(ix.used, DOMAIN ix.records)
  /\ Orders(ix.tombstones.order, ix.tombstones.ids)
  /\ ix.tombstones.ids \cap DOMAIN ix.records = {}
  /\ Cardinality(ix.tombstones.ids) <= MaxTombstones

\* Every number in use was handed out before n.
Issued(ix, n) ==
  /\ \A c \in DOMAIN ix.records : c < n /\ ix.records[c].seq < n
  /\ ix.tombstones.ids \subseteq {c \in Ids : c < n}

\* What an IDLE chain is worth.
IdleExact(ix, rw) ==
  \A c \in InState(ix, "idle") :
    LET record == ix.records[c]
    IN  /\ record.seq \in DOMAIN rw
        /\ rw[record.seq].len = record.slots
        /\ rw[record.seq].seen = record.processed

TokensExact(ix) == \A c \in InState(ix, "idle") : ix.records[c].tokens = ix.records[c].processed + 1

Seen(rw, s) == IF s \in DOMAIN rw THEN rw[s].seen ELSE 0

\* How far the turn q on a chain whose boundary was processed is, when n tokens
\* of it were written: up to the prompt, all that was sampled but the last, or
\* what is left of that to be replayed.
TurnExact(processed, q, n) ==
  /\ q \in Turn
  /\ processed < q.prompt /\ q.prefilled <= q.prompt
  /\ q.queue = "waiting" =>
       /\ n = q.prefilled /\ q.prefilled < q.prompt
       /\ q.replay = NoReplay => q.completion = 0
       /\ q.replay # NoReplay => q.completion >= 1 /\ q.replay = q.completion - 1
  /\ q.queue = "decoding" =>
       /\ q.completion >= 1 /\ q.replay # 0
       /\ n = q.prompt + q.completion - 1 - Larger(0, q.replay)

TurnsExact(ix, rw, sq) ==
  \A s \in DOMAIN sq : TurnExact(ix.records[ix.bySeq[s]].processed, sq[s], Seen(rw, s))

Counted(ix) == ix.history = HistoryOf(ix, DOMAIN ix.records)

\* All of it but the tokens, which a turn that does not fit the history leaves
\* behind.
Consistent(ix, rw, sq, act) ==
  /\ Shape(ix) /\ RowsShape(rw) /\ Agree(ix, rw, sq, act) /\ Stamped(ix)
  /\ IdleExact(ix, rw) /\ TurnsExact(ix, rw, sq) /\ Counted(ix)

Reasons == {"none", "model", "sole decode", "stalled", "history full"}

ChainInv ==
  /\ Consistent(index, rows, seqs, active)
  /\ nextId \in 1..(MaxChains + 1) /\ Issued(index, nextId)
  /\ raised \in Reasons
  /\ raised # "history full" => TokensExact(index)

-----------------------------------------------------------------------------
(* Forgetting chains.                                                      *)

\* The records and owners that are left.
LEMMA ForgetLeaves ==
  ASSUME NEW ix, NEW cs \in SUBSET DOMAIN ix.records, NEW r, r = Forget(ix, cs)
  PROVE  /\ DOMAIN r.records = DOMAIN ix.records \ cs
         /\ \A c \in DOMAIN ix.records \ cs : r.records[c] = ix.records[c]
         /\ DOMAIN r.bySeq = DOMAIN ix.bySeq \ {ix.records[c].seq : c \in cs}
         /\ \A s \in DOMAIN r.bySeq : r.bySeq[s] = ix.bySeq[s]
  BY DEF Forget, Without, Restrict

\* The stamps and the total that are left.
LEMMA ForgetRest ==
  ASSUME NEW ix, NEW cs \in SUBSET DOMAIN ix.records, NEW r, r = Forget(ix, cs)
  PROVE  /\ r.used = Among(ix.used, DOMAIN ix.records \ cs)
         /\ r.tombstones = AddTombstones(ix, cs)
         /\ r.history = ix.history - HistoryOf(ix, cs)
  BY DEF Forget

\* What is left is an index.
LEMMA ForgetShape ==
  ASSUME NEW ix, Shape(ix), NEW cs \in SUBSET DOMAIN ix.records
  PROVE  Shape(Forget(ix, cs))
<1>0. PICK r : r = Forget(ix, cs)
  OBVIOUS
<1>1. r = [records |-> r.records, bySeq |-> r.bySeq, used |-> r.used,
           tombstones |-> r.tombstones, history |-> r.history]
  BY <1>0 DEF Forget
<1>2. /\ DOMAIN r.records = DOMAIN ix.records \ cs
      /\ \A c \in DOMAIN ix.records \ cs : r.records[c] = ix.records[c]
  BY <1>0, ForgetLeaves
<1> QED BY <1>0, <1>1, <1>2 DEF Shape

\* Sequences leave with their chains.
LEMMA ForgetAgrees ==
  ASSUME NEW ix, NEW rw, NEW sq, NEW act, Shape(ix), Agree(ix, rw, sq, act),
         NEW cs \in SUBSET DOMAIN ix.records, NEW S, S = {ix.records[c].seq : c \in cs},
         NEW left, DOMAIN left = DOMAIN sq \ S
  PROVE  Agree(Forget(ix, cs), Without(rw, S), left, act \ S)
<1>0. PICK r : r = Forget(ix, cs)
  OBVIOUS
<1>1. /\ DOMAIN r.records = DOMAIN ix.records \ cs
      /\ \A c \in DOMAIN ix.records \ cs : r.records[c] = ix.records[c]
      /\ DOMAIN r.bySeq = DOMAIN ix.bySeq \ S
      /\ \A s \in DOMAIN r.bySeq : r.bySeq[s] = ix.bySeq[s]
  BY <1>0, ForgetLeaves
<1>2. \A c \in DOMAIN ix.records : ix.records[c].seq \in S <=> c \in cs
  BY DEF Agree
<1>3. /\ DOMAIN r.bySeq = {r.records[c].seq : c \in DOMAIN r.records}
      /\ \A c \in DOMAIN r.records : r.bySeq[r.records[c].seq] = c
  BY <1>1, <1>2 DEF Agree
<1>4. act \ S = {r.records[c].seq : c \in InState(r, "active")}
  BY <1>1, <1>2 DEF Agree, InState
<1>5. DOMAIN left = act \ S
  BY DEF Agree
<1>6. DOMAIN Without(rw, S) \subseteq DOMAIN r.bySeq
  BY <1>1 DEF Agree, Without, Restrict
<1>7. Agree(r, Without(rw, S), left, act \ S)
  BY <1>3, <1>4, <1>5, <1>6 DEF Agree
<1> QED BY <1>0, <1>7

LEMMA IdsFinite ==
  ASSUME ChainAssumption
  PROVE  IsFiniteSet(Ids) /\ \A S \in SUBSET Ids : IsFiniteSet(S)
<1>1. IsFiniteSet(Ids)
  BY FS_Interval DEF ChainAssumption, Ids
<1> QED BY <1>1, FS_Subset

\* The tombstones of the forgotten are added and the oldest fall off.
LEMMA ForgetStamped ==
  ASSUME ChainAssumption, NEW ix, Shape(ix), Stamped(ix), ix.tombstones.ids \subseteq Ids,
         NEW cs \in SUBSET DOMAIN ix.records
  PROVE  /\ Stamped(Forget(ix, cs))
         /\ Forget(ix, cs).tombstones.ids \subseteq ix.tombstones.ids \cup cs
<1>0. PICK r : r = Forget(ix, cs)
  OBVIOUS
<1> DEFINE old == ix.tombstones.ids \ cs
           all == old \cup cs
           order == Among(ix.tombstones.order, old) \cup (old \X cs) \cup Among(ix.used, cs)
           kept == {c \in all : Cardinality({d \in all : <<c, d>> \in order}) < MaxTombstones}
<1>a. DOMAIN r.records = DOMAIN ix.records \ cs
  BY <1>0, ForgetLeaves
<1>b. r.used = Among(ix.used, DOMAIN ix.records \ cs) /\ r.tombstones = AddTombstones(ix, cs)
  BY <1>0, ForgetRest
<1>c. AddTombstones(ix, cs) = [ids |-> kept, order |-> Among(order, kept)]
  BY DEF AddTombstones
<1>1. r.tombstones.ids = kept /\ r.tombstones.order = Among(order, kept)
  BY <1>b, <1>c
<1>2. Orders(order, all)
  <2>1. Orders(Among(ix.tombstones.order, old), old) /\ Orders(Among(ix.used, cs), cs)
    BY AmongOrders DEF Stamped
  <2> QED BY <2>1, JoinOrders
<1>3. IsFiniteSet(all) /\ MaxTombstones \in Nat
  <2>1. all \in SUBSET Ids
    BY DEF Shape
  <2> QED BY <2>1, IdsFinite DEF ChainAssumption
<1> HIDE DEF order, all
<1>4. kept \in SUBSET all
  OBVIOUS
<1>d. kept = Latest(all, order, MaxTombstones)
  BY DEF Latest
<1> HIDE DEF kept
<1>5. Cardinality(kept) <= MaxTombstones
  BY <1>2, <1>3, <1>d, LatestFew
<1>6. Orders(r.tombstones.order, r.tombstones.ids)
  BY <1>1, <1>2, <1>4, AmongOrders
<1>7. Orders(r.used, DOMAIN r.records)
  BY <1>a, <1>b, AmongOrders DEF Stamped
<1>8. r.tombstones.ids \cap DOMAIN r.records = {} /\ r.tombstones.ids \subseteq ix.tombstones.ids \cup cs
  BY <1>1, <1>4, <1>a DEF Stamped, all
<1>9. Stamped(r)
  BY <1>1, <1>5, <1>6, <1>7, <1>8 DEF Stamped
<1> QED BY <1>0, <1>8, <1>9

\* The histories of a set of chains.
LEMMA HistoryIsCells ==
  ASSUME NEW ix, NEW cs, NEW f, \A c \in cs : f[c] = ix.records[c].tokens
  PROVE  HistoryOf(ix, cs) = Cardinality(Cells(cs, f))
<1>1. {{c} \X (1..f[c]) : c \in cs} = {{c} \X (1..ix.records[c].tokens) : c \in cs}
  OBVIOUS
<1> QED BY <1>1 DEF HistoryOf, SumOver, Cells

\* The histories of the forgotten leave the total.
LEMMA ForgetCounted ==
  ASSUME ChainAssumption, NEW ix, Shape(ix), Counted(ix), NEW cs \in SUBSET DOMAIN ix.records
  PROVE  Counted(Forget(ix, cs))
<1>0. PICK r : r = Forget(ix, cs)
  OBVIOUS
<1> DEFINE S == DOMAIN ix.records
           f == [c \in S |-> ix.records[c].tokens]
<1>1. /\ DOMAIN r.records = S \ cs
      /\ \A c \in S \ cs : r.records[c] = ix.records[c]
  BY <1>0, ForgetLeaves
<1>a. r.history = ix.history - HistoryOf(ix, cs)
  BY <1>0, ForgetRest
<1>2. IsFiniteSet(S) /\ IsFiniteSet(cs) /\ IsFiniteSet(S \ cs)
  BY IdsFinite, FS_Subset DEF Shape
<1>3. \A c \in S : f[c] \in Int /\ f[c] = ix.records[c].tokens
  BY DEF Shape, Record
<1> HIDE DEF f
<1>4. Cardinality(Cells(S, f)) = Cardinality(Cells(S \ cs, f)) + Cardinality(Cells(cs, f))
  BY <1>2, <1>3, CellsPart
<1>5. Cardinality(Cells(S \ cs, f)) \in Nat /\ Cardinality(Cells(cs, f)) \in Nat
  BY <1>2, <1>3, CellsFinite
<1>6. HistoryOf(ix, S) = Cardinality(Cells(S, f)) /\ HistoryOf(ix, cs) = Cardinality(Cells(cs, f))
  BY <1>3, HistoryIsCells
<1>7. HistoryOf(r, S \ cs) = Cardinality(Cells(S \ cs, f))
  BY <1>1, <1>3, HistoryIsCells
<1>8. r.history = HistoryOf(r, DOMAIN r.records)
  BY <1>1, <1>4, <1>5, <1>6, <1>7, <1>a DEF Counted
<1> QED BY <1>0, <1>8 DEF Counted

\* What the chains that stay are worth does not change.
LEMMA ForgetExact ==
  ASSUME NEW ix, NEW rw, NEW sq, NEW act, Agree(ix, rw, sq, act),
         IdleExact(ix, rw), TurnsExact(ix, rw, sq),
         NEW cs \in SUBSET DOMAIN ix.records, NEW S, S = {ix.records[c].seq : c \in cs},
         NEW left, DOMAIN left = DOMAIN sq \ S, \A s \in DOMAIN left : left[s] = sq[s]
  PROVE  /\ IdleExact(Forget(ix, cs), Without(rw, S))
         /\ TurnsExact(Forget(ix, cs), Without(rw, S), left)
         /\ TokensExact(ix) => TokensExact(Forget(ix, cs))
<1>0. PICK r : r = Forget(ix, cs)
  OBVIOUS
<1>1. /\ DOMAIN r.records = DOMAIN ix.records \ cs
      /\ \A c \in DOMAIN ix.records \ cs : r.records[c] = ix.records[c]
      /\ DOMAIN r.bySeq = DOMAIN ix.bySeq \ S
      /\ \A s \in DOMAIN r.bySeq : r.bySeq[s] = ix.bySeq[s]
  BY <1>0, ForgetLeaves
<1>2. \A c \in DOMAIN ix.records : ix.records[c].seq \in S <=> c \in cs
  BY DEF Agree
<1>3. PICK q : q = Without(rw, S)
  OBVIOUS
<1>4. DOMAIN q = DOMAIN rw \ S /\ \A s \in DOMAIN q : q[s] = rw[s]
  BY <1>3 DEF Without, Restrict
<1>5. \A c \in InState(r, "idle") :
        /\ c \in InState(ix, "idle") /\ r.records[c] = ix.records[c]
        /\ ix.records[c].seq \notin S
  BY <1>1, <1>2 DEF InState
<1>6. IdleExact(r, q)
  BY <1>4, <1>5 DEF IdleExact
<1>7. TokensExact(ix) => TokensExact(r)
  BY <1>5 DEF TokensExact
<1>8. TurnsExact(r, q, left)
  <2> SUFFICES ASSUME NEW s \in DOMAIN left
               PROVE  TurnExact(r.records[r.bySeq[s]].processed, left[s], Seen(q, s))
    BY DEF TurnsExact
  <2>1. PICK c \in DOMAIN ix.records : s = ix.records[c].seq
    BY DEF Agree, InState
  <2>2. r.bySeq[s] = c /\ ix.bySeq[s] = c /\ r.records[c] = ix.records[c]
    BY <1>1, <1>2, <2>1 DEF Agree
  <2>3. Seen(q, s) = Seen(rw, s)
    BY <1>4 DEF Seen
  <2> QED BY <2>2, <2>3 DEF TurnsExact
<1> QED BY <1>0, <1>3, <1>6, <1>7, <1>8

\* Forgetting chains leaves a consistent index.
LEMMA ForgetKeeps ==
  ASSUME ChainAssumption, NEW ix, NEW rw, NEW sq, NEW act, Consistent(ix, rw, sq, act),
         ix.tombstones.ids \subseteq Ids,
         NEW cs \in SUBSET DOMAIN ix.records, NEW S, S = {ix.records[c].seq : c \in cs},
         NEW left, DOMAIN left = DOMAIN sq \ S, \A s \in DOMAIN left : left[s] = sq[s]
  PROVE  Consistent(Forget(ix, cs), Without(rw, S), left, act \ S)
<1> USE DEF Consistent
<1>1. Shape(Forget(ix, cs)) /\ Agree(Forget(ix, cs), Without(rw, S), left, act \ S)
  BY ForgetShape, ForgetAgrees
<1>2. Stamped(Forget(ix, cs)) /\ Counted(Forget(ix, cs))
  BY ForgetStamped, ForgetCounted
<1>3. IdleExact(Forget(ix, cs), Without(rw, S)) /\ TurnsExact(Forget(ix, cs), Without(rw, S), left)
  BY ForgetExact
<1>4. RowsShape(Without(rw, S))
  BY DEF RowsShape, Without, Restrict
<1> QED BY <1>1, <1>2, <1>3, <1>4

-----------------------------------------------------------------------------
(* A turn begins.                                                          *)

\* The index once c is ACTIVE with the given record, for the sequence s.
Begun(ix, c, s, record) ==
  [ix EXCEPT !.records = With(@, c, record),
             !.bySeq = With(@, s, c),
             !.used = Touch(@, DOMAIN ix.records, c)]

\* c is new, as is its sequence, or c is IDLE and goes on.
MayBegin(ix, c, s, record) ==
  /\ record \in Record /\ record.seq = s /\ record.state = "active"
  /\ c \in Ids /\ s \in SeqIds
  /\ \/ /\ c \notin DOMAIN ix.records /\ s \notin DOMAIN ix.bySeq
        /\ c \notin ix.tombstones.ids
        /\ record.processed = 0 /\ record.tokens = 0
     \/ /\ c \in InState(ix, "idle") /\ s = ix.records[c].seq
        /\ record.processed = ix.records[c].processed
        /\ record.tokens = ix.records[c].tokens

\* The fields of the index of a begun turn.
LEMMA BegunFields ==
  ASSUME NEW ix, Shape(ix), NEW c, NEW s, NEW record, NEW r, r = Begun(ix, c, s, record)
  PROVE  /\ DOMAIN r.records = DOMAIN ix.records \cup {c}
         /\ \A d \in DOMAIN r.records : r.records[d] = IF d = c THEN record ELSE ix.records[d]
         /\ DOMAIN r.bySeq = DOMAIN ix.bySeq \cup {s}
         /\ \A t \in DOMAIN r.bySeq : r.bySeq[t] = IF t = s THEN c ELSE ix.bySeq[t]
<1>1. r.records = With(ix.records, c, record) /\ r.bySeq = With(ix.bySeq, s, c)
  BY DEF Begun, Shape
<1> QED BY <1>1 DEF With

LEMMA BegunRest ==
  ASSUME NEW ix, Shape(ix), NEW c, NEW s, NEW record, NEW r, r = Begun(ix, c, s, record)
  PROVE  /\ r.used = Touch(ix.used, DOMAIN ix.records, c)
         /\ r.tombstones = ix.tombstones /\ r.history = ix.history
         /\ r = [records |-> r.records, bySeq |-> r.bySeq, used |-> r.used,
                 tombstones |-> r.tombstones, history |-> r.history]
  BY DEF Begun, Shape

\* Who owns what once the turn has begun.
LEMMA BeginAgrees ==
  ASSUME NEW ix, NEW rw, NEW sq, NEW act, Shape(ix), Agree(ix, rw, sq, act),
         NEW c, NEW s, NEW record, MayBegin(ix, c, s, record), NEW q, DOMAIN q = DOMAIN sq \cup {s}
  PROVE  Agree(Begun(ix, c, s, record), rw, q, act \cup {s})
<1>0. PICK r : r = Begun(ix, c, s, record)
  OBVIOUS
<1>1. /\ DOMAIN r.records = DOMAIN ix.records \cup {c}
      /\ \A d \in DOMAIN r.records : r.records[d] = IF d = c THEN record ELSE ix.records[d]
      /\ DOMAIN r.bySeq = DOMAIN ix.bySeq \cup {s}
      /\ \A t \in DOMAIN r.bySeq : r.bySeq[t] = IF t = s THEN c ELSE ix.bySeq[t]
  BY <1>0, BegunFields
<1>2. \A d \in DOMAIN ix.records : d # c => ix.records[d].seq # s
  BY DEF Agree, MayBegin, InState
<1>3. record.seq = s /\ record.state = "active" /\ (c \in DOMAIN ix.records => ix.records[c].seq = s)
  BY DEF MayBegin
<1>4. DOMAIN r.bySeq = {r.records[d].seq : d \in DOMAIN r.records}
  BY <1>1, <1>2, <1>3 DEF Agree
<1>5. \A d \in DOMAIN r.records : r.bySeq[r.records[d].seq] = d
  BY <1>1, <1>2, <1>3, <1>4 DEF Agree
<1>6. act \cup {s} = {r.records[d].seq : d \in InState(r, "active")}
  BY <1>1, <1>2, <1>3 DEF Agree, InState, MayBegin
<1>7. DOMAIN rw \subseteq DOMAIN r.bySeq
  BY <1>1 DEF Agree
<1>8. Agree(r, rw, q, act \cup {s})
  BY <1>4, <1>5, <1>6, <1>7 DEF Agree
<1> QED BY <1>0, <1>8

\* The turn has written what its chain has processed.
LEMMA BeginExact ==
  ASSUME NEW ix, NEW rw, NEW sq, NEW act, Shape(ix), Agree(ix, rw, sq, act),
         IdleExact(ix, rw), TurnsExact(ix, rw, sq),
         NEW c, NEW s, NEW record, MayBegin(ix, c, s, record),
         NEW turn \in Turn, turn.queue = "waiting", turn.replay = NoReplay, turn.completion = 0,
         turn.prefilled = record.processed, record.processed < turn.prompt
  PROVE  /\ IdleExact(Begun(ix, c, s, record), rw)
         /\ TurnsExact(Begun(ix, c, s, record), rw, With(sq, s, turn))
         /\ TokensExact(ix) => TokensExact(Begun(ix, c, s, record))
<1>0. PICK r : r = Begun(ix, c, s, record)
  OBVIOUS
<1>1. /\ DOMAIN r.records = DOMAIN ix.records \cup {c}
      /\ \A d \in DOMAIN r.records : r.records[d] = IF d = c THEN record ELSE ix.records[d]
      /\ DOMAIN r.bySeq = DOMAIN ix.bySeq \cup {s}
      /\ \A t \in DOMAIN r.bySeq : r.bySeq[t] = IF t = s THEN c ELSE ix.bySeq[t]
  BY <1>0, BegunFields
<1>2. \A d \in InState(r, "idle") : d \in InState(ix, "idle") /\ r.records[d] = ix.records[d]
  BY <1>1 DEF InState, MayBegin
<1>3. IdleExact(r, rw) /\ (TokensExact(ix) => TokensExact(r))
  BY <1>2 DEF IdleExact, TokensExact
<1>4. PICK q : q = With(sq, s, turn)
  OBVIOUS
<1>5. DOMAIN q = DOMAIN sq \cup {s} /\ \A t \in DOMAIN q : q[t] = IF t = s THEN turn ELSE sq[t]
  BY <1>4 DEF With
<1>6. Seen(rw, s) = turn.prefilled
  <2>1. CASE c \in InState(ix, "idle") /\ s = ix.records[c].seq
    BY <2>1 DEF Seen, IdleExact, MayBegin, InState
  <2>2. CASE s \notin DOMAIN ix.bySeq /\ c \notin InState(ix, "idle")
    BY <2>2 DEF Seen, Agree, MayBegin
  <2> QED BY <2>1, <2>2 DEF MayBegin, InState
<1>7. TurnsExact(r, rw, q)
  <2> SUFFICES ASSUME NEW t \in DOMAIN q
               PROVE  TurnExact(r.records[r.bySeq[t]].processed, q[t], Seen(rw, t))
    BY DEF TurnsExact
  <2>1. CASE t = s
    <3>1. q[t] = turn /\ r.records[r.bySeq[t]].processed = record.processed
      BY <1>1, <1>5, <2>1
    <3>2. turn.prefilled < turn.prompt /\ turn.prefilled \in Nat /\ turn.prompt \in Nat
      BY DEF Turn
    <3>3. TurnExact(record.processed, turn, turn.prefilled)
      BY <3>2 DEF TurnExact, NoReplay
    <3> QED BY <1>6, <2>1, <3>1, <3>3
  <2>2. CASE t # s
    <3>1. t \in DOMAIN sq /\ q[t] = sq[t]
      BY <1>5, <2>2
    <3>2. PICK d \in DOMAIN ix.records : t = ix.records[d].seq /\ ix.records[d].state = "active"
      BY <3>1 DEF Agree, InState
    <3>3. ix.bySeq[t] = d /\ t \in DOMAIN ix.bySeq /\ d # c
      BY <2>2, <3>2 DEF Agree, MayBegin, InState
    <3>4. r.bySeq[t] = d /\ r.records[d] = ix.records[d]
      BY <1>1, <2>2, <3>2, <3>3
    <3> QED BY <3>1, <3>3, <3>4 DEF TurnsExact
  <2> QED BY <2>1, <2>2
<1> QED BY <1>0, <1>3, <1>4, <1>7

\* The histories stay, and a new chain has none.
LEMMA BeginCounted ==
  ASSUME ChainAssumption, NEW ix, Shape(ix), Counted(ix),
         NEW c, NEW s, NEW record, MayBegin(ix, c, s, record)
  PROVE  Counted(Begun(ix, c, s, record))
<1>0. PICK r : r = Begun(ix, c, s, record)
  OBVIOUS
<1>1. /\ DOMAIN r.records = DOMAIN ix.records \cup {c}
      /\ \A d \in DOMAIN r.records : r.records[d] = IF d = c THEN record ELSE ix.records[d]
  BY <1>0, BegunFields
<1>2. r.history = ix.history
  BY <1>0, BegunRest
<1> DEFINE S == DOMAIN ix.records
           f == [d \in S \cup {c} |-> r.records[d].tokens]
<1>3. \A d \in S : f[d] = ix.records[d].tokens
  BY <1>1 DEF MayBegin
<1>4. \A d \in S \cup {c} : f[d] = r.records[d].tokens /\ f[d] \in Nat
  BY <1>1 DEF MayBegin, Shape, Record
<1>5. IsFiniteSet(S \cup {c})
  BY IdsFinite DEF Shape, MayBegin
<1> HIDE DEF f
<1>6. HistoryOf(ix, S) = Cardinality(Cells(S, f))
  BY <1>3, HistoryIsCells
<1>7. HistoryOf(r, S \cup {c}) = Cardinality(Cells(S \cup {c}, f))
  BY <1>4, HistoryIsCells
<1>8. Cardinality(Cells(S \cup {c}, f)) = Cardinality(Cells(S, f))
  <2>1. CASE c \in S
    <3>1. S \cup {c} = S
      BY <2>1
    <3> QED BY <3>1
  <2>2. CASE c \notin S
    <3>1. (S \cup {c}) \ {c} = S /\ f[c] = 0 /\ c \in S \cup {c}
      BY <1>1, <1>4, <2>2 DEF MayBegin, InState
    <3>2. IsFiniteSet(S) /\ \A d \in S \cup {c} : f[d] \in Int
      BY <1>4, <1>5, FS_Subset
    <3>3. Cardinality(Cells(S, f)) \in Nat
      BY <3>2, CellsFinite
    <3>4. Cardinality(Cells(S \cup {c}, f)) = Cardinality(Cells((S \cup {c}) \ {c}, f)) + f[c]
      BY <1>4, <1>5, <3>1, <3>2, CellsSplit
    <3> QED BY <3>1, <3>3, <3>4
  <2> QED BY <2>1, <2>2
<1>9. Counted(r)
  BY <1>1, <1>2, <1>6, <1>7, <1>8 DEF Counted
<1> QED BY <1>0, <1>9

\* Beginning a turn keeps the index consistent.
LEMMA BeginKeeps ==
  ASSUME ChainAssumption, NEW ix, NEW rw, NEW sq, NEW act, Consistent(ix, rw, sq, act),
         NEW c, NEW s, NEW record, MayBegin(ix, c, s, record),
         NEW turn \in Turn, turn.queue = "waiting", turn.replay = NoReplay, turn.completion = 0,
         turn.prefilled = record.processed, record.processed < turn.prompt
  PROVE  Consistent(Begun(ix, c, s, record), rw, With(sq, s, turn), act \cup {s})
<1> USE DEF Consistent
<1>0. PICK r : r = Begun(ix, c, s, record)
  OBVIOUS
<1>1. /\ DOMAIN r.records = DOMAIN ix.records \cup {c}
      /\ \A d \in DOMAIN r.records : r.records[d] = IF d = c THEN record ELSE ix.records[d]
  BY <1>0, BegunFields
<1>2. /\ r.used = Touch(ix.used, DOMAIN ix.records, c)
      /\ r.tombstones = ix.tombstones
      /\ r = [records |-> r.records, bySeq |-> r.bySeq, used |-> r.used,
              tombstones |-> r.tombstones, history |-> r.history]
  BY <1>0, BegunRest
<1>3. Shape(r)
  BY <1>1, <1>2 DEF Shape, MayBegin
<1>4. Stamped(r)
  <2>1. Orders(r.used, DOMAIN r.records)
    BY <1>1, <1>2, TouchOrders DEF Stamped
  <2>2. c \notin ix.tombstones.ids
    BY DEF Stamped, MayBegin, InState
  <2> QED BY <1>1, <1>2, <2>1, <2>2 DEF Stamped
<1>5. DOMAIN With(sq, s, turn) = DOMAIN sq \cup {s}
  BY DEF With
<1>6. Agree(Begun(ix, c, s, record), rw, With(sq, s, turn), act \cup {s})
  BY <1>5, BeginAgrees
<1>7. /\ IdleExact(Begun(ix, c, s, record), rw)
      /\ TurnsExact(Begun(ix, c, s, record), rw, With(sq, s, turn))
  BY BeginExact
<1>8. Counted(Begun(ix, c, s, record))
  BY BeginCounted
<1>9. RowsShape(rw)
  OBVIOUS
<1> QED BY <1>0, <1>3, <1>4, <1>6, <1>7, <1>8, <1>9

\* What a turn on c finds in its row.
Reused(ix, c) == IF c \in DOMAIN ix.records THEN ix.records[c].processed ELSE 0

\* What a plan is for, ...
LEMMA PlanFor ==
  ASSUME ChainAssumption, NEW ix, Shape(ix), NEW rw, NEW c, NEW s, NEW prompt \in Nat,
         NEW gen \in Nat, NEW plan \in Plans(ix, rw, c, s, prompt, gen)
  PROVE  plan.chain = c /\ plan.seq = s /\ plan.reused = Reused(ix, c)
<1> DEFINE known == c \in DOMAIN ix.records
           existing == IF known THEN ix.records[c].slots ELSE Nothing
           reused == IF known THEN ix.records[c].processed ELSE 0
           required == [l \in Layers |-> RequiredSlots(existing[l], Monus(prompt, reused), gen, l)]
           requiredRows == IF known THEN 0 ELSE 1
<1>1. PICK V \in LeastRecent(ix, c) :
        plan = [chain |-> c, seq |-> s, reused |-> reused, victims |-> V,
                reserved |-> required, reservedRows |-> requiredRows]
  BY DEF Plans
<1> HIDE DEF required, requiredRows, reused
<1>2. plan.chain = c /\ plan.seq = s /\ plan.reused = reused
  BY <1>1
<1> QED BY <1>2 DEF Reused, reused

\* ... and what it takes.
LEMMA PlanTakes ==
  ASSUME ChainAssumption, NEW ix, Shape(ix), NEW rw, NEW c, NEW s, NEW prompt \in Nat,
         NEW gen \in Nat, NEW plan \in Plans(ix, rw, c, s, prompt, gen)
  PROVE  /\ plan.victims \subseteq InState(ix, "idle") \ {c}
         /\ plan.reserved \in [Layers -> Nat] /\ plan.reservedRows \in {0, 1}
<1> DEFINE known == c \in DOMAIN ix.records
           existing == IF known THEN ix.records[c].slots ELSE Nothing
           reused == IF known THEN ix.records[c].processed ELSE 0
           required == [l \in Layers |-> RequiredSlots(existing[l], Monus(prompt, reused), gen, l)]
           requiredRows == IF known THEN 0 ELSE 1
<1>0. PICK V \in LeastRecent(ix, c) :
        plan = [chain |-> c, seq |-> s, reused |-> reused, victims |-> V,
                reserved |-> required, reservedRows |-> requiredRows]
  BY DEF Plans
<1>1. /\ plan.victims \in LeastRecent(ix, c) /\ plan.reserved = required
      /\ plan.reservedRows \in {0, 1}
  BY <1>0
<1>2. existing \in [Layers -> Nat] /\ reused \in Nat
  BY DEF Shape, Record, Nothing
<1> HIDE DEF existing, reused
<1>3. \A l \in Layers : RequiredSlots(existing[l], Monus(prompt, reused), gen, l) \in Nat
  <2> TAKE l \in Layers
  <2>1. existing[l] \in Nat /\ Monus(prompt, reused) \in Nat /\ Budget[l] \in Nat
    BY <1>2 DEF Monus, ChainAssumption
  <2> QED BY <2>1 DEF RequiredSlots, Larger, Smaller
<1>4. plan.victims \subseteq InState(ix, "idle") \ {c}
  BY <1>1 DEF LeastRecent, Candidates
<1>5. required \in [Layers -> Nat]
  BY <1>3
<1> QED BY <1>1, <1>4, <1>5

\* The turn that an admission queues.
Queueing(plan, prompt, gen) ==
  [prompt |-> prompt, prefilled |-> plan.reused, completion |-> 0,
   maxTokens |-> gen, replay |-> NoReplay, queue |-> "waiting"]

\* A turn may be admitted on c under the sequence s.
MayAdmit(ix, c, s, prompt) ==
  /\ c \in Ids /\ s \in SeqIds
  /\ \/ /\ c \notin DOMAIN ix.records /\ s \notin DOMAIN ix.bySeq
        /\ c \notin ix.tombstones.ids /\ prompt > 0
     \/ /\ c \in InState(ix, "idle") /\ s = ix.records[c].seq
        /\ prompt > ix.records[c].processed

\* Applying a plan evicts its victims and begins the turn.
LEMMA ApplyIsBegun ==
  ASSUME ChainAssumption, NEW ix, Shape(ix), NEW rw, NEW c, NEW s, NEW prompt \in Nat,
         NEW gen \in Nat, NEW plan \in Plans(ix, rw, c, s, prompt, gen),
         MayAdmit(ix, c, s, prompt)
  PROVE  \E record :
           /\ ApplyAdmission(ix, plan) = Begun(Forget(ix, plan.victims), c, s, record)
           /\ record \in Record /\ record.seq = s /\ record.state = "active"
           /\ record.processed = plan.reused
           /\ c \notin DOMAIN ix.records => record.tokens = 0
           /\ c \in DOMAIN ix.records => record.tokens = ix.records[c].tokens
<1>a. plan.chain = c /\ plan.seq = s /\ plan.reused = Reused(ix, c)
  BY PlanFor
<1>b. /\ plan.victims \subseteq InState(ix, "idle") \ {c}
      /\ plan.reserved \in [Layers -> Nat] /\ plan.reservedRows \in {0, 1}
  BY PlanTakes
<1>1. /\ plan.chain = c /\ plan.seq = s /\ plan.reused = Reused(ix, c)
      /\ plan.victims \subseteq InState(ix, "idle") \ {c}
      /\ plan.reserved \in [Layers -> Nat] /\ plan.reservedRows \in {0, 1}
  BY <1>a, <1>b
<1>2. PICK left : left = Forget(ix, plan.victims)
  OBVIOUS
<1>3. /\ DOMAIN left.records = DOMAIN ix.records \ plan.victims
      /\ \A d \in DOMAIN left.records : left.records[d] = ix.records[d]
  BY <1>1, <1>2, ForgetLeaves DEF InState
<1>4. PICK fresh : fresh = [seq |-> plan.seq, state |-> "active", processed |-> 0, tokens |-> 0,
                            slots |-> Nothing, reserved |-> plan.reserved,
                            reservedRows |-> plan.reservedRows]
  OBVIOUS
<1>5. PICK next : next = [left.records[c] EXCEPT !.state = "active",
                            !.reserved = plan.reserved, !.reservedRows = plan.reservedRows]
  OBVIOUS
<1>6. PICK record : record = IF c \in DOMAIN left.records THEN next ELSE fresh
  OBVIOUS
<1>7. ApplyAdmission(ix, plan) = Begun(left, c, s, record)
  BY <1>1, <1>2, <1>4, <1>5, <1>6 DEF ApplyAdmission, Begun
<1>8. CASE c \notin DOMAIN ix.records
  <2>1. record = fresh
    BY <1>3, <1>6, <1>8
  <2>2. fresh \in Record
    BY <1>1, <1>4 DEF Record, MayAdmit, Nothing
  <2> QED BY <1>1, <1>2, <1>4, <1>7, <1>8, <2>1, <2>2 DEF Reused
<1>9. CASE c \in DOMAIN ix.records
  <2>1. record = next /\ left.records[c] = ix.records[c] /\ ix.records[c] \in Record
    BY <1>1, <1>3, <1>6, <1>9 DEF InState, Shape
  <2>2. /\ next \in Record /\ next.seq = ix.records[c].seq /\ next.state = "active"
        /\ next.processed = ix.records[c].processed /\ next.tokens = ix.records[c].tokens
    BY <1>1, <1>5, <2>1 DEF Record
  <2> QED BY <1>1, <1>2, <1>7, <1>9, <2>1, <2>2 DEF MayAdmit, Reused
<1> QED BY <1>8, <1>9

\* r is ix with an ACTIVE record for c, less the IDLE chains V.
Takes(ix, V, c, s, r) ==
  /\ V \subseteq InState(ix, "idle") \ {c}
  /\ DOMAIN r.records = (DOMAIN ix.records \ V) \cup {c}
  /\ r.records[c].seq = s /\ r.records[c].state = "active"
  /\ \A d \in DOMAIN r.records : d # c => r.records[d] = ix.records[d]

\* An admission creates or rewrites the record of c and drops the victims'.
LEMMA AdmitTakes ==
  ASSUME ChainAssumption, NEW ix, Shape(ix), NEW rw, NEW c, NEW s, NEW prompt \in Nat,
         NEW gen \in Nat, NEW plan \in Plans(ix, rw, c, s, prompt, gen),
         MayAdmit(ix, c, s, prompt), NEW r, r = ApplyAdmission(ix, plan),
         NEW V, V = plan.victims
  PROVE  Takes(ix, V, c, s, r)
<1>1. plan.victims \subseteq InState(ix, "idle") \ {c}
  BY PlanTakes
<1>2. V \subseteq InState(ix, "idle") \ {c} /\ V \in SUBSET DOMAIN ix.records
  BY <1>1 DEF InState
<1>3. PICK record : /\ r = Begun(Forget(ix, plan.victims), c, s, record)
                    /\ record.seq = s /\ record.state = "active"
  BY ApplyIsBegun
<1>4. PICK left : left = Forget(ix, V)
  OBVIOUS
<1>5. r = Begun(left, c, s, record) /\ Shape(left)
  BY <1>2, <1>3, <1>4, ForgetShape
<1>6. /\ DOMAIN left.records = DOMAIN ix.records \ V
      /\ \A d \in DOMAIN ix.records \ V : left.records[d] = ix.records[d]
  BY <1>2, <1>4, ForgetLeaves
<1>7. /\ DOMAIN r.records = DOMAIN left.records \cup {c}
      /\ \A d \in DOMAIN r.records : r.records[d] = IF d = c THEN record ELSE left.records[d]
  BY <1>5, BegunFields
<1> QED BY <1>2, <1>3, <1>6, <1>7 DEF Takes

\* An admission keeps the index consistent.
LEMMA AdmitKeeps ==
  ASSUME ChainAssumption, NEW ix, NEW rw, NEW sq, NEW act, Consistent(ix, rw, sq, act),
         ix.tombstones.ids \subseteq Ids, NEW c, NEW s, NEW prompt \in Nat,
         NEW gen \in Nat, NEW plan \in Plans(ix, rw, c, s, prompt, gen),
         MayAdmit(ix, c, s, prompt), NEW r, r = ApplyAdmission(ix, plan)
  PROVE  /\ Consistent(r, FreeVictims(ix, rw, plan),
                       With(sq, s, Queueing(plan, prompt, gen)), act \cup {s})
         /\ TokensExact(ix) => TokensExact(r)
         /\ r.tombstones.ids \subseteq ix.tombstones.ids \cup plan.victims
<1> USE DEF Consistent
<1>a. plan.chain = c /\ plan.seq = s /\ plan.reused = Reused(ix, c)
  BY PlanFor
<1>b. plan.victims \subseteq InState(ix, "idle") \ {c}
  BY PlanTakes
<1>1. /\ plan.chain = c /\ plan.seq = s /\ plan.reused = Reused(ix, c)
      /\ plan.victims \subseteq InState(ix, "idle") \ {c}
  BY <1>a, <1>b
<1>2. PICK record :
        /\ r = Begun(Forget(ix, plan.victims), c, s, record)
        /\ record \in Record /\ record.seq = s /\ record.state = "active"
        /\ record.processed = plan.reused
        /\ c \notin DOMAIN ix.records => record.tokens = 0
        /\ c \in DOMAIN ix.records => record.tokens = ix.records[c].tokens
  BY ApplyIsBegun
<1>3. PICK left : left = Forget(ix, plan.victims)
  OBVIOUS
<1>4. PICK S : S = {ix.records[d].seq : d \in plan.victims}
  OBVIOUS
<1>5. plan.victims \in SUBSET DOMAIN ix.records /\ DOMAIN sq = DOMAIN sq \ S /\ act = act \ S
  BY <1>1, <1>4 DEF Agree, InState
<1>6. Consistent(left, Without(rw, S), sq, act)
  <2>1. Consistent(left, Without(rw, S), sq, act \ S)
    BY <1>3, <1>4, <1>5, ForgetKeeps
  <2> QED BY <1>5, <2>1
<1>7. /\ DOMAIN left.records = DOMAIN ix.records \ plan.victims
      /\ \A d \in DOMAIN left.records : left.records[d] = ix.records[d]
      /\ DOMAIN left.bySeq \subseteq DOMAIN ix.bySeq
  BY <1>3, <1>5, ForgetLeaves
<1>8. left.tombstones.ids \subseteq ix.tombstones.ids \cup plan.victims
  BY <1>3, <1>5, ForgetStamped
<1>9. MayBegin(left, c, s, record)
  BY <1>1, <1>2, <1>7, <1>8 DEF MayBegin, MayAdmit, InState, Reused
<1>10. PICK turn : turn = Queueing(plan, prompt, gen)
  OBVIOUS
<1>11. /\ turn \in Turn /\ turn.queue = "waiting" /\ turn.replay = NoReplay /\ turn.completion = 0
       /\ turn.prefilled = record.processed /\ record.processed < turn.prompt
  <2>1. plan.reused \in Nat /\ plan.reused < prompt
    BY <1>1 DEF MayAdmit, Shape, Record, InState, Reused
  <2>2. turn.prompt = prompt /\ turn.prefilled = plan.reused
    BY <1>10 DEF Queueing
  <2>3. turn \in Turn /\ turn.queue = "waiting" /\ turn.replay = NoReplay /\ turn.completion = 0
    BY <1>10, <2>1 DEF Queueing, Turn
  <2> QED BY <1>2, <2>1, <2>2, <2>3
<1>12. Consistent(r, Without(rw, S), With(sq, s, turn), act \cup {s})
  <2>1. r = Begun(left, c, s, record)
    BY <1>2, <1>3
  <2> QED BY <1>6, <1>9, <1>11, <2>1, BeginKeeps
<1>13. FreeVictims(ix, rw, plan) = Without(rw, S)
  BY <1>4 DEF FreeVictims
<1>14. TokensExact(ix) => TokensExact(r)
  <2>1. TokensExact(ix) => TokensExact(left)
    BY <1>3, <1>7 DEF TokensExact, InState
  <2>2. TokensExact(left) => TokensExact(Begun(left, c, s, record))
    BY <1>6, <1>9, <1>11, BeginExact
  <2> QED BY <1>2, <1>3, <2>1, <2>2
<1>15. r.tombstones = left.tombstones
  BY <1>2, <1>3, <1>6, BegunRest
<1> QED BY <1>8, <1>10, <1>12, <1>13, <1>14, <1>15

-----------------------------------------------------------------------------
(* A turn runs and ends.                                                   *)

\* A chain that rests is not the one that runs.
LEMMA IdleIsNotRunning ==
  ASSUME NEW ix, NEW rw, NEW sq, NEW act, Agree(ix, rw, sq, act), NEW s \in DOMAIN sq
  PROVE  /\ s \in DOMAIN ix.bySeq /\ ix.bySeq[s] \in DOMAIN ix.records
         /\ ix.records[ix.bySeq[s]].seq = s /\ ix.records[ix.bySeq[s]].state = "active"
         /\ \A c \in DOMAIN ix.records : ix.records[c].seq = s => c = ix.bySeq[s]
         /\ \A c \in InState(ix, "idle") : ix.records[c].seq # s
<1>1. PICK c \in DOMAIN ix.records : ix.records[c].seq = s /\ ix.records[c].state = "active"
  BY DEF Agree, InState
<1>2. ix.bySeq[s] = c /\ s \in DOMAIN ix.bySeq
  BY <1>1 DEF Agree
<1>3. \A d \in DOMAIN ix.records : ix.records[d].seq = s => d = c
  BY <1>2 DEF Agree
<1> QED BY <1>1, <1>2, <1>3 DEF InState

\* A running sequence moves on, and with it its row.
LEMMA RunKeeps ==
  ASSUME NEW ix, NEW rw, NEW sq, NEW act, Consistent(ix, rw, sq, act), NEW s \in DOMAIN sq,
         NEW q, RowsShape(q), DOMAIN q \subseteq DOMAIN rw \cup {s},
         \A t \in DOMAIN rw \ {s} : t \in DOMAIN q /\ q[t] = rw[t],
         NEW seq, TurnExact(ix.records[ix.bySeq[s]].processed, seq, Seen(q, s)),
         NEW sr, DOMAIN sr = DOMAIN sq, \A t \in DOMAIN sq : sr[t] = IF t = s THEN seq ELSE sq[t]
  PROVE  Consistent(ix, q, sr, act)
<1> USE DEF Consistent
<1>1. /\ s \in DOMAIN ix.bySeq
      /\ \A c \in InState(ix, "idle") : ix.records[c].seq # s
  BY IdleIsNotRunning
<1>2. Agree(ix, q, sr, act)
  BY <1>1 DEF Agree
<1>3. IdleExact(ix, q)
  BY <1>1 DEF IdleExact
<1>4. TurnsExact(ix, q, sr)
  <2> SUFFICES ASSUME NEW t \in DOMAIN sr
               PROVE  TurnExact(ix.records[ix.bySeq[t]].processed, sr[t], Seen(q, t))
    BY DEF TurnsExact
  <2>1. CASE t = s
    BY <2>1
  <2>2. CASE t # s
    <3>1. Seen(q, t) = Seen(rw, t) /\ sr[t] = sq[t]
      BY <2>2 DEF Seen
    <3> QED BY <3>1 DEF TurnsExact
  <2> QED BY <2>1, <2>2
<1> QED BY <1>2, <1>3, <1>4

\* r is ix with another record for c, stamped anew.
Rewritten(ix, c, record, r) ==
  /\ DOMAIN r.records = DOMAIN ix.records
  /\ \A d \in DOMAIN ix.records : r.records[d] = IF d = c THEN record ELSE ix.records[d]
  /\ r.bySeq = ix.bySeq
  /\ r.used = Touch(ix.used, DOMAIN ix.records, c)
  /\ r.tombstones = ix.tombstones
  /\ r = [records |-> r.records, bySeq |-> r.bySeq, used |-> r.used,
          tombstones |-> r.tombstones, history |-> r.history]

\* The turn of s ends and its chain rests, worth what its row holds.
LEMMA RestKeeps ==
  ASSUME ChainAssumption, NEW ix, NEW rw, NEW sq, NEW act, Consistent(ix, rw, sq, act),
         NEW s \in DOMAIN sq, s \in DOMAIN rw, NEW c, c = ix.bySeq[s],
         NEW record \in Record, record.state = "idle", record.seq = s,
         record.slots = rw[s].len, record.processed = rw[s].seen,
         NEW r, Rewritten(ix, c, record, r), Counted(r),
         NEW left, DOMAIN left = DOMAIN sq \ {s}, \A t \in DOMAIN left : left[t] = sq[t]
  PROVE  Consistent(r, rw, left, act \ {s})
<1> USE DEF Consistent
<1>1. /\ s \in DOMAIN ix.bySeq /\ c \in DOMAIN ix.records
      /\ ix.records[c].seq = s /\ ix.records[c].state = "active"
      /\ \A d \in DOMAIN ix.records : ix.records[d].seq = s => d = c
      /\ \A d \in InState(ix, "idle") : ix.records[d].seq # s
  BY IdleIsNotRunning
<1>2. /\ DOMAIN r.records = DOMAIN ix.records
      /\ \A d \in DOMAIN ix.records : r.records[d] = IF d = c THEN record ELSE ix.records[d]
      /\ r.bySeq = ix.bySeq
  BY DEF Rewritten
<1>3. Shape(r)
  BY <1>2 DEF Shape, Rewritten
<1>4. Agree(r, rw, left, act \ {s})
  <2>1. \A d \in DOMAIN ix.records : r.records[d].seq = ix.records[d].seq
    BY <1>1, <1>2
  <2>2. DOMAIN r.bySeq = {r.records[d].seq : d \in DOMAIN r.records}
    BY <1>2, <2>1 DEF Agree
  <2>3. \A d \in DOMAIN r.records : r.bySeq[r.records[d].seq] = d
    BY <1>2, <2>1 DEF Agree
  <2>4. \A d \in DOMAIN ix.records : d \in InState(r, "active") <=> d \in InState(ix, "active") /\ d # c
    BY <1>1, <1>2 DEF InState
  <2>5. act \ {s} = {r.records[d].seq : d \in InState(r, "active")}
    <3>1. act = {ix.records[d].seq : d \in InState(ix, "active")}
      BY DEF Agree
    <3>2. \A d \in InState(r, "active") : d \in DOMAIN ix.records
      BY <1>2 DEF InState
    <3>3. \A d \in InState(ix, "active") : d \in DOMAIN ix.records
      BY DEF InState
    <3> QED BY <1>1, <2>1, <2>4, <3>1, <3>2, <3>3
  <2>6. DOMAIN left = act \ {s} /\ DOMAIN rw \subseteq DOMAIN r.bySeq
    BY <1>2 DEF Agree
  <2> QED BY <2>2, <2>3, <2>5, <2>6 DEF Agree
<1>5. Stamped(r)
  <2>1. DOMAIN ix.records \cup {c} = DOMAIN r.records
    BY <1>1, <1>2
  <2>2. Orders(r.used, DOMAIN r.records)
    BY <2>1, TouchOrders DEF Stamped, Rewritten
  <2> QED BY <1>2, <2>2 DEF Stamped, Rewritten
<1>6. IdleExact(r, rw)
  BY <1>1, <1>2 DEF IdleExact, InState
<1>7. TurnsExact(r, rw, left)
  <2> SUFFICES ASSUME NEW t \in DOMAIN left
               PROVE  TurnExact(r.records[r.bySeq[t]].processed, left[t], Seen(rw, t))
    BY DEF TurnsExact
  <2>1. t \in DOMAIN sq /\ t # s /\ left[t] = sq[t]
    OBVIOUS
  <2>2. ix.bySeq[t] \in DOMAIN ix.records /\ ix.records[ix.bySeq[t]].seq = t
    BY <2>1, IdleIsNotRunning
  <2>3. r.records[r.bySeq[t]] = ix.records[ix.bySeq[t]]
    BY <1>1, <1>2, <2>1, <2>2
  <2> QED BY <2>1, <2>3 DEF TurnsExact
<1> QED BY <1>3, <1>4, <1>5, <1>6, <1>7

\* The row of s after n more tokens.
LEMMA GrowRow ==
  ASSUME NEW rw, RowsShape(rw), NEW s, NEW n, n \in Nat, NEW q, q = Grow(rw, s, n)
  PROVE  /\ DOMAIN q = DOMAIN rw \cup {s}
         /\ RowsShape(q)
<1>1. PICK old : old = IF s \in DOMAIN rw THEN rw[s] ELSE [len |-> Nothing, seen |-> 0]
  OBVIOUS
<1>2. PICK new : new = [len |-> [l \in Layers |-> old.len[l] + n], seen |-> old.seen + n]
  OBVIOUS
<1>3. q = With(rw, s, new)
  BY <1>1, <1>2 DEF Grow
<1>4. old \in [len : [Layers -> Nat], seen : Nat]
  BY <1>1 DEF RowsShape, Nothing
<1>5. new \in [len : [Layers -> Nat], seen : Nat]
  BY <1>2, <1>4
<1>6. DOMAIN q = DOMAIN rw \cup {s} /\ \A t \in DOMAIN q : q[t] = IF t = s THEN new ELSE rw[t]
  BY <1>3 DEF With
<1> QED BY <1>5, <1>6 DEF RowsShape

LEMMA GrowOthers ==
  ASSUME NEW rw, NEW s, NEW n
  PROVE  \A t \in DOMAIN rw : t # s => Grow(rw, s, n)[t] = rw[t]
  BY DEF Grow, With

LEMMA GrowSeen ==
  ASSUME NEW rw, NEW s, NEW n
  PROVE  Grow(rw, s, n)[s].seen = Seen(rw, s) + n
  BY DEF Grow, With, Seen

\* Compaction shortens the row of s; what it has seen stays.
LEMMA CompactRow ==
  ASSUME ChainAssumption, NEW rw, RowsShape(rw), NEW s \in DOMAIN rw, NEW q, q = Compact(rw, s)
  PROVE  /\ DOMAIN q = DOMAIN rw
         /\ RowsShape(q)
         /\ \A t \in DOMAIN rw \ {s} : q[t] = rw[t]
         /\ q[s].seen = rw[s].seen
<1>1. PICK short : short = [l \in Layers |-> Smaller(rw[s].len[l], Budget[l])]
  OBVIOUS
<1>2. q = [rw EXCEPT ![s] = [@ EXCEPT !.len = short]]
  BY <1>1 DEF Compact
<1>3. rw[s] \in [len : [Layers -> Nat], seen : Nat]
  BY DEF RowsShape
<1>4. short \in [Layers -> Nat]
  BY <1>1, <1>3 DEF Smaller, ChainAssumption
<1>5. DOMAIN q = DOMAIN rw /\ \A t \in DOMAIN rw : t # s => q[t] = rw[t]
  BY <1>2
<1>6. q[s] = [rw[s] EXCEPT !.len = short]
  BY <1>2
<1>7. q[s] \in [len : [Layers -> Nat], seen : Nat] /\ q[s].seen = rw[s].seen
  BY <1>3, <1>4, <1>6
<1> QED BY <1>3, <1>5, <1>7 DEF RowsShape

\* The record of a chain that rests with n tokens, tokens of them remembered.
Rested(record, len, n, tokens) ==
  [seq |-> record.seq, state |-> "idle", processed |-> n - 1, tokens |-> tokens,
   slots |-> len, reserved |-> Nothing, reservedRows |-> 0]

\* chain_finish rewrites one record and keeps the total, ...
LEMMA FinishRewrites ==
  ASSUME NEW ix, Shape(ix), NEW rw, NEW s, NEW n, NEW c \in DOMAIN ix.records, c = ix.bySeq[s],
         NEW r, r = FinishTurn(ix, rw, s, n)
  PROVE  /\ Rewritten(ix, c, Rested(ix.records[c], rw[s].len, n, ix.records[c].tokens), r)
         /\ r.history = ix.history
<1>1. PICK record : record = Rested(ix.records[c], rw[s].len, n, ix.records[c].tokens)
  OBVIOUS
<1>2. PICK rec : rec = [ix.records EXCEPT ![c] =
                     [@ EXCEPT !.state = "idle", !.processed = n - 1, !.slots = rw[s].len,
                               !.reserved = Nothing, !.reservedRows = 0]]
  OBVIOUS
<1>3. r = [ix EXCEPT !.records = rec, !.used = Touch(@, DOMAIN ix.records, c)]
  BY <1>2 DEF FinishTurn, Boundary, Shape
<1>4. DOMAIN rec = DOMAIN ix.records /\ \A d \in DOMAIN ix.records : d # c => rec[d] = ix.records[d]
  BY <1>2
<1>5. ix.records[c] \in Record
  BY DEF Shape
<1>6. rec[c] = record
  BY <1>1, <1>2, <1>5 DEF Rested, Record
<1>7. /\ r.records = rec /\ r.bySeq = ix.bySeq /\ r.tombstones = ix.tombstones
      /\ r.history = ix.history
  BY <1>3 DEF Shape
<1>8. r.used = Touch(ix.used, DOMAIN ix.records, c)
  BY <1>3 DEF Shape
<1>9. r = [records |-> r.records, bySeq |-> r.bySeq, used |-> r.used,
           tombstones |-> r.tombstones, history |-> r.history]
  BY <1>3 DEF Shape
<1>10. Rewritten(ix, c, record, r)
  BY <1>4, <1>6, <1>7, <1>8, <1>9 DEF Rewritten
<1> QED BY <1>1, <1>7, <1>10

\* ... and remember_processed_tokens replaces the tokens and adjusts the total.
LEMMA RememberRewrites ==
  ASSUME NEW ix, Shape(ix), NEW rw, NEW s, NEW n, NEW c \in DOMAIN ix.records, c = ix.bySeq[s],
         NEW r, r = Remember(FinishTurn(ix, rw, s, n), s, n)
  PROVE  /\ Rewritten(ix, c, Rested(ix.records[c], rw[s].len, n, n), r)
         /\ r.history = ix.history - ix.records[c].tokens + n
<1>1. PICK f : f = FinishTurn(ix, rw, s, n)
  OBVIOUS
<1>2. PICK record : record = Rested(ix.records[c], rw[s].len, n, ix.records[c].tokens)
  OBVIOUS
<1>3. Rewritten(ix, c, record, f) /\ f.history = ix.history
  BY <1>1, <1>2, FinishRewrites
<1>4. /\ DOMAIN f.records = DOMAIN ix.records
      /\ \A d \in DOMAIN ix.records : f.records[d] = IF d = c THEN record ELSE ix.records[d]
      /\ f.bySeq = ix.bySeq
  BY <1>3 DEF Rewritten
<1>5. f = [records |-> f.records, bySeq |-> f.bySeq, used |-> f.used,
           tombstones |-> f.tombstones, history |-> f.history]
  BY <1>3 DEF Rewritten
<1>6. PICK rec : rec = [f.records EXCEPT ![c].tokens = n]
  OBVIOUS
<1>7. r = [f EXCEPT !.records = rec, !.history = @ - f.records[c].tokens + n]
  BY <1>1, <1>4, <1>5, <1>6 DEF Remember
<1>8. DOMAIN rec = DOMAIN ix.records /\ \A d \in DOMAIN ix.records : d # c => rec[d] = ix.records[d]
  BY <1>4, <1>6
<1>9. PICK new : new = Rested(ix.records[c], rw[s].len, n, n)
  OBVIOUS
<1>10. rec[c] = new
  BY <1>2, <1>4, <1>6, <1>9 DEF Rested
<1>11. /\ r.records = rec /\ r.bySeq = f.bySeq /\ r.tombstones = f.tombstones /\ r.used = f.used
       /\ r.history = f.history - f.records[c].tokens + n
  BY <1>5, <1>7
<1>12. r = [records |-> r.records, bySeq |-> r.bySeq, used |-> r.used,
            tombstones |-> r.tombstones, history |-> r.history]
  BY <1>5, <1>7
<1>13. f.records[c].tokens = ix.records[c].tokens
  BY <1>2, <1>4 DEF Rested
<1>14. r.bySeq = ix.bySeq /\ r.tombstones = ix.tombstones
  BY <1>3, <1>11 DEF Rewritten
<1>15. r.used = Touch(ix.used, DOMAIN ix.records, c)
  BY <1>3, <1>11 DEF Rewritten
<1>16. Rewritten(ix, c, new, r)
  BY <1>8, <1>10, <1>11, <1>12, <1>14, <1>15 DEF Rewritten
<1>17. r.history = ix.history - ix.records[c].tokens + n
  BY <1>3, <1>11, <1>13
<1> QED BY <1>9, <1>16, <1>17

\* The total follows a record whose tokens change.
LEMMA RewriteCounted ==
  ASSUME ChainAssumption, NEW ix, Shape(ix), Counted(ix), NEW c \in DOMAIN ix.records,
         NEW record, record.tokens \in Nat, NEW r, Rewritten(ix, c, record, r),
         r.history = ix.history - ix.records[c].tokens + record.tokens
  PROVE  Counted(r)
<1> DEFINE S == DOMAIN ix.records
           f == [d \in S |-> ix.records[d].tokens]
           g == [d \in S |-> r.records[d].tokens]
<1>1. DOMAIN r.records = S /\ \A d \in S : r.records[d] = IF d = c THEN record ELSE ix.records[d]
  BY DEF Rewritten
<1>2. IsFiniteSet(S)
  BY IdsFinite DEF Shape
<1>3. \A d \in S : f[d] \in Nat /\ f[d] = ix.records[d].tokens
  BY DEF Shape, Record
<1>4. \A d \in S : g[d] = r.records[d].tokens
  OBVIOUS
<1>5. g[c] = record.tokens /\ \A d \in S \ {c} : g[d] = f[d]
  BY <1>1
<1> HIDE DEF f, g
<1>6. \A d \in S : g[d] \in Int /\ f[d] \in Int
  BY <1>3, <1>5
<1>7. HistoryOf(ix, S) = Cardinality(Cells(S, f)) /\ HistoryOf(r, S) = Cardinality(Cells(S, g))
  BY <1>3, <1>4, HistoryIsCells
<1>8. Cardinality(Cells(S, g)) = Cardinality(Cells(S, f)) + g[c] - f[c]
  BY <1>2, <1>3, <1>5, <1>6, OneSummand
<1>9. Cardinality(Cells(S, f)) \in Nat
  BY <1>2, <1>6, CellsFinite
<1> QED BY <1>1, <1>3, <1>5, <1>7, <1>8, <1>9 DEF Counted

\* chain_finish without the tokens: the chain rests all the same.
LEMMA FinishKeeps ==
  ASSUME ChainAssumption, NEW ix, NEW rw, NEW sq, NEW act, Consistent(ix, rw, sq, act),
         NEW s \in DOMAIN sq, s \in DOMAIN rw, NEW n \in Nat, n >= 1, rw[s].seen = n - 1,
         NEW left, DOMAIN left = DOMAIN sq \ {s}, \A t \in DOMAIN left : left[t] = sq[t]
  PROVE  /\ Consistent(FinishTurn(ix, rw, s, n), rw, left, act \ {s})
         /\ Consistent(Remember(FinishTurn(ix, rw, s, n), s, n), rw, left, act \ {s})
         /\ TokensExact(ix) => TokensExact(Remember(FinishTurn(ix, rw, s, n), s, n))
<1>0. Shape(ix) /\ RowsShape(rw) /\ Agree(ix, rw, sq, act) /\ Counted(ix)
  BY DEF Consistent
<1>1. PICK c : c = ix.bySeq[s]
  OBVIOUS
<1>2. c \in DOMAIN ix.records /\ ix.records[c].seq = s /\ ix.records[c] \in Record
  BY <1>0, <1>1, IdleIsNotRunning DEF Shape
<1>3. rw[s].len \in [Layers -> Nat]
  BY <1>0 DEF RowsShape
<1>4. ASSUME NEW m \in Nat
      PROVE  LET record == Rested(ix.records[c], rw[s].len, n, m)
             IN  /\ record \in Record /\ record.state = "idle" /\ record.seq = s
                 /\ record.slots = rw[s].len /\ record.processed = rw[s].seen
                 /\ record.tokens = m
  <2>1. Nothing \in [Layers -> Nat] /\ n - 1 \in Nat
    BY DEF Nothing
  <2> QED BY <1>2, <1>3, <2>1 DEF Rested, Record
<1>5. PICK old : old = Rested(ix.records[c], rw[s].len, n, ix.records[c].tokens)
  OBVIOUS
<1>6. PICK new : new = Rested(ix.records[c], rw[s].len, n, n)
  OBVIOUS
<1>7. ix.records[c].tokens \in Nat
  BY <1>2 DEF Record
<1>8. /\ old \in Record /\ old.state = "idle" /\ old.seq = s /\ old.slots = rw[s].len
      /\ old.processed = rw[s].seen /\ old.tokens = ix.records[c].tokens
  BY <1>4, <1>5, <1>7
<1>9. /\ new \in Record /\ new.state = "idle" /\ new.seq = s /\ new.slots = rw[s].len
      /\ new.processed = rw[s].seen /\ new.tokens = n
  BY <1>4, <1>6
<1>10. PICK f : f = FinishTurn(ix, rw, s, n)
  OBVIOUS
<1>11. PICK r : r = Remember(FinishTurn(ix, rw, s, n), s, n)
  OBVIOUS
<1>12. Rewritten(ix, c, old, f) /\ f.history = ix.history
  BY <1>0, <1>1, <1>2, <1>5, <1>10, FinishRewrites
<1>13. Rewritten(ix, c, new, r) /\ r.history = ix.history - ix.records[c].tokens + n
  BY <1>0, <1>1, <1>2, <1>6, <1>11, RememberRewrites
<1>14. Consistent(f, rw, left, act \ {s})
  <2>1. ix.history \in Int
    <3>1. IsFiniteSet(DOMAIN ix.records)
      BY <1>0, IdsFinite DEF Shape
    <3> DEFINE g == [d \in DOMAIN ix.records |-> ix.records[d].tokens]
    <3>2. \A d \in DOMAIN ix.records : g[d] \in Int /\ g[d] = ix.records[d].tokens
      BY <1>0 DEF Shape, Record
    <3> HIDE DEF g
    <3>3. Cardinality(Cells(DOMAIN ix.records, g)) \in Nat
      BY <3>1, <3>2, CellsFinite
    <3> QED BY <1>0, <3>2, <3>3, HistoryIsCells DEF Counted
  <2>2. f.history = ix.history - ix.records[c].tokens + old.tokens
    BY <1>7, <1>8, <1>12, <2>1
  <2>3. Counted(f)
    BY <1>0, <1>2, <1>7, <1>8, <1>12, <2>2, RewriteCounted
  <2> QED BY <1>1, <1>8, <1>12, <2>3, RestKeeps
<1>15. Consistent(r, rw, left, act \ {s})
  <2>1. Counted(r)
    BY <1>0, <1>2, <1>9, <1>13, RewriteCounted
  <2> QED BY <1>1, <1>9, <1>13, <2>1, RestKeeps
<1>16. TokensExact(ix) => TokensExact(r)
  BY <1>2, <1>9, <1>13 DEF TokensExact, InState, Rewritten
<1> QED BY <1>10, <1>11, <1>14, <1>15, <1>16

-----------------------------------------------------------------------------
(* The invariant is kept.                                                  *)

\* The end of a step of s, whose row and turn have moved on.
LEMMA CompleteKeeps ==
  ASSUME ChainAssumption, ChainInv, Running, NEW s \in DOMAIN seqs,
         NEW rw, RowsShape(rw), DOMAIN rw = DOMAIN rows \cup {s},
         \A t \in DOMAIN rows \ {s} : rw[t] = rows[t],
         NEW seq, TurnExact(index.records[index.bySeq[s]].processed, seq, rw[s].seen),
         NEW sampled, sampled => rw[s].seen = seq.prompt + seq.completion - 1, NEW eos,
         rows' = rw, Complete(s, seq, rw, sampled, eos), nextId' = nextId
  PROVE  /\ ChainInv'
         /\ \/ index' = index
            \/ /\ DOMAIN index'.records = DOMAIN index.records
               /\ index.records[index.bySeq[s]].state = "active"
               /\ index'.records[index.bySeq[s]].state = "idle"
               /\ \A d \in DOMAIN index.records : d # index.bySeq[s] => index'.records[d] = index.records[d]
<1>0. /\ Consistent(index, rows, seqs, active) /\ Issued(index, nextId) /\ TokensExact(index)
      /\ nextId \in 1..(MaxChains + 1) /\ raised = "none"
  BY DEF ChainInv, Running
<1>1. PICK sr : sr = [seqs EXCEPT ![s] = seq]
  OBVIOUS
<1>2. DOMAIN sr = DOMAIN seqs /\ \A t \in DOMAIN seqs : sr[t] = IF t = s THEN seq ELSE seqs[t]
  BY <1>1
<1>3. Seen(rw, s) = rw[s].seen
  BY DEF Seen
<1>4. Consistent(index, rw, sr, active)
  <2>1. /\ DOMAIN rw \subseteq DOMAIN rows \cup {s}
        /\ \A t \in DOMAIN rows \ {s} : t \in DOMAIN rw /\ rw[t] = rows[t]
    OBVIOUS
  <2> QED BY <1>0, <1>2, <1>3, <2>1, RunKeeps
<1>5. CASE ~(sampled /\ Ends(seq, eos))
  <2>1. index' = index /\ seqs' = sr /\ active' = active /\ raised' = raised
    BY <1>1, <1>5 DEF Complete
  <2> QED BY <1>0, <1>4, <2>1 DEF ChainInv
<1>6. CASE sampled /\ Ends(seq, eos)
  <2>1. PICK n : n = seq.prompt + seq.completion
    OBVIOUS
  <2>2. PICK c : c = index.bySeq[s]
    OBVIOUS
  <2>3. PICK error : error = FinishError(index, rw, s, n)
    OBVIOUS
  <2>4. /\ seqs' = Without(seqs, {s}) /\ active' = active \ {s} /\ raised' = error
        /\ error = "none" => index' = Remember(FinishTurn(index, rw, s, n), s, n)
        /\ error = "history full" => index' = FinishTurn(index, rw, s, n)
    BY <1>6, <2>1, <2>3 DEF Complete
  <2>5. /\ Shape(index) /\ s \in DOMAIN index.bySeq /\ c \in DOMAIN index.records
        /\ index.records[c].seq = s /\ index.records[c].state = "active"
    BY <1>0, <2>2, IdleIsNotRunning DEF Consistent
  <2>6. /\ n \in Nat /\ n >= 1 /\ rw[s].seen = n - 1 /\ index.records[c].processed <= n - 1
        /\ index.records[c].processed \in Nat
    <3>1. seq.prompt \in Nat /\ seq.completion \in Nat
      BY DEF TurnExact, Turn
    <3>2. index.records[c].processed < seq.prompt /\ index.records[c].processed \in Nat
      BY <2>2, <2>5 DEF TurnExact, Shape, Record
    <3>3. rw[s].seen = seq.prompt + seq.completion - 1
      BY <1>6
    <3> QED BY <2>1, <3>1, <3>2, <3>3
  <2>7. error \in {"none", "history full"}
    <3>1. s \in DOMAIN rw /\ ~(Boundary(n) < index.records[c].processed)
      BY <2>6 DEF Boundary
    <3>2. error = IF index.history - index.records[c].tokens + n > HistoryCapacity
                  THEN "history full" ELSE "none"
      BY <2>2, <2>3, <2>5, <3>1 DEF FinishError
    <3> QED BY <3>2
  <2>8. PICK left : left = Without(seqs, {s})
    OBVIOUS
  <2>9. DOMAIN left = DOMAIN sr \ {s} /\ \A t \in DOMAIN left : left[t] = sr[t]
    BY <1>2, <2>8 DEF Without, Restrict
  <2>10. /\ Consistent(FinishTurn(index, rw, s, n), rw, left, active \ {s})
         /\ Consistent(Remember(FinishTurn(index, rw, s, n), s, n), rw, left, active \ {s})
         /\ TokensExact(Remember(FinishTurn(index, rw, s, n), s, n))
    <3>1. s \in DOMAIN sr /\ s \in DOMAIN rw
      BY <1>2
    <3> QED BY <1>0, <1>4, <2>6, <2>9, <3>1, FinishKeeps
  <2>11. PICK record : /\ Rewritten(index, c, record, index')
                       /\ record.seq = s /\ record.state = "idle"
    <3>1. CASE error = "none"
      <4>1. PICK new : new = Rested(index.records[c], rw[s].len, n, n)
        OBVIOUS
      <4>2. Rewritten(index, c, new, index')
        BY <2>2, <2>4, <2>5, <3>1, <4>1, RememberRewrites
      <4>3. new.seq = s /\ new.state = "idle"
        BY <2>5, <4>1 DEF Rested
      <4> QED BY <4>2, <4>3
    <3>2. CASE error = "history full"
      <4>1. PICK old : old = Rested(index.records[c], rw[s].len, n, index.records[c].tokens)
        OBVIOUS
      <4>2. Rewritten(index, c, old, index')
        BY <2>2, <2>4, <2>5, <3>2, <4>1, FinishRewrites
      <4>3. old.seq = s /\ old.state = "idle"
        BY <2>5, <4>1 DEF Rested
      <4> QED BY <4>2, <4>3
    <3> QED BY <2>7, <3>1, <3>2
  <2>12. /\ DOMAIN index'.records = DOMAIN index.records
         /\ \A d \in DOMAIN index.records :
              index'.records[d] = IF d = c THEN record ELSE index.records[d]
         /\ index'.tombstones = index.tombstones
    BY <2>11 DEF Rewritten
  <2>13. Issued(index, nextId)'
    <3>1. \A d \in DOMAIN index'.records : d < nextId /\ index'.records[d].seq < nextId
      BY <1>0, <2>5, <2>11, <2>12 DEF Issued
    <3> QED BY <1>0, <2>12, <3>1 DEF Issued, Ids
  <2>14. Consistent(index', rows', seqs', active')
    BY <2>4, <2>7, <2>8, <2>10
  <2>15. raised' # "history full" => TokensExact(index')
    BY <2>4, <2>7, <2>10
  <2>16. raised' \in Reasons
    BY <2>4, <2>7 DEF Reasons
  <2>17. Consistent(index, rows, seqs, active)' /\ TokensExact(index)' = TokensExact(index')
    BY <2>14
  <2>18. ChainInv'
    BY <1>0, <2>13, <2>15, <2>16, <2>17 DEF ChainInv
  <2> QED BY <2>2, <2>5, <2>11, <2>12, <2>18
<1> QED BY <1>5, <1>6

\* A chain that rests or a turn that runs: what a step may do to the records.
Rests(c) ==
  /\ c \in DOMAIN index.records
  /\ DOMAIN index'.records = DOMAIN index.records
  /\ index.records[c].state = "active" /\ index'.records[c].state = "idle"
  /\ \A d \in DOMAIN index.records : d # c => index'.records[d] = index.records[d]

\* What a step asks of the turn it runs.
Moves(old, new, sampled) ==
  /\ new.prompt = old.prompt /\ new.maxTokens = old.maxTokens
  /\ old.prefilled <= new.prefilled
  /\ old.replay = NoReplay => new.replay = NoReplay
  /\ new.completion = IF sampled THEN old.completion + 1 ELSE old.completion

\* The sequence s ran and became seq over rw.
Ran(s, seq, rw, sampled, eos) ==
  /\ RowsShape(rw) /\ DOMAIN rw = DOMAIN rows \cup {s}
  /\ \A t \in DOMAIN rows \ {s} : rw[t] = rows[t]
  /\ TurnExact(index.records[index.bySeq[s]].processed, seq, rw[s].seen)
  /\ sampled => rw[s].seen = seq.prompt + seq.completion - 1
  /\ \E n \in Nat : rw = Grow(rows, s, n) \/ rw = Compact(Grow(rows, s, n), s)
  /\ Moves(seqs[s], seq, sampled)
  /\ rows' = rw /\ Complete(s, seq, rw, sampled, eos)

LEMMA RanKeeps ==
  ASSUME ChainAssumption, ChainInv, Running, NEW s \in DOMAIN seqs, NEW seq, NEW rw, NEW sampled,
         NEW eos, Ran(s, seq, rw, sampled, eos), nextId' = nextId
  PROVE  ChainInv' /\ (index' = index \/ \E c \in Ids : Rests(c))
<1>1. /\ RowsShape(rw) /\ DOMAIN rw = DOMAIN rows \cup {s}
      /\ \A t \in DOMAIN rows \ {s} : rw[t] = rows[t]
      /\ TurnExact(index.records[index.bySeq[s]].processed, seq, rw[s].seen)
      /\ sampled => rw[s].seen = seq.prompt + seq.completion - 1
      /\ rows' = rw /\ Complete(s, seq, rw, sampled, eos)
  BY DEF Ran
<1>2. /\ ChainInv'
      /\ \/ index' = index
         \/ /\ DOMAIN index'.records = DOMAIN index.records
            /\ index.records[index.bySeq[s]].state = "active"
            /\ index'.records[index.bySeq[s]].state = "idle"
            /\ \A d \in DOMAIN index.records : d # index.bySeq[s] => index'.records[d] = index.records[d]
  BY <1>1, CompleteKeeps
<1>3. index.bySeq[s] \in DOMAIN index.records /\ DOMAIN index.records \subseteq Ids
  BY IdleIsNotRunning DEF ChainInv, Consistent, Shape
<1> QED BY <1>2, <1>3 DEF Rests

LEMMA PrefillRuns ==
  ASSUME ChainAssumption, ChainInv, NEW s \in DOMAIN seqs, NEW k \in 1..ChunkSize, NEW eos,
         PrefillStep(s, k, eos)
  PROVE  \E seq, rw, sampled : Ran(s, seq, rw, sampled, eos)
<1>0. /\ Consistent(index, rows, seqs, active) /\ Running /\ s \in Queued("waiting")
      /\ k <= seqs[s].prompt - seqs[s].prefilled /\ nextId' = nextId
  BY DEF ChainInv, PrefillStep, CanPrefill
<1>1. PICK old : old = seqs[s]
  OBVIOUS
<1>2. PICK p : p = index.records[index.bySeq[s]].processed
  OBVIOUS
<1>3. TurnExact(p, old, Seen(rows, s)) /\ old.queue = "waiting"
  BY <1>0, <1>1, <1>2 DEF Consistent, TurnsExact, Queued
<1>4. old \in Turn /\ k \in Nat /\ k >= 1
  BY <1>3 DEF TurnExact, ChainAssumption
<1>5. PICK seq : seq = [old EXCEPT !.prefilled = @ + k]
  OBVIOUS
<1>6. PICK last \in BOOLEAN : last = (seq.prefilled = seq.prompt)
  OBVIOUS
<1>7. PICK sampled \in BOOLEAN : sampled = (last /\ seq.replay = NoReplay)
  OBVIOUS
<1>8. PICK grown : grown = Grow(rows, s, k)
  OBVIOUS
<1>9. PICK rw : rw = IF last THEN Compact(grown, s) ELSE grown
  OBVIOUS
<1>10. PICK done : done = [seq EXCEPT !.queue = IF last THEN "decoding" ELSE @,
                                      !.completion = IF sampled THEN @ + 1 ELSE @,
                                      !.replay = IF last /\ @ = 0 THEN NoReplay ELSE @]
  OBVIOUS
<1>11. rows' = rw /\ Complete(s, done, rw, sampled, eos)
  BY <1>1, <1>5, <1>6, <1>7, <1>8, <1>9, <1>10 DEF PrefillStep
<1>12. RowsShape(rows)
  BY <1>0 DEF Consistent
<1>13. /\ DOMAIN grown = DOMAIN rows \cup {s} /\ RowsShape(grown)
       /\ \A t \in DOMAIN rows \ {s} : grown[t] = rows[t]
       /\ grown[s].seen = Seen(rows, s) + k
  <2>1. /\ DOMAIN grown = DOMAIN rows \cup {s} /\ RowsShape(grown)
        /\ \A t \in DOMAIN rows \ {s} : grown[t] = rows[t]
    <3>1. \A t \in DOMAIN rows : t # s => grown[t] = rows[t]
      BY <1>8, GrowOthers
    <3>2. DOMAIN grown = DOMAIN rows \cup {s} /\ RowsShape(grown)
      BY <1>4, <1>8, <1>12, GrowRow
    <3> QED BY <3>1, <3>2
  <2>2. grown[s].seen = Seen(rows, s) + k
    BY <1>8, GrowSeen
  <2> QED BY <2>1, <2>2
<1>14. /\ DOMAIN rw = DOMAIN rows \cup {s} /\ RowsShape(rw)
       /\ \A t \in DOMAIN rows \ {s} : rw[t] = rows[t]
       /\ rw[s].seen = Seen(rows, s) + k
  <2>1. CASE last
    <3>1. /\ DOMAIN rw = DOMAIN grown /\ RowsShape(rw)
          /\ \A t \in DOMAIN grown \ {s} : rw[t] = grown[t]
          /\ rw[s].seen = grown[s].seen
      BY <1>9, <1>13, <2>1, CompactRow
    <3> QED BY <1>13, <3>1
  <2>2. CASE ~last
    BY <1>9, <1>13, <2>2
  <2> QED BY <2>1, <2>2
<1>15. /\ seq.prompt = old.prompt /\ seq.prefilled = old.prefilled + k
       /\ seq.completion = old.completion /\ seq.replay = old.replay
       /\ seq.maxTokens = old.maxTokens /\ seq.queue = "waiting"
       /\ DOMAIN seq = DOMAIN old
  BY <1>3, <1>4, <1>5 DEF Turn
<1>16. /\ old.prompt \in Nat /\ old.prefilled \in Nat /\ old.completion \in Nat
       /\ old.maxTokens \in Nat /\ old.replay \in Nat \cup {-1}
  BY <1>4 DEF Turn, NoReplay
<1>17. seq \in Turn
  BY <1>4, <1>5, <1>16 DEF Turn
<1>18. /\ done.prompt = old.prompt /\ done.prefilled = old.prefilled + k
       /\ done.maxTokens = old.maxTokens
       /\ done.queue = (IF last THEN "decoding" ELSE "waiting")
       /\ done.completion = (IF sampled THEN old.completion + 1 ELSE old.completion)
       /\ done.replay = (IF last /\ old.replay = 0 THEN NoReplay ELSE old.replay)
  BY <1>10, <1>15, <1>17 DEF Turn
<1>19. done \in Turn
  <2>1. PICK q : q = IF last THEN "decoding" ELSE "waiting"
    OBVIOUS
  <2>2. PICK m : m = IF sampled THEN old.completion + 1 ELSE old.completion
    OBVIOUS
  <2>3. PICK r : r = IF last /\ old.replay = 0 THEN NoReplay ELSE old.replay
    OBVIOUS
  <2>4. done = [seq EXCEPT !.queue = q, !.completion = m, !.replay = r]
    BY <1>10, <1>15, <2>1, <2>2, <2>3
  <2>5. q \in {"waiting", "decoding"} /\ m \in Nat /\ r \in Nat \cup {NoReplay}
    BY <1>16, <2>1, <2>2, <2>3 DEF NoReplay
  <2> QED BY <1>17, <2>4, <2>5 DEF Turn
<1>20. old.prefilled + k <= old.prompt /\ p < old.prompt /\ Seen(rows, s) = old.prefilled
  BY <1>0, <1>1, <1>3, <1>4, <1>16 DEF TurnExact
<1>21. PICK n : n = rw[s].seen
  OBVIOUS
<1>22. n = old.prefilled + k
  BY <1>14, <1>20, <1>21
<1>23. /\ old.replay = -1 => old.completion = 0
       /\ old.replay # -1 => old.completion >= 1 /\ old.replay = old.completion - 1
  BY <1>3 DEF TurnExact, NoReplay
<1>24. last <=> old.prefilled + k = old.prompt
  BY <1>6, <1>15
<1>25. sampled <=> last /\ old.replay = -1
  BY <1>7, <1>15 DEF NoReplay
<1>26. TurnExact(p, done, n) /\ (sampled => n = done.prompt + done.completion - 1)
  <2>1. CASE ~last
    <3>1. /\ done.queue = "waiting" /\ done.completion = old.completion /\ done.replay = old.replay
          /\ done.prefilled < done.prompt /\ n = done.prefilled
      BY <1>4, <1>16, <1>18, <1>20, <1>22, <1>24, <1>25, <2>1
    <3>2. ~sampled /\ done.queue # "decoding" /\ p < done.prompt /\ done.prefilled <= done.prompt
      BY <1>4, <1>16, <1>18, <1>20, <1>25, <2>1, <3>1
    <3> QED BY <1>19, <1>23, <3>1, <3>2 DEF TurnExact, NoReplay
  <2>2. CASE last /\ old.replay = -1
    <3>1. /\ done.queue = "decoding" /\ done.completion = 1 /\ done.replay = -1
          /\ n = done.prompt /\ done.prefilled = done.prompt
      BY <1>16, <1>18, <1>22, <1>23, <1>24, <1>25, <2>2 DEF NoReplay
    <3>2. done.prompt \in Nat /\ p < done.prompt /\ done.queue # "waiting"
      BY <1>16, <1>18, <1>20, <3>1
    <3> QED BY <1>19, <3>1, <3>2 DEF TurnExact, NoReplay, Larger
  <2>3. CASE last /\ old.replay # -1
    <3>1. /\ done.queue = "decoding" /\ done.completion = old.completion /\ ~sampled
          /\ n = done.prompt /\ done.prefilled = done.prompt /\ p < done.prompt
          /\ done.prompt \in Nat /\ done.queue # "waiting"
      BY <1>16, <1>18, <1>20, <1>22, <1>24, <1>25, <2>3
    <3>2. /\ old.completion >= 1 /\ old.completion \in Nat /\ old.replay = old.completion - 1
          /\ done.replay = IF old.replay = 0 THEN -1 ELSE old.replay
      BY <1>16, <1>18, <1>23, <2>3 DEF NoReplay
    <3>3. done.replay # 0 /\ Larger(0, done.replay) = done.completion - 1
      BY <3>1, <3>2 DEF Larger
    <3> QED BY <1>19, <3>1, <3>2, <3>3 DEF TurnExact
  <2> QED BY <2>1, <2>2, <2>3
<1>27. Moves(old, done, sampled)
  <2>1. old.prefilled <= old.prefilled + k
    BY <1>4, <1>16
  <2>2. old.replay = NoReplay => done.replay = NoReplay
    BY <1>18
  <2> QED BY <1>18, <2>1, <2>2 DEF Moves
<1>28. rw = Grow(rows, s, k) \/ rw = Compact(Grow(rows, s, k), s)
  BY <1>8, <1>9
<1>29. Ran(s, done, rw, sampled, eos)
  BY <1>1, <1>2, <1>4, <1>11, <1>14, <1>21, <1>26, <1>27, <1>28 DEF Ran
<1> QED BY <1>29

LEMMA PrefillStepKeeps ==
  ASSUME ChainAssumption, ChainInv, NEW s \in DOMAIN seqs, NEW k \in 1..ChunkSize, NEW eos,
         PrefillStep(s, k, eos)
  PROVE  ChainInv' /\ (index' = index \/ \E c \in Ids : Rests(c))
<1>1. Running /\ nextId' = nextId
  BY DEF PrefillStep
<1>2. PICK seq, rw, sampled : Ran(s, seq, rw, sampled, eos)
  BY PrefillRuns
<1> QED BY <1>1, <1>2, RanKeeps

LEMMA DecodeRuns ==
  ASSUME ChainAssumption, ChainInv, NEW s \in DOMAIN seqs, NEW eos, DecodeStep(s, eos)
  PROVE  \E seq, rw, sampled : Ran(s, seq, rw, sampled, eos)
<1>0. /\ Consistent(index, rows, seqs, active) /\ Running /\ s \in Queued("decoding")
      /\ nextId' = nextId
  BY DEF ChainInv, DecodeStep
<1>1. PICK old : old = seqs[s]
  OBVIOUS
<1>2. PICK p : p = index.records[index.bySeq[s]].processed
  OBVIOUS
<1>3. TurnExact(p, old, Seen(rows, s)) /\ old.queue = "decoding"
  BY <1>0, <1>1, <1>2 DEF Consistent, TurnsExact, Queued
<1>4. old \in Turn
  BY <1>3 DEF TurnExact
<1>6. PICK rw : rw = Grow(rows, s, 1)
  OBVIOUS
<1>7. PICK seq : seq = IF ~(old.replay > 0) THEN [old EXCEPT !.completion = @ + 1]
                       ELSE [old EXCEPT !.replay = IF @ = 1 THEN NoReplay ELSE @ - 1]
  OBVIOUS
<1>8. rows' = rw /\ Complete(s, seq, rw, ~(old.replay > 0), eos)
  BY <1>1, <1>6, <1>7 DEF DecodeStep
<1>9. RowsShape(rows)
  BY <1>0 DEF Consistent
<1>10. /\ DOMAIN rw = DOMAIN rows \cup {s} /\ RowsShape(rw)
       /\ \A t \in DOMAIN rows \ {s} : rw[t] = rows[t]
       /\ rw[s].seen = Seen(rows, s) + 1
  <2>1. DOMAIN rw = DOMAIN rows \cup {s} /\ RowsShape(rw)
    BY <1>6, <1>9, GrowRow
  <2>2. \A t \in DOMAIN rows : t # s => rw[t] = rows[t]
    BY <1>6, GrowOthers
  <2>3. rw[s].seen = Seen(rows, s) + 1
    BY <1>6, GrowSeen
  <2> QED BY <2>1, <2>2, <2>3
<1>11. /\ old.prompt \in Nat /\ old.prefilled \in Nat /\ old.completion \in Nat
       /\ old.maxTokens \in Nat /\ old.replay \in Nat \cup {-1}
  BY <1>4 DEF Turn, NoReplay
<1>12. /\ old.completion >= 1 /\ old.replay # 0 /\ p < old.prompt /\ old.prefilled <= old.prompt
       /\ Seen(rows, s) = old.prompt + old.completion - 1 - Larger(0, old.replay)
  BY <1>3 DEF TurnExact
<1>13. PICK n : n = rw[s].seen
  OBVIOUS
<1>14. TurnExact(p, seq, n) /\ (~(old.replay > 0) => n = seq.prompt + seq.completion - 1)
  <2>1. CASE ~(old.replay > 0)
    <3>1. seq = [old EXCEPT !.completion = @ + 1]
      BY <1>7, <2>1
    <3>2. seq \in Turn
      BY <1>4, <1>11, <3>1 DEF Turn
    <3>3. /\ seq.prompt = old.prompt /\ seq.completion = old.completion + 1
          /\ seq.prefilled = old.prefilled /\ seq.replay = old.replay /\ seq.queue = "decoding"
      BY <1>3, <1>4, <3>1 DEF Turn
    <3>4. old.replay = -1
      BY <1>11, <1>12, <2>1
    <3>5. n = seq.prompt + seq.completion - 1
      BY <1>10, <1>11, <1>12, <1>13, <3>3, <3>4 DEF Larger
    <3>6. Larger(0, seq.replay) = 0 /\ seq.replay # 0 /\ seq.completion >= 1 /\ p < seq.prompt
      BY <1>11, <1>12, <3>3, <3>4 DEF Larger
    <3>7. /\ seq.queue # "waiting" /\ seq.prefilled <= seq.prompt
          /\ seq.prompt \in Nat /\ seq.completion \in Nat
      BY <1>11, <1>12, <3>3
    <3> QED BY <3>2, <3>3, <3>5, <3>6, <3>7 DEF TurnExact
  <2>2. CASE old.replay > 0
    <3>1. PICK m : m = IF old.replay = 1 THEN NoReplay ELSE old.replay - 1
      OBVIOUS
    <3>2. seq = [old EXCEPT !.replay = m]
      BY <1>7, <2>2, <3>1
    <3>3. m \in Nat \cup {NoReplay} /\ m # 0 /\ Larger(0, m) = old.replay - 1 /\ old.replay >= 1
      BY <1>11, <2>2, <3>1 DEF NoReplay, Larger
    <3>4. seq \in Turn
      BY <1>4, <3>2, <3>3 DEF Turn
    <3>5. /\ seq.prompt = old.prompt /\ seq.completion = old.completion
          /\ seq.prefilled = old.prefilled /\ seq.replay = m /\ seq.queue = "decoding"
      BY <1>3, <1>4, <3>2 DEF Turn
    <3>6. n = seq.prompt + seq.completion - 1 - Larger(0, seq.replay)
      <4>1. old.replay \in Nat /\ Larger(0, old.replay) = old.replay
        BY <1>11, <3>3 DEF Larger
      <4> QED BY <1>10, <1>11, <1>12, <1>13, <3>3, <3>5, <4>1
    <3>7. /\ seq.queue # "waiting" /\ seq.prefilled <= seq.prompt /\ seq.completion >= 1
          /\ seq.replay # 0 /\ p < seq.prompt
      BY <1>11, <1>12, <3>3, <3>5
    <3> QED BY <2>2, <3>4, <3>5, <3>6, <3>7 DEF TurnExact
  <2> QED BY <2>1, <2>2
<1>15. Moves(old, seq, ~(old.replay > 0))
  <2>1. CASE ~(old.replay > 0)
    <3>1. seq = [old EXCEPT !.completion = @ + 1]
      BY <1>7, <2>1
    <3>2. /\ seq.prompt = old.prompt /\ seq.completion = old.completion + 1
          /\ seq.maxTokens = old.maxTokens /\ seq.prefilled = old.prefilled
          /\ seq.replay = old.replay
      BY <1>4, <3>1 DEF Turn
    <3> QED BY <1>11, <2>1, <3>2 DEF Moves
  <2>2. CASE old.replay > 0
    <3>1. PICK m : m = IF old.replay = 1 THEN NoReplay ELSE old.replay - 1
      OBVIOUS
    <3>2. seq = [old EXCEPT !.replay = m]
      BY <1>7, <2>2, <3>1
    <3>3. /\ seq.prompt = old.prompt /\ seq.completion = old.completion
          /\ seq.maxTokens = old.maxTokens /\ seq.prefilled = old.prefilled
      BY <1>4, <3>2 DEF Turn
    <3>4. old.replay # NoReplay
      BY <2>2 DEF NoReplay
    <3> QED BY <1>11, <2>2, <3>3, <3>4 DEF Moves
  <2> QED BY <2>1, <2>2
<1>16. Ran(s, seq, rw, ~(old.replay > 0), eos)
  BY <1>1, <1>2, <1>6, <1>8, <1>10, <1>13, <1>14, <1>15 DEF Ran
<1> QED BY <1>16

LEMMA DecodeStepKeeps ==
  ASSUME ChainAssumption, ChainInv, NEW s \in DOMAIN seqs, NEW eos, DecodeStep(s, eos)
  PROVE  ChainInv' /\ (index' = index \/ \E c \in Ids : Rests(c))
<1>1. Running /\ nextId' = nextId
  BY DEF DecodeStep
<1>2. PICK seq, rw, sampled : Ran(s, seq, rw, sampled, eos)
  BY DecodeRuns
<1> QED BY <1>1, <1>2, RanKeeps

LEMMA PreemptKeeps ==
  ASSUME ChainAssumption, ChainInv, NEW s \in DOMAIN seqs, Preempt(s)
  PROVE  ChainInv'
<1>0. /\ Consistent(index, rows, seqs, active) /\ s \in Queued("decoding")
      /\ UNCHANGED <<index, active, nextId, raised>>
  BY DEF ChainInv, Preempt
<1>1. PICK old : old = seqs[s]
  OBVIOUS
<1>2. PICK p : p = index.records[index.bySeq[s]].processed
  OBVIOUS
<1>3. TurnExact(p, old, Seen(rows, s)) /\ old.queue = "decoding"
  BY <1>0, <1>1, <1>2 DEF Consistent, TurnsExact, Queued
<1>4. /\ old \in Turn /\ old.completion >= 1 /\ p < old.prompt
      /\ old.prompt \in Nat /\ old.completion \in Nat
  BY <1>3 DEF TurnExact, Turn
<1>5. PICK seq : seq = [old EXCEPT !.queue = "waiting", !.prefilled = 0,
                                   !.replay = old.completion - 1]
  OBVIOUS
<1>6. PICK q : q = Without(rows, {s})
  OBVIOUS
<1>7. PICK sr : sr = [seqs EXCEPT ![s] = seq]
  OBVIOUS
<1>8. rows' = q /\ seqs' = sr
  BY <1>1, <1>5, <1>6, <1>7 DEF Preempt
<1>9. DOMAIN q = DOMAIN rows \ {s} /\ \A t \in DOMAIN rows \ {s} : q[t] = rows[t]
  BY <1>6 DEF Without, Restrict
<1>10. RowsShape(q) /\ Seen(q, s) = 0
  BY <1>0, <1>9 DEF Consistent, RowsShape, Seen
<1>11. p \in Nat
  <2>1. index.bySeq[s] \in DOMAIN index.records
    BY <1>0, IdleIsNotRunning DEF Consistent
  <2> QED BY <1>0, <1>2, <2>1 DEF Consistent, Shape, Record
<1>12. TurnExact(p, seq, 0)
  <2>1. old.completion - 1 \in Nat /\ old.prompt > 0
    BY <1>4, <1>11
  <2>2. seq \in Turn
    BY <1>4, <1>5, <2>1 DEF Turn
  <2>3. /\ seq.prompt = old.prompt /\ seq.completion = old.completion
        /\ seq.prefilled = 0 /\ seq.replay = old.completion - 1 /\ seq.queue = "waiting"
    BY <1>4, <1>5 DEF Turn
  <2>4. seq.replay # NoReplay
    BY <2>1, <2>3 DEF NoReplay
  <2> QED BY <1>4, <2>1, <2>2, <2>3, <2>4 DEF TurnExact
<1>13. DOMAIN sr = DOMAIN seqs /\ \A t \in DOMAIN seqs : sr[t] = IF t = s THEN seq ELSE seqs[t]
  BY <1>7
<1>14. Consistent(index, q, sr, active)
  <2>1. /\ DOMAIN q \subseteq DOMAIN rows \cup {s}
        /\ \A t \in DOMAIN rows \ {s} : t \in DOMAIN q /\ q[t] = rows[t]
    BY <1>9
  <2> QED BY <1>0, <1>2, <1>10, <1>12, <1>13, <2>1, RunKeeps
<1> QED BY <1>0, <1>8, <1>14 DEF ChainInv

LEMMA StepRaisesKeeps ==
  ASSUME ChainInv, StepRaises
  PROVE  ChainInv' /\ index' = index /\ nextId' = nextId
<1>1. UNCHANGED <<index, rows, seqs, active, nextId>> /\ raised' \in {"sole decode", "stalled"}
  BY DEF StepRaises
<1>2. TokensExact(index)
  BY DEF ChainInv, StepRaises, Running
<1> QED BY <1>1, <1>2 DEF ChainInv, Reasons

\* Chain c goes, and its sequence leaves the engine.
LEMMA InvalidateKeeps ==
  ASSUME ChainAssumption, ChainInv, Running, NEW c \in DOMAIN index.records, InvalidateChain(c),
         nextId' = nextId, raised' \in {"none", "model"}
  PROVE  /\ ChainInv'
         /\ DOMAIN index'.records = DOMAIN index.records \ {c}
         /\ \A d \in DOMAIN index'.records : index'.records[d] = index.records[d]
<1>0. /\ Consistent(index, rows, seqs, active) /\ Issued(index, nextId) /\ TokensExact(index)
      /\ nextId \in 1..(MaxChains + 1)
  BY DEF ChainInv, Running
<1>1. PICK S : S = {index.records[c].seq}
  OBVIOUS
<1>2. PICK r : r = Forget(index, {c})
  OBVIOUS
<1>3. PICK left : left = Without(seqs, S)
  OBVIOUS
<1>4. index' = r /\ rows' = Without(rows, S) /\ seqs' = left /\ active' = active \ S
  BY <1>1, <1>2, <1>3 DEF InvalidateChain
<1>5. S = {index.records[d].seq : d \in {c}} /\ {c} \in SUBSET DOMAIN index.records
  BY <1>1
<1>6. DOMAIN left = DOMAIN seqs \ S /\ \A s \in DOMAIN left : left[s] = seqs[s]
  BY <1>3 DEF Without, Restrict
<1>7. index.tombstones.ids \subseteq Ids
  BY <1>0 DEF Issued
<1>8. Consistent(r, Without(rows, S), left, active \ S)
  BY <1>0, <1>2, <1>5, <1>6, <1>7, ForgetKeeps
<1>9. TokensExact(r)
  BY <1>0, <1>2, <1>5, <1>6, ForgetExact DEF Consistent
<1>10. /\ DOMAIN r.records = DOMAIN index.records \ {c}
       /\ \A d \in DOMAIN index.records \ {c} : r.records[d] = index.records[d]
  BY <1>2, <1>5, ForgetLeaves
<1>11. r.tombstones.ids \subseteq index.tombstones.ids \cup {c}
  BY <1>0, <1>2, <1>5, <1>7, ForgetStamped DEF Consistent
<1>12. Issued(r, nextId)
  BY <1>0, <1>10, <1>11 DEF Issued, Consistent, Shape
<1>13. ChainInv'
  BY <1>0, <1>4, <1>8, <1>9, <1>12 DEF ChainInv, Reasons
<1> QED BY <1>4, <1>10, <1>13

\* A turn begins on c: other chains go, all of them IDLE, and nothing else changes.
Begins(ix, c) == \E V, s : Takes(ix, V, c, s, index')

\* An admission on an index ix that is consistent with the queues.
LEMMA AdmitFrom ==
  ASSUME ChainAssumption, NEW ix, NEW rw, Consistent(ix, rw, seqs, active), TokensExact(ix),
         NEW n, n \in 1..(MaxChains + 1), nextId \in 1..(MaxChains + 1), nextId <= n,
         Issued(ix, nextId), NEW c, NEW s, c < n, s < n,
         NEW prompt \in PromptLens, NEW gen \in MaxTokens, MayAdmit(ix, c, s, prompt),
         NEW plan \in Plans(ix, rw, c, s, prompt, gen), Admit(ix, rw, plan, prompt, gen),
         nextId' = n, raised' = "none"
  PROVE  ChainInv' /\ Begins(ix, c)
<1>1. prompt \in Nat /\ gen \in Nat /\ ix.tombstones.ids \subseteq Ids /\ Shape(ix)
  BY DEF ChainAssumption, Issued, Consistent
<1>2. plan.chain = c /\ plan.seq = s /\ plan.reused = Reused(ix, c)
  BY <1>1, PlanFor
<1>3. PICK r : r = ApplyAdmission(ix, plan)
  OBVIOUS
<1>4. PICK q : q = FreeVictims(ix, rw, plan)
  OBVIOUS
<1>5. PICK sq : sq = With(seqs, s, Queueing(plan, prompt, gen))
  OBVIOUS
<1>6. index' = r /\ rows' = q /\ seqs' = sq /\ active' = active \cup {s}
  BY <1>2, <1>3, <1>4, <1>5 DEF Admit, Queueing
<1>7. Consistent(r, q, sq, active \cup {s})
  BY <1>1, <1>3, <1>4, <1>5, AdmitKeeps
<1>8. TokensExact(r)
  BY <1>1, <1>3, AdmitKeeps
<1>9. PICK V : V = plan.victims
  OBVIOUS
<1>a. Takes(ix, V, c, s, r)
  BY <1>1, <1>3, <1>9, AdmitTakes
<1>b. r.tombstones.ids \subseteq ix.tombstones.ids \cup plan.victims
  BY <1>1, <1>3, AdmitKeeps
<1>c. /\ V \subseteq InState(ix, "idle") \ {c}
      /\ DOMAIN r.records = (DOMAIN ix.records \ V) \cup {c}
      /\ r.records[c].seq = s /\ r.records[c].state = "active"
      /\ \A d \in DOMAIN r.records : d # c => r.records[d] = ix.records[d]
      /\ r.tombstones.ids \subseteq ix.tombstones.ids \cup V
  BY <1>9, <1>a, <1>b DEF Takes
<1>10. Issued(r, n)
  <2>1. \A d \in DOMAIN ix.records : d \in Int /\ ix.records[d].seq \in Int
    BY <1>1 DEF Shape, Ids, SeqIds, Record, ChainAssumption
  <2>2. \A d \in DOMAIN ix.records : d < n /\ ix.records[d].seq < n
    BY <2>1 DEF Issued, ChainAssumption
  <2>3. \A d \in DOMAIN r.records : d < n /\ r.records[d].seq < n
    <3>1. TAKE d \in DOMAIN r.records
    <3>2. CASE d = c
      BY <1>c, <3>2
    <3>3. CASE d # c
      BY <1>c, <2>2, <3>3
    <3> QED BY <3>2, <3>3
  <2>4. \A d \in ix.tombstones.ids : d \in Ids /\ d < n
    BY DEF Issued, Ids, ChainAssumption
  <2>5. \A d \in V : d \in Ids /\ d < n
    BY <1>1, <1>c, <2>2 DEF InState, Shape
  <2> QED BY <1>c, <2>3, <2>4, <2>5 DEF Issued
<1>11. ChainInv'
  BY <1>6, <1>7, <1>8, <1>10 DEF ChainInv, Reasons
<1>12. Begins(ix, c)
  BY <1>6, <1>a DEF Begins
<1> QED BY <1>11, <1>12

LEMMA AdmitNewKeeps ==
  ASSUME ChainAssumption, ChainInv, NEW prompt \in PromptLens, NEW gen \in MaxTokens,
         AdmitNew(prompt, gen)
  PROVE  ChainInv' /\ nextId \in Ids /\ nextId' = nextId + 1 /\ Begins(index, nextId)
<1>0. /\ Consistent(index, rows, seqs, active) /\ Issued(index, nextId) /\ TokensExact(index)
      /\ nextId \in 1..(MaxChains + 1) /\ raised = "none"
  BY DEF ChainInv, AdmitNew, Running
<1>1. nextId \in Ids /\ nextId' = nextId + 1 /\ raised' = raised
  BY DEF AdmitNew
<1>2. PICK n : n = nextId
  OBVIOUS
<1>3. PICK plan \in Plans(index, rows, n, n, prompt, gen) : Admit(index, rows, plan, prompt, gen)
  BY <1>2 DEF AdmitNew
<1>4. n + 1 \in 1..(MaxChains + 1) /\ nextId <= n + 1 /\ n < n + 1 /\ n \in SeqIds /\ n \in Ids
  BY <1>1, <1>2 DEF Ids, SeqIds, ChainAssumption
<1>5. \A d \in DOMAIN index.records : d # n /\ index.records[d].seq # n
  BY <1>0, <1>2, <1>4 DEF Issued, Ids
<1>6. n \notin DOMAIN index.bySeq
  BY <1>0, <1>5 DEF Consistent, Agree
<1>7. n \notin index.tombstones.ids
  BY <1>0, <1>2 DEF Issued, Ids
<1>8. prompt > 0
  BY DEF ChainAssumption
<1>9. MayAdmit(index, n, n, prompt)
  BY <1>4, <1>5, <1>6, <1>7, <1>8 DEF MayAdmit
<1>10. nextId' = n + 1 /\ raised' = "none"
  BY <1>0, <1>1, <1>2
<1>11. ChainInv' /\ Begins(index, n)
  BY <1>0, <1>3, <1>4, <1>9, <1>10, AdmitFrom
<1> QED BY <1>1, <1>2, <1>11

LEMMA AdmitResumeKeeps ==
  ASSUME ChainAssumption, ChainInv, NEW prompt \in PromptLens, NEW gen \in MaxTokens,
         NEW c, AdmitResume(c, prompt, gen)
  PROVE  ChainInv' /\ c \in InState(index, "idle") /\ nextId' = nextId /\ Begins(index, c)
<1>0. /\ Consistent(index, rows, seqs, active) /\ Issued(index, nextId) /\ TokensExact(index)
      /\ nextId \in 1..(MaxChains + 1) /\ raised = "none"
  BY DEF ChainInv, AdmitResume, Running
<1>1. /\ c \in InState(index, "idle") /\ prompt > index.records[c].processed
      /\ nextId' = nextId /\ raised' = raised
  BY DEF AdmitResume
<1>2. PICK s : s = index.records[c].seq
  OBVIOUS
<1>3. PICK plan \in Plans(index, rows, c, s, prompt, gen) : Admit(index, rows, plan, prompt, gen)
  BY <1>2 DEF AdmitResume
<1>4. c \in DOMAIN index.records /\ c \in Ids /\ s \in SeqIds
  BY <1>0, <1>1, <1>2 DEF InState, Consistent, Shape, Record
<1>5. MayAdmit(index, c, s, prompt)
  BY <1>1, <1>2, <1>4 DEF MayAdmit
<1>6. c < nextId /\ s < nextId
  BY <1>0, <1>2, <1>4 DEF Issued
<1>7. PICK n : n = nextId
  OBVIOUS
<1>8. /\ n \in 1..(MaxChains + 1) /\ nextId <= n /\ c < n /\ s < n
      /\ nextId' = n /\ raised' = "none"
  BY <1>0, <1>1, <1>6, <1>7 DEF ChainAssumption
<1>9. ChainInv' /\ Begins(index, c)
  BY <1>0, <1>3, <1>5, <1>8, AdmitFrom
<1> QED BY <1>1, <1>9

LEMMA AdmitRecreateKeeps ==
  ASSUME ChainAssumption, ChainInv, NEW prompt \in PromptLens, NEW gen \in MaxTokens,
         NEW c, AdmitRecreate(c, prompt, gen)
  PROVE  /\ ChainInv' /\ c \in InState(index, "idle")
         /\ \/ /\ nextId' = nextId
               /\ DOMAIN index'.records = DOMAIN index.records \ {c}
               /\ \A d \in DOMAIN index'.records : index'.records[d] = index.records[d]
            \/ /\ nextId \in Ids /\ nextId' = nextId + 1 /\ Begins(Forget(index, {c}), nextId)
<1>0. /\ Consistent(index, rows, seqs, active) /\ Issued(index, nextId) /\ TokensExact(index)
      /\ nextId \in 1..(MaxChains + 1) /\ raised = "none"
  BY DEF ChainInv, AdmitRecreate, Running
<1>1. c \in InState(index, "idle") /\ nextId \in Ids /\ raised' = raised
  BY DEF AdmitRecreate
<1>2. PICK s : s = index.records[c].seq
  OBVIOUS
<1>3. PICK ix : ix = Forget(index, {c})
  OBVIOUS
<1>4. PICK rw : rw = Without(rows, {s})
  OBVIOUS
<1>5. PICK n : n = nextId
  OBVIOUS
<1>6. c \in DOMAIN index.records /\ c \in Ids /\ s \in SeqIds /\ index.records[c].state = "idle"
  BY <1>0, <1>1, <1>2 DEF InState, Consistent, Shape, Record
<1>7. s \notin active /\ DOMAIN seqs = active
  BY <1>0, <1>2, <1>6 DEF Consistent, Agree, InState
<1>8. {s} = {index.records[d].seq : d \in {c}} /\ {c} \in SUBSET DOMAIN index.records
  BY <1>2, <1>6
<1>9. active \ {s} = active /\ DOMAIN seqs = DOMAIN seqs \ {s}
  BY <1>7
<1>10. index.tombstones.ids \subseteq Ids
  BY <1>0 DEF Issued
<1>11. Consistent(ix, rw, seqs, active)
  <2>1. Consistent(ix, rw, seqs, active \ {s})
    BY <1>0, <1>3, <1>4, <1>8, <1>9, <1>10, ForgetKeeps
  <2> QED BY <1>9, <2>1
<1>12. TokensExact(ix)
  BY <1>0, <1>3, <1>8, <1>9, ForgetExact DEF Consistent
<1>13. /\ DOMAIN ix.records = DOMAIN index.records \ {c}
       /\ \A d \in DOMAIN index.records \ {c} : ix.records[d] = index.records[d]
  BY <1>3, <1>8, ForgetLeaves
<1>14. s \notin DOMAIN ix.bySeq
  BY <1>3, <1>8, ForgetLeaves
<1>15. ix.tombstones.ids \subseteq index.tombstones.ids \cup {c}
  BY <1>0, <1>3, <1>8, <1>10, ForgetStamped DEF Consistent
<1>16. Issued(ix, nextId)
  BY <1>0, <1>6, <1>13, <1>15 DEF Issued
<1>17. CASE Plans(ix, rw, n, s, prompt, gen) = {}
  <2>1. index' = ix /\ rows' = rw /\ UNCHANGED <<seqs, active, nextId>>
    BY <1>2, <1>3, <1>4, <1>5, <1>17 DEF AdmitRecreate
  <2>2. ChainInv'
    BY <1>0, <1>1, <1>11, <1>12, <1>16, <2>1 DEF ChainInv, Reasons
  <2> QED BY <1>1, <1>13, <2>1, <2>2
<1>18. CASE Plans(ix, rw, n, s, prompt, gen) # {}
  <2>1. nextId' = nextId + 1 /\ \E plan \in Plans(ix, rw, n, s, prompt, gen) : Admit(ix, rw, plan, prompt, gen)
    BY <1>2, <1>3, <1>4, <1>5, <1>18 DEF AdmitRecreate
  <2>2. PICK plan \in Plans(ix, rw, n, s, prompt, gen) : Admit(ix, rw, plan, prompt, gen)
    BY <2>1
  <2>3. n + 1 \in 1..(MaxChains + 1) /\ nextId <= n + 1 /\ n < n + 1 /\ n \in Ids
    BY <1>1, <1>5 DEF Ids, ChainAssumption
  <2>4. s < n /\ s < n + 1
    <3>1. s < n /\ s \in Int
      BY <1>0, <1>2, <1>5, <1>6 DEF Issued, SeqIds, Ids
    <3> QED BY <2>3, <3>1 DEF Ids
  <2>5. n \notin DOMAIN ix.records /\ n \notin ix.tombstones.ids
    BY <1>5, <1>16, <2>3 DEF Issued, Ids
  <2>6. prompt > 0
    BY DEF ChainAssumption
  <2>7. MayAdmit(ix, n, s, prompt)
    BY <1>6, <1>14, <2>3, <2>5, <2>6 DEF MayAdmit
  <2>8. nextId' = n + 1 /\ raised' = "none"
    BY <1>0, <1>1, <1>5, <2>1
  <2>9. ChainInv' /\ Begins(ix, n)
    BY <1>0, <1>11, <1>12, <1>16, <2>2, <2>3, <2>4, <2>7, <2>8, AdmitFrom
  <2> QED BY <1>1, <1>3, <1>5, <2>1, <2>9
<1> QED BY <1>17, <1>18

-----------------------------------------------------------------------------
(* The life of every chain.                                                *)

\* What a step that keeps to the lifecycle does to the records and the next id.
LEMMA StaysLife ==
  ASSUME index' = index, nextId' = nextId
  PROVE  Life' = Life
  BY DEF Life

LEMMA RestLife ==
  ASSUME NEW c \in Ids, Rests(c), nextId' = nextId
  PROVE  Lifecycle!Rest(c)
<1>1. Life[c] = "active"
  BY DEF Life, Rests
<1>2. ASSUME NEW d \in Ids
      PROVE  Life'[d] = IF d = c THEN "idle" ELSE Life[d]
  <2>1. CASE d = c
    BY <2>1 DEF Life, Rests
  <2>2. CASE d # c /\ d \in DOMAIN index.records
    BY <2>2 DEF Life, Rests
  <2>3. CASE d # c /\ d \notin DOMAIN index.records
    BY <2>3 DEF Life, Rests
  <2> QED BY <2>1, <2>2, <2>3
<1>3. Life' = [d \in Ids |-> Life'[d]]
  BY DEF Life
<1> HIDE DEF Life
<1>4. Life' = [d \in Ids |-> IF d \in {} THEN "gone" ELSE IF d \in {} THEN "active"
                             ELSE IF d \in {c} THEN "idle" ELSE Life[d]]
  BY <1>2, <1>3
<1> QED BY <1>1, <1>4 DEF Lifecycle!Rest, Lifecycle!Move

\* Chain c goes.
LEMMA DropLife ==
  ASSUME NEW c \in DOMAIN index.records, Shape(index), Issued(index, nextId),
         DOMAIN index'.records = DOMAIN index.records \ {c},
         \A d \in DOMAIN index'.records : index'.records[d] = index.records[d],
         nextId' = nextId
  PROVE  Lifecycle!Drop
<1>0. c \in Ids /\ c < nextId
  BY DEF Shape, Issued
<1>1. Life[c] \in {"active", "idle"}
  BY <1>0 DEF Life, Shape, Record
<1>2. ASSUME NEW d \in Ids
      PROVE  Life'[d] = IF d = c THEN "gone" ELSE Life[d]
  <2>1. CASE d = c
    BY <1>0, <2>1 DEF Life
  <2>2. CASE d # c /\ d \in DOMAIN index.records
    BY <2>2 DEF Life
  <2>3. CASE d # c /\ d \notin DOMAIN index.records
    BY <2>3 DEF Life
  <2> QED BY <2>1, <2>2, <2>3
<1>3. Life' = [d \in Ids |-> Life'[d]]
  BY DEF Life
<1>4. Life' = [d \in Ids |-> IF d \in {c} THEN "gone" ELSE IF d \in {} THEN "active"
                             ELSE IF d \in {} THEN "idle" ELSE Life[d]]
  BY <1>2, <1>3
<1>5. {c} \in SUBSET (Lifecycle!Idle \cup Lifecycle!Active)
  BY <1>0, <1>1 DEF Lifecycle!Idle, Lifecycle!Active
<1> QED BY <1>4, <1>5 DEF Lifecycle!Drop, Lifecycle!Move

\* A turn begins on c, which was IDLE or not yet handed out, and V goes.
LEMMA BeginLife ==
  ASSUME NEW c \in Ids, NEW V, NEW s, Takes(index, V, c, s, index'),
         Shape(index), Issued(index, nextId), nextId \in Int,
         \/ c \in InState(index, "idle") /\ nextId' = nextId
         \/ c = nextId /\ nextId' = nextId + 1
  PROVE  Lifecycle!Begin
<1>0. /\ V \subseteq InState(index, "idle") \ {c}
      /\ DOMAIN index'.records = (DOMAIN index.records \ V) \cup {c}
      /\ index'.records[c].state = "active"
      /\ \A d \in DOMAIN index'.records : d # c => index'.records[d] = index.records[d]
  BY DEF Takes
<1>1. \A d \in Ids : d # c => (d < nextId' <=> d < nextId)
  BY DEF Ids
<1>2. \A d \in DOMAIN index.records : d \in Ids /\ d < nextId
  BY DEF Shape, Issued
<1>3. Life[c] \in {"unborn", "idle"}
  <2>1. CASE c \in InState(index, "idle")
    BY <2>1 DEF Life, InState
  <2>2. CASE c = nextId
    <3>1. c \notin DOMAIN index.records /\ ~(c < nextId)
      BY <1>2, <2>2
    <3> QED BY <3>1 DEF Life
  <2> QED BY <2>1, <2>2
<1>4. ASSUME NEW d \in Ids
      PROVE  Life'[d] = IF d \in V THEN "gone" ELSE IF d = c THEN "active" ELSE Life[d]
  <2>0. Life'[d] = IF d \in DOMAIN index'.records THEN index'.records[d].state
                   ELSE IF d < nextId' THEN "gone" ELSE "unborn"
    BY DEF Life
  <2>a. Life[d] = IF d \in DOMAIN index.records THEN index.records[d].state
                  ELSE IF d < nextId THEN "gone" ELSE "unborn"
    BY DEF Life
  <2>1. CASE d \in V
    <3>1. d \in DOMAIN index.records /\ d # c /\ d \notin DOMAIN index'.records
      BY <1>0, <2>1 DEF InState
    <3> QED BY <1>1, <1>2, <2>0, <2>1, <3>1
  <2>2. CASE d = c
    BY <1>0, <2>0, <2>2
  <2>3. CASE d \notin V /\ d # c /\ d \in DOMAIN index.records
    BY <1>0, <2>0, <2>a, <2>3
  <2>4. CASE d \notin V /\ d # c /\ d \notin DOMAIN index.records
    BY <1>0, <1>1, <2>0, <2>a, <2>4
  <2> QED BY <1>0, <2>1, <2>2, <2>3, <2>4
<1>5. Life' = [d \in Ids |-> Life'[d]]
  BY DEF Life
<1>6. Life' = [d \in Ids |-> IF d \in V THEN "gone" ELSE IF d \in {c} THEN "active"
                             ELSE IF d \in {} THEN "idle" ELSE Life[d]]
  BY <1>4, <1>5
<1>7. V \in SUBSET Lifecycle!Idle /\ c \notin V
  BY <1>0, <1>2 DEF Lifecycle!Idle, Life, InState
<1> QED BY <1>3, <1>6, <1>7 DEF Lifecycle!Begin, Lifecycle!Move

-----------------------------------------------------------------------------
(* The theorems.                                                           *)

LEMMA InitHolds ==
  ASSUME ChainAssumption, Init
  PROVE  ChainInv /\ Lifecycle!Init
<1>1. DOMAIN index.records = {} /\ DOMAIN index.bySeq = {} /\ DOMAIN rows = {} /\ DOMAIN seqs = {}
  BY DEF Init
<1>2. /\ index.used = {} /\ index.tombstones.ids = {} /\ index.tombstones.order = {}
      /\ index.history = 0 /\ active = {} /\ nextId = 1 /\ raised = "none"
  BY DEF Init
<1>3. Shape(index) /\ RowsShape(rows)
  BY <1>1 DEF Init, Shape, RowsShape
<1>4. InState(index, "active") = {} /\ InState(index, "idle") = {}
  BY <1>1 DEF InState
<1>5. Agree(index, rows, seqs, active)
  BY <1>1, <1>2, <1>4 DEF Agree
<1>6. Stamped(index)
  <2>1. Cardinality({}) = 0
    BY FS_EmptySet
  <2> QED BY <1>1, <1>2, <2>1 DEF Stamped, Orders, ChainAssumption
<1>7. IdleExact(index, rows) /\ TurnsExact(index, rows, seqs) /\ TokensExact(index)
  BY <1>1, <1>4 DEF IdleExact, TurnsExact, TokensExact
<1>8. Counted(index)
  <2>1. HistoryOf(index, {}) = Cardinality({})
    BY DEF HistoryOf, SumOver
  <2> QED BY <1>1, <1>2, <2>1, FS_EmptySet DEF Counted
<1>9. Issued(index, nextId) /\ nextId \in 1..(MaxChains + 1)
  BY <1>1, <1>2 DEF Issued, ChainAssumption
<1>10. ChainInv
  BY <1>2, <1>3, <1>5, <1>6, <1>7, <1>8, <1>9 DEF ChainInv, Consistent, Reasons
<1>11. \A c \in Ids : Life[c] = "unborn"
  BY <1>1, <1>2 DEF Life, Ids
<1>12. Life = [c \in Ids |-> "unborn"]
  <2>1. Life = [c \in Ids |-> Life[c]]
    BY DEF Life
  <2> QED BY <1>11, <2>1
<1> QED BY <1>10, <1>12 DEF Lifecycle!Init

\* Every step keeps the invariant and is a step of the lifecycle, or none.
LEMMA StepHolds ==
  ASSUME ChainAssumption, ChainInv, [Next]_vars
  PROVE  ChainInv' /\ [Lifecycle!Next]_Life
<1>0. /\ Shape(index) /\ Agree(index, rows, seqs, active) /\ Issued(index, nextId)
      /\ nextId \in 1..(MaxChains + 1)
  BY DEF ChainInv, Consistent
<1>a. nextId \in Int
  BY <1>0 DEF ChainAssumption
<1>1. ASSUME NEW prompt \in PromptLens, NEW gen \in MaxTokens, AdmitNew(prompt, gen)
      PROVE  ChainInv' /\ Lifecycle!Begin
  <2>1. ChainInv' /\ nextId \in Ids /\ nextId' = nextId + 1 /\ Begins(index, nextId)
    BY <1>1, AdmitNewKeeps
  <2>2. PICK V, s : Takes(index, V, nextId, s, index')
    BY <2>1 DEF Begins
  <2> QED BY <1>0, <1>a, <2>1, <2>2, BeginLife
<1>2. ASSUME NEW prompt \in PromptLens, NEW gen \in MaxTokens, NEW c, AdmitResume(c, prompt, gen)
      PROVE  ChainInv' /\ Lifecycle!Begin
  <2>1. ChainInv' /\ c \in InState(index, "idle") /\ nextId' = nextId /\ Begins(index, c)
    BY <1>2, AdmitResumeKeeps
  <2>2. PICK V, s : Takes(index, V, c, s, index')
    BY <2>1 DEF Begins
  <2>3. c \in Ids
    BY <1>0, <2>1 DEF InState, Shape
  <2> QED BY <1>0, <1>a, <2>1, <2>2, <2>3, BeginLife
<1>3. ASSUME NEW prompt \in PromptLens, NEW gen \in MaxTokens, NEW c, AdmitRecreate(c, prompt, gen)
      PROVE  ChainInv' /\ (Lifecycle!Begin \/ Lifecycle!Drop)
  <2>1. /\ ChainInv' /\ c \in InState(index, "idle")
        /\ \/ /\ nextId' = nextId
              /\ DOMAIN index'.records = DOMAIN index.records \ {c}
              /\ \A d \in DOMAIN index'.records : index'.records[d] = index.records[d]
           \/ /\ nextId \in Ids /\ nextId' = nextId + 1 /\ Begins(Forget(index, {c}), nextId)
    BY <1>3, AdmitRecreateKeeps
  <2>2. c \in DOMAIN index.records /\ c < nextId /\ c # nextId
    BY <1>0, <1>a, <2>1 DEF InState, Issued
  <2>3. CASE /\ nextId' = nextId
             /\ DOMAIN index'.records = DOMAIN index.records \ {c}
             /\ \A d \in DOMAIN index'.records : index'.records[d] = index.records[d]
    BY <1>0, <2>1, <2>2, <2>3, DropLife
  <2>4. CASE nextId \in Ids /\ nextId' = nextId + 1 /\ Begins(Forget(index, {c}), nextId)
    <3>1. PICK ix : ix = Forget(index, {c})
      OBVIOUS
    <3>2. PICK V, s : Takes(ix, V, nextId, s, index')
      BY <2>4, <3>1 DEF Begins
    <3>3. {c} \in SUBSET DOMAIN index.records
      BY <2>2
    <3>4. /\ DOMAIN ix.records = DOMAIN index.records \ {c}
          /\ \A d \in DOMAIN index.records \ {c} : ix.records[d] = index.records[d]
      BY <3>1, <3>3, ForgetLeaves
    <3>5. PICK W : W = V \cup {c}
      OBVIOUS
    <3>6. Takes(index, W, nextId, s, index')
      <4>1. W \subseteq InState(index, "idle") \ {nextId}
        BY <2>1, <2>2, <3>2, <3>4, <3>5 DEF Takes, InState
      <4>2. DOMAIN index'.records = (DOMAIN index.records \ W) \cup {nextId}
        BY <3>2, <3>4, <3>5 DEF Takes
      <4>3. \A d \in DOMAIN index'.records : d # nextId => index'.records[d] = index.records[d]
        BY <3>2, <3>4 DEF Takes
      <4> QED BY <3>2, <4>1, <4>2, <4>3 DEF Takes
    <3> QED BY <1>0, <1>a, <2>1, <2>4, <3>6, BeginLife
  <2> QED BY <2>1, <2>3, <2>4
<1>4. ASSUME NEW c \in DOMAIN index.records, Running, InvalidateChain(c), nextId' = nextId,
             raised' \in {"none", "model"}
      PROVE  ChainInv' /\ Lifecycle!Drop
  <2>1. /\ ChainInv'
        /\ DOMAIN index'.records = DOMAIN index.records \ {c}
        /\ \A d \in DOMAIN index'.records : index'.records[d] = index.records[d]
    BY <1>4, InvalidateKeeps
  <2> QED BY <1>0, <1>4, <2>1, DropLife
<1>5. ASSUME NEW s, AbortRequest(s)
      PROVE  ChainInv' /\ Lifecycle!Drop
  <2>1. index.bySeq[s] \in DOMAIN index.records
    BY <1>0, <1>5 DEF AbortRequest, Agree
  <2> QED BY <1>4, <1>5, <2>1 DEF AbortRequest, Running
<1>6. ASSUME NEW s, ModelFailure(s)
      PROVE  ChainInv' /\ Lifecycle!Drop
  <2>1. index.bySeq[s] \in DOMAIN index.records
    BY <1>0, <1>6 DEF ModelFailure, Agree, InState
  <2> QED BY <1>4, <1>6, <2>1 DEF ModelFailure
<1>7. ASSUME NEW c, DiscardChain(c)
      PROVE  ChainInv' /\ Lifecycle!Drop
  BY <1>4, <1>7 DEF DiscardChain, Running
<1>8. ASSUME index' = index \/ \E c \in Ids : Rests(c), nextId' = nextId
      PROVE  Life' = Life \/ \E c \in Ids : Lifecycle!Rest(c)
  BY <1>8, StaysLife, RestLife
<1>9. ASSUME Step
      PROVE  ChainInv' /\ (Life' = Life \/ \E c \in Ids : Lifecycle!Rest(c))
  <2>1. ASSUME NEW s \in DOMAIN seqs, NEW eos \in BOOLEAN, DecodeStep(s, eos)
        PROVE  ChainInv' /\ (index' = index \/ \E c \in Ids : Rests(c)) /\ nextId' = nextId
    BY <2>1, DecodeStepKeeps DEF DecodeStep
  <2>2. ASSUME NEW s \in DOMAIN seqs, NEW eos \in BOOLEAN, NEW k \in 1..ChunkSize,
               PrefillStep(s, k, eos)
        PROVE  ChainInv' /\ (index' = index \/ \E c \in Ids : Rests(c)) /\ nextId' = nextId
    BY <2>2, PrefillStepKeeps DEF PrefillStep
  <2>3. ASSUME NEW s \in DOMAIN seqs, Preempt(s)
        PROVE  ChainInv' /\ index' = index /\ nextId' = nextId
    BY <2>3, PreemptKeeps DEF Preempt
  <2>4. ASSUME StepRaises
        PROVE  ChainInv' /\ index' = index /\ nextId' = nextId
    BY <2>4, StepRaisesKeeps
  <2>5. ChainInv' /\ (index' = index \/ \E c \in Ids : Rests(c)) /\ nextId' = nextId
    BY <1>9, <2>1, <2>2, <2>3, <2>4 DEF Step
  <2> QED BY <1>8, <2>5
<1>10. CASE Next
  BY <1>1, <1>2, <1>3, <1>5, <1>6, <1>7, <1>9, <1>10 DEF Next, Lifecycle!Next
<1>11. CASE UNCHANGED vars
  <2>1. UNCHANGED <<index, rows, seqs, active, nextId, raised>>
    BY <1>11 DEF vars
  <2>2. ChainInv'
    BY <2>1 DEF ChainInv
  <2> QED BY <2>1, <2>2, StaysLife
<1> QED BY <1>10, <1>11

\* Whatever is done to the chains, the invariant holds.
THEOREM ChainsConsistent == Spec => []ChainInv
<1>1. Init => ChainInv
  BY InitHolds, ChainAssumption
<1>2. ChainInv /\ [Next]_vars => ChainInv'
  BY StepHolds, ChainAssumption
<1> QED BY <1>1, <1>2, PTL DEF Spec

\* _token_history_tokens is a sum of lengths.
LEMMA HistoryIsNat ==
  ASSUME ChainAssumption, NEW ix, Shape(ix), Counted(ix)
  PROVE  ix.history \in Nat
<1> DEFINE S == DOMAIN ix.records
           f == [d \in S |-> ix.records[d].tokens]
<1>1. IsFiniteSet(S)
  BY IdsFinite DEF Shape
<1>2. \A d \in S : f[d] \in Int /\ f[d] = ix.records[d].tokens
  BY DEF Shape, Record
<1> HIDE DEF f
<1>3. Cardinality(Cells(S, f)) \in Nat
  BY <1>1, <1>2, CellsFinite
<1> QED BY <1>2, <1>3, HistoryIsCells DEF Counted

\* The variables keep their types, whatever the pool and the load.
THEOREM ChainTypes == Spec => []TypeOK
<1>1. ChainInv => TypeOK
  <2> SUFFICES ASSUME ChainInv PROVE TypeOK
    OBVIOUS
  <2>1. /\ Shape(index) /\ RowsShape(rows) /\ Agree(index, rows, seqs, active) /\ Stamped(index)
        /\ TurnsExact(index, rows, seqs) /\ Counted(index) /\ Issued(index, nextId)
    BY DEF ChainInv, Consistent
  <2>2. DOMAIN index.records \in SUBSET Ids /\ \A c \in DOMAIN index.records : index.records[c] \in Record
    BY <2>1 DEF Shape
  <2>3. DOMAIN index.bySeq \in SUBSET SeqIds
    BY <2>1, <2>2 DEF Agree, Record
  <2>4. \A s \in DOMAIN index.bySeq : index.bySeq[s] \in Ids
    BY <2>1, <2>2 DEF Agree
  <2>5. active \in SUBSET SeqIds /\ DOMAIN seqs \in SUBSET SeqIds /\ DOMAIN rows \in SUBSET SeqIds
    BY <2>1, <2>2, <2>3 DEF Agree, InState, Record
  <2>6. index.used \in SUBSET (Ids \X Ids)
    BY <2>1, <2>2 DEF Stamped, Orders
  <2>7. /\ index.tombstones.ids \in SUBSET Ids
        /\ index.tombstones.order \in SUBSET (Ids \X Ids)
        /\ Cardinality(index.tombstones.ids) <= MaxTombstones
    BY <2>1 DEF Stamped, Orders, Issued
  <2>8. index.history \in Nat
    BY <2>1, HistoryIsNat, ChainAssumption
  <2>9. \A s \in DOMAIN seqs : seqs[s] \in Turn
    BY <2>1 DEF TurnsExact, TurnExact
  <2>10. nextId \in 1..(MaxChains + 1)
    BY DEF ChainInv
  <2>11. raised \in {"none", "model", "sole decode", "stalled", "history full",
                     "lost chain", "not active", "boundary moved backwards"}
    BY DEF ChainInv, Reasons
  <2>12. \A s \in DOMAIN rows : rows[s] \in [len : [Layers -> Nat], seen : Nat]
    BY <2>1 DEF RowsShape
  <2> QED BY <2>2, <2>3, <2>4, <2>5, <2>6, <2>7, <2>8, <2>9, <2>10, <2>11, <2>12 DEF TypeOK, Turn
<1> QED BY <1>1, ChainsConsistent, PTL

\* Records, inverse map, active sequences, queues, rows and stamps always agree.
THEOREM ChainsAgree == Spec => []IndexAgrees
<1>1. ChainInv => IndexAgrees
  BY DEF ChainInv, Consistent, Agree, Stamped, IndexAgrees
<1> QED BY <1>1, ChainsConsistent, PTL

\* An IDLE chain is worth what its record says.
THEOREM IdleChainsExact == Spec => []IdleChainsAreExact
<1>1. ChainInv => IdleChainsAreExact
  BY DEF ChainInv, Consistent, IdleExact, TokensExact, IdleChainsAreExact
<1> QED BY <1>1, ChainsConsistent, PTL

\* The running total equals the histories that are stored.
THEOREM HistoryCounted == Spec => []HistoryIsCounted
<1>1. ChainInv => HistoryIsCounted
  BY DEF ChainInv, Consistent, Counted, HistoryIsCounted
<1> QED BY <1>1, ChainsConsistent, PTL

\* The checks made when a turn finishes never fail.
THEOREM FinishNeverFails == Spec => []FinishChecksHold
<1>1. ChainInv => FinishChecksHold
  BY DEF ChainInv, Reasons, FinishChecksHold
<1> QED BY <1>1, ChainsConsistent, PTL

\* The index implements the lifecycle its clients rely on.
THEOREM ChainsLive == Spec => ImplementsLifecycle
<1>1. Init => Lifecycle!Init
  BY InitHolds, ChainAssumption
<1>2. ChainInv /\ [Next]_vars => [Lifecycle!Next]_Life
  BY StepHolds, ChainAssumption
<1> QED BY <1>1, <1>2, ChainsConsistent, PTL DEF Spec, ImplementsLifecycle, Lifecycle!Spec

-----------------------------------------------------------------------------
(* Layers that are kept in full.                                           *)

\* No layer drops a token: SnapKV with every layer configured as full, and the
\* methods that do not compact.
KeepsAll == \A l \in Layers : Budget[l] >= MaxModelLen

\* Every layer of every row holds all that was written.
RowsFull(rw) == \A s \in DOMAIN rw : \A l \in Layers : rw[s].len[l] = rw[s].seen

\* The turn q runs on the chain of the record: it was never evicted, has
\* tokens left to sample, and record and reservation together are its peak.
TurnCovered(record, q, rw) ==
  /\ q.prompt + q.maxTokens <= MaxModelLen
  /\ q.replay = NoReplay /\ q.completion < q.maxTokens /\ record.processed <= q.prefilled
  /\ \A l \in Layers : /\ record.slots[l] = record.processed
                       /\ record.slots[l] + record.reserved[l] = q.prompt + q.maxTokens - 1
  /\ record.seq \in DOMAIN rw \/ record.reservedRows = 1

TurnsCovered(ix, rw, sq) ==
  \A c \in InState(ix, "active") : TurnCovered(ix.records[c], sq[ix.records[c].seq], rw)

\* A chain that rests has nothing reserved.
RestsBare(ix) == \A c \in InState(ix, "idle") : \A l \in Layers : ix.records[c].reserved[l] = 0

TokensBounded(ix) == \A c \in DOMAIN ix.records : ix.records[c].tokens <= MaxModelLen

\* What the chain of a record may hold of layer l by the end of its turn.
Claim(record, l) == record.slots[l] + record.reserved[l]

ClaimsOf(ix, l) == SumOver(DOMAIN ix.records, LAMBDA c : Claim(ix.records[c], l))

ClaimsFit(ix) ==
  /\ \A l \in Layers : ClaimsOf(ix, l) <= Slots
  /\ Cardinality(DOMAIN ix.records) <= NumRows

Covered(ix, rw, sq) ==
  /\ RowsFull(rw) /\ TurnsCovered(ix, rw, sq) /\ RestsBare(ix) /\ TokensBounded(ix)
  /\ ClaimsFit(ix)

FullInv == Covered(index, rows, seqs) /\ raised \in {"none", "model"}

\* One chain: what its row holds and what it may still claim are its claim.
LEMMA ClaimSplits ==
  ASSUME ChainAssumption, NEW ix, NEW rw, NEW sq, NEW act, Consistent(ix, rw, sq, act),
         Covered(ix, rw, sq), NEW c \in DOMAIN ix.records, NEW l \in Layers,
         NEW n, n = Seen(rw, ix.records[c].seq)
  PROVE  /\ n \in Nat /\ Claim(ix.records[c], l) \in Nat
         /\ ix.records[c].state = "idle" =>
              n = Claim(ix.records[c], l) /\ n = ix.records[c].slots[l]
         /\ ix.records[c].state = "active" =>
              /\ Outstanding(ix.records[c], rw, l) \in Nat
              /\ Outstanding(ix.records[c], rw, l) + n = Claim(ix.records[c], l)
<1>1. PICK record : record = ix.records[c]
  OBVIOUS
<1>2. PICK s : s = record.seq
  OBVIOUS
<1>3. PICK a : a = record.slots[l]
  OBVIOUS
<1>4. PICK b : b = record.reserved[l]
  OBVIOUS
<1>5. record \in Record /\ a \in Nat /\ b \in Nat /\ record.state \in {"active", "idle"}
  BY <1>1, <1>3, <1>4 DEF Consistent, Shape, Record
<1>6. n = Seen(rw, s) /\ n \in Nat
  BY <1>1, <1>2 DEF Consistent, RowsShape, Seen
<1>7. Claim(record, l) = a + b
  BY <1>3, <1>4 DEF Claim
<1>8. s \in DOMAIN rw => rw[s].len[l] = n
  BY <1>6 DEF Covered, RowsFull, Seen
<1>9. s \notin DOMAIN rw => n = 0
  BY <1>6 DEF Seen
<1>10. CASE record.state = "idle"
  <2>1. c \in InState(ix, "idle")
    BY <1>1, <1>10 DEF InState
  <2>2. s \in DOMAIN rw /\ rw[s].len = record.slots
    BY <1>1, <1>2, <2>1 DEF Consistent, IdleExact
  <2>3. b = 0
    BY <1>1, <1>4, <2>1 DEF Covered, RestsBare
  <2>4. a = n
    BY <1>3, <1>8, <2>2
  <2> QED BY <1>1, <1>3, <1>5, <1>6, <1>7, <1>10, <2>3, <2>4
<1>11. CASE record.state = "active"
  <2>1. c \in InState(ix, "active")
    BY <1>1, <1>11 DEF InState
  <2>2. PICK q : q = sq[s]
    OBVIOUS
  <2>3. TurnCovered(record, q, rw)
    BY <1>1, <1>2, <2>1, <2>2 DEF Covered, TurnsCovered
  <2>4. s \in DOMAIN sq /\ ix.bySeq[s] = c
    BY <1>1, <1>2, <2>1 DEF Consistent, Agree
  <2>5. TurnExact(record.processed, q, n)
    BY <1>1, <1>6, <2>2, <2>4 DEF Consistent, TurnsExact
  <2>6. /\ q.prompt \in Nat /\ q.prefilled \in Nat /\ q.completion \in Nat /\ q.maxTokens \in Nat
        /\ q.queue \in {"waiting", "decoding"}
    BY <2>5 DEF TurnExact, Turn
  <2>7. a = record.processed /\ a + b = q.prompt + q.maxTokens - 1
    BY <1>3, <1>4, <2>3 DEF TurnCovered
  <2>8. a <= q.prefilled /\ q.completion < q.maxTokens /\ q.replay = -1 /\ a < q.prompt
    BY <2>3, <2>5, <2>7 DEF TurnCovered, TurnExact, NoReplay
  <2>9. q.queue = "waiting" => n = q.prefilled /\ q.prefilled < q.prompt
    BY <2>5 DEF TurnExact
  <2>10. q.queue = "decoding" => n = q.prompt + q.completion - 1 - Larger(0, q.replay)
    BY <2>5 DEF TurnExact
  <2>11. Larger(0, q.replay) = 0
    BY <2>8 DEF Larger
  <2>12. a <= n /\ n <= a + b
    <3>1. CASE q.queue = "waiting"
      BY <1>5, <1>6, <2>6, <2>7, <2>8, <2>9, <3>1
    <3>2. CASE q.queue = "decoding"
      <4>1. q.completion >= 1
        BY <2>5, <3>2 DEF TurnExact
      <4> QED BY <1>5, <1>6, <2>6, <2>7, <2>8, <2>10, <2>11, <3>2, <4>1
    <3> QED BY <2>6, <3>1, <3>2
  <2>13. PICK current : current = IF s \in DOMAIN rw THEN rw[s].len[l] ELSE a
    OBVIOUS
  <2>14. current = n
    BY <1>5, <1>6, <1>8, <1>9, <2>12, <2>13
  <2>15. Outstanding(record, rw, l) = Monus(b, Monus(n, a))
    BY <1>2, <1>3, <1>4, <2>13, <2>14 DEF Outstanding
  <2>16. Outstanding(record, rw, l) = a + b - n
    BY <1>5, <1>6, <2>12, <2>15 DEF Monus
  <2> QED BY <1>1, <1>5, <1>6, <1>7, <1>11, <2>12, <2>16
<1> QED BY <1>1, <1>5, <1>10, <1>11

\* The sums of the code are sums of functions.
LEMMA ClaimCells ==
  ASSUME NEW ix, NEW l, NEW f, \A c \in DOMAIN ix.records : f[c] = Claim(ix.records[c], l)
  PROVE  ClaimsOf(ix, l) = Cardinality(Cells(DOMAIN ix.records, f))
<1>1. {{c} \X (1..f[c]) : c \in DOMAIN ix.records}
        = {{c} \X (1..Claim(ix.records[c], l)) : c \in DOMAIN ix.records}
  OBVIOUS
<1> QED BY <1>1 DEF ClaimsOf, SumOver, Cells

LEMMA FreeCells ==
  ASSUME NEW rw, NEW l, NEW f, \A s \in DOMAIN rw : f[s] = rw[s].len[l]
  PROVE  FreeSlots(rw, l) = Slots - Cardinality(Cells(DOMAIN rw, f))
<1>1. {{s} \X (1..f[s]) : s \in DOMAIN rw} = {{s} \X (1..rw[s].len[l]) : s \in DOMAIN rw}
  OBVIOUS
<1> QED BY <1>1 DEF FreeSlots, SumOver, Cells

LEMMA OutstandingCells ==
  ASSUME NEW ix, NEW rw, NEW l, NEW f,
         \A c \in InState(ix, "active") : f[c] = Outstanding(ix.records[c], rw, l)
  PROVE  OutstandingSlots(ix, rw, l) = Cardinality(Cells(InState(ix, "active"), f))
<1>1. {{c} \X (1..f[c]) : c \in InState(ix, "active")}
        = {{c} \X (1..Outstanding(ix.records[c], rw, l)) : c \in InState(ix, "active")}
  OBVIOUS
<1> QED BY <1>1 DEF OutstandingSlots, SumOver, Cells

\* The rows by the chains that own them.
LEMMA RowsByChain ==
  ASSUME ChainAssumption, NEW ix, NEW rw, NEW sq, NEW act, Consistent(ix, rw, sq, act),
         NEW f, NEW g, \A c \in DOMAIN ix.records : f[c] \in Int,
         \A c \in DOMAIN ix.records :
           f[c] = IF ix.records[c].seq \in DOMAIN rw THEN g[ix.records[c].seq] ELSE 0
  PROVE  Cardinality(Cells(DOMAIN ix.records, f)) = Cardinality(Cells(DOMAIN rw, g))
<1> DEFINE S == {c \in DOMAIN ix.records : ix.records[c].seq \in DOMAIN rw}
           h == [c \in S |-> ix.records[c].seq]
<1>1. IsFiniteSet(DOMAIN ix.records) /\ S \in SUBSET DOMAIN ix.records
  BY IdsFinite DEF Consistent, Shape
<1>2. IsFiniteSet(S)
  BY <1>1, FS_Subset
<1>3. Cells(DOMAIN ix.records, f) = Cells(S, f)
  BY CellsNothing
<1>4. \A c \in S : h[c] \in DOMAIN rw /\ g[h[c]] = f[c] /\ f[c] \in Int
  OBVIOUS
<1>5. \A c, d \in S : h[c] = h[d] => c = d
  BY DEF Consistent, Agree
<1>6. \A s \in DOMAIN rw : \E c \in S : h[c] = s
  BY DEF Consistent, Agree
<1> HIDE DEF S, h
<1>7. Cardinality(Cells(S, f)) = Cardinality(Cells(DOMAIN rw, g))
  BY <1>2, <1>4, <1>5, <1>6, CellsRenamed
<1> QED BY <1>3, <1>7

\* The free slots over what is outstanding are those that nobody claims.
LEMMA SlotsLeft ==
  ASSUME ChainAssumption, NEW ix, NEW rw, NEW sq, NEW act, Consistent(ix, rw, sq, act),
         Covered(ix, rw, sq), NEW l \in Layers, NEW claims,
         claims = ClaimsOf(ix, l)
  PROVE  /\ claims \in Nat /\ claims <= Slots
         /\ FreeSlots(rw, l) \in Nat /\ OutstandingSlots(ix, rw, l) \in Nat
         /\ FreeSlots(rw, l) - OutstandingSlots(ix, rw, l) = Slots - claims
<1> DEFINE S == DOMAIN ix.records
           f == [c \in S |-> Seen(rw, ix.records[c].seq)]
           g == [c \in S |-> IF ix.records[c].state = "active"
                             THEN Outstanding(ix.records[c], rw, l) ELSE 0]
           h == [c \in S |-> Claim(ix.records[c], l)]
           k == [s \in DOMAIN rw |-> rw[s].len[l]]
           A == InState(ix, "active")
<1>1. IsFiniteSet(S) /\ \A c \in S : ix.records[c].state \in {"active", "idle"}
  BY IdsFinite DEF Consistent, Shape, Record
<1>2. \A c \in S : f[c] \in Nat /\ g[c] \in Nat /\ h[c] = f[c] + g[c]
  <2> SUFFICES ASSUME NEW c \in S PROVE f[c] \in Nat /\ g[c] \in Nat /\ h[c] = f[c] + g[c]
    OBVIOUS
  <2>1. PICK n : n = Seen(rw, ix.records[c].seq)
    OBVIOUS
  <2>2. /\ n \in Nat /\ Claim(ix.records[c], l) \in Nat
        /\ ix.records[c].state = "idle" => n = Claim(ix.records[c], l)
        /\ ix.records[c].state = "active" =>
             /\ Outstanding(ix.records[c], rw, l) \in Nat
             /\ Outstanding(ix.records[c], rw, l) + n = Claim(ix.records[c], l)
    BY <2>1, ClaimSplits
  <2> QED BY <1>1, <2>1, <2>2
<1>3. \A c \in S : f[c] = IF ix.records[c].seq \in DOMAIN rw THEN k[ix.records[c].seq] ELSE 0
  BY DEF Seen, Covered, RowsFull
<1>5. A \in SUBSET S /\ \A c \in S \ A : g[c] = 0
  BY DEF InState
<1>6. \A c \in A : g[c] = Outstanding(ix.records[c], rw, l)
  BY DEF InState
<1>7. claims = Cardinality(Cells(S, h))
  BY ClaimCells
<1>8. FreeSlots(rw, l) = Slots - Cardinality(Cells(DOMAIN rw, k))
  BY FreeCells
<1> HIDE DEF f, g, h, k
<1>4. \A c \in S : f[c] \in Int /\ g[c] \in Int
  BY <1>2
<1>9. OutstandingSlots(ix, rw, l) = Cardinality(Cells(A, g))
  BY <1>6, OutstandingCells
<1>10. Cells(S, g) = Cells(A, g)
  BY <1>5, CellsNothing
<1>11. Cardinality(Cells(S, f)) = Cardinality(Cells(DOMAIN rw, k))
  BY <1>3, <1>4, RowsByChain
<1>12. Cardinality(Cells(S, h)) = Cardinality(Cells(S, f)) + Cardinality(Cells(S, g))
  BY <1>1, <1>2, CellsSum
<1>13. Cardinality(Cells(S, f)) \in Nat /\ Cardinality(Cells(S, g)) \in Nat
  BY <1>1, <1>4, CellsFinite
<1>14. claims <= Slots /\ Slots \in Nat
  BY DEF Covered, ClaimsFit, ChainAssumption
<1> HIDE DEF S, A
<1> QED BY <1>7, <1>8, <1>9, <1>10, <1>11, <1>12, <1>13, <1>14

\* The rows in use and the rows that are promised are one for each chain.
LEMMA RowsLeft ==
  ASSUME ChainAssumption, NEW ix, NEW rw, NEW sq, NEW act, Consistent(ix, rw, sq, act),
         Covered(ix, rw, sq)
  PROVE  /\ Cardinality(DOMAIN ix.records) \in Nat /\ Cardinality(DOMAIN ix.records) <= NumRows
         /\ OutstandingRows(ix, rw) \in Nat /\ FreeRows(rw) \in Nat
         /\ FreeRows(rw) - OutstandingRows(ix, rw) = NumRows - Cardinality(DOMAIN ix.records)
<1> DEFINE S == DOMAIN ix.records
           A == InState(ix, "active")
           f == [c \in S |-> IF ix.records[c].seq \in DOMAIN rw THEN 1 ELSE 0]
           g == [c \in S |-> IF ix.records[c].state = "active"
                             THEN Monus(ix.records[c].reservedRows,
                                        IF ix.records[c].seq \in DOMAIN rw THEN 1 ELSE 0) ELSE 0]
           h == [c \in S |-> 1]
           k == [s \in DOMAIN rw |-> 1]
<1>1. IsFiniteSet(S) /\ \A c \in S : ix.records[c] \in Record
  BY IdsFinite DEF Consistent, Shape
<1>2. \A c \in S : f[c] \in Nat /\ g[c] \in Nat /\ h[c] = f[c] + g[c]
  <2> SUFFICES ASSUME NEW c \in S PROVE f[c] \in Nat /\ g[c] \in Nat /\ h[c] = f[c] + g[c]
    OBVIOUS
  <2>1. PICK record : record = ix.records[c]
    OBVIOUS
  <2>2. record.state \in {"active", "idle"} /\ record.reservedRows \in {0, 1}
    BY <1>1, <2>1 DEF Record
  <2>3. record.state = "idle" => record.seq \in DOMAIN rw
    BY <2>1 DEF Consistent, IdleExact, InState
  <2>4. record.state = "active" => record.seq \in DOMAIN rw \/ record.reservedRows = 1
    BY <2>1 DEF Covered, TurnsCovered, TurnCovered, InState
  <2>5. f[c] = (IF record.seq \in DOMAIN rw THEN 1 ELSE 0) /\ h[c] = 1
    BY <2>1
  <2>6. g[c] = IF record.state = "active" THEN Monus(record.reservedRows, f[c]) ELSE 0
    BY <2>1
  <2> HIDE DEF f, g, h
  <2> QED BY <2>2, <2>3, <2>4, <2>5, <2>6 DEF Monus
<1>3. \A c \in S : f[c] = IF ix.records[c].seq \in DOMAIN rw THEN k[ix.records[c].seq] ELSE 0
  OBVIOUS
<1>a. \A c \in S : h[c] = 1
  OBVIOUS
<1>5. A \in SUBSET S /\ \A c \in S \ A : g[c] = 0
  BY DEF InState
<1>6. OutstandingRows(ix, rw) = Cardinality(Cells(A, g))
  <2>1. \A c \in A : g[c] = Monus(ix.records[c].reservedRows,
                                  IF ix.records[c].seq \in DOMAIN rw THEN 1 ELSE 0)
    BY DEF InState
  <2> HIDE DEF g
  <2>2. {{c} \X (1..g[c]) : c \in A}
          = {{c} \X (1..Monus(ix.records[c].reservedRows,
                              IF ix.records[c].seq \in DOMAIN rw THEN 1 ELSE 0)) : c \in A}
    BY <2>1
  <2> QED BY <2>2 DEF OutstandingRows, SumOver, Cells
<1>7. \A s \in DOMAIN rw : k[s] = 1
  OBVIOUS
<1> HIDE DEF f, g, h, k
<1>4. \A c \in S : f[c] \in Int /\ g[c] \in Int
  BY <1>2
<1>8. Cells(S, g) = Cells(A, g)
  BY <1>5, CellsNothing
<1>9. Cardinality(Cells(S, f)) = Cardinality(Cells(DOMAIN rw, k))
  BY <1>3, <1>4, RowsByChain
<1>10. Cardinality(Cells(S, h)) = Cardinality(Cells(S, f)) + Cardinality(Cells(S, g))
  BY <1>1, <1>2, CellsSum
<1>11. Cardinality(Cells(S, f)) \in Nat /\ Cardinality(Cells(S, g)) \in Nat
  BY <1>1, <1>4, CellsFinite
<1>12. IsFiniteSet(DOMAIN rw)
  <2>1. DOMAIN rw \subseteq Ids
    BY <1>1 DEF Consistent, Agree, Record, SeqIds
  <2> QED BY <2>1, IdsFinite
<1>13. Cardinality(Cells(DOMAIN rw, k)) = Cardinality(DOMAIN rw)
  BY <1>7, <1>12, CellsOfOnes
<1>14. Cardinality(Cells(S, h)) = Cardinality(S)
  BY <1>1, <1>a, CellsOfOnes
<1>15. Cardinality(S) <= NumRows /\ NumRows \in Nat
  BY DEF Covered, ClaimsFit, ChainAssumption
<1>16. FreeRows(rw) = NumRows - Cardinality(DOMAIN rw)
  BY DEF FreeRows
<1> HIDE DEF S, A
<1>17. /\ Cardinality(S) \in Nat /\ OutstandingRows(ix, rw) \in Nat /\ FreeRows(rw) \in Nat
       /\ FreeRows(rw) - OutstandingRows(ix, rw) = NumRows - Cardinality(S)
  BY <1>6, <1>8, <1>9, <1>10, <1>11, <1>13, <1>14, <1>15, <1>16
<1> QED BY <1>15, <1>17 DEF S

-----------------------------------------------------------------------------
(* Forgetting and admitting with layers that are kept in full.             *)

\* r has the records of ix but those of cs.
Drops(ix, cs, r) ==
  /\ DOMAIN r.records = DOMAIN ix.records \ cs
  /\ \A d \in DOMAIN r.records : r.records[d] = ix.records[d]

\* The claims of the chains that are left.
LEMMA ForgetClaims ==
  ASSUME ChainAssumption, NEW ix, Shape(ix), NEW cs \in SUBSET DOMAIN ix.records, NEW r,
         Drops(ix, cs, r), NEW l \in Layers, NEW f, f = [c \in cs |-> Claim(ix.records[c], l)]
  PROVE  /\ ClaimsOf(ix, l) \in Nat /\ ClaimsOf(r, l) \in Nat
         /\ Cardinality(Cells(cs, f)) \in Nat
         /\ ClaimsOf(r, l) = ClaimsOf(ix, l) - Cardinality(Cells(cs, f))
<1> DEFINE S == DOMAIN ix.records
           h == [c \in S |-> Claim(ix.records[c], l)]
<1>1. IsFiniteSet(S) /\ IsFiniteSet(cs) /\ IsFiniteSet(S \ cs)
  BY IdsFinite DEF Shape
<1>2. \A c \in S : h[c] \in Int
  BY DEF Shape, Record, Claim
<1>3. \A c \in S : h[c] = Claim(ix.records[c], l)
  OBVIOUS
<1>4. DOMAIN r.records = S \ cs /\ \A c \in DOMAIN r.records : h[c] = Claim(r.records[c], l)
  BY DEF Drops
<1> HIDE DEF h
<1>5. ClaimsOf(ix, l) = Cardinality(Cells(S, h))
  BY <1>3, ClaimCells
<1>6. ClaimsOf(r, l) = Cardinality(Cells(S \ cs, h))
  BY <1>4, ClaimCells
<1>7. Cells(cs, f) = Cells(cs, h)
  BY <1>3 DEF Cells
<1>8. Cardinality(Cells(S, h)) = Cardinality(Cells(S \ cs, h)) + Cardinality(Cells(cs, h))
  BY <1>1, <1>2, CellsPart
<1>9. Cardinality(Cells(S \ cs, h)) \in Nat /\ Cardinality(Cells(cs, h)) \in Nat
  BY <1>1, <1>2, CellsFinite
<1> HIDE DEF S
<1> QED BY <1>5, <1>6, <1>7, <1>8, <1>9

\* Forgetting chains leaves what is promised covered.
LEMMA ForgetCovers ==
  ASSUME ChainAssumption, NEW ix, NEW rw, NEW sq, NEW act, Consistent(ix, rw, sq, act),
         Covered(ix, rw, sq),
         NEW cs \in SUBSET DOMAIN ix.records, NEW S, S = {ix.records[c].seq : c \in cs},
         NEW left, DOMAIN left = DOMAIN sq \ S, \A s \in DOMAIN left : left[s] = sq[s]
  PROVE  Covered(Forget(ix, cs), Without(rw, S), left)
<1>1. PICK r : r = Forget(ix, cs)
  OBVIOUS
<1>2. PICK q : q = Without(rw, S)
  OBVIOUS
<1>3. /\ DOMAIN r.records = DOMAIN ix.records \ cs
      /\ \A d \in DOMAIN r.records : r.records[d] = ix.records[d]
  BY <1>1, ForgetLeaves
<1>4. DOMAIN q = DOMAIN rw \ S /\ \A s \in DOMAIN q : q[s] = rw[s]
  BY <1>2 DEF Without, Restrict
<1>5. RowsFull(q)
  BY <1>4 DEF Covered, RowsFull
<1>6. TurnsCovered(r, q, left)
  <2> SUFFICES ASSUME NEW c \in InState(r, "active")
               PROVE  TurnCovered(r.records[c], left[r.records[c].seq], q)
    BY DEF TurnsCovered
  <2>1. c \in InState(ix, "active") /\ c \notin cs /\ r.records[c] = ix.records[c]
    BY <1>3 DEF InState
  <2>2. PICK s : s = ix.records[c].seq
    OBVIOUS
  <2>3. s \notin S /\ s \in DOMAIN sq
    BY <2>1, <2>2 DEF Consistent, Agree, InState
  <2>4. left[s] = sq[s] /\ (s \in DOMAIN q <=> s \in DOMAIN rw)
    BY <1>4, <2>3
  <2>5. TurnCovered(ix.records[c], sq[s], rw)
    BY <2>1, <2>2 DEF Covered, TurnsCovered
  <2>6. TurnCovered(ix.records[c], sq[s], q)
    BY <2>2, <2>4, <2>5 DEF TurnCovered
  <2> QED BY <2>1, <2>2, <2>4, <2>6
<1>7. RestsBare(r) /\ TokensBounded(r)
  BY <1>3 DEF Covered, RestsBare, TokensBounded, InState
<1>8. \A l \in Layers : ClaimsOf(r, l) <= Slots
  <2> TAKE l \in Layers
  <2>1. PICK f : f = [c \in cs |-> Claim(ix.records[c], l)]
    OBVIOUS
  <2>2. Drops(ix, cs, r)
    BY <1>3 DEF Drops
  <2>a. Shape(ix)
    BY DEF Consistent
  <2>3. /\ ClaimsOf(ix, l) \in Nat /\ ClaimsOf(r, l) \in Nat
        /\ Cardinality(Cells(cs, f)) \in Nat
        /\ ClaimsOf(r, l) = ClaimsOf(ix, l) - Cardinality(Cells(cs, f))
    BY <2>1, <2>2, <2>a, ForgetClaims
  <2>4. ClaimsOf(ix, l) <= Slots /\ Slots \in Nat
    BY DEF Covered, ClaimsFit, ChainAssumption
  <2> QED BY <2>3, <2>4
<1>9. Cardinality(DOMAIN r.records) <= NumRows
  <2>1. IsFiniteSet(DOMAIN ix.records)
    BY IdsFinite DEF Consistent, Shape
  <2>2. Cardinality(DOMAIN r.records) <= Cardinality(DOMAIN ix.records)
    BY <1>3, <2>1, FS_Subset
  <2>3. Cardinality(DOMAIN ix.records) \in Nat /\ Cardinality(DOMAIN r.records) \in Nat
    BY <1>3, <2>1, FS_Subset, FS_CardinalityType
  <2> QED BY <2>2, <2>3 DEF Covered, ClaimsFit, ChainAssumption
<1> QED BY <1>1, <1>2, <1>5, <1>6, <1>7, <1>8, <1>9 DEF Covered, ClaimsFit

\* What the row of c holds before the turn.
Existing(ix, c, l) == IF c \in DOMAIN ix.records THEN ix.records[c].slots[l] ELSE 0

\* What the chains V hold.
Held(ix, V, l) == SumOver(V, LAMBDA d : ix.records[d].slots[l])

\* What a plan reserves, and that its victims make room for it.
Reserves(ix, rw, c, prompt, gen, plan) ==
  /\ plan.reserved = [l \in Layers |->
       RequiredSlots(Existing(ix, c, l), Monus(prompt, Reused(ix, c)), gen, l)]
  /\ plan.reservedRows = (IF c \in DOMAIN ix.records THEN 0 ELSE 1)
  /\ Monus(plan.reservedRows, Monus(FreeRows(rw), OutstandingRows(ix, rw)))
       <= Cardinality(plan.victims)
  /\ \A l \in Layers :
       Monus(plan.reserved[l], Monus(FreeSlots(rw, l), OutstandingSlots(ix, rw, l)))
         <= Held(ix, plan.victims, l)

LEMMA PlanReserves ==
  ASSUME NEW ix, NEW rw, NEW c, NEW s, NEW prompt, NEW gen,
         NEW plan \in Plans(ix, rw, c, s, prompt, gen)
  PROVE  Reserves(ix, rw, c, prompt, gen, plan)
<1> DEFINE known == c \in DOMAIN ix.records
           existing == IF known THEN ix.records[c].slots ELSE Nothing
           reused == IF known THEN ix.records[c].processed ELSE 0
           required == [l \in Layers |-> RequiredSlots(existing[l], Monus(prompt, reused), gen, l)]
           requiredRows == IF known THEN 0 ELSE 1
           slotDeficit(l) == Monus(required[l], Monus(FreeSlots(rw, l), OutstandingSlots(ix, rw, l)))
           rowDeficit == Monus(requiredRows, Monus(FreeRows(rw), OutstandingRows(ix, rw)))
           covers(V) == /\ rowDeficit <= Cardinality(V)
                        /\ \A l \in Layers :
                             slotDeficit(l) <= SumOver(V, LAMBDA d : ix.records[d].slots[l])
           victims == {V \in LeastRecent(ix, c) :
                         covers(V) /\ \A W \in LeastRecent(ix, c) : covers(W) => V \subseteq W}
<1>a. plan \in {[chain |-> c, seq |-> s, reused |-> reused, victims |-> V,
                reserved |-> required, reservedRows |-> requiredRows] : V \in victims}
  BY DEF Plans
<1>b. \A V \in victims : covers(V)
  <2> HIDE DEF covers
  <2> QED OBVIOUS
<1>1. PICK V :
        /\ plan = [chain |-> c, seq |-> s, reused |-> reused, victims |-> V,
                   reserved |-> required, reservedRows |-> requiredRows]
        /\ covers(V)
  <2> HIDE DEF covers, victims, required, requiredRows, reused
  <2> QED BY <1>a, <1>b
<1>2. \A l \in Layers : existing[l] = Existing(ix, c, l)
  BY DEF Existing, Nothing
<1>3. reused = Reused(ix, c)
  BY DEF Reused
<1>4. required = [l \in Layers |->
       RequiredSlots(Existing(ix, c, l), Monus(prompt, Reused(ix, c)), gen, l)]
  BY <1>2, <1>3
<1>5. requiredRows = IF c \in DOMAIN ix.records THEN 0 ELSE 1
  OBVIOUS
<1> HIDE DEF required, requiredRows, reused
<1>6. plan.reserved = required /\ plan.reservedRows = requiredRows /\ plan.victims = V
  <2> HIDE DEF covers
  <2> QED BY <1>1
<1> QED BY <1>1, <1>4, <1>5, <1>6 DEF Reserves, Held

\* The record an admission leaves for c.
AdmittedRecord(ix, c, plan, record) ==
  /\ record.processed = Reused(ix, c)
  /\ \A l \in Layers : record.slots[l] = Existing(ix, c, l)
  /\ record.reserved = plan.reserved /\ record.reservedRows = plan.reservedRows
  /\ record.tokens = IF c \in DOMAIN ix.records THEN ix.records[c].tokens ELSE 0

LEMMA ApplyRecords ==
  ASSUME ChainAssumption, NEW ix, Shape(ix), NEW rw, NEW c, NEW s, NEW prompt \in Nat,
         NEW gen \in Nat, NEW plan \in Plans(ix, rw, c, s, prompt, gen),
         NEW r, r = ApplyAdmission(ix, plan)
  PROVE  AdmittedRecord(ix, c, plan, r.records[c])
<1>a. plan.chain = c /\ plan.seq = s /\ plan.reused = Reused(ix, c)
  BY PlanFor
<1>b. plan.victims \subseteq InState(ix, "idle") \ {c}
  BY PlanTakes
<1>2. PICK left : left = Forget(ix, plan.victims)
  OBVIOUS
<1>3. /\ DOMAIN left.records = DOMAIN ix.records \ plan.victims
      /\ \A d \in DOMAIN left.records : left.records[d] = ix.records[d]
  BY <1>b, <1>2, ForgetLeaves DEF InState
<1>c. Shape(left)
  BY <1>b, <1>2, ForgetShape DEF InState
<1>4. PICK fresh : fresh = [seq |-> plan.seq, state |-> "active", processed |-> 0, tokens |-> 0,
                            slots |-> Nothing, reserved |-> plan.reserved,
                            reservedRows |-> plan.reservedRows]
  OBVIOUS
<1>5. PICK next : next = [left.records[c] EXCEPT !.state = "active",
                            !.reserved = plan.reserved, !.reservedRows = plan.reservedRows]
  OBVIOUS
<1>6. PICK record : record = IF c \in DOMAIN left.records THEN next ELSE fresh
  OBVIOUS
<1>7. ApplyAdmission(ix, plan) = Begun(left, c, s, record)
  BY <1>a, <1>2, <1>4, <1>5, <1>6 DEF ApplyAdmission, Begun
<1>8. r = Begun(left, c, s, record)
  BY <1>7
<1>9. /\ DOMAIN r.records = DOMAIN left.records \cup {c}
      /\ \A d \in DOMAIN r.records : r.records[d] = IF d = c THEN record ELSE left.records[d]
  BY <1>c, <1>8, BegunFields
<1>10. r.records[c] = record
  BY <1>9
<1>11. CASE c \notin DOMAIN ix.records
  <2>1. record = fresh
    BY <1>3, <1>6, <1>11
  <2>2. /\ fresh.processed = 0 /\ fresh.tokens = 0 /\ fresh.slots = Nothing
        /\ fresh.reserved = plan.reserved /\ fresh.reservedRows = plan.reservedRows
    BY <1>4
  <2> QED BY <1>10, <1>11, <2>1, <2>2 DEF AdmittedRecord, Reused, Existing, Nothing
<1>12. CASE c \in DOMAIN ix.records
  <2>1. record = next /\ left.records[c] = ix.records[c] /\ ix.records[c] \in Record
    BY <1>b, <1>3, <1>6, <1>12 DEF InState, Shape
  <2>2. /\ next.processed = ix.records[c].processed /\ next.tokens = ix.records[c].tokens
        /\ next.slots = ix.records[c].slots
        /\ next.reserved = plan.reserved /\ next.reservedRows = plan.reservedRows
    BY <1>5, <2>1 DEF Record
  <2> QED BY <1>10, <1>12, <2>1, <2>2 DEF AdmittedRecord, Reused, Existing
<1> QED BY <1>11, <1>12

\* A turn that finds n tokens in its row and keeps all it writes grows to its peak.
LEMMA PeakOfTurn ==
  ASSUME ChainAssumption, KeepsAll, NEW l \in Layers, NEW n \in Nat, NEW prompt \in Nat,
         NEW gen \in Nat, n < prompt, gen >= 1, Fits(prompt, gen),
         NEW growth, growth = RequiredSlots(n, prompt - n, gen, l)
  PROVE  growth \in Nat /\ growth + n = prompt + gen - 1
<1>1. Budget[l] \in Nat /\ Budget[l] >= MaxModelLen /\ MaxModelLen \in Nat
  BY DEF ChainAssumption, KeepsAll
<1>2. Smaller(n + (prompt - n), Budget[l]) = prompt
  BY <1>1 DEF Smaller, Fits
<1>3. growth = Larger(n + (prompt - n), prompt + gen - 1) - n
  BY <1>2 DEF RequiredSlots
<1>4. Larger(n + (prompt - n), prompt + gen - 1) = prompt + gen - 1
  BY DEF Larger
<1> QED BY <1>3, <1>4

\* The record of an admitted turn, and the turn it is for.
LEMMA AdmittedTurn ==
  ASSUME ChainAssumption, KeepsAll, NEW ix, NEW rw, NEW sq, NEW act,
         Consistent(ix, rw, sq, act), Covered(ix, rw, sq),
         NEW c, NEW s, NEW prompt \in Nat, NEW gen \in Nat, gen >= 1, Fits(prompt, gen),
         NEW plan \in Plans(ix, rw, c, s, prompt, gen), MayAdmit(ix, c, s, prompt),
         NEW record, AdmittedRecord(ix, c, plan, record), NEW left,
         c \in DOMAIN ix.records => record.seq \in DOMAIN left
  PROVE  /\ TurnCovered(record, Queueing(plan, prompt, gen), left)
         /\ record.tokens <= MaxModelLen
<1>1. plan.reused = Reused(ix, c) /\ Reserves(ix, rw, c, prompt, gen, plan)
  BY PlanFor, PlanReserves DEF Consistent
<1>2. PICK n : n = Reused(ix, c)
  OBVIOUS
<1>3. n \in Nat /\ n < prompt
  BY <1>2 DEF MayAdmit, Reused, InState, Consistent, Shape, Record
<1>4. \A l \in Layers : Existing(ix, c, l) = n
  <2> TAKE l \in Layers
  <2>1. CASE c \notin DOMAIN ix.records
    BY <1>2, <2>1 DEF Existing, Reused
  <2>2. CASE c \in DOMAIN ix.records
    <3>1. c \in InState(ix, "idle")
      BY <2>2 DEF MayAdmit
    <3>2. PICK t : t = ix.records[c].seq
      OBVIOUS
    <3>3. t \in DOMAIN rw /\ rw[t].len = ix.records[c].slots /\ rw[t].seen = ix.records[c].processed
      BY <3>1, <3>2 DEF Consistent, IdleExact
    <3>4. rw[t].len[l] = rw[t].seen
      BY <3>3 DEF Covered, RowsFull
    <3> QED BY <1>2, <2>2, <3>3, <3>4 DEF Existing, Reused
  <2> QED BY <2>1, <2>2
<1>5. Monus(prompt, n) = prompt - n
  BY <1>3 DEF Monus
<1>6. \A l \in Layers : plan.reserved[l] = RequiredSlots(n, prompt - n, gen, l)
  BY <1>1, <1>2, <1>4, <1>5 DEF Reserves
<1>7. \A l \in Layers : plan.reserved[l] \in Nat /\ plan.reserved[l] + n = prompt + gen - 1
  <2> TAKE l \in Layers
  <2>1. PICK growth : growth = RequiredSlots(n, prompt - n, gen, l)
    OBVIOUS
  <2>2. growth \in Nat /\ growth + n = prompt + gen - 1
    BY <1>3, <2>1, PeakOfTurn
  <2> QED BY <1>6, <2>1, <2>2
<1>8. /\ record.processed = n /\ record.reserved = plan.reserved
      /\ record.reservedRows = plan.reservedRows /\ \A l \in Layers : record.slots[l] = n
  BY <1>2, <1>4 DEF AdmittedRecord
<1>9. PICK q : q = Queueing(plan, prompt, gen)
  OBVIOUS
<1>10. /\ q.prompt = prompt /\ q.maxTokens = gen /\ q.replay = NoReplay /\ q.completion = 0
       /\ q.prefilled = n
  BY <1>1, <1>2, <1>9 DEF Queueing
<1>11. record.seq \in DOMAIN left \/ record.reservedRows = 1
  BY <1>1, <1>8 DEF Reserves
<1>12. \A l \in Layers : n + plan.reserved[l] = prompt + gen - 1
  BY <1>3, <1>7
<1>13. TurnCovered(record, q, left)
  <2>1. q.completion < q.maxTokens /\ record.processed <= q.prefilled
    BY <1>3, <1>8, <1>10
  <2>2. \A l \in Layers : /\ record.slots[l] = record.processed
                          /\ record.slots[l] + record.reserved[l] = q.prompt + q.maxTokens - 1
    BY <1>8, <1>10, <1>12
  <2> QED BY <1>10, <1>11, <2>1, <2>2 DEF TurnCovered, Fits
<1>14. record.tokens <= MaxModelLen
  <2>1. MaxModelLen \in Nat
    BY DEF ChainAssumption
  <2>2. c \in DOMAIN ix.records => ix.records[c].tokens <= MaxModelLen
    BY DEF Covered, TokensBounded
  <2> QED BY <2>1, <2>2 DEF AdmittedRecord
<1> QED BY <1>9, <1>13, <1>14

\* The claims on layer l after an admission: those of the victims are gone.
LEMMA AdmitClaims ==
  ASSUME ChainAssumption, NEW ix, NEW rw, NEW sq, NEW act,
         Consistent(ix, rw, sq, act), Covered(ix, rw, sq), NEW c, NEW s, NEW V, NEW r,
         Takes(ix, V, c, s, r), c \in DOMAIN ix.records => c \in InState(ix, "idle"),
         NEW l \in Layers, NEW more \in Nat, Claim(r.records[c], l) = Existing(ix, c, l) + more
  PROVE  /\ Held(ix, V, l) \in Nat
         /\ ClaimsOf(r, l) = ClaimsOf(ix, l) + more - Held(ix, V, l)
<1> DEFINE S == DOMAIN ix.records
           D == DOMAIN r.records
           h == [d \in S |-> Claim(ix.records[d], l)]
           k == [d \in D |-> Claim(r.records[d], l)]
<1>1. /\ V \subseteq S \ {c} /\ D = (S \ V) \cup {c}
      /\ \A d \in V : ix.records[d].state = "idle"
      /\ \A d \in D : d # c => r.records[d] = ix.records[d]
      /\ c \in S => ix.records[c].state = "idle"
  BY DEF Takes, InState
<1>2. IsFiniteSet(S)
  BY IdsFinite DEF Consistent, Shape
<1>3. IsFiniteSet(V) /\ IsFiniteSet(S \ V) /\ IsFiniteSet((S \ V) \ {c})
  BY <1>1, <1>2, FS_Subset
<1>4. \A d \in S : /\ Claim(ix.records[d], l) \in Nat
                   /\ ix.records[d].state = "idle" => Claim(ix.records[d], l) = ix.records[d].slots[l]
  <2> TAKE d \in S
  <2>1. PICK n : n = Seen(rw, ix.records[d].seq)
    OBVIOUS
  <2>2. /\ n \in Nat /\ Claim(ix.records[d], l) \in Nat
        /\ ix.records[d].state = "idle" =>
             n = Claim(ix.records[d], l) /\ n = ix.records[d].slots[l]
    BY <2>1, ClaimSplits
  <2> QED BY <2>2
<1>5. \A d \in S : h[d] \in Nat /\ h[d] = Claim(ix.records[d], l)
  BY <1>4
<1>6. \A d \in D : k[d] = Claim(r.records[d], l)
  OBVIOUS
<1>7. \A d \in V : h[d] = ix.records[d].slots[l]
  BY <1>1, <1>4
<1>8. c \in S => h[c] = Existing(ix, c, l)
  BY <1>1, <1>4 DEF Existing
<1> HIDE DEF h, k
<1>9. \A d \in S : h[d] \in Int
  BY <1>5
<1>10. ClaimsOf(ix, l) = Cardinality(Cells(S, h))
  BY <1>5, ClaimCells
<1>11. ClaimsOf(r, l) = Cardinality(Cells(D, k))
  BY <1>6, ClaimCells
<1>12. PICK E : E = Existing(ix, c, l)
  OBVIOUS
<1>13. E \in Nat /\ k[c] = E + more /\ c \in D
  BY <1>1, <1>5, <1>6, <1>8, <1>12 DEF Existing
<1>14. \A d \in (S \ V) \ {c} : k[d] = h[d]
  BY <1>1, <1>5, <1>6
<1>15. \A d \in D : k[d] \in Int
  BY <1>1, <1>5, <1>13, <1>14
<1>16. D \ {c} = (S \ V) \ {c}
  BY <1>1
<1>17. IsFiniteSet(D)
  <2>1. IsFiniteSet((S \ V) \cup {c})
    BY <1>3, FS_AddElement
  <2> QED BY <1>1, <2>1
<1>18. Cells((S \ V) \ {c}, k) = Cells((S \ V) \ {c}, h)
  BY <1>14 DEF Cells
<1> HIDE DEF S, D
<1>19. Cardinality(Cells(D, k)) = Cardinality(Cells((S \ V) \ {c}, h)) + (E + more)
  <2>1. k[c] \in Nat
    BY <1>13
  <2>2. Cardinality(Cells(D, k)) = Cardinality(Cells(D \ {c}, k)) + k[c]
    BY <1>13, <1>15, <1>17, <2>1, CellsSplit
  <2> QED BY <1>13, <1>16, <1>18, <2>2
<1>20. V \in SUBSET S /\ \A d \in V : h[d] \in Int
  BY <1>1, <1>9
<1>21. Cardinality(Cells(S, h)) = Cardinality(Cells(S \ V, h)) + Cardinality(Cells(V, h))
  BY <1>2, <1>9, <1>20, CellsPart
<1>22. /\ Cardinality(Cells(V, h)) \in Nat
       /\ Cardinality(Cells((S \ V) \ {c}, h)) \in Nat
  BY <1>3, <1>9, <1>20, CellsFinite
<1>23. Cardinality(Cells(S \ V, h)) = Cardinality(Cells((S \ V) \ {c}, h)) + E
  <2>1. CASE c \in S
    <3>1. c \in S \ V /\ h[c] \in Nat /\ h[c] = E /\ \A d \in S \ V : h[d] \in Int
      BY <1>1, <1>5, <1>8, <1>9, <1>12, <2>1
    <3> QED BY <1>3, <3>1, CellsSplit
  <2>2. CASE c \notin S
    <3>1. (S \ V) \ {c} = S \ V /\ E = 0
      BY <1>12, <2>2 DEF Existing, S
    <3> QED BY <1>22, <3>1
  <2> QED BY <2>1, <2>2
<1>24. Held(ix, V, l) = Cardinality(Cells(V, h))
  <2>1. {{d} \X (1..h[d]) : d \in V} = {{d} \X (1..ix.records[d].slots[l]) : d \in V}
    BY <1>7
  <2> QED BY <2>1 DEF Held, SumOver, Cells
<1> QED BY <1>10, <1>11, <1>13, <1>19, <1>21, <1>22, <1>23, <1>24

\* An admission takes no slot and no row that is promised.
LEMMA AdmitFits ==
  ASSUME ChainAssumption, NEW ix, NEW rw, NEW sq, NEW act,
         Consistent(ix, rw, sq, act), Covered(ix, rw, sq),
         NEW c, NEW s, NEW prompt, NEW gen, NEW plan, Reserves(ix, rw, c, prompt, gen, plan),
         plan.reserved \in [Layers -> Nat],
         NEW r, Takes(ix, plan.victims, c, s, r),
         c \in DOMAIN ix.records => c \in InState(ix, "idle"),
         AdmittedRecord(ix, c, plan, r.records[c])
  PROVE  ClaimsFit(r)
<1>1. PICK V : V = plan.victims
  OBVIOUS
<1>2. \A l \in Layers : ClaimsOf(r, l) <= Slots
  <2> TAKE l \in Layers
  <2>1. PICK more : more = plan.reserved[l]
    OBVIOUS
  <2>2. PICK freed : freed = Held(ix, V, l)
    OBVIOUS
  <2>3. PICK claims : claims = ClaimsOf(ix, l)
    OBVIOUS
  <2>4. more \in Nat /\ Takes(ix, V, c, s, r) /\ Claim(r.records[c], l) = Existing(ix, c, l) + more
    BY <1>1, <2>1 DEF AdmittedRecord, Claim
  <2>5. freed \in Nat /\ ClaimsOf(r, l) = claims + more - freed
    BY <2>2, <2>3, <2>4, AdmitClaims
  <2>6. /\ claims \in Nat /\ claims <= Slots
        /\ FreeSlots(rw, l) \in Nat /\ OutstandingSlots(ix, rw, l) \in Nat
        /\ FreeSlots(rw, l) - OutstandingSlots(ix, rw, l) = Slots - claims
    BY <2>3, SlotsLeft
  <2>7. Monus(more, Monus(FreeSlots(rw, l), OutstandingSlots(ix, rw, l))) <= freed
    BY <1>1, <2>1, <2>2 DEF Reserves
  <2>8. Slots \in Nat
    BY DEF ChainAssumption
  <2>9. Monus(FreeSlots(rw, l), OutstandingSlots(ix, rw, l)) = Slots - claims
    BY <2>6, <2>8 DEF Monus
  <2>10. Monus(more, Slots - claims) <= freed
    BY <2>7, <2>9
  <2>11. more - (Slots - claims) <= freed
    BY <2>4, <2>5, <2>6, <2>8, <2>10 DEF Monus
  <2> QED BY <2>4, <2>5, <2>6, <2>8, <2>11
<1>3. Cardinality(DOMAIN r.records) <= NumRows
  <2>1. PICK S : S = DOMAIN ix.records
    OBVIOUS
  <2>2. V \subseteq S \ {c} /\ DOMAIN r.records = (S \ V) \cup {c}
    BY <1>1, <2>1 DEF Takes, InState
  <2>3. IsFiniteSet(S)
    BY <2>1, IdsFinite DEF Consistent, Shape
  <2>4. /\ IsFiniteSet(V) /\ IsFiniteSet(S \ V) /\ Cardinality(V) \in Nat
        /\ Cardinality(S \ V) \in Nat
    BY <2>2, <2>3, FS_Subset, FS_CardinalityType
  <2>5. Cardinality(S \ V) = Cardinality(S) - Cardinality(V)
    <3>1. S \cap V = V
      BY <2>2
    <3>2. Cardinality(S \ V) = Cardinality(S) - Cardinality(S \cap V)
      BY <2>3, FS_Difference
    <3> QED BY <3>1, <3>2
  <2>6. PICK more : more = plan.reservedRows
    OBVIOUS
  <2>7. more = (IF c \in S THEN 0 ELSE 1)
        /\ Monus(more, Monus(FreeRows(rw), OutstandingRows(ix, rw))) <= Cardinality(V)
    BY <1>1, <2>1, <2>6 DEF Reserves
  <2>8. /\ Cardinality(S) \in Nat /\ Cardinality(S) <= NumRows
        /\ OutstandingRows(ix, rw) \in Nat /\ FreeRows(rw) \in Nat
        /\ FreeRows(rw) - OutstandingRows(ix, rw) = NumRows - Cardinality(S)
    BY <2>1, RowsLeft
  <2>9. NumRows \in Nat
    BY DEF ChainAssumption
  <2>10. Monus(FreeRows(rw), OutstandingRows(ix, rw)) = NumRows - Cardinality(S)
    BY <2>8, <2>9 DEF Monus
  <2>11. more - (NumRows - Cardinality(S)) <= Cardinality(V)
    BY <2>4, <2>7, <2>8, <2>9, <2>10 DEF Monus
  <2>12. PICK W : W = S \ V
    OBVIOUS
  <2>13. IsFiniteSet(W) /\ Cardinality(W) \in Nat /\ (c \in W <=> c \in S)
    BY <2>2, <2>4, <2>12
  <2>14. Cardinality(W \cup {c}) = IF c \in W THEN Cardinality(W) ELSE Cardinality(W) + 1
    BY <2>13, FS_AddElement
  <2>15. Cardinality(W \cup {c}) = Cardinality(W) + more
    BY <2>7, <2>13, <2>14
  <2>16. DOMAIN r.records = W \cup {c} /\ Cardinality(W) = Cardinality(S) - Cardinality(V)
    BY <2>2, <2>5, <2>12
  <2>17. more \in Nat
    BY <2>7
  <2> QED BY <2>4, <2>8, <2>9, <2>11, <2>13, <2>15, <2>16, <2>17
<1> QED BY <1>2, <1>3 DEF ClaimsFit

\* An admission leaves all that is promised covered.
LEMMA AdmitCovers ==
  ASSUME ChainAssumption, KeepsAll, NEW ix, NEW rw, NEW sq, NEW act,
         Consistent(ix, rw, sq, act), Covered(ix, rw, sq),
         NEW c, NEW s, NEW prompt \in Nat, NEW gen \in Nat, gen >= 1, Fits(prompt, gen),
         NEW plan \in Plans(ix, rw, c, s, prompt, gen), MayAdmit(ix, c, s, prompt),
         NEW r, r = ApplyAdmission(ix, plan)
  PROVE  Covered(r, FreeVictims(ix, rw, plan), With(sq, s, Queueing(plan, prompt, gen)))
<1>1. PICK V : V = plan.victims
  OBVIOUS
<1>2. PICK record : record = r.records[c]
  OBVIOUS
<1>3. PICK q : q = FreeVictims(ix, rw, plan)
  OBVIOUS
<1>4. PICK turn : turn = Queueing(plan, prompt, gen)
  OBVIOUS
<1>5. PICK sr : sr = With(sq, s, turn)
  OBVIOUS
<1>6. Shape(ix)
  BY DEF Consistent
<1>7. Takes(ix, V, c, s, r)
  BY <1>1, <1>6, AdmitTakes
<1>8. /\ V \subseteq InState(ix, "idle") \ {c}
      /\ DOMAIN r.records = (DOMAIN ix.records \ V) \cup {c}
      /\ record.seq = s /\ record.state = "active"
      /\ \A d \in DOMAIN r.records : d # c => r.records[d] = ix.records[d]
  BY <1>2, <1>7 DEF Takes
<1>9. PICK S : S = {ix.records[d].seq : d \in V}
  OBVIOUS
<1>10. DOMAIN q = DOMAIN rw \ S /\ \A t \in DOMAIN q : q[t] = rw[t]
  BY <1>1, <1>3, <1>9 DEF FreeVictims, Without, Restrict
<1>11. sr[s] = turn /\ \A t \in DOMAIN sq : t # s => sr[t] = sq[t]
  BY <1>5 DEF With
<1>12. \A d \in DOMAIN ix.records \ V : ix.records[d].seq \notin S
  BY <1>8, <1>9 DEF Consistent, Agree, InState
<1>13. \A d \in DOMAIN ix.records : d # c => ix.records[d].seq # s
  BY DEF MayAdmit, Consistent, Agree, InState
<1>14. c \in DOMAIN ix.records => c \in InState(ix, "idle") /\ s = ix.records[c].seq
  BY DEF MayAdmit, InState
<1>15. c \in DOMAIN ix.records => s \in DOMAIN q
  <2> SUFFICES ASSUME c \in DOMAIN ix.records PROVE s \in DOMAIN q
    OBVIOUS
  <2>1. s \in DOMAIN rw
    BY <1>14 DEF Consistent, IdleExact
  <2>2. s \notin S
    BY <1>8, <1>12, <1>14
  <2> QED BY <1>10, <2>1, <2>2
<1>16. AdmittedRecord(ix, c, plan, record)
  BY <1>2, <1>6, ApplyRecords
<1>18. c \in DOMAIN ix.records => record.seq \in DOMAIN q
  BY <1>8, <1>15
<1>19. TurnCovered(record, turn, q) /\ record.tokens <= MaxModelLen
  BY <1>4, <1>16, <1>18, AdmittedTurn
<1>20. RowsFull(q)
  BY <1>10 DEF Covered, RowsFull
<1>21. TurnsCovered(r, q, sr)
  <2> SUFFICES ASSUME NEW d \in InState(r, "active")
               PROVE  TurnCovered(r.records[d], sr[r.records[d].seq], q)
    BY DEF TurnsCovered
  <2>1. CASE d = c
    BY <1>2, <1>8, <1>11, <1>19, <2>1
  <2>2. CASE d # c
    <3>1. r.records[d] = ix.records[d] /\ d \in InState(ix, "active") /\ d \in DOMAIN ix.records \ V
      BY <1>8, <2>2 DEF InState
    <3>2. PICK t : t = ix.records[d].seq
      OBVIOUS
    <3>3. t \notin S /\ t # s /\ t \in DOMAIN sq
      BY <1>12, <1>13, <2>2, <3>1, <3>2 DEF Consistent, Agree
    <3>4. sr[t] = sq[t] /\ (t \in DOMAIN q <=> t \in DOMAIN rw)
      BY <1>10, <1>11, <3>3
    <3>5. TurnCovered(ix.records[d], sq[t], rw)
      BY <3>1, <3>2 DEF Covered, TurnsCovered
    <3>6. TurnCovered(ix.records[d], sr[t], q)
      BY <3>2, <3>4, <3>5 DEF TurnCovered
    <3> QED BY <3>1, <3>2, <3>6
  <2> QED BY <2>1, <2>2
<1>22. RestsBare(r)
  <2> SUFFICES ASSUME NEW d \in InState(r, "idle"), NEW l \in Layers
               PROVE  r.records[d].reserved[l] = 0
    BY DEF RestsBare
  <2>1. d # c
    BY <1>2, <1>8 DEF InState
  <2>2. d \in InState(ix, "idle") /\ r.records[d] = ix.records[d]
    BY <1>8, <2>1 DEF InState
  <2> QED BY <2>2 DEF Covered, RestsBare
<1>23. TokensBounded(r)
  BY <1>2, <1>8, <1>19 DEF Covered, TokensBounded
<1>24. ClaimsFit(r)
  <2>1. Reserves(ix, rw, c, prompt, gen, plan)
    BY PlanReserves
  <2>2. plan.reserved \in [Layers -> Nat]
    BY <1>6, PlanTakes
  <2>3. Takes(ix, plan.victims, c, s, r)
    BY <1>1, <1>7
  <2>4. AdmittedRecord(ix, c, plan, r.records[c])
    BY <1>2, <1>16
  <2>5. c \in DOMAIN ix.records => c \in InState(ix, "idle")
    BY <1>14
  <2> QED BY <2>1, <2>2, <2>3, <2>4, <2>5, AdmitFits
<1>25. Covered(r, q, sr)
  BY <1>20, <1>21, <1>22, <1>23, <1>24 DEF Covered
<1> QED BY <1>3, <1>4, <1>5, <1>25

-----------------------------------------------------------------------------
(* A turn runs with layers that are kept in full.                          *)

\* Rows that hold everything grow alike in every layer, ...
LEMMA GrowFull ==
  ASSUME NEW rw, RowsShape(rw), RowsFull(rw), NEW s, NEW n \in Nat, NEW q, q = Grow(rw, s, n)
  PROVE  RowsFull(q)
<1>1. PICK old : old = IF s \in DOMAIN rw THEN rw[s] ELSE [len |-> Nothing, seen |-> 0]
  OBVIOUS
<1>2. PICK new : new = [len |-> [l \in Layers |-> old.len[l] + n], seen |-> old.seen + n]
  OBVIOUS
<1>3. q = With(rw, s, new)
  BY <1>1, <1>2 DEF Grow
<1>4. \A l \in Layers : old.len[l] = old.seen
  BY <1>1 DEF RowsFull, Nothing
<1>5. \A l \in Layers : new.len[l] = new.seen
  BY <1>2, <1>4
<1>6. DOMAIN q = DOMAIN rw \cup {s} /\ \A t \in DOMAIN q : q[t] = IF t = s THEN new ELSE rw[t]
  BY <1>3 DEF With
<1> QED BY <1>5, <1>6 DEF RowsFull

\* ... and are not compacted.
LEMMA CompactFull ==
  ASSUME ChainAssumption, KeepsAll, NEW rw, RowsShape(rw), RowsFull(rw), NEW s \in DOMAIN rw,
         rw[s].seen <= MaxModelLen, NEW q, q = Compact(rw, s)
  PROVE  RowsFull(q)
<1>1. PICK short : short = [l \in Layers |-> Smaller(rw[s].len[l], Budget[l])]
  OBVIOUS
<1>2. q = [rw EXCEPT ![s] = [@ EXCEPT !.len = short]]
  BY <1>1 DEF Compact
<1>3. rw[s] \in [len : [Layers -> Nat], seen : Nat]
  BY DEF RowsShape
<1>4. \A l \in Layers : Smaller(rw[s].len[l], Budget[l]) = rw[s].len[l]
  <2> TAKE l \in Layers
  <2>1. /\ rw[s].len[l] = rw[s].seen /\ rw[s].seen \in Nat /\ MaxModelLen \in Nat
        /\ Budget[l] \in Nat /\ Budget[l] >= MaxModelLen
    BY <1>3 DEF RowsFull, KeepsAll, ChainAssumption
  <2> QED BY <2>1 DEF Smaller
<1>5. short = rw[s].len
  BY <1>1, <1>3, <1>4
<1>6. q[s] = [rw[s] EXCEPT !.len = short]
  BY <1>2
<1>7. q[s].len = rw[s].len /\ q[s].seen = rw[s].seen
  BY <1>3, <1>5, <1>6
<1>8. DOMAIN q = DOMAIN rw /\ \A t \in DOMAIN rw : t # s => q[t] = rw[t]
  BY <1>2
<1> QED BY <1>7, <1>8 DEF RowsFull

\* The turn goes on: nothing is asked for beyond what it came with.
Advances(old, new) ==
  /\ new.prompt = old.prompt /\ new.maxTokens = old.maxTokens
  /\ new.replay = NoReplay /\ old.prefilled <= new.prefilled

\* A running sequence moves on and its row grows.
LEMMA RunCovers ==
  ASSUME NEW ix, NEW rw, NEW sq, NEW act, Consistent(ix, rw, sq, act), Covered(ix, rw, sq),
         NEW s \in DOMAIN sq, NEW q, RowsFull(q), DOMAIN rw \subseteq DOMAIN q,
         NEW seq, seq \in Turn, Advances(sq[s], seq), seq.completion < seq.maxTokens,
         NEW sr, DOMAIN sr = DOMAIN sq, \A t \in DOMAIN sq : sr[t] = IF t = s THEN seq ELSE sq[t]
  PROVE  Covered(ix, q, sr)
<1>1. TurnsCovered(ix, q, sr)
  <2> SUFFICES ASSUME NEW c \in InState(ix, "active")
               PROVE  TurnCovered(ix.records[c], sr[ix.records[c].seq], q)
    BY DEF TurnsCovered
  <2>1. PICK record : record = ix.records[c]
    OBVIOUS
  <2>2. PICK t : t = record.seq
    OBVIOUS
  <2>3. t \in DOMAIN sq /\ c \in DOMAIN ix.records /\ ix.bySeq[t] = c
    BY <2>1, <2>2 DEF Consistent, Agree, InState
  <2>4. TurnCovered(record, sq[t], rw)
    BY <2>1, <2>2 DEF Covered, TurnsCovered
  <2>5. CASE t # s
    <3>1. sr[t] = sq[t]
      BY <2>3, <2>5
    <3>2. TurnCovered(record, sr[t], q)
      BY <2>4, <3>1 DEF TurnCovered
    <3> QED BY <2>1, <2>2, <3>2
  <2>6. CASE t = s
    <3>1. PICK old : old = sq[s]
      OBVIOUS
    <3>2. sr[t] = seq /\ TurnCovered(record, old, rw) /\ Advances(old, seq)
      BY <2>3, <2>4, <2>6, <3>1
    <3>3. old.prefilled \in Nat /\ seq.prefilled \in Nat /\ record.processed \in Nat
      <4>1. old \in Turn
        BY <3>1 DEF Consistent, TurnsExact, TurnExact
      <4>2. record \in Record
        BY <2>1, <2>3 DEF Consistent, Shape
      <4> QED BY <4>1, <4>2 DEF Turn, Record
    <3>4. record.processed <= old.prefilled /\ old.prefilled <= seq.prefilled
      BY <3>2 DEF TurnCovered, Advances
    <3>5. record.processed <= seq.prefilled
      BY <3>3, <3>4
    <3>6. TurnCovered(record, seq, q)
      BY <3>2, <3>5 DEF TurnCovered, Advances
    <3> QED BY <2>1, <2>2, <3>2, <3>6
  <2> QED BY <2>5, <2>6
<1> QED BY <1>1 DEF Covered

\* The turn of s ends with n tokens, tokens of them remembered.
LEMMA RestCovers ==
  ASSUME ChainAssumption, NEW ix, NEW rw, NEW sq, NEW act, Consistent(ix, rw, sq, act),
         Covered(ix, rw, sq), NEW s \in DOMAIN sq, NEW c, c = ix.bySeq[s],
         NEW q, RowsFull(q), RowsShape(q), s \in DOMAIN q, DOMAIN rw \subseteq DOMAIN q,
         NEW n \in Nat, q[s].seen = n - 1, n <= sq[s].prompt + sq[s].maxTokens,
         NEW tokens \in Nat, tokens <= MaxModelLen,
         NEW r, Rewritten(ix, c, Rested(ix.records[c], q[s].len, n, tokens), r),
         NEW left, DOMAIN left = DOMAIN sq \ {s}, \A t \in DOMAIN left : left[t] = sq[t]
  PROVE  Covered(r, q, left)
<1>1. PICK record : record = Rested(ix.records[c], q[s].len, n, tokens)
  OBVIOUS
<1>2. /\ record.seq = ix.records[c].seq /\ record.state = "idle" /\ record.tokens = tokens
      /\ record.slots = q[s].len /\ record.reserved = Nothing
  BY <1>1 DEF Rested
<1>3. /\ s \in DOMAIN ix.bySeq /\ c \in DOMAIN ix.records
      /\ ix.records[c].seq = s /\ ix.records[c].state = "active"
      /\ \A d \in DOMAIN ix.records : ix.records[d].seq = s => d = c
  BY IdleIsNotRunning DEF Consistent
<1>4. /\ DOMAIN r.records = DOMAIN ix.records
      /\ \A d \in DOMAIN ix.records : r.records[d] = IF d = c THEN record ELSE ix.records[d]
  BY <1>1 DEF Rewritten
<1>5. \A l \in Layers : record.slots[l] = n - 1 /\ record.reserved[l] = 0
  BY <1>2 DEF RowsFull, Nothing
<1>6. TurnsCovered(r, q, left)
  <2> SUFFICES ASSUME NEW d \in InState(r, "active")
               PROVE  TurnCovered(r.records[d], left[r.records[d].seq], q)
    BY DEF TurnsCovered
  <2>1. d # c /\ d \in DOMAIN ix.records /\ r.records[d] = ix.records[d]
    BY <1>2, <1>4 DEF InState
  <2>2. d \in InState(ix, "active")
    BY <2>1 DEF InState
  <2>3. PICK t : t = ix.records[d].seq
    OBVIOUS
  <2>4. t # s /\ t \in DOMAIN sq
    BY <1>3, <2>1, <2>2, <2>3 DEF Consistent, Agree
  <2>5. TurnCovered(ix.records[d], sq[t], rw) /\ left[t] = sq[t]
    BY <2>2, <2>3, <2>4 DEF Covered, TurnsCovered
  <2>6. TurnCovered(ix.records[d], left[t], q)
    BY <2>5 DEF TurnCovered
  <2> QED BY <2>1, <2>3, <2>6
<1>7. RestsBare(r)
  <2> SUFFICES ASSUME NEW d \in InState(r, "idle"), NEW l \in Layers
               PROVE  r.records[d].reserved[l] = 0
    BY DEF RestsBare
  <2>1. CASE d = c
    BY <1>3, <1>4, <1>5, <2>1
  <2>2. CASE d # c
    <3>1. d \in InState(ix, "idle") /\ r.records[d] = ix.records[d]
      BY <1>4, <2>2 DEF InState
    <3> QED BY <3>1 DEF Covered, RestsBare
  <2> QED BY <2>1, <2>2
<1>8. TokensBounded(r)
  BY <1>2, <1>4 DEF Covered, TokensBounded
<1>9. \A l \in Layers : ClaimsOf(r, l) <= Slots
  <2> TAKE l \in Layers
  <2> DEFINE S == DOMAIN ix.records
             f == [d \in S |-> Claim(ix.records[d], l)]
             g == [d \in S |-> Claim(r.records[d], l)]
  <2>1. IsFiniteSet(S)
    BY IdsFinite DEF Consistent, Shape
  <2>2. \A d \in S : f[d] \in Nat
    BY DEF Consistent, Shape, Record, Claim
  <2>3. \A d \in S : d # c => g[d] = f[d]
    BY <1>4
  <2>4. g[c] = n - 1 /\ n - 1 \in Nat
    <3>1. Claim(r.records[c], l) = (n - 1) + 0
      BY <1>3, <1>4, <1>5 DEF Claim
    <3>2. n - 1 \in Nat
      BY DEF RowsShape
    <3> QED BY <1>3, <3>1, <3>2
  <2>5. f[c] = sq[s].prompt + sq[s].maxTokens - 1
    <3>1. TurnCovered(ix.records[c], sq[s], rw)
      BY <1>3 DEF Covered, TurnsCovered, InState
    <3>2. Claim(ix.records[c], l) = sq[s].prompt + sq[s].maxTokens - 1
      BY <3>1 DEF TurnCovered, Claim
    <3> QED BY <1>3, <3>2
  <2>6. ClaimsOf(ix, l) = Cardinality(Cells(S, f))
    BY ClaimCells
  <2>7. ClaimsOf(r, l) = Cardinality(Cells(S, g))
    BY <1>4, ClaimCells
  <2>8. sq[s].prompt \in Nat /\ sq[s].maxTokens \in Nat
    BY DEF Consistent, TurnsExact, TurnExact, Turn
  <2> HIDE DEF f, g
  <2>9. c \in S /\ f[c] \in Nat /\ g[c] \in Nat
    BY <1>3, <2>2, <2>4
  <2>a. \A d \in S : f[d] \in Int /\ g[d] \in Int
    BY <2>2, <2>3, <2>9
  <2>b. \A d \in S \ {c} : g[d] = f[d]
    BY <2>3
  <2>10. Cardinality(Cells(S, g)) = Cardinality(Cells(S, f)) + g[c] - f[c]
    <3> HIDE DEF S
    <3> QED BY <2>1, <2>9, <2>a, <2>b, OneSummand
  <2>11. Cardinality(Cells(S, f)) \in Nat
    BY <2>1, <2>a, CellsFinite
  <2>12. g[c] <= f[c]
    BY <2>4, <2>5, <2>8
  <2>13. ClaimsOf(ix, l) <= Slots /\ Slots \in Nat
    BY DEF Covered, ClaimsFit, ChainAssumption
  <2> QED BY <2>6, <2>7, <2>9, <2>10, <2>11, <2>12, <2>13
<1>10. Cardinality(DOMAIN r.records) <= NumRows
  BY <1>4 DEF Covered, ClaimsFit
<1> QED BY <1>6, <1>7, <1>8, <1>9, <1>10 DEF Covered, ClaimsFit

\* The histories of all chains fit, with n tokens for chain c.
LEMMA HistoryFits ==
  ASSUME ChainAssumption, NEW ix, NEW rw, NEW sq, NEW act, Consistent(ix, rw, sq, act),
         Covered(ix, rw, sq), NEW c \in DOMAIN ix.records, NEW n \in Nat, n <= MaxModelLen
  PROVE  ix.history - ix.records[c].tokens + n <= HistoryCapacity
<1> DEFINE S == DOMAIN ix.records
           f == [d \in S |-> ix.records[d].tokens]
           g == [d \in S |-> IF d = c THEN n ELSE ix.records[d].tokens]
<1>1. IsFiniteSet(S)
  BY IdsFinite DEF Consistent, Shape
<1>2. \A d \in S : f[d] \in Nat /\ f[d] = ix.records[d].tokens
  BY DEF Consistent, Shape, Record
<1>3. \A d \in S : g[d] \in Nat /\ g[d] <= MaxModelLen
  BY <1>2 DEF Covered, TokensBounded
<1>4. g[c] = n /\ \A d \in S \ {c} : g[d] = f[d]
  OBVIOUS
<1> HIDE DEF f, g
<1>5. \A d \in S : f[d] \in Int /\ g[d] \in Int
  BY <1>2, <1>3
<1>6. ix.history = Cardinality(Cells(S, f))
  BY <1>2, HistoryIsCells DEF Consistent, Counted
<1>7. Cardinality(Cells(S, g)) = Cardinality(Cells(S, f)) + g[c] - f[c]
  BY <1>1, <1>2, <1>3, <1>4, <1>5, OneSummand
<1>8. MaxModelLen \in Nat /\ NumRows \in Nat
  BY DEF ChainAssumption
<1>9. Cardinality(Cells(S, g)) <= Cardinality(S) * MaxModelLen
  BY <1>1, <1>3, <1>8, CellsBounded
<1>10. Cardinality(S) \in Nat /\ Cardinality(S) <= NumRows
  BY <1>1, FS_CardinalityType DEF Covered, ClaimsFit
<1>11. Cardinality(S) * MaxModelLen <= MaxModelLen * NumRows
  <2>1. PICK k : k = Cardinality(S)
    OBVIOUS
  <2>2. PICK m : m = NumRows - k
    OBVIOUS
  <2>3. k \in Nat /\ m \in Nat /\ NumRows = k + m
    BY <1>8, <1>10, <2>1, <2>2
  <2>4. \A a, b, x \in Nat : a * x <= x * (a + b)
    OBVIOUS
  <2> QED BY <1>8, <2>1, <2>3, <2>4
<1>12. Cardinality(Cells(S, f)) \in Nat /\ Cardinality(Cells(S, g)) \in Nat
  BY <1>1, <1>5, CellsFinite
<1>13. Cardinality(S) * MaxModelLen \in Nat /\ MaxModelLen * NumRows \in Nat
  BY <1>8, <1>10
<1>14. ix.history - f[c] + n = Cardinality(Cells(S, g))
  BY <1>2, <1>4, <1>6, <1>7, <1>12
<1> QED BY <1>2, <1>9, <1>11, <1>12, <1>13, <1>14 DEF HistoryCapacity

\* A step of s ends: the turn goes on, or the chain rests and its history is kept.
LEMMA CompleteCovers ==
  ASSUME ChainAssumption, ChainInv, FullInv, Running, NEW s \in DOMAIN seqs,
         NEW rw, RowsShape(rw), RowsFull(rw), DOMAIN rw = DOMAIN rows \cup {s},
         NEW seq, TurnExact(index.records[index.bySeq[s]].processed, seq, rw[s].seen),
         Advances(seqs[s], seq), seq.completion <= seq.maxTokens,
         NEW sampled, sampled => rw[s].seen = seq.prompt + seq.completion - 1,
         ~sampled => seq.completion < seq.maxTokens, NEW eos,
         rows' = rw, Complete(s, seq, rw, sampled, eos), ChainInv'
  PROVE  FullInv'
<1>0. /\ Consistent(index, rows, seqs, active) /\ Covered(index, rows, seqs) /\ raised = "none"
  BY DEF ChainInv, FullInv, Running
<1>1. PICK sr : sr = [seqs EXCEPT ![s] = seq]
  OBVIOUS
<1>2. DOMAIN sr = DOMAIN seqs /\ \A t \in DOMAIN seqs : sr[t] = IF t = s THEN seq ELSE seqs[t]
  BY <1>1
<1>3. DOMAIN rows \subseteq DOMAIN rw /\ s \in DOMAIN rw
  OBVIOUS
<1>4. seq \in Turn /\ seq.completion \in Nat /\ seq.maxTokens \in Nat /\ seq.prompt \in Nat
  BY DEF TurnExact, Turn
<1>5. CASE ~(sampled /\ Ends(seq, eos))
  <2>1. index' = index /\ seqs' = sr /\ raised' = raised
    BY <1>1, <1>5 DEF Complete
  <2>2. seq.completion < seq.maxTokens
    BY <1>4, <1>5 DEF Ends
  <2>3. Covered(index, rw, sr)
    BY <1>0, <1>2, <1>3, <1>4, <2>2, RunCovers
  <2> QED BY <1>0, <2>1, <2>3 DEF FullInv
<1>6. CASE sampled /\ Ends(seq, eos)
  <2>1. PICK n : n = seq.prompt + seq.completion
    OBVIOUS
  <2>2. PICK c : c = index.bySeq[s]
    OBVIOUS
  <2>3. PICK error : error = FinishError(index, rw, s, n)
    OBVIOUS
  <2>4. /\ seqs' = Without(seqs, {s}) /\ raised' = error
        /\ error = "none" => index' = Remember(FinishTurn(index, rw, s, n), s, n)
    BY <1>6, <2>1, <2>3 DEF Complete
  <2>5. /\ Shape(index) /\ s \in DOMAIN index.bySeq /\ c \in DOMAIN index.records
        /\ index.records[c].seq = s /\ index.records[c].state = "active"
    BY <1>0, <2>2, IdleIsNotRunning DEF Consistent
  <2>6. TurnCovered(index.records[c], seqs[s], rows)
    BY <1>0, <2>5 DEF Covered, TurnsCovered, InState
  <2>7. n \in Nat /\ rw[s].seen = n - 1 /\ n <= seqs[s].prompt + seqs[s].maxTokens /\ n <= MaxModelLen
    <3>1. seqs[s].prompt + seqs[s].maxTokens <= MaxModelLen /\ MaxModelLen \in Nat
      BY <2>6 DEF TurnCovered, ChainAssumption
    <3>2. seqs[s].prompt = seq.prompt /\ seqs[s].maxTokens = seq.maxTokens
      BY DEF Advances
    <3>3. n \in Nat /\ n <= seq.prompt + seq.maxTokens
      BY <1>4, <2>1
    <3>4. seq.prompt + seq.maxTokens <= MaxModelLen
      BY <3>1, <3>2
    <3>5. n <= MaxModelLen
      BY <1>4, <3>1, <3>3, <3>4
    <3>6. rw[s].seen = n - 1
      <4>1. rw[s].seen = seq.prompt + seq.completion - 1
        BY <1>6
      <4> QED BY <1>4, <2>1, <4>1
    <3>7. n <= seqs[s].prompt + seqs[s].maxTokens
      BY <3>2, <3>3
    <3> QED BY <3>3, <3>5, <3>6, <3>7
  <2>8. error = "none"
    <3>1. raised' \in Reasons
      BY DEF ChainInv
    <3>2. index.history - index.records[c].tokens + n <= HistoryCapacity
      BY <1>0, <2>5, <2>7, HistoryFits
    <3>3. index.history - index.records[c].tokens + n \in Int /\ HistoryCapacity \in Int
      <4>1. index.history \in Nat
        BY <1>0, HistoryIsNat DEF Consistent
      <4>2. index.records[c].tokens \in Nat
        BY <2>5 DEF Shape, Record
      <4> QED BY <2>7, <4>1, <4>2 DEF HistoryCapacity, ChainAssumption
    <3>4. ~(index.history - index.records[c].tokens + n > HistoryCapacity)
      BY <3>2, <3>3
    <3>5. error # "history full"
      BY <2>2, <2>3, <3>4 DEF FinishError
    <3>6. error \in {"none", "history full", "lost chain", "not active", "boundary moved backwards"}
      BY <2>3 DEF FinishError
    <3> QED BY <2>4, <3>1, <3>5, <3>6 DEF Reasons
  <2>9. PICK mid : mid = FinishTurn(index, rw, s, n)
    OBVIOUS
  <2>10. PICK r : r = Remember(mid, s, n)
    OBVIOUS
  <2>11. index' = r
    BY <2>4, <2>8, <2>9, <2>10
  <2>12. Rewritten(index, c, Rested(index.records[c], rw[s].len, n, n), r)
    BY <2>2, <2>5, <2>7, <2>9, <2>10, RememberRewrites
  <2>13. PICK left : left = Without(seqs, {s})
    OBVIOUS
  <2>14. DOMAIN left = DOMAIN seqs \ {s} /\ \A t \in DOMAIN left : left[t] = seqs[t]
    BY <2>13 DEF Without, Restrict
  <2>15. Covered(r, rw, left)
    BY <1>0, <1>3, <2>2, <2>7, <2>12, <2>14, RestCovers
  <2> QED BY <2>4, <2>8, <2>11, <2>13, <2>15 DEF FullInv
<1> QED BY <1>5, <1>6

\* A step of s: the row still holds all that was written, and the turn or the
\* chain is covered.
LEMMA RanCovers ==
  ASSUME ChainAssumption, KeepsAll, ChainInv, FullInv, Running, NEW s \in DOMAIN seqs,
         NEW seq, NEW rw, NEW sampled, NEW eos, Ran(s, seq, rw, sampled, eos), ChainInv'
  PROVE  FullInv'
<1>0. /\ Consistent(index, rows, seqs, active) /\ Covered(index, rows, seqs) /\ raised = "none"
  BY DEF ChainInv, FullInv, Running
<1>1. /\ RowsShape(rw) /\ DOMAIN rw = DOMAIN rows \cup {s}
      /\ TurnExact(index.records[index.bySeq[s]].processed, seq, rw[s].seen)
      /\ sampled => rw[s].seen = seq.prompt + seq.completion - 1
      /\ rows' = rw /\ Complete(s, seq, rw, sampled, eos)
  BY DEF Ran
<1>2. PICK c : c = index.bySeq[s]
  OBVIOUS
<1>3. /\ c \in DOMAIN index.records /\ index.records[c].seq = s /\ index.records[c].state = "active"
  BY <1>0, <1>2, IdleIsNotRunning DEF Consistent
<1>4. TurnCovered(index.records[c], seqs[s], rows)
  BY <1>0, <1>3 DEF Covered, TurnsCovered, InState
<1>5. PICK old : old = seqs[s]
  OBVIOUS
<1>6. Moves(old, seq, sampled)
  BY <1>5 DEF Ran
<1>7. /\ old.replay = NoReplay /\ old.completion < old.maxTokens
      /\ old.prompt + old.maxTokens <= MaxModelLen
  BY <1>4, <1>5 DEF TurnCovered
<1>8. Advances(old, seq)
  BY <1>6, <1>7 DEF Moves, Advances
<1>9. /\ old.completion \in Nat /\ old.maxTokens \in Nat /\ old.prompt \in Nat
  BY <1>0, <1>5 DEF Consistent, TurnsExact, TurnExact, Turn
<1>10. seq.prompt = old.prompt /\ seq.maxTokens = old.maxTokens /\ seq.replay = NoReplay
  BY <1>8 DEF Advances
<1>11. seq.completion = IF sampled THEN old.completion + 1 ELSE old.completion
  BY <1>6 DEF Moves
<1>12. seq.completion \in Nat /\ seq.completion <= seq.maxTokens
       /\ (~sampled => seq.completion < seq.maxTokens)
  BY <1>7, <1>9, <1>10, <1>11
<1>13. seq \in Turn /\ rw[s].seen \in Nat
  BY <1>1 DEF TurnExact, RowsShape
<1>14. rw[s].seen <= MaxModelLen
  <2>1. MaxModelLen \in Nat
    BY DEF ChainAssumption
  <2>2. CASE seq.queue = "waiting"
    <3>1. rw[s].seen < seq.prompt
      BY <1>1, <2>2 DEF TurnExact
    <3> QED BY <1>7, <1>9, <1>10, <1>13, <2>1, <3>1
  <2>3. CASE seq.queue = "decoding"
    <3>1. rw[s].seen = seq.prompt + seq.completion - 1 - Larger(0, seq.replay)
      BY <1>1, <2>3 DEF TurnExact
    <3>2. Larger(0, seq.replay) = 0
      BY <1>10 DEF Larger, NoReplay
    <3> QED BY <1>7, <1>9, <1>10, <1>12, <2>1, <3>1, <3>2
  <2> QED BY <1>13, <2>2, <2>3 DEF Turn
<1>15. RowsFull(rw)
  <2>1. PICK n \in Nat : rw = Grow(rows, s, n) \/ rw = Compact(Grow(rows, s, n), s)
    BY DEF Ran
  <2>2. PICK grown : grown = Grow(rows, s, n)
    OBVIOUS
  <2>3. RowsShape(rows) /\ RowsFull(rows)
    BY <1>0 DEF Consistent, Covered
  <2>4. RowsFull(grown)
    BY <2>2, <2>3, GrowFull
  <2>5. RowsShape(grown) /\ DOMAIN grown = DOMAIN rows \cup {s}
    BY <2>2, <2>3, GrowRow
  <2>6. CASE rw = Compact(grown, s)
    <3>1. s \in DOMAIN grown
      BY <2>5
    <3>2. rw[s].seen = grown[s].seen
      BY <2>5, <2>6, <3>1, CompactRow
    <3>3. grown[s].seen <= MaxModelLen
      BY <1>14, <3>2
    <3> QED BY <2>4, <2>5, <2>6, <3>1, <3>3, CompactFull
  <2> QED BY <2>1, <2>2, <2>4, <2>6
<1> QED BY <1>1, <1>5, <1>8, <1>12, <1>15, CompleteCovers

-----------------------------------------------------------------------------
(* What covered turns find in the pool.                                    *)

\* What is left of the turn of s is what is left of its reservation, and it is
\* never nothing.
LEMMA TurnGrowth ==
  ASSUME ChainAssumption, KeepsAll, ChainInv, FullInv, NEW s \in DOMAIN seqs, NEW l \in Layers,
         NEW growth, growth = FutureGrowth(s, l)
  PROVE  /\ growth \in Nat /\ growth >= 1
         /\ growth = Outstanding(index.records[index.bySeq[s]], rows, l)
         /\ seqs[s].queue = "waiting" /\ seqs[s].prefilled = 0 => seqs[s].prompt <= growth
<1>0. Consistent(index, rows, seqs, active) /\ Covered(index, rows, seqs)
  BY DEF ChainInv, FullInv
<1>1. PICK c : c = index.bySeq[s]
  OBVIOUS
<1>2. PICK q : q = seqs[s]
  OBVIOUS
<1>3. PICK n : n = Seen(rows, s)
  OBVIOUS
<1>4. c \in DOMAIN index.records /\ index.records[c].seq = s /\ index.records[c].state = "active"
  BY <1>0, <1>1, IdleIsNotRunning DEF Consistent
<1>5. TurnCovered(index.records[c], q, rows)
  BY <1>0, <1>2, <1>4 DEF Covered, TurnsCovered, InState
<1>6. TurnExact(index.records[c].processed, q, n)
  BY <1>0, <1>1, <1>2, <1>3 DEF Consistent, TurnsExact
<1>7. /\ n \in Nat
      /\ Outstanding(index.records[c], rows, l) \in Nat
      /\ Outstanding(index.records[c], rows, l) + n = Claim(index.records[c], l)
  BY <1>0, <1>3, <1>4, ClaimSplits
<1>8. Claim(index.records[c], l) = q.prompt + q.maxTokens - 1
  BY <1>5 DEF TurnCovered, Claim
<1>9. /\ q.prompt \in Nat /\ q.maxTokens \in Nat /\ q.completion \in Nat /\ q.prefilled \in Nat
      /\ q.queue \in {"waiting", "decoding"}
  BY <1>6 DEF TurnExact, Turn
<1>10. q.completion < q.maxTokens /\ q.replay = NoReplay /\ Fits(q.prompt, q.maxTokens)
  BY <1>5 DEF TurnCovered, Fits
<1>11. CASE q.queue = "waiting"
  <2>1. n = q.prefilled /\ n < q.prompt /\ q.maxTokens >= 1
    BY <1>6, <1>9, <1>10, <1>11 DEF TurnExact
  <2>2. (IF s \in DOMAIN rows THEN rows[s].len[l] ELSE 0) = n
    BY <1>0, <1>3 DEF Seen, Covered, RowsFull
  <2>3. q.queue # "decoding"
    BY <1>11
  <2>4. growth = RequiredSlots(n, q.prompt - n, q.maxTokens, l)
    BY <1>2, <2>1, <2>2, <2>3 DEF FutureGrowth
  <2>5. growth \in Nat /\ growth + n = q.prompt + q.maxTokens - 1
    BY <1>7, <1>9, <1>10, <2>1, <2>4, PeakOfTurn
  <2>6. growth = Outstanding(index.records[c], rows, l)
    BY <1>7, <1>8, <1>9, <2>5
  <2>7. growth >= 1 /\ (q.prefilled = 0 => q.prompt <= growth)
    BY <1>7, <1>9, <2>1, <2>5
  <2> QED BY <1>1, <1>2, <2>5, <2>6, <2>7
<1>12. CASE q.queue = "decoding"
  <2>1. Larger(0, q.replay) = 0
    BY <1>10 DEF Larger, NoReplay
  <2>2. n = q.prompt + q.completion - 1
    BY <1>6, <1>9, <1>12, <2>1 DEF TurnExact
  <2>3. growth = q.maxTokens - q.completion
    BY <1>2, <1>9, <1>12, <2>1 DEF FutureGrowth
  <2>4. growth \in Nat /\ growth >= 1
    BY <1>9, <1>10, <2>3
  <2>5. growth = Outstanding(index.records[c], rows, l)
    BY <1>7, <1>8, <1>9, <2>2, <2>3
  <2>6. q.queue # "waiting"
    BY <1>12
  <2> QED BY <1>1, <1>2, <2>4, <2>5, <2>6
<1> QED BY <1>9, <1>11, <1>12

Growth(l) == SumOver(DOMAIN seqs, LAMBDA s : FutureGrowth(s, l))

LEMMA GrowthCells ==
  ASSUME NEW l, NEW f, \A s \in DOMAIN seqs : f[s] = FutureGrowth(s, l)
  PROVE  Growth(l) = Cardinality(Cells(DOMAIN seqs, f))
<1>1. {{s} \X (1..f[s]) : s \in DOMAIN seqs} = {{s} \X (1..FutureGrowth(s, l)) : s \in DOMAIN seqs}
  OBVIOUS
<1> QED BY <1>1 DEF Growth, SumOver, Cells

\* The free slots cover what all running turns may still write.
LEMMA GrowthFits ==
  ASSUME ChainAssumption, KeepsAll, ChainInv, FullInv, NEW l \in Layers
  PROVE  /\ FreeSlots(rows, l) \in Nat
         /\ Growth(l) <= FreeSlots(rows, l)
         /\ \A s \in DOMAIN seqs : FutureGrowth(s, l) <= FreeSlots(rows, l)
<1> DEFINE A == InState(index, "active")
           f == [c \in A |-> Outstanding(index.records[c], rows, l)]
           g == [s \in DOMAIN seqs |-> FutureGrowth(s, l)]
           h == [c \in A |-> index.records[c].seq]
<1>0. Consistent(index, rows, seqs, active) /\ Covered(index, rows, seqs)
  BY DEF ChainInv, FullInv
<1>1. /\ \A c \in A : index.records[c].seq \in DOMAIN seqs /\ index.bySeq[index.records[c].seq] = c
      /\ \A s \in DOMAIN seqs : \E c \in A : index.records[c].seq = s
  BY <1>0 DEF Consistent, Agree, InState
<1>2. IsFiniteSet(A)
  <2>1. IsFiniteSet(DOMAIN index.records) /\ A \in SUBSET DOMAIN index.records
    BY <1>0, IdsFinite DEF Consistent, Shape, InState
  <2> QED BY <2>1, FS_Subset
<1>3. \A s \in DOMAIN seqs : /\ FutureGrowth(s, l) \in Nat
                             /\ FutureGrowth(s, l) = Outstanding(index.records[index.bySeq[s]], rows, l)
  BY TurnGrowth
<1>4. \A s \in DOMAIN seqs : g[s] = FutureGrowth(s, l) /\ g[s] \in Nat
  BY <1>3
<1>5. \A c \in A : /\ f[c] = Outstanding(index.records[c], rows, l)
                   /\ h[c] = index.records[c].seq /\ h[c] \in DOMAIN seqs
                   /\ g[h[c]] = f[c]
  BY <1>1, <1>3
<1>6. \A c \in A : f[c] \in Nat
  BY <1>4, <1>5
<1> HIDE DEF f, g, h, A
<1>7. \A c, d \in A : h[c] = h[d] => c = d
  BY <1>1, <1>5
<1>8. \A s \in DOMAIN seqs : \E c \in A : h[c] = s
  BY <1>1, <1>5
<1>9. \A c \in A : f[c] \in Int
  BY <1>6
<1>10. Cardinality(Cells(A, f)) = Cardinality(Cells(DOMAIN seqs, g))
  <2>1. \A c \in A : h[c] \in DOMAIN seqs /\ g[h[c]] = f[c]
    BY <1>5
  <2> QED BY <1>2, <1>7, <1>8, <1>9, <2>1, CellsRenamed
<1>11. Growth(l) = Cardinality(Cells(DOMAIN seqs, g))
  BY <1>4, GrowthCells
<1>12. OutstandingSlots(index, rows, l) = Cardinality(Cells(A, f))
  BY <1>5, OutstandingCells DEF A
<1>13. PICK claims : claims = ClaimsOf(index, l)
  OBVIOUS
<1>14. /\ claims \in Nat /\ claims <= Slots
       /\ FreeSlots(rows, l) \in Nat /\ OutstandingSlots(index, rows, l) \in Nat
       /\ FreeSlots(rows, l) - OutstandingSlots(index, rows, l) = Slots - claims
  BY <1>0, <1>13, SlotsLeft
<1>15. Growth(l) \in Nat /\ Growth(l) <= FreeSlots(rows, l)
  <2>1. Slots \in Nat
    BY DEF ChainAssumption
  <2> QED BY <1>10, <1>11, <1>12, <1>14, <2>1
<1>16. IsFiniteSet(DOMAIN seqs)
  <2>1. h \in Surjection(A, DOMAIN seqs)
    <3>1. h = [c \in A |-> h[c]]
      BY DEF h
    <3> QED BY <1>5, <1>8, <3>1 DEF Surjection
  <2> QED BY <1>2, <2>1, FS_Surjection
<1>17. ASSUME NEW s \in DOMAIN seqs PROVE FutureGrowth(s, l) <= FreeSlots(rows, l)
  <2>1. \A t \in DOMAIN seqs : g[t] \in Int
    BY <1>4
  <2>2. g[s] \in Nat
    BY <1>4
  <2>3. Cardinality(Cells(DOMAIN seqs, g)) = Cardinality(Cells(DOMAIN seqs \ {s}, g)) + g[s]
    BY <1>16, <2>1, <2>2, CellsSplit
  <2>4. Cardinality(Cells(DOMAIN seqs \ {s}, g)) \in Nat
    <3>1. IsFiniteSet(DOMAIN seqs \ {s})
      BY <1>16, FS_RemoveElement
    <3>2. \A t \in DOMAIN seqs \ {s} : g[t] \in Int
      BY <2>1
    <3> QED BY <3>1, <3>2, CellsFinite
  <2>5. g[s] <= Growth(l)
    BY <1>11, <2>2, <2>3, <2>4
  <2> QED BY <1>4, <1>14, <1>15, <2>2, <2>5
<1> QED BY <1>14, <1>15, <1>17

\* Every layer has the same slots free.
LEMMA OneMinimum ==
  ASSUME NEW rw, RowsFull(rw), NEW l \in Layers, FreeSlots(rw, l) \in Nat
  PROVE  MinFree(rw) = FreeSlots(rw, l)
<1>1. PICK f : f = [s \in DOMAIN rw |-> rw[s].seen]
  OBVIOUS
<1>2. ASSUME NEW m \in Layers PROVE FreeSlots(rw, m) = Slots - Cardinality(Cells(DOMAIN rw, f))
  <2>1. \A s \in DOMAIN rw : f[s] = rw[s].len[m]
    BY <1>1 DEF RowsFull
  <2> QED BY <2>1, FreeCells
<1>3. PICK n : n = FreeSlots(rw, l)
  OBVIOUS
<1>4. \A m \in Layers : FreeSlots(rw, m) = n
  BY <1>2, <1>3
<1>5. {FreeSlots(rw, m) : m \in Layers} = {n}
  BY <1>4
<1>6. n \in Nat /\ MinFree(rw) = Min({n})
  BY <1>3, <1>5 DEF MinFree
<1>7. Min({n}) = n
  <2>1. \E x \in {n} : \A y \in {n} : x <= y
    BY <1>6
  <2> QED BY <2>1 DEF Min
<1> QED BY <1>3, <1>6, <1>7

\* Every running turn that has no row yet will find one.
LEMMA RowsFit ==
  ASSUME ChainAssumption, ChainInv, FullInv
  PROVE  Cardinality(DOMAIN seqs \ DOMAIN rows) <= FreeRows(rows)
<1> DEFINE S == DOMAIN index.records
           h == [c \in S |-> index.records[c].seq]
           T == {index.records[c].seq : c \in S}
           W == DOMAIN seqs \ DOMAIN rows
<1>0. Consistent(index, rows, seqs, active) /\ Covered(index, rows, seqs)
  BY DEF ChainInv, FullInv
<1>1. IsFiniteSet(S)
  BY <1>0, IdsFinite DEF Consistent, Shape
<1>2. h \in Surjection(S, T)
  BY DEF Surjection
<1>3. DOMAIN rows \in SUBSET T /\ W \in SUBSET T /\ W \cap DOMAIN rows = {}
  BY <1>0 DEF Consistent, Agree, InState
<1>4. Cardinality(S) \in Nat /\ Cardinality(S) <= NumRows /\ NumRows \in Nat
  BY <1>0, RowsLeft DEF ChainAssumption
<1> HIDE DEF h, S, T, W
<1>5. IsFiniteSet(T) /\ Cardinality(T) <= Cardinality(S) /\ Cardinality(T) \in Nat
  <2>1. IsFiniteSet(T) /\ Cardinality(T) <= Cardinality(S)
    BY <1>1, <1>2, FS_Surjection
  <2> QED BY <2>1, FS_CardinalityType
<1>6. IsFiniteSet(DOMAIN rows) /\ IsFiniteSet(W)
  BY <1>3, <1>5, FS_Subset
<1>7. /\ Cardinality(W) \in Nat /\ Cardinality(DOMAIN rows) \in Nat
  BY <1>6, FS_CardinalityType
<1>8. Cardinality(W \cup DOMAIN rows) = Cardinality(W) + Cardinality(DOMAIN rows)
  <2>1. Cardinality(W \cup DOMAIN rows)
          = Cardinality(W) + Cardinality(DOMAIN rows) - Cardinality(W \cap DOMAIN rows)
    BY <1>6, FS_Union
  <2>2. Cardinality(W \cap DOMAIN rows) = 0
    BY <1>3, FS_EmptySet
  <2> QED BY <1>7, <2>1, <2>2
<1>9. Cardinality(W \cup DOMAIN rows) <= Cardinality(T)
  <2>1. W \cup DOMAIN rows \in SUBSET T
    BY <1>3
  <2> QED BY <1>5, <2>1, FS_Subset
<1>10. Cardinality(W) + Cardinality(DOMAIN rows) <= NumRows
  BY <1>4, <1>5, <1>7, <1>8, <1>9
<1>11. Cardinality(W) <= FreeRows(rows)
  BY <1>4, <1>7, <1>10 DEF FreeRows
<1> QED BY <1>11 DEF W

LEMMA FullGrowth ==
  ASSUME ChainAssumption, KeepsAll, ChainInv, FullInv
  PROVE  GrowthCovered
<1>1. \A l \in Layers : Growth(l) <= FreeSlots(rows, l)
  BY GrowthFits
<1>2. Cardinality(DOMAIN seqs \ DOMAIN rows) <= FreeRows(rows)
  BY RowsFit
<1> QED BY <1>1, <1>2 DEF GrowthCovered, Growth

\* While a turn runs there is a slot for it, and the whole prompt of one that
\* has not begun.
LEMMA SlotsForTurn ==
  ASSUME ChainAssumption, KeepsAll, ChainInv, FullInv, NEW s \in DOMAIN seqs,
         NEW free, free = MinFree(rows)
  PROVE  /\ free \in Nat /\ free > 0
         /\ seqs[s].queue = "waiting" /\ seqs[s].prefilled = 0 => seqs[s].prompt <= free
<1>1. PICK l \in Layers : TRUE
  BY DEF ChainAssumption
<1>2. FreeSlots(rows, l) \in Nat /\ FutureGrowth(s, l) <= FreeSlots(rows, l)
  BY GrowthFits
<1>3. PICK growth : growth = FutureGrowth(s, l)
  OBVIOUS
<1>4. /\ growth \in Nat /\ growth >= 1
      /\ seqs[s].queue = "waiting" /\ seqs[s].prefilled = 0 => seqs[s].prompt <= growth
  BY <1>3, TurnGrowth
<1>5. RowsFull(rows)
  BY DEF FullInv, Covered
<1>6. free = FreeSlots(rows, l)
  BY <1>2, <1>5, OneMinimum
<1>7. seqs[s].prompt \in Nat
  BY DEF ChainInv, Consistent, TurnsExact, TurnExact, Turn
<1> QED BY <1>2, <1>3, <1>4, <1>6, <1>7

\* No turn is preempted.
LEMMA NeverPreempts ==
  ASSUME ChainAssumption, KeepsAll, ChainInv, FullInv, NEW s \in DOMAIN seqs, Preempt(s)
  PROVE  FALSE
<1>1. MinFree(rows) = 0
  BY DEF Preempt
<1>2. MinFree(rows) > 0
  BY SlotsForTurn
<1> QED BY <1>1, <1>2

\* A step that finds work finds something to run.
LEMMA NeverStalls ==
  ASSUME ChainAssumption, KeepsAll, ChainInv, FullInv, StepRaises
  PROVE  FALSE
<1>1. PICK free : free = MinFree(rows)
  OBVIOUS
<1>2. ~\E w \in DOMAIN seqs : CanPrefill(w)
  BY DEF StepRaises
<1>3. CASE Cardinality(Queued("decoding")) = 1 /\ MinFree(rows) = 0
  <2>1. Queued("decoding") # {}
    BY <1>3, FS_EmptySet
  <2>2. PICK s \in DOMAIN seqs : TRUE
    BY <2>1 DEF Queued
  <2>3. free > 0
    BY <1>1, <2>2, SlotsForTurn
  <2> QED BY <1>1, <1>3, <2>3
<1>4. CASE Queued("decoding") = {} /\ Queued("waiting") # {}
  <2>1. PICK w \in DOMAIN seqs : /\ seqs[w].queue = "waiting"
                                 /\ seqs[w].prefilled = 0 => \A s \in Queued("waiting") : ~(seqs[s].prefilled > 0)
    <3>1. CASE \E s \in Queued("waiting") : seqs[s].prefilled > 0
      <4>1. PICK s \in Queued("waiting") : seqs[s].prefilled > 0
        BY <3>1
      <4>2. seqs[s].prefilled # 0
        BY <4>1
      <4> QED BY <4>1, <4>2 DEF Queued
    <3>2. CASE ~\E s \in Queued("waiting") : seqs[s].prefilled > 0
      BY <1>4, <3>2 DEF Queued
    <3> QED BY <3>1, <3>2
  <2>2. /\ free \in Nat /\ free > 0
        /\ seqs[w].prefilled = 0 => seqs[w].prompt <= free
    BY <1>1, <2>1, SlotsForTurn
  <2>3. ASSUME seqs[w].prefilled = 0 PROVE ReservedPrefill = 0
    <3>1. {s \in Queued("waiting") : seqs[s].prefilled > 0} = {}
      BY <2>1, <2>3
    <3>2. PICK S : S = {s \in Queued("waiting") : seqs[s].prefilled > 0}
      OBVIOUS
    <3>3. ReservedPrefill = Cardinality(UNION {{s} \X (1..(seqs[s].prompt - seqs[s].prefilled)) : s \in S})
      BY <3>2 DEF ReservedPrefill, SumOver
    <3>4. UNION {{s} \X (1..(seqs[s].prompt - seqs[s].prefilled)) : s \in S} = {}
      BY <3>1, <3>2
    <3> QED BY <3>3, <3>4, FS_EmptySet
  <2>4. seqs[w].prefilled = 0 => seqs[w].prompt <= Monus(free, ReservedPrefill)
    BY <2>2, <2>3 DEF Monus
  <2>5. CanPrefill(w)
    BY <1>1, <1>4, <2>1, <2>2, <2>4 DEF CanPrefill, Queued
  <2> QED BY <1>2, <2>5
<1> QED BY <1>3, <1>4 DEF StepRaises

-----------------------------------------------------------------------------
(* Covered turns stay covered.                                             *)

LEMMA AdmitCoversFrom ==
  ASSUME ChainAssumption, KeepsAll, NEW ix, NEW rw, Consistent(ix, rw, seqs, active),
         Covered(ix, rw, seqs), NEW c, NEW s, NEW prompt \in PromptLens, NEW gen \in MaxTokens,
         Fits(prompt, gen), MayAdmit(ix, c, s, prompt),
         NEW plan \in Plans(ix, rw, c, s, prompt, gen), Admit(ix, rw, plan, prompt, gen),
         raised' = "none"
  PROVE  FullInv'
<1>1. prompt \in Nat /\ gen \in Nat /\ gen >= 1
  BY DEF ChainAssumption
<1>2. plan.chain = c /\ plan.seq = s /\ plan.reused = Reused(ix, c)
  BY <1>1, PlanFor DEF Consistent
<1>3. PICK r : r = ApplyAdmission(ix, plan)
  OBVIOUS
<1>4. PICK q : q = FreeVictims(ix, rw, plan)
  OBVIOUS
<1>5. PICK sq : sq = With(seqs, s, Queueing(plan, prompt, gen))
  OBVIOUS
<1>6. index' = r /\ rows' = q /\ seqs' = sq
  BY <1>2, <1>3, <1>4, <1>5 DEF Admit, Queueing
<1>7. Covered(r, q, sq)
  BY <1>1, <1>3, <1>4, <1>5, AdmitCovers
<1> QED BY <1>6, <1>7 DEF FullInv

LEMMA AdmitNewCovers ==
  ASSUME ChainAssumption, KeepsAll, ChainInv, FullInv, NEW prompt \in PromptLens,
         NEW gen \in MaxTokens, AdmitNew(prompt, gen)
  PROVE  FullInv'
<1>0. /\ Consistent(index, rows, seqs, active) /\ Issued(index, nextId)
      /\ Covered(index, rows, seqs)
  BY DEF ChainInv, FullInv
<1>1. nextId \in Ids /\ raised' = "none" /\ Fits(prompt, gen)
  BY DEF AdmitNew, Running
<1>2. PICK n : n = nextId
  OBVIOUS
<1>3. PICK plan \in Plans(index, rows, n, n, prompt, gen) : Admit(index, rows, plan, prompt, gen)
  BY <1>2 DEF AdmitNew
<1>4. n \in SeqIds /\ n \in Ids
  BY <1>1, <1>2 DEF SeqIds
<1>5. \A d \in DOMAIN index.records : d # n /\ index.records[d].seq # n
  BY <1>0, <1>2, <1>4 DEF Issued, Ids
<1>6. n \notin DOMAIN index.bySeq
  BY <1>0, <1>5 DEF Consistent, Agree
<1>7. n \notin index.tombstones.ids
  BY <1>0, <1>2, <1>4 DEF Issued, Ids
<1>8. prompt > 0
  BY DEF ChainAssumption
<1>9. MayAdmit(index, n, n, prompt)
  BY <1>4, <1>5, <1>6, <1>7, <1>8 DEF MayAdmit
<1> QED BY <1>0, <1>1, <1>3, <1>9, AdmitCoversFrom

LEMMA AdmitResumeCovers ==
  ASSUME ChainAssumption, KeepsAll, ChainInv, FullInv, NEW prompt \in PromptLens,
         NEW gen \in MaxTokens, NEW c, AdmitResume(c, prompt, gen)
  PROVE  FullInv'
<1>0. Consistent(index, rows, seqs, active) /\ Covered(index, rows, seqs)
  BY DEF ChainInv, FullInv
<1>1. /\ c \in InState(index, "idle") /\ prompt > index.records[c].processed
      /\ raised' = "none" /\ Fits(prompt, gen)
  BY DEF AdmitResume, Running
<1>2. PICK s : s = index.records[c].seq
  OBVIOUS
<1>3. PICK plan \in Plans(index, rows, c, s, prompt, gen) : Admit(index, rows, plan, prompt, gen)
  BY <1>2 DEF AdmitResume
<1>4. c \in DOMAIN index.records /\ c \in Ids /\ s \in SeqIds
  BY <1>0, <1>1, <1>2 DEF InState, Consistent, Shape, Record
<1>5. MayAdmit(index, c, s, prompt)
  BY <1>1, <1>2, <1>4 DEF MayAdmit
<1> QED BY <1>0, <1>1, <1>3, <1>5, AdmitCoversFrom

LEMMA AdmitRecreateCovers ==
  ASSUME ChainAssumption, KeepsAll, ChainInv, FullInv, NEW prompt \in PromptLens,
         NEW gen \in MaxTokens, NEW c, AdmitRecreate(c, prompt, gen)
  PROVE  FullInv'
<1>0. /\ Consistent(index, rows, seqs, active) /\ Issued(index, nextId)
      /\ Covered(index, rows, seqs)
  BY DEF ChainInv, FullInv
<1>1. c \in InState(index, "idle") /\ nextId \in Ids /\ raised' = "none" /\ Fits(prompt, gen)
  BY DEF AdmitRecreate, Running
<1>2. PICK s : s = index.records[c].seq
  OBVIOUS
<1>3. PICK ix : ix = Forget(index, {c})
  OBVIOUS
<1>4. PICK rw : rw = Without(rows, {s})
  OBVIOUS
<1>5. PICK n : n = nextId
  OBVIOUS
<1>6. c \in DOMAIN index.records /\ c \in Ids /\ s \in SeqIds /\ index.records[c].state = "idle"
  BY <1>0, <1>1, <1>2 DEF InState, Consistent, Shape, Record
<1>7. s \notin active /\ DOMAIN seqs = active
  BY <1>0, <1>2, <1>6 DEF Consistent, Agree, InState
<1>8. {s} = {index.records[d].seq : d \in {c}} /\ {c} \in SUBSET DOMAIN index.records
  BY <1>2, <1>6
<1>9. active \ {s} = active /\ DOMAIN seqs = DOMAIN seqs \ {s}
  BY <1>7
<1>10. index.tombstones.ids \subseteq Ids
  BY <1>0 DEF Issued
<1>11. Consistent(ix, rw, seqs, active)
  <2>1. Consistent(ix, rw, seqs, active \ {s})
    BY <1>0, <1>3, <1>4, <1>8, <1>9, <1>10, ForgetKeeps
  <2> QED BY <1>9, <2>1
<1>12. Covered(ix, rw, seqs)
  BY <1>0, <1>3, <1>4, <1>8, <1>9, ForgetCovers
<1>13. DOMAIN ix.records = DOMAIN index.records \ {c} /\ s \notin DOMAIN ix.bySeq
  BY <1>3, <1>8, ForgetLeaves
<1>14. ix.tombstones.ids \subseteq index.tombstones.ids \cup {c}
  BY <1>0, <1>3, <1>8, <1>10, ForgetStamped DEF Consistent
<1>15. CASE Plans(ix, rw, n, s, prompt, gen) = {}
  <2>1. index' = ix /\ rows' = rw /\ seqs' = seqs
    BY <1>2, <1>3, <1>4, <1>5, <1>15 DEF AdmitRecreate
  <2> QED BY <1>1, <1>12, <2>1 DEF FullInv
<1>16. CASE Plans(ix, rw, n, s, prompt, gen) # {}
  <2>1. PICK plan \in Plans(ix, rw, n, s, prompt, gen) : Admit(ix, rw, plan, prompt, gen)
    BY <1>2, <1>3, <1>4, <1>5, <1>16 DEF AdmitRecreate
  <2>2. n \in Ids
    BY <1>1, <1>5
  <2>3. n \notin DOMAIN ix.records /\ n \notin ix.tombstones.ids
    BY <1>0, <1>5, <1>6, <1>13, <1>14, <2>2 DEF Issued, Ids
  <2>4. prompt > 0
    BY DEF ChainAssumption
  <2>5. MayAdmit(ix, n, s, prompt)
    BY <1>6, <1>13, <2>2, <2>3, <2>4 DEF MayAdmit
  <2> QED BY <1>1, <1>11, <1>12, <2>1, <2>5, AdmitCoversFrom
<1> QED BY <1>15, <1>16

LEMMA InvalidateCovers ==
  ASSUME ChainAssumption, ChainInv, FullInv, NEW c \in DOMAIN index.records, InvalidateChain(c),
         raised' \in {"none", "model"}
  PROVE  FullInv'
<1>0. Consistent(index, rows, seqs, active) /\ Covered(index, rows, seqs)
  BY DEF ChainInv, FullInv
<1>1. PICK S : S = {index.records[c].seq}
  OBVIOUS
<1>2. PICK left : left = Without(seqs, S)
  OBVIOUS
<1>3. index' = Forget(index, {c}) /\ rows' = Without(rows, S) /\ seqs' = left
  BY <1>1, <1>2 DEF InvalidateChain
<1>4. S = {index.records[d].seq : d \in {c}} /\ {c} \in SUBSET DOMAIN index.records
  BY <1>1
<1>5. DOMAIN left = DOMAIN seqs \ S /\ \A s \in DOMAIN left : left[s] = seqs[s]
  BY <1>2 DEF Without, Restrict
<1>6. Covered(Forget(index, {c}), Without(rows, S), left)
  BY <1>0, <1>4, <1>5, ForgetCovers
<1> QED BY <1>3, <1>6 DEF FullInv

LEMMA InitCovers ==
  ASSUME ChainAssumption, Init
  PROVE  FullInv
<1>1. DOMAIN index.records = {} /\ DOMAIN rows = {} /\ raised = "none"
  BY DEF Init
<1>2. RowsFull(rows) /\ TurnsCovered(index, rows, seqs) /\ RestsBare(index) /\ TokensBounded(index)
  BY <1>1 DEF RowsFull, TurnsCovered, RestsBare, TokensBounded, InState
<1>3. ClaimsFit(index)
  <2>1. Cardinality({}) = 0
    BY FS_EmptySet
  <2>2. ASSUME NEW l \in Layers PROVE ClaimsOf(index, l) = 0
    <3>1. PICK f : f = [c \in DOMAIN index.records |-> Claim(index.records[c], l)]
      OBVIOUS
    <3>2. ClaimsOf(index, l) = Cardinality(Cells(DOMAIN index.records, f))
      BY <3>1, ClaimCells
    <3>3. Cells(DOMAIN index.records, f) = {}
      BY <1>1 DEF Cells
    <3> QED BY <2>1, <3>2, <3>3
  <2> QED BY <1>1, <2>1, <2>2 DEF ClaimsFit, ChainAssumption
<1> QED BY <1>1, <1>2, <1>3 DEF FullInv, Covered

LEMMA StepCovers ==
  ASSUME ChainAssumption, KeepsAll, ChainInv, FullInv, [Next]_vars, ChainInv'
  PROVE  FullInv'
<1>0. Agree(index, rows, seqs, active)
  BY DEF ChainInv, Consistent
<1>1. ASSUME NEW prompt \in PromptLens, NEW gen \in MaxTokens, AdmitNew(prompt, gen)
      PROVE  FullInv'
  BY <1>1, AdmitNewCovers
<1>2. ASSUME NEW prompt \in PromptLens, NEW gen \in MaxTokens, NEW c, AdmitResume(c, prompt, gen)
      PROVE  FullInv'
  BY <1>2, AdmitResumeCovers
<1>3. ASSUME NEW prompt \in PromptLens, NEW gen \in MaxTokens, NEW c, AdmitRecreate(c, prompt, gen)
      PROVE  FullInv'
  BY <1>3, AdmitRecreateCovers
<1>4. ASSUME NEW s, AbortRequest(s) PROVE FullInv'
  <2>1. index.bySeq[s] \in DOMAIN index.records
    BY <1>0, <1>4 DEF AbortRequest, Agree
  <2>2. InvalidateChain(index.bySeq[s]) /\ raised' = "none"
    BY <1>4 DEF AbortRequest, Running
  <2> QED BY <2>1, <2>2, InvalidateCovers
<1>5. ASSUME NEW s, ModelFailure(s) PROVE FullInv'
  <2>1. index.bySeq[s] \in DOMAIN index.records
    BY <1>0, <1>5 DEF ModelFailure, Agree, InState
  <2>2. InvalidateChain(index.bySeq[s]) /\ raised' = "model"
    BY <1>5 DEF ModelFailure
  <2> QED BY <2>1, <2>2, InvalidateCovers
<1>6. ASSUME NEW c, DiscardChain(c) PROVE FullInv'
  <2>1. c \in DOMAIN index.records /\ InvalidateChain(c) /\ raised' = "none"
    BY <1>6 DEF DiscardChain, Running
  <2> QED BY <2>1, InvalidateCovers
<1>7. ASSUME Step PROVE FullInv'
  <2>1. ASSUME NEW s \in DOMAIN seqs, NEW eos \in BOOLEAN, DecodeStep(s, eos)
        PROVE  FullInv'
    <3>1. PICK seq, rw, sampled : Ran(s, seq, rw, sampled, eos)
      BY <2>1, DecodeRuns
    <3>2. Running
      BY <2>1 DEF DecodeStep
    <3> QED BY <3>1, <3>2, RanCovers
  <2>2. ASSUME NEW s \in DOMAIN seqs, NEW eos \in BOOLEAN, NEW k \in 1..ChunkSize,
               PrefillStep(s, k, eos)
        PROVE  FullInv'
    <3>1. PICK seq, rw, sampled : Ran(s, seq, rw, sampled, eos)
      BY <2>2, PrefillRuns
    <3>2. Running
      BY <2>2 DEF PrefillStep
    <3> QED BY <3>1, <3>2, RanCovers
  <2>3. ASSUME NEW s \in DOMAIN seqs, Preempt(s) PROVE FullInv'
    BY <2>3, NeverPreempts
  <2>4. ASSUME StepRaises PROVE FullInv'
    BY <2>4, NeverStalls
  <2> QED BY <1>7, <2>1, <2>2, <2>3, <2>4 DEF Step
<1>8. CASE Next
  BY <1>1, <1>2, <1>3, <1>4, <1>5, <1>6, <1>7, <1>8 DEF Next
<1>9. CASE UNCHANGED vars
  BY <1>9 DEF vars, FullInv
<1> QED BY <1>8, <1>9

\* With every layer kept in full, admitted turns stay covered: no record claims
\* more than its turn can reach, and all claims together fit the pool.
THEOREM FullTurnsCovered ==
  ASSUME KeepsAll
  PROVE  Spec => []FullInv
<1>1. Init => FullInv
  BY InitCovers, ChainAssumption
<1>2. ChainInv /\ FullInv /\ [Next]_vars /\ ChainInv' => FullInv'
  BY StepCovers, ChainAssumption
<1> QED BY <1>1, <1>2, ChainsConsistent, PTL DEF Spec

\* With every layer kept in full, the free slots and rows cover at every moment
\* what all running turns may still write: the reservations that
\* plan_admission makes hold to the end of every turn, in every pool and under
\* every load.
THEOREM ReservationsHold ==
  ASSUME KeepsAll
  PROVE  Spec => []GrowthCovered
<1>1. ChainInv /\ FullInv => GrowthCovered
  BY FullGrowth, ChainAssumption
<1> QED BY <1>1, ChainsConsistent, FullTurnsCovered, PTL

\* With every layer kept in full, no admitted turn is stranded: a sole decode
\* always has a slot, a step that has work always finds something to run, and
\* max_token_history_tokens never refuses the history of a turn that ends.
THEOREM TurnsNeverStranded ==
  ASSUME KeepsAll
  PROVE  Spec => []NeverStranded
<1>1. FullInv => NeverStranded
  BY DEF FullInv, NeverStranded
<1> QED BY <1>1, FullTurnsCovered, PTL
=============================================================================
