-------------------------- MODULE TpChannelProofs --------------------------
(***************************************************************************)
(* InOrder, StatusIsCurrent, FailureReported and CollectivesMatch, for any *)
(* number of workers, any number of calls, any mix of methods and failures *)
(* anywhere, as long as exit() waits for the caller (~Forced).  All four are *)
(* stated until a rank deserts a collective, that is raises in front of the *)
(* collective of a body that another rank has entered: from then on that   *)
(* rank's later collectives meet the wrong ones.  A body that raises in    *)
(* front of its collective on every rank, or on some while nobody has      *)
(* entered it yet, deserts nothing, and is covered.                        *)
(*                                                                         *)
(* Whether a command has a collective in its body is thus known only in the *)
(* end, and the invariant is stated for every set K of commands that may be *)
(* skipped: ChannelInv(K) holds as long as K is consistent with what was   *)
(* skipped and entered so far.  A consistent K was consistent before every *)
(* step (ConsistentBefore); so ChannelInv(K), which then held before the   *)
(* step, holds after it (ChannelStep).  Until a rank deserts a collective, *)
(* skipped itself is such a K (NotDeserted).                               *)
(*                                                                         *)
(* The four hold together.  Ranks agree on their collectives because each  *)
(* works through the same commands (InOrder); the buffer is not overwritten *)
(* too early because a call ends only when its collective was met or its   *)
(* status bytes are in (CollectivesMatch, StatusIsCurrent), or when a      *)
(* timeout shows that a worker will never move again.                      *)
(***************************************************************************)
EXTENDS TpChannel, SequenceTheorems, NaturalsInduction, WellFoundedInduction, TLAPS

Kinds == {"body", "reduce", "gather", "barrier"}

Entries == [id : Nat, kind : Kinds, flag : BOOLEAN]

ThreadStates == {"idle", "signal", "ack", "body", "collective", "status", "reap", "done"}

ThreadRecords == [pc : ThreadStates, id : Nat, rank : Workers, error : BOOLEAN, at : Nat]

WorkerStates == {"read", "clear", "body", "collective", "report", "reported", "dead", "exited"}

ChannelType ==
  /\ calls \in Seq(Methods \cup {"exit"})
  /\ buffer = Len(calls)
  /\ command \in [Workers -> BOOLEAN]
  /\ completion \in [Workers -> BOOLEAN]
  /\ status \in [Workers -> [value : {"pending", "success", "failed"}, of : Nat]]
  /\ thread \in [Threads -> ThreadRecords]
  /\ worker \in [Workers -> [pc : WorkerStates, id : Nat, error : BOOLEAN]]
  /\ entered \in [Ranks -> Seq(Entries)]
  /\ result \in [1..(MaxCalls + 1) -> {"none", "ok", "error"}]
  /\ log \in [Workers -> Seq(Nat)]
  /\ failedAt \in [Workers -> SUBSET Nat]

-----------------------------------------------------------------------------
(* The collectives of a command.  K stands for the commands in whose body  *)
(* some rank raises in front of the collective, sooner or later: nobody    *)
(* enters the collectives of their bodies.                                 *)

\* Ranks enter a collective in the body of command k.
HasBody(K, k) == calls[k] \in Collective /\ k \notin K

\* Every rank that carries out command k enters a collective.
Meets(K, k) == HasBody(K, k) \/ Sync(calls[k]) = "reduce" \/ calls[k] = "exit"

\* The kind of the first one.
FirstKind(K, k) ==
  IF HasBody(K, k) THEN "body" ELSE IF calls[k] = "exit" THEN "barrier" ELSE "reduce"

\* K has the commands skipped so far, and none whose body was entered.
Consistent(K) ==
  /\ skipped \subseteq K
  /\ \A r \in Ranks : \A n \in 1..Len(entered[r]) :
       entered[r][n].kind = "body" => entered[r][n].id \notin K

\* No command between a and b has a collective.
NoneBetween(K, a, b) == \A k \in a..b : ~Meets(K, k)

\* The n-th collective of rank r is the last one of its command.
Over(r, n) ==
  LET e == entered[r][n]
  IN  \/ e.kind \in {"gather", "barrier"}
      \/ e.kind = "body" /\ Sync(calls[e.id]) = "host"
      \/ e.kind = "reduce" /\ Met(n) /\ (calls[e.id] \notin Gathers \/ Bad(n))

IdAt(r, n) == IF n = 0 THEN 0 ELSE entered[r][n].id

\* The n-th collective of rank r is the next one of the same command, ...
GoesOn(r, n) ==
  /\ n > 1 /\ Met(n - 1) /\ IdAt(r, n - 1) = IdAt(r, n)
  /\ \/ /\ entered[r][n - 1].kind = "body" /\ entered[r][n].kind = "reduce"
        /\ Sync(calls[IdAt(r, n)]) = "reduce"
     \/ /\ entered[r][n - 1].kind = "reduce" /\ entered[r][n].kind = "gather"
        /\ calls[IdAt(r, n)] \in Gathers /\ ~Bad(n - 1)

\* ... or the first one of the next command that has any.
Starts(K, r, n) ==
  /\ Meets(K, IdAt(r, n))
  /\ entered[r][n].kind = FirstKind(K, IdAt(r, n))
  /\ n > 1 => Over(r, n - 1)
  /\ IdAt(r, n - 1) < IdAt(r, n)
  /\ NoneBetween(K, IdAt(r, n - 1) + 1, IdAt(r, n) - 1)

Follows(K) ==
  \A r \in Ranks : \A n \in 1..Len(entered[r]) :
    IdAt(r, n) \in 1..Len(calls) /\ (GoesOn(r, n) \/ Starts(K, r, n))

\* Rank r is through with every command up to i.
Rested(K, r, i) ==
  /\ entered[r] # <<>> => Over(r, Len(entered[r]))
  /\ NoneBetween(K, IdAt(r, Len(entered[r])) + 1, i)
  /\ \A n \in 1..Len(entered[r]) : IdAt(r, n) <= i

\* Rank r is in a collective of command i.
Inside(r, i) ==
  /\ entered[r] # <<>> /\ IdAt(r, Len(entered[r])) = i
  /\ \A n \in 1..Len(entered[r]) :
       /\ IdAt(r, n) <= i
       /\ (IdAt(r, n) = i /\ entered[r][n].kind = "reduce")
            => entered[r][Len(entered[r])].kind # "body"

WorkerAt(K, w) ==
  LET p == worker[w].pc
      i == worker[w].id
  IN  /\ i <= Len(calls) /\ (p \notin {"read", "dead"} => i >= 1)
      /\ p \in {"report", "reported"} => Sync(calls[i]) = "host"
      /\ p \in {"read", "report", "reported"} => Rested(K, w, i)
      /\ p \in {"clear", "body"} => Rested(K, w, i - 1)
      /\ p = "collective" => Inside(w, i)
      /\ p \in {"dead", "exited"} => \A n \in 1..Len(entered[w]) : IdAt(w, n) <= i

\* Rank 0's threads are in the last command, and never both.
ThreadsAt ==
  LET n == Len(calls)
      c == thread["call"]
      x == thread["exit"]
  IN  /\ x.pc = "idle" => n <= MaxCalls
      /\ n <= MaxCalls + 1
      /\ x.pc # "idle" => c.pc = "idle" /\ n >= 1 /\ x.id = n
      /\ c.pc # "idle" => n >= 1 /\ c.id = n

\* Rank 0, whichever of its threads is active.
Rank0At(K) ==
  LET n == Len(calls)
      c == thread["call"]
      x == thread["exit"]
  IN  /\ x.pc = "idle" => n <= MaxCalls
      /\ n <= MaxCalls + 1
      /\ x.pc \notin {"status"} /\ c.pc \notin {"reap", "done"}
      /\ x.pc # "idle" => c.pc = "idle" /\ n >= 1 /\ x.id = n /\ calls[n] = "exit"
      /\ c.pc # "idle" => n >= 1 /\ c.id = n /\ calls[n] \in Methods
      /\ "ack" \in {c.pc, x.pc} => Sync(calls[n]) = "ack"
      /\ (c.pc = "idle" /\ x.pc = "idle") => Rested(K, 0, n)
      /\ c.pc \in {"body", "collective"} => c.rank = 1
      /\ c.pc = "status" => Rested(K, 0, n) /\ Sync(calls[n]) = "host"
      /\ \A t \in Threads :
           /\ thread[t].pc \in {"signal", "ack", "body"} => Rested(K, 0, n - 1)
           /\ thread[t].pc = "collective" => Inside(0, n) /\ thread[t].at = Len(entered[0])

-----------------------------------------------------------------------------
(* How far every worker is.                                                *)

\* w is gone: it has ended, or waits for one that has.
Gone(w) ==
  \/ worker[w].pc \in {"dead", "exited"}
  \/ /\ worker[w].pc = "collective"
     /\ \E v \in Workers : /\ worker[v].pc \in {"dead", "exited"}
                           /\ Len(entered[v]) < Len(entered[w])

\* w has taken up command i and no other one is waiting for it.
Has(w, i) == worker[w].id = i /\ ~command[w] /\ worker[w].pc # "clear"

\* w is at the command before the last one and has been woken for the last.
Woken(w) ==
  /\ worker[w].id + 1 = Len(calls) /\ command[w] /\ worker[w].pc # "clear"
  /\ ~completion[w]

\* w is reading the last command.
Reading(w) == worker[w].id = Len(calls) /\ command[w] /\ worker[w].pc = "clear"

\* The loop that wakes the workers has not come to w.
Unsignalled(w) == \E t \in Threads : thread[t].pc = "signal" /\ w >= thread[t].rank

\* Rank 0 knows that w has taken up the last command.
Heard(w) ==
  LET c == thread["call"]
  IN  \/ c.pc = "idle" /\ thread["exit"].pc = "idle"
      \/ c.pc \in {"ack", "status"} /\ w < c.rank
      \/ c.pc = "body" /\ Sync(calls[Len(calls)]) = "ack"

Keeping(w) ==
  /\ Heard(w) => Has(w, Len(calls)) \/ Gone(w)
  /\ IF Unsignalled(w) THEN Has(w, Len(calls) - 1) \/ Gone(w)
     ELSE \/ Has(w, Len(calls)) \/ Woken(w) \/ Reading(w) \/ Gone(w)
          \/ thread["exit"].pc \in {"reap", "done"} /\ Has(w, Len(calls) - 1)

\* w is at a command whose result goes into its status byte.
Answering(w) ==
  /\ worker[w].pc \in {"clear", "body", "collective", "report", "reported"}
  /\ Sync(calls[worker[w].id]) = "host"
  /\ ~Gone(w)

\* Rank 0 has asked w for the last command and has not taken its answer.
Asked(w) ==
  LET c == thread["call"]
  IN  \/ c.pc = "signal" /\ w < c.rank
      \/ c.pc \in {"ack", "body", "collective"}
      \/ c.pc = "status" /\ w >= c.rank

StatusKept(w) ==
  /\ Answering(w) => worker[w].id = Len(calls) /\ Asked(w) /\ ~completion[w]
  /\ completion[w] => status[w].value # "pending"
  /\ (completion[w] /\ Asked(w)) =>
       /\ worker[w].id = Len(calls) /\ worker[w].pc \in {"read", "dead"}
       /\ status[w].of = Len(calls)
       /\ status[w].value = "failed" <=> Len(calls) \in failedAt[w]
  /\ (thread["call"].pc = "status" /\ w < thread["call"].rank /\ Len(calls) \in failedAt[w])
       => thread["call"].error
  /\ worker[w].pc = "reported" =>
       status[w] = [value |-> IF worker[w].error THEN "failed" ELSE "success",
                    of |-> worker[w].id]

LogKept(w) == Len(log[w]) = worker[w].id /\ \A i \in 1..Len(log[w]) : log[w][i] = i

-----------------------------------------------------------------------------
(* What became of every command.                                           *)

FailuresKept(w) ==
  /\ \A id \in failedAt[w] : id <= worker[w].id
  /\ worker[w].pc \in {"clear", "body"} => worker[w].id \notin failedAt[w]
  /\ (worker[w].pc = "collective" /\ entered[w][Len(entered[w])].kind = "body")
       => worker[w].id \notin failedAt[w]
  /\ worker[w].pc \in {"report", "reported"} =>
       (worker[w].error <=> worker[w].id \in failedAt[w])
  /\ \A n \in 1..Len(entered[w]) :
       entered[w][n].kind = "reduce" => (entered[w][n].flag <=> entered[w][n].id \in failedAt[w])

ResultsKept ==
  /\ \A id \in 1..(MaxCalls + 1) : id > Len(calls) => result[id] = "none"
  /\ thread["call"].pc # "idle" => result[Len(calls)] = "none"
  /\ \A id \in 1..Len(calls) : result[id] = "ok" =>
       /\ Sync(calls[id]) = "host" => \A w \in Workers : id \notin failedAt[w]
       /\ Sync(calls[id]) = "reduce" =>
            \E n \in 1..Len(entered[0]) : /\ Met(n) /\ ~Bad(n)
                                          /\ entered[0][n].id = id
                                          /\ entered[0][n].kind = "reduce"

\* All ranks have entered the same collectives in the same order.
Agreed ==
  \A r, s \in Ranks : \A n \in 1..Len(entered[r]) :
    n <= Len(entered[s]) => /\ entered[r][n].id = entered[s][n].id
                            /\ entered[r][n].kind = entered[s][n].kind

ChannelInv(K) ==
  /\ ChannelType
  /\ Follows(K)
  /\ Agreed
  /\ Rank0At(K)
  /\ \A w \in Workers : /\ WorkerAt(K, w) /\ Keeping(w) /\ StatusKept(w) /\ LogKept(w)
                        /\ FailuresKept(w)
  /\ ResultsKept

-----------------------------------------------------------------------------
(* Facts about the constants.                                              *)

\* The ranks and the ring of workers.
LEMMA RankFacts ==
  /\ 0 \in Ranks /\ 0 \notin Workers
  /\ \A w \in Workers : w \in Ranks /\ w \in Nat /\ w # 0 /\ NextRank(w) \in Workers
  /\ 1 \in Workers /\ N \in Workers /\ N \in Nat
  /\ \A w \in Workers : w < N => w + 1 \in Workers
  BY TpAssumption DEF Workers, Ranks, NextRank, TpAssumption

\* How the methods are synchronised.
LEMMA SyncFacts ==
  /\ \A m : Sync(m) \in {"ack", "host", "reduce"}
  /\ \A m : Sync(m) = "ack" => m \notin Collective /\ Sync(m) # "reduce"
  /\ Sync("exit") = "ack" /\ "exit" \notin Collective /\ "exit" \notin Gathers
  /\ \A m : m \in Gathers => Sync(m) = "reduce"
  /\ "exit" \notin Methods
  BY TpAssumption DEF Sync, Collective, Gathers, TP_RPC_STATUS_SYNC_METHODS,
     HOST_STATUS_SYNC_METHODS, TpAssumption

\* Which commands have collectives.
LEMMA MeetsFacts ==
  ASSUME NEW K, NEW k
  PROVE  /\ Sync(calls[k]) = "ack" => ~HasBody(K, k) /\ (Meets(K, k) <=> calls[k] = "exit")
         /\ Sync(calls[k]) = "host" => (Meets(K, k) <=> HasBody(K, k))
  BY SyncFacts DEF Meets, HasBody

-----------------------------------------------------------------------------
(* Types.                                                                  *)

\* The threads of rank 0 after a step of one of them.
LEMMA ThreadType ==
  ASSUME ChannelType, NEW t \in Threads
  PROVE  /\ \A p \in ThreadStates, k \in Workers :
              [thread EXCEPT ![t].pc = p, ![t].rank = k] \in [Threads -> ThreadRecords]
         /\ \A p \in ThreadStates, e \in BOOLEAN, a \in Nat :
              [thread EXCEPT ![t].pc = p, ![t].error = e, ![t].at = a] \in [Threads -> ThreadRecords]
         /\ \A p \in ThreadStates, e \in BOOLEAN :
              [thread EXCEPT ![t].pc = p, ![t].error = e] \in [Threads -> ThreadRecords]
         /\ \A k \in Workers, e \in BOOLEAN :
              [thread EXCEPT ![t].rank = k, ![t].error = e] \in [Threads -> ThreadRecords]
         /\ \A p \in ThreadStates, a \in Nat :
              [thread EXCEPT ![t].pc = p, ![t].at = a] \in [Threads -> ThreadRecords]
         /\ \A a \in Nat : [thread EXCEPT ![t].at = a] \in [Threads -> ThreadRecords]
<1>0. thread \in [Threads -> ThreadRecords] /\ thread[t] \in ThreadRecords
  BY DEF ChannelType
<1>1. \A p \in ThreadStates, k \in Workers : [thread[t] EXCEPT !.pc = p, !.rank = k] \in ThreadRecords
  BY <1>0 DEF ThreadRecords
<1>2. \A p \in ThreadStates, e \in BOOLEAN, a \in Nat :
        [thread[t] EXCEPT !.pc = p, !.error = e, !.at = a] \in ThreadRecords
  BY <1>0 DEF ThreadRecords
<1>3. \A p \in ThreadStates, e \in BOOLEAN : [thread[t] EXCEPT !.pc = p, !.error = e] \in ThreadRecords
  BY <1>0 DEF ThreadRecords
<1>4. \A k \in Workers, e \in BOOLEAN : [thread[t] EXCEPT !.rank = k, !.error = e] \in ThreadRecords
  BY <1>0 DEF ThreadRecords
<1>5. \A p \in ThreadStates, a \in Nat : [thread[t] EXCEPT !.pc = p, !.at = a] \in ThreadRecords
  BY <1>0 DEF ThreadRecords
<1>6. \A a \in Nat : [thread[t] EXCEPT !.at = a] \in ThreadRecords
  BY <1>0 DEF ThreadRecords
<1> QED
  BY <1>0, <1>1, <1>2, <1>3, <1>4, <1>5, <1>6

\* call() and exit() return in a proper state.
LEMMA ReturnType ==
  ASSUME ChannelType, NEW t \in Threads, thread[t].id \in 1..(MaxCalls + 1),
         NEW o \in {"ok", "error"}, Return(t, o)
  PROVE  /\ thread' \in [Threads -> ThreadRecords]
         /\ result' \in [1..(MaxCalls + 1) -> {"none", "ok", "error"}]
<1>0. PICK p : p = IF t = "exit" THEN "reap" ELSE "idle"
  OBVIOUS
<1>1. p \in ThreadStates /\ thread' = [thread EXCEPT ![t].pc = p, ![t].rank = 1]
  BY <1>0 DEF ThreadStates, Return
<1>2. thread' \in [Threads -> ThreadRecords]
  BY <1>1, RankFacts, ThreadType
<1>3. result' \in [1..(MaxCalls + 1) -> {"none", "ok", "error"}]
  BY DEF Return, ChannelType
<1> QED BY <1>2, <1>3

\* Entering a collective adds an entry.
LEMMA EnterType ==
  ASSUME ChannelType, NEW r \in Ranks, NEW i \in Nat, NEW k \in Kinds, NEW f \in BOOLEAN,
         Enter(r, i, k, f)
  PROVE  /\ entered' \in [Ranks -> Seq(Entries)]
         /\ entered'[r] = Append(entered[r], [id |-> i, kind |-> k, flag |-> f])
         /\ \A s \in Ranks \ {r} : entered'[s] = entered[s]
         /\ Len(entered[r]) + 1 \in Nat
<1>1. /\ [id |-> i, kind |-> k, flag |-> f] \in Entries /\ entered \in [Ranks -> Seq(Entries)]
      /\ entered[r] \in Seq(Entries)
  BY DEF Entries, ChannelType
<1>2. Append(entered[r], [id |-> i, kind |-> k, flag |-> f]) \in Seq(Entries)
  BY <1>1
<1>3. Len(entered[r]) + 1 \in Nat
  BY <1>1
<1> QED BY <1>1, <1>2, <1>3 DEF Enter

-----------------------------------------------------------------------------
(* Commands and collectives are only added.                                *)

Grows ==
  /\ Len(calls') >= Len(calls)
  /\ \A k \in 1..Len(calls) : calls'[k] = calls[k]
  /\ \A r \in Ranks : /\ Len(entered'[r]) >= Len(entered[r])
                      /\ \A n \in 1..Len(entered[r]) : entered'[r][n] = entered[r][n]

\* What is known of a collective that was met stays true.
LEMMA MetKept ==
  ASSUME ChannelType, ChannelType', Grows, NEW n \in Nat, n >= 1, Met(n)
  PROVE  /\ Met(n)'
         /\ Bad(n)' <=> Bad(n)
<1>0. \A r \in Ranks : Len(entered[r]) \in Nat /\ Len(entered'[r]) \in Nat
  BY DEF ChannelType
<1>1. \A r \in Ranks : n \in 1..Len(entered[r]) /\ Len(entered'[r]) >= n
  BY <1>0 DEF Met, Grows
<1>2. \A r \in Ranks : entered'[r][n] = entered[r][n]
  BY <1>1 DEF Grows
<1>3. Met(n)'
  BY <1>1 DEF Met
<1>4. 0 \in Ranks
  BY RankFacts
<1> QED BY <1>2, <1>3, <1>4 DEF Bad, Flags

\* A collective that was the last of its command remains so.
LEMMA OverKept ==
  ASSUME ChannelType, ChannelType', Grows, NEW r \in Ranks, NEW n \in 1..Len(entered[r]),
         IdAt(r, n) \in 1..Len(calls), Over(r, n)
  PROVE  Over(r, n)'
<1>1. entered'[r][n] = entered[r][n] /\ calls'[entered[r][n].id] = calls[entered[r][n].id]
  BY DEF Grows, IdAt, ChannelType
<1>2. n \in Nat /\ n >= 1
  BY DEF ChannelType
<1> QED BY <1>1, <1>2, MetKept DEF Over

\* The commands up to i are still over on a rank that entered nothing.
LEMMA RestedKept ==
  ASSUME NEW K, ChannelType, ChannelType', Follows(K), Grows, NEW r \in Ranks,
         entered'[r] = entered[r],
         NEW i \in Int, i <= Len(calls), Rested(K, r, i)
  PROVE  Rested(K, r, i)'
<1>0. entered[r] \in Seq(Entries) /\ Len(entered[r]) \in Nat /\ Len(calls) \in Nat
  BY DEF ChannelType
<1>1. \A n \in 1..Len(entered[r]) : IdAt(r, n)' = IdAt(r, n) /\ IdAt(r, n) \in 1..Len(calls)
  BY DEF IdAt, Follows
<1>2. IdAt(r, Len(entered[r]))' = IdAt(r, Len(entered[r])) /\ IdAt(r, Len(entered[r])) \in Nat
  <2>1. CASE Len(entered[r]) = 0
    BY <2>1 DEF IdAt
  <2>2. CASE Len(entered[r]) # 0
    BY <1>0, <1>1, <2>2 DEF IdAt
  <2> QED BY <2>1, <2>2
<1>3. (entered[r] # <<>> => Over(r, Len(entered[r])))'
  <2> SUFFICES ASSUME entered[r] # <<>> PROVE Over(r, Len(entered[r]))'
    OBVIOUS
  <2>1. PICK n : n = Len(entered[r])
    OBVIOUS
  <2>2. n \in 1..Len(entered[r]) /\ Over(r, n) /\ IdAt(r, n) \in 1..Len(calls)
    BY <1>0, <1>1, <2>1 DEF Rested
  <2>3. Over(r, n)'
    BY <2>2, OverKept
  <2> QED BY <2>1, <2>3 DEF Over
<1>4. NoneBetween(K, IdAt(r, Len(entered[r])) + 1, i)'
  <2>1. PICK a : a = IdAt(r, Len(entered[r]))
    OBVIOUS
  <2>2. \A k \in (a + 1)..i : ~Meets(K, k)
    BY <2>1 DEF Rested, NoneBetween
  <2>3. \A k \in (a + 1)..i : calls'[k] = calls[k]
    BY <1>0, <1>2, <2>1 DEF Grows
  <2>4. \A k \in (a + 1)..i : ~Meets(K, k)'
    BY <2>2, <2>3 DEF Meets, HasBody
  <2> QED BY <1>2, <2>1, <2>4 DEF NoneBetween
<1> QED BY <1>1, <1>3, <1>4 DEF Rested

\* A rank that entered nothing is still in its collective.
LEMMA InsideKept ==
  ASSUME NEW K, NEW r, entered'[r] = entered[r], NEW i, Inside(r, i)
  PROVE  Inside(r, i)'
  BY DEF Inside, IdAt

-----------------------------------------------------------------------------
(* Every rank enters the same collectives.                                 *)

\* The entry e is one that rank r can make now.
NextEntry(K, r, e) ==
  LET n == Len(entered[r])
  IN  /\ e.id \in 1..Len(calls)
      /\ \/ /\ n >= 1 /\ Met(n) /\ IdAt(r, n) = e.id
            /\ \/ /\ entered[r][n].kind = "body" /\ e.kind = "reduce"
                  /\ Sync(calls[e.id]) = "reduce"
               \/ /\ entered[r][n].kind = "reduce" /\ e.kind = "gather"
                  /\ calls[e.id] \in Gathers /\ ~Bad(n)
         \/ /\ Meets(K, e.id) /\ e.kind = FirstKind(K, e.id)
            /\ n >= 1 => Over(r, n)
            /\ IdAt(r, n) < e.id
            /\ NoneBetween(K, IdAt(r, n) + 1, e.id - 1)

\* The commands of the collectives are commands that were written.
LEMMA IdAtFacts ==
  ASSUME NEW K, ChannelType, Follows(K), NEW r \in Ranks, NEW n \in Nat, n <= Len(entered[r])
  PROVE  /\ IdAt(r, n) \in Nat /\ IdAt(r, n) <= Len(calls)
         /\ n >= 1 => IdAt(r, n) = entered[r][n].id /\ IdAt(r, n) \in 1..Len(calls)
<1>1. CASE n = 0
  BY <1>1 DEF IdAt, ChannelType
<1>2. CASE n # 0
  <2>1. n \in 1..Len(entered[r]) /\ Len(calls) \in Nat
    BY <1>2 DEF ChannelType
  <2>2. IdAt(r, n) \in 1..Len(calls) /\ IdAt(r, n) = entered[r][n].id
    BY <1>2, <2>1 DEF Follows, IdAt
  <2> QED BY <2>1, <2>2
<1> QED BY <1>1, <1>2

\* A rank that is ahead of r has entered what r enters now.
LEMMA Determined ==
  ASSUME NEW K, ChannelType, Follows(K), Agreed, NEW r \in Ranks, NEW s \in Ranks,
         NEW e \in Entries, NextEntry(K, r, e), Len(entered[s]) > Len(entered[r])
  PROVE  LET n == Len(entered[r]) + 1
         IN  entered[s][n].id = e.id /\ entered[s][n].kind = e.kind
<1>0. PICK n : n = Len(entered[r])
  OBVIOUS
<1>1. /\ n \in Nat /\ n + 1 \in 1..Len(entered[s]) /\ Len(calls) \in Nat
      /\ n >= 1 => n \in 1..Len(entered[s]) /\ n \in 1..Len(entered[r])
      /\ (n + 1) - 1 = n /\ (n + 1 > 1 <=> n >= 1)
  BY <1>0 DEF ChannelType
<1>2. PICK d : d = entered[s][n + 1]
  OBVIOUS
<1>3. d \in Entries /\ IdAt(s, n + 1) = d.id /\ d.id \in 1..Len(calls)
  BY <1>1, <1>2 DEF ChannelType, IdAt, Follows
<1>4. /\ n >= 1 => entered[s][n].id = entered[r][n].id /\ entered[s][n].kind = entered[r][n].kind
      /\ IdAt(s, n) = IdAt(r, n)
  BY <1>0, <1>1 DEF Agreed, IdAt
<1>5. n >= 1 => (Over(s, n) <=> Over(r, n))
  BY <1>4 DEF Over
<1>6. GoesOn(s, n + 1) \/ Starts(K, s, n + 1)
  BY <1>1 DEF Follows
<1>7. GoesOn(s, n + 1) =>
        /\ n >= 1 /\ Met(n) /\ IdAt(r, n) = d.id
        /\ \/ /\ entered[r][n].kind = "body" /\ d.kind = "reduce" /\ Sync(calls[d.id]) = "reduce"
           \/ /\ entered[r][n].kind = "reduce" /\ d.kind = "gather"
              /\ calls[d.id] \in Gathers /\ ~Bad(n)
  BY <1>1, <1>2, <1>3, <1>4 DEF GoesOn
<1>8. Starts(K, s, n + 1) =>
        /\ Meets(K, d.id) /\ d.kind = FirstKind(K, d.id)
        /\ n >= 1 => Over(r, n)
        /\ IdAt(r, n) < d.id
        /\ NoneBetween(K, IdAt(r, n) + 1, d.id - 1)
  BY <1>1, <1>2, <1>3, <1>4, <1>5 DEF Starts
<1>9. IdAt(r, n) \in Nat /\ e.id \in Nat /\ d.id \in Nat /\ (n >= 1 => IdAt(r, n) = entered[r][n].id)
  <2>1. n <= Len(entered[r])
    BY <1>0, <1>1
  <2>2. IdAt(r, n) \in Nat /\ (n >= 1 => IdAt(r, n) = entered[r][n].id)
    BY <1>1, <2>1, IdAtFacts
  <2> QED BY <1>3, <2>2 DEF Entries
<1>10. \/ /\ n >= 1 /\ Met(n) /\ IdAt(r, n) = e.id
          /\ \/ /\ entered[r][n].kind = "body" /\ e.kind = "reduce" /\ Sync(calls[e.id]) = "reduce"
             \/ /\ entered[r][n].kind = "reduce" /\ e.kind = "gather"
                /\ calls[e.id] \in Gathers /\ ~Bad(n)
       \/ /\ Meets(K, e.id) /\ e.kind = FirstKind(K, e.id)
          /\ n >= 1 => Over(r, n)
          /\ IdAt(r, n) < e.id
          /\ NoneBetween(K, IdAt(r, n) + 1, e.id - 1)
  BY <1>0 DEF NextEntry
<1>11. CASE GoesOn(s, n + 1)
  <2>1. ~Over(r, n)
    BY <1>7, <1>9, <1>11 DEF Over
  <2>2. IdAt(r, n) = e.id
    BY <1>7, <1>10, <1>11, <2>1
  <2> QED BY <1>0, <1>2, <1>7, <1>10, <1>11, <2>1, <2>2
<1>12. CASE Starts(K, s, n + 1)
  <2>1. ASSUME n >= 1, Over(r, n) PROVE
          ~(/\ n >= 1 /\ Met(n) /\ IdAt(r, n) = e.id
            /\ \/ /\ entered[r][n].kind = "body" /\ e.kind = "reduce" /\ Sync(calls[e.id]) = "reduce"
               \/ /\ entered[r][n].kind = "reduce" /\ e.kind = "gather"
                  /\ calls[e.id] \in Gathers /\ ~Bad(n))
    BY <1>9, <2>1 DEF Over
  <2>2. /\ Meets(K, e.id) /\ e.kind = FirstKind(K, e.id)
        /\ IdAt(r, n) < e.id /\ NoneBetween(K, IdAt(r, n) + 1, e.id - 1)
    BY <1>8, <1>10, <1>12, <2>1
  <2>3. ~(d.id < e.id)
    BY <1>8, <1>9, <1>12, <2>2 DEF NoneBetween
  <2>4. ~(e.id < d.id)
    BY <1>8, <1>9, <1>12, <2>2 DEF NoneBetween
  <2>5. d.id = e.id
    BY <1>9, <2>3, <2>4
  <2> QED BY <1>0, <1>2, <1>8, <1>12, <2>2, <2>5
<1> QED BY <1>6, <1>11, <1>12

\* A rank that is through with the commands up to i is not behind one that has
\* got no further than i.
LEMMA NobodyAhead ==
  ASSUME NEW K, ChannelType, Follows(K), Agreed, NEW r \in Ranks, NEW s \in Ranks,
         NEW i \in Nat, Rested(K, r, i), \A n \in 1..Len(entered[s]) : IdAt(s, n) <= i
  PROVE  Len(entered[s]) <= Len(entered[r])
<1> SUFFICES ASSUME Len(entered[s]) > Len(entered[r]) PROVE FALSE
  BY DEF ChannelType
<1>0. PICK n : n = Len(entered[r])
  OBVIOUS
<1>1. /\ n \in Nat /\ n + 1 \in 1..Len(entered[s]) /\ Len(calls) \in Nat
      /\ n >= 1 => n \in 1..Len(entered[s]) /\ n \in 1..Len(entered[r])
      /\ (n + 1) - 1 = n /\ (n + 1 > 1 <=> n >= 1)
  BY <1>0 DEF ChannelType
<1>2. /\ IdAt(s, n + 1) \in 1..Len(calls)
      /\ GoesOn(s, n + 1) \/ Starts(K, s, n + 1)
  BY <1>1 DEF Follows
<1>3. /\ n >= 1 => entered[s][n].id = entered[r][n].id /\ entered[s][n].kind = entered[r][n].kind
      /\ IdAt(s, n) = IdAt(r, n)
  BY <1>0, <1>1 DEF Agreed, IdAt
<1>4. n >= 1 => Over(s, n) /\ entered[s][n].id = IdAt(s, n)
  BY <1>0, <1>1, <1>3 DEF Over, Rested, IdAt
<1>5. ~GoesOn(s, n + 1)
  BY <1>1, <1>4 DEF GoesOn, Over
<1>6. ~Starts(K, s, n + 1)
  <2>1. NoneBetween(K, IdAt(s, n) + 1, i) /\ IdAt(s, n) \in Nat
    <3>1. n <= Len(entered[s])
      BY <1>1 DEF ChannelType
    <3>2. IdAt(s, n) \in Nat
      BY <1>1, <3>1, IdAtFacts
    <3> QED BY <1>0, <1>3, <3>2 DEF Rested
  <2>2. ASSUME Starts(K, s, n + 1) PROVE FALSE
    <3>1. Meets(K, IdAt(s, n + 1)) /\ IdAt(s, n) < IdAt(s, n + 1)
      BY <1>1, <2>2 DEF Starts
    <3>2. IdAt(s, n + 1) \in (IdAt(s, n) + 1)..i
      BY <1>1, <1>2, <2>1, <3>1
    <3> QED BY <2>1, <3>1, <3>2 DEF NoneBetween
  <2> QED BY <2>2
<1> QED BY <1>2, <1>5, <1>6

\* Entering the next collective keeps the ranks in agreement.
LEMMA EnterStep ==
  ASSUME NEW K, ChannelType, ChannelType', Follows(K), Agreed, NEW r \in Ranks,
         NEW e \in Entries, NextEntry(K, r, e), UNCHANGED calls,
         entered' = [entered EXCEPT ![r] = Append(@, e)]
  PROVE  Grows /\ Follows(K)' /\ Agreed'
<1>0. PICK n : n = Len(entered[r])
  OBVIOUS
<1>1. /\ n \in Nat /\ Len(calls) \in Nat /\ \A s \in Ranks : entered[s] \in Seq(Entries)
      /\ entered'[r] = Append(entered[r], e) /\ \A s \in Ranks \ {r} : entered'[s] = entered[s]
      /\ (n + 1) - 1 = n /\ (n + 1 > 1 <=> n >= 1)
  BY <1>0 DEF ChannelType
<1>2. /\ Len(entered'[r]) = n + 1 /\ entered'[r][n + 1] = e
      /\ \A k \in 1..n : entered'[r][k] = entered[r][k]
  BY <1>0, <1>1
<1>3. Grows
  BY <1>0, <1>1, <1>2 DEF Grows
<1>4. ASSUME NEW s \in Ranks, NEW k \in 1..Len(entered[s])
      PROVE  (IdAt(s, k) \in 1..Len(calls) /\ (GoesOn(s, k) \/ Starts(K, s, k)))'
  <2>1. IdAt(s, k) \in 1..Len(calls) /\ (GoesOn(s, k) \/ Starts(K, s, k))
    BY DEF Follows
  <2>2. IdAt(s, k)' = IdAt(s, k) /\ entered'[s][k] = entered[s][k] /\ k \in Nat /\ k >= 1
    BY <1>3 DEF Grows, IdAt, ChannelType
  <2>3. k > 1 => /\ k - 1 \in 1..Len(entered[s]) /\ k - 1 \in Nat /\ k - 1 >= 1
    BY <1>1
  <2>4. /\ IdAt(s, k - 1)' = IdAt(s, k - 1) /\ (k > 1 => entered'[s][k - 1] = entered[s][k - 1])
        /\ k > 1 => IdAt(s, k - 1) \in 1..Len(calls)
    BY <1>3, <2>2, <2>3 DEF Grows, IdAt, Follows
  <2>5. CASE GoesOn(s, k)
    <3>1. Met(k - 1)' /\ (Bad(k - 1)' <=> Bad(k - 1))
      BY <1>3, <2>3, <2>5, MetKept DEF GoesOn
    <3> QED BY <2>1, <2>2, <2>4, <2>5, <3>1 DEF GoesOn
  <2>6. CASE Starts(K, s, k)
    <3>1. k > 1 => Over(s, k - 1)'
      BY <1>3, <2>3, <2>4, <2>6, OverKept DEF Starts
    <3>2. \A j : (Meets(K, j)' <=> Meets(K, j)) /\ FirstKind(K, j)' = FirstKind(K, j)
      BY DEF Meets, HasBody, FirstKind
    <3> QED BY <2>1, <2>2, <2>4, <2>6, <3>1, <3>2 DEF Starts, NoneBetween
  <2> QED BY <2>1, <2>5, <2>6
<1>5. (IdAt(r, n + 1) \in 1..Len(calls) /\ (GoesOn(r, n + 1) \/ Starts(K, r, n + 1)))'
  <2>1. /\ IdAt(r, n + 1)' = e.id /\ IdAt(r, n)' = IdAt(r, n)
        /\ n >= 1 => n \in 1..Len(entered[r]) /\ entered'[r][n] = entered[r][n]
        /\ n >= 1 => IdAt(r, n) \in 1..Len(calls)
    BY <1>0, <1>1, <1>2 DEF IdAt, Follows
  <2>2. e.id \in 1..Len(calls)
    BY DEF NextEntry
  <2>3. CASE /\ n >= 1 /\ Met(n) /\ IdAt(r, n) = e.id
             /\ \/ /\ entered[r][n].kind = "body" /\ e.kind = "reduce"
                   /\ Sync(calls[e.id]) = "reduce"
                \/ /\ entered[r][n].kind = "reduce" /\ e.kind = "gather"
                   /\ calls[e.id] \in Gathers /\ ~Bad(n)
    <3>1. Met(n)' /\ (Bad(n)' <=> Bad(n))
      BY <1>1, <1>3, <2>3, MetKept
    <3>2. GoesOn(r, n + 1)'
      BY <1>1, <1>2, <2>1, <2>3, <3>1 DEF GoesOn
    <3> QED BY <2>1, <2>2, <3>2
  <2>4. CASE /\ Meets(K, e.id) /\ e.kind = FirstKind(K, e.id)
             /\ n >= 1 => Over(r, n)
             /\ IdAt(r, n) < e.id
             /\ NoneBetween(K, IdAt(r, n) + 1, e.id - 1)
    <3>1. n >= 1 => Over(r, n)'
      BY <1>3, <2>1, <2>4, OverKept
    <3>2. \A j : (Meets(K, j)' <=> Meets(K, j)) /\ FirstKind(K, j)' = FirstKind(K, j)
      BY DEF Meets, HasBody, FirstKind
    <3>3. Starts(K, r, n + 1)'
      BY <1>1, <1>2, <2>1, <2>4, <3>1, <3>2 DEF Starts, NoneBetween
    <3> QED BY <2>1, <2>2, <3>3
  <2> QED BY <1>0, <2>3, <2>4 DEF NextEntry
<1>6. Follows(K)'
  <2> SUFFICES ASSUME NEW s \in Ranks, NEW k \in 1..Len(entered'[s])
               PROVE  (IdAt(s, k) \in 1..Len(calls) /\ (GoesOn(s, k) \/ Starts(K, s, k)))'
    BY DEF Follows
  <2>1. CASE k \in 1..Len(entered[s])
    BY <1>4, <2>1
  <2>2. CASE k \notin 1..Len(entered[s])
    <3>1. s = r /\ k = n + 1
      BY <1>0, <1>1, <1>2, <2>2
    <3> QED BY <1>5, <3>1
  <2> QED BY <2>1, <2>2
<1>7. Agreed'
  <2> SUFFICES ASSUME NEW s \in Ranks, NEW u \in Ranks, NEW k \in 1..Len(entered'[s]),
                      k <= Len(entered'[u])
               PROVE  entered'[s][k].id = entered'[u][k].id /\ entered'[s][k].kind = entered'[u][k].kind
    BY DEF Agreed
  <2>1. \A v \in Ranks : k <= Len(entered'[v]) /\ ~(v = r /\ k = n + 1)
                           => k \in 1..Len(entered[v]) /\ entered'[v][k] = entered[v][k]
    BY <1>0, <1>1, <1>2
  <2>2. \A v \in Ranks : v # r /\ k = n + 1 /\ k <= Len(entered'[v])
                           => entered'[v][k].id = e.id /\ entered'[v][k].kind = e.kind
    <3> SUFFICES ASSUME NEW v \in Ranks, v # r, k = n + 1, k <= Len(entered'[v])
                 PROVE  entered'[v][k].id = e.id /\ entered'[v][k].kind = e.kind
      OBVIOUS
    <3>1. entered'[v] = entered[v] /\ Len(entered[v]) > Len(entered[r])
      BY <1>0, <1>1
    <3> QED BY <1>0, <3>1, Determined
  <2>3. k \in Nat /\ Len(entered'[s]) \in Nat /\ k <= Len(entered'[s])
    BY DEF ChannelType
  <2>4. CASE s = r /\ k = n + 1
    BY <1>2, <2>2, <2>3, <2>4
  <2>5. CASE u = r /\ k = n + 1
    BY <1>2, <2>2, <2>3, <2>5
  <2>6. CASE ~(s = r /\ k = n + 1) /\ ~(u = r /\ k = n + 1)
    <3>1. /\ k \in 1..Len(entered[s]) /\ k \in 1..Len(entered[u])
          /\ entered'[s][k] = entered[s][k] /\ entered'[u][k] = entered[u][k]
      BY <2>1, <2>3, <2>6
    <3>2. k <= Len(entered[u])
      BY <3>1, <1>1
    <3> QED BY <3>1, <3>2 DEF Agreed
  <2> QED BY <2>4, <2>5, <2>6
<1> QED BY <1>3, <1>6, <1>7

\* A step in which nobody enters a collective and at most a command is added.
LEMMA NoEnterStep ==
  ASSUME NEW K, ChannelType, ChannelType', Follows(K), Agreed, UNCHANGED entered,
         UNCHANGED calls \/ \E m : calls' = Append(calls, m)
  PROVE  Grows /\ Follows(K)' /\ Agreed'
<1>1. Grows
  <2>1. calls \in Seq(Methods \cup {"exit"}) /\ calls' \in Seq(Methods \cup {"exit"})
    BY DEF ChannelType
  <2>2. /\ Len(calls') >= Len(calls) /\ \A k \in 1..Len(calls) : calls'[k] = calls[k]
    BY <2>1
  <2> QED BY <2>2 DEF Grows, ChannelType
<1>2. ASSUME NEW s \in Ranks, NEW k \in 1..Len(entered[s])
      PROVE  (IdAt(s, k) \in 1..Len(calls) /\ (GoesOn(s, k) \/ Starts(K, s, k)))'
  <2>1. IdAt(s, k) \in 1..Len(calls) /\ (GoesOn(s, k) \/ Starts(K, s, k))
    BY DEF Follows
  <2>2. IdAt(s, k)' = IdAt(s, k) /\ k \in Nat /\ k >= 1 /\ Len(calls) \in Nat /\ Len(calls') \in Nat
    BY DEF IdAt, ChannelType
  <2>a. IdAt(s, k)' \in 1..Len(calls') /\ calls'[IdAt(s, k)] = calls[IdAt(s, k)]
    BY <1>1, <2>1, <2>2 DEF Grows
  <2>3. k > 1 => /\ k - 1 \in 1..Len(entered[s]) /\ k - 1 \in Nat /\ k - 1 >= 1
    BY DEF ChannelType
  <2>4. /\ IdAt(s, k - 1)' = IdAt(s, k - 1) /\ IdAt(s, k - 1) \in Nat
        /\ k > 1 => IdAt(s, k - 1) \in 1..Len(calls)
    <3>1. IdAt(s, k - 1)' = IdAt(s, k - 1)
      BY DEF IdAt
    <3>2. k > 1 => IdAt(s, k - 1) \in 1..Len(calls)
      BY <2>3 DEF Follows
    <3>3. k = 1 => IdAt(s, k - 1) = 0
      BY DEF IdAt
    <3> QED BY <2>2, <3>1, <3>2, <3>3
  <2>5. CASE GoesOn(s, k)
    <3>1. Met(k - 1)' /\ (Bad(k - 1)' <=> Bad(k - 1))
      BY <1>1, <2>3, <2>5, MetKept DEF GoesOn
    <3> QED BY <2>1, <2>2, <2>a, <2>4, <2>5, <3>1 DEF GoesOn
  <2>6. CASE Starts(K, s, k)
    <3>1. k > 1 => Over(s, k - 1)'
      BY <1>1, <2>3, <2>4, <2>6, OverKept DEF Starts
    <3>2. NoneBetween(K, IdAt(s, k - 1) + 1, IdAt(s, k) - 1)'
      <4>1. \A j \in (IdAt(s, k - 1) + 1)..(IdAt(s, k) - 1) : calls'[j] = calls[j] /\ ~Meets(K, j)
        BY <1>1, <2>1, <2>2, <2>4, <2>6 DEF Starts, NoneBetween, Grows
      <4>2. \A j \in (IdAt(s, k - 1) + 1)..(IdAt(s, k) - 1) : ~Meets(K, j)'
        BY <4>1 DEF Meets, HasBody
      <4> QED BY <2>2, <2>4, <4>2 DEF NoneBetween
    <3> QED BY <2>1, <2>2, <2>a, <2>4, <2>6, <3>1, <3>2 DEF Starts, Meets, HasBody, FirstKind
  <2> QED BY <2>1, <2>a, <2>5, <2>6
<1>3. Follows(K)'
  BY <1>2 DEF Follows
<1>4. Agreed'
  BY DEF Agreed
<1> QED BY <1>1, <1>3, <1>4

-----------------------------------------------------------------------------
(* Every step keeps the types.                                             *)

WorkerRecords == [pc : WorkerStates, id : Nat, error : BOOLEAN]

\* The workers after a step of one of them.
LEMMA WorkerType ==
  ASSUME ChannelType, NEW w \in Workers, NEW p \in WorkerStates
  PROVE  /\ [worker EXCEPT ![w].pc = p] \in [Workers -> WorkerRecords]
         /\ \A e \in BOOLEAN :
              [worker EXCEPT ![w].pc = p, ![w].error = e] \in [Workers -> WorkerRecords]
         /\ \A e \in BOOLEAN, i \in Nat :
              [worker EXCEPT ![w] = [pc |-> p, id |-> i, error |-> e]] \in [Workers -> WorkerRecords]
<1>0. worker \in [Workers -> WorkerRecords] /\ worker[w] \in WorkerRecords
  BY DEF ChannelType, WorkerRecords
<1>1. [worker[w] EXCEPT !.pc = p] \in WorkerRecords
  BY <1>0 DEF WorkerRecords
<1>2. \A e \in BOOLEAN : [worker[w] EXCEPT !.pc = p, !.error = e] \in WorkerRecords
  BY <1>0 DEF WorkerRecords
<1>3. \A e \in BOOLEAN, i \in Nat : [pc |-> p, id |-> i, error |-> e] \in WorkerRecords
  BY DEF WorkerRecords
<1> QED BY <1>0, <1>1, <1>2, <1>3

\* The fields of the threads and the workers, and the number of the last command.
LEMMA FieldTypes ==
  ASSUME ChannelType
  PROVE  /\ \A t \in Threads : /\ thread[t].pc \in ThreadStates /\ thread[t].id \in Nat
                               /\ thread[t].rank \in Workers /\ thread[t].error \in BOOLEAN
                               /\ thread[t].at \in Nat
         /\ \A w \in Workers : /\ worker[w].pc \in WorkerStates /\ worker[w].id \in Nat
                               /\ worker[w].error \in BOOLEAN
         /\ \A r \in Ranks : entered[r] \in Seq(Entries) /\ Len(entered[r]) \in Nat
         /\ Len(calls) \in Nat /\ MaxCalls \in Nat
         /\ "call" \in Threads /\ "exit" \in Threads
<1>1. /\ \A t \in Threads : thread[t] \in ThreadRecords
      /\ \A w \in Workers : worker[w] \in WorkerRecords
  BY DEF ChannelType, WorkerRecords
<1>2. \A r \in Ranks : entered[r] \in Seq(Entries) /\ Len(entered[r]) \in Nat
  BY DEF ChannelType
<1>3. Len(calls) \in Nat /\ MaxCalls \in Nat /\ "call" \in Threads /\ "exit" \in Threads
  BY TpAssumption DEF ChannelType, TpAssumption, Threads
<1> QED BY <1>1, <1>2, <1>3 DEF ThreadRecords, WorkerRecords

\* An active thread of rank 0 is at the last command.
LEMMA ActiveThread ==
  ASSUME ChannelType, ThreadsAt, NEW t \in Threads, thread[t].pc # "idle"
  PROVE  thread[t].id = Len(calls) /\ Len(calls) \in 1..(MaxCalls + 1)
<1>1. t = "call" \/ t = "exit"
  BY DEF Threads
<1>2. Len(calls) \in Nat /\ MaxCalls \in Nat
  BY FieldTypes
<1>3. thread[t].id = Len(calls) /\ Len(calls) >= 1 /\ Len(calls) <= MaxCalls + 1
  BY <1>1 DEF ThreadsAt
<1> QED BY <1>2, <1>3

\* The types of a step of rank 0 that follows the body of a method.
LEMMA FinishType ==
  ASSUME ChannelType, ThreadsAt, NEW e \in BOOLEAN, thread["call"].pc # "idle", Finish(e)
  PROVE  /\ thread' \in [Threads -> ThreadRecords]
         /\ result' \in [1..(MaxCalls + 1) -> {"none", "ok", "error"}]
         /\ entered' \in [Ranks -> Seq(Entries)]
<1>0. /\ "call" \in Threads /\ thread["call"].id \in Nat /\ Len(entered[0]) + 1 \in Nat
      /\ 0 \in Ranks /\ thread["call"].id \in 1..(MaxCalls + 1)
  BY FieldTypes, RankFacts, ActiveThread
<1>1. CASE Sync(Method("call")) = "ack"
  <2>1. PICK o \in {"ok", "error"} : Return("call", o) /\ UNCHANGED entered
    BY <1>1 DEF Finish
  <2> QED BY <1>0, <2>1, ReturnType DEF ChannelType
<1>2. CASE Sync(Method("call")) = "host"
  <2>1. thread' = [thread EXCEPT !["call"].pc = "status", !["call"].error = e]
    BY <1>2 DEF Finish
  <2>2. UNCHANGED <<entered, result>>
    BY <1>2 DEF Finish
  <2>3. "status" \in ThreadStates /\ 1 \in Workers /\ 0 \in Nat
    BY RankFacts DEF ThreadStates
  <2>4. thread' \in [Threads -> ThreadRecords]
    BY <1>0, <2>1, <2>3, ThreadType
  <2> QED BY <2>2, <2>4 DEF ChannelType
<1>3. CASE Sync(Method("call")) \notin {"ack", "host"}
  <2>1. /\ Enter(0, thread["call"].id, "reduce", e) /\ UNCHANGED result
        /\ thread' = [thread EXCEPT !["call"].pc = "collective", !["call"].error = e,
                                    !["call"].at = Len(entered[0]) + 1]
    BY <1>3 DEF Finish
  <2>2. thread' \in [Threads -> ThreadRecords]
    BY <1>0, <2>1, ThreadType, RankFacts DEF ThreadStates
  <2>3. entered' \in [Ranks -> Seq(Entries)]
    BY <1>0, <2>1, EnterType DEF Kinds
  <2> QED BY <2>1, <2>2, <2>3 DEF ChannelType
<1> QED BY <1>1, <1>2, <1>3

\* The types of a step of a worker that follows the body of a method.
LEMMA WorkerFinishType ==
  ASSUME ChannelType, NEW w \in Workers, NEW e \in BOOLEAN, WorkerFinish(w, e)
  PROVE  /\ worker' \in [Workers -> WorkerRecords]
         /\ failedAt' \in [Workers -> SUBSET Nat]
         /\ entered' \in [Ranks -> Seq(Entries)]
<1>0. worker[w].id \in Nat /\ w \in Ranks /\ entered \in [Ranks -> Seq(Entries)]
  BY FieldTypes, RankFacts DEF ChannelType
<1>1. failedAt' \in [Workers -> SUBSET Nat]
  <2>1. PICK g : g = IF e THEN failedAt[w] \cup {worker[w].id} ELSE failedAt[w]
    OBVIOUS
  <2>2. failedAt' = [failedAt EXCEPT ![w] = g] /\ g \in SUBSET Nat
    BY <1>0, <2>1 DEF WorkerFinish, ChannelType
  <2> QED BY <2>2 DEF ChannelType
<1>2. CASE Sync(Task(w)) = "ack"
  <2>1. worker' = [worker EXCEPT ![w].pc = AfterCall(w, e)] /\ UNCHANGED entered
    BY <1>2 DEF WorkerFinish
  <2>2. AfterCall(w, e) \in WorkerStates
    BY DEF AfterCall, WorkerStates
  <2> QED BY <1>0, <1>1, <2>1, <2>2, WorkerType
<1>3. CASE Sync(Task(w)) = "host"
  <2>1. worker' = [worker EXCEPT ![w].pc = "report", ![w].error = e] /\ UNCHANGED entered
    BY <1>3 DEF WorkerFinish
  <2> QED BY <1>0, <1>1, <2>1, WorkerType DEF WorkerStates
<1>4. CASE Sync(Task(w)) \notin {"ack", "host"}
  <2>1. /\ Enter(w, worker[w].id, "reduce", e)
        /\ worker' = [worker EXCEPT ![w].pc = "collective", ![w].error = e]
    BY <1>4 DEF WorkerFinish
  <2>2. entered' \in [Ranks -> Seq(Entries)]
    BY <1>0, <2>1, EnterType DEF Kinds
  <2>3. worker' \in [Workers -> WorkerRecords]
    BY <1>0, <2>1, WorkerType DEF WorkerStates
  <2> QED BY <1>1, <2>2, <2>3
<1> QED BY <1>2, <1>3, <1>4

\* A command is written.
LEMMA WriteType ==
  ASSUME ChannelType, NEW t \in Threads, NEW m \in Methods \cup {"exit"}, Write(t, m),
         UNCHANGED result
  PROVE  ChannelType'
<1>1. calls' \in Seq(Methods \cup {"exit"}) /\ Len(calls') = Len(calls) + 1 /\ buffer' = Len(calls')
  BY DEF Write, ChannelType
<1>2. thread' \in [Threads -> ThreadRecords]
  <2>1. [pc |-> "signal", id |-> Len(calls) + 1, rank |-> 1, error |-> FALSE, at |-> 0] \in ThreadRecords
    BY FieldTypes, RankFacts DEF ThreadRecords, ThreadStates
  <2> QED BY <2>1 DEF Write, ChannelType
<1> QED BY <1>1, <1>2 DEF Write, ChannelType

\* Rank 0 takes a step.
LEMMA Rank0Types ==
  ASSUME ChannelType, ThreadsAt,
         \/ Rank0Step \/ ExitStep
  PROVE  ChannelType'
<1>a. 0 \in Ranks /\ Len(entered[0]) \in Nat
  BY FieldTypes, RankFacts
<1>b. \A w \in Workers : NextRank(w) \in Workers /\ (w < N => w + 1 \in Workers)
  BY RankFacts
<1>0. /\ "call" \in Threads /\ "exit" \in Threads /\ 0 \in Ranks /\ 0 \in Nat
      /\ Len(entered[0]) + 1 \in Nat /\ 1 \in Workers
      /\ \A t \in Threads : thread[t].rank \in Workers /\ thread[t].id \in Nat
      /\ \A w \in Workers : NextRank(w) \in Workers /\ (w < N => w + 1 \in Workers)
  <2>1. /\ "call" \in Threads /\ "exit" \in Threads
        /\ \A t \in Threads : thread[t].rank \in Workers /\ thread[t].id \in Nat
    BY FieldTypes
  <2>2. 1 \in Workers
    BY RankFacts
  <2>3. Len(entered[0]) + 1 \in Nat /\ 0 \in Nat
    BY <1>a
  <2> QED BY <1>a, <1>b, <2>1, <2>2, <2>3
<1>1. ASSUME NEW t \in Threads, NEW o \in {"ok", "error"}, Return(t, o), thread[t].pc # "idle",
             UNCHANGED <<calls, buffer, command, status, worker, entered, log, failedAt>>,
             completion' \in [Workers -> BOOLEAN]
      PROVE  ChannelType'
  <2>1. thread[t].id \in 1..(MaxCalls + 1)
    BY <1>1, ActiveThread
  <2>2. /\ thread' \in [Threads -> ThreadRecords]
        /\ result' \in [1..(MaxCalls + 1) -> {"none", "ok", "error"}]
    BY <1>1, <2>1, ReturnType
  <2> QED BY <1>1, <2>2 DEF ChannelType
<1>2. ASSUME NEW t \in Threads, Signal(t)
      PROVE  ChannelType'
  <2>1. PICK p \in ThreadStates, k \in Workers : thread' = [thread EXCEPT ![t].pc = p, ![t].rank = k]
    BY <1>0, <1>2 DEF Signal, AfterSignal, ThreadStates
  <2>2. thread' \in [Threads -> ThreadRecords]
    BY <1>0, <2>1, ThreadType
  <2>3. command' \in [Workers -> BOOLEAN] /\ completion' \in [Workers -> BOOLEAN]
    BY <1>0, <1>2 DEF Signal, Reset, ChannelType
  <2>4. status' \in [Workers -> [value : {"pending", "success", "failed"}, of : Nat]]
    <3>1. NoStatus \in [value : {"pending", "success", "failed"}, of : Nat]
      BY DEF NoStatus
    <3> QED BY <1>0, <1>2, <3>1 DEF Signal, Reset, ChannelType
  <2> QED BY <1>2, <2>2, <2>3, <2>4 DEF ChannelType, Signal
<1>3. ASSUME NEW t \in Threads, Acknowledged(t)
      PROVE  ChannelType'
  <2>1. PICK p \in ThreadStates, k \in Workers : thread' = [thread EXCEPT ![t].pc = p, ![t].rank = k]
    BY <1>0, <1>3 DEF Acknowledged, ThreadStates
  <2>2. thread' \in [Threads -> ThreadRecords]
    BY <1>0, <2>1, ThreadType
  <2> QED BY <1>3, <2>2 DEF ChannelType, Acknowledged, channel
<1>4. ASSUME NEW t \in Threads, AckTimeout(t)
      PROVE  ChannelType'
  BY <1>1, <1>4 DEF AckTimeout, channel, ChannelType
<1>5. ASSUME NEW e \in BOOLEAN, Body(e) \/ LeaveBody(e)
      PROVE  ChannelType'
  <2>1. /\ UNCHANGED <<calls, channel, worker, log, failedAt>> /\ thread["call"].pc # "idle"
    BY <1>5 DEF Body, LeaveBody
  <2>2. CASE Finish(e)
    BY <2>1, <2>2, FinishType DEF ChannelType, channel
  <2>3. CASE /\ Enter(0, thread["call"].id, "body", FALSE)
             /\ thread' = [thread EXCEPT !["call"].pc = "collective",
                                         !["call"].at = Len(entered[0]) + 1]
             /\ UNCHANGED result
    <3>1. entered' \in [Ranks -> Seq(Entries)]
      BY <1>0, <2>3, EnterType DEF Kinds
    <3>2. thread' \in [Threads -> ThreadRecords]
      BY <1>0, <2>3, ThreadType DEF ThreadStates
    <3> QED BY <2>1, <2>3, <3>1, <3>2 DEF ChannelType, channel
  <2> QED BY <1>5, <2>2, <2>3 DEF Body, LeaveBody
<1>6. ASSUME NEW d \in BOOLEAN, LeaveReduce(d)
      PROVE  ChannelType'
  <2>1. UNCHANGED <<calls, channel, worker, log, failedAt>> /\ thread["call"].pc # "idle"
    BY <1>6 DEF LeaveReduce
  <2>2. CASE UNCHANGED entered /\ \E o \in {"ok", "error"} : Return("call", o)
    BY <1>0, <1>1, <2>1, <2>2 DEF ChannelType, channel
  <2>3. CASE /\ Enter(0, thread["call"].id, "gather", d)
             /\ thread' = [thread EXCEPT !["call"].at = Len(entered[0]) + 1]
             /\ UNCHANGED result
    <3>1. entered' \in [Ranks -> Seq(Entries)]
      BY <1>0, <2>3, EnterType DEF Kinds
    <3>2. thread' \in [Threads -> ThreadRecords]
      BY <1>0, <2>3, ThreadType DEF ThreadStates
    <3> QED BY <2>1, <2>3, <3>1, <3>2 DEF ChannelType, channel
  <2> QED BY <1>6, <2>2, <2>3 DEF LeaveReduce
<1>7. ASSUME LeaveGather
      PROVE  ChannelType'
  BY <1>0, <1>1, <1>7 DEF LeaveGather, ChannelType, channel
<1>8. ASSUME TakeStatus
      PROVE  ChannelType'
  <2>1. /\ UNCHANGED <<calls, buffer, command, status, worker, entered, log, failedAt>>
        /\ thread["call"].pc # "idle" /\ completion' \in [Workers -> BOOLEAN]
    BY <1>0, <1>8 DEF TakeStatus, ChannelType
  <2>2. CASE \E o \in {"ok", "error"} : Return("call", o)
    BY <1>0, <1>1, <2>1, <2>2
  <2>3. CASE ~\E o \in {"ok", "error"} : Return("call", o)
    <3>1. PICK k \in Workers : /\ UNCHANGED result
                               /\ thread' = [thread EXCEPT !["call"].rank = k, !["call"].error =
                                               BadStatus(thread["call"].error, status[thread["call"].rank].value)]
      BY <1>0, <1>8, <2>3 DEF TakeStatus
    <3>2. BadStatus(thread["call"].error, status[thread["call"].rank].value) \in BOOLEAN
      BY <1>0, FieldTypes DEF BadStatus
    <3>3. thread' \in [Threads -> ThreadRecords]
      BY <1>0, <3>1, <3>2, ThreadType
    <3> QED BY <2>1, <3>1, <3>3 DEF ChannelType
  <2> QED BY <2>2, <2>3
<1>9. ASSUME StatusTimeout
      PROVE  ChannelType'
  BY <1>0, <1>1, <1>9 DEF StatusTimeout, ChannelType, channel
<1>10. ASSUME ExitBody
       PROVE  ChannelType'
  <2>1. entered' \in [Ranks -> Seq(Entries)]
    BY <1>0, <1>10, EnterType DEF Kinds, ExitBody
  <2>2. thread' \in [Threads -> ThreadRecords]
    BY <1>0, <1>10, ThreadType DEF ThreadStates, ExitBody
  <2> QED BY <1>10, <2>1, <2>2 DEF ChannelType, channel, ExitBody
<1>11. ASSUME ExitPassed
       PROVE  ChannelType'
  BY <1>0, <1>1, <1>11 DEF ExitPassed, ChannelType, channel
<1>12. ASSUME ExitTimeout
       PROVE  ChannelType'
  <2>1. thread' = [thread EXCEPT !["exit"].pc = "reap", !["exit"].rank = 1] /\ "reap" \in ThreadStates
    BY <1>12 DEF ExitTimeout, ThreadStates
  <2>2. thread' \in [Threads -> ThreadRecords]
    BY <1>0, <2>1, ThreadType
  <2> QED BY <1>12, <2>2 DEF ChannelType, channel, ExitTimeout
<1>13. ASSUME Reap
       PROVE  ChannelType'
  <2>1. PICK p \in ThreadStates, k \in Workers :
          thread' = [thread EXCEPT !["exit"].pc = p, !["exit"].rank = k]
    BY <1>0, <1>13 DEF Reap, ThreadStates
  <2>2. thread' \in [Threads -> ThreadRecords]
    BY <1>0, <2>1, ThreadType
  <2>3. PICK w \in Workers, q \in WorkerStates : worker' = [worker EXCEPT ![w].pc = q]
    BY <1>0, <1>13, FieldTypes DEF Reap, Stop, WorkerStates
  <2>4. worker' \in [Workers -> WorkerRecords]
    BY <1>0, <2>3, WorkerType
  <2> QED BY <1>13, <2>2, <2>4 DEF ChannelType, channel, Reap, WorkerRecords
<1> QED
  BY <1>0, <1>2, <1>3, <1>4, <1>5, <1>6, <1>7, <1>8, <1>9, <1>10, <1>11, <1>12, <1>13
  DEF Rank0Step, ExitStep

\* A worker takes a step.
LEMMA WorkerTypes ==
  ASSUME ChannelType, NEW w \in Workers, WorkerStep(w)
  PROVE  ChannelType'
<1>0. /\ w \in Ranks /\ worker[w].id \in Nat /\ worker[w].error \in BOOLEAN /\ buffer \in Nat
      /\ \A e \in BOOLEAN : AfterCall(w, e) \in WorkerStates
  BY FieldTypes, RankFacts DEF AfterCall, WorkerStates, ChannelType
<1>a. WorkerRecords = [pc : WorkerStates, id : Nat, error : BOOLEAN]
  BY DEF WorkerRecords
<1>1. CASE Load(w)
  <2>1. worker' \in [Workers -> WorkerRecords]
    BY <1>0, <1>1, WorkerType DEF Load, WorkerStates
  <2>2. log' \in [Workers -> Seq(Nat)]
    BY <1>0, <1>1 DEF Load, ChannelType
  <2> QED BY <1>a, <1>1, <2>1, <2>2 DEF Load, ChannelType, channel
<1>2. CASE Clear(w)
  <2>1. worker' \in [Workers -> WorkerRecords]
    BY <1>0, <1>2, WorkerType DEF Clear, WorkerStates
  <2> QED BY <1>a, <1>2, <2>1 DEF Clear, ChannelType, channel
<1>3. CASE \E e \in BOOLEAN : WorkerBody(w, e) \/ WorkerLeaveBody(w, e)
  <2>0. PICK e \in BOOLEAN : WorkerBody(w, e) \/ WorkerLeaveBody(w, e)
    BY <1>3
  <2>1. UNCHANGED <<calls, channel, thread, result, log>>
    BY <2>0 DEF WorkerBody, WorkerLeaveBody
  <2>2. CASE WorkerFinish(w, e)
    BY <1>a, <2>1, <2>2, WorkerFinishType DEF ChannelType, channel
  <2>3. CASE /\ Enter(w, worker[w].id, "body", FALSE)
             /\ worker' = [worker EXCEPT ![w].pc = "collective"]
             /\ UNCHANGED failedAt
    <3>1. entered' \in [Ranks -> Seq(Entries)]
      BY <1>0, <2>3, EnterType DEF Kinds
    <3>2. worker' \in [Workers -> WorkerRecords]
      BY <2>3, WorkerType DEF WorkerStates
    <3> QED BY <1>a, <2>1, <2>3, <3>1, <3>2 DEF ChannelType, channel
  <2> QED BY <2>0, <2>2, <2>3 DEF WorkerBody, WorkerLeaveBody
<1>4. CASE \E d \in BOOLEAN : WorkerLeaveReduce(w, d)
  <2>0. PICK d \in BOOLEAN : WorkerLeaveReduce(w, d)
    BY <1>4
  <2>1. UNCHANGED <<calls, channel, thread, result, log, failedAt>>
    BY <2>0 DEF WorkerLeaveReduce
  <2>2. CASE Enter(w, worker[w].id, "gather", d) /\ UNCHANGED worker
    <3>1. entered' \in [Ranks -> Seq(Entries)]
      BY <1>0, <2>2, EnterType DEF Kinds
    <3> QED BY <2>1, <2>2, <3>1 DEF ChannelType, channel
  <2>3. CASE UNCHANGED entered /\ \E p \in WorkerStates : worker' = [worker EXCEPT ![w].pc = p]
    <3>0. PICK p \in WorkerStates : worker' = [worker EXCEPT ![w].pc = p]
      BY <2>3
    <3>1. worker' \in [Workers -> WorkerRecords]
      BY <3>0, WorkerType
    <3> QED BY <1>a, <2>1, <2>3, <3>1 DEF ChannelType, channel
  <2> QED BY <2>0, <2>2, <2>3 DEF WorkerLeaveReduce, AfterCall, WorkerStates
<1>5. CASE WorkerLeaveGather(w)
  <2>0. PICK p \in WorkerStates : worker' = [worker EXCEPT ![w].pc = p]
    BY <1>5 DEF WorkerLeaveGather, AfterCall, WorkerStates
  <2>1. worker' \in [Workers -> WorkerRecords]
    BY <2>0, WorkerType
  <2> QED BY <1>a, <1>5, <2>1 DEF ChannelType, channel, WorkerLeaveGather
<1>6. CASE Report(w)
  <2>1. worker' \in [Workers -> WorkerRecords]
    BY <1>0, <1>6, WorkerType DEF Report, WorkerStates
  <2>2. PICK s \in [value : {"pending", "success", "failed"}, of : Nat] :
          status' = [status EXCEPT ![w] = s]
    BY <1>0, <1>6 DEF Report
  <2>3. status' \in [Workers -> [value : {"pending", "success", "failed"}, of : Nat]]
    BY <2>2 DEF ChannelType
  <2> QED BY <1>a, <1>6, <2>1, <2>3 DEF Report, ChannelType, channel
<1>7. CASE Announce(w)
  <2>1. worker' \in [Workers -> WorkerRecords]
    BY <1>0, <1>7, WorkerType DEF Announce, WorkerStates
  <2> QED BY <1>a, <1>7, <2>1 DEF Announce, ChannelType, channel
<1>8. CASE WorkerExit(w)
  <2>1. entered' \in [Ranks -> Seq(Entries)]
    BY <1>0, <1>8, EnterType DEF Kinds, WorkerExit
  <2>2. worker' \in [Workers -> WorkerRecords]
    BY <1>8, WorkerType DEF WorkerStates, WorkerExit
  <2> QED BY <1>a, <1>8, <2>1, <2>2 DEF WorkerExit, ChannelType, channel
<1>9. CASE WorkerExitPassed(w)
  <2>1. worker' \in [Workers -> WorkerRecords]
    BY <1>9, WorkerType DEF WorkerStates, WorkerExitPassed
  <2> QED BY <1>a, <1>9, <2>1 DEF WorkerExitPassed, ChannelType, channel
<1> QED BY <1>1, <1>2, <1>3, <1>4, <1>5, <1>6, <1>7, <1>8, <1>9 DEF WorkerStep

-----------------------------------------------------------------------------
(* What a step leaves alone.                                               *)

\* A step of worker w.
LEMMA WorkerFrame ==
  ASSUME ChannelType, NEW w \in Workers, WorkerStep(w)
  PROVE  /\ UNCHANGED <<calls, thread, result>>
         /\ worker[w].pc \notin {"dead", "exited"}
         /\ worker[w].pc = "collective" => Met(Len(entered[w]))
         /\ \A r \in Ranks \ {w} : entered'[r] = entered[r]
         /\ \A v \in Workers \ {w} :
              /\ worker'[v] = worker[v] /\ log'[v] = log[v] /\ failedAt'[v] = failedAt[v]
              /\ command'[v] = command[v] /\ completion'[v] = completion[v] /\ status'[v] = status[v]
<1>0. w \in Ranks
  BY RankFacts
<1>1. CASE Load(w) \/ Clear(w)
  BY <1>1 DEF Load, Clear, channel, ChannelType
<1>2. CASE \E e \in BOOLEAN : WorkerBody(w, e) \/ WorkerLeaveBody(w, e)
  <2>0. PICK e \in BOOLEAN : WorkerBody(w, e) \/ WorkerLeaveBody(w, e)
    BY <1>2
  <2>1. /\ UNCHANGED <<calls, channel, thread, result, log>>
        /\ worker[w].pc \notin {"dead", "exited"}
        /\ worker[w].pc = "collective" => Met(Len(entered[w]))
    BY <2>0 DEF WorkerBody, WorkerLeaveBody
  <2>2. /\ \A r \in Ranks \ {w} : entered'[r] = entered[r]
        /\ \A v \in Workers \ {w} : worker'[v] = worker[v] /\ failedAt'[v] = failedAt[v]
    <3>1. CASE WorkerFinish(w, e)
      BY <3>1, SyncFacts DEF WorkerFinish, Enter, ChannelType
    <3>2. CASE ~WorkerFinish(w, e)
      BY <2>0, <3>2 DEF WorkerBody, WorkerLeaveBody, Enter, ChannelType
    <3> QED BY <3>1, <3>2
  <2> QED BY <2>1, <2>2 DEF channel
<1>3. CASE \E d \in BOOLEAN : WorkerLeaveReduce(w, d)
  BY <1>3 DEF WorkerLeaveReduce, Enter, channel, ChannelType
<1>4. CASE WorkerLeaveGather(w) \/ WorkerExit(w) \/ WorkerExitPassed(w)
  BY <1>4 DEF WorkerLeaveGather, WorkerExit, WorkerExitPassed, Enter, channel, ChannelType
<1>5. CASE Report(w) \/ Announce(w)
  BY <1>5 DEF Report, Announce, ChannelType
<1> QED BY <1>1, <1>2, <1>3, <1>4, <1>5 DEF WorkerStep

\* A worker that is gone stays so when another one, or it, takes a step.
LEMMA GoneKept ==
  ASSUME ChannelType, Grows, NEW w \in Workers, WorkerStep(w), NEW v \in Workers, Gone(v)
  PROVE  v # w /\ Gone(v)'
<1>0. \A u \in Workers : u \in Ranks /\ Len(entered[u]) \in Nat
  BY FieldTypes, RankFacts
<1>1. ASSUME NEW u \in Workers, worker[u].pc \in {"dead", "exited"}
      PROVE  u # w /\ worker'[u] = worker[u] /\ entered'[u] = entered[u]
  BY <1>0, <1>1, WorkerFrame
<1>2. CASE worker[v].pc \in {"dead", "exited"}
  BY <1>1, <1>2 DEF Gone
<1>3. CASE worker[v].pc = "collective"
  <2>1. PICK u \in Workers : worker[u].pc \in {"dead", "exited"} /\ Len(entered[u]) < Len(entered[v])
    BY <1>3 DEF Gone
  <2>2. v # w
    <3>1. ~Met(Len(entered[v]))
      BY <1>0, <2>1 DEF Met
    <3> QED BY <1>3, <3>1, WorkerFrame
  <2>3. worker'[v] = worker[v] /\ entered'[v] = entered[v]
    BY <1>0, <2>2, WorkerFrame
  <2> QED BY <1>1, <1>3, <2>1, <2>2, <2>3 DEF Gone
<1> QED BY <1>2, <1>3 DEF Gone

\* A worker that does nothing keeps its place.
LEMMA OwnKept ==
  ASSUME NEW K, ChannelType, ChannelType', Follows(K), Grows, NEW v \in Workers,
         worker'[v] = worker[v],
         entered'[v] = entered[v], log'[v] = log[v], failedAt'[v] = failedAt[v],
         WorkerAt(K, v), LogKept(v), FailuresKept(v)
  PROVE  WorkerAt(K, v)' /\ LogKept(v)' /\ FailuresKept(v)'
<1>1. LogKept(v)' /\ FailuresKept(v)'
  BY DEF LogKept, FailuresKept
<1>2. WorkerAt(K, v)'
  <2>0. PICK i : i = worker[v].id
    OBVIOUS
  <2>1. /\ i \in Nat /\ Len(calls) \in Nat /\ Len(calls') \in Nat /\ v \in Ranks
        /\ i <= Len(calls) /\ Len(calls) <= Len(calls')
    <3>1. i \in Nat /\ Len(calls) \in Nat /\ v \in Ranks
      BY <2>0, FieldTypes, RankFacts
    <3>2. Len(calls') \in Nat
      BY DEF ChannelType
    <3>3. i <= Len(calls) /\ Len(calls) <= Len(calls')
      BY <2>0, <3>1, <3>2 DEF WorkerAt, Grows
    <3> QED BY <3>1, <3>2, <3>3
  <2>2. i >= 1 => calls'[i] = calls[i]
    BY <2>1 DEF Grows
  <2>3. Rested(K, v, i) => Rested(K, v, i)'
    BY <2>1, RestedKept
  <2>4. Rested(K, v, i - 1) => Rested(K, v, i - 1)'
    BY <2>1, RestedKept
  <2>5. Inside(v, i) => Inside(v, i)'
    BY InsideKept
  <2>6. \A n \in 1..Len(entered[v]) : IdAt(v, n)' = IdAt(v, n)
    BY DEF IdAt
  <2>7. i <= Len(calls')
    BY <2>1
  <2> QED BY <2>0, <2>1, <2>2, <2>3, <2>4, <2>5, <2>6, <2>7 DEF WorkerAt
<1> QED BY <1>1, <1>2

\* Everybody else, while worker w takes a step.
LEMMA OthersKept ==
  ASSUME NEW K, ChannelInv(K), ChannelType', Grows, NEW w \in Workers, WorkerStep(w),
         NEW v \in Workers, v # w
  PROVE  WorkerAt(K, v)' /\ LogKept(v)' /\ FailuresKept(v)' /\ Keeping(v)' /\ StatusKept(v)'
<1>0. ChannelType /\ Follows(K) /\ WorkerAt(K, v) /\ LogKept(v) /\ FailuresKept(v) /\ Keeping(v) /\ StatusKept(v)
  BY DEF ChannelInv
<1>1. /\ worker'[v] = worker[v] /\ entered'[v] = entered[v] /\ log'[v] = log[v]
      /\ failedAt'[v] = failedAt[v] /\ calls' = calls /\ thread' = thread
      /\ command'[v] = command[v] /\ completion'[v] = completion[v] /\ status'[v] = status[v]
  BY <1>0, RankFacts, WorkerFrame
<1>2. Gone(v) => Gone(v)'
  BY <1>0, GoneKept
<1>3. WorkerAt(K, v)' /\ LogKept(v)' /\ FailuresKept(v)'
  BY <1>0, <1>1, OwnKept
<1>4. Keeping(v)'
  <2>1. /\ Heard(v)' = Heard(v) /\ Unsignalled(v)' = Unsignalled(v) /\ Woken(v)' = Woken(v)
        /\ Reading(v)' = Reading(v) /\ Has(v, Len(calls))' = Has(v, Len(calls))
        /\ Has(v, Len(calls) - 1)' = Has(v, Len(calls) - 1)
    BY <1>1 DEF Heard, Unsignalled, Woken, Reading, Has
  <2> QED BY <1>0, <1>1, <1>2, <2>1 DEF Keeping
<1>5. StatusKept(v)'
  BY <1>0, <1>1, <1>2 DEF StatusKept, Answering, Asked
<1> QED BY <1>3, <1>4, <1>5

\* Rank 0, while a worker takes a step.
LEMMA Rank0Kept ==
  ASSUME NEW K, ChannelInv(K), ChannelType', Grows, NEW w \in Workers, WorkerStep(w)
  PROVE  Rank0At(K)'
<1>0. ChannelType /\ Follows(K) /\ Rank0At(K)
  BY DEF ChannelInv
<1>1. calls' = calls /\ thread' = thread /\ entered'[0] = entered[0] /\ 0 \in Ranks
  BY <1>0, RankFacts, WorkerFrame
<1>2. Len(calls) \in Nat /\ Len(calls) \in Int /\ Len(calls) - 1 \in Int /\ Len(calls) - 1 <= Len(calls)
  BY <1>0, FieldTypes
<1>3. Rested(K, 0, Len(calls)) => Rested(K, 0, Len(calls))'
  <2>1. PICK n : n = Len(calls)
    OBVIOUS
  <2>2. Rested(K, 0, n) => Rested(K, 0, n)'
    BY <1>0, <1>1, <1>2, <2>1, RestedKept
  <2> QED BY <1>1, <2>1, <2>2 DEF Rested
<1>4. Rested(K, 0, Len(calls) - 1) => Rested(K, 0, Len(calls) - 1)'
  <2>1. PICK n : n = Len(calls) - 1
    OBVIOUS
  <2>2. Rested(K, 0, n) => Rested(K, 0, n)'
    BY <1>0, <1>1, <1>2, <2>1, RestedKept
  <2> QED BY <1>1, <2>1, <2>2 DEF Rested
<1>5. Inside(0, Len(calls)) => Inside(0, Len(calls))'
  BY <1>1 DEF Inside, IdAt
<1> QED BY <1>0, <1>1, <1>3, <1>4, <1>5 DEF Rank0At

\* What became of the commands, while a worker takes a step and does not raise
\* in one that has returned normally.
LEMMA ResultsStay ==
  ASSUME NEW K, ChannelInv(K), ChannelType', Grows, NEW w \in Workers, WorkerStep(w),
         \A id \in failedAt'[w] \ failedAt[w] :
           Sync(calls[id]) = "host" => result[id] # "ok"
  PROVE  ResultsKept'
<1>0. ChannelType /\ ResultsKept
  BY DEF ChannelInv
<1>1. /\ calls' = calls /\ thread' = thread /\ result' = result /\ entered'[0] = entered[0]
      /\ \A v \in Workers \ {w} : failedAt'[v] = failedAt[v]
  BY <1>0, RankFacts, WorkerFrame
<1>2. ASSUME NEW id \in 1..Len(calls), result[id] = "ok", Sync(calls[id]) = "host"
      PROVE  \A v \in Workers : id \notin failedAt'[v]
  BY <1>0, <1>1, <1>2 DEF ResultsKept
<1>3. ASSUME NEW n \in 1..Len(entered[0]), Met(n), ~Bad(n)
      PROVE  Met(n)' /\ ~Bad(n)'
  <2>1. n \in Nat /\ n >= 1
    BY <1>0, FieldTypes, RankFacts
  <2> QED BY <1>0, <1>3, <2>1, MetKept
<1>4. ASSUME NEW id \in 1..Len(calls), result[id] = "ok", Sync(calls[id]) = "reduce"
      PROVE  \E n \in 1..Len(entered'[0]) : /\ Met(n)' /\ ~Bad(n)'
                                            /\ entered'[0][n].id = id
                                            /\ entered'[0][n].kind = "reduce"
  <2>1. PICK n \in 1..Len(entered[0]) : /\ Met(n) /\ ~Bad(n)
                                        /\ entered[0][n].id = id
                                        /\ entered[0][n].kind = "reduce"
    BY <1>0, <1>4 DEF ResultsKept
  <2> QED BY <1>1, <1>3, <2>1
<1> QED BY <1>0, <1>1, <1>2, <1>4 DEF ResultsKept

-----------------------------------------------------------------------------
(* Moving on to the next collective.                                       *)

\* Which commands have which collectives.
LEMMA KindFacts ==
  ASSUME NEW K, ChannelType, Follows(K), NEW r \in Ranks, NEW n \in 1..Len(entered[r])
  PROVE  LET e == entered[r][n]
             m == calls[e.id]
         IN  /\ e.id \in 1..Len(calls)
             /\ e.kind = "body" => m \in Collective
             /\ e.kind = "reduce" => Sync(m) = "reduce"
             /\ e.kind = "gather" => m \in Gathers /\ Sync(m) = "reduce" /\ GoesOn(r, n)
             /\ e.kind = "barrier" => m = "exit"
<1>1. /\ IdAt(r, n) = entered[r][n].id /\ IdAt(r, n) \in 1..Len(calls)
      /\ GoesOn(r, n) \/ Starts(K, r, n)
  BY FieldTypes DEF Follows, IdAt
<1>2. CASE GoesOn(r, n)
  <2>1. \/ entered[r][n].kind = "reduce" /\ Sync(calls[entered[r][n].id]) = "reduce"
        \/ entered[r][n].kind = "gather" /\ calls[entered[r][n].id] \in Gathers
    BY <1>1, <1>2 DEF GoesOn
  <2> QED BY <1>1, <1>2, <2>1, SyncFacts
<1>3. CASE Starts(K, r, n)
  <2>1. /\ Meets(K, entered[r][n].id)
        /\ entered[r][n].kind = FirstKind(K, entered[r][n].id)
    BY <1>1, <1>3 DEF Starts
  <2> QED BY <1>1, <2>1, SyncFacts DEF FirstKind, Meets, HasBody
<1> QED BY <1>1, <1>2, <1>3

\* The first collective of a command.
LEMMA FirstEntry ==
  ASSUME NEW K, ChannelType, Follows(K), NEW r \in Ranks, NEW i \in 1..Len(calls),
         Rested(K, r, i - 1),
         NEW e \in Entries, e.id = i, Meets(K, i), e.kind = FirstKind(K, i)
  PROVE  NextEntry(K, r, e) /\ \A n \in 1..Len(entered[r]) : IdAt(r, n) < i
<1>0. PICK n : n = Len(entered[r])
  OBVIOUS
<1>1. n \in Nat /\ i \in Nat /\ i >= 1
  BY <1>0, FieldTypes
<1>2. \A k \in 1..n : IdAt(r, k) \in Nat /\ IdAt(r, k) <= i - 1
  BY <1>0, <1>1, IdAtFacts DEF Rested
<1>3. IdAt(r, n) \in Nat /\ IdAt(r, n) < i
  <2>1. CASE n = 0
    BY <1>1, <2>1 DEF IdAt
  <2>2. CASE n # 0
    BY <1>1, <1>2, <2>2
  <2> QED BY <2>1, <2>2
<1>4. n >= 1 => Over(r, n)
  BY <1>0, <1>1, FieldTypes DEF Rested
<1>5. NoneBetween(K, IdAt(r, n) + 1, i - 1)
  BY <1>0 DEF Rested
<1>6. NextEntry(K, r, e)
  BY <1>0, <1>3, <1>4, <1>5 DEF NextEntry
<1>7. \A k \in 1..n : IdAt(r, k) < i
  BY <1>1, <1>2
<1> QED BY <1>0, <1>6, <1>7

\* A rank that has entered a collective is in it.
LEMMA NowInside ==
  ASSUME ChannelType, NEW r \in Ranks, NEW e \in Entries,
         entered'[r] = Append(entered[r], e),
         \A n \in 1..Len(entered[r]) : IdAt(r, n) <= e.id,
         e.kind = "body" => \A n \in 1..Len(entered[r]) : IdAt(r, n) # e.id
  PROVE  Inside(r, e.id)' /\ Len(entered'[r]) = Len(entered[r]) + 1
<1>0. PICK n : n = Len(entered[r])
  OBVIOUS
<1>1. /\ n \in Nat /\ Len(entered'[r]) = n + 1 /\ entered'[r][n + 1] = e /\ e.id \in Nat
      /\ \A k \in 1..n : entered'[r][k] = entered[r][k]
      /\ entered'[r] # <<>>
  BY <1>0, FieldTypes DEF Entries
<1>2. \A k \in 1..n : IdAt(r, k)' = IdAt(r, k) /\ IdAt(r, k) <= e.id
  BY <1>0, <1>1 DEF IdAt
<1>3. IdAt(r, n + 1)' = e.id
  BY <1>1 DEF IdAt
<1>4. ASSUME NEW k \in 1..(n + 1)
      PROVE  /\ IdAt(r, k)' <= e.id
             /\ (IdAt(r, k)' = e.id /\ entered'[r][k].kind = "reduce") => e.kind # "body"
  <2>1. CASE k = n + 1
    BY <1>1, <1>3, <2>1
  <2>2. CASE k # n + 1
    <3>1. k \in 1..n
      BY <1>1, <2>2
    <3> QED BY <1>0, <1>2, <3>1
  <2> QED BY <2>1, <2>2
<1>5. IdAt(r, Len(entered[r]))' = e.id
  BY <1>1, <1>3 DEF IdAt
<1> QED BY <1>0, <1>1, <1>4, <1>5 DEF Inside, IdAt

\* A command without a collective.
LEMMA RestedNext ==
  ASSUME NEW K, ChannelType, Follows(K), NEW r \in Ranks, NEW i \in 1..Len(calls),
         Rested(K, r, i - 1),
         ~Meets(K, i)
  PROVE  Rested(K, r, i)
<1>0. i \in Nat /\ i >= 1 /\ Len(entered[r]) \in Nat
  BY FieldTypes
<1>1. IdAt(r, Len(entered[r])) \in Nat /\ \A n \in 1..Len(entered[r]) : IdAt(r, n) \in Nat
  BY <1>0, IdAtFacts
<1>2. \A n \in 1..Len(entered[r]) : IdAt(r, n) <= i
  BY <1>0, <1>1 DEF Rested
<1>3. NoneBetween(K, IdAt(r, Len(entered[r])) + 1, i)
  BY <1>0, <1>1 DEF Rested, NoneBetween
<1> QED BY <1>2, <1>3 DEF Rested

\* The last collective of a command.
LEMMA InsideRested ==
  ASSUME NEW K, ChannelType, Follows(K), NEW r \in Ranks, NEW i \in Nat, Inside(r, i),
         Over(r, Len(entered[r]))
  PROVE  Rested(K, r, i)
<1>1. NoneBetween(K, i + 1, i)
  BY DEF NoneBetween
<1> QED BY <1>1 DEF Inside, Rested

-----------------------------------------------------------------------------
(* The steps of a worker.                                                  *)

\* A worker at command i, and what may be asked of it.
LEMMA AnsweringFacts ==
  ASSUME NEW K, ChannelInv(K), NEW w \in Workers, Answering(w)
  PROVE  /\ worker[w].id = Len(calls) /\ Asked(w) /\ ~completion[w]
         /\ thread["call"].pc # "idle" /\ result[Len(calls)] = "none"
<1>1. worker[w].id = Len(calls) /\ Asked(w) /\ ~completion[w]
  BY DEF ChannelInv, StatusKept
<1>2. thread["call"].pc # "idle"
  BY <1>1 DEF Asked
<1> QED BY <1>1, <1>2 DEF ChannelInv, ResultsKept

\* It is enough to look at the worker that takes the step.
LEMMA WorkerDone ==
  ASSUME NEW K, ChannelInv(K), ChannelType', Grows, Follows(K)', Agreed', NEW w \in Workers,
         WorkerStep(w),
         \A id \in failedAt'[w] \ failedAt[w] : Sync(calls[id]) = "host" => result[id] # "ok",
         WorkerAt(K, w)', LogKept(w)', FailuresKept(w)', Keeping(w)', StatusKept(w)'
  PROVE  ChannelInv(K)'
<1>1. Rank0At(K)' /\ ResultsKept'
  BY Rank0Kept, ResultsStay
<1>2. \A v \in Workers \ {w} :
        WorkerAt(K, v)' /\ LogKept(v)' /\ FailuresKept(v)' /\ Keeping(v)' /\ StatusKept(v)'
  BY OthersKept
<1> QED BY <1>1, <1>2 DEF ChannelInv

\* A worker that is in the middle of a command, and stays with it or ends it.
LEMMA WorkerGoesOn ==
  ASSUME NEW K, ChannelInv(K), ChannelType', Grows, Follows(K)', Agreed', NEW w \in Workers,
         WorkerStep(w), worker[w].pc \in {"body", "collective"},
         worker'[w].id = worker[w].id, worker'[w].pc \notin {"clear", "reported"},
         UNCHANGED <<command, completion, status, log>>,
         failedAt'[w] \subseteq failedAt[w] \cup {worker[w].id},
         WorkerAt(K, w)', FailuresKept(w)'
  PROVE  ChannelInv(K)'
<1>0. /\ ChannelType /\ Rank0At(K) /\ WorkerAt(K, w) /\ LogKept(w) /\ FailuresKept(w) /\ Keeping(w)
      /\ StatusKept(w)
  BY DEF ChannelInv
<1>1. /\ calls' = calls /\ thread' = thread /\ ~Gone(w)
  BY <1>0, WorkerFrame, GoneKept
<1>2. LogKept(w)'
  BY <1>0 DEF LogKept
<1>3. Keeping(w)'
  <2>1. /\ Heard(w)' = Heard(w) /\ Unsignalled(w)' = Unsignalled(w) /\ (Woken(w) => Woken(w)')
        /\ ~Reading(w) /\ (Has(w, Len(calls)) => Has(w, Len(calls))')
        /\ Has(w, Len(calls) - 1) => Has(w, Len(calls) - 1)'
    BY <1>1 DEF Heard, Unsignalled, Woken, Reading, Has
  <2> QED BY <1>0, <1>1, <2>1 DEF Keeping
<1>4. Sync(calls[worker[w].id]) = "host" => Answering(w)
  BY <1>1 DEF Answering
<1>5. StatusKept(w)'
  <2>1. Asked(w)' = Asked(w)
    BY <1>1 DEF Asked
  <2>2. Answering(w)' => Answering(w)
    BY <1>1, <1>4 DEF Answering
  <2>3. ASSUME thread["call"].pc = "status", w < thread["call"].rank, Len(calls) \in failedAt'[w]
        PROVE  thread["call"].error
    <3>1. CASE Len(calls) \in failedAt[w]
      BY <1>0, <2>3, <3>1 DEF StatusKept
    <3>2. CASE Len(calls) \notin failedAt[w]
      <4>1. worker[w].id = Len(calls) /\ Sync(calls[Len(calls)]) = "host"
        BY <1>0, <2>3, <3>2 DEF Rank0At
      <4>2. Asked(w)
        BY <1>4, <4>1, AnsweringFacts
      <4>3. w \in Nat /\ thread["call"].rank \in Nat
        BY <1>0, FieldTypes, RankFacts
      <4> QED BY <2>3, <4>2, <4>3 DEF Asked
    <3> QED BY <3>1, <3>2
  <2> QED BY <1>0, <1>1, <2>1, <2>2, <2>3 DEF StatusKept
<1>6. \A id \in failedAt'[w] \ failedAt[w] : Sync(calls[id]) = "host" => result[id] # "ok"
  BY <1>4, AnsweringFacts
<1> QED BY <1>2, <1>3, <1>5, <1>6, WorkerDone

\* Worker w enters the collective e: it is in it, and the entries agree.
LEMMA WorkerEnters ==
  ASSUME NEW K, ChannelInv(K), ChannelType', NEW w \in Workers, UNCHANGED calls, NEW e \in Entries,
         entered' = [entered EXCEPT ![w] = Append(@, e)], NextEntry(K, w, e),
         e.id = worker[w].id, worker'[w].id = worker[w].id, worker'[w].pc = "collective",
         \A n \in 1..Len(entered[w]) : IdAt(w, n) <= e.id,
         e.kind = "body" => \A n \in 1..Len(entered[w]) : IdAt(w, n) # e.id
  PROVE  /\ Grows /\ Follows(K)' /\ Agreed'
         /\ WorkerAt(K, w)'
         /\ entered'[w] = Append(entered[w], e)
<1>0. ChannelType /\ Follows(K) /\ Agreed /\ w \in Ranks
  BY RankFacts DEF ChannelInv
<1>1. Grows /\ Follows(K)' /\ Agreed'
  BY <1>0, EnterStep
<1>2. entered'[w] = Append(entered[w], e)
  BY <1>0 DEF ChannelType
<1>3. Inside(w, e.id)'
  BY <1>0, <1>2, NowInside
<1>4. e.id \in 1..Len(calls)
  BY DEF NextEntry
<1>5. e.id <= Len(calls) /\ e.id >= 1
  BY <1>0, <1>4, FieldTypes
<1>6. Inside(w, worker[w].id)'
  BY <1>3 DEF Inside
<1> QED BY <1>1, <1>2, <1>5, <1>6 DEF WorkerAt

\* What follows the body of a method: the last lines of call(), or the report,
\* or the all-reduce with the flag that says whether the body has raised.
LEMMA WorkerFinishStep ==
  ASSUME NEW K, ChannelInv(K), ChannelType', NEW w \in Workers, NEW e \in BOOLEAN, WorkerStep(w),
         WorkerFinish(w, e), UNCHANGED <<calls, channel, thread, result, log>>, Task(w) # "exit",
         \/ worker[w].pc = "body" /\ ~HasBody(K, worker[w].id)
         \/ /\ worker[w].pc = "collective" /\ Met(Len(entered[w]))
            /\ entered[w][Len(entered[w])].kind = "body"
  PROVE  ChannelInv(K)'
<1> DEFINE n == Len(entered[w])
<1>0. /\ ChannelType /\ Follows(K) /\ Agreed /\ WorkerAt(K, w) /\ FailuresKept(w) /\ w \in Ranks
  BY RankFacts DEF ChannelInv
<1>a. PICK i : i = worker[w].id
  OBVIOUS
<1>b. /\ i \in 1..Len(calls) /\ Len(calls) \in Nat /\ i \in Nat /\ n \in Nat
      /\ Task(w) = calls[i] /\ i \notin failedAt[w]
      /\ i - 1 \in Int /\ i - 1 <= Len(calls)
  <2>1. Len(calls) \in Nat /\ i \in Nat /\ i >= 1 /\ i <= Len(calls) /\ n \in Nat
    BY <1>0, <1>a, FieldTypes DEF WorkerAt
  <2> QED BY <1>0, <1>a, <2>1 DEF FailuresKept, Task
<1>c. failedAt'[w] = IF e THEN failedAt[w] \cup {i} ELSE failedAt[w]
  BY <1>0, <1>a DEF WorkerFinish, ChannelType
<1>d. e <=> i \in failedAt'[w]
  BY <1>b, <1>c
<1>e. \A id : id # i => (id \in failedAt'[w] <=> id \in failedAt[w])
  BY <1>c
<1>f. \A k \in 1..n : IdAt(w, k) \in Nat /\ IdAt(w, k) = entered[w][k].id /\ IdAt(w, k) <= i
  <2>1. \A k \in 1..n : IdAt(w, k) \in Nat /\ IdAt(w, k) = entered[w][k].id
    BY <1>0, <1>b, IdAtFacts
  <2>2. Rested(K, w, i - 1) \/ Inside(w, i)
    BY <1>0, <1>a DEF WorkerAt
  <2> QED BY <1>b, <2>1, <2>2 DEF Rested, Inside
<1>g. \A k \in 1..n : entered[w][k].kind = "reduce" => entered[w][k].id # i
  <2>1. CASE worker[w].pc = "body"
    <3>1. Rested(K, w, i - 1)
      BY <1>0, <1>a, <2>1 DEF WorkerAt
    <3> QED BY <1>b, <1>f, <3>1 DEF Rested
  <2>2. CASE worker[w].pc = "collective"
    <3>1. Inside(w, i) /\ entered[w][n].kind = "body"
      BY <1>0, <1>a, <2>2 DEF WorkerAt
    <3> QED BY <1>f, <3>1 DEF Inside
  <2> QED BY <2>1, <2>2
<1>h. \A id \in failedAt'[w] : id <= i
  BY <1>0, <1>a, <1>b, <1>c DEF FailuresKept
<1>i. \A k \in 1..n : entered[w][k].kind = "reduce" =>
                        (entered[w][k].flag <=> entered[w][k].id \in failedAt'[w])
  BY <1>0, <1>e, <1>g DEF FailuresKept
<1>j. worker[w].pc = "collective" => /\ calls[i] \in Collective /\ Inside(w, i) /\ n \in 1..n
                                     /\ entered[w][n].id = i
  <2> SUFFICES ASSUME worker[w].pc = "collective"
               PROVE  /\ calls[i] \in Collective /\ Inside(w, i) /\ n \in 1..n
                      /\ entered[w][n].id = i
    OBVIOUS
  <2>1. Inside(w, i) /\ entered[w][n].kind = "body"
    BY <1>0, <1>a DEF WorkerAt
  <2>2. n \in 1..n
    BY <1>0, <1>b, <2>1, FieldTypes DEF Inside
  <2>3. entered[w][n].id = i
    BY <1>f, <2>1, <2>2 DEF Inside
  <2> QED BY <1>0, <2>1, <2>2, <2>3, KindFacts
<1>1. CASE Sync(Task(w)) = "ack"
  <2>1. /\ worker' = [worker EXCEPT ![w].pc = AfterCall(w, e)] /\ UNCHANGED entered
    BY <1>1 DEF WorkerFinish
  <2>2. worker'[w].id = i /\ worker'[w].pc \in {"read", "dead"}
    BY <1>0, <1>a, <2>1 DEF AfterCall, ChannelType
  <2>3. Grows /\ Follows(K)' /\ Agreed'
    BY <1>0, <2>1, NoEnterStep
  <2>4. worker[w].pc = "body" /\ ~Meets(K, i)
    BY <1>1, <1>b, <1>j, SyncFacts, MeetsFacts
  <2>5. Rested(K, w, i)
    BY <1>0, <1>a, <1>b, <2>4, RestedNext DEF WorkerAt
  <2>6. Rested(K, w, i)'
    BY <1>0, <1>b, <2>1, <2>3, <2>5, RestedKept
  <2>7. WorkerAt(K, w)'
    BY <1>b, <2>2, <2>6 DEF WorkerAt, Rested
  <2>8. FailuresKept(w)'
    BY <1>h, <1>i, <2>1, <2>2 DEF FailuresKept
  <2> QED BY <1>a, <1>c, <2>2, <2>3, <2>4, <2>7, <2>8, WorkerGoesOn DEF channel
<1>2. CASE Sync(Task(w)) = "host"
  <2>1. /\ worker' = [worker EXCEPT ![w].pc = "report", ![w].error = e] /\ UNCHANGED entered
    BY <1>2 DEF WorkerFinish
  <2>2. worker'[w].id = i /\ worker'[w].pc = "report" /\ worker'[w].error = e
    BY <1>0, <1>a, <2>1 DEF ChannelType
  <2>3. Grows /\ Follows(K)' /\ Agreed'
    BY <1>0, <2>1, NoEnterStep
  <2>4. Rested(K, w, i)
    <3>1. CASE worker[w].pc = "body"
      BY <1>0, <1>2, <1>a, <1>b, <3>1, RestedNext, MeetsFacts DEF WorkerAt
    <3>2. CASE worker[w].pc = "collective"
      <4>1. Over(w, n)
        BY <1>2, <1>b, <1>j, <3>2 DEF Over
      <4> QED BY <1>0, <1>b, <1>j, <3>2, <4>1, InsideRested
    <3> QED BY <3>1, <3>2
  <2>5. Rested(K, w, i)'
    BY <1>0, <1>b, <2>1, <2>3, <2>4, RestedKept
  <2>6. WorkerAt(K, w)'
    BY <1>2, <1>b, <2>2, <2>5 DEF WorkerAt, Rested
  <2>7. FailuresKept(w)'
    BY <1>d, <1>h, <1>i, <2>1, <2>2 DEF FailuresKept
  <2> QED BY <1>a, <1>c, <2>2, <2>3, <2>6, <2>7, WorkerGoesOn DEF channel
<1>3. CASE Sync(Task(w)) = "reduce"
  <2>0. PICK x : x = [id |-> i, kind |-> "reduce", flag |-> e]
    OBVIOUS
  <2>1. /\ worker' = [worker EXCEPT ![w].pc = "collective", ![w].error = e]
        /\ entered' = [entered EXCEPT ![w] = Append(@, x)]
    BY <1>3, <1>a, <2>0 DEF WorkerFinish, Enter
  <2>2. worker'[w].id = i /\ worker'[w].pc = "collective"
    BY <1>0, <1>a, <2>1 DEF ChannelType
  <2>3. x \in Entries /\ x.id = i /\ x.kind = "reduce" /\ x.flag = e
    BY <1>b, <2>0 DEF Entries, Kinds
  <2>4. NextEntry(K, w, x)
    <3>1. CASE worker[w].pc = "body"
      <4>1. Meets(K, i) /\ FirstKind(K, i) = "reduce" /\ Rested(K, w, i - 1)
        BY <1>0, <1>3, <1>a, <1>b, <3>1 DEF Meets, FirstKind, WorkerAt
      <4> QED BY <1>0, <1>b, <2>3, <4>1, FirstEntry
    <3>2. CASE worker[w].pc = "collective"
      <4>1. n >= 1 /\ Met(n) /\ IdAt(w, n) = x.id /\ entered[w][n].kind = "body"
        BY <1>b, <1>f, <1>j, <2>3, <3>2
      <4> QED BY <1>3, <1>b, <2>3, <4>1 DEF NextEntry
    <3> QED BY <3>1, <3>2
  <2>5. /\ Grows /\ Follows(K)' /\ Agreed' /\ WorkerAt(K, w)'
        /\ entered'[w] = Append(entered[w], x)
    BY <1>a, <1>f, <2>1, <2>2, <2>3, <2>4, WorkerEnters
  <2>6. /\ Len(entered'[w]) = n + 1 /\ entered'[w][n + 1] = x
        /\ \A k \in 1..n : entered'[w][k] = entered[w][k]
    BY <1>0, <2>3, <2>5, FieldTypes
  <2>7. \A k \in 1..(n + 1) : entered'[w][k].kind = "reduce" =>
                                (entered'[w][k].flag <=> entered'[w][k].id \in failedAt'[w])
    <3> SUFFICES ASSUME NEW k \in 1..(n + 1), entered'[w][k].kind = "reduce"
                 PROVE  entered'[w][k].flag <=> entered'[w][k].id \in failedAt'[w]
      OBVIOUS
    <3>1. CASE k = n + 1
      BY <1>d, <2>3, <2>6, <3>1
    <3>2. CASE k # n + 1
      <4>1. k \in 1..n
        BY <1>b, <3>2
      <4> QED BY <1>i, <2>6, <4>1
    <3> QED BY <3>1, <3>2
  <2>8. FailuresKept(w)'
    BY <1>h, <2>2, <2>3, <2>6, <2>7 DEF FailuresKept
  <2> QED BY <1>a, <1>c, <2>2, <2>5, <2>8, WorkerGoesOn DEF channel
<1> QED BY <1>1, <1>2, <1>3, SyncFacts

\* A worker that enters a collective and has not raised.
LEMMA WorkerEnterStep ==
  ASSUME NEW K, ChannelInv(K), ChannelType', NEW w \in Workers, WorkerStep(w),
         worker[w].pc \in {"body", "collective"}, NEW e \in Entries,
         entered' = [entered EXCEPT ![w] = Append(@, e)], NextEntry(K, w, e), e.id = worker[w].id,
         worker'[w].id = worker[w].id, worker'[w].pc = "collective", e.kind # "reduce",
         \A n \in 1..Len(entered[w]) : IdAt(w, n) <= e.id,
         e.kind = "body" => worker[w].pc = "body" /\ \A n \in 1..Len(entered[w]) : IdAt(w, n) # e.id,
         UNCHANGED <<command, completion, status, log, failedAt>>
  PROVE  ChannelInv(K)'
<1>0. ChannelType /\ FailuresKept(w) /\ w \in Ranks /\ calls' = calls
  BY RankFacts, WorkerFrame DEF ChannelInv
<1>1. /\ Grows /\ Follows(K)' /\ Agreed' /\ WorkerAt(K, w)'
      /\ entered'[w] = Append(entered[w], e)
  BY <1>0, WorkerEnters
<1>2. PICK n : n = Len(entered[w])
  OBVIOUS
<1>3. /\ n \in Nat /\ Len(entered'[w]) = n + 1 /\ entered'[w][n + 1] = e
      /\ \A k \in 1..n : entered'[w][k] = entered[w][k]
  BY <1>0, <1>1, <1>2, FieldTypes
<1>4. \A k \in 1..(n + 1) : entered'[w][k].kind = "reduce" =>
                              (entered'[w][k].flag <=> entered'[w][k].id \in failedAt'[w])
  <2> SUFFICES ASSUME NEW k \in 1..(n + 1), entered'[w][k].kind = "reduce"
               PROVE  entered'[w][k].flag <=> entered'[w][k].id \in failedAt'[w]
    OBVIOUS
  <2>1. k # n + 1
    BY <1>3
  <2>2. k \in 1..n
    BY <1>3, <2>1
  <2> QED BY <1>0, <1>2, <1>3, <2>2 DEF FailuresKept
<1>5. FailuresKept(w)'
  BY <1>0, <1>3, <1>4 DEF FailuresKept
<1> QED BY <1>1, <1>5, WorkerGoesOn

\* A worker that leaves its last collective.
LEMMA WorkerLeaves ==
  ASSUME NEW K, ChannelInv(K), ChannelType', NEW w \in Workers, WorkerStep(w),
         worker[w].pc = "collective",
         UNCHANGED <<entered, command, completion, status, log, failedAt>>,
         worker'[w].id = worker[w].id, worker'[w].pc \in {"read", "dead", "exited"},
         Over(w, Len(entered[w]))
  PROVE  ChannelInv(K)'
<1>0. /\ ChannelType /\ Follows(K) /\ Agreed /\ FailuresKept(w) /\ WorkerAt(K, w)
      /\ w \in Ranks /\ calls' = calls
  BY RankFacts, WorkerFrame DEF ChannelInv
<1>1. Grows /\ Follows(K)' /\ Agreed'
  BY <1>0, NoEnterStep
<1>2. PICK i : i = worker[w].id
  OBVIOUS
<1>3. i \in Nat /\ i >= 1 /\ i <= Len(calls) /\ Inside(w, i) /\ i \in Int
  BY <1>0, <1>2, FieldTypes DEF WorkerAt
<1>4. Rested(K, w, i)
  BY <1>0, <1>3, InsideRested
<1>5. Rested(K, w, i)'
  BY <1>0, <1>1, <1>3, <1>4, RestedKept
<1>6. WorkerAt(K, w)'
  BY <1>0, <1>2, <1>3, <1>5 DEF WorkerAt, Rested
<1>7. FailuresKept(w)'
  BY <1>0 DEF FailuresKept
<1> QED BY <1>1, <1>6, <1>7, WorkerGoesOn

\* A worker inside a collective.
LEMMA WorkerInside ==
  ASSUME NEW K, ChannelInv(K), NEW w \in Workers, worker[w].pc = "collective"
  PROVE  LET n == Len(entered[w])
             i == worker[w].id
         IN  /\ i \in 1..Len(calls) /\ Inside(w, i) /\ n \in 1..n /\ n >= 1
             /\ IdAt(w, n) = i /\ entered[w][n].id = i /\ Task(w) = calls[i]
             /\ \A k \in 1..n : IdAt(w, k) <= i
<1>0. ChannelType /\ Follows(K) /\ WorkerAt(K, w) /\ w \in Ranks
  BY RankFacts DEF ChannelInv
<1>1. /\ worker[w].id \in 1..Len(calls) /\ Inside(w, worker[w].id) /\ Task(w) = calls[worker[w].id]
  BY <1>0, FieldTypes DEF WorkerAt, Task
<1>2. Len(entered[w]) \in Nat /\ Len(entered[w]) # 0
  BY <1>0, <1>1, FieldTypes DEF Inside
<1>3. IdAt(w, Len(entered[w])) = entered[w][Len(entered[w])].id
  BY <1>2 DEF IdAt
<1> QED BY <1>1, <1>2, <1>3 DEF Inside

\* WorkerBody and WorkerLeaveBody.
LEMMA WorkerBodyStep ==
  ASSUME NEW K, ChannelInv(K), ChannelType', Consistent(K)', NEW w \in Workers,
         WorkerStep(w), NEW e \in BOOLEAN, WorkerBody(w, e) \/ WorkerLeaveBody(w, e)
  PROVE  ChannelInv(K)'
<1>0. /\ ChannelType /\ Follows(K) /\ WorkerAt(K, w) /\ w \in Ranks
      /\ UNCHANGED <<calls, channel, thread, result, log>>
  BY RankFacts DEF ChannelInv, WorkerBody, WorkerLeaveBody
<1>1. CASE WorkerLeaveBody(w, e)
  <2>1. /\ worker[w].pc = "collective" /\ Met(Len(entered[w]))
        /\ entered[w][Len(entered[w])].kind = "body" /\ WorkerFinish(w, e)
    BY <1>1 DEF WorkerLeaveBody
  <2>2. Task(w) \in Collective
    BY <1>0, <2>1, WorkerInside, KindFacts
  <2>3. Task(w) # "exit"
    BY <2>2, SyncFacts
  <2> QED BY <1>0, <2>1, <2>3, WorkerFinishStep
<1>2. CASE WorkerBody(w, e) /\ ~(Task(w) \in Collective /\ ~e)
  <2>1. /\ worker[w].pc = "body" /\ Task(w) # "exit" /\ WorkerFinish(w, e)
        /\ skipped' = Skipping(worker[w].id, e)
    BY <1>2 DEF WorkerBody
  <2>2. ~HasBody(K, worker[w].id)
    BY <1>2, <2>1 DEF HasBody, Task, Skipping, Consistent
  <2> QED BY <1>0, <2>1, <2>2, WorkerFinishStep
<1>3. CASE WorkerBody(w, e) /\ Task(w) \in Collective /\ ~e
  <2>0. PICK i : i = worker[w].id
    OBVIOUS
  <2>a. PICK x : x = [id |-> i, kind |-> "body", flag |-> FALSE]
    OBVIOUS
  <2>1. /\ worker[w].pc = "body" /\ entered' = [entered EXCEPT ![w] = Append(@, x)]
        /\ worker' = [worker EXCEPT ![w].pc = "collective"] /\ UNCHANGED failedAt
    BY <1>3, <2>0, <2>a DEF WorkerBody, Enter
  <2>2. i \in 1..Len(calls) /\ i \in Nat /\ Rested(K, w, i - 1) /\ Task(w) = calls[i]
    BY <1>0, <2>0, <2>1, FieldTypes DEF WorkerAt, Task
  <2>3. x \in Entries /\ x.id = i /\ x.kind = "body"
    BY <2>2, <2>a DEF Entries, Kinds
  <2>4. NextEntry(K, w, x) /\ \A n \in 1..Len(entered[w]) : IdAt(w, n) < i
    <3>1. i \notin K
      <4>1. entered[w] \in Seq(Entries) /\ entered'[w] = Append(entered[w], x)
        BY <1>0, <2>1 DEF ChannelType
      <4>2. Len(entered'[w]) \in 1..Len(entered'[w]) /\ entered'[w][Len(entered'[w])] = x
        BY <2>3, <4>1
      <4> QED BY <1>0, <2>3, <4>2 DEF Consistent
    <3>2. Meets(K, i) /\ FirstKind(K, i) = "body"
      BY <1>3, <2>2, <3>1 DEF Meets, HasBody, FirstKind
    <3> QED BY <1>0, <2>2, <2>3, <3>2, FirstEntry
  <2>5. \A n \in 1..Len(entered[w]) : IdAt(w, n) <= i /\ IdAt(w, n) # i
    <3>1. \A n \in 1..Len(entered[w]) : IdAt(w, n) \in Nat
      BY <1>0, FieldTypes, IdAtFacts
    <3> QED BY <2>2, <2>4, <3>1
  <2>6. worker'[w].id = i /\ worker'[w].pc = "collective"
    BY <1>0, <2>0, <2>1 DEF ChannelType
  <2>7. UNCHANGED <<command, completion, status, log, failedAt>>
    BY <1>0, <2>1 DEF channel
  <2> QED BY <2>0, <2>1, <2>3, <2>4, <2>5, <2>6, <2>7, WorkerEnterStep
<1> QED BY <1>1, <1>2, <1>3

\* WorkerLeaveReduce and WorkerLeaveGather.
LEMMA WorkerLeaveStep ==
  ASSUME NEW K, ChannelInv(K), ChannelType', NEW w \in Workers, WorkerStep(w),
         (\E d \in BOOLEAN : WorkerLeaveReduce(w, d)) \/ WorkerLeaveGather(w)
  PROVE  ChannelInv(K)'
<1> DEFINE n == Len(entered[w])
<1>0. /\ ChannelType /\ Follows(K) /\ w \in Ranks
      /\ UNCHANGED <<command, completion, status, log, failedAt>>
  BY RankFacts DEF ChannelInv, WorkerLeaveReduce, WorkerLeaveGather, channel
<1>a. /\ worker[w].pc = "collective" /\ Met(n)
  BY DEF WorkerLeaveReduce, WorkerLeaveGather
<1>b. PICK i : i = worker[w].id
  OBVIOUS
<1>c. /\ i \in 1..Len(calls) /\ Inside(w, i) /\ n \in 1..n /\ n >= 1 /\ i \in Nat
      /\ IdAt(w, n) = i /\ entered[w][n].id = i /\ Task(w) = calls[i]
      /\ \A k \in 1..n : IdAt(w, k) <= i
  BY <1>0, <1>a, <1>b, WorkerInside, FieldTypes
<1>1. CASE \E d \in BOOLEAN : WorkerLeaveReduce(w, d) /\ ~Bad(n) /\ Task(w) \in Gathers
  <2>0. PICK d \in BOOLEAN : WorkerLeaveReduce(w, d) /\ ~Bad(n) /\ Task(w) \in Gathers
    BY <1>1
  <2>a. PICK x : x = [id |-> i, kind |-> "gather", flag |-> d]
    OBVIOUS
  <2>1. /\ entered' = [entered EXCEPT ![w] = Append(@, x)] /\ UNCHANGED worker
        /\ entered[w][n].kind = "reduce"
    BY <1>b, <2>0, <2>a DEF WorkerLeaveReduce, Enter
  <2>2. x \in Entries /\ x.id = i /\ x.kind = "gather"
    BY <1>c, <2>a DEF Entries, Kinds
  <2>3. NextEntry(K, w, x)
    BY <1>a, <1>c, <2>0, <2>1, <2>2 DEF NextEntry
  <2>4. worker'[w].id = i /\ worker'[w].pc = "collective"
    BY <1>a, <1>b, <2>1
  <2> QED BY <1>0, <1>a, <1>b, <1>c, <2>1, <2>2, <2>3, <2>4, WorkerEnterStep
<1>2. CASE \E d \in BOOLEAN : WorkerLeaveReduce(w, d) /\ ~(~Bad(n) /\ Task(w) \in Gathers)
  <2>0. PICK d \in BOOLEAN : WorkerLeaveReduce(w, d) /\ ~(~Bad(n) /\ Task(w) \in Gathers)
    BY <1>2
  <2>1. /\ UNCHANGED entered /\ entered[w][n].kind = "reduce"
        /\ \E p \in {"read", "dead"} : worker' = [worker EXCEPT ![w].pc = p]
    BY <2>0 DEF WorkerLeaveReduce, AfterCall
  <2>2. worker'[w].id = i /\ worker'[w].pc \in {"read", "dead"}
    BY <1>0, <1>b, <2>1 DEF ChannelType
  <2>3. Over(w, n)
    BY <1>a, <1>c, <2>0, <2>1 DEF Over
  <2> QED BY <1>0, <1>a, <1>b, <2>1, <2>2, <2>3, WorkerLeaves
<1>3. CASE WorkerLeaveGather(w)
  <2>1. /\ UNCHANGED entered /\ entered[w][n].kind = "gather"
        /\ \E p \in {"read", "dead"} : worker' = [worker EXCEPT ![w].pc = p]
    BY <1>3 DEF WorkerLeaveGather, AfterCall
  <2>2. worker'[w].id = i /\ worker'[w].pc \in {"read", "dead"}
    BY <1>0, <1>b, <2>1 DEF ChannelType
  <2>3. Over(w, n)
    BY <2>1 DEF Over
  <2> QED BY <1>0, <1>a, <1>b, <2>1, <2>2, <2>3, WorkerLeaves
<1> QED BY <1>1, <1>2, <1>3

\* WorkerExit and WorkerExitPassed.
LEMMA WorkerExitStep ==
  ASSUME NEW K, ChannelInv(K), ChannelType', NEW w \in Workers, WorkerStep(w),
         WorkerExit(w) \/ WorkerExitPassed(w)
  PROVE  ChannelInv(K)'
<1>0. /\ ChannelType /\ Follows(K) /\ WorkerAt(K, w) /\ w \in Ranks
      /\ UNCHANGED <<command, completion, status, log, failedAt>>
  BY RankFacts DEF ChannelInv, WorkerExit, WorkerExitPassed, channel
<1>b. PICK i : i = worker[w].id
  OBVIOUS
<1>1. CASE WorkerExit(w)
  <2>a. PICK x : x = [id |-> i, kind |-> "barrier", flag |-> FALSE]
    OBVIOUS
  <2>1. /\ worker[w].pc = "body" /\ entered' = [entered EXCEPT ![w] = Append(@, x)]
        /\ worker' = [worker EXCEPT ![w].pc = "collective"] /\ Task(w) = "exit"
    BY <1>1, <1>b, <2>a DEF WorkerExit, Enter
  <2>2. i \in 1..Len(calls) /\ i \in Nat /\ Rested(K, w, i - 1) /\ Task(w) = calls[i]
    BY <1>0, <1>b, <2>1, FieldTypes DEF WorkerAt, Task
  <2>3. x \in Entries /\ x.id = i /\ x.kind = "barrier"
    BY <2>2, <2>a DEF Entries, Kinds
  <2>4. NextEntry(K, w, x) /\ \A n \in 1..Len(entered[w]) : IdAt(w, n) < i
    <3>1. Meets(K, i) /\ FirstKind(K, i) = "barrier"
      BY <2>1, <2>2, SyncFacts DEF Meets, HasBody, FirstKind
    <3> QED BY <1>0, <2>2, <2>3, <3>1, FirstEntry
  <2>5. \A n \in 1..Len(entered[w]) : IdAt(w, n) <= i
    <3>1. \A n \in 1..Len(entered[w]) : IdAt(w, n) \in Nat
      BY <1>0, FieldTypes, IdAtFacts
    <3> QED BY <2>2, <2>4, <3>1
  <2>6. worker'[w].id = i /\ worker'[w].pc = "collective"
    BY <1>0, <1>b, <2>1 DEF ChannelType
  <2> QED BY <1>0, <1>b, <2>1, <2>3, <2>4, <2>5, <2>6, WorkerEnterStep
<1>2. CASE WorkerExitPassed(w)
  <2>1. /\ worker[w].pc = "collective" /\ UNCHANGED entered
        /\ entered[w][Len(entered[w])].kind = "barrier"
        /\ worker' = [worker EXCEPT ![w].pc = "exited"]
    BY <1>2 DEF WorkerExitPassed
  <2>2. worker'[w].id = worker[w].id /\ worker'[w].pc = "exited"
    BY <1>0, <2>1 DEF ChannelType
  <2>3. Over(w, Len(entered[w]))
    BY <2>1 DEF Over
  <2> QED BY <1>0, <2>1, <2>2, <2>3, WorkerLeaves
<1> QED BY <1>1, <1>2

\* read_shm.
LEMMA WorkerReadStep ==
  ASSUME NEW K, ChannelInv(K), ChannelType', NEW w \in Workers, WorkerStep(w), Load(w) \/ Clear(w)
  PROVE  ChannelInv(K)'
<1> DEFINE n == Len(calls)
<1>0. /\ ChannelType /\ Follows(K) /\ Agreed /\ WorkerAt(K, w) /\ LogKept(w) /\ FailuresKept(w)
      /\ Keeping(w) /\ StatusKept(w) /\ Rank0At(K) /\ w \in Ranks
      /\ UNCHANGED <<calls, entered, thread, result, failedAt, completion, status>>
  BY RankFacts DEF ChannelInv, Load, Clear, channel
<1>a. /\ Grows /\ Follows(K)' /\ Agreed'
  BY <1>0, NoEnterStep
<1>b. /\ n \in Nat /\ worker[w].id \in Nat /\ buffer = n /\ w \in Nat /\ ~Gone(w)
      /\ thread["call"].rank \in Nat /\ thread["call"].pc \in ThreadStates
      /\ thread["exit"].pc \in ThreadStates
  BY <1>0, <1>a, FieldTypes, RankFacts, GoneKept DEF ChannelType
<1>c. failedAt'[w] = failedAt[w]
  BY <1>0
<1>1. CASE Load(w)
  <2>1. /\ worker[w].pc = "read" /\ command[w] /\ command' = command
        /\ worker'[w] = [pc |-> "clear", id |-> n, error |-> FALSE]
        /\ log'[w] = Append(log[w], n)
    BY <1>0, <1>1, <1>b DEF Load, ChannelType, channel
  <2>2. Woken(w) /\ ~Heard(w) /\ ~Unsignalled(w)
    <3>1. ~Has(w, n) /\ ~Has(w, n - 1) /\ ~Reading(w)
      BY <2>1 DEF Has, Reading
    <3> QED BY <1>0, <1>b, <3>1 DEF Keeping
  <2>3. worker[w].id + 1 = n /\ n >= 1 /\ worker[w].id = n - 1 /\ ~completion[w]
    BY <1>b, <2>2 DEF Woken
  <2>4. WorkerAt(K, w)'
    <3>1. Rested(K, w, n - 1)
      BY <1>0, <2>1, <2>3 DEF WorkerAt
    <3>2. Rested(K, w, n - 1)'
      <4>1. PICK i : i = n - 1
        OBVIOUS
      <4>2. Rested(K, w, i)'
        BY <1>0, <1>a, <1>b, <3>1, <4>1, RestedKept
      <4> QED BY <1>0, <4>1, <4>2 DEF Rested
    <3> QED BY <1>0, <1>b, <2>1, <2>3, <3>2 DEF WorkerAt, Rested
  <2>5. LogKept(w)'
    <3>1. log[w] \in Seq(Nat) /\ Len(log[w]) = n - 1 /\ \A i \in 1..(n - 1) : log[w][i] = i
      BY <1>0, <2>3 DEF LogKept, ChannelType
    <3>2. /\ Len(log'[w]) = n /\ log'[w][n] = n
          /\ \A i \in 1..(n - 1) : log'[w][i] = i
      <4>1. PICK k : k = n - 1
        OBVIOUS
      <4>2. k \in Nat /\ k + 1 = n
        BY <1>b, <2>3, <4>1
      <4>3. Len(log[w]) = k /\ \A i \in 1..k : log[w][i] = i
        BY <3>1, <4>1
      <4>4. Len(log'[w]) = k + 1 /\ log'[w][k + 1] = n /\ \A i \in 1..k : log'[w][i] = log[w][i]
        BY <1>b, <2>1, <3>1, <4>2, <4>3
      <4> QED BY <4>1, <4>2, <4>3, <4>4
    <3>3. \A i \in 1..n : log'[w][i] = i
      BY <1>b, <3>2
    <3> QED BY <2>1, <3>2, <3>3 DEF LogKept
  <2>6. FailuresKept(w)'
    <3>1. \A id \in failedAt[w] : id \in Nat /\ id <= n - 1
      BY <1>0, <2>3 DEF FailuresKept, ChannelType
    <3>2. n \notin failedAt[w] /\ \A id \in failedAt[w] : id <= n
      BY <1>b, <3>1
    <3> QED BY <1>0, <2>1, <3>2 DEF FailuresKept
  <2>7. Keeping(w)'
    <3>1. Reading(w)' /\ ~Heard(w)' /\ ~Unsignalled(w)'
      BY <1>0, <2>1, <2>2 DEF Reading, Heard, Unsignalled
    <3> QED BY <3>1 DEF Keeping
  <2>8. Sync(calls[n]) = "host" => Asked(w)
    <3> SUFFICES ASSUME Sync(calls[n]) = "host" PROVE Asked(w)
      OBVIOUS
    <3>1. thread["exit"].pc = "idle"
      BY <1>0, SyncFacts DEF Rank0At
    <3>2. /\ thread["call"].pc # "idle" /\ thread["call"].pc \notin {"reap", "done"}
          /\ thread["call"].pc = "signal" => w < thread["call"].rank
          /\ thread["call"].pc = "status" => w >= thread["call"].rank
      <4>1. thread["call"].pc # "idle" /\ (thread["call"].pc = "status" => w >= thread["call"].rank)
        BY <1>b, <2>2, <3>1 DEF Heard
      <4>2. thread["call"].pc = "signal" => w < thread["call"].rank
        BY <1>b, <2>2 DEF Unsignalled, Threads
      <4> QED BY <1>0, <4>1, <4>2 DEF Rank0At
    <3> QED BY <1>b, <3>2 DEF Asked, ThreadStates
  <2>9. StatusKept(w)'
    <3>1. Asked(w)' = Asked(w)
      BY <1>0 DEF Asked
    <3>2. Answering(w)' => Sync(calls[n]) = "host"
      BY <1>0, <2>1 DEF Answering
    <3>3. ~(thread["call"].pc = "status" /\ w < thread["call"].rank)
      BY <2>2 DEF Heard
    <3>4. /\ worker'[w].id = Len(calls') /\ worker'[w].pc = "clear"
          /\ ~completion'[w] /\ thread' = thread
      BY <1>0, <2>1, <2>3
    <3> QED BY <2>8, <3>1, <3>2, <3>3, <3>4 DEF StatusKept
  <2> QED BY <1>a, <1>c, <2>4, <2>5, <2>6, <2>7, <2>9, WorkerDone
<1>2. CASE Clear(w)
  <2>1. /\ worker[w].pc = "clear" /\ ~command'[w] /\ log' = log
        /\ worker'[w] = [worker[w] EXCEPT !.pc = "body"]
    BY <1>0, <1>2 DEF Clear, ChannelType
  <2>2. worker'[w].pc = "body" /\ worker'[w].id = worker[w].id
    BY <1>0, <2>1 DEF ChannelType
  <2>3. Reading(w) /\ ~Unsignalled(w)
    <3>1. ~Has(w, n) /\ ~Has(w, n - 1) /\ ~Woken(w)
      BY <2>1 DEF Has, Woken
    <3> QED BY <1>0, <1>b, <3>1 DEF Keeping
  <2>4. WorkerAt(K, w)'
    <3>1. PICK i : i = worker[w].id
      OBVIOUS
    <3>2. Rested(K, w, i - 1) /\ i \in Nat /\ i >= 1 /\ i <= n /\ i - 1 \in Int /\ i - 1 <= n
      BY <1>0, <1>b, <2>1, <3>1 DEF WorkerAt
    <3>3. Rested(K, w, i - 1)'
      BY <1>0, <1>a, <3>2, RestedKept
    <3> QED BY <1>0, <2>2, <3>1, <3>2, <3>3 DEF WorkerAt
  <2>5. LogKept(w)'
    BY <1>0, <2>1, <2>2 DEF LogKept
  <2>6. FailuresKept(w)'
    BY <1>0, <2>1, <2>2 DEF FailuresKept
  <2>7. Keeping(w)'
    <3>1. Has(w, n)' /\ ~Unsignalled(w)'
      BY <1>0, <2>1, <2>2, <2>3 DEF Has, Unsignalled, Reading
    <3> QED BY <1>0, <3>1 DEF Keeping, Has
  <2>8. StatusKept(w)'
    <3>1. Asked(w)' = Asked(w)
      BY <1>0 DEF Asked
    <3>2. Answering(w)' => Answering(w)
      BY <1>0, <1>b, <2>1, <2>2 DEF Answering
    <3> QED BY <1>0, <2>1, <2>2, <3>1, <3>2 DEF StatusKept
  <2> QED BY <1>a, <1>c, <2>4, <2>5, <2>6, <2>7, <2>8, WorkerDone
<1> QED BY <1>1, <1>2

\* _sync_tp_host_status on a worker.
LEMMA WorkerReportStep ==
  ASSUME NEW K, ChannelInv(K), ChannelType', NEW w \in Workers, WorkerStep(w),
         Report(w) \/ Announce(w)
  PROVE  ChannelInv(K)'
<1> DEFINE n == Len(calls)
<1>0. /\ ChannelType /\ Follows(K) /\ Agreed /\ WorkerAt(K, w) /\ LogKept(w) /\ FailuresKept(w)
      /\ Keeping(w) /\ StatusKept(w) /\ Rank0At(K) /\ w \in Ranks
      /\ UNCHANGED <<calls, entered, thread, result, failedAt, command, log>>
  BY RankFacts DEF ChannelInv, Report, Announce
<1>a. /\ Grows /\ Follows(K)' /\ Agreed'
  BY <1>0, NoEnterStep
<1>b. /\ n \in Nat /\ worker[w].id \in Nat /\ worker[w].error \in BOOLEAN /\ ~Gone(w)
      /\ w \in Nat /\ thread["call"].rank \in Nat
      /\ worker[w].pc \in {"report", "reported"} /\ Sync(calls[worker[w].id]) = "host"
  BY <1>0, <1>a, FieldTypes, RankFacts, GoneKept DEF Report, Announce, WorkerAt
<1>c. Answering(w)
  BY <1>b DEF Answering
<1>d. worker[w].id = n /\ Asked(w) /\ ~completion[w]
  BY <1>c, AnsweringFacts
<1>e. worker'[w].id = n /\ worker'[w].error = worker[w].error
  <2>1. \E p : worker' = [worker EXCEPT ![w].pc = p]
    BY DEF Report, Announce
  <2> QED BY <1>0, <1>d, <2>1 DEF ChannelType
<1>f. worker'[w].pc \in {"reported", "read", "dead"}
  BY <1>0 DEF Report, Announce, AfterCall, ChannelType
<1>g. failedAt'[w] = failedAt[w]
  BY <1>0
<1>1. LogKept(w)'
  BY <1>0, <1>d, <1>e DEF LogKept
<1>2. WorkerAt(K, w)'
  <2>1. Rested(K, w, n) /\ n >= 1
    BY <1>0, <1>b, <1>d DEF WorkerAt
  <2>2. Rested(K, w, n)'
    <3>1. PICK i : i = n
      OBVIOUS
    <3>2. Rested(K, w, i)'
      BY <1>0, <1>a, <1>b, <2>1, <3>1, RestedKept
    <3> QED BY <1>0, <3>1, <3>2 DEF Rested
  <2> QED BY <1>0, <1>b, <1>d, <1>e, <1>f, <2>1, <2>2 DEF WorkerAt, Rested
<1>3. FailuresKept(w)'
  BY <1>0, <1>b, <1>d, <1>e, <1>f DEF FailuresKept
<1>4. Keeping(w)'
  <2>1. ~Unsignalled(w)
    <3>1. ~Has(w, n - 1)
      BY <1>b, <1>d DEF Has
    <3> QED BY <1>0, <1>b, <3>1 DEF Keeping
  <2>2. Has(w, n)
    <3>1. ~Woken(w) /\ ~Reading(w) /\ ~Has(w, n - 1)
      BY <1>b, <1>d DEF Woken, Reading, Has
    <3> QED BY <1>0, <1>b, <2>1, <3>1 DEF Keeping
  <2>3. Has(w, n)' /\ ~Unsignalled(w)'
    BY <1>0, <1>e, <1>f, <2>1, <2>2 DEF Has, Unsignalled
  <2> QED BY <1>0, <2>3 DEF Keeping, Has
<1>5. ~(thread["call"].pc = "status" /\ w < thread["call"].rank)
  BY <1>b, <1>d DEF Asked
<1>6. Asked(w)'
  BY <1>0, <1>d DEF Asked
<1>7. StatusKept(w)'
  <2>1. CASE Report(w)
    <3>1. /\ completion' = completion
          /\ status'[w] = [value |-> IF worker[w].error THEN "failed" ELSE "success",
                           of |-> worker[w].id]
      BY <1>0, <2>1 DEF Report, ChannelType
    <3> QED BY <1>0, <1>d, <1>e, <1>5, <1>6, <3>1 DEF StatusKept
  <2>2. CASE Announce(w)
    <3>1. /\ status' = status /\ worker[w].pc = "reported"
          /\ worker'[w].pc \in {"read", "dead"}
      BY <1>0, <2>2 DEF Announce, AfterCall, ChannelType
    <3>2. /\ status[w].value = "failed" <=> n \in failedAt[w]
          /\ status[w].value # "pending" /\ status[w].of = n
      BY <1>0, <1>d, <3>1 DEF StatusKept, FailuresKept
    <3>3. ~Answering(w)'
      BY <3>1 DEF Answering
    <3> QED BY <1>0, <1>e, <1>5, <3>1, <3>2, <3>3 DEF StatusKept
  <2> QED BY <2>1, <2>2
<1> QED BY <1>a, <1>g, <1>1, <1>2, <1>3, <1>4, <1>7, WorkerDone

\* Every step of a worker keeps the invariant.
LEMMA WorkerKeeps ==
  ASSUME NEW K, ChannelInv(K), Consistent(K)', NEW w \in Workers, WorkerStep(w)
  PROVE  ChannelInv(K)'
<1>1. ChannelType'
  BY WorkerTypes DEF ChannelInv
<1> QED
  BY <1>1, WorkerReadStep, WorkerBodyStep, WorkerLeaveStep, WorkerReportStep, WorkerExitStep
  DEF WorkerStep

-----------------------------------------------------------------------------
(* What a timeout of rank 0 shows.                                         *)

\* A set of numbers has a least one.
LEMMA LeastNat ==
  ASSUME NEW T, T \subseteq Nat, T # {}
  PROVE  \E x \in T : \A y \in T : x <= y
<1>1. \E x \in T : \A y \in T : ~(<<y, x>> \in OpToRel(<, Nat))
  BY NatLessThanWellFounded, WFMin
<1>2. PICK x \in T : \A y \in T : ~(<<y, x>> \in OpToRel(<, Nat))
  BY <1>1
<1>3. \A y \in T : <<y, x>> \in Nat \X Nat /\ <<y, x>>[1] = y /\ <<y, x>>[2] = x
  OBVIOUS
<1>4. \A y \in T : ~(y < x)
  BY <1>2, <1>3 DEF OpToRel
<1>5. \A y \in T : x <= y
  BY <1>4
<1> QED BY <1>5

\* The collectives a worker has entered belong to commands it has taken up.
LEMMA EntriesTakenUp ==
  ASSUME NEW K, ChannelInv(K), NEW w \in Workers
  PROVE  \A n \in 1..Len(entered[w]) : IdAt(w, n) <= worker[w].id
<1>0. ChannelType /\ Follows(K) /\ WorkerAt(K, w) /\ w \in Ranks
  BY RankFacts DEF ChannelInv
<1>1. worker[w].id \in Nat /\ worker[w].pc \in WorkerStates
  BY <1>0, FieldTypes
<1>2. \A n \in 1..Len(entered[w]) : IdAt(w, n) \in Nat
  BY <1>0, FieldTypes, IdAtFacts
<1>3. CASE worker[w].pc \in {"read", "report", "reported"}
  BY <1>0, <1>3 DEF WorkerAt, Rested
<1>4. CASE worker[w].pc \in {"clear", "body"}
  BY <1>0, <1>1, <1>2, <1>4 DEF WorkerAt, Rested
<1>5. CASE worker[w].pc = "collective"
  BY <1>0, <1>5 DEF WorkerAt, Inside
<1>6. CASE worker[w].pc \in {"dead", "exited"}
  BY <1>0, <1>6 DEF WorkerAt
<1> QED BY <1>1, <1>3, <1>4, <1>5, <1>6 DEF WorkerStates

\* When everybody has done what he can and a worker waits in a collective that
\* rank 0 has entered, somebody has ended before that collective.
LEMMA WaitsForTheGone ==
  ASSUME NEW K, ChannelInv(K), \A w \in Workers : Settled(w) /\ ~Unsignalled(w),
         thread["exit"].pc \notin {"reap", "done"}, NEW v \in Workers,
         worker[v].pc = "collective", Len(entered[v]) <= Len(entered[0])
  PROVE  Gone(v)
<1>0. ChannelType /\ Follows(K) /\ Agreed /\ \A w \in Workers : w \in Ranks
  BY RankFacts DEF ChannelInv
<1>a. \A r \in Ranks : Len(entered[r]) \in Nat
  BY <1>0, FieldTypes
<1>1. PICK u \in Ranks : \A r \in Ranks : Len(entered[u]) <= Len(entered[r])
  <2> DEFINE T == {Len(entered[r]) : r \in Ranks}
  <2>1. T \subseteq Nat /\ T # {}
    BY <1>a, RankFacts
  <2>2. PICK x \in T : \A y \in T : x <= y
    BY <2>1, LeastNat
  <2> QED BY <2>2
<1>2. ~Met(Len(entered[v]))
  BY DEF Settled, Stuck
<1>3. Len(entered[u]) < Len(entered[v])
  BY <1>0, <1>a, <1>1, <1>2 DEF Met
<1>4. u \in Workers
  <2>1. u # 0
    BY <1>0, <1>a, <1>3, RankFacts
  <2> QED BY <2>1, TpAssumption DEF Ranks, Workers, TpAssumption
<1>5. Met(Len(entered[u]))
  BY <1>1 DEF Met
<1>6. CASE worker[u].pc \in {"dead", "exited"}
  BY <1>3, <1>4, <1>6 DEF Gone
<1>7. CASE worker[u].pc \notin {"dead", "exited"}
  <2>1. worker[u].pc = "read" /\ ~command[u]
    BY <1>4, <1>5, <1>7 DEF Settled, Stuck
  <2>2. worker[u].id = Len(calls)
    <3>1. ~Woken(u) /\ ~Reading(u) /\ ~Gone(u)
      BY <2>1 DEF Woken, Reading, Gone
    <3>2. Has(u, Len(calls))
      BY <1>4, <3>1 DEF ChannelInv, Keeping
    <3> QED BY <3>2 DEF Has
  <2>3. Rested(K, u, Len(calls))
    BY <1>4, <2>1, <2>2 DEF ChannelInv, WorkerAt
  <2>4. \A n \in 1..Len(entered[v]) : IdAt(v, n) <= Len(calls)
    BY <1>0, <1>a, IdAtFacts
  <2>5. Len(entered[v]) <= Len(entered[u])
    <3>1. Len(calls) \in Nat
      BY <1>0, FieldTypes
    <3> QED BY <1>0, <1>4, <2>3, <2>4, <3>1, NobodyAhead
  <2> QED BY <1>0, <1>3, <1>4, <1>a, <2>5
<1> QED BY <1>6, <1>7

\* When a timeout expires, no worker but the gone has a command to take up ...
LEMMA TimeoutTakenUp ==
  ASSUME NEW K, ChannelInv(K), \A w \in Workers : Settled(w) /\ ~Unsignalled(w),
         thread["exit"].pc \notin {"reap", "done"}, Len(calls) >= 1,
         Rested(K, 0, Len(calls) - 1) \/ Rested(K, 0, Len(calls)), NEW v \in Workers
  PROVE  Has(v, Len(calls)) \/ Gone(v)
<1> SUFFICES ASSUME ~Has(v, Len(calls)), ~Gone(v) PROVE FALSE
  OBVIOUS
<1>0. ChannelType /\ Follows(K) /\ Agreed /\ v \in Ranks /\ 0 \in Ranks
  BY RankFacts DEF ChannelInv
<1>1. Woken(v)
  <2>1. ~Reading(v)
    BY DEF Reading, Settled, Stuck
  <2> QED BY <2>1 DEF ChannelInv, Keeping
<1>2. worker[v].pc = "collective"
  BY <1>1 DEF Settled, Stuck, Gone, Woken
<1>3. /\ worker[v].id = Len(calls) - 1 /\ Len(calls) - 1 \in Nat /\ Len(calls) \in Nat
      /\ worker[v].id \in Nat
  <2>1. Len(calls) \in Nat /\ worker[v].id \in Nat /\ worker[v].id + 1 = Len(calls)
    BY <1>0, <1>1, FieldTypes DEF Woken
  <2> QED BY <2>1
<1>4. PICK i \in Nat : Rested(K, 0, i) /\ worker[v].id <= i
  BY <1>3
<1>5. \A n \in 1..Len(entered[v]) : IdAt(v, n) <= i
  <2>1. \A n \in 1..Len(entered[v]) : IdAt(v, n) \in Nat /\ IdAt(v, n) <= worker[v].id
    <3>1. \A n \in 1..Len(entered[v]) : IdAt(v, n) \in Nat
      BY <1>0, FieldTypes, IdAtFacts
    <3> QED BY <3>1, EntriesTakenUp
  <2> QED BY <1>3, <1>4, <2>1
<1>6. Len(entered[v]) <= Len(entered[0])
  BY <1>0, <1>4, <1>5, NobodyAhead
<1> QED BY <1>2, <1>6, WaitsForTheGone

\* ... and none will answer any more.
LEMMA TimeoutSilent ==
  ASSUME NEW K, ChannelInv(K), \A w \in Workers : Settled(w) /\ ~Unsignalled(w),
         thread["exit"].pc \notin {"reap", "done"}, Rested(K, 0, Len(calls)), NEW v \in Workers
  PROVE  ~Answering(v)
<1> SUFFICES ASSUME Answering(v) PROVE FALSE
  OBVIOUS
<1>0. ChannelType /\ Follows(K) /\ Agreed /\ v \in Ranks /\ 0 \in Ranks /\ Len(calls) \in Nat
  BY RankFacts, FieldTypes DEF ChannelInv
<1>1. worker[v].pc = "collective" /\ ~Gone(v)
  BY DEF Settled, Stuck, Answering
<1>2. \A n \in 1..Len(entered[v]) : IdAt(v, n) <= Len(calls)
  BY <1>0, FieldTypes, IdAtFacts
<1>3. Len(entered[v]) <= Len(entered[0])
  BY <1>0, <1>2, NobodyAhead
<1> QED BY <1>1, <1>3, WaitsForTheGone

\* When rank 0 has met the others in a collective of the last command, they
\* have all taken it up.
LEMMA MetTakenUp ==
  ASSUME NEW K, ChannelInv(K), NEW n \in 1..Len(entered[0]), Met(n), IdAt(0, n) = Len(calls),
         NEW v \in Workers, ~Unsignalled(v), thread["exit"].pc \notin {"reap", "done"}
  PROVE  Has(v, Len(calls)) \/ Gone(v)
<1>0. ChannelType /\ Follows(K) /\ Agreed /\ v \in Ranks /\ 0 \in Ranks /\ WorkerAt(K, v)
  BY RankFacts DEF ChannelInv
<1>1. n \in Nat /\ n >= 1 /\ Len(entered[v]) \in Nat /\ Len(calls) \in Nat
  BY <1>0, FieldTypes
<1>2. n \in 1..Len(entered[v])
  BY <1>0, <1>1 DEF Met
<1>3. IdAt(v, n) = Len(calls)
  BY <1>0, <1>1, <1>2 DEF Agreed, IdAt
<1>4. worker[v].id = Len(calls)
  <2>1. IdAt(v, n) <= worker[v].id
    BY <1>2, EntriesTakenUp
  <2>2. worker[v].id <= Len(calls) /\ worker[v].id \in Nat
    BY <1>0, FieldTypes DEF WorkerAt
  <2> QED BY <1>1, <1>3, <2>1, <2>2
<1>5. worker[v].pc # "clear"
  <2>1. ~Rested(K, v, worker[v].id - 1)
    BY <1>1, <1>2, <1>3, <1>4 DEF Rested
  <2> QED BY <1>0, <2>1 DEF WorkerAt
<1>6. ~Woken(v) /\ ~Reading(v)
  BY <1>1, <1>4, <1>5 DEF Woken, Reading
<1> QED BY <1>6 DEF ChannelInv, Keeping

-----------------------------------------------------------------------------
(* The steps of rank 0.                                                    *)

\* What became of the commands when none returns.
LEMMA ResultsSame ==
  ASSUME NEW K, ChannelInv(K), ChannelType', Grows, UNCHANGED <<calls, result, failedAt>>,
         thread["call"].pc = "idle" => thread'["call"].pc = "idle"
  PROVE  ResultsKept'
<1>0. ChannelType /\ ResultsKept /\ 0 \in Ranks
  BY RankFacts DEF ChannelInv
<1>1. ASSUME NEW id \in 1..Len(calls), result[id] = "ok", Sync(calls[id]) = "reduce"
      PROVE  \E n \in 1..Len(entered'[0]) : /\ Met(n)' /\ ~Bad(n)'
                                            /\ entered'[0][n].id = id
                                            /\ entered'[0][n].kind = "reduce"
  <2>1. PICK n \in 1..Len(entered[0]) : /\ Met(n) /\ ~Bad(n)
                                        /\ entered[0][n].id = id
                                        /\ entered[0][n].kind = "reduce"
    BY <1>0, <1>1 DEF ResultsKept
  <2>2. n \in Nat /\ n >= 1 /\ Len(entered[0]) \in Nat
    BY <1>0, FieldTypes
  <2>3. Met(n)' /\ ~Bad(n)'
    BY <1>0, <2>1, <2>2, MetKept
  <2>4. n \in 1..Len(entered'[0]) /\ entered'[0][n] = entered[0][n]
    <3>1. Len(entered'[0]) \in Nat
      BY <1>0 DEF ChannelType
    <3> QED BY <1>0, <2>2, <3>1 DEF Grows
  <2> QED BY <2>1, <2>3, <2>4
<1> QED BY <1>0, <1>1 DEF ResultsKept

\* What became of the commands when the last one returns.
LEMMA ResultsReturn ==
  ASSUME NEW K, ChannelInv(K), ChannelType', NEW t \in Threads, thread[t].pc # "idle",
         NEW o \in {"ok", "error"}, Return(t, o), UNCHANGED <<calls, entered, failedAt>>,
         o = "ok" =>
           /\ Sync(calls[Len(calls)]) = "host" => \A w \in Workers : Len(calls) \notin failedAt[w]
           /\ Sync(calls[Len(calls)]) = "reduce" =>
                \E n \in 1..Len(entered[0]) : /\ Met(n) /\ ~Bad(n)
                                              /\ entered[0][n].id = Len(calls)
                                              /\ entered[0][n].kind = "reduce"
  PROVE  ResultsKept'
<1>0. ChannelType /\ ResultsKept /\ Rank0At(K)
  BY DEF ChannelInv
<1>1. thread[t].id = Len(calls) /\ Len(calls) \in 1..(MaxCalls + 1) /\ Len(calls) \in Nat
  BY <1>0, ActiveThread, FieldTypes DEF Rank0At, ThreadsAt
<1>2. result' = [result EXCEPT ![Len(calls)] = o]
  BY <1>1 DEF Return
<1>3. thread'["call"].pc = "idle"
  <2>1. CASE t = "call"
    BY <1>0, <2>1 DEF Return, ChannelType, ThreadRecords
  <2>2. CASE t = "exit"
    <3>1. thread["call"].pc = "idle"
      BY <1>0, <2>2 DEF Rank0At
    <3> QED BY <1>0, <2>2, <3>1, FieldTypes DEF Return, ChannelType
  <2> QED BY <2>1, <2>2 DEF Threads
<1>4. /\ \A id \in 1..(MaxCalls + 1) : result'[id] = IF id = Len(calls) THEN o ELSE result[id]
  BY <1>0, <1>1, <1>2 DEF ChannelType
<1>5. \A id \in 1..(MaxCalls + 1) : id > Len(calls) => result'[id] = "none"
  BY <1>0, <1>1, <1>4 DEF ResultsKept
<1>6. \A id \in 1..Len(calls) : id \in 1..(MaxCalls + 1)
  BY <1>1, FieldTypes, <1>0
<1>7. ASSUME NEW id \in 1..Len(calls), result'[id] = "ok"
      PROVE  /\ Sync(calls[id]) = "host" => \A w \in Workers : id \notin failedAt[w]
             /\ Sync(calls[id]) = "reduce" =>
                  \E n \in 1..Len(entered[0]) : /\ Met(n) /\ ~Bad(n)
                                                /\ entered[0][n].id = id
                                                /\ entered[0][n].kind = "reduce"
  <2>1. CASE id = Len(calls)
    BY <1>4, <1>6, <1>7, <2>1
  <2>2. CASE id # Len(calls)
    BY <1>0, <1>4, <1>6, <1>7, <2>2 DEF ResultsKept
  <2> QED BY <2>1, <2>2
<1>8. \A n \in 1..Len(entered[0]) : (Met(n)' <=> Met(n)) /\ (Bad(n)' <=> Bad(n))
  BY DEF Met, Bad, Flags
<1> QED BY <1>3, <1>5, <1>7, <1>8 DEF ResultsKept

\* It is enough to look at rank 0 and at what it knows of the workers.
LEMMA Rank0Done ==
  ASSUME NEW K, ChannelInv(K), ChannelType', Grows, Follows(K)', Agreed',
         UNCHANGED <<worker, log, failedAt>>, \A w \in Workers : entered'[w] = entered[w],
         Rank0At(K)', ResultsKept', \A w \in Workers : Keeping(w)' /\ StatusKept(w)'
  PROVE  ChannelInv(K)'
<1>1. ASSUME NEW w \in Workers
      PROVE  WorkerAt(K, w)' /\ LogKept(w)' /\ FailuresKept(w)'
  BY OwnKept DEF ChannelInv
<1> QED BY <1>1 DEF ChannelInv

\* The workers' own state does not change.
LEMMA GoneSame ==
  ASSUME UNCHANGED worker, NEW w \in Workers, \A v \in Workers : entered'[v] = entered[v]
  PROVE  Gone(w)' <=> Gone(w)
  BY DEF Gone

\* call() returns after every worker has taken up the command, or is gone.
LEMMA CallReturns ==
  ASSUME NEW K, ChannelInv(K), ChannelType', thread["call"].pc # "idle", NEW o \in {"ok", "error"},
         Return("call", o), UNCHANGED <<calls, command, status, worker, entered, log, failedAt>>,
         \A w \in Workers : completion'[w] => completion[w],
         Rested(K, 0, Len(calls)),
         \A w \in Workers : (Has(w, Len(calls)) \/ Gone(w)) /\ ~Answering(w),
         o = "ok" =>
           /\ Sync(calls[Len(calls)]) = "host" => \A w \in Workers : Len(calls) \notin failedAt[w]
           /\ Sync(calls[Len(calls)]) = "reduce" =>
                \E n \in 1..Len(entered[0]) : /\ Met(n) /\ ~Bad(n)
                                              /\ entered[0][n].id = Len(calls)
                                              /\ entered[0][n].kind = "reduce"
  PROVE  ChannelInv(K)'
<1>0. /\ ChannelType /\ Follows(K) /\ Agreed /\ Rank0At(K)
      /\ \A w \in Workers : Keeping(w) /\ StatusKept(w)
      /\ "call" \in Threads /\ "exit" \in Threads
  BY FieldTypes DEF ChannelInv
<1>1. thread'["call"].pc = "idle" /\ thread'["exit"] = thread["exit"] /\ thread["exit"].pc = "idle"
  BY <1>0 DEF Return, ChannelType, ThreadRecords, Rank0At
<1>2. Grows /\ Follows(K)' /\ Agreed'
  BY <1>0, NoEnterStep
<1>3. ResultsKept'
  BY <1>0, ResultsReturn
<1>4. Rank0At(K)'
  <2>1. Rested(K, 0, Len(calls))'
    BY DEF Rested, Over, NoneBetween, IdAt, Met, Bad, Flags, Meets, HasBody
  <2>2. Len(calls) \in Nat /\ MaxCalls \in Nat
    BY <1>0, FieldTypes
  <2>3. Len(calls) <= MaxCalls /\ Len(calls) <= MaxCalls + 1
    BY <1>0, <1>1, <2>2 DEF Rank0At
  <2>4. \A t \in Threads : thread'[t].pc = "idle"
    BY <1>1 DEF Threads
  <2> QED BY <1>1, <2>1, <2>3, <2>4 DEF Rank0At
<1>5. ASSUME NEW w \in Workers
      PROVE  Keeping(w)' /\ StatusKept(w)'
  <2>1. (Gone(w)' <=> Gone(w)) /\ (Has(w, Len(calls)) => Has(w, Len(calls))')
    BY GoneSame DEF Has
  <2>2. ~Unsignalled(w)' /\ ~Asked(w)'
    BY <1>1 DEF Unsignalled, Asked, Threads
  <2>3. ~Answering(w)'
    BY <2>1 DEF Answering
  <2>4. Keeping(w)'
    BY <2>1, <2>2 DEF Keeping
  <2>5. StatusKept(w)'
    BY <1>0, <1>1, <2>2, <2>3 DEF StatusKept
  <2> QED BY <2>4, <2>5
<1> QED BY <1>2, <1>3, <1>4, <1>5, Rank0Done

\* Call and Exit: the last command is over everywhere, so the next one may be
\* written into the buffer.
LEMMA WriteStep ==
  ASSUME NEW K, ChannelInv(K), ~Forced, (\E m \in Methods : Call(m)) \/ Exit
  PROVE  ChannelInv(K)'
<1> DEFINE n == Len(calls)
<1>0. /\ ChannelType /\ Follows(K) /\ Agreed /\ Rank0At(K) /\ ResultsKept
      /\ \A w \in Workers : Keeping(w) /\ StatusKept(w) /\ WorkerAt(K, w)
      /\ "call" \in Threads /\ "exit" \in Threads /\ 0 \in Ranks
  BY FieldTypes, RankFacts DEF ChannelInv
<1>a. n \in Nat /\ MaxCalls \in Nat
  BY <1>0, FieldTypes
<1>b. thread["call"].pc = "idle" /\ thread["exit"].pc = "idle"
  BY DEF Call, Exit
<1>c. PICK t \in Threads, m \in Methods \cup {"exit"} :
        /\ Write(t, m) /\ UNCHANGED result
        /\ t = "call" => m \in Methods /\ n < MaxCalls
        /\ t = "exit" => m = "exit"
  BY <1>0 DEF Call, Exit
<1>1. ChannelType'
  BY <1>0, <1>c, WriteType
<1>2. /\ calls' = Append(calls, m) /\ Len(calls') = n + 1 /\ calls'[n + 1] = m
      /\ \A k \in 1..n : calls'[k] = calls[k]
      /\ UNCHANGED <<command, completion, status, worker, entered, log, failedAt, result>>
  BY <1>0, <1>c DEF Write, ChannelType
<1>3. /\ thread'[t] = [pc |-> "signal", id |-> n + 1, rank |-> 1, error |-> FALSE, at |-> 0]
      /\ \A s \in Threads \ {t} : thread'[s] = thread[s]
  BY <1>0, <1>c DEF Write, ChannelType
<1>4. Grows /\ Follows(K)' /\ Agreed'
  BY <1>0, <1>1, <1>2, NoEnterStep
<1>5. /\ Len(calls') - 1 = n /\ Len(calls') <= MaxCalls + 1 /\ Len(calls') >= 1
      /\ t = "call" => Len(calls') <= MaxCalls
  BY <1>0, <1>2, <1>a, <1>b, <1>c DEF Rank0At
<1>6. Rested(K, 0, Len(calls) - 1)'
  <2>1. PICK i : i = n
    OBVIOUS
  <2>2. Rested(K, 0, i) /\ i \in Int /\ i <= n
    BY <1>0, <1>a, <1>b, <2>1 DEF Rank0At
  <2>3. Rested(K, 0, i)'
    BY <1>0, <1>1, <1>2, <1>4, <2>2, RestedKept
  <2> QED BY <1>5, <2>1, <2>3 DEF Rested
<1>7. Rank0At(K)'
  <2>1. \A s \in Threads : thread'[s].pc = (IF s = t THEN "signal" ELSE "idle")
    BY <1>3, <1>b DEF Threads
  <2>2. CASE t = "call"
    BY <1>0, <1>2, <1>3, <1>5, <1>6, <1>b, <1>c, <2>1, <2>2 DEF Rank0At
  <2>3. CASE t = "exit"
    BY <1>0, <1>2, <1>3, <1>5, <1>6, <1>b, <1>c, <2>1, <2>3 DEF Rank0At
  <2> QED BY <2>2, <2>3 DEF Threads
<1>8. ResultsKept'
  <2>1. \A id \in 1..(MaxCalls + 1) : id > n + 1 => result[id] = "none"
    BY <1>0, <1>a DEF ResultsKept
  <2>2. result[n + 1] = "none"
    <3>1. n + 1 \in 1..(MaxCalls + 1) /\ n + 1 > n
      BY <1>2, <1>5, <1>a
    <3> QED BY <1>0, <3>1 DEF ResultsKept
  <2>3. ASSUME NEW id \in 1..(n + 1), result[id] = "ok"
        PROVE  id \in 1..n /\ calls'[id] = calls[id]
    BY <1>2, <1>a, <2>2, <2>3
  <2>4. \A k \in 1..Len(entered[0]) : (Met(k)' <=> Met(k)) /\ (Bad(k)' <=> Bad(k))
    BY <1>2 DEF Met, Bad, Flags
  <2>5. ASSUME NEW id \in 1..(n + 1), result[id] = "ok"
        PROVE  /\ Sync(calls'[id]) = "host" => \A w \in Workers : id \notin failedAt[w]
               /\ Sync(calls'[id]) = "reduce" =>
                  \E k \in 1..Len(entered[0]) : /\ Met(k) /\ ~Bad(k)
                                                /\ entered[0][k].id = id
                                                /\ entered[0][k].kind = "reduce"
    BY <1>0, <2>3, <2>5 DEF ResultsKept
  <2> QED BY <1>2, <2>1, <2>2, <2>4, <2>5 DEF ResultsKept
<1>9. ASSUME NEW w \in Workers
      PROVE  Keeping(w)' /\ StatusKept(w)'
  <2>0. w \in Nat /\ w >= 1 /\ worker[w].id \in Nat /\ worker[w].id <= n
    BY <1>0, FieldTypes DEF Workers, WorkerAt
  <2>1. Gone(w)' <=> Gone(w)
    BY <1>2, GoneSame
  <2>2. Has(w, n) \/ Gone(w)
    <3>1. Heard(w)
      BY <1>b DEF Heard
    <3> QED BY <1>0, <3>1 DEF Keeping
  <2>3. Unsignalled(w)' /\ ~Heard(w)' /\ ~Asked(w)'
    <3>1. t = "call" \/ t = "exit"
      BY DEF Threads
    <3> QED BY <1>0, <1>3, <1>b, <2>0, <3>1 DEF Unsignalled, Heard, Asked
  <2>4. Keeping(w)'
    <3>1. Has(w, n) => Has(w, Len(calls) - 1)'
      BY <1>2, <1>5 DEF Has
    <3> QED BY <2>1, <2>2, <2>3, <3>1 DEF Keeping
  <2>5. ~Answering(w)'
    <3>1. ~Answering(w)
      BY <1>b, AnsweringFacts
    <3>2. worker[w].pc \notin {"read", "dead"} => worker[w].id \in 1..n
      BY <1>0, <2>0 DEF WorkerAt
    <3> QED BY <1>2, <2>1, <3>1, <3>2 DEF Answering
  <2>6. thread'["call"].pc # "status"
    BY <1>3, <1>b, <1>0
  <2> QED BY <1>0, <1>2, <2>3, <2>4, <2>5, <2>6 DEF StatusKept
<1> QED BY <1>1, <1>2, <1>4, <1>7, <1>8, <1>9, Rank0Done

\* One worker is woken.
LEMMA SignalStep ==
  ASSUME NEW K, ChannelInv(K), ChannelType', NEW t \in Threads, Signal(t)
  PROVE  ChannelInv(K)'
<1> DEFINE n == Len(calls)
<1>0. /\ ChannelType /\ Follows(K) /\ Agreed /\ Rank0At(K)
      /\ \A w \in Workers : Keeping(w) /\ StatusKept(w) /\ WorkerAt(K, w)
      /\ "call" \in Threads /\ "exit" \in Threads /\ n \in Nat
  BY FieldTypes DEF ChannelInv
<1>a. PICK v \in Workers : v = thread[t].rank
  BY <1>0, FieldTypes
<1>b. PICK p : p = IF v < N THEN "signal" ELSE AfterSignal(Method(t))
  OBVIOUS
<1>1. /\ thread[t].pc = "signal"
      /\ UNCHANGED <<calls, worker, entered, result, log, failedAt>>
      /\ command' = [command EXCEPT ![v] = TRUE]
      /\ completion' = [completion EXCEPT ![v] = FALSE]
      /\ status' = [status EXCEPT ![v] = NoStatus]
      /\ thread' = [thread EXCEPT ![t].pc = p, ![t].rank = NextRank(v)]
  BY <1>a, <1>b DEF Signal, Reset
<1>2. /\ command'[v] /\ ~completion'[v]
      /\ \A w \in Workers \ {v} : /\ command'[w] = command[w] /\ completion'[w] = completion[w]
                                  /\ status'[w] = status[w]
  BY <1>0, <1>1 DEF ChannelType
<1>3. /\ thread'[t].pc = p /\ thread'[t].rank = NextRank(v) /\ thread'[t].id = thread[t].id
      /\ \A s \in Threads \ {t} : thread'[s] = thread[s]
  <2>1. PICK k : k = NextRank(v)
    OBVIOUS
  <2>2. thread' = [thread EXCEPT ![t].pc = p, ![t].rank = k]
    BY <1>1, <2>1
  <2> QED BY <1>0, <2>1, <2>2 DEF ChannelType, ThreadRecords
<1>4. Grows /\ Follows(K)' /\ Agreed'
  BY <1>0, <1>1, NoEnterStep
<1>5. /\ thread[t].id = n /\ n >= 1 /\ Method(t) = calls[n]
      /\ \A s \in Threads \ {t} : thread[s].pc = "idle"
  <2>1. CASE t = "call"
    BY <1>0, <1>1, <2>1 DEF Rank0At, Threads, Method
  <2>2. CASE t = "exit"
    BY <1>0, <1>1, <2>2 DEF Rank0At, Threads, Method
  <2> QED BY <2>1, <2>2 DEF Threads
<1>6. /\ p \in {"signal", "ack", "body"}
      /\ p = "ack" => Sync(calls[n]) = "ack"
      /\ p = "body" => Sync(calls[n]) # "ack"
      /\ p = "signal" <=> v < N
      /\ v < N => NextRank(v) = v + 1
      /\ ~(v < N) => NextRank(v) = 1
  BY <1>5, <1>b DEF AfterSignal, NextRank
<1>7. Rank0At(K)'
  <2>1. Rested(K, 0, n - 1) /\ Rested(K, 0, Len(calls) - 1)'
    <3>1. Rested(K, 0, n - 1)
      BY <1>0, <1>1 DEF Rank0At
    <3> QED BY <1>1, <3>1 DEF Rested, Over, NoneBetween, IdAt, Met, Bad, Flags, Meets, HasBody
  <2>2. \A s \in Threads : thread'[s].pc = IF s = t THEN p ELSE "idle"
    BY <1>3, <1>5
  <2>3. p = "body" => thread'[t].rank = 1
    BY <1>3, <1>6
  <2>4. CASE t = "call"
    BY <1>0, <1>1, <1>3, <1>5, <1>6, <2>1, <2>2, <2>3, <2>4 DEF Rank0At
  <2>5. CASE t = "exit"
    BY <1>0, <1>1, <1>3, <1>5, <1>6, <2>1, <2>2, <2>3, <2>5 DEF Rank0At
  <2> QED BY <2>4, <2>5 DEF Threads
<1>8. ResultsKept'
  <2>1. thread["call"].pc = "idle" => thread'["call"].pc = "idle"
    BY <1>0, <1>1, <1>3
  <2> QED BY <1>1, <1>4, <2>1, ResultsSame
<1>9. ASSUME NEW w \in Workers
      PROVE  Keeping(w)' /\ StatusKept(w)'
  <2>0. w \in Nat /\ v \in Nat /\ N \in Nat /\ w <= N /\ w >= 1 /\ v >= 1 /\ v <= N
    BY TpAssumption DEF Workers, TpAssumption
  <2>1. (Gone(w)' <=> Gone(w)) /\ (Answering(w)' <=> Answering(w))
    <3>1. Gone(w)' <=> Gone(w)
      BY <1>1, GoneSame
    <3> QED BY <1>1, <3>1 DEF Answering
  <2>2. ~Heard(w)'
    <3>1. CASE t = "call"
      BY <1>0, <1>1, <1>3, <1>6, <2>0, <3>1 DEF Heard
    <3>2. CASE t = "exit"
      <4>1. thread'["call"].pc = "idle" /\ thread'["exit"].pc # "idle"
        BY <1>0, <1>3, <1>5, <1>6, <3>2
      <4> QED BY <4>1 DEF Heard
    <3> QED BY <3>1, <3>2 DEF Threads
  <2>3. (Unsignalled(w) <=> w >= v) /\ (Unsignalled(w)' <=> w > v)
    <3>1. Unsignalled(w) <=> w >= v
      BY <1>1, <1>5, <1>a DEF Unsignalled
    <3>2. Unsignalled(w)' <=> (v < N /\ w >= v + 1)
      BY <1>3, <1>5, <1>6 DEF Unsignalled
    <3> QED BY <2>0, <3>1, <3>2
  <2>4. thread["exit"].pc \notin {"reap", "done"}
    BY <1>0, <1>1, <1>5
  <2>5. Keeping(w)'
    <3>1. CASE w = v
      <4>1. Has(w, n - 1) \/ Gone(w)
        BY <1>0, <2>0, <2>3, <3>1 DEF Keeping
      <4>2. worker[w].id \in Nat
        BY <1>0, FieldTypes
      <4>3. Has(w, n - 1) => Woken(w)'
        BY <1>0, <1>1, <1>2, <3>1, <4>2 DEF Has, Woken
      <4>4. ~Unsignalled(w)'
        BY <2>0, <2>3, <3>1
      <4> QED BY <2>1, <2>2, <4>1, <4>3, <4>4 DEF Keeping
    <3>2. CASE w # v
      <4>1. Unsignalled(w)' <=> Unsignalled(w)
        BY <2>0, <2>3, <3>2
      <4>2. /\ Has(w, n)' <=> Has(w, n)
            /\ Has(w, n - 1)' <=> Has(w, n - 1)
            /\ Woken(w)' <=> Woken(w)
            /\ Reading(w)' <=> Reading(w)
        BY <1>1, <1>2, <3>2 DEF Has, Woken, Reading
      <4> QED BY <1>0, <1>1, <2>1, <2>2, <2>4, <4>1, <4>2 DEF Keeping
    <3> QED BY <3>1, <3>2
  <2>6. Asked(w)' => Asked(w) \/ w = v
    <3>1. CASE t = "call"
      BY <1>1, <1>3, <1>6, <1>a, <2>0, <3>1 DEF Asked
    <3>2. CASE t = "exit"
      BY <1>0, <1>3, <1>5, <3>2 DEF Asked
    <3> QED BY <3>1, <3>2 DEF Threads
  <2>7. Answering(w) => w # v /\ Asked(w)'
    <3> SUFFICES ASSUME Answering(w) PROVE w # v /\ Asked(w)'
      OBVIOUS
    <3>1. Asked(w)
      BY AnsweringFacts
    <3>2. t = "call"
      BY <1>0, <1>5, <3>1 DEF Asked, Threads
    <3>3. w < v
      BY <1>1, <1>a, <3>1, <3>2 DEF Asked
    <3>4. w # v /\ (v < N => w < v + 1)
      BY <2>0, <3>3
    <3> QED BY <1>3, <1>6, <3>2, <3>4 DEF Asked
  <2>8. thread'["call"].pc # "status"
    BY <1>0, <1>1, <1>3, <1>5, <1>6
  <2>9. StatusKept(w)'
    <3>1. CASE w = v
      <4>1. worker[w].pc # "reported"
        <5>1. ~Answering(w)
          BY <2>7, <3>1
        <5>2. worker[w].pc = "reported" => Sync(calls[worker[w].id]) = "host"
          BY <1>0 DEF WorkerAt
        <5> QED BY <5>1, <5>2 DEF Answering, Gone
      <4> QED BY <1>1, <1>2, <2>1, <2>7, <2>8, <3>1, <4>1 DEF StatusKept
    <3>2. CASE w # v
      <4>1. completion'[w] = completion[w] /\ status'[w] = status[w]
        BY <1>2, <3>2
      <4> QED BY <1>0, <1>1, <2>1, <2>6, <2>7, <2>8, <3>2, <4>1 DEF StatusKept
    <3> QED BY <3>1, <3>2
  <2> QED BY <2>5, <2>9
<1> QED BY <1>1, <1>4, <1>7, <1>8, <1>9, Rank0Done, RankFacts

\* Rank 0 moves on inside a call or inside exit().
LEMMA Rank0Moves ==
  ASSUME NEW K, ChannelInv(K), ChannelType', Grows, Follows(K)', Agreed', Rank0At(K)',
         UNCHANGED <<calls, command, completion, status, worker, log, failedAt, result>>,
         \A w \in Workers : entered'[w] = entered[w],
         thread["exit"].pc \notin {"reap", "done"},
         thread["call"].pc = "idle" => thread'["call"].pc = "idle",
         thread'["call"].pc = "status" => thread'["call"].rank = 1,
         \A w \in Workers : /\ ~Unsignalled(w) /\ ~Unsignalled(w)'
                            /\ Heard(w)' => Has(w, Len(calls)) \/ Gone(w)
                            /\ Asked(w)' => Asked(w)
                            /\ Answering(w) => Asked(w)'
  PROVE  ChannelInv(K)'
<1>0. \A w \in Workers : Keeping(w) /\ StatusKept(w)
  BY DEF ChannelInv
<1>1. ResultsKept'
  BY ResultsSame
<1>2. ASSUME NEW w \in Workers
      PROVE  Keeping(w)' /\ StatusKept(w)'
  <2>1. Gone(w)' <=> Gone(w)
    BY GoneSame
  <2>2. /\ Has(w, Len(calls))' <=> Has(w, Len(calls))
        /\ Woken(w)' <=> Woken(w)
        /\ Reading(w)' <=> Reading(w)
        /\ Answering(w)' <=> Answering(w)
    BY <2>1 DEF Has, Woken, Reading, Answering
  <2>3. Keeping(w)'
    BY <1>0, <2>1, <2>2 DEF Keeping
  <2>4. ~(thread'["call"].pc = "status" /\ w < thread'["call"].rank)
    BY DEF Workers
  <2>5. StatusKept(w)'
    BY <1>0, <2>2, <2>4 DEF StatusKept
  <2> QED BY <2>3, <2>5
<1> QED BY <1>1, <1>2, Rank0Done

\* Rank 0 learns that a worker has read the command.
LEMMA AcknowledgedStep ==
  ASSUME NEW K, ChannelInv(K), ChannelType', NEW t \in Threads, Acknowledged(t)
  PROVE  ChannelInv(K)'
<1> DEFINE n == Len(calls)
<1>0. /\ ChannelType /\ Follows(K) /\ Agreed /\ Rank0At(K)
      /\ \A w \in Workers : Keeping(w)
      /\ "call" \in Threads /\ "exit" \in Threads /\ n \in Nat
  BY FieldTypes DEF ChannelInv
<1>a. PICK v \in Workers : v = thread[t].rank
  BY <1>0, FieldTypes
<1>b. PICK p, k : p = (IF v < N THEN "ack" ELSE "body") /\ k = NextRank(v)
  OBVIOUS
<1>1. /\ thread[t].pc = "ack" /\ ~command[v]
      /\ UNCHANGED <<calls, command, completion, status, worker, entered, result, log, failedAt>>
      /\ thread' = [thread EXCEPT ![t].pc = p, ![t].rank = k]
  BY <1>a, <1>b DEF Acknowledged, channel
<1>3. /\ thread'[t].pc = p /\ thread'[t].rank = k /\ thread'[t].id = thread[t].id
      /\ \A s \in Threads \ {t} : thread'[s] = thread[s]
  BY <1>0, <1>1 DEF ChannelType, ThreadRecords
<1>4. Grows /\ Follows(K)' /\ Agreed'
  BY <1>0, <1>1, NoEnterStep
<1>5. /\ thread[t].id = n /\ n >= 1 /\ Sync(calls[n]) = "ack"
      /\ \A s \in Threads \ {t} : thread[s].pc = "idle"
  <2>1. CASE t = "call"
    BY <1>0, <1>1, <2>1 DEF Rank0At, Threads
  <2>2. CASE t = "exit"
    BY <1>0, <1>1, <2>2 DEF Rank0At, Threads
  <2> QED BY <2>1, <2>2 DEF Threads
<1>6. /\ p \in {"ack", "body"} /\ (p = "ack" <=> v < N)
      /\ v < N => k = v + 1
      /\ ~(v < N) => k = 1
  BY <1>b DEF NextRank
<1>7. Rank0At(K)'
  <2>1. Rested(K, 0, Len(calls) - 1)'
    <3>1. Rested(K, 0, n - 1)
      BY <1>0, <1>1 DEF Rank0At
    <3> QED BY <1>1, <3>1 DEF Rested, Over, NoneBetween, IdAt, Met, Bad, Flags, Meets, HasBody
  <2>2. \A s \in Threads : thread'[s].pc = IF s = t THEN p ELSE "idle"
    BY <1>3, <1>5
  <2>3. p = "body" => thread'[t].rank = 1
    BY <1>3, <1>6
  <2>4. CASE t = "call"
    BY <1>0, <1>1, <1>3, <1>5, <1>6, <2>1, <2>2, <2>3, <2>4 DEF Rank0At
  <2>5. CASE t = "exit"
    BY <1>0, <1>1, <1>3, <1>5, <1>6, <2>1, <2>2, <2>3, <2>5 DEF Rank0At
  <2> QED BY <2>4, <2>5 DEF Threads
<1>8. /\ thread["exit"].pc \notin {"reap", "done"}
      /\ thread["call"].pc = "idle" => thread'["call"].pc = "idle"
      /\ thread'["call"].pc # "status"
  <2>1. CASE t = "call"
    BY <1>0, <1>1, <1>3, <1>5, <1>6, <2>1
  <2>2. CASE t = "exit"
    BY <1>0, <1>1, <1>3, <1>5, <2>2
  <2> QED BY <2>1, <2>2 DEF Threads
<1>9. ASSUME NEW w \in Workers
      PROVE  /\ ~Unsignalled(w) /\ ~Unsignalled(w)'
             /\ Heard(w)' => Has(w, n) \/ Gone(w)
             /\ Asked(w)' => Asked(w)
             /\ Answering(w) => Asked(w)'
  <2>0. w \in Nat /\ v \in Nat /\ N \in Nat /\ w <= N /\ w >= 1 /\ v >= 1 /\ v <= N
    BY TpAssumption DEF Workers, TpAssumption
  <2>1. ~Unsignalled(w) /\ ~Unsignalled(w)'
    BY <1>1, <1>3, <1>5, <1>6 DEF Unsignalled
  <2>2. ~Answering(w)
    BY <1>5, AnsweringFacts DEF Answering
  <2>3. Asked(w)' => Asked(w)
    <3>1. CASE t = "call"
      BY <1>1, <3>1 DEF Asked
    <3>2. CASE t = "exit"
      <4>1. thread'["call"].pc = "idle"
        BY <1>0, <1>3, <1>5, <3>2
      <4> QED BY <4>1 DEF Asked
    <3> QED BY <3>1, <3>2 DEF Threads
  <2>4. Has(v, n) \/ Gone(v)
    <3>1. ~Unsignalled(v)
      BY <1>1, <1>5 DEF Unsignalled
    <3>2. ~Woken(v) /\ ~Reading(v)
      BY <1>1 DEF Woken, Reading
    <3> QED BY <1>0, <1>8, <3>1, <3>2 DEF Keeping
  <2>5. Heard(w)' => Has(w, n) \/ Gone(w)
    <3> SUFFICES ASSUME Heard(w)' PROVE Has(w, n) \/ Gone(w)
      OBVIOUS
    <3>1. CASE t = "exit"
      <4>1. thread'["call"].pc = "idle" /\ thread'["exit"].pc # "idle"
        BY <1>0, <1>3, <1>5, <1>6, <3>1
      <4> QED BY <4>1 DEF Heard
    <3>2. CASE t = "call" /\ w = v
      BY <2>4, <3>2
    <3>3. CASE t = "call" /\ w # v
      <4>1. w < v
        BY <1>3, <1>6, <2>0, <3>3 DEF Heard
      <4>2. Heard(w)
        BY <1>1, <1>a, <3>3, <4>1 DEF Heard
      <4> QED BY <1>0, <4>2 DEF Keeping
    <3> QED BY <3>1, <3>2, <3>3 DEF Threads
  <2> QED BY <2>1, <2>2, <2>3, <2>5
<1> QED BY <1>1, <1>4, <1>7, <1>8, <1>9, Rank0Moves, RankFacts

\* The exit thread has done what it can: it goes on to join the workers.
LEMMA ToReap ==
  ASSUME NEW K, ChannelInv(K), ChannelType', thread["exit"].pc \notin {"idle", "reap", "done"},
         UNCHANGED <<calls, command, completion, status, worker, entered, log, failedAt>>,
         thread'["exit"].pc = "reap", thread'["exit"].id = thread["exit"].id,
         thread'["call"] = thread["call"], ResultsKept'
  PROVE  ChannelInv(K)'
<1>0. /\ ChannelType /\ Follows(K) /\ Agreed /\ Rank0At(K)
      /\ \A w \in Workers : Keeping(w) /\ StatusKept(w)
  BY DEF ChannelInv
<1>1. Grows /\ Follows(K)' /\ Agreed'
  BY <1>0, NoEnterStep
<1>2. thread["call"].pc = "idle" /\ thread'["call"].pc = "idle"
  BY <1>0 DEF Rank0At
<1>3. Rank0At(K)'
  BY <1>0, <1>2 DEF Rank0At, Threads
<1>4. ASSUME NEW w \in Workers
      PROVE  Keeping(w)' /\ StatusKept(w)'
  <2>1. Gone(w)' <=> Gone(w)
    BY GoneSame
  <2>2. /\ Has(w, Len(calls))' <=> Has(w, Len(calls))
        /\ Has(w, Len(calls) - 1)' <=> Has(w, Len(calls) - 1)
        /\ Woken(w)' <=> Woken(w)
        /\ Reading(w)' <=> Reading(w)
        /\ Answering(w)' <=> Answering(w)
    BY <2>1 DEF Has, Woken, Reading, Answering
  <2>3. ~Unsignalled(w)' /\ ~Heard(w)' /\ ~Asked(w)' /\ ~Asked(w)
    BY <1>2 DEF Unsignalled, Heard, Asked, Threads
  <2>4. Keeping(w)'
    BY <1>0, <2>1, <2>2, <2>3 DEF Keeping
  <2>5. StatusKept(w)'
    BY <1>0, <1>2, <2>2, <2>3 DEF StatusKept
  <2> QED BY <2>4, <2>5
<1> QED BY <1>1, <1>3, <1>4, Rank0Done

\* A worker has not read the command in time.
LEMMA AckTimeoutStep ==
  ASSUME NEW K, ChannelInv(K), ChannelType', NEW t \in Threads, AckTimeout(t)
  PROVE  ChannelInv(K)'
<1> DEFINE n == Len(calls)
<1>0. /\ ChannelType /\ Follows(K) /\ Rank0At(K) /\ "call" \in Threads /\ "exit" \in Threads /\ n \in Nat
      /\ 0 \in Ranks
  BY FieldTypes, RankFacts DEF ChannelInv
<1>1. /\ thread[t].pc = "ack" /\ \A w \in Workers : Settled(w)
      /\ Return(t, "error")
      /\ UNCHANGED <<calls, command, completion, status, worker, entered, log, failedAt>>
  BY DEF AckTimeout, Expires, channel
<1>2. CASE t = "call"
  <2>1. /\ n >= 1 /\ Sync(calls[n]) = "ack" /\ Rested(K, 0, n - 1) /\ calls[n] \in Methods
        /\ thread["exit"].pc = "idle"
    BY <1>0, <1>1, <1>2 DEF Rank0At
  <2>2. ~Meets(K, n)
    BY <2>1, SyncFacts, MeetsFacts
  <2>3. Rested(K, 0, n)
    <3>1. n \in 1..Len(calls)
      BY <1>0, <2>1
    <3> QED BY <1>0, <2>1, <2>2, <3>1, RestedNext
  <2>4. \A w \in Workers : ~Unsignalled(w)
    BY <1>1, <1>2, <2>1 DEF Unsignalled, Threads
  <2>5. \A w \in Workers : Has(w, n) \/ Gone(w)
    BY <1>1, <2>1, <2>4, TimeoutTakenUp
  <2>6. \A w \in Workers : ~Answering(w)
    BY <2>1, AnsweringFacts DEF Answering
  <2> QED BY <1>1, <1>2, <2>3, <2>5, <2>6, CallReturns
<1>3. CASE t = "exit"
  <2>1. /\ thread'["exit"].pc = "reap" /\ thread'["exit"].id = thread["exit"].id
        /\ thread'["call"] = thread["call"]
    BY <1>0, <1>1, <1>3 DEF Return, ChannelType, ThreadRecords
  <2>2. ResultsKept'
    BY <1>1, ResultsReturn
  <2> QED BY <1>1, <1>3, <2>1, <2>2, ToReap
<1> QED BY <1>2, <1>3 DEF Threads

\* A call that is past its signals.
LEMMA InCall ==
  ASSUME NEW K, ChannelInv(K), thread["call"].pc \in {"body", "collective", "status"}
  PROVE  LET n == Len(calls)
         IN  /\ n \in 1..Len(calls) /\ n \in Nat /\ n >= 1 /\ thread["call"].id = n
             /\ calls[n] \in Methods /\ calls[n] # "exit" /\ Method("call") = calls[n]
             /\ thread["exit"].pc = "idle" /\ 0 \in Ranks
             /\ \A w \in Workers : ~Unsignalled(w)
             /\ thread["call"].pc = "body" => Rested(K, 0, n - 1)
             /\ thread["call"].pc # "status" => thread["call"].rank = 1
             /\ thread["call"].pc = "collective" =>
                  /\ Inside(0, n) /\ thread["call"].at = Len(entered[0])
                  /\ Len(entered[0]) \in 1..Len(entered[0]) /\ Len(entered[0]) >= 1
                  /\ IdAt(0, Len(entered[0])) = n /\ entered[0][Len(entered[0])].id = n
<1>0. ChannelType /\ Rank0At(K) /\ "call" \in Threads /\ Len(calls) \in Nat /\ 0 \in Ranks
  BY FieldTypes, RankFacts DEF ChannelInv
<1>1. /\ Len(calls) >= 1 /\ thread["call"].id = Len(calls) /\ calls[Len(calls)] \in Methods
      /\ thread["exit"].pc = "idle"
      /\ thread["call"].pc # "status" => thread["call"].rank = 1
      /\ thread["call"].pc = "body" => Rested(K, 0, Len(calls) - 1)
      /\ thread["call"].pc = "collective" =>
           Inside(0, Len(calls)) /\ thread["call"].at = Len(entered[0])
  BY <1>0 DEF Rank0At
<1>2. \A w \in Workers : ~Unsignalled(w)
  BY <1>1 DEF Unsignalled, Threads
<1>3. thread["call"].pc = "collective" =>
        /\ Len(entered[0]) \in 1..Len(entered[0]) /\ Len(entered[0]) >= 1
        /\ IdAt(0, Len(entered[0])) = Len(calls) /\ entered[0][Len(entered[0])].id = Len(calls)
  <2> SUFFICES ASSUME thread["call"].pc = "collective"
               PROVE  /\ Len(entered[0]) \in 1..Len(entered[0]) /\ Len(entered[0]) >= 1
                      /\ IdAt(0, Len(entered[0])) = Len(calls)
                      /\ entered[0][Len(entered[0])].id = Len(calls)
    OBVIOUS
  <2>1. Len(entered[0]) \in Nat /\ Len(entered[0]) # 0
    BY <1>0, <1>1, FieldTypes DEF Inside
  <2> QED BY <1>1, <2>1 DEF Inside, IdAt
<1>4. Len(calls) \in 1..Len(calls)
  BY <1>0, <1>1
<1> QED BY <1>0, <1>1, <1>2, <1>3, <1>4, SyncFacts DEF Method

\* Rank 0 enters a collective of a call.
LEMMA CallEnters ==
  ASSUME NEW K, ChannelInv(K), ChannelType', thread["call"].pc \in {"body", "collective"},
         UNCHANGED <<calls, command, completion, status, worker, log, failedAt, result>>,
         NEW e \in Entries, e.id = Len(calls), NextEntry(K, 0, e),
         entered' = [entered EXCEPT ![0] = Append(@, e)],
         thread'["call"].pc = "collective", thread'["call"].id = thread["call"].id,
         thread'["call"].rank = thread["call"].rank, thread'["call"].at = Len(entered[0]) + 1,
         thread'["exit"] = thread["exit"],
         Sync(calls[Len(calls)]) # "ack",
         \A n \in 1..Len(entered[0]) : IdAt(0, n) <= e.id,
         e.kind = "body" => \A n \in 1..Len(entered[0]) : IdAt(0, n) # e.id
  PROVE  ChannelInv(K)'
<1>0. ChannelType /\ Follows(K) /\ Agreed /\ Rank0At(K) /\ 0 \in Ranks
  BY RankFacts DEF ChannelInv
<1>1. Grows /\ Follows(K)' /\ Agreed'
  BY <1>0, EnterStep
<1>2. /\ entered'[0] = Append(entered[0], e)
      /\ \A w \in Workers : entered'[w] = entered[w]
  BY <1>0, RankFacts DEF ChannelType
<1>3. Inside(0, Len(calls))' /\ Len(entered'[0]) = Len(entered[0]) + 1
  <2>1. Inside(0, e.id)' /\ Len(entered'[0]) = Len(entered[0]) + 1
    BY <1>0, <1>2, NowInside
  <2> QED BY <2>1 DEF Inside
<1>4. Rank0At(K)'
  <2>1. \A t \in Threads : t = "call" \/ t = "exit"
    BY DEF Threads
  <2>2. thread["exit"].pc = "idle" /\ thread["call"].rank = 1
    BY InCall
  <2> QED BY <1>0, <1>3, <2>1, <2>2 DEF Rank0At
<1>5. ASSUME NEW w \in Workers
      PROVE  /\ ~Unsignalled(w) /\ ~Unsignalled(w)'
             /\ Heard(w)' => Has(w, Len(calls)) \/ Gone(w)
             /\ Asked(w)' => Asked(w)
             /\ Answering(w) => Asked(w)'
  <2>1. ~Unsignalled(w) /\ thread["exit"].pc = "idle"
    BY InCall
  <2> QED BY <2>1 DEF Unsignalled, Heard, Asked, Threads
<1> QED BY <1>1, <1>2, <1>4, <1>5, InCall, Rank0Moves

\* What follows the body of a method on rank 0.
LEMMA FinishStep ==
  ASSUME NEW K, ChannelInv(K), ChannelType', NEW e \in BOOLEAN, Finish(e),
         UNCHANGED <<calls, channel, worker, log, failedAt>>,
         \/ thread["call"].pc = "body" /\ ~HasBody(K, thread["call"].id)
         \/ /\ thread["call"].pc = "collective" /\ Met(Len(entered[0]))
            /\ entered[0][Len(entered[0])].kind = "body"
  PROVE  ChannelInv(K)'
<1> DEFINE n == Len(calls)
<1> DEFINE k == Len(entered[0])
<1>0. /\ ChannelType /\ Follows(K) /\ Agreed /\ Rank0At(K) /\ \A w \in Workers : Keeping(w)
      /\ "call" \in Threads /\ "exit" \in Threads /\ k \in Nat
      /\ UNCHANGED <<calls, command, completion, status, worker, log, failedAt>>
  BY FieldTypes, RankFacts DEF ChannelInv, channel
<1>a. /\ n \in 1..Len(calls) /\ n \in Nat /\ n >= 1 /\ thread["call"].id = n
      /\ calls[n] \in Methods /\ calls[n] # "exit" /\ Method("call") = calls[n]
      /\ thread["exit"].pc = "idle" /\ 0 \in Ranks /\ thread["call"].rank = 1
      /\ \A w \in Workers : ~Unsignalled(w)
      /\ thread["call"].pc = "body" => Rested(K, 0, n - 1)
      /\ thread["call"].pc = "collective" =>
           /\ Inside(0, n) /\ k \in 1..k /\ k >= 1 /\ IdAt(0, k) = n /\ entered[0][k].id = n
  BY InCall
<1>b. thread["call"].pc = "collective" => calls[n] \in Collective
  BY <1>0, <1>a, KindFacts
<1>1. CASE Sync(Method("call")) = "ack"
  <2>1. PICK o \in {"ok", "error"} : Return("call", o) /\ UNCHANGED entered
    BY <1>1 DEF Finish
  <2>2. thread["call"].pc = "body" /\ ~Meets(K, n)
    BY <1>1, <1>a, <1>b, SyncFacts, MeetsFacts
  <2>3. Rested(K, 0, n)
    BY <1>0, <1>a, <2>2, RestedNext
  <2>4. \A w \in Workers : Has(w, n) \/ Gone(w)
    BY <1>0, <1>1, <1>a, <2>2 DEF Keeping, Heard
  <2>5. \A w \in Workers : ~Answering(w)
    BY <1>1, <1>a, AnsweringFacts DEF Answering
  <2> QED BY <1>0, <1>1, <1>a, <2>1, <2>2, <2>3, <2>4, <2>5, CallReturns
<1>2. CASE Sync(Method("call")) = "host"
  <2>1. /\ thread' = [thread EXCEPT !["call"].pc = "status", !["call"].error = e]
        /\ UNCHANGED <<entered, result>>
    BY <1>2 DEF Finish
  <2>2. /\ thread'["call"].pc = "status" /\ thread'["call"].id = thread["call"].id
        /\ thread'["call"].rank = 1 /\ thread'["exit"] = thread["exit"]
    BY <1>0, <1>a, <2>1 DEF ChannelType, ThreadRecords
  <2>3. Grows /\ Follows(K)' /\ Agreed'
    BY <1>0, <2>1, NoEnterStep
  <2>4. Rested(K, 0, n)
    <3>1. CASE thread["call"].pc = "body"
      BY <1>0, <1>2, <1>a, <3>1, RestedNext, MeetsFacts
    <3>2. CASE thread["call"].pc = "collective"
      <4>1. Over(0, k)
        BY <1>2, <1>a, <3>2 DEF Over
      <4> QED BY <1>0, <1>a, <3>2, <4>1, InsideRested
    <3> QED BY <3>1, <3>2
  <2>5. Rested(K, 0, Len(calls))'
    BY <1>0, <2>1, <2>4 DEF Rested, Over, NoneBetween, IdAt, Met, Bad, Flags, Meets, HasBody
  <2>6. Rank0At(K)'
    <3>1. \A t \in Threads : t = "call" \/ t = "exit"
      BY DEF Threads
    <3> QED BY <1>0, <1>2, <1>a, <2>2, <2>5, <3>1 DEF Rank0At
  <2>7. ASSUME NEW w \in Workers
        PROVE  /\ ~Unsignalled(w) /\ ~Unsignalled(w)'
               /\ Heard(w)' => Has(w, Len(calls)) \/ Gone(w)
               /\ Asked(w)' => Asked(w)
               /\ Answering(w) => Asked(w)'
    <3>1. w \in Nat /\ w >= 1
      BY DEF Workers
    <3>2. ~Unsignalled(w)'
      BY <1>a, <2>2 DEF Unsignalled, Threads
    <3>3. ~Heard(w)'
      BY <2>2, <3>1 DEF Heard
    <3>4. Asked(w)
      BY DEF Asked
    <3>5. Asked(w)'
      BY <2>2, <3>1 DEF Asked
    <3> QED BY <1>a, <3>2, <3>3, <3>4, <3>5
  <2> QED BY <1>0, <1>a, <2>1, <2>2, <2>3, <2>6, <2>7, Rank0Moves
<1>3. CASE Sync(Method("call")) = "reduce"
  <2>0. PICK x : x = [id |-> n, kind |-> "reduce", flag |-> e]
    OBVIOUS
  <2>1. /\ entered' = [entered EXCEPT ![0] = Append(@, x)] /\ UNCHANGED result
        /\ thread' = [thread EXCEPT !["call"].pc = "collective", !["call"].error = e,
                                    !["call"].at = k + 1]
    BY <1>3, <1>a, <2>0 DEF Finish, Enter
  <2>2. /\ thread'["call"].pc = "collective" /\ thread'["call"].id = thread["call"].id
        /\ thread'["call"].rank = thread["call"].rank /\ thread'["exit"] = thread["exit"]
        /\ thread'["call"].at = k + 1
    BY <1>0, <1>a, <2>1 DEF ChannelType, ThreadRecords
  <2>3. x \in Entries /\ x.id = n /\ x.kind = "reduce"
    BY <1>a, <2>0 DEF Entries, Kinds
  <2>4. NextEntry(K, 0, x)
    <3>1. CASE thread["call"].pc = "body"
      <4>1. Meets(K, n) /\ FirstKind(K, n) = "reduce"
        BY <1>3, <1>a, <3>1 DEF Meets, FirstKind
      <4> QED BY <1>0, <1>a, <2>3, <3>1, <4>1, FirstEntry
    <3>2. CASE thread["call"].pc = "collective"
      BY <1>3, <1>a, <2>3, <3>2 DEF NextEntry
    <3> QED BY <3>1, <3>2
  <2>5. \A j \in 1..k : IdAt(0, j) <= n
    BY <1>0, <1>a, IdAtFacts
  <2>6. Sync(calls[n]) # "ack"
    BY <1>3, <1>a
  <2> QED BY <1>0, <2>1, <2>2, <2>3, <2>4, <2>5, <2>6, CallEnters
<1> QED BY <1>1, <1>2, <1>3, SyncFacts

\* Body and LeaveBody.
LEMMA BodyStep ==
  ASSUME NEW K, ChannelInv(K), ChannelType', Consistent(K)', NEW e \in BOOLEAN,
         Body(e) \/ LeaveBody(e)
  PROVE  ChannelInv(K)'
<1> DEFINE n == Len(calls)
<1>0. /\ ChannelType /\ Follows(K) /\ UNCHANGED <<calls, channel, worker, log, failedAt>>
      /\ "call" \in Threads /\ "exit" \in Threads
  BY FieldTypes DEF ChannelInv, Body, LeaveBody
<1>1. CASE LeaveBody(e)
  <2>1. thread["call"].pc = "collective" /\ thread["call"].at = Len(entered[0])
    BY <1>1, InCall DEF LeaveBody
  <2>2. Met(Len(entered[0])) /\ entered[0][Len(entered[0])].kind = "body" /\ Finish(e)
    BY <1>1, <2>1 DEF LeaveBody
  <2> QED BY <1>0, <2>1, <2>2, FinishStep
<1>2. CASE Body(e) /\ ~(Method("call") \in Collective /\ ~e)
  <2>1. thread["call"].pc = "body" /\ Finish(e) /\ skipped' = Skipping(thread["call"].id, e)
    BY <1>2 DEF Body
  <2>2. ~HasBody(K, thread["call"].id)
    BY <1>2, <2>1 DEF HasBody, Method, Skipping, Consistent
  <2> QED BY <1>0, <2>1, <2>2, FinishStep
<1>3. CASE Body(e) /\ Method("call") \in Collective /\ ~e
  <2>0. PICK x : x = [id |-> n, kind |-> "body", flag |-> FALSE]
    OBVIOUS
  <2>a. thread["call"].pc = "body"
    BY <1>3 DEF Body
  <2>b. /\ n \in 1..Len(calls) /\ n \in Nat /\ thread["call"].id = n /\ Method("call") = calls[n]
        /\ 0 \in Ranks /\ Rested(K, 0, n - 1)
    BY <2>a, InCall
  <2>1. /\ entered' = [entered EXCEPT ![0] = Append(@, x)] /\ UNCHANGED result
        /\ thread' = [thread EXCEPT !["call"].pc = "collective", !["call"].at = Len(entered[0]) + 1]
    BY <1>3, <2>0, <2>b DEF Body, Enter
  <2>2. /\ thread'["call"].pc = "collective" /\ thread'["call"].id = thread["call"].id
        /\ thread'["call"].rank = thread["call"].rank /\ thread'["exit"] = thread["exit"]
        /\ thread'["call"].at = Len(entered[0]) + 1
    BY <1>0, <2>1 DEF ChannelType, ThreadRecords
  <2>3. x \in Entries /\ x.id = n /\ x.kind = "body"
    BY <2>0, <2>b DEF Entries, Kinds
  <2>4. NextEntry(K, 0, x) /\ \A j \in 1..Len(entered[0]) : IdAt(0, j) < n
    <3>1. n \notin K
      <4>1. entered[0] \in Seq(Entries) /\ entered'[0] = Append(entered[0], x)
        BY <1>0, <2>1, <2>b DEF ChannelType
      <4>2. Len(entered'[0]) \in 1..Len(entered'[0]) /\ entered'[0][Len(entered'[0])] = x
        BY <2>3, <4>1
      <4> QED BY <2>3, <2>b, <4>2 DEF Consistent
    <3>2. Meets(K, n) /\ FirstKind(K, n) = "body"
      BY <1>3, <2>b, <3>1 DEF Meets, HasBody, FirstKind
    <3> QED BY <1>0, <2>3, <2>b, <3>2, FirstEntry
  <2>5. \A j \in 1..Len(entered[0]) : IdAt(0, j) <= n /\ IdAt(0, j) # n
    <3>1. \A j \in 1..Len(entered[0]) : IdAt(0, j) \in Nat
      BY <1>0, <2>b, FieldTypes, IdAtFacts
    <3> QED BY <2>4, <2>b, <3>1
  <2>6. Sync(calls[n]) # "ack"
    BY <1>3, <2>b, SyncFacts
  <2>7. UNCHANGED <<calls, command, completion, status, worker, log, failedAt, result>>
    BY <1>0, <2>1 DEF channel
  <2> QED BY <2>1, <2>2, <2>3, <2>4, <2>5, <2>6, <2>7, <2>a, CallEnters
<1> QED BY <1>1, <1>2, <1>3

\* LeaveReduce and LeaveGather: rank 0 has met everybody in a collective of the
\* last command.
LEMMA LeaveStep ==
  ASSUME NEW K, ChannelInv(K), ChannelType', (\E d \in BOOLEAN : LeaveReduce(d)) \/ LeaveGather
  PROVE  ChannelInv(K)'
<1> DEFINE n == Len(calls)
<1> DEFINE k == Len(entered[0])
<1>0. /\ ChannelType /\ Follows(K) /\ k \in Nat /\ "call" \in Threads /\ "exit" \in Threads
      /\ UNCHANGED <<calls, command, completion, status, worker, log, failedAt>>
  BY FieldTypes, RankFacts DEF ChannelInv, LeaveReduce, LeaveGather, channel
<1>a. thread["call"].pc = "collective"
  BY DEF LeaveReduce, LeaveGather
<1>b. /\ n \in 1..Len(calls) /\ n \in Nat /\ n >= 1 /\ thread["call"].id = n
      /\ Method("call") = calls[n] /\ thread["exit"].pc = "idle" /\ 0 \in Ranks
      /\ \A w \in Workers : ~Unsignalled(w)
      /\ Inside(0, n) /\ k \in 1..k /\ k >= 1 /\ IdAt(0, k) = n /\ entered[0][k].id = n
      /\ thread["call"].at = k
  BY <1>a, InCall
<1>c. Met(k) /\ entered[0][k].kind \in {"reduce", "gather"}
  BY <1>b DEF LeaveReduce, LeaveGather
<1>d. Sync(calls[n]) = "reduce"
  BY <1>0, <1>b, <1>c, KindFacts
<1>e. \A w \in Workers : (Has(w, n) \/ Gone(w)) /\ ~Answering(w)
  <2>1. \A w \in Workers : Has(w, n) \/ Gone(w)
    BY <1>b, <1>c, MetTakenUp
  <2>2. \A w \in Workers : ~Answering(w)
    BY <1>d, AnsweringFacts DEF Answering
  <2> QED BY <2>1, <2>2
<1>1. CASE \E d \in BOOLEAN : LeaveReduce(d) /\ ~Bad(k) /\ calls[n] \in Gathers
  <2>0. PICK d \in BOOLEAN : LeaveReduce(d) /\ ~Bad(k) /\ calls[n] \in Gathers
    BY <1>1
  <2>a. PICK x : x = [id |-> n, kind |-> "gather", flag |-> d]
    OBVIOUS
  <2>1. /\ entered' = [entered EXCEPT ![0] = Append(@, x)] /\ UNCHANGED result
        /\ thread' = [thread EXCEPT !["call"].at = k + 1] /\ entered[0][k].kind = "reduce"
    BY <1>b, <2>0, <2>a DEF LeaveReduce, Enter
  <2>2. /\ thread'["call"].pc = "collective" /\ thread'["call"].id = thread["call"].id
        /\ thread'["call"].rank = thread["call"].rank /\ thread'["exit"] = thread["exit"]
        /\ thread'["call"].at = k + 1
    BY <1>0, <1>a, <2>1 DEF ChannelType, ThreadRecords
  <2>3. x \in Entries /\ x.id = n /\ x.kind = "gather"
    BY <1>b, <2>a DEF Entries, Kinds
  <2>4. NextEntry(K, 0, x)
    BY <1>b, <1>c, <2>0, <2>1, <2>3 DEF NextEntry
  <2>5. \A j \in 1..k : IdAt(0, j) <= n
    BY <1>0, <1>b, IdAtFacts
  <2>6. Sync(calls[n]) # "ack"
    BY <1>d
  <2> QED BY <1>0, <1>a, <2>1, <2>2, <2>3, <2>4, <2>5, <2>6, CallEnters
<1>2. CASE \E d \in BOOLEAN : LeaveReduce(d) /\ ~(~Bad(k) /\ calls[n] \in Gathers)
  <2>0. PICK d \in BOOLEAN : LeaveReduce(d) /\ ~(~Bad(k) /\ calls[n] \in Gathers)
    BY <1>2
  <2>1. PICK o \in {"ok", "error"} : /\ Return("call", o) /\ UNCHANGED entered
                                     /\ entered[0][k].kind = "reduce"
                                     /\ o = "ok" => ~Bad(k)
    BY <1>b, <2>0 DEF LeaveReduce
  <2>2. Over(0, k)
    BY <1>b, <1>c, <2>0, <2>1 DEF Over
  <2>3. Rested(K, 0, n)
    BY <1>0, <1>b, <2>2, InsideRested
  <2>4. o = "ok" =>
          \E j \in 1..Len(entered[0]) : /\ Met(j) /\ ~Bad(j)
                                        /\ entered[0][j].id = Len(calls)
                                        /\ entered[0][j].kind = "reduce"
    BY <1>b, <1>c, <2>1
  <2> QED BY <1>0, <1>a, <1>d, <1>e, <2>1, <2>3, <2>4, CallReturns
<1>3. CASE LeaveGather
  <2>1. PICK o \in {"ok", "error"} : /\ Return("call", o) /\ UNCHANGED entered
                                     /\ entered[0][k].kind = "gather"
    BY <1>3, <1>b DEF LeaveGather
  <2>2. Over(0, k)
    BY <2>1 DEF Over
  <2>3. Rested(K, 0, n)
    BY <1>0, <1>b, <2>2, InsideRested
  <2>4. \E j \in 1..Len(entered[0]) : /\ Met(j) /\ ~Bad(j)
                                      /\ entered[0][j].id = Len(calls)
                                      /\ entered[0][j].kind = "reduce"
    <3>1. GoesOn(0, k)
      BY <1>0, <1>b, <2>1, KindFacts
    <3>2. /\ Met(k - 1) /\ ~Bad(k - 1) /\ entered[0][k - 1].kind = "reduce" /\ k > 1
          /\ IdAt(0, k - 1) = n
      BY <1>b, <2>1, <3>1 DEF GoesOn
    <3>3. k - 1 \in 1..k /\ entered[0][k - 1].id = n
      <4>1. PICK j : j = k - 1
        OBVIOUS
      <4>2. j \in 1..k /\ j # 0
        <5>1. k \in Nat /\ k > 1
          BY <1>0, <3>2
        <5>2. \A q \in Nat : q > 1 => q - 1 \in 1..q /\ q - 1 # 0
          OBVIOUS
        <5> HIDE DEF k
        <5> QED BY <4>1, <5>1, <5>2
      <4>3. IdAt(0, j) = entered[0][j].id
        BY <4>2 DEF IdAt
      <4> QED BY <3>2, <4>1, <4>2, <4>3
    <3> QED BY <3>2, <3>3
  <2> QED BY <1>0, <1>a, <1>d, <1>e, <2>1, <2>3, <2>4, CallReturns
<1> QED BY <1>1, <1>2, <1>3, <1>b DEF LeaveReduce

\* Rank 0 takes one status byte.
LEMMA TakeStatusStep ==
  ASSUME NEW K, ChannelInv(K), ChannelType', TakeStatus
  PROVE  ChannelInv(K)'
<1> DEFINE n == Len(calls)
<1> DEFINE c == thread["call"]
<1>0. /\ ChannelType /\ Follows(K) /\ Agreed /\ Rank0At(K)
      /\ \A w \in Workers : Keeping(w) /\ StatusKept(w)
      /\ "call" \in Threads /\ "exit" \in Threads
      /\ UNCHANGED <<calls, command, status, worker, entered, log, failedAt>>
  BY FieldTypes DEF ChannelInv, TakeStatus
<1>a. /\ c.pc = "status" /\ completion[c.rank] /\ c.rank \in Workers /\ c.rank \in Nat
      /\ c.error \in BOOLEAN
      /\ completion' = [completion EXCEPT ![c.rank] = FALSE]
  BY <1>0, FieldTypes, RankFacts DEF TakeStatus
<1>b. /\ n \in Nat /\ n >= 1 /\ thread["exit"].pc = "idle" /\ c.id = n
      /\ \A w \in Workers : ~Unsignalled(w)
      /\ Rested(K, 0, n) /\ Sync(calls[n]) = "host"
  BY <1>0, <1>a, InCall DEF Rank0At
<1>c. PICK v \in Workers : v = c.rank
  BY <1>a
<1>d. Asked(v)
  BY <1>a, <1>c DEF Asked
<1>e. /\ worker[v].id = n /\ worker[v].pc \in {"read", "dead"} /\ status[v].value # "pending"
      /\ status[v].value = "failed" <=> n \in failedAt[v]
  BY <1>0, <1>a, <1>c, <1>d DEF StatusKept
<1>f. Has(v, n) \/ Gone(v)
  <2>1. ~Woken(v) /\ ~Reading(v)
    BY <1>b, <1>e DEF Woken, Reading
  <2> QED BY <1>0, <1>b, <2>1 DEF Keeping
<1>g. \A w \in Workers : w < v => Has(w, n) \/ Gone(w)
  BY <1>0, <1>a, <1>c DEF Keeping, Heard
<1>h. \A w \in Workers : Answering(w) => w > v
  <2> SUFFICES ASSUME NEW w \in Workers, Answering(w) PROVE w > v
    OBVIOUS
  <2>1. Asked(w) /\ ~completion[w]
    BY AnsweringFacts
  <2>2. w >= v /\ w # v
    BY <1>a, <1>c, <2>1 DEF Asked
  <2> QED BY <1>a, <1>c, <2>2 DEF Workers
<1>i. \A w \in Workers : w < v /\ n \in failedAt[w] => c.error
  BY <1>0, <1>a, <1>c DEF StatusKept
<1>j. /\ ~completion'[v] /\ \A w \in Workers \ {v} : completion'[w] = completion[w]
      /\ v \in Nat /\ v <= N /\ N \in Nat /\ \A w \in Workers : w \in Nat /\ w <= N
  <2>1. ~completion'[v] /\ \A w \in Workers \ {v} : completion'[w] = completion[w]
    BY <1>0, <1>a, <1>c DEF ChannelType
  <2>2. v \in Nat /\ v <= N /\ N \in Nat /\ \A w \in Workers : w \in Nat /\ w <= N
    BY TpAssumption DEF Workers, TpAssumption
  <2> QED BY <2>1, <2>2
<1>k. PICK e : e = BadStatus(c.error, status[v].value)
  OBVIOUS
<1>l. \A w \in Workers : w <= v /\ n \in failedAt[w] => e
  <2>1. n \in failedAt[v] => e
    BY <1>e, <1>k DEF BadStatus
  <2>2. c.error => e
    BY <1>k DEF BadStatus
  <2>3. \A w \in Workers : w <= v => w < v \/ w = v
    BY <1>j
  <2> QED BY <1>i, <2>1, <2>2, <2>3
<1>1. CASE v < N
  <2>1. /\ thread' = [thread EXCEPT !["call"].rank = v + 1, !["call"].error = e]
        /\ UNCHANGED result
    BY <1>1, <1>c, <1>e, <1>k DEF TakeStatus
  <2>2. /\ thread'["call"].pc = "status" /\ thread'["call"].id = c.id
        /\ thread'["call"].rank = v + 1 /\ thread'["call"].error = e
        /\ thread'["exit"] = thread["exit"]
    BY <1>0, <1>a, <2>1 DEF ChannelType, ThreadRecords
  <2>3. Grows /\ Follows(K)' /\ Agreed'
    BY <1>0, NoEnterStep
  <2>4. Rank0At(K)'
    <3>1. Rested(K, 0, Len(calls))'
      BY <1>0, <1>b DEF Rested, Over, NoneBetween, IdAt, Met, Bad, Flags, Meets, HasBody
    <3>2. \A t \in Threads : t = "call" \/ t = "exit"
      BY DEF Threads
    <3> QED BY <1>0, <1>a, <1>b, <2>2, <3>1, <3>2 DEF Rank0At
  <2>5. ResultsKept'
    BY <1>0, <1>a, <2>1, <2>3, ResultsSame
  <2>6. ASSUME NEW w \in Workers
        PROVE  Keeping(w)' /\ StatusKept(w)'
    <3>1. Gone(w)' <=> Gone(w)
      BY <1>0, GoneSame
    <3>2. /\ Has(w, Len(calls))' <=> Has(w, Len(calls))
          /\ Woken(w) => Woken(w)'
          /\ Reading(w)' <=> Reading(w)
          /\ Answering(w)' <=> Answering(w)
      <4>1. ~completion[w] => ~completion'[w]
        BY <1>j
      <4> QED BY <1>0, <3>1, <4>1 DEF Has, Woken, Reading, Answering
    <3>3. /\ ~Unsignalled(w)'
          /\ Heard(w)' => w <= v
          /\ Asked(w)' <=> w > v
      BY <1>b, <1>j, <2>2 DEF Unsignalled, Heard, Asked, Threads
    <3>4. Keeping(w)'
      <4>1. Heard(w)' => Has(w, n) \/ Gone(w)
        <5>1. w <= v => w < v \/ w = v
          BY <1>j
        <5> QED BY <1>f, <1>g, <3>3, <5>1
      <4> QED BY <1>0, <1>b, <3>1, <3>2, <3>3, <4>1 DEF Keeping
    <3>5. StatusKept(w)'
      <4>1. completion'[w] => completion[w] /\ w # v
        BY <1>j
      <4>2. w > v => Asked(w)
        BY <1>a, <1>c, <1>j DEF Asked
      <4>3. (w < v + 1 /\ n \in failedAt[w]) => e
        BY <1>j, <1>l
      <4>4. Answering(w) => worker[w].id = n /\ ~completion'[w] /\ w > v
        BY <1>h, <4>1, AnsweringFacts
      <4> QED BY <1>0, <2>2, <3>2, <3>3, <4>1, <4>2, <4>3, <4>4 DEF StatusKept
    <3> QED BY <3>4, <3>5
  <2> QED BY <1>0, <2>3, <2>4, <2>5, <2>6, Rank0Done, RankFacts
<1>2. CASE ~(v < N)
  <2>1. PICK o \in {"ok", "error"} : Return("call", o) /\ (o = "ok" => ~e)
    BY <1>2, <1>c, <1>e, <1>k DEF TakeStatus
  <2>2. \A w \in Workers : w <= v /\ (w < v \/ w = v) /\ ~(w > v)
    BY <1>2, <1>j
  <2>3. \A w \in Workers : (Has(w, n) \/ Gone(w)) /\ ~Answering(w)
    BY <1>f, <1>g, <1>h, <2>2
  <2>4. o = "ok" => \A w \in Workers : n \notin failedAt[w]
    BY <1>l, <2>1, <2>2
  <2>5. \A w \in Workers : completion'[w] => completion[w]
    BY <1>j
  <2> QED BY <1>0, <1>a, <1>b, <2>1, <2>3, <2>4, <2>5, CallReturns
<1> QED BY <1>1, <1>2

\* A worker has not answered in time.
LEMMA StatusTimeoutStep ==
  ASSUME NEW K, ChannelInv(K), ChannelType', StatusTimeout
  PROVE  ChannelInv(K)'
<1> DEFINE n == Len(calls)
<1>1. /\ thread["call"].pc = "status" /\ Return("call", "error") /\ \A w \in Workers : Settled(w)
      /\ UNCHANGED <<calls, command, completion, status, worker, entered, log, failedAt>>
  BY DEF StatusTimeout, Expires, channel
<1>2. /\ n >= 1 /\ Rested(K, 0, n) /\ thread["exit"].pc = "idle"
      /\ \A w \in Workers : ~Unsignalled(w)
  BY <1>1, InCall DEF ChannelInv, Rank0At
<1>3. \A w \in Workers : Has(w, n) \/ Gone(w)
  BY <1>1, <1>2, TimeoutTakenUp
<1>4. \A w \in Workers : ~Answering(w)
  BY <1>1, <1>2, TimeoutSilent
<1> QED BY <1>1, <1>2, <1>3, <1>4, CallReturns

\* ExitBody: the exit thread comes to the barrier.
LEMMA ExitBodyStep ==
  ASSUME NEW K, ChannelInv(K), ChannelType', ExitBody
  PROVE  ChannelInv(K)'
<1> DEFINE n == Len(calls)
<1>0. /\ ChannelType /\ Follows(K) /\ Agreed /\ Rank0At(K) /\ 0 \in Ranks
      /\ "call" \in Threads /\ "exit" \in Threads /\ n \in Nat
      /\ UNCHANGED <<calls, command, completion, status, worker, log, failedAt, result>>
  BY FieldTypes, RankFacts DEF ChannelInv, ExitBody, channel
<1>a. thread["exit"].pc = "body"
  BY DEF ExitBody
<1>b. /\ thread["call"].pc = "idle" /\ n >= 1 /\ thread["exit"].id = n /\ calls[n] = "exit"
      /\ Rested(K, 0, n - 1)
  BY <1>0, <1>a DEF Rank0At
<1>c. PICK x : x = [id |-> n, kind |-> "barrier", flag |-> FALSE]
  OBVIOUS
<1>1. /\ entered' = [entered EXCEPT ![0] = Append(@, x)]
      /\ thread' = [thread EXCEPT !["exit"].pc = "collective", !["exit"].at = Len(entered[0]) + 1]
  BY <1>b, <1>c DEF ExitBody, Enter
<1>2. /\ thread'["exit"].pc = "collective" /\ thread'["exit"].id = thread["exit"].id
      /\ thread'["call"] = thread["call"] /\ thread'["exit"].at = Len(entered[0]) + 1
  BY <1>0, <1>1 DEF ChannelType, ThreadRecords
<1>3. x \in Entries /\ x.id = n /\ x.kind = "barrier" /\ n \in 1..Len(calls)
  BY <1>0, <1>b, <1>c DEF Entries, Kinds
<1>4. NextEntry(K, 0, x)
  <2>1. Meets(K, n) /\ FirstKind(K, n) = "barrier"
    BY <1>b, SyncFacts DEF Meets, HasBody, FirstKind
  <2> QED BY <1>0, <1>3, <1>b, <2>1, FirstEntry
<1>5. Grows /\ Follows(K)' /\ Agreed'
  BY <1>0, <1>1, <1>3, <1>4, EnterStep
<1>6. /\ entered'[0] = Append(entered[0], x)
      /\ \A w \in Workers : entered'[w] = entered[w]
  BY <1>0, <1>1, RankFacts DEF ChannelType
<1>7. Inside(0, Len(calls))' /\ Len(entered'[0]) = Len(entered[0]) + 1
  <2>1. \A j \in 1..Len(entered[0]) : IdAt(0, j) <= n
    BY <1>0, FieldTypes, IdAtFacts
  <2>2. Inside(0, x.id)' /\ Len(entered'[0]) = Len(entered[0]) + 1
    BY <1>0, <1>3, <1>6, <2>1, NowInside
  <2> QED BY <1>0, <1>3, <2>2 DEF Inside
<1>8. Rank0At(K)'
  <2>1. \A t \in Threads : t = "call" \/ t = "exit"
    BY DEF Threads
  <2> QED BY <1>0, <1>2, <1>7, <1>b, <2>1 DEF Rank0At
<1>9. ASSUME NEW w \in Workers
      PROVE  ~Unsignalled(w) /\ ~Unsignalled(w)' /\ ~Heard(w)' /\ ~Asked(w)' /\ ~Answering(w)
  <2>1. ~Answering(w)
    BY <1>b, AnsweringFacts
  <2> QED BY <1>2, <1>a, <1>b, <2>1 DEF Unsignalled, Heard, Asked, Threads
<1> QED BY <1>0, <1>2, <1>5, <1>6, <1>8, <1>9, <1>a, <1>b, Rank0Moves

\* ExitPassed and ExitTimeout.
LEMMA ExitEndsStep ==
  ASSUME NEW K, ChannelInv(K), ChannelType', ExitPassed \/ ExitTimeout
  PROVE  ChannelInv(K)'
<1>0. /\ ChannelType /\ Follows(K) /\ Agreed /\ Rank0At(K) /\ "call" \in Threads /\ "exit" \in Threads
      /\ UNCHANGED <<calls, command, completion, status, worker, entered, log, failedAt>>
  BY FieldTypes DEF ChannelInv, ExitPassed, ExitTimeout, channel
<1>1. thread["exit"].pc \notin {"idle", "reap", "done"}
  BY DEF ExitPassed, ExitTimeout
<1>2. thread' = [thread EXCEPT !["exit"].pc = "reap", !["exit"].rank = 1]
  BY DEF ExitPassed, ExitTimeout, Return
<1>3. /\ thread'["exit"].pc = "reap" /\ thread'["exit"].id = thread["exit"].id
      /\ thread'["call"] = thread["call"]
  BY <1>0, <1>2 DEF ChannelType, ThreadRecords
<1>4. ResultsKept'
  <2>1. CASE ExitPassed
    <3>1. calls[Len(calls)] = "exit"
      BY <1>0, <1>1 DEF Rank0At
    <3>2. Sync(calls[Len(calls)]) = "ack"
      BY <3>1, SyncFacts
    <3> QED BY <1>0, <1>1, <2>1, <3>2, ResultsReturn DEF ExitPassed
  <2>2. CASE ExitTimeout
    <3>1. Grows
      BY <1>0, NoEnterStep
    <3> QED BY <1>0, <1>3, <2>2, <3>1, ResultsSame DEF ExitTimeout
  <2> QED BY <2>1, <2>2
<1> QED BY <1>0, <1>1, <1>3, <1>4, ToReap

\* Reap: a worker process is joined.
LEMMA ReapStep ==
  ASSUME NEW K, ChannelInv(K), ChannelType', Reap
  PROVE  ChannelInv(K)'
<1> DEFINE n == Len(calls)
<1>0. /\ ChannelType /\ Follows(K) /\ Agreed /\ Rank0At(K)
      /\ \A w \in Workers : /\ WorkerAt(K, w) /\ Keeping(w) /\ StatusKept(w) /\ LogKept(w)
                            /\ FailuresKept(w)
      /\ "call" \in Threads /\ "exit" \in Threads
      /\ UNCHANGED <<calls, command, completion, status, entered, result, log, failedAt>>
  BY FieldTypes DEF ChannelInv, Reap, channel
<1>a. PICK v \in Workers : v = thread["exit"].rank
  BY <1>0, FieldTypes
<1>b. PICK p, k : thread' = [thread EXCEPT !["exit"].pc = p, !["exit"].rank = k] /\ p \in {"reap", "done"}
  BY DEF Reap
<1>1. /\ thread["exit"].pc = "reap" /\ thread'["exit"].pc \in {"reap", "done"}
      /\ thread'["exit"].id = thread["exit"].id /\ thread'["call"] = thread["call"]
  BY <1>0, <1>b DEF ChannelType, ThreadRecords, Reap
<1>2. /\ worker'[v].pc \in {"dead", "exited"} /\ worker'[v].id = worker[v].id
      /\ \A w \in Workers \ {v} : worker'[w] = worker[w]
      /\ worker[v].pc = "exited" => worker'[v].pc = "exited"
  <2>1. PICK q : q = Stop(worker[v].pc)
    OBVIOUS
  <2>2. worker' = [worker EXCEPT ![v].pc = q] /\ q \in {"dead", "exited"}
        /\ (worker[v].pc = "exited" => q = "exited")
    BY <1>a, <2>1 DEF Reap, Stop
  <2> QED BY <1>0, <2>2 DEF ChannelType
<1>3. Grows /\ Follows(K)' /\ Agreed'
  BY <1>0, NoEnterStep
<1>4. thread["call"].pc = "idle" /\ thread'["call"].pc = "idle"
  BY <1>0, <1>1 DEF Rank0At
<1>5. Rank0At(K)'
  BY <1>0, <1>1, <1>4 DEF Rank0At, Threads
<1>6. ResultsKept'
  BY <1>0, <1>1, <1>3, ResultsSame
<1>7. \A w \in Workers : Gone(w) => Gone(w)'
  BY <1>0, <1>2 DEF Gone
<1>8. \A w \in Workers : ~Unsignalled(w)' /\ ~Heard(w)' /\ ~Asked(w)' /\ ~Unsignalled(w)
  BY <1>1, <1>4 DEF Unsignalled, Heard, Asked, Threads
<1>9. ASSUME NEW w \in Workers, w # v
      PROVE  (WorkerAt(K, w) /\ Keeping(w) /\ StatusKept(w) /\ LogKept(w) /\ FailuresKept(w))'
  <2>0. worker'[w] = worker[w] /\ entered'[w] = entered[w] /\ log'[w] = log[w]
        /\ failedAt'[w] = failedAt[w]
    BY <1>0, <1>2, <1>9
  <2>1. WorkerAt(K, w)' /\ LogKept(w)' /\ FailuresKept(w)'
    BY <1>0, <1>3, <2>0, OwnKept
  <2>2. /\ Has(w, Len(calls))' <=> Has(w, Len(calls))
        /\ Has(w, Len(calls) - 1)' <=> Has(w, Len(calls) - 1)
        /\ Woken(w)' <=> Woken(w)
        /\ Reading(w)' <=> Reading(w)
    BY <1>0, <2>0 DEF Has, Woken, Reading
  <2>3. Keeping(w)'
    BY <1>0, <1>1, <1>7, <1>8, <2>2 DEF Keeping
  <2>4. ~Answering(w)'
    <3>1. ~Answering(w)
      BY <1>4, AnsweringFacts
    <3> QED BY <1>0, <1>7, <2>0, <3>1 DEF Answering
  <2>5. StatusKept(w)'
    BY <1>0, <1>4, <1>8, <2>0, <2>4 DEF StatusKept
  <2> QED BY <2>1, <2>3, <2>5
<1>10. (WorkerAt(K, v) /\ Keeping(v) /\ StatusKept(v) /\ LogKept(v) /\ FailuresKept(v))'
  <2>1. Gone(v)'
    BY <1>2 DEF Gone
  <2>2. WorkerAt(K, v)'
    <3>1. \A j \in 1..Len(entered[v]) : IdAt(v, j) <= worker[v].id
      BY EntriesTakenUp
    <3>2. \A j \in 1..Len(entered'[v]) : IdAt(v, j)' <= worker'[v].id
      BY <1>0, <1>2, <3>1 DEF IdAt
    <3>3. worker'[v].pc = "exited" => worker'[v].id >= 1
      BY <1>0, <1>1, <1>2, <1>a DEF WorkerAt, Reap, Stop, ChannelType
    <3> QED BY <1>0, <1>2, <3>2, <3>3 DEF WorkerAt
  <2>3. Keeping(v)'
    BY <1>8, <2>1 DEF Keeping
  <2>4. StatusKept(v)'
    <3>1. ~Answering(v)'
      BY <2>1 DEF Answering
    <3> QED BY <1>0, <1>2, <1>4, <1>8, <3>1 DEF StatusKept
  <2>5. LogKept(v)' /\ FailuresKept(v)'
    BY <1>0, <1>2 DEF LogKept, FailuresKept
  <2> QED BY <2>2, <2>3, <2>4, <2>5
<1> QED BY <1>3, <1>5, <1>6, <1>9, <1>10 DEF ChannelInv

-----------------------------------------------------------------------------
(* The invariant and what follows from it.                                 *)

\* The engine has just started: nothing was called.
LEMMA InitKeeps ==
  ASSUME NEW K, Init
  PROVE  ChannelInv(K)
<1>0. N \in Nat /\ MaxCalls \in Nat /\ 1 \in Workers /\ "call" \in Threads /\ "exit" \in Threads /\ 0 \in Ranks
  BY TpAssumption, RankFacts DEF TpAssumption, Threads
<1>a. calls = <<>> /\ Len(calls) = 0 /\ \A r \in Ranks : entered[r] = <<>> /\ Len(entered[r]) = 0
  BY DEF Init
<1>b. \A w \in Workers : /\ w \in Ranks /\ worker[w].pc = "read" /\ worker[w].id = 0 /\ log[w] = <<>>
                         /\ failedAt[w] = {} /\ ~command[w] /\ ~completion[w]
  BY RankFacts DEF Init
<1>c. \A t \in Threads : thread[t].pc = "idle"
  BY DEF Init, NoThread
<1>1. ChannelType
  <2>1. NoStatus \in [value : {"pending", "success", "failed"}, of : Nat]
    BY DEF NoStatus
  <2>2. NoThread \in ThreadRecords
    BY <1>0 DEF NoThread, ThreadRecords, ThreadStates
  <2>3. [pc |-> "read", id |-> 0, error |-> FALSE] \in [pc : WorkerStates, id : Nat, error : BOOLEAN]
    BY DEF WorkerStates
  <2> QED BY <1>0, <1>a, <2>1, <2>2, <2>3 DEF Init, ChannelType
<1>2. Follows(K) /\ Agreed
  BY <1>a DEF Follows, Agreed
<1>3. \A r \in Ranks : Rested(K, r, 0)
  BY <1>a DEF Rested, NoneBetween, IdAt
<1>4. Rank0At(K)
  BY <1>0, <1>a, <1>c, <1>3 DEF Rank0At
<1>5. ASSUME NEW w \in Workers
      PROVE  WorkerAt(K, w) /\ Keeping(w) /\ StatusKept(w) /\ LogKept(w) /\ FailuresKept(w)
  <2>1. WorkerAt(K, w)
    BY <1>a, <1>b, <1>3 DEF WorkerAt
  <2>2. Keeping(w)
    <3>1. Has(w, Len(calls))
      BY <1>a, <1>b DEF Has
    <3>2. ~Unsignalled(w)
      BY <1>c DEF Unsignalled
    <3> QED BY <3>1, <3>2 DEF Keeping
  <2>3. StatusKept(w)
    BY <1>0, <1>b, <1>c DEF StatusKept, Answering
  <2>4. LogKept(w) /\ FailuresKept(w)
    BY <1>a, <1>b DEF LogKept, FailuresKept
  <2> QED BY <2>1, <2>2, <2>3, <2>4
<1>6. ResultsKept
  BY <1>0, <1>a, <1>c DEF ResultsKept, Init
<1> QED BY <1>1, <1>2, <1>4, <1>5, <1>6 DEF ChannelInv

\* Every step of rank 0 keeps the invariant.
LEMMA Rank0Keeps ==
  ASSUME NEW K, ChannelInv(K), Consistent(K)', Rank0Step \/ ExitStep
  PROVE  ChannelInv(K)'
<1>0. ChannelType' /\ "call" \in Threads /\ "exit" \in Threads
  BY Rank0Types DEF ChannelInv, Rank0At, ThreadsAt, Threads
<1>1. CASE \E t \in Threads : Signal(t) \/ Acknowledged(t) \/ AckTimeout(t)
  BY <1>0, <1>1, SignalStep, AcknowledgedStep, AckTimeoutStep
<1>2. CASE \E e \in BOOLEAN : Body(e) \/ LeaveBody(e)
  BY <1>0, <1>2, BodyStep
<1>3. CASE (\E d \in BOOLEAN : LeaveReduce(d)) \/ LeaveGather
  BY <1>0, <1>3, LeaveStep
<1>4. CASE TakeStatus \/ StatusTimeout
  BY <1>0, <1>4, TakeStatusStep, StatusTimeoutStep
<1>5. CASE ExitBody \/ ExitPassed \/ ExitTimeout \/ Reap
  BY <1>0, <1>5, ExitBodyStep, ExitEndsStep, ReapStep
<1> QED BY <1>0, <1>1, <1>2, <1>3, <1>4, <1>5 DEF Rank0Step, ExitStep

\* Nothing happens.
LEMMA StutterKeeps ==
  ASSUME NEW K, ChannelInv(K), UNCHANGED vars
  PROVE  ChannelInv(K)'
<1>0. UNCHANGED <<calls, buffer, command, completion, status, thread, worker, entered, result, log, failedAt>>
  BY DEF vars, channel
<1>1. (ChannelType /\ ResultsKept)'
  <2>1. ChannelType'
    BY <1>0 DEF ChannelInv, ChannelType
  <2>2. ResultsKept'
    BY <1>0 DEF ChannelInv, ResultsKept, Met, Bad, Flags
  <2> QED BY <2>1, <2>2
<1>2. Grows /\ Follows(K)' /\ Agreed'
  BY <1>0, <1>1, NoEnterStep DEF ChannelInv
<1>3. Rank0At(K)'
  BY <1>0 DEF ChannelInv, Rank0At, Rested, Inside, Over, NoneBetween, IdAt, Met, Bad, Flags,
     Meets, HasBody
<1>4. ASSUME NEW w \in Workers
      PROVE  Keeping(w)' /\ StatusKept(w)'
  BY <1>0 DEF ChannelInv, Keeping, StatusKept, Heard, Unsignalled, Has, Woken, Reading, Gone,
     Answering, Asked
<1> QED BY <1>0, <1>1, <1>2, <1>3, <1>4, Rank0Done, RankFacts

\* The invariant is kept by every step that leaves K consistent.
LEMMA ChannelStep ==
  ASSUME NEW K, ~Forced, ChannelInv(K), [Next]_vars, Consistent(K)'
  PROVE  ChannelInv(K)'
<1>1. CASE UNCHANGED vars
  BY <1>1, StutterKeeps
<1>2. CASE (\E m \in Methods : Call(m)) \/ Exit
  BY <1>2, WriteStep
<1>3. CASE Rank0Step \/ ExitStep
  BY <1>3, Rank0Keeps
<1>4. CASE \E w \in Workers : WorkerStep(w)
  BY <1>4, WorkerKeeps
<1> QED BY <1>1, <1>2, <1>3, <1>4 DEF Next

\* What is consistent after a step was so before it: collectives are only
\* entered, and commands only skipped.
LEMMA ConsistentBefore ==
  ASSUME NEW K, ChannelType, [Next]_vars, Consistent(K)'
  PROVE  Consistent(K)
<1>1. /\ skipped \subseteq skipped'
      /\ \/ UNCHANGED entered
         \/ \E r \in Ranks : \E e : entered' = [entered EXCEPT ![r] = Append(@, e)]
  <2>1. CASE UNCHANGED vars
    BY <2>1 DEF vars
  <2>2. CASE (\E m \in Methods : Call(m)) \/ Exit
    BY <2>2 DEF Call, Exit, Write
  <2>3. CASE Rank0Step \/ ExitStep
    <3>1. 0 \in Ranks
      BY RankFacts
    <3> QED BY <2>3, <3>1 DEF Rank0Step, ExitStep, Signal, Acknowledged, AckTimeout, Body, LeaveBody,
          LeaveReduce, LeaveGather, TakeStatus, StatusTimeout, ExitBody, ExitPassed, ExitTimeout,
          Reap, Finish, Enter, Skipping
  <2>4. CASE \E w \in Workers : WorkerStep(w)
    <3>1. PICK w \in Workers : WorkerStep(w)
      BY <2>4
    <3>2. w \in Ranks
      BY RankFacts
    <3>3. CASE Load(w) \/ Clear(w) \/ WorkerLeaveGather(w) \/ Report(w) \/ Announce(w)
               \/ WorkerExitPassed(w)
      BY <3>3 DEF Load, Clear, WorkerLeaveGather, Report, Announce, WorkerExitPassed
    <3>4. CASE WorkerExit(w)
      BY <3>2, <3>4 DEF WorkerExit, Enter
    <3>5. CASE \E flag \in BOOLEAN : WorkerBody(w, flag) \/ WorkerLeaveBody(w, flag)
      BY <3>2, <3>5 DEF WorkerBody, WorkerLeaveBody, WorkerFinish, Enter, Skipping
    <3>6. CASE \E flag \in BOOLEAN : WorkerLeaveReduce(w, flag)
      BY <3>2, <3>6 DEF WorkerLeaveReduce, Enter
    <3> QED BY <3>1, <3>3, <3>4, <3>5, <3>6 DEF WorkerStep
  <2> QED BY <2>1, <2>2, <2>3, <2>4 DEF Next
<1>2. ASSUME NEW r \in Ranks, NEW n \in 1..Len(entered[r])
      PROVE  n \in 1..Len(entered'[r]) /\ entered'[r][n] = entered[r][n]
  <2>1. CASE UNCHANGED entered
    BY <2>1
  <2>2. CASE \E s \in Ranks : \E e : entered' = [entered EXCEPT ![s] = Append(@, e)]
    <3>1. PICK s \in Ranks : \E e : entered' = [entered EXCEPT ![s] = Append(@, e)]
      BY <2>2
    <3>2. PICK e : entered' = [entered EXCEPT ![s] = Append(@, e)]
      BY <3>1
    <3>3. entered[r] \in Seq(Entries) /\ entered'[r] \in {entered[r], Append(entered[r], e)}
      BY <3>2 DEF ChannelType
    <3> QED BY <3>3
  <2> QED BY <1>1, <2>1, <2>2
<1> QED BY <1>1, <1>2 DEF Consistent

\* The part of Rank0At that does not depend on K is inductive by itself.
LEMMA ThreadsKeep ==
  ASSUME ~Forced, ChannelType, ThreadsAt, [Next]_vars
  PROVE  ThreadsAt'
<1>0. /\ "call" \in Threads /\ "exit" \in Threads /\ Len(calls) \in Nat /\ MaxCalls \in Nat
      /\ \A t \in Threads : thread[t] \in ThreadRecords
  BY FieldTypes DEF Threads, ChannelType
<1>1. ASSUME UNCHANGED calls, thread'["exit"].id = thread["exit"].id,
             thread'["call"].id = thread["call"].id,
             thread'["exit"].pc = "idle" <=> thread["exit"].pc = "idle",
             thread["call"].pc = "idle" => thread'["call"].pc = "idle"
      PROVE  ThreadsAt'
  BY <1>1 DEF ThreadsAt
<1>2. CASE (\E m \in Methods : Call(m)) \/ Exit
  <2>1. /\ thread["call"].pc = "idle" /\ thread["exit"].pc = "idle"
        /\ \E t \in Threads, m \in Methods \cup {"exit"} :
             Write(t, m) /\ (t = "call" => Len(calls) < MaxCalls)
    BY <1>0, <1>2 DEF Call, Exit
  <2>2. PICK t \in Threads, m \in Methods \cup {"exit"} :
          Write(t, m) /\ (t = "call" => Len(calls) < MaxCalls)
    BY <2>1
  <2>3. /\ Len(calls') = Len(calls) + 1
        /\ thread'[t].id = Len(calls) + 1 /\ thread'[t].pc = "signal"
        /\ \A s \in Threads \ {t} : thread'[s] = thread[s]
    BY <2>2 DEF Write, ChannelType
  <2>4. t = "call" \/ t = "exit"
    BY DEF Threads
  <2> QED BY <1>0, <2>1, <2>2, <2>3, <2>4 DEF ThreadsAt, Threads
<1>3. CASE UNCHANGED vars
  BY <1>1, <1>3 DEF vars
<1>4. CASE \E w \in Workers : WorkerStep(w)
  <2>1. UNCHANGED <<calls, thread>>
    BY <1>4 DEF WorkerStep, Load, Clear, WorkerBody, WorkerLeaveBody, WorkerLeaveReduce,
       WorkerLeaveGather, Report, Announce, WorkerExit, WorkerExitPassed
  <2> QED BY <1>1, <2>1
<1>5. CASE Rank0Step
  <2>1. UNCHANGED calls
    BY <1>5 DEF Rank0Step, Signal, Acknowledged, AckTimeout, Body, LeaveBody, LeaveReduce,
       LeaveGather, TakeStatus, StatusTimeout
  <2>2. /\ thread["call"].pc # "idle" /\ thread'["exit"] = thread["exit"]
        /\ thread'["call"].id = thread["call"].id
    <3>a. thread \in [Threads -> ThreadRecords]
      BY DEF ChannelType
    <3>b. ASSUME NEW p, \/ \E k : thread' = [thread EXCEPT !["call"].pc = p, !["call"].rank = k]
                        \/ \E e : thread' = [thread EXCEPT !["call"].pc = p, !["call"].error = e]
                        \/ \E a : thread' = [thread EXCEPT !["call"].pc = p, !["call"].at = a]
                        \/ \E e, a : thread' = [thread EXCEPT !["call"].pc = p, !["call"].error = e,
                                                             !["call"].at = a]
          PROVE  thread'["exit"] = thread["exit"] /\ thread'["call"].id = thread["call"].id
      <4>0. thread["call"] \in ThreadRecords
        BY <1>0
      <4>1. CASE \E k : thread' = [thread EXCEPT !["call"].pc = p, !["call"].rank = k]
        BY <1>0, <3>a, <4>0, <4>1 DEF ThreadRecords
      <4>2. CASE \E e : thread' = [thread EXCEPT !["call"].pc = p, !["call"].error = e]
        BY <1>0, <3>a, <4>0, <4>2 DEF ThreadRecords
      <4>3. CASE \E a : thread' = [thread EXCEPT !["call"].pc = p, !["call"].at = a]
        BY <1>0, <3>a, <4>0, <4>3 DEF ThreadRecords
      <4>4. CASE \E e, a : thread' = [thread EXCEPT !["call"].pc = p, !["call"].error = e,
                                                   !["call"].at = a]
        BY <1>0, <3>a, <4>0, <4>4 DEF ThreadRecords
      <4> QED BY <3>b, <4>1, <4>2, <4>3, <4>4
    <3>1. ASSUME NEW o, Return("call", o)
          PROVE  thread'["exit"] = thread["exit"] /\ thread'["call"].id = thread["call"].id
      <4>1. thread' = [thread EXCEPT !["call"].pc = "idle", !["call"].rank = 1]
        BY <3>1 DEF Return
      <4> QED BY <3>b, <4>1
    <3>2. CASE Signal("call") \/ Acknowledged("call") \/ AckTimeout("call")
      BY <1>0, <3>1, <3>2 DEF Signal, Acknowledged, AckTimeout, ChannelType, ThreadRecords
    <3>3. CASE \E flag \in BOOLEAN : Body(flag) \/ LeaveBody(flag)
      <4>1. PICK flag : Body(flag) \/ LeaveBody(flag)
        BY <3>3
      <4>2. thread["call"].pc # "idle"
        BY <4>1 DEF Body, LeaveBody
      <4>3. CASE Finish(flag)
        <5>1. CASE Sync(Method("call")) = "ack"
          BY <3>1, <4>2, <4>3, <5>1 DEF Finish
        <5>2. CASE Sync(Method("call")) = "host"
          BY <3>b, <4>2, <4>3, <5>2 DEF Finish
        <5>3. CASE Sync(Method("call")) = "reduce"
          BY <3>b, <4>2, <4>3, <5>3 DEF Finish
        <5> QED BY <5>1, <5>2, <5>3, SyncFacts
      <4>4. CASE thread' = [thread EXCEPT !["call"].pc = "collective",
                                          !["call"].at = Len(entered[0]) + 1]
        BY <3>b, <4>2, <4>4
      <4> QED BY <4>1, <4>3, <4>4 DEF Body, LeaveBody
    <3>4. CASE (\E flag \in BOOLEAN : LeaveReduce(flag)) \/ LeaveGather
      BY <1>0, <3>1, <3>4 DEF LeaveReduce, LeaveGather, ChannelType, ThreadRecords
    <3>5. CASE TakeStatus \/ StatusTimeout
      BY <1>0, <3>1, <3>5 DEF TakeStatus, StatusTimeout, ChannelType, ThreadRecords
    <3> QED BY <1>5, <3>2, <3>3, <3>4, <3>5 DEF Rank0Step
  <2> QED BY <1>1, <2>1, <2>2
<1>6. CASE ExitStep
  <2>1. UNCHANGED calls
    BY <1>6 DEF ExitStep, Signal, Acknowledged, AckTimeout, ExitBody, ExitPassed, ExitTimeout, Reap
  <2>2. /\ thread["exit"].pc # "idle" /\ thread'["call"] = thread["call"]
        /\ thread'["exit"].id = thread["exit"].id /\ thread'["exit"].pc # "idle"
    <3>1. CASE Signal("exit")
      BY <1>0, <3>1 DEF Signal, AfterSignal, ChannelType, ThreadRecords
    <3>2. CASE Acknowledged("exit") \/ AckTimeout("exit")
      BY <1>0, <3>2 DEF Acknowledged, AckTimeout, Return, ChannelType, ThreadRecords
    <3>3. CASE ExitBody
      BY <1>0, <3>3 DEF ExitBody, ChannelType, ThreadRecords
    <3>4. CASE ExitPassed
      BY <1>0, <3>4 DEF ExitPassed, Return, ChannelType, ThreadRecords
    <3>5. CASE ExitTimeout \/ Reap
      BY <1>0, <3>5 DEF ExitTimeout, Reap, ChannelType, ThreadRecords
    <3> QED BY <1>6, <3>1, <3>2, <3>3, <3>4, <3>5 DEF ExitStep
  <2> QED BY <1>1, <2>1, <2>2
<1> QED BY <1>2, <1>3, <1>4, <1>5, <1>6 DEF Next

\* The types are kept by every step.
LEMMA TypesKeep ==
  ASSUME ChannelType, ThreadsAt, [Next]_vars
  PROVE  ChannelType'
<1>1. CASE UNCHANGED vars
  BY <1>1 DEF vars, channel, ChannelType
<1>2. CASE (\E m \in Methods : Call(m)) \/ Exit
  <2>1. /\ "call" \in Threads /\ "exit" \in Threads
        /\ \E t \in Threads, m \in Methods \cup {"exit"} : Write(t, m) /\ UNCHANGED result
    BY <1>2 DEF Call, Exit, Threads
  <2> QED BY <2>1, WriteType
<1>3. CASE Rank0Step \/ ExitStep
  BY <1>3, Rank0Types
<1>4. CASE \E w \in Workers : WorkerStep(w)
  BY <1>4, WorkerTypes
<1> QED BY <1>1, <1>2, <1>3, <1>4 DEF Next

\* The invariant, whichever commands are skipped in the end.
ChannelInvariant == ChannelType /\ ThreadsAt /\ \A K : Consistent(K) => ChannelInv(K)

\* The channel works as the invariant says, for every number of workers and calls.
LEMMA ChannelInductive ==
  ~Forced => (Spec => []ChannelInvariant)
<1> SUFFICES ASSUME ~Forced PROVE Spec => []ChannelInvariant
  OBVIOUS
<1>1. Init => ChannelInvariant
  <2> SUFFICES ASSUME Init PROVE ChannelInvariant
    OBVIOUS
  <2>1. \A K : ChannelInv(K)
    BY InitKeeps
  <2>2. \E K : ChannelInv(K)
    BY <2>1
  <2>3. ChannelType /\ ThreadsAt
    BY <2>2 DEF ChannelInv, Rank0At, ThreadsAt
  <2> QED BY <2>1, <2>3 DEF ChannelInvariant
<1>2. ChannelInvariant /\ [Next]_vars => ChannelInvariant'
  <2> SUFFICES ASSUME ChannelInvariant, [Next]_vars PROVE ChannelInvariant'
    OBVIOUS
  <2>1. ChannelType' /\ ThreadsAt'
    BY ThreadsKeep, TypesKeep DEF ChannelInvariant
  <2>2. ASSUME NEW K, Consistent(K)' PROVE ChannelInv(K)'
    <3>1. Consistent(K)
      BY <2>2, ConsistentBefore DEF ChannelInvariant
    <3>2. ChannelInv(K)
      BY <3>1 DEF ChannelInvariant
    <3> QED BY <2>2, <3>2, ChannelStep
  <2> QED BY <2>1, <2>2 DEF ChannelInvariant
<1> QED BY <1>1, <1>2, PTL DEF Spec

\* Unless a rank has deserted a collective, nothing but what was skipped so far
\* needs to be skipped.
LEMMA NotDeserted ==
  ASSUME ChannelInvariant, ~Deserted
  PROVE  ChannelInv(skipped)
<1>1. Consistent(skipped)
  BY DEF Consistent, Deserted
<1> QED BY <1>1 DEF ChannelInvariant

\* read_shm: every worker takes up every command once and in order, although
\* synchronised calls do not wait for a read acknowledgement before the one
\* buffer is written again; until a rank raises in front of the collective of a
\* body that another rank has entered.
THEOREM CommandsInOrder == ~Forced => (Spec => []InOrder)
<1>1. ChannelInvariant => InOrder
  BY NotDeserted DEF ChannelInv, LogKept, InOrder
<1> QED BY <1>1, ChannelInductive, PTL

\* _sync_tp_host_status: an answer rank 0 finds behind a completion event is the
\* answer to the call it is in, never a late one to an earlier call; until a rank
\* raises in front of the collective of a body that another rank has entered.
THEOREM AnswersAreCurrent == ~Forced => (Spec => []StatusIsCurrent)
<1>1. ChannelInvariant => StatusIsCurrent
  <2> SUFFICES ASSUME ChannelInvariant, ~Deserted, thread["call"].pc = "status", NEW w \in Workers,
                      completion[w], w >= thread["call"].rank
               PROVE  status[w].of = thread["call"].id
    BY DEF StatusIsCurrent
  <2>0. ChannelInv(skipped)
    BY NotDeserted
  <2>1. Asked(w) /\ StatusKept(w)
    BY <2>0 DEF Asked, ChannelInv
  <2>2. thread["call"].id = Len(calls)
    BY <2>0 DEF ChannelInv, Rank0At
  <2> QED BY <2>1, <2>2 DEF StatusKept
<1> QED BY <1>1, ChannelInductive, PTL

\* call() with a synchronised status: when it returns normally on rank 0, the
\* method has raised on no worker; until a rank raises in front of the collective
\* of a body that another rank has entered.
THEOREM FailuresReachRank0 == ~Forced => (Spec => []FailureReported)
<1>1. ChannelInvariant => FailureReported
  <2> SUFFICES ASSUME ChannelInvariant, ~Deserted, NEW id \in 1..Len(calls), result[id] = "ok",
                      Sync(calls[id]) # "ack", NEW w \in Workers
               PROVE  id \notin failedAt[w]
    BY DEF FailureReported
  <2>0. ChannelType /\ Agreed /\ FailuresKept(w) /\ ResultsKept /\ 0 \in Ranks /\ w \in Ranks
    BY NotDeserted, RankFacts DEF ChannelInv
  <2>1. CASE Sync(calls[id]) = "host"
    BY <2>0, <2>1 DEF ResultsKept
  <2>2. CASE Sync(calls[id]) = "reduce"
    <3>1. PICK n \in 1..Len(entered[0]) : /\ Met(n) /\ ~Bad(n) /\ entered[0][n].id = id
                                          /\ entered[0][n].kind = "reduce"
      BY <2>0, <2>2 DEF ResultsKept
    <3>2. n \in 1..Len(entered[w]) /\ n \in 1..Len(entered[0]) /\ n <= Len(entered[w])
      BY <2>0, <3>1, FieldTypes DEF Met
    <3>3. entered[w][n].id = id /\ entered[w][n].kind = "reduce"
      BY <2>0, <3>1, <3>2 DEF Agreed
    <3>4. entered[w][n].flag # TRUE
      BY <2>0, <3>1 DEF Bad, Flags
    <3>5. entered[w][n].flag <=> id \in failedAt[w]
      BY <2>0, <3>2, <3>3 DEF FailuresKept
    <3>6. entered[w][n] \in Entries
      BY <2>0, <3>2, FieldTypes
    <3> QED BY <3>4, <3>5, <3>6 DEF Entries
  <2> QED BY <2>1, <2>2, SyncFacts
<1> QED BY <1>1, ChannelInductive, PTL

\* torch.distributed: all ranks enter the same collectives in the same order,
\* whatever raises on some of them or on all, until a rank raises in front of the
\* collective of a body that another rank has entered.
THEOREM RanksAgree == ~Forced => (Spec => []CollectivesMatch)
<1>1. ChannelInvariant => CollectivesMatch
  BY NotDeserted DEF ChannelInv, Agreed, CollectivesMatch
<1> QED BY <1>1, ChannelInductive, PTL

=============================================================================
