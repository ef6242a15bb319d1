-------------------------- MODULE DispatcherProofs --------------------------
(***************************************************************************)
(* Theorems about Dispatcher, for every set of requests, sequences and     *)
(* control calls and whatever may raise: what the engine runs is what the  *)
(* dispatcher holds active, no cancel is lost, an abort ends only the run  *)
(* of the request it names, and nothing follows the end of a stream.       *)
(*                                                                         *)
(* The invariant follows a request through its owners: its client, the     *)
(* queue, _admit, _active.  Each of them holds it only after the one       *)
(* before has let go, although the client, the thread and the callers of   *)
(* cancel and discard act at any time.                                     *)
(***************************************************************************)
EXTENDS Dispatcher, SequenceTheorems, TLAPS

\* The states of the callers and of the thread.
CallStates == {"new", "running", "checked", "flagged", "queued", "discarding",
               "dqueued", "danswered", "waiting", "left"}

\* The thread is in its loop; it leaves it for good.
LoopStates == {"controls", "aborts", "get", "drain", "admit", "enter", "recheck",
               "controls2", "aborts2", "step", "deltas", "finished"}

EndStates == {"mark", "fail_active", "fail_queued", "fail_controls", "fail_aborts", "dead"}

\* What the queues hold.
Items == Reqs \union {Wakeup, Stop}

Aborts == [req : Reqs, force : BOOLEAN]

DispatcherType ==
  /\ call \in [Reqs -> CallStates]
  /\ closer \in {"open", "closing", "closed"}
  /\ lock \in Reqs \union Ctls \union {NoReq}
  /\ cancelled \in [Reqs -> BOOLEAN]
  /\ terminal \in [Reqs -> BOOLEAN]
  /\ hasSeq \in [Reqs -> BOOLEAN]
  /\ admission \in [Reqs -> {"none", "ok", "error"}]
  /\ tokens \in [Reqs -> Nat]
  /\ ends \in [Reqs -> Nat]
  /\ pending \in Seq(Items)
  /\ aborts \in Seq(Aborts)
  /\ failed \in BOOLEAN
  /\ pc \in LoopStates \union EndStates
  /\ active \in [Seqs -> Reqs \union {NoReq}]
  /\ latest \in [Seqs -> Reqs \union {NoReq}]
  /\ engine \in [Seqs -> Reqs \union {NoReq}]
  /\ cur \in Reqs \union {NoReq}
  /\ fin \subseteq Seqs /\ outs \subseteq Seqs

\* The queue of the thread; a request is in it at most once.
Queued == {pending[i] : i \in DOMAIN pending}

\* The requests that the queue of aborts names.
Named == {aborts[i].req : i \in DOMAIN aborts}

QueuedOnce ==
  \A i, j \in DOMAIN pending : pending[i] = pending[j] /\ pending[i] \in Reqs => i = j

\* The engine and the clients have not heard of r yet.
Fresh(r) == ~hasSeq[r] /\ ~terminal[r] /\ ends[r] = 0

\* Where a request is before it runs: with its client, in the queue, in _admit.
BeforeRun ==
  /\ \A r \in Reqs : call[r] = "new" => Fresh(r) /\ r \notin Queued /\ r # cur
  /\ QueuedOnce
  /\ \A r \in Reqs \cap Queued : Fresh(r) /\ r # cur
  /\ cur # NoReq <=> pc \in {"admit", "enter", "recheck"}
  /\ pc \in {"admit", "enter"} => Fresh(cur)
  /\ pc = "recheck" => hasSeq[cur] /\ ~terminal[cur] /\ ends[cur] = 0

\* A request that runs is known to _active and to _latest under its sequence.
Running ==
  \A q \in Seqs : active[q] # NoReq =>
    /\ SeqOf[active[q]] = q /\ latest[q] = active[q]
    /\ hasSeq[active[q]] /\ ~terminal[active[q]] /\ ends[active[q]] = 0

\* What the engine runs, as long as the loop goes on.
Agreement ==
  /\ pc \in {"controls", "aborts", "get", "drain", "admit", "enter", "controls2", "aborts2", "step"}
       => engine = active
  /\ pc = "recheck" => /\ active[SeqOf[cur]] = NoReq
                       /\ engine = [active EXCEPT ![SeqOf[cur]] = cur]
  /\ pc \in {"deltas", "finished"} => \A q \in Seqs : q \notin fin => engine[q] = active[q]
  /\ pc \in {"deltas", "finished"} => \A q \in fin : engine[q] = NoReq
  /\ pc \in {"get", "fail_queued", "fail_controls", "fail_aborts", "dead"} => Active = {}
  /\ failed => pc \in EndStates

\* Who asks for an abort has been admitted and has raised his flag.
Asking ==
  /\ \A r \in Reqs :
       /\ call[r] \in {"flagged", "queued", "discarding", "dqueued", "danswered", "waiting"} => cancelled[r]
       /\ call[r] = "discarding" => hasSeq[r]
       /\ admission[r] = "ok" => hasSeq[r]
  /\ \A r \in Named : hasSeq[r] /\ cancelled[r]
  /\ lock \in Reqs => call[lock] \in {"dqueued", "danswered"}

\* The abort of a cancelled request that runs is on its way.
OnItsWay(r) ==
  \/ call[r] \in {"flagged", "discarding"}
  \/ r \in Named
  \/ Closing

CancelKept ==
  pc \in LoopStates =>
    \A q \in Seqs : active[q] # NoReq /\ cancelled[active[q]] => OnItsWay(active[q])

DispatcherInv ==
  /\ DispatcherType /\ BeforeRun /\ Running /\ Agreement /\ Asking /\ CancelKept

-----------------------------------------------------------------------------
(* The queues.                                                             *)

LEMMA PutPending ==
  ASSUME pending \in Seq(Items), NEW x \in Items, pending' = Append(pending, x)
  PROVE  /\ pending' \in Seq(Items)
         /\ Queued' = Queued \union {x}
         /\ QueuedOnce /\ (x \in Reqs => x \notin Queued) => QueuedOnce'
<1>1. /\ pending' \in Seq(Items) /\ Len(pending') = Len(pending) + 1
      /\ DOMAIN pending = 1..Len(pending) /\ DOMAIN pending' = 1..(Len(pending) + 1)
      /\ \A i \in 1..Len(pending) : pending'[i] = pending[i]
      /\ pending'[Len(pending) + 1] = x
      /\ Len(pending) \in Nat
  OBVIOUS
<1>2. Queued' = Queued \union {x}
  <2>1. ASSUME NEW y PROVE y \in Queued' => y \in Queued \union {x}
    BY <1>1, SMT DEF Queued
  <2>2. ASSUME NEW y PROVE y \in Queued \union {x} => y \in Queued'
    <3>1. \A i \in 1..Len(pending) : i \in 1..(Len(pending) + 1)
      BY <1>1, SMT
    <3>2. Len(pending) + 1 \in 1..(Len(pending) + 1)
      BY <1>1, SMT
    <3>3. QED BY <1>1, <3>1, <3>2 DEF Queued
  <2>3. QED BY <2>1, <2>2
<1>3. QueuedOnce /\ (x \in Reqs => x \notin Queued) => QueuedOnce'
  <2>1. SUFFICES ASSUME QueuedOnce, x \in Reqs => x \notin Queued,
                        NEW i \in DOMAIN pending', NEW j \in DOMAIN pending',
                        pending'[i] = pending'[j], pending'[i] \in Reqs
                 PROVE  i = j
    BY DEF QueuedOnce
  <2>2. \A k \in 1..Len(pending) : pending[k] \in Queued
    BY <1>1 DEF Queued
  <2>3. QED BY <1>1, <2>1, <2>2, SMT DEF QueuedOnce
<1>4. QED BY <1>1, <1>2, <1>3

LEMMA TakePending ==
  ASSUME pending \in Seq(Items), pending # <<>>, pending' = Tail(pending)
  PROVE  /\ pending' \in Seq(Items)
         /\ Head(pending) \in Items /\ Head(pending) \in Queued
         /\ Queued' \subseteq Queued
         /\ QueuedOnce => QueuedOnce' /\ (Head(pending) \in Reqs => Head(pending) \notin Queued')
<1>1. /\ pending' \in Seq(Items) /\ Len(pending') = Len(pending) - 1
      /\ DOMAIN pending = 1..Len(pending) /\ DOMAIN pending' = 1..(Len(pending) - 1)
      /\ \A i \in 1..(Len(pending) - 1) : pending'[i] = pending[i + 1]
      /\ Len(pending) \in Nat /\ Len(pending) >= 1
      /\ Head(pending) = pending[1]
  OBVIOUS
<1>2. Head(pending) \in Items /\ Head(pending) \in Queued
  BY <1>1, SMT DEF Queued
<1>3. Queued' \subseteq Queued
  BY <1>1, SMT DEF Queued
<1>4. ASSUME QueuedOnce
      PROVE  QueuedOnce' /\ (Head(pending) \in Reqs => Head(pending) \notin Queued')
  <2>1. QueuedOnce'
    BY <1>1, <1>4, SMT DEF QueuedOnce
  <2>2. ASSUME Head(pending) \in Reqs, Head(pending) \in Queued' PROVE FALSE
    <3>1. PICK i \in 1..(Len(pending) - 1) : pending[i + 1] = Head(pending)
      BY <1>1, <2>2 DEF Queued
    <3>2. i + 1 \in DOMAIN pending /\ 1 \in DOMAIN pending /\ i + 1 # 1
      BY <1>1, SMT
    <3>3. QED BY <1>1, <1>4, <2>2, <3>1, <3>2 DEF QueuedOnce
  <2>3. QED BY <2>1, <2>2
<1>5. QED BY <1>1, <1>2, <1>3, <1>4

LEMMA KeepPending ==
  ASSUME pending' = pending
  PROVE  Queued' = Queued /\ (QueuedOnce' <=> QueuedOnce)
BY DEF Queued, QueuedOnce

LEMMA PutAbort ==
  ASSUME aborts \in Seq(Aborts), NEW a \in Aborts, aborts' = Append(aborts, a)
  PROVE  aborts' \in Seq(Aborts) /\ Named' = Named \union {a.req}
<1>1. /\ aborts' \in Seq(Aborts) /\ Len(aborts') = Len(aborts) + 1
      /\ DOMAIN aborts = 1..Len(aborts) /\ DOMAIN aborts' = 1..(Len(aborts) + 1)
      /\ \A i \in 1..Len(aborts) : aborts'[i] = aborts[i]
      /\ aborts'[Len(aborts) + 1] = a
      /\ Len(aborts) \in Nat
  OBVIOUS
<1>2. ASSUME NEW y PROVE y \in Named' => y \in Named \union {a.req}
  BY <1>1, SMT DEF Named
<1>3. ASSUME NEW y PROVE y \in Named \union {a.req} => y \in Named'
  <2>1. \A i \in 1..Len(aborts) : i \in 1..(Len(aborts) + 1)
    BY <1>1, SMT
  <2>2. Len(aborts) + 1 \in 1..(Len(aborts) + 1)
    BY <1>1, SMT
  <2>3. QED BY <1>1, <2>1, <2>2 DEF Named
<1>4. QED BY <1>1, <1>2, <1>3

LEMMA TakeAbort ==
  ASSUME aborts \in Seq(Aborts), aborts # <<>>, aborts' = Tail(aborts)
  PROVE  /\ aborts' \in Seq(Aborts)
         /\ Head(aborts) \in Aborts
         /\ Head(aborts).req \in Reqs /\ Head(aborts).force \in BOOLEAN
         /\ Named = {Head(aborts).req} \union Named'
<1>1. /\ aborts' \in Seq(Aborts) /\ Len(aborts') = Len(aborts) - 1
      /\ DOMAIN aborts = 1..Len(aborts) /\ DOMAIN aborts' = 1..(Len(aborts) - 1)
      /\ \A i \in 1..(Len(aborts) - 1) : aborts'[i] = aborts[i + 1]
      /\ Len(aborts) \in Nat /\ Len(aborts) >= 1
      /\ Head(aborts) = aborts[1]
  OBVIOUS
<1>2. Head(aborts) \in Aborts
  BY <1>1, SMT
<1>3. ASSUME NEW y PROVE y \in Named => y \in {Head(aborts).req} \union Named'
  <2>1. SUFFICES ASSUME NEW i \in 1..Len(aborts), i # 1
                 PROVE  aborts[i].req \in Named'
    BY <1>1 DEF Named
  <2>2. i - 1 \in 1..(Len(aborts) - 1) /\ (i - 1) + 1 = i
    BY <1>1, <2>1, SMT
  <2>3. aborts'[i - 1] = aborts[i]
    BY <1>1, <2>2
  <2>4. QED BY <1>1, <2>2, <2>3 DEF Named
<1>4. ASSUME NEW y PROVE y \in {Head(aborts).req} \union Named' => y \in Named
  BY <1>1, SMT DEF Named
<1>5. QED BY <1>1, <1>2, <1>3, <1>4 DEF Aborts

LEMMA KeepAborts ==
  ASSUME aborts' = aborts
  PROVE  Named' = Named
BY DEF Named

-----------------------------------------------------------------------------
(* Parts of the invariant that a step leaves alone.                        *)

LEMMA BeforeRunKept ==
  ASSUME BeforeRun, UNCHANGED <<hasSeq, terminal, ends, pc, cur, pending>>,
         \A r \in Reqs : call'[r] = "new" => call[r] = "new"
  PROVE  BeforeRun'
BY KeepPending DEF BeforeRun, Fresh

LEMMA RunningKept ==
  ASSUME Running, UNCHANGED <<active, latest, hasSeq, terminal, ends>>
  PROVE  Running'
BY DEF Running

LEMMA AgreementKept ==
  ASSUME Agreement, UNCHANGED <<pc, engine, active, cur, fin, failed>>
  PROVE  Agreement'
BY DEF Agreement, Active

LEMMA AskingKept ==
  ASSUME Asking, UNCHANGED <<call, hasSeq, admission, aborts, cancelled, lock>>
  PROVE  Asking'
BY KeepAborts DEF Asking

LEMMA CancelKeptKept ==
  ASSUME CancelKept, UNCHANGED <<pc, active, cancelled, call, aborts, closer>>
  PROVE  CancelKept'
BY KeepAborts DEF CancelKept, OnItsWay, Closing

-----------------------------------------------------------------------------
(* What the steps of the thread do to a request.                           *)

\* _resolve_abort touches only a discard that waits.
LEMMA ResolveEffect ==
  ASSUME NEW a, ResolveAbort(a)
  PROVE  \E v : /\ call' = [call EXCEPT ![a.req] = v]
                /\ <<call[a.req], v>> \in {<<"dqueued", "danswered">>, <<"waiting", "left">>} \/ v = call[a.req]
<1>1. PICK v : v = CASE a.force /\ call[a.req] = "dqueued" -> "danswered"
                     [] a.force /\ call[a.req] = "waiting" -> "left"
                     [] OTHER -> call[a.req]
  OBVIOUS
<1>2. call' = [call EXCEPT ![a.req] = v]
  BY <1>1 DEF ResolveAbort
<1>3. <<call[a.req], v>> \in {<<"dqueued", "danswered">>, <<"waiting", "left">>} \/ v = call[a.req]
  BY <1>1
<1>4. QED BY <1>2, <1>3

\* A request is refused in _admit.
LEMMA RefuseEffect ==
  ASSUME ends \in [Reqs -> Nat], NEW r \in Reqs, NEW e \in BOOLEAN, Refuse(r, e)
  PROVE  /\ terminal' = [terminal EXCEPT ![r] = TRUE]
         /\ admission' = [admission EXCEPT ![r] = "error"]
         /\ ends' \in [Reqs -> Nat] /\ \A x \in Reqs : x # r => ends'[x] = ends[x]
         /\ pc' = "drain" /\ cur' = NoReq
<1>1. CASE e
  BY <1>1 DEF Refuse, ResolveAdmission, PutEnd, Goto
<1>2. CASE ~e
  BY <1>2 DEF Refuse, ResolveAdmission, PutEnd, Goto
<1>3. QED BY <1>1, <1>2

\* A submitted request goes to the queue, or is answered at once.
LEMMA SubmitStep ==
  ASSUME DispatcherInv, NEW r \in Reqs, Submit(r)
  PROVE  DispatcherInv'
<1>1. DispatcherType /\ BeforeRun /\ Running /\ Agreement /\ Asking /\ CancelKept
  BY DEF DispatcherInv
<1>2. pending' = Append(pending, r) =>
        pending' \in Seq(Items) /\ Queued' = Queued \union {r} /\ QueuedOnce'
  <2>1. pending \in Seq(Items) /\ QueuedOnce /\ r \in Items /\ (r \in Reqs => r \notin Queued)
    BY <1>1, DispatcherAssumption DEF DispatcherType, BeforeRun, Items, Submit
  <2>2. QED BY <2>1, PutPending DEF Submit
<1>3. CASE Unavailable
  <2>1. /\ call' = [call EXCEPT ![r] = "running"]
        /\ terminal' = [terminal EXCEPT ![r] = TRUE]
        /\ admission' = [admission EXCEPT ![r] = "error"]
        /\ ends' = [ends EXCEPT ![r] = @ + 1]
        /\ call[r] = "new"
        /\ UNCHANGED <<closer, lock, cancelled, hasSeq, tokens, pending, aborts, failed,
                        pc, active, latest, cur, outs, fin, engine>>
    BY <1>3 DEF Submit, PutEnd, callerVars, handleVars, queueVars, threadVars
  <2>2. DispatcherType'
    BY <1>1, <2>1 DEF DispatcherType, CallStates
  <2>3. BeforeRun'
    BY <1>1, <2>1, KeepPending DEF DispatcherType, BeforeRun, Fresh
  <2>4. Running'
    BY <1>1, <2>1 DEF BeforeRun, Fresh, Running
  <2>5. Agreement'
    BY <1>1, <2>1, AgreementKept
  <2>6. Asking'
    BY <1>1, <2>1, KeepAborts DEF Asking
  <2>7. CancelKept'
    BY <1>1, <2>1, KeepAborts DEF CancelKept, OnItsWay, Closing
  <2>8. QED BY <2>2, <2>3, <2>4, <2>5, <2>6, <2>7 DEF DispatcherInv
<1>4. CASE ~Unavailable
  <2>1. /\ call' = [call EXCEPT ![r] = "running"]
        /\ pending' = Append(pending, r)
        /\ call[r] = "new"
        /\ UNCHANGED <<closer, lock, cancelled, terminal, hasSeq, admission, tokens, ends,
                        aborts, failed, pc, active, latest, cur, outs, fin, engine>>
    BY <1>4 DEF Submit, PutEnd, callerVars, handleVars, queueVars, threadVars
  <2>2. DispatcherType'
    BY <1>1, <1>2, <2>1 DEF DispatcherType, CallStates
  <2>3. BeforeRun'
    BY <1>1, <1>2, <2>1 DEF DispatcherType, BeforeRun, Fresh
  <2>4. Running'
    BY <1>1, <2>1, RunningKept
  <2>5. Agreement'
    BY <1>1, <2>1, AgreementKept
  <2>6. Asking'
    BY <1>1, <2>1, KeepAborts DEF Asking
  <2>7. CancelKept'
    BY <1>1, <2>1, KeepAborts DEF CancelKept, OnItsWay, Closing
  <2>8. QED BY <2>2, <2>3, <2>4, <2>5, <2>6, <2>7 DEF DispatcherInv
<1>5. QED BY <1>3, <1>4

LEMMA CancelCheckStep ==
  ASSUME DispatcherInv, NEW r \in Reqs, CancelCheck(r)
  PROVE  DispatcherInv'
<1>1. DispatcherType /\ BeforeRun /\ Running /\ Agreement /\ Asking /\ CancelKept
  BY DEF DispatcherInv
<1>2. /\ call' = [call EXCEPT ![r] = IF terminal[r] THEN "left" ELSE "checked"]
      /\ call[r] = "running"
      /\ UNCHANGED <<closer, lock, cancelled, terminal, hasSeq, admission, tokens, ends,
                      pending, aborts, failed, pc, active, latest, cur, outs, fin, engine>>
  BY DEF CancelCheck, callerVars, handleVars, queueVars, threadVars
<1>3. DispatcherType'
  BY <1>1, <1>2 DEF DispatcherType, CallStates
<1>4. BeforeRun'
  BY <1>1, <1>2, BeforeRunKept DEF DispatcherType
<1>5. Running'
  BY <1>1, <1>2, RunningKept
<1>6. Agreement'
  BY <1>1, <1>2, AgreementKept
<1>7. Asking'
  BY <1>1, <1>2, KeepAborts DEF Asking
<1>8. CancelKept'
  BY <1>1, <1>2, KeepAborts DEF CancelKept, OnItsWay, Closing
<1>9. QED BY <1>3, <1>4, <1>5, <1>6, <1>7, <1>8 DEF DispatcherInv

LEMMA CancelFlagStep ==
  ASSUME DispatcherInv, NEW r \in Reqs, CancelFlag(r)
  PROVE  DispatcherInv'
<1>1. DispatcherType /\ BeforeRun /\ Running /\ Agreement /\ Asking /\ CancelKept
  BY DEF DispatcherInv
<1>2. /\ call' = [call EXCEPT ![r] = "flagged"]
      /\ cancelled' = [cancelled EXCEPT ![r] = TRUE]
      /\ call[r] = "checked"
      /\ UNCHANGED <<closer, lock, terminal, hasSeq, admission, tokens, ends, pending,
                      aborts, failed, pc, active, latest, cur, outs, fin, engine>>
  BY DEF CancelFlag, callerVars, handleVars, queueVars, threadVars
<1>3. DispatcherType'
  BY <1>1, <1>2 DEF DispatcherType, CallStates
<1>4. BeforeRun'
  BY <1>1, <1>2, BeforeRunKept DEF DispatcherType
<1>5. Running'
  BY <1>1, <1>2, RunningKept
<1>6. Agreement'
  BY <1>1, <1>2, AgreementKept
<1>7. Asking'
  BY <1>1, <1>2, KeepAborts DEF DispatcherType, Asking
<1>8. CancelKept'
  BY <1>1, <1>2, KeepAborts DEF DispatcherType, CancelKept, OnItsWay, Closing
<1>9. QED BY <1>3, <1>4, <1>5, <1>6, <1>7, <1>8 DEF DispatcherInv

\* A cancel that finds no sequence id names a request that does not run yet.
LEMMA CancelPutStep ==
  ASSUME DispatcherInv, NEW r \in Reqs, CancelPut(r)
  PROVE  DispatcherInv'
<1>1. DispatcherType /\ BeforeRun /\ Running /\ Agreement /\ Asking /\ CancelKept
  BY DEF DispatcherInv
<1>2. aborts' = Append(aborts, [req |-> r, force |-> FALSE]) => aborts' \in Seq(Aborts) /\ Named' = Named \union {r}
  <2>1. aborts \in Seq(Aborts) /\ [req |-> r, force |-> FALSE] \in Aborts /\ [req |-> r, force |-> FALSE].req = r
    BY <1>1 DEF DispatcherType, Aborts
  <2>2. QED BY <2>1, PutAbort
<1>3. CASE hasSeq[r]
  <2>1. /\ call' = [call EXCEPT ![r] = "queued"]
        /\ aborts' = Append(aborts, [req |-> r, force |-> FALSE])
        /\ call[r] = "flagged" /\ hasSeq[r]
        /\ UNCHANGED <<closer, lock, cancelled, terminal, hasSeq, admission, tokens, ends,
                        pending, failed, pc, active, latest, cur, outs, fin, engine>>
    BY <1>3 DEF CancelPut, callerVars, handleVars, queueVars, threadVars
  <2>2. DispatcherType'
    BY <1>1, <1>2, <2>1 DEF DispatcherType, CallStates
  <2>3. BeforeRun'
    BY <1>1, <2>1, BeforeRunKept DEF DispatcherType
  <2>4. Running'
    BY <1>1, <2>1, RunningKept
  <2>5. Agreement'
    BY <1>1, <2>1, AgreementKept
  <2>6. Asking'
    BY <1>1, <1>2, <2>1 DEF Asking
  <2>7. CancelKept'
    BY <1>1, <1>2, <2>1 DEF CancelKept, OnItsWay, Closing
  <2>8. QED BY <2>2, <2>3, <2>4, <2>5, <2>6, <2>7 DEF DispatcherInv
<1>4. CASE ~hasSeq[r]
  <2>1. /\ call' = [call EXCEPT ![r] = "left"]
        /\ call[r] = "flagged" /\ ~hasSeq[r]
        /\ UNCHANGED <<closer, lock, cancelled, terminal, hasSeq, admission, tokens, ends,
                        pending, aborts, failed, pc, active, latest, cur, outs, fin, engine>>
    BY <1>4 DEF CancelPut, callerVars, handleVars, queueVars, threadVars
  <2>2. DispatcherType'
    BY <1>1, <2>1 DEF DispatcherType, CallStates
  <2>3. BeforeRun'
    BY <1>1, <2>1, BeforeRunKept DEF DispatcherType
  <2>4. Running'
    BY <1>1, <2>1, RunningKept
  <2>5. Agreement'
    BY <1>1, <2>1, AgreementKept
  <2>6. Asking'
    BY <1>1, <2>1, KeepAborts DEF Asking
  <2>7. CancelKept'
    BY <1>1, <2>1, KeepAborts DEF Running, CancelKept, OnItsWay, Closing
  <2>8. QED BY <2>2, <2>3, <2>4, <2>5, <2>6, <2>7 DEF DispatcherInv
<1>5. QED BY <1>3, <1>4

LEMMA CancelWakeStep ==
  ASSUME DispatcherInv, NEW r \in Reqs, CancelWake(r)
  PROVE  DispatcherInv'
<1>1. DispatcherType /\ BeforeRun /\ Running /\ Agreement /\ Asking /\ CancelKept
  BY DEF DispatcherInv
<1>2. pending' \in Seq(Items) /\ Queued' = Queued \union {Wakeup} /\ QueuedOnce'
  <2>1. pending \in Seq(Items) /\ QueuedOnce /\ Wakeup \in Items /\ (Wakeup \in Reqs => Wakeup \notin Queued)
    BY <1>1, DispatcherAssumption DEF DispatcherType, BeforeRun, Items, CancelWake
  <2>2. QED BY <2>1, PutPending DEF CancelWake
<1>3. /\ call' = [call EXCEPT ![r] = "left"]
      /\ call[r] = "queued"
      /\ UNCHANGED <<closer, lock, cancelled, terminal, hasSeq, admission, tokens, ends,
                      aborts, failed, pc, active, latest, cur, outs, fin, engine>>
  BY DEF CancelWake, callerVars, handleVars, queueVars, threadVars
<1>4. DispatcherType'
  BY <1>1, <1>2, <1>3 DEF DispatcherType, CallStates
<1>5. BeforeRun'
  BY <1>1, <1>2, <1>3, DispatcherAssumption DEF BeforeRun, Fresh
<1>6. Running'
  BY <1>1, <1>3, RunningKept
<1>7. Agreement'
  BY <1>1, <1>3, AgreementKept
<1>8. Asking'
  BY <1>1, <1>3, KeepAborts DEF Asking
<1>9. CancelKept'
  BY <1>1, <1>3, KeepAborts DEF CancelKept, OnItsWay, Closing
<1>10. QED BY <1>4, <1>5, <1>6, <1>7, <1>8, <1>9 DEF DispatcherInv

LEMMA DiscardFlagStep ==
  ASSUME DispatcherInv, NEW r \in Reqs, DiscardFlag(r)
  PROVE  DispatcherInv'
<1>1. DispatcherType /\ BeforeRun /\ Running /\ Agreement /\ Asking /\ CancelKept
  BY DEF DispatcherInv
<1>2. /\ call' = [call EXCEPT ![r] = "discarding"]
      /\ cancelled' = [cancelled EXCEPT ![r] = TRUE]
      /\ call[r] = "running" /\ admission[r] = "ok"
      /\ UNCHANGED <<closer, lock, terminal, hasSeq, admission, tokens, ends, pending,
                      aborts, failed, pc, active, latest, cur, outs, fin, engine>>
  BY DEF DiscardFlag, callerVars, handleVars, queueVars, threadVars
<1>3. DispatcherType'
  BY <1>1, <1>2 DEF DispatcherType, CallStates
<1>4. BeforeRun'
  BY <1>1, <1>2, BeforeRunKept DEF DispatcherType
<1>5. Running'
  BY <1>1, <1>2, RunningKept
<1>6. Agreement'
  BY <1>1, <1>2, AgreementKept
<1>7. Asking'
  BY <1>1, <1>2, KeepAborts DEF DispatcherType, Asking
<1>8. CancelKept'
  BY <1>1, <1>2, KeepAborts DEF DispatcherType, CancelKept, OnItsWay, Closing
<1>9. QED BY <1>3, <1>4, <1>5, <1>6, <1>7, <1>8 DEF DispatcherInv

\* A discard is refused only once the server closes: a thread that failed has left its loop.
LEMMA DiscardPutStep ==
  ASSUME DispatcherInv, NEW r \in Reqs, DiscardPut(r)
  PROVE  DispatcherInv'
<1>1. DispatcherType /\ BeforeRun /\ Running /\ Agreement /\ Asking /\ CancelKept
  BY DEF DispatcherInv
<1>2. aborts' = Append(aborts, [req |-> r, force |-> TRUE]) => aborts' \in Seq(Aborts) /\ Named' = Named \union {r}
  <2>1. aborts \in Seq(Aborts) /\ [req |-> r, force |-> TRUE] \in Aborts /\ [req |-> r, force |-> TRUE].req = r
    BY <1>1 DEF DispatcherType, Aborts
  <2>2. QED BY <2>1, PutAbort
<1>3. CASE failed \/ Closing
  <2>1. /\ call' = [call EXCEPT ![r] = "left"]
        /\ call[r] = "discarding"
        /\ failed \/ Closing
        /\ UNCHANGED <<closer, lock, cancelled, terminal, hasSeq, admission, tokens, ends,
                        pending, aborts, failed, pc, active, latest, cur, outs, fin, engine>>
    BY <1>3 DEF DiscardPut, Unavailable, callerVars, handleVars, queueVars, threadVars
  <2>2. DispatcherType'
    BY <1>1, <2>1 DEF DispatcherType, CallStates
  <2>3. BeforeRun'
    BY <1>1, <2>1, BeforeRunKept DEF DispatcherType
  <2>4. Running'
    BY <1>1, <2>1, RunningKept
  <2>5. Agreement'
    BY <1>1, <2>1, AgreementKept
  <2>6. Asking'
    BY <1>1, <2>1, KeepAborts DEF Asking
  <2>7. CancelKept'
    BY <1>1, <2>1 DEF LoopStates, EndStates, Agreement, CancelKept, OnItsWay, Closing
  <2>8. QED BY <2>2, <2>3, <2>4, <2>5, <2>6, <2>7 DEF DispatcherInv
<1>4. CASE ~(failed \/ Closing)
  <2>1. /\ call' = [call EXCEPT ![r] = "dqueued"]
        /\ lock' = r
        /\ aborts' = Append(aborts, [req |-> r, force |-> TRUE])
        /\ call[r] = "discarding"
        /\ UNCHANGED <<closer, cancelled, terminal, hasSeq, admission, tokens, ends,
                        pending, failed, pc, active, latest, cur, outs, fin, engine>>
    BY <1>4 DEF DiscardPut, Unavailable, callerVars, handleVars, queueVars, threadVars
  <2>2. DispatcherType'
    BY <1>1, <1>2, <2>1 DEF DispatcherType, CallStates
  <2>3. BeforeRun'
    BY <1>1, <2>1, BeforeRunKept DEF DispatcherType
  <2>4. Running'
    BY <1>1, <2>1, RunningKept
  <2>5. Agreement'
    BY <1>1, <2>1, AgreementKept
  <2>6. Asking'
    BY <1>1, <1>2, <2>1 DEF DispatcherType, Asking
  <2>7. CancelKept'
    BY <1>1, <1>2, <2>1 DEF CancelKept, OnItsWay, Closing
  <2>8. QED BY <2>2, <2>3, <2>4, <2>5, <2>6, <2>7 DEF DispatcherInv
<1>5. QED BY <1>3, <1>4

LEMMA DiscardWakeStep ==
  ASSUME DispatcherInv, NEW r \in Reqs, DiscardWake(r)
  PROVE  DispatcherInv'
<1>1. DispatcherType /\ BeforeRun /\ Running /\ Agreement /\ Asking /\ CancelKept
  BY DEF DispatcherInv
<1>2. pending' \in Seq(Items) /\ Queued' = Queued \union {Wakeup} /\ QueuedOnce'
  <2>1. pending \in Seq(Items) /\ QueuedOnce /\ Wakeup \in Items /\ (Wakeup \in Reqs => Wakeup \notin Queued)
    BY <1>1, DispatcherAssumption DEF DispatcherType, BeforeRun, Items, DiscardWake
  <2>2. QED BY <2>1, PutPending DEF DiscardWake
<1>3. /\ call' = [call EXCEPT ![r] = IF @ = "dqueued" THEN "waiting" ELSE "left"]
      /\ lock' = NoReq
      /\ lock = r
      /\ UNCHANGED <<closer, cancelled, terminal, hasSeq, admission, tokens, ends, aborts,
                      failed, pc, active, latest, cur, outs, fin, engine>>
  BY DEF DiscardWake, callerVars, handleVars, queueVars, threadVars
<1>4. DispatcherType'
  BY <1>1, <1>2, <1>3 DEF DispatcherType, CallStates
<1>5. BeforeRun'
  BY <1>1, <1>2, <1>3, DispatcherAssumption DEF BeforeRun, Fresh
<1>6. Running'
  BY <1>1, <1>3, RunningKept
<1>7. Agreement'
  BY <1>1, <1>3, AgreementKept
<1>8. Asking'
  BY <1>1, <1>3, DispatcherAssumption, KeepAborts DEF Asking
<1>9. CancelKept'
  BY <1>1, <1>3, KeepAborts DEF Asking, CancelKept, OnItsWay, Closing
<1>10. QED BY <1>4, <1>5, <1>6, <1>7, <1>8, <1>9 DEF DispatcherInv

LEMMA DiscardTimeoutStep ==
  ASSUME DispatcherInv, NEW r \in Reqs, DiscardTimeout(r)
  PROVE  DispatcherInv'
<1>1. DispatcherType /\ BeforeRun /\ Running /\ Agreement /\ Asking /\ CancelKept
  BY DEF DispatcherInv
<1>2. /\ call' = [call EXCEPT ![r] = "left"]
      /\ call[r] = "waiting"
      /\ UNCHANGED <<closer, lock, cancelled, terminal, hasSeq, admission, tokens, ends,
                      pending, aborts, failed, pc, active, latest, cur, outs, fin, engine>>
  BY DEF DiscardTimeout, callerVars, handleVars, queueVars, threadVars
<1>3. DispatcherType'
  BY <1>1, <1>2 DEF DispatcherType, CallStates
<1>4. BeforeRun'
  BY <1>1, <1>2, BeforeRunKept DEF DispatcherType
<1>5. Running'
  BY <1>1, <1>2, RunningKept
<1>6. Agreement'
  BY <1>1, <1>2, AgreementKept
<1>7. Asking'
  BY <1>1, <1>2, KeepAborts DEF Asking
<1>8. CancelKept'
  BY <1>1, <1>2, KeepAborts DEF CancelKept, OnItsWay, Closing
<1>9. QED BY <1>3, <1>4, <1>5, <1>6, <1>7, <1>8 DEF DispatcherInv

LEMMA ControlPutStep ==
  ASSUME DispatcherInv, NEW c \in Ctls, ControlPut(c)
  PROVE  DispatcherInv'
<1>1. DispatcherType /\ BeforeRun /\ Running /\ Agreement /\ Asking /\ CancelKept
  BY DEF DispatcherInv
<1>2. /\ lock' \in {lock, c}
      /\ UNCHANGED <<call, closer, cancelled, terminal, hasSeq, admission, tokens, ends,
                      pending, aborts, failed, pc, active, latest, cur, outs, fin, engine>>
  BY DEF ControlPut, callerVars, handleVars, queueVars, threadVars
<1>3. DispatcherType'
  BY <1>1, <1>2 DEF DispatcherType
<1>4. BeforeRun'
  BY <1>1, <1>2, BeforeRunKept
<1>5. Running'
  BY <1>1, <1>2, RunningKept
<1>6. Agreement'
  BY <1>1, <1>2, AgreementKept
<1>7. Asking'
  BY <1>1, <1>2, DispatcherAssumption, KeepAborts DEF Asking
<1>8. CancelKept'
  BY <1>1, <1>2, CancelKeptKept
<1>9. QED BY <1>3, <1>4, <1>5, <1>6, <1>7, <1>8 DEF DispatcherInv

LEMMA ControlWakeStep ==
  ASSUME DispatcherInv, NEW c \in Ctls, ControlWake(c)
  PROVE  DispatcherInv'
<1>1. DispatcherType /\ BeforeRun /\ Running /\ Agreement /\ Asking /\ CancelKept
  BY DEF DispatcherInv
<1>2. pending' \in Seq(Items) /\ Queued' = Queued \union {Wakeup} /\ QueuedOnce'
  <2>1. pending \in Seq(Items) /\ QueuedOnce /\ Wakeup \in Items /\ (Wakeup \in Reqs => Wakeup \notin Queued)
    BY <1>1, DispatcherAssumption DEF DispatcherType, BeforeRun, Items, ControlWake
  <2>2. QED BY <2>1, PutPending DEF ControlWake
<1>3. /\ lock' = NoReq
      /\ UNCHANGED <<call, closer, cancelled, terminal, hasSeq, admission, tokens, ends,
                      aborts, failed, pc, active, latest, cur, outs, fin, engine>>
  BY DEF ControlWake, callerVars, handleVars, queueVars, threadVars
<1>4. DispatcherType'
  BY <1>1, <1>2, <1>3 DEF DispatcherType
<1>5. BeforeRun'
  BY <1>1, <1>2, <1>3, DispatcherAssumption DEF BeforeRun, Fresh
<1>6. Running'
  BY <1>1, <1>3, RunningKept
<1>7. Agreement'
  BY <1>1, <1>3, AgreementKept
<1>8. Asking'
  BY <1>1, <1>3, DispatcherAssumption, KeepAborts DEF Asking
<1>9. CancelKept'
  BY <1>1, <1>3, CancelKeptKept
<1>10. QED BY <1>4, <1>5, <1>6, <1>7, <1>8, <1>9 DEF DispatcherInv

LEMMA CloseFlagStep ==
  ASSUME DispatcherInv, CloseFlag
  PROVE  DispatcherInv'
<1>1. DispatcherType /\ BeforeRun /\ Running /\ Agreement /\ Asking /\ CancelKept
  BY DEF DispatcherInv
<1>2. /\ closer' = "closing"
      /\ UNCHANGED <<call, lock, cancelled, terminal, hasSeq, admission, tokens, ends,
                      pending, aborts, failed, pc, active, latest, cur, outs, fin, engine>>
  BY DEF CloseFlag, callerVars, handleVars, queueVars, threadVars
<1>3. DispatcherType'
  BY <1>1, <1>2 DEF DispatcherType
<1>4. BeforeRun'
  BY <1>1, <1>2, BeforeRunKept
<1>5. Running'
  BY <1>1, <1>2, RunningKept
<1>6. Agreement'
  BY <1>1, <1>2, AgreementKept
<1>7. Asking'
  BY <1>1, <1>2, AskingKept
<1>8. CancelKept'
  BY <1>1, <1>2 DEF CancelKept, OnItsWay, Closing
<1>9. QED BY <1>3, <1>4, <1>5, <1>6, <1>7, <1>8 DEF DispatcherInv

LEMMA CloseStopStep ==
  ASSUME DispatcherInv, CloseStop
  PROVE  DispatcherInv'
<1>1. DispatcherType /\ BeforeRun /\ Running /\ Agreement /\ Asking /\ CancelKept
  BY DEF DispatcherInv
<1>2. pending' \in Seq(Items) /\ Queued' = Queued \union {Stop} /\ QueuedOnce'
  <2>1. pending \in Seq(Items) /\ QueuedOnce /\ Stop \in Items /\ (Stop \in Reqs => Stop \notin Queued)
    BY <1>1, DispatcherAssumption DEF DispatcherType, BeforeRun, Items, CloseStop
  <2>2. QED BY <2>1, PutPending DEF CloseStop
<1>3. /\ closer' = "closed"
      /\ UNCHANGED <<call, lock, cancelled, terminal, hasSeq, admission, tokens, ends,
                      aborts, failed, pc, active, latest, cur, outs, fin, engine>>
  BY DEF CloseStop, callerVars, handleVars, queueVars, threadVars
<1>4. DispatcherType'
  BY <1>1, <1>2, <1>3 DEF DispatcherType
<1>5. BeforeRun'
  BY <1>1, <1>2, <1>3, DispatcherAssumption DEF BeforeRun, Fresh
<1>6. Running'
  BY <1>1, <1>3, RunningKept
<1>7. Agreement'
  BY <1>1, <1>3, AgreementKept
<1>8. Asking'
  BY <1>1, <1>3, AskingKept
<1>9. CancelKept'
  BY <1>1, <1>3 DEF CancelKept, OnItsWay, Closing
<1>10. QED BY <1>4, <1>5, <1>6, <1>7, <1>8, <1>9 DEF DispatcherInv

LEMMA DrainControlStep ==
  ASSUME DispatcherInv, DrainControl
  PROVE  DispatcherInv'
<1>1. DispatcherType /\ BeforeRun /\ Running /\ Agreement /\ Asking /\ CancelKept
  BY DEF DispatcherInv
<1>2. /\ pc' \in {pc, "mark"}
      /\ pc \in {"controls", "controls2"}
      /\ UNCHANGED <<call, closer, lock, cancelled, terminal, hasSeq, admission, tokens,
                      ends, pending, aborts, failed, active, latest, cur, outs, fin, engine>>
  BY DEF DrainControl, Goto, idleThread, callerVars, handleVars, queueVars, threadVars
<1>3. DispatcherType'
  BY <1>1, <1>2 DEF DispatcherType, EndStates
<1>4. BeforeRun'
  BY <1>1, <1>2, KeepPending DEF BeforeRun, Fresh
<1>5. Running'
  BY <1>1, <1>2, RunningKept
<1>6. Agreement'
  BY <1>1, <1>2 DEF EndStates, Agreement
<1>7. Asking'
  BY <1>1, <1>2, AskingKept
<1>8. CancelKept'
  BY <1>1, <1>2, KeepAborts DEF LoopStates, CancelKept, OnItsWay, Closing
<1>9. QED BY <1>3, <1>4, <1>5, <1>6, <1>7, <1>8 DEF DispatcherInv

LEMMA EndControlsStep ==
  ASSUME DispatcherInv, EndControls
  PROVE  DispatcherInv'
<1>1. DispatcherType /\ BeforeRun /\ Running /\ Agreement /\ Asking /\ CancelKept
  BY DEF DispatcherInv
<1>2. /\ pc' \in {"aborts", "aborts2", "mark"}
      /\ pc \in {"controls", "controls2"}
      /\ UNCHANGED <<call, closer, lock, cancelled, terminal, hasSeq, admission, tokens,
                      ends, pending, aborts, failed, active, latest, cur, outs, fin, engine>>
  BY DEF EndControls, Goto, idleThread, callerVars, handleVars, queueVars, threadVars
<1>3. DispatcherType'
  BY <1>1, <1>2 DEF DispatcherType, LoopStates, EndStates
<1>4. BeforeRun'
  BY <1>1, <1>2, KeepPending DEF BeforeRun, Fresh
<1>5. Running'
  BY <1>1, <1>2, RunningKept
<1>6. Agreement'
  BY <1>1, <1>2 DEF EndStates, Agreement
<1>7. Asking'
  BY <1>1, <1>2, AskingKept
<1>8. CancelKept'
  BY <1>1, <1>2, KeepAborts DEF LoopStates, CancelKept, OnItsWay, Closing
<1>9. QED BY <1>3, <1>4, <1>5, <1>6, <1>7, <1>8 DEF DispatcherInv

\* An abort that is skipped names a request that has ended.
LEMMA AbortSkippedStep ==
  ASSUME DispatcherInv, AbortSkipped
  PROVE  DispatcherInv'
<1>1. DispatcherType /\ BeforeRun /\ Running /\ Agreement /\ Asking /\ CancelKept
  BY DEF DispatcherInv
<1>2. /\ aborts' \in Seq(Aborts) /\ Head(aborts) \in Aborts
      /\ Head(aborts).req \in Reqs /\ Named = {Head(aborts).req} \union Named'
  BY <1>1, TakeAbort DEF DispatcherType, AbortSkipped, PopAbort
<1>3. PICK a, r, q : a = Head(aborts) /\ r = a.req /\ q = SeqOf[r]
  OBVIOUS
<1>4. r \in Reqs /\ q \in Seqs /\ hasSeq[r] /\ cancelled[r] /\ engine = active
  BY <1>1, <1>2, <1>3, DispatcherAssumption DEF Asking, Agreement, PopAbort, AbortSkipped
<1>5. \A p \in Seqs : active[p] # r
  BY <1>1, <1>3, <1>4, DispatcherAssumption DEF Running, AbortSkipped, SkipAbort
<1>6. /\ pc \in {"aborts", "aborts2"}
      /\ UNCHANGED <<call, closer, lock, cancelled, terminal, hasSeq, admission, tokens,
                      ends, pending, failed, pc, active, latest, cur, outs, fin, engine>>
  BY DEF AbortSkipped, PopAbort, callerVars, handleVars, queueVars, threadVars
<1>7. DispatcherType'
  BY <1>1, <1>2, <1>6 DEF DispatcherType
<1>8. BeforeRun'
  BY <1>1, <1>6, BeforeRunKept
<1>9. Running'
  BY <1>1, <1>6, RunningKept
<1>10. Agreement'
  BY <1>1, <1>6, AgreementKept
<1>11. Asking'
  BY <1>1, <1>2, <1>6 DEF Asking
<1>12. CancelKept'
  BY <1>1, <1>2, <1>3, <1>5, <1>6 DEF CancelKept, OnItsWay, Closing
<1>13. QED BY <1>7, <1>8, <1>9, <1>10, <1>11, <1>12 DEF DispatcherInv

\* A stale abort names a request that does not run.
LEMMA AbortStaleStep ==
  ASSUME DispatcherInv, AbortStale
  PROVE  DispatcherInv'
<1>1. DispatcherType /\ BeforeRun /\ Running /\ Agreement /\ Asking /\ CancelKept
  BY DEF DispatcherInv
<1>2. /\ aborts' \in Seq(Aborts) /\ Head(aborts) \in Aborts
      /\ Head(aborts).req \in Reqs /\ Named = {Head(aborts).req} \union Named'
  BY <1>1, TakeAbort DEF DispatcherType, AbortStale, PopAbort
<1>3. PICK a, r, q : a = Head(aborts) /\ r = a.req /\ q = SeqOf[r]
  OBVIOUS
<1>4. r \in Reqs /\ q \in Seqs /\ hasSeq[r] /\ cancelled[r] /\ engine = active
  BY <1>1, <1>2, <1>3, DispatcherAssumption DEF Asking, Agreement, PopAbort, AbortStale
<1>5. PICK v : /\ call' = [call EXCEPT ![r] = v]
               /\ <<call[r], v>> \in {<<"dqueued", "danswered">>, <<"waiting", "left">>} \/ v = call[r]
  BY <1>3, ResolveEffect DEF AbortStale
<1>6. \A p \in Seqs : active[p] # r
  BY <1>1, <1>3, <1>4, DispatcherAssumption DEF Running, AbortStale, StaleAbort
<1>7. /\ call' = [call EXCEPT ![r] = v]
      /\ terminal' = [terminal EXCEPT ![r] = TRUE]
      /\ pc \in {"aborts", "aborts2"}
      /\ UNCHANGED <<closer, lock, cancelled, hasSeq, admission, tokens, ends, pending,
                      failed, pc, active, latest, cur, outs, fin, engine>>
  BY <1>3, <1>5 DEF AbortStale, PopAbort, callerVars, handleVars, queueVars, threadVars
<1>8. DispatcherType'
  BY <1>1, <1>2, <1>3, <1>5, <1>7 DEF DispatcherType, CallStates
<1>9. BeforeRun'
  BY <1>1, <1>4, <1>5, <1>7, KeepPending DEF BeforeRun, Fresh
<1>10. Running'
  BY <1>1, <1>6, <1>7 DEF Running
<1>11. Agreement'
  BY <1>1, <1>7, AgreementKept
<1>12. Asking'
  BY <1>1, <1>2, <1>5, <1>7 DEF Asking
<1>13. CancelKept'
  BY <1>1, <1>2, <1>3, <1>6, <1>7 DEF CancelKept, OnItsWay, Closing
<1>14. QED BY <1>8, <1>9, <1>10, <1>11, <1>12, <1>13 DEF DispatcherInv

\* An abort that is not stale names the request that runs under its sequence.
LEMMA AbortActiveStep ==
  ASSUME DispatcherInv, AbortActive
  PROVE  DispatcherInv'
<1>1. DispatcherType /\ BeforeRun /\ Running /\ Agreement /\ Asking /\ CancelKept
  BY DEF DispatcherInv
<1>2. /\ aborts' \in Seq(Aborts) /\ Head(aborts) \in Aborts
      /\ Head(aborts).req \in Reqs /\ Named = {Head(aborts).req} \union Named'
  BY <1>1, TakeAbort DEF DispatcherType, AbortActive, PopAbort
<1>3. PICK a, r, q : a = Head(aborts) /\ r = a.req /\ q = SeqOf[r]
  OBVIOUS
<1>4. r \in Reqs /\ q \in Seqs /\ hasSeq[r] /\ cancelled[r] /\ engine = active
  BY <1>1, <1>2, <1>3, DispatcherAssumption DEF Asking, Agreement, PopAbort, AbortActive
<1>5. PICK v : /\ call' = [call EXCEPT ![r] = v]
               /\ <<call[r], v>> \in {<<"dqueued", "danswered">>, <<"waiting", "left">>} \/ v = call[r]
  BY <1>3, ResolveEffect DEF AbortActive
<1>6. active[q] = r /\ latest[q] = r
  BY <1>1, <1>3, <1>4, DispatcherAssumption DEF Running, AbortActive, StaleAbort
<1>7. CASE /\ EngineAbort(q) /\ active' = [active EXCEPT ![q] = NoReq]
            /\ MarkTerminal(active[q]) /\ UNCHANGED pc
  <2>1. /\ call' = [call EXCEPT ![r] = v]
        /\ engine' = [engine EXCEPT ![q] = NoReq]
        /\ active' = [active EXCEPT ![q] = NoReq]
        /\ terminal' = [terminal EXCEPT ![r] = TRUE]
        /\ latest' = [latest EXCEPT ![q] = NoReq]
        /\ pc \in {"aborts", "aborts2"}
        /\ UNCHANGED <<closer, lock, cancelled, hasSeq, admission, tokens, ends, pending,
                        failed, pc, cur, outs, fin>>
    BY <1>1, <1>3, <1>4, <1>5, <1>6, <1>7 DEF DispatcherType, AbortActive, PopAbort,
       StaleAbort, EngineAbort, MarkTerminal, Goto, callerVars, handleVars, queueVars,
       threadVars
  <2>2. DispatcherType'
    BY <1>1, <1>2, <1>4, <1>5, <2>1 DEF DispatcherType, CallStates
  <2>3. BeforeRun'
    BY <1>1, <1>4, <1>5, <2>1, KeepPending DEF BeforeRun, Fresh
  <2>4. Running'
    BY <1>1, <1>3, <2>1 DEF DispatcherType, Running
  <2>5. Agreement'
    BY <1>1, <1>4, <2>1 DEF Agreement
  <2>6. Asking'
    BY <1>1, <1>2, <1>5, <2>1 DEF Asking
  <2>7. CancelKept'
    BY <1>1, <1>2, <1>3, <2>1 DEF DispatcherType, Running, CancelKept, OnItsWay, Closing
  <2>8. QED BY <2>2, <2>3, <2>4, <2>5, <2>6, <2>7 DEF DispatcherInv
<1>8. CASE Goto("mark") /\ UNCHANGED <<engine, active, terminal, latest>>
  <2>1. /\ call' = [call EXCEPT ![r] = v]
        /\ pc' = "mark"
        /\ pc \in {"aborts", "aborts2"}
        /\ UNCHANGED <<closer, lock, cancelled, terminal, hasSeq, admission, tokens, ends,
                        pending, failed, active, latest, cur, outs, fin, engine>>
    BY <1>3, <1>5, <1>8 DEF AbortActive, PopAbort, StaleAbort, EngineAbort, MarkTerminal,
       Goto, callerVars, handleVars, queueVars, threadVars
  <2>2. DispatcherType'
    BY <1>1, <1>2, <1>3, <1>5, <2>1 DEF DispatcherType, CallStates, EndStates
  <2>3. BeforeRun'
    BY <1>1, <1>5, <2>1, KeepPending DEF BeforeRun, Fresh
  <2>4. Running'
    BY <1>1, <2>1, RunningKept
  <2>5. Agreement'
    BY <1>1, <2>1 DEF EndStates, Agreement
  <2>6. Asking'
    BY <1>1, <1>2, <1>5, <2>1 DEF Asking
  <2>7. CancelKept'
    BY <1>1, <2>1 DEF LoopStates, CancelKept
  <2>8. QED BY <2>2, <2>3, <2>4, <2>5, <2>6, <2>7 DEF DispatcherInv
<1>9. QED BY <1>3, <1>7, <1>8 DEF AbortActive

LEMMA AbortInactiveStep ==
  ASSUME DispatcherInv, AbortInactive
  PROVE  DispatcherInv'
<1>1. DispatcherType /\ BeforeRun /\ Running /\ Agreement /\ Asking /\ CancelKept
  BY DEF DispatcherInv
<1>2. /\ aborts' \in Seq(Aborts) /\ Head(aborts) \in Aborts
      /\ Head(aborts).req \in Reqs /\ Named = {Head(aborts).req} \union Named'
  BY <1>1, TakeAbort DEF DispatcherType, AbortInactive, PopAbort
<1>3. PICK a, r, q : a = Head(aborts) /\ r = a.req /\ q = SeqOf[r]
  OBVIOUS
<1>4. r \in Reqs /\ q \in Seqs /\ hasSeq[r] /\ cancelled[r] /\ engine = active
  BY <1>1, <1>2, <1>3, DispatcherAssumption DEF Asking, Agreement, PopAbort, AbortInactive
<1>5. PICK v : /\ call' = [call EXCEPT ![r] = v]
               /\ <<call[r], v>> \in {<<"dqueued", "danswered">>, <<"waiting", "left">>} \/ v = call[r]
  BY <1>3, ResolveEffect DEF AbortInactive
<1>6. active[q] = NoReq
  BY <1>3 DEF AbortInactive
<1>7. CASE a.force
  <2>1. /\ call' = [call EXCEPT ![r] = v]
        /\ pc \in {"aborts", "aborts2"}
        /\ UNCHANGED <<closer, lock, cancelled, terminal, hasSeq, admission, tokens, ends,
                        pending, failed, pc, active, latest, cur, outs, fin, engine>>
    BY <1>3, <1>5, <1>7 DEF AbortInactive, PopAbort, EngineAbort, MarkTerminal, callerVars,
       handleVars, queueVars, threadVars
  <2>2. DispatcherType'
    BY <1>1, <1>2, <1>3, <1>5, <2>1 DEF DispatcherType, CallStates
  <2>3. BeforeRun'
    BY <1>1, <1>3, <1>4, <1>5, <1>6, <2>1, BeforeRunKept DEF DispatcherType
  <2>4. Running'
    BY <1>1, <2>1, RunningKept
  <2>5. Agreement'
    BY <1>1, <2>1, AgreementKept
  <2>6. Asking'
    BY <1>1, <1>2, <1>5, <2>1 DEF Asking
  <2>7. CancelKept'
    BY <1>1, <1>2, <1>3, <1>6, <2>1 DEF Running, CancelKept, OnItsWay, Closing
  <2>8. QED BY <2>2, <2>3, <2>4, <2>5, <2>6, <2>7 DEF DispatcherInv
<1>8. CASE ~a.force
  <2>1. /\ call' = [call EXCEPT ![r] = v]
        /\ engine' = [engine EXCEPT ![q] = NoReq]
        /\ terminal' = [terminal EXCEPT ![r] = TRUE]
        /\ latest' \in [Seqs -> Reqs \union {NoReq}] /\ \A p \in Seqs : p # q => latest'[p] = latest[p]
        /\ pc \in {"aborts", "aborts2"}
        /\ UNCHANGED <<closer, lock, cancelled, hasSeq, admission, tokens, ends, pending,
                        failed, pc, active, cur, outs, fin>>
    BY <1>1, <1>3, <1>4, <1>5, <1>8 DEF DispatcherType, AbortInactive, PopAbort,
       EngineAbort, MarkTerminal, callerVars, handleVars, queueVars, threadVars
  <2>2. DispatcherType'
    BY <1>1, <1>2, <1>4, <1>5, <2>1 DEF DispatcherType, CallStates
  <2>3. BeforeRun'
    BY <1>1, <1>4, <1>5, <2>1, KeepPending DEF BeforeRun, Fresh
  <2>4. Running'
    BY <1>1, <1>3, <1>6, <2>1 DEF Running
  <2>5. Agreement'
    BY <1>1, <1>6, <2>1 DEF DispatcherType, Agreement
  <2>6. Asking'
    BY <1>1, <1>2, <1>5, <2>1 DEF Asking
  <2>7. CancelKept'
    BY <1>1, <1>2, <1>3, <1>6, <2>1 DEF Running, CancelKept, OnItsWay, Closing
  <2>8. QED BY <2>2, <2>3, <2>4, <2>5, <2>6, <2>7 DEF DispatcherInv
<1>9. QED BY <1>7, <1>8

LEMMA EndAbortsStep ==
  ASSUME DispatcherInv, EndAborts
  PROVE  DispatcherInv'
<1>1. DispatcherType /\ BeforeRun /\ Running /\ Agreement /\ Asking /\ CancelKept
  BY DEF DispatcherInv
<1>2. /\ pc' \in {"get", "drain", "step", "fail_active", "controls", "mark"}
      /\ pc' = "get" => Active = {}
      /\ pc \in {"aborts", "aborts2"}
      /\ UNCHANGED <<call, closer, lock, cancelled, terminal, hasSeq, admission, tokens,
                      ends, pending, aborts, failed, active, latest, cur, outs, fin, engine>>
  BY DEF EndAborts, Goto, idleThread, callerVars, handleVars, queueVars, threadVars
<1>3. DispatcherType'
  BY <1>1, <1>2 DEF DispatcherType, LoopStates, EndStates
<1>4. BeforeRun'
  BY <1>1, <1>2, KeepPending DEF BeforeRun, Fresh
<1>5. Running'
  BY <1>1, <1>2, RunningKept
<1>6. Agreement'
  BY <1>1, <1>2 DEF EndStates, Agreement, Active
<1>7. Asking'
  BY <1>1, <1>2, AskingKept
<1>8. CancelKept'
  BY <1>1, <1>2, KeepAborts DEF LoopStates, CancelKept, OnItsWay, Closing
<1>9. QED BY <1>3, <1>4, <1>5, <1>6, <1>7, <1>8 DEF DispatcherInv

LEMMA GetStep ==
  ASSUME DispatcherInv, Get
  PROVE  DispatcherInv'
<1>1. DispatcherType /\ BeforeRun /\ Running /\ Agreement /\ Asking /\ CancelKept
  BY DEF DispatcherInv
<1>2. /\ pending' \in Seq(Items) /\ Head(pending) \in Items /\ Head(pending) \in Queued
      /\ Queued' \subseteq Queued /\ QueuedOnce' /\ (Head(pending) \in Reqs => Head(pending) \notin Queued')
  BY <1>1, TakePending DEF DispatcherType, BeforeRun, Get
<1>3. pc = "get" /\ cur = NoReq
  BY <1>1 DEF BeforeRun, Get
<1>4. CASE Head(pending) \in {Stop, Wakeup}
  <2>1. /\ pc' \in {"fail_active", "controls"}
        /\ UNCHANGED <<call, closer, lock, cancelled, terminal, hasSeq, admission, tokens,
                        ends, aborts, failed, active, latest, cur, outs, fin, engine>>
    BY <1>4 DEF Get, Goto, callerVars, handleVars, queueVars, threadVars
  <2>2. DispatcherType'
    BY <1>1, <1>2, <2>1 DEF DispatcherType, LoopStates, EndStates
  <2>3. BeforeRun'
    BY <1>1, <1>2, <1>3, <2>1 DEF BeforeRun, Fresh
  <2>4. Running'
    BY <1>1, <2>1, RunningKept
  <2>5. Agreement'
    BY <1>1, <1>3, <2>1 DEF EndStates, Agreement
  <2>6. Asking'
    BY <1>1, <2>1, AskingKept
  <2>7. CancelKept'
    BY <1>1, <1>3, <2>1, KeepAborts DEF LoopStates, CancelKept, OnItsWay, Closing
  <2>8. QED BY <2>2, <2>3, <2>4, <2>5, <2>6, <2>7 DEF DispatcherInv
<1>5. ASSUME Head(pending) \notin {Stop, Wakeup} PROVE DispatcherInv'
  <2>1. PICK r : r = Head(pending)
    OBVIOUS
  <2>2. r \in Reqs /\ r \in Queued /\ r \notin Queued' /\ r # NoReq
    BY <1>1, <1>2, <1>5, <2>1, DispatcherAssumption DEF Items
  <2>3. DispatcherInv'
    <3>1. /\ pc' = "admit"
          /\ cur' = r
          /\ UNCHANGED <<call, closer, lock, cancelled, terminal, hasSeq, admission,
                          tokens, ends, aborts, failed, active, latest, outs, fin, engine>>
      BY <1>5, <2>1 DEF Get, Goto, callerVars, handleVars, queueVars, threadVars
    <3>2. DispatcherType'
      BY <1>1, <1>2, <2>2, <3>1 DEF DispatcherType, LoopStates
    <3>3. BeforeRun'
      BY <1>1, <1>2, <2>2, <3>1 DEF BeforeRun, Fresh
    <3>4. Running'
      BY <1>1, <3>1, RunningKept
    <3>5. Agreement'
      BY <1>1, <1>3, <3>1 DEF EndStates, Agreement
    <3>6. Asking'
      BY <1>1, <3>1, AskingKept
    <3>7. CancelKept'
      BY <1>1, <1>3, <3>1, KeepAborts DEF LoopStates, CancelKept, OnItsWay, Closing
    <3>8. QED BY <3>2, <3>3, <3>4, <3>5, <3>6, <3>7 DEF DispatcherInv
  <2>4. QED BY <2>3
<1>6. QED BY <1>4, <1>5

LEMMA DrainStep ==
  ASSUME DispatcherInv, Drain
  PROVE  DispatcherInv'
<1>1. DispatcherType /\ BeforeRun /\ Running /\ Agreement /\ Asking /\ CancelKept
  BY DEF DispatcherInv
<1>2. pending # <<>> =>
        /\ pending' \in Seq(Items) /\ Head(pending) \in Items /\ Head(pending) \in Queued
        /\ Queued' \subseteq Queued /\ QueuedOnce' /\ (Head(pending) \in Reqs => Head(pending) \notin Queued')
  BY <1>1, TakePending DEF DispatcherType, BeforeRun, Drain
<1>3. pc = "drain" /\ cur = NoReq
  BY <1>1 DEF BeforeRun, Drain
<1>4. CASE pending = <<>>
  <2>1. /\ pc' = "controls2"
        /\ UNCHANGED <<call, closer, lock, cancelled, terminal, hasSeq, admission, tokens,
                        ends, pending, aborts, failed, active, latest, cur, outs, fin, engine>>
    BY <1>4 DEF Drain, Goto, callerVars, handleVars, queueVars, threadVars
  <2>2. DispatcherType'
    BY <1>1, <2>1 DEF DispatcherType, LoopStates
  <2>3. BeforeRun'
    BY <1>1, <1>3, <2>1, KeepPending DEF BeforeRun, Fresh
  <2>4. Running'
    BY <1>1, <2>1, RunningKept
  <2>5. Agreement'
    BY <1>1, <1>3, <2>1 DEF EndStates, Agreement
  <2>6. Asking'
    BY <1>1, <2>1, AskingKept
  <2>7. CancelKept'
    BY <1>1, <1>3, <2>1, KeepAborts DEF LoopStates, CancelKept, OnItsWay, Closing
  <2>8. QED BY <2>2, <2>3, <2>4, <2>5, <2>6, <2>7 DEF DispatcherInv
<1>5. CASE pending # <<>> /\ Head(pending) \in {Stop, Wakeup}
  <2>1. /\ pending # <<>>
        /\ UNCHANGED <<call, closer, lock, cancelled, terminal, hasSeq, admission, tokens,
                        ends, aborts, failed, pc, active, latest, cur, outs, fin, engine>>
    BY <1>5 DEF Drain, Goto, callerVars, handleVars, queueVars, threadVars
  <2>2. DispatcherType'
    BY <1>1, <1>2, <2>1 DEF DispatcherType
  <2>3. BeforeRun'
    BY <1>1, <1>2, <2>1 DEF BeforeRun, Fresh
  <2>4. Running'
    BY <1>1, <2>1, RunningKept
  <2>5. Agreement'
    BY <1>1, <2>1, AgreementKept
  <2>6. Asking'
    BY <1>1, <2>1, AskingKept
  <2>7. CancelKept'
    BY <1>1, <2>1, CancelKeptKept
  <2>8. QED BY <2>2, <2>3, <2>4, <2>5, <2>6, <2>7 DEF DispatcherInv
<1>6. ASSUME pending # <<>>, Head(pending) \notin {Stop, Wakeup} PROVE DispatcherInv'
  <2>1. PICK r : r = Head(pending)
    OBVIOUS
  <2>2. r \in Reqs /\ r \in Queued /\ r \notin Queued' /\ r # NoReq
    BY <1>1, <1>2, <1>6, <2>1, DispatcherAssumption DEF Items
  <2>3. DispatcherInv'
    <3>1. /\ pc' = "admit"
          /\ cur' = r
          /\ pending # <<>>
          /\ UNCHANGED <<call, closer, lock, cancelled, terminal, hasSeq, admission,
                          tokens, ends, aborts, failed, active, latest, outs, fin, engine>>
      BY <1>6, <2>1 DEF Drain, Goto, callerVars, handleVars, queueVars, threadVars
    <3>2. DispatcherType'
      BY <1>1, <1>2, <2>2, <3>1 DEF DispatcherType, LoopStates
    <3>3. BeforeRun'
      BY <1>1, <1>2, <2>2, <3>1 DEF BeforeRun, Fresh
    <3>4. Running'
      BY <1>1, <3>1, RunningKept
    <3>5. Agreement'
      BY <1>1, <1>3, <3>1 DEF EndStates, Agreement
    <3>6. Asking'
      BY <1>1, <3>1, AskingKept
    <3>7. CancelKept'
      BY <1>1, <1>3, <3>1, KeepAborts DEF LoopStates, CancelKept, OnItsWay, Closing
    <3>8. QED BY <3>2, <3>3, <3>4, <3>5, <3>6, <3>7 DEF DispatcherInv
  <2>4. QED BY <2>3
<1>7. QED BY <1>4, <1>5, <1>6

LEMMA AdmitStep ==
  ASSUME DispatcherInv, Admit
  PROVE  DispatcherInv'
<1>1. DispatcherType /\ BeforeRun /\ Running /\ Agreement /\ Asking /\ CancelKept
  BY DEF DispatcherInv
<1>2. PICK r, q : r = cur /\ q = SeqOf[r]
  OBVIOUS
<1>3. /\ pc = "admit" /\ r \in Reqs /\ q \in Seqs /\ r \notin Queued
      /\ \A p \in Seqs : active[p] # r
  BY <1>1, <1>2, DispatcherAssumption DEF DispatcherType, BeforeRun, Fresh, Running, Agreement, Admit
<1>4. CASE \E e \in BOOLEAN : Refuse(r, e)
  <2>1. /\ terminal' = [terminal EXCEPT ![r] = TRUE]
        /\ admission' = [admission EXCEPT ![r] = "error"]
        /\ ends' \in [Reqs -> Nat] /\ \A x \in Reqs : x # r => ends'[x] = ends[x]
        /\ pc' = "drain"
        /\ cur' = NoReq
        /\ UNCHANGED <<call, closer, lock, cancelled, hasSeq, tokens, pending, aborts,
                        failed, active, latest, outs, fin, engine>>
    BY <1>1, <1>2, <1>3, <1>4, RefuseEffect DEF DispatcherType, Admit, Goto, callerVars,
       handleVars, queueVars, threadVars
  <2>2. DispatcherType'
    BY <1>1, <1>3, <2>1 DEF DispatcherType, LoopStates
  <2>3. BeforeRun'
    BY <1>1, <1>2, <2>1, DispatcherAssumption, KeepPending DEF BeforeRun, Fresh
  <2>4. Running'
    BY <1>1, <1>3, <2>1 DEF DispatcherType, Running
  <2>5. Agreement'
    BY <1>1, <1>3, <2>1 DEF EndStates, Agreement
  <2>6. Asking'
    BY <1>1, <2>1, KeepAborts DEF Asking
  <2>7. CancelKept'
    BY <1>1, <1>3, <2>1, KeepAborts DEF LoopStates, CancelKept, OnItsWay, Closing
  <2>8. QED BY <2>2, <2>3, <2>4, <2>5, <2>6, <2>7 DEF DispatcherInv
<1>5. CASE Goto("enter") /\ UNCHANGED <<terminal, admission, ends, cur>>
  <2>1. /\ pc' = "enter"
        /\ UNCHANGED <<call, closer, lock, cancelled, terminal, hasSeq, admission, tokens,
                        ends, pending, aborts, failed, active, latest, cur, outs, fin, engine>>
    BY <1>5 DEF Admit, Goto, callerVars, handleVars, queueVars, threadVars
  <2>2. DispatcherType'
    BY <1>1, <2>1 DEF DispatcherType, LoopStates
  <2>3. BeforeRun'
    BY <1>1, <1>3, <2>1, KeepPending DEF BeforeRun, Fresh
  <2>4. Running'
    BY <1>1, <2>1, RunningKept
  <2>5. Agreement'
    BY <1>1, <1>3, <2>1 DEF EndStates, Agreement
  <2>6. Asking'
    BY <1>1, <2>1, AskingKept
  <2>7. CancelKept'
    BY <1>1, <1>3, <2>1, KeepAborts DEF LoopStates, CancelKept, OnItsWay, Closing
  <2>8. QED BY <2>2, <2>3, <2>4, <2>5, <2>6, <2>7 DEF DispatcherInv
<1>6. QED BY <1>2, <1>4, <1>5 DEF Admit

\* engine.admit_request, and the sequence id that cancel looks for.
LEMMA EnterEngineStep ==
  ASSUME DispatcherInv, EnterEngine
  PROVE  DispatcherInv'
<1>1. DispatcherType /\ BeforeRun /\ Running /\ Agreement /\ Asking /\ CancelKept
  BY DEF DispatcherInv
<1>2. PICK r, q : r = cur /\ q = SeqOf[r]
  OBVIOUS
<1>3. /\ pc = "enter" /\ r \in Reqs /\ q \in Seqs /\ r \notin Queued
      /\ \A p \in Seqs : active[p] # r
      /\ engine = active
  BY <1>1, <1>2, DispatcherAssumption DEF DispatcherType, BeforeRun, Fresh, Running, Agreement, EnterEngine
<1>4. CASE /\ engine[q] = NoReq /\ engine' = [engine EXCEPT ![q] = r] /\ hasSeq' = [hasSeq EXCEPT ![r] = TRUE]
            /\ Goto("recheck") /\ UNCHANGED <<terminal, admission, ends, cur>>
  <2>1. /\ engine[q] = NoReq
        /\ engine' = [engine EXCEPT ![q] = r]
        /\ hasSeq' = [hasSeq EXCEPT ![r] = TRUE]
        /\ pc' = "recheck"
        /\ UNCHANGED <<call, closer, lock, cancelled, terminal, admission, tokens, ends,
                        pending, aborts, failed, active, latest, cur, outs, fin>>
    BY <1>4 DEF EnterEngine, Goto, callerVars, handleVars, queueVars, threadVars
  <2>2. DispatcherType'
    BY <1>1, <1>3, <2>1 DEF DispatcherType, LoopStates
  <2>3. BeforeRun'
    BY <1>1, <1>2, <1>3, <2>1, KeepPending DEF DispatcherType, BeforeRun, Fresh
  <2>4. Running'
    BY <1>1, <2>1 DEF Running
  <2>5. Agreement'
    BY <1>1, <1>2, <1>3, <2>1 DEF EndStates, Agreement
  <2>6. Asking'
    BY <1>1, <2>1, KeepAborts DEF Asking
  <2>7. CancelKept'
    BY <1>1, <1>3, <2>1, KeepAborts DEF LoopStates, CancelKept, OnItsWay, Closing
  <2>8. QED BY <2>2, <2>3, <2>4, <2>5, <2>6, <2>7 DEF DispatcherInv
<1>5. CASE Refuse(r, TRUE) /\ UNCHANGED <<hasSeq, engine>>
  <2>1. /\ terminal' = [terminal EXCEPT ![r] = TRUE]
        /\ admission' = [admission EXCEPT ![r] = "error"]
        /\ ends' \in [Reqs -> Nat] /\ \A x \in Reqs : x # r => ends'[x] = ends[x]
        /\ pc' = "drain"
        /\ cur' = NoReq
        /\ UNCHANGED <<call, closer, lock, cancelled, hasSeq, tokens, pending, aborts,
                        failed, active, latest, outs, fin, engine>>
    BY <1>1, <1>2, <1>3, <1>5, RefuseEffect DEF DispatcherType, EnterEngine, Goto,
       callerVars, handleVars, queueVars, threadVars
  <2>2. DispatcherType'
    BY <1>1, <1>3, <2>1 DEF DispatcherType, LoopStates
  <2>3. BeforeRun'
    BY <1>1, <1>2, <2>1, DispatcherAssumption, KeepPending DEF BeforeRun, Fresh
  <2>4. Running'
    BY <1>1, <1>3, <2>1 DEF DispatcherType, Running
  <2>5. Agreement'
    BY <1>1, <1>3, <2>1 DEF EndStates, Agreement
  <2>6. Asking'
    BY <1>1, <2>1, KeepAborts DEF Asking
  <2>7. CancelKept'
    BY <1>1, <1>3, <2>1, KeepAborts DEF LoopStates, CancelKept, OnItsWay, Closing
  <2>8. QED BY <2>2, <2>3, <2>4, <2>5, <2>6, <2>7 DEF DispatcherInv
<1>6. QED BY <1>2, <1>4, <1>5 DEF EnterEngine

\* The flag is read again after the sequence id was set: whoever becomes active is not cancelled.
LEMMA ActivateStep ==
  ASSUME DispatcherInv, Activate
  PROVE  DispatcherInv'
<1>1. DispatcherType /\ BeforeRun /\ Running /\ Agreement /\ Asking /\ CancelKept
  BY DEF DispatcherInv
<1>2. PICK r, q : r = cur /\ q = SeqOf[r]
  OBVIOUS
<1>3. /\ pc = "recheck" /\ r \in Reqs /\ q \in Seqs /\ r \notin Queued
      /\ \A p \in Seqs : active[p] # r
      /\ active[q] = NoReq /\ engine = [active EXCEPT ![q] = r] /\ hasSeq[r]
  BY <1>1, <1>2, DispatcherAssumption DEF DispatcherType, BeforeRun, Fresh, Running, Agreement, Activate
<1>4. CASE EngineAbort(q) /\ (\E e \in BOOLEAN : Refuse(r, e)) /\ UNCHANGED <<active, latest>>
  <2>1. /\ terminal' = [terminal EXCEPT ![r] = TRUE]
        /\ admission' = [admission EXCEPT ![r] = "error"]
        /\ ends' \in [Reqs -> Nat] /\ \A x \in Reqs : x # r => ends'[x] = ends[x]
        /\ pc' = "drain"
        /\ cur' = NoReq
        /\ engine' = [engine EXCEPT ![q] = NoReq]
        /\ UNCHANGED <<call, closer, lock, cancelled, hasSeq, tokens, pending, aborts,
                        failed, active, latest, outs, fin>>
    BY <1>1, <1>2, <1>3, <1>4, RefuseEffect DEF DispatcherType, Activate, Goto,
       EngineAbort, callerVars, handleVars, queueVars, threadVars
  <2>2. DispatcherType'
    BY <1>1, <1>3, <2>1 DEF DispatcherType
  <2>3. BeforeRun'
    BY <1>1, <1>3, <2>1 DEF DispatcherType
  <2>4. Running'
    BY <1>1, <1>3, <2>1 DEF DispatcherType
  <2>5. Agreement'
    BY <1>1, <1>3, <2>1 DEF DispatcherType
  <2>6. Asking'
    BY <1>1, <1>3, <2>1 DEF DispatcherType
  <2>7. CancelKept'
    BY <1>1, <1>3, <2>1 DEF DispatcherType
  <2>8. QED BY <2>2, <2>3, <2>4, <2>5, <2>6, <2>7 DEF DispatcherInv
<1>5. CASE /\ ~cancelled[r]
            /\ active' = [active EXCEPT ![q] = r] /\ latest' = [latest EXCEPT ![q] = r]
            /\ ResolveAdmission(r, "ok") /\ Goto("drain") /\ cur' = NoReq
            /\ UNCHANGED <<terminal, ends, engine>>
  <2>1. /\ ~cancelled[r]
        /\ active' = [active EXCEPT ![q] = r]
        /\ latest' = [latest EXCEPT ![q] = r]
        /\ admission' = [admission EXCEPT ![r] = "ok"]
        /\ pc' = "drain"
        /\ cur' = NoReq
        /\ UNCHANGED <<call, closer, lock, cancelled, terminal, hasSeq, tokens, ends,
                        pending, aborts, failed, outs, fin, engine>>
    BY <1>5 DEF Activate, Goto, ResolveAdmission, callerVars, handleVars, queueVars,
       threadVars
  <2>2. DispatcherType'
    BY <1>1, <1>3, <2>1 DEF DispatcherType, LoopStates
  <2>3. BeforeRun'
    BY <1>1, <2>1, DispatcherAssumption, KeepPending DEF BeforeRun, Fresh
  <2>4. Running'
    BY <1>1, <1>2, <1>3, <2>1 DEF DispatcherType, BeforeRun, Running
  <2>5. Agreement'
    BY <1>1, <1>3, <2>1 DEF EndStates, Agreement
  <2>6. Asking'
    BY <1>1, <1>3, <2>1, KeepAborts DEF Asking
  <2>7. CancelKept'
    BY <1>1, <1>3, <2>1, KeepAborts DEF LoopStates, CancelKept, OnItsWay, Closing
  <2>8. QED BY <2>2, <2>3, <2>4, <2>5, <2>6, <2>7 DEF DispatcherInv
<1>6. QED BY <1>2, <1>4, <1>5 DEF Activate

LEMMA EngineStepStep ==
  ASSUME DispatcherInv, EngineStep
  PROVE  DispatcherInv'
<1>1. DispatcherType /\ BeforeRun /\ Running /\ Agreement /\ Asking /\ CancelKept
  BY DEF DispatcherInv
<1>2. engine = active /\ cur = NoReq
  BY <1>1 DEF Agreement, BeforeRun, EngineStep
<1>3. CASE Goto("mark") /\ UNCHANGED <<outs, fin, engine>>
  <2>1. /\ pc' = "mark"
        /\ UNCHANGED <<call, closer, lock, cancelled, terminal, hasSeq, admission, tokens,
                        ends, pending, aborts, failed, active, latest, cur, outs, fin, engine>>
    BY <1>3 DEF EngineStep, Goto, callerVars, handleVars, queueVars, threadVars
  <2>2. DispatcherType'
    BY <1>1, <2>1 DEF DispatcherType, EndStates
  <2>3. BeforeRun'
    BY <1>1, <1>2, <2>1, KeepPending DEF BeforeRun, Fresh
  <2>4. Running'
    BY <1>1, <2>1, RunningKept
  <2>5. Agreement'
    BY <1>1, <2>1 DEF EndStates, Agreement
  <2>6. Asking'
    BY <1>1, <2>1, AskingKept
  <2>7. CancelKept'
    BY <1>1, <2>1 DEF LoopStates, CancelKept
  <2>8. QED BY <2>2, <2>3, <2>4, <2>5, <2>6, <2>7 DEF DispatcherInv
<1>4. ASSUME NEW run \in SUBSET {q \in Seqs : engine[q] # NoReq}, NEW done \in SUBSET run,
             outs' = run, fin' = done, Goto("deltas"),
             engine' = [q \in Seqs |-> IF q \in done THEN NoReq ELSE engine[q]]
      PROVE  DispatcherInv'
  <2>1. /\ pc' = "deltas"
        /\ outs' = run
        /\ fin' = done
        /\ engine' = [q \in Seqs |-> IF q \in done THEN NoReq ELSE engine[q]]
        /\ run \subseteq Seqs /\ done \subseteq run /\ pc = "step"
        /\ UNCHANGED <<call, closer, lock, cancelled, terminal, hasSeq, admission, tokens,
                        ends, pending, aborts, failed, active, latest, cur>>
    BY <1>4 DEF EngineStep, Goto, callerVars, handleVars, queueVars, threadVars
  <2>2. DispatcherType'
    BY <1>1, <2>1 DEF DispatcherType, LoopStates
  <2>3. BeforeRun'
    BY <1>1, <2>1, KeepPending DEF BeforeRun, Fresh
  <2>4. Running'
    BY <1>1, <2>1, RunningKept
  <2>5. Agreement'
    BY <1>1, <2>1 DEF EndStates, Agreement
  <2>6. Asking'
    BY <1>1, <2>1, AskingKept
  <2>7. CancelKept'
    BY <1>1, <2>1, KeepAborts DEF LoopStates, CancelKept, OnItsWay, Closing
  <2>8. QED BY <2>2, <2>3, <2>4, <2>5, <2>6, <2>7 DEF DispatcherInv
<1>5. QED BY <1>3, <1>4 DEF EngineStep

\* A token, perhaps the last one of a stop string.
LEMMA DeltaStep ==
  ASSUME DispatcherInv, NEW q \in outs, Delta(q)
  PROVE  DispatcherInv'
<1>1. DispatcherType /\ BeforeRun /\ Running /\ Agreement /\ Asking /\ CancelKept
  BY DEF DispatcherInv
<1>2. PICK r : r = active[q]
  OBVIOUS
<1>3. q \in Seqs /\ pc = "deltas" /\ cur = NoReq
  BY <1>1 DEF DispatcherType, BeforeRun, Delta
<1>4. r # NoReq => r \in Reqs /\ SeqOf[r] = q /\ latest[q] = r
  BY <1>1, <1>2, <1>3 DEF DispatcherType, Running
<1>5. CASE r = NoReq
  <2>1. /\ outs' = outs \ {q}
        /\ UNCHANGED <<call, closer, lock, cancelled, terminal, hasSeq, admission, tokens,
                        ends, pending, aborts, failed, pc, active, latest, cur, fin, engine>>
    BY <1>2, <1>5 DEF Delta, callerVars, handleVars, queueVars, threadVars
  <2>2. DispatcherType'
    BY <1>1, <2>1 DEF DispatcherType
  <2>3. BeforeRun'
    BY <1>1, <2>1, BeforeRunKept
  <2>4. Running'
    BY <1>1, <2>1, RunningKept
  <2>5. Agreement'
    BY <1>1, <2>1, AgreementKept
  <2>6. Asking'
    BY <1>1, <2>1, AskingKept
  <2>7. CancelKept'
    BY <1>1, <2>1, CancelKeptKept
  <2>8. QED BY <2>2, <2>3, <2>4, <2>5, <2>6, <2>7 DEF DispatcherInv
<1>6. CASE r # NoReq /\ tokens' = [tokens EXCEPT ![r] = @ + 1] /\ UNCHANGED <<ends, terminal, latest, active, engine, pc>>
  <2>1. /\ outs' = outs \ {q}
        /\ tokens' = [tokens EXCEPT ![r] = @ + 1]
        /\ r # NoReq
        /\ UNCHANGED <<call, closer, lock, cancelled, terminal, hasSeq, admission, ends,
                        pending, aborts, failed, pc, active, latest, cur, fin, engine>>
    BY <1>2, <1>6 DEF Delta, callerVars, handleVars, queueVars, threadVars
  <2>2. DispatcherType'
    BY <1>1, <1>2, <2>1 DEF DispatcherType
  <2>3. BeforeRun'
    BY <1>1, <2>1, BeforeRunKept
  <2>4. Running'
    BY <1>1, <2>1, RunningKept
  <2>5. Agreement'
    BY <1>1, <2>1, AgreementKept
  <2>6. Asking'
    BY <1>1, <2>1, AskingKept
  <2>7. CancelKept'
    BY <1>1, <2>1, CancelKeptKept
  <2>8. QED BY <2>2, <2>3, <2>4, <2>5, <2>6, <2>7 DEF DispatcherInv
<1>7. CASE /\ r # NoReq /\ tokens' = [tokens EXCEPT ![r] = @ + 1] /\ EngineAbort(q)
            /\ active' = [active EXCEPT ![q] = NoReq] /\ MarkTerminal(r) /\ PutEnd(r) /\ UNCHANGED pc
  <2>1. /\ outs' = outs \ {q}
        /\ tokens' = [tokens EXCEPT ![r] = @ + 1]
        /\ r # NoReq
        /\ engine' = [engine EXCEPT ![q] = NoReq]
        /\ active' = [active EXCEPT ![q] = NoReq]
        /\ terminal' = [terminal EXCEPT ![r] = TRUE]
        /\ latest' = [latest EXCEPT ![q] = NoReq]
        /\ ends' = [ends EXCEPT ![r] = @ + 1]
        /\ UNCHANGED <<call, closer, lock, cancelled, hasSeq, admission, pending, aborts,
                        failed, pc, cur, fin>>
    BY <1>1, <1>2, <1>3, <1>4, <1>7 DEF DispatcherType, Delta, EngineAbort, MarkTerminal,
       PutEnd, callerVars, handleVars, queueVars, threadVars
  <2>2. DispatcherType'
    BY <1>1, <1>2, <2>1 DEF DispatcherType
  <2>3. BeforeRun'
    BY <1>1, <1>2, <1>3, <2>1, KeepPending DEF BeforeRun, Fresh, Running
  <2>4. Running'
    BY <1>1, <1>2, <2>1 DEF DispatcherType, Running
  <2>5. Agreement'
    BY <1>1, <1>3, <2>1 DEF DispatcherType, Agreement
  <2>6. Asking'
    BY <1>1, <2>1, AskingKept
  <2>7. CancelKept'
    BY <1>1, <2>1, KeepAborts DEF CancelKept, OnItsWay, Closing
  <2>8. QED BY <2>2, <2>3, <2>4, <2>5, <2>6, <2>7 DEF DispatcherInv
<1>8. CASE r # NoReq /\ Goto("mark") /\ UNCHANGED <<tokens, ends, terminal, latest, active, engine>>
  <2>1. /\ outs' = outs \ {q}
        /\ pc' = "mark"
        /\ UNCHANGED <<call, closer, lock, cancelled, terminal, hasSeq, admission, tokens,
                        ends, pending, aborts, failed, active, latest, cur, fin, engine>>
    BY <1>2, <1>8 DEF Delta, Goto, callerVars, handleVars, queueVars, threadVars
  <2>2. DispatcherType'
    BY <1>1, <2>1 DEF DispatcherType, EndStates
  <2>3. BeforeRun'
    BY <1>1, <1>3, <2>1, KeepPending DEF BeforeRun, Fresh
  <2>4. Running'
    BY <1>1, <2>1, RunningKept
  <2>5. Agreement'
    BY <1>1, <2>1 DEF EndStates, Agreement
  <2>6. Asking'
    BY <1>1, <2>1, AskingKept
  <2>7. CancelKept'
    BY <1>1, <2>1 DEF LoopStates, CancelKept
  <2>8. QED BY <2>2, <2>3, <2>4, <2>5, <2>6, <2>7 DEF DispatcherInv
<1>9. QED BY <1>2, <1>5, <1>6, <1>7, <1>8 DEF Delta

LEMMA EndDeltasStep ==
  ASSUME DispatcherInv, EndDeltas
  PROVE  DispatcherInv'
<1>1. DispatcherType /\ BeforeRun /\ Running /\ Agreement /\ Asking /\ CancelKept
  BY DEF DispatcherInv
<1>2. /\ pc' = "finished"
      /\ pc = "deltas"
      /\ UNCHANGED <<call, closer, lock, cancelled, terminal, hasSeq, admission, tokens,
                      ends, pending, aborts, failed, active, latest, cur, outs, fin, engine>>
  BY DEF EndDeltas, Goto, idleThread, callerVars, handleVars, queueVars, threadVars
<1>3. DispatcherType'
  BY <1>1, <1>2 DEF DispatcherType, LoopStates
<1>4. BeforeRun'
  BY <1>1, <1>2, KeepPending DEF BeforeRun, Fresh
<1>5. Running'
  BY <1>1, <1>2, RunningKept
<1>6. Agreement'
  BY <1>1, <1>2 DEF EndStates, Agreement
<1>7. Asking'
  BY <1>1, <1>2, AskingKept
<1>8. CancelKept'
  BY <1>1, <1>2, KeepAborts DEF LoopStates, CancelKept, OnItsWay, Closing
<1>9. QED BY <1>3, <1>4, <1>5, <1>6, <1>7, <1>8 DEF DispatcherInv

\* A request finishes; its sequence has left the engine in the step.
LEMMA FinishStep ==
  ASSUME DispatcherInv, NEW q \in fin, Finish(q)
  PROVE  DispatcherInv'
<1>1. DispatcherType /\ BeforeRun /\ Running /\ Agreement /\ Asking /\ CancelKept
  BY DEF DispatcherInv
<1>2. PICK r : r = active[q]
  OBVIOUS
<1>3. q \in Seqs /\ pc = "finished" /\ cur = NoReq /\ engine[q] = NoReq
  BY <1>1 DEF DispatcherType, BeforeRun, Agreement, Finish
<1>4. r # NoReq => r \in Reqs /\ SeqOf[r] = q /\ latest[q] = r
  BY <1>1, <1>2, <1>3 DEF DispatcherType, Running
<1>5. CASE r = NoReq
  <2>1. /\ fin' = fin \ {q}
        /\ r = NoReq
        /\ UNCHANGED <<call, closer, lock, cancelled, terminal, hasSeq, admission, tokens,
                        ends, pending, aborts, failed, pc, active, latest, cur, outs, engine>>
    BY <1>2, <1>5 DEF Finish, callerVars, handleVars, queueVars, threadVars
  <2>2. DispatcherType'
    BY <1>1, <2>1 DEF DispatcherType
  <2>3. BeforeRun'
    BY <1>1, <2>1, BeforeRunKept
  <2>4. Running'
    BY <1>1, <2>1, RunningKept
  <2>5. Agreement'
    <3>1. ASSUME NEW p \in Seqs, p \notin fin' PROVE engine'[p] = active'[p]
      <4>1. CASE p = q
        BY <1>2, <1>3, <2>1, <4>1
      <4>2. CASE p # q
        BY <1>1, <1>3, <2>1, <3>1, <4>2 DEF Agreement
      <4>3. QED BY <4>1, <4>2
    <3>2. \A p \in fin' : engine'[p] = NoReq
      BY <1>1, <1>3, <2>1 DEF Agreement
    <3>3. pc' = "finished"
      BY <1>3, <2>1
    <3>4. failed' => pc' \in EndStates
      BY <1>1, <2>1 DEF Agreement, EndStates
    <3>5. QED BY <3>1, <3>2, <3>3, <3>4 DEF Agreement
  <2>6. Asking'
    BY <1>1, <2>1, AskingKept
  <2>7. CancelKept'
    BY <1>1, <2>1, CancelKeptKept
  <2>8. QED BY <2>2, <2>3, <2>4, <2>5, <2>6, <2>7 DEF DispatcherInv
<1>6. CASE /\ r # NoReq /\ active' = [active EXCEPT ![q] = NoReq]
            /\ MarkTerminal(r) /\ PutEnd(r) /\ UNCHANGED pc
  <2>1. /\ fin' = fin \ {q}
        /\ r # NoReq
        /\ active' = [active EXCEPT ![q] = NoReq]
        /\ terminal' = [terminal EXCEPT ![r] = TRUE]
        /\ latest' = [latest EXCEPT ![q] = NoReq]
        /\ ends' = [ends EXCEPT ![r] = @ + 1]
        /\ UNCHANGED <<call, closer, lock, cancelled, hasSeq, admission, tokens, pending,
                        aborts, failed, pc, cur, outs, engine>>
    BY <1>1, <1>2, <1>3, <1>4, <1>6 DEF DispatcherType, Finish, MarkTerminal, PutEnd,
       callerVars, handleVars, queueVars, threadVars
  <2>2. DispatcherType'
    BY <1>1, <1>2, <2>1 DEF DispatcherType
  <2>3. BeforeRun'
    BY <1>1, <1>2, <1>3, <2>1, KeepPending DEF BeforeRun, Fresh, Running
  <2>4. Running'
    BY <1>1, <1>2, <2>1 DEF DispatcherType, Running
  <2>5. Agreement'
    BY <1>1, <1>3, <2>1 DEF DispatcherType, Agreement
  <2>6. Asking'
    BY <1>1, <2>1, AskingKept
  <2>7. CancelKept'
    BY <1>1, <2>1, KeepAborts DEF CancelKept, OnItsWay, Closing
  <2>8. QED BY <2>2, <2>3, <2>4, <2>5, <2>6, <2>7 DEF DispatcherInv
<1>7. CASE r # NoReq /\ Goto("mark") /\ UNCHANGED <<ends, terminal, latest, active>>
  <2>1. /\ fin' = fin \ {q}
        /\ pc' = "mark"
        /\ UNCHANGED <<call, closer, lock, cancelled, terminal, hasSeq, admission, tokens,
                        ends, pending, aborts, failed, active, latest, cur, outs, engine>>
    BY <1>2, <1>7 DEF Finish, Goto, callerVars, handleVars, queueVars, threadVars
  <2>2. DispatcherType'
    BY <1>1, <2>1 DEF DispatcherType, EndStates
  <2>3. BeforeRun'
    BY <1>1, <1>3, <2>1, KeepPending DEF BeforeRun, Fresh
  <2>4. Running'
    BY <1>1, <2>1, RunningKept
  <2>5. Agreement'
    BY <1>1, <2>1 DEF EndStates, Agreement
  <2>6. Asking'
    BY <1>1, <2>1, AskingKept
  <2>7. CancelKept'
    BY <1>1, <2>1 DEF LoopStates, CancelKept
  <2>8. QED BY <2>2, <2>3, <2>4, <2>5, <2>6, <2>7 DEF DispatcherInv
<1>8. CASE /\ r # NoReq /\ Goto("mark") /\ active' = [active EXCEPT ![q] = NoReq]
             /\ UNCHANGED <<ends, terminal, latest>>
  <2>1. /\ fin' = fin \ {q}
        /\ pc' = "mark"
        /\ active' = [active EXCEPT ![q] = NoReq]
        /\ UNCHANGED <<call, closer, lock, cancelled, terminal, hasSeq, admission, tokens,
                        ends, pending, aborts, failed, latest, cur, outs, engine>>
    BY <1>2, <1>8 DEF Finish, Goto, callerVars, handleVars, queueVars, threadVars
  <2>2. DispatcherType'
    BY <1>1, <2>1 DEF DispatcherType, EndStates
  <2>3. BeforeRun'
    BY <1>1, <1>3, <2>1, KeepPending DEF BeforeRun, Fresh
  <2>4. Running'
    BY <1>1, <2>1 DEF Running
  <2>5. Agreement'
    BY <1>1, <2>1 DEF EndStates, Agreement
  <2>6. Asking'
    BY <1>1, <2>1, AskingKept
  <2>7. CancelKept'
    BY <1>1, <2>1 DEF LoopStates, CancelKept
  <2>8. QED BY <2>2, <2>3, <2>4, <2>5, <2>6, <2>7 DEF DispatcherInv
<1>9. QED BY <1>2, <1>5, <1>6, <1>7, <1>8 DEF Finish

LEMMA EndFinishedStep ==
  ASSUME DispatcherInv, EndFinished
  PROVE  DispatcherInv'
<1>1. DispatcherType /\ BeforeRun /\ Running /\ Agreement /\ Asking /\ CancelKept
  BY DEF DispatcherInv
<1>2. /\ pc' \in {"fail_active", "controls"}
      /\ pc = "finished" /\ fin = {}
      /\ UNCHANGED <<call, closer, lock, cancelled, terminal, hasSeq, admission, tokens,
                      ends, pending, aborts, failed, active, latest, cur, outs, fin, engine>>
  BY DEF EndFinished, Goto, idleThread, callerVars, handleVars, queueVars, threadVars
<1>3. DispatcherType'
  BY <1>1, <1>2 DEF DispatcherType, LoopStates, EndStates
<1>4. BeforeRun'
  BY <1>1, <1>2, KeepPending DEF BeforeRun, Fresh
<1>5. Running'
  BY <1>1, <1>2, RunningKept
<1>6. Agreement'
  BY <1>1, <1>2 DEF DispatcherType, EndStates, Agreement
<1>7. Asking'
  BY <1>1, <1>2, AskingKept
<1>8. CancelKept'
  BY <1>1, <1>2, KeepAborts DEF LoopStates, CancelKept, OnItsWay, Closing
<1>9. QED BY <1>3, <1>4, <1>5, <1>6, <1>7, <1>8 DEF DispatcherInv

LEMMA MarkFailedStep ==
  ASSUME DispatcherInv, MarkFailed
  PROVE  DispatcherInv'
<1>1. DispatcherType /\ BeforeRun /\ Running /\ Agreement /\ Asking /\ CancelKept
  BY DEF DispatcherInv
<1>2. /\ failed' = TRUE
      /\ outs' = {}
      /\ fin' = {}
      /\ pc' = "fail_active"
      /\ pc = "mark"
      /\ UNCHANGED <<call, closer, lock, cancelled, terminal, hasSeq, admission, tokens,
                      ends, pending, aborts, active, latest, cur, engine>>
  BY DEF MarkFailed, Goto, callerVars, handleVars, queueVars, threadVars
<1>3. DispatcherType'
  BY <1>1, <1>2 DEF DispatcherType, EndStates
<1>4. BeforeRun'
  BY <1>1, <1>2, KeepPending DEF BeforeRun, Fresh
<1>5. Running'
  BY <1>1, <1>2, RunningKept
<1>6. Agreement'
  BY <1>1, <1>2 DEF EndStates, Agreement
<1>7. Asking'
  BY <1>1, <1>2, AskingKept
<1>8. CancelKept'
  BY <1>1, <1>2 DEF LoopStates, CancelKept
<1>9. QED BY <1>3, <1>4, <1>5, <1>6, <1>7, <1>8 DEF DispatcherInv

LEMMA FailActiveStep ==
  ASSUME DispatcherInv, FailActive
  PROVE  DispatcherInv'
<1>1. DispatcherType /\ BeforeRun /\ Running /\ Agreement /\ Asking /\ CancelKept
  BY DEF DispatcherInv
<1>2. CASE Active = {}
  <2>1. /\ pc' = "fail_queued"
        /\ Active = {} /\ pc = "fail_active"
        /\ UNCHANGED <<call, closer, lock, cancelled, terminal, hasSeq, admission, tokens,
                        ends, pending, aborts, failed, active, latest, cur, outs, fin, engine>>
    BY <1>2 DEF FailActive, Goto, callerVars, handleVars, queueVars, threadVars
  <2>2. DispatcherType'
    BY <1>1, <2>1 DEF DispatcherType, EndStates
  <2>3. BeforeRun'
    BY <1>1, <2>1, KeepPending DEF BeforeRun, Fresh
  <2>4. Running'
    BY <1>1, <2>1, RunningKept
  <2>5. Agreement'
    BY <1>1, <2>1 DEF EndStates, Agreement, Active
  <2>6. Asking'
    BY <1>1, <2>1, AskingKept
  <2>7. CancelKept'
    BY <1>1, <2>1 DEF LoopStates, CancelKept
  <2>8. QED BY <2>2, <2>3, <2>4, <2>5, <2>6, <2>7 DEF DispatcherInv
<1>3. ASSUME Active # {} PROVE DispatcherInv'
  <2>1. PICK q \in Active :
          /\ active' = [active EXCEPT ![q] = NoReq]
          /\ MarkTerminal(active[q]) /\ PutEnd(active[q]) /\ EngineAbort(q) /\ UNCHANGED pc
    BY <1>3 DEF FailActive
  <2>2. PICK r : r = active[q]
    OBVIOUS
  <2>3. /\ q \in Seqs /\ pc = "fail_active" /\ cur = NoReq
        /\ r \in Reqs /\ SeqOf[r] = q /\ latest[q] = r
    BY <1>1, <2>1, <2>2 DEF DispatcherType, Running, BeforeRun, Active, FailActive
  <2>4. DispatcherInv'
    <3>1. /\ engine' = [engine EXCEPT ![q] = NoReq]
          /\ active' = [active EXCEPT ![q] = NoReq]
          /\ terminal' = [terminal EXCEPT ![r] = TRUE]
          /\ latest' = [latest EXCEPT ![q] = NoReq]
          /\ ends' = [ends EXCEPT ![r] = @ + 1]
          /\ UNCHANGED <<call, closer, lock, cancelled, hasSeq, admission, tokens, pending,
                          aborts, failed, pc, cur, outs, fin>>
      BY <1>1, <2>1, <2>2, <2>3 DEF DispatcherType, FailActive, MarkTerminal, PutEnd,
         EngineAbort, callerVars, handleVars, queueVars, threadVars
    <3>2. DispatcherType'
      BY <1>1, <2>3, <3>1 DEF DispatcherType
    <3>3. BeforeRun'
      BY <1>1, <2>2, <2>3, <3>1, KeepPending DEF BeforeRun, Fresh, Running
    <3>4. Running'
      BY <1>1, <2>3, <3>1 DEF DispatcherType, Running
    <3>5. Agreement'
      BY <1>1, <2>3, <3>1 DEF Agreement
    <3>6. Asking'
      BY <1>1, <3>1, AskingKept
    <3>7. CancelKept'
      BY <1>1, <2>3, <3>1 DEF LoopStates, CancelKept
    <3>8. QED BY <3>2, <3>3, <3>4, <3>5, <3>6, <3>7 DEF DispatcherInv
  <2>5. QED BY <2>4
<1>4. QED BY <1>2, <1>3

LEMMA FailQueuedStep ==
  ASSUME DispatcherInv, FailQueued
  PROVE  DispatcherInv'
<1>1. DispatcherType /\ BeforeRun /\ Running /\ Agreement /\ Asking /\ CancelKept
  BY DEF DispatcherInv
<1>2. pending # <<>> =>
        /\ pending' \in Seq(Items) /\ Head(pending) \in Items /\ Head(pending) \in Queued
        /\ Queued' \subseteq Queued /\ QueuedOnce' /\ (Head(pending) \in Reqs => Head(pending) \notin Queued')
  BY <1>1, TakePending DEF DispatcherType, BeforeRun, FailQueued
<1>3. pc = "fail_queued" /\ cur = NoReq
  BY <1>1 DEF BeforeRun, FailQueued
<1>4. CASE pending = <<>>
  <2>1. /\ pc' = "fail_controls"
        /\ UNCHANGED <<call, closer, lock, cancelled, terminal, hasSeq, admission, tokens,
                        ends, pending, aborts, failed, active, latest, cur, outs, fin, engine>>
    BY <1>4 DEF FailQueued, Goto, idleThread, callerVars, handleVars, queueVars, threadVars
  <2>2. DispatcherType'
    BY <1>1, <2>1 DEF DispatcherType, EndStates
  <2>3. BeforeRun'
    BY <1>1, <1>3, <2>1, KeepPending DEF BeforeRun, Fresh
  <2>4. Running'
    BY <1>1, <2>1, RunningKept
  <2>5. Agreement'
    BY <1>1, <1>3, <2>1 DEF EndStates, Agreement, Active
  <2>6. Asking'
    BY <1>1, <2>1, AskingKept
  <2>7. CancelKept'
    BY <1>1, <2>1 DEF LoopStates, CancelKept
  <2>8. QED BY <2>2, <2>3, <2>4, <2>5, <2>6, <2>7 DEF DispatcherInv
<1>5. CASE pending # <<>> /\ Head(pending) \in {Stop, Wakeup}
  <2>1. /\ pending # <<>>
        /\ UNCHANGED <<call, closer, lock, cancelled, terminal, hasSeq, admission, tokens,
                        ends, aborts, failed, pc, active, latest, cur, outs, fin, engine>>
    BY <1>5 DEF FailQueued, idleThread, callerVars, handleVars, queueVars, threadVars
  <2>2. DispatcherType'
    BY <1>1, <1>2, <2>1 DEF DispatcherType
  <2>3. BeforeRun'
    BY <1>1, <1>2, <2>1 DEF BeforeRun, Fresh
  <2>4. Running'
    BY <1>1, <2>1, RunningKept
  <2>5. Agreement'
    BY <1>1, <2>1, AgreementKept
  <2>6. Asking'
    BY <1>1, <2>1, AskingKept
  <2>7. CancelKept'
    BY <1>1, <2>1, CancelKeptKept
  <2>8. QED BY <2>2, <2>3, <2>4, <2>5, <2>6, <2>7 DEF DispatcherInv
<1>6. ASSUME pending # <<>>, Head(pending) \notin {Stop, Wakeup} PROVE DispatcherInv'
  <2>1. PICK r : r = Head(pending)
    OBVIOUS
  <2>2. r \in Reqs /\ r \in Queued /\ r \notin Queued' /\ \A q \in Seqs : active[q] # r
    BY <1>1, <1>2, <1>6, <2>1, DispatcherAssumption DEF Items, BeforeRun, Fresh, Running
  <2>3. DispatcherInv'
    <3>1. /\ pending # <<>>
          /\ terminal' = [terminal EXCEPT ![r] = TRUE]
          /\ admission' = [admission EXCEPT ![r] = "error"]
          /\ ends' = [ends EXCEPT ![r] = @ + 1]
          /\ UNCHANGED <<call, closer, lock, cancelled, hasSeq, tokens, aborts, failed, pc,
                          active, latest, cur, outs, fin, engine>>
      BY <1>6, <2>1 DEF FailQueued, ResolveAdmission, PutEnd, idleThread, callerVars,
         handleVars, queueVars, threadVars
    <3>2. DispatcherType'
      BY <1>1, <1>2, <2>2, <3>1 DEF DispatcherType
    <3>3. BeforeRun'
      BY <1>1, <1>2, <1>3, <2>1, <3>1 DEF BeforeRun, Fresh
    <3>4. Running'
      BY <1>1, <2>2, <3>1 DEF Running
    <3>5. Agreement'
      BY <1>1, <3>1, AgreementKept
    <3>6. Asking'
      BY <1>1, <3>1, KeepAborts DEF Asking
    <3>7. CancelKept'
      BY <1>1, <3>1, CancelKeptKept
    <3>8. QED BY <3>2, <3>3, <3>4, <3>5, <3>6, <3>7 DEF DispatcherInv
  <2>4. QED BY <2>3
<1>7. QED BY <1>4, <1>5, <1>6

LEMMA FailControlsStep ==
  ASSUME DispatcherInv, FailControls
  PROVE  DispatcherInv'
<1>1. DispatcherType /\ BeforeRun /\ Running /\ Agreement /\ Asking /\ CancelKept
  BY DEF DispatcherInv
<1>2. /\ pc' \in {"fail_controls", "fail_aborts"}
      /\ pc = "fail_controls"
      /\ UNCHANGED <<call, closer, lock, cancelled, terminal, hasSeq, admission, tokens,
                      ends, pending, aborts, failed, active, latest, cur, outs, fin, engine>>
  BY DEF FailControls, Goto, idleThread, callerVars, handleVars, queueVars, threadVars
<1>3. DispatcherType'
  BY <1>1, <1>2 DEF DispatcherType, EndStates
<1>4. BeforeRun'
  BY <1>1, <1>2, KeepPending DEF BeforeRun, Fresh
<1>5. Running'
  BY <1>1, <1>2, RunningKept
<1>6. Agreement'
  BY <1>1, <1>2 DEF EndStates, Agreement, Active
<1>7. Asking'
  BY <1>1, <1>2, AskingKept
<1>8. CancelKept'
  BY <1>1, <1>2 DEF LoopStates, CancelKept
<1>9. QED BY <1>3, <1>4, <1>5, <1>6, <1>7, <1>8 DEF DispatcherInv

LEMMA FailAbortsStep ==
  ASSUME DispatcherInv, FailAborts
  PROVE  DispatcherInv'
<1>1. DispatcherType /\ BeforeRun /\ Running /\ Agreement /\ Asking /\ CancelKept
  BY DEF DispatcherInv
<1>2. aborts # <<>> =>
        /\ aborts' \in Seq(Aborts) /\ Head(aborts) \in Aborts
        /\ Head(aborts).req \in Reqs /\ Named = {Head(aborts).req} \union Named'
  BY <1>1, TakeAbort DEF DispatcherType, FailAborts
<1>3. pc = "fail_aborts" /\ cur = NoReq /\ \A q \in Seqs : active[q] = NoReq
  BY <1>1 DEF BeforeRun, Agreement, Active, FailAborts
<1>4. CASE aborts = <<>>
  <2>1. /\ pc' = "dead"
        /\ UNCHANGED <<call, closer, lock, cancelled, terminal, hasSeq, admission, tokens,
                        ends, pending, aborts, failed, active, latest, cur, outs, fin, engine>>
    BY <1>4 DEF FailAborts, Goto, idleThread, callerVars, handleVars, queueVars, threadVars
  <2>2. DispatcherType'
    BY <1>1, <2>1 DEF DispatcherType, EndStates
  <2>3. BeforeRun'
    BY <1>1, <1>3, <2>1, KeepPending DEF BeforeRun, Fresh
  <2>4. Running'
    BY <1>1, <2>1, RunningKept
  <2>5. Agreement'
    BY <1>1, <1>3, <2>1 DEF EndStates, Agreement, Active
  <2>6. Asking'
    BY <1>1, <2>1, AskingKept
  <2>7. CancelKept'
    BY <1>1, <1>3, <2>1 DEF CancelKept
  <2>8. QED BY <2>2, <2>3, <2>4, <2>5, <2>6, <2>7 DEF DispatcherInv
<1>5. ASSUME aborts # <<>> PROVE DispatcherInv'
  <2>1. PICK a, r : a = Head(aborts) /\ r = a.req
    OBVIOUS
  <2>2. r \in Reqs /\ hasSeq[r] /\ cancelled[r]
    BY <1>1, <1>2, <1>5, <2>1 DEF Asking
  <2>3. PICK v : /\ call' = [call EXCEPT ![r] = v]
                 /\ <<call[r], v>> \in {<<"dqueued", "danswered">>, <<"waiting", "left">>} \/ v = call[r]
    BY <1>5, <2>1, ResolveEffect DEF FailAborts
  <2>4. DispatcherInv'
    <3>1. /\ aborts # <<>>
          /\ call' = [call EXCEPT ![r] = v]
          /\ terminal' = [terminal EXCEPT ![r] = TRUE]
          /\ UNCHANGED <<closer, lock, cancelled, hasSeq, admission, tokens, ends, pending,
                          failed, pc, active, latest, cur, outs, fin, engine>>
      BY <1>5, <2>1, <2>3 DEF FailAborts, idleThread, callerVars, handleVars, queueVars,
         threadVars
    <3>2. DispatcherType'
      BY <1>1, <1>2, <2>1, <2>3, <3>1 DEF DispatcherType, CallStates
    <3>3. BeforeRun'
      BY <1>1, <1>3, <2>2, <2>3, <3>1, KeepPending DEF BeforeRun, Fresh
    <3>4. Running'
      BY <1>1, <1>3, <3>1 DEF Running
    <3>5. Agreement'
      BY <1>1, <3>1, AgreementKept
    <3>6. Asking'
      BY <1>1, <1>2, <2>3, <3>1 DEF Asking
    <3>7. CancelKept'
      BY <1>1, <1>3, <3>1 DEF CancelKept
    <3>8. QED BY <3>2, <3>3, <3>4, <3>5, <3>6, <3>7 DEF DispatcherInv
  <2>5. QED BY <2>4
<1>6. QED BY <1>4, <1>5

-----------------------------------------------------------------------------
(* The invariant is inductive.                                             *)

LEMMA DispatcherInit == Init => DispatcherInv
<1> SUFFICES ASSUME Init PROVE DispatcherInv
  OBVIOUS
<1>1. DispatcherType
  <2>1. pending \in Seq(Items) /\ aborts \in Seq(Aborts)
    BY DEF Init
  <2>2. /\ active \in [Seqs -> Reqs \union {NoReq}] /\ latest \in [Seqs -> Reqs \union {NoReq}]
        /\ engine \in [Seqs -> Reqs \union {NoReq}] /\ cur \in Reqs \union {NoReq}
        /\ fin \subseteq Seqs /\ outs \subseteq Seqs /\ lock \in Reqs \union Ctls \union {NoReq}
    BY DEF Init
  <2>3. /\ call \in [Reqs -> CallStates] /\ closer \in {"open", "closing", "closed"}
        /\ failed \in BOOLEAN /\ pc \in LoopStates \union EndStates
    BY DEF Init, CallStates, LoopStates
  <2>4. /\ cancelled \in [Reqs -> BOOLEAN] /\ terminal \in [Reqs -> BOOLEAN] /\ hasSeq \in [Reqs -> BOOLEAN]
        /\ admission \in [Reqs -> {"none", "ok", "error"}]
        /\ tokens \in [Reqs -> Nat] /\ ends \in [Reqs -> Nat]
    BY DEF Init
  <2>5. QED BY <2>1, <2>2, <2>3, <2>4 DEF DispatcherType
<1>2. Queued = {} /\ Named = {} /\ QueuedOnce
  BY DEF Init, Queued, Named, QueuedOnce
<1>3. BeforeRun
  BY <1>2, DispatcherAssumption DEF Init, BeforeRun, Fresh
<1>4. Running /\ Agreement
  BY DEF Init, Running, Agreement, Active
<1>5. Asking /\ CancelKept
  BY <1>2, DispatcherAssumption DEF Init, Asking, CancelKept
<1>6. QED BY <1>1, <1>3, <1>4, <1>5 DEF DispatcherInv

LEMMA DispatcherStutter == DispatcherInv /\ UNCHANGED vars => DispatcherInv'
<1> SUFFICES ASSUME DispatcherInv, UNCHANGED vars PROVE DispatcherInv'
  OBVIOUS
<1> USE DEF vars, callerVars, handleVars, queueVars, threadVars
<1>1. DispatcherType'
  BY DEF DispatcherInv, DispatcherType
<1>2. BeforeRun' /\ Running' /\ Agreement'
  BY BeforeRunKept, RunningKept, AgreementKept DEF DispatcherInv
<1>3. Asking' /\ CancelKept'
  BY AskingKept, CancelKeptKept DEF DispatcherInv
<1>4. QED BY <1>1, <1>2, <1>3 DEF DispatcherInv

LEMMA ThreadKeeps == DispatcherInv /\ Thread => DispatcherInv'
<1> SUFFICES ASSUME DispatcherInv, Thread PROVE DispatcherInv'
  OBVIOUS
<1>1. CASE DrainControl \/ EndControls \/ EndAborts
  BY <1>1, DrainControlStep, EndControlsStep, EndAbortsStep
<1>2. CASE AbortSkipped \/ AbortStale \/ AbortActive \/ AbortInactive
  BY <1>2, AbortSkippedStep, AbortStaleStep, AbortActiveStep, AbortInactiveStep
<1>3. CASE Get \/ Drain \/ Admit \/ EnterEngine \/ Activate
  BY <1>3, GetStep, DrainStep, AdmitStep, EnterEngineStep, ActivateStep
<1>4. CASE EngineStep \/ EndDeltas \/ EndFinished
  BY <1>4, EngineStepStep, EndDeltasStep, EndFinishedStep
<1>5. CASE (\E q \in outs : Delta(q)) \/ (\E q \in fin : Finish(q))
  BY <1>5, DeltaStep, FinishStep
<1>6. CASE MarkFailed \/ FailActive \/ FailQueued \/ FailControls \/ FailAborts
  BY <1>6, MarkFailedStep, FailActiveStep, FailQueuedStep, FailControlsStep, FailAbortsStep
<1>7. QED BY <1>1, <1>2, <1>3, <1>4, <1>5, <1>6 DEF Thread

LEMMA CallersKeep == DispatcherInv /\ (Continue \/ Begin) => DispatcherInv'
<1> SUFFICES ASSUME DispatcherInv, Continue \/ Begin PROVE DispatcherInv'
  OBVIOUS
<1>1. ASSUME NEW r \in Reqs, Submit(r) \/ CancelCheck(r) \/ CancelFlag(r) \/ CancelPut(r) \/ CancelWake(r)
      PROVE  DispatcherInv'
  BY <1>1, SubmitStep, CancelCheckStep, CancelFlagStep, CancelPutStep, CancelWakeStep
<1>2. ASSUME NEW r \in Reqs, DiscardFlag(r) \/ DiscardPut(r) \/ DiscardWake(r) \/ DiscardTimeout(r)
      PROVE  DispatcherInv'
  BY <1>2, DiscardFlagStep, DiscardPutStep, DiscardWakeStep, DiscardTimeoutStep
<1>3. ASSUME NEW c \in Ctls, ControlPut(c) \/ ControlWake(c) PROVE DispatcherInv'
  BY <1>3, ControlPutStep, ControlWakeStep
<1>4. CASE CloseFlag \/ CloseStop
  BY <1>4, CloseFlagStep, CloseStopStep
<1>5. QED BY <1>1, <1>2, <1>3, <1>4 DEF Continue, Begin

LEMMA DispatcherInductive == Spec => []DispatcherInv
<1>1. DispatcherInv /\ [Next]_vars => DispatcherInv'
  BY ThreadKeeps, CallersKeep, DispatcherStutter DEF Next
<1>2. QED BY <1>1, DispatcherInit, PTL DEF Spec

-----------------------------------------------------------------------------
(* The theorems.                                                           *)

\* Before every step of the engine each of its sequences belongs to an active
\* request that has not ended, and a loop that blocks for a request has left
\* nothing running: admission, abort, stop string, end of the generation and
\* failure keep _active and the engine together.
THEOREM EngineRunsActive == Spec => []NoOrphans
<1>1. DispatcherInv => NoOrphans
  <2> SUFFICES ASSUME DispatcherInv PROVE NoOrphans
    OBVIOUS
  <2>1. pc \in {"step", "get"} => engine = active /\ \A q \in Active : ~terminal[active[q]]
    BY DEF DispatcherInv, Agreement, Running, Active
  <2>2. pc = "get" => engine = [q \in Seqs |-> NoReq]
    BY <2>1, SMT DEF DispatcherInv, DispatcherType, Agreement, Active
  <2>3. QED BY <2>1, <2>2 DEF NoOrphans
<1>2. QED BY <1>1, DispatcherInductive, PTL

\* A cancel is never lost, wherever in _admit the thread is when the flag is
\* raised: a cancelled request takes part in a step of the engine only while
\* its abort is queued or on its way to the queue, or the server closes.
THEOREM CancelsArrive == Spec => []CancelNotLost
<1>1. DispatcherInv => CancelNotLost
  BY DEF DispatcherInv, CancelKept, CancelNotLost, LoopStates, OnItsWay, Named, Active
<1>2. QED BY <1>1, DispatcherInductive, PTL

\* Nothing follows the terminal event of a stream, whether submit, _admit, a
\* stop string, the end of the generation or the failure of the thread put it:
\* whoever gets a token or an end is still held by the owner that gives it.
THEOREM StreamsEndOnce == Spec => EndIsFinal
<1>1. ASSUME DispatcherInv, [Next]_vars, NEW r \in Reqs, ends[r] = 1
      PROVE  tokens'[r] = tokens[r] /\ ends'[r] = 1
  <2> USE DEF DispatcherInv, DispatcherType
  <2>1. ASSUME NEW s \in Reqs, Submit(s) PROVE tokens'[r] = tokens[r] /\ ends'[r] = 1
    BY <1>1, <2>1 DEF Submit, PutEnd, BeforeRun, Fresh
  <2>2. CASE \E s \in Reqs : \/ CancelCheck(s) \/ CancelFlag(s) \/ CancelPut(s) \/ CancelWake(s)
                             \/ DiscardFlag(s) \/ DiscardPut(s) \/ DiscardWake(s) \/ DiscardTimeout(s)
    BY <1>1, <2>2 DEF CancelCheck, CancelFlag, CancelPut, CancelWake, DiscardFlag, DiscardPut,
       DiscardWake, DiscardTimeout, handleVars
  <2>3. CASE (\E c \in Ctls : ControlPut(c) \/ ControlWake(c)) \/ CloseFlag \/ CloseStop
    BY <1>1, <2>3 DEF ControlPut, ControlWake, CloseFlag, CloseStop, handleVars
  <2>4. CASE \/ DrainControl \/ EndControls \/ EndAborts \/ Get \/ Drain \/ EngineStep
             \/ EndDeltas \/ EndFinished \/ MarkFailed \/ FailControls \/ FailAborts
    BY <1>1, <2>4 DEF DrainControl, EndControls, EndAborts, Get, Drain, EngineStep, EndDeltas,
       EndFinished, MarkFailed, FailControls, FailAborts, handleVars
  <2>5. CASE AbortSkipped \/ AbortStale \/ AbortActive \/ AbortInactive
    BY <1>1, <2>5 DEF AbortSkipped, AbortStale, AbortActive, AbortInactive, PopAbort
  <2>6. ASSUME \E e \in BOOLEAN : Refuse(cur, e), cur \in Reqs, ends[cur] = 0, tokens' = tokens
        PROVE  tokens'[r] = tokens[r] /\ ends'[r] = 1
    BY <1>1, <2>6, RefuseEffect
  <2>7. CASE Admit \/ EnterEngine \/ Activate
    <3>1. cur \in Reqs /\ ends[cur] = 0 /\ tokens' = tokens
      BY <1>1, <2>7 DEF BeforeRun, Fresh, Admit, EnterEngine, Activate
    <3>2. (\E e \in BOOLEAN : Refuse(cur, e)) \/ ends' = ends
      BY <2>7 DEF Admit, EnterEngine, Activate
    <3>3. QED BY <1>1, <2>6, <3>1, <3>2
  <2>8. ASSUME NEW q \in outs, Delta(q) PROVE tokens'[r] = tokens[r] /\ ends'[r] = 1
    BY <1>1, <2>8 DEF Running, Delta, PutEnd
  <2>9. ASSUME NEW q \in fin, Finish(q) PROVE tokens'[r] = tokens[r] /\ ends'[r] = 1
    BY <1>1, <2>9 DEF Running, Finish, PutEnd
  <2>10. CASE FailActive
    BY <1>1, <2>10 DEF Running, FailActive, PutEnd, Active
  <2>11. CASE FailQueued
    <3>1. CASE pending = <<>> \/ Head(pending) \in {Stop, Wakeup}
      BY <1>1, <2>11, <3>1 DEF FailQueued
    <3>2. CASE pending # <<>> /\ Head(pending) \notin {Stop, Wakeup}
      <4>1. Head(pending) \in Queued /\ Head(pending) \in Items
        BY <1>1, <2>11, <3>2, TakePending DEF FailQueued
      <4>2. ends[Head(pending)] = 0 /\ Head(pending) \in Reqs
        BY <1>1, <3>2, <4>1 DEF BeforeRun, Fresh, Items
      <4>3. QED BY <1>1, <2>11, <3>2, <4>2 DEF FailQueued, PutEnd
    <3>3. QED BY <3>1, <3>2
  <2>12. CASE UNCHANGED vars
    BY <1>1, <2>12 DEF vars, handleVars
  <2>13. QED BY <1>1, <2>1, <2>2, <2>3, <2>4, <2>5, <2>7, <2>8, <2>9, <2>10, <2>11, <2>12
           DEF Next, Thread, Continue, Begin
<1>2. DispatcherInv /\ [Next]_vars
        => [\A r \in Reqs : ends[r] = 1 => tokens'[r] = tokens[r] /\ ends'[r] = 1]_vars
  BY <1>1
<1>3. QED BY <1>2, DispatcherInductive, PTL DEF Spec, EndIsFinal

\* An abort ends only the run of the request it names, although the next turn
\* of the conversation runs under the same sequence id: whoever loses his run
\* while aborts are drained was cancelled or discarded by his own client.
THEOREM AbortsHitTheirOwn == Spec => OnlyOwnAborts
<1>1. ASSUME DispatcherInv, [Next]_vars, NEW q \in Seqs, pc \in {"aborts", "aborts2"},
             engine[q] # NoReq, engine'[q] # engine[q]
      PROVE  cancelled[engine[q]]
  <2> USE DEF DispatcherInv, DispatcherType
  <2>1. engine = active
    BY <1>1 DEF Agreement
  <2>2. AbortActive \/ AbortInactive
    <3>1. ~UNCHANGED engine
      BY <1>1
    <3>2. ~UNCHANGED vars /\ ~Begin /\ ~Continue
      BY <3>1 DEF vars, Begin, Continue, Submit, CancelCheck, DiscardFlag, DiscardTimeout, ControlPut,
         CloseFlag, CancelFlag, CancelPut, CancelWake, DiscardPut, DiscardWake, ControlWake, CloseStop
    <3>3. ~(DrainControl \/ EndControls \/ EndAborts \/ AbortSkipped \/ AbortStale)
      BY <3>1 DEF DrainControl, EndControls, EndAborts, AbortSkipped, AbortStale
    <3>4. ~(Get \/ Drain \/ Admit \/ EnterEngine \/ Activate \/ EngineStep)
      BY <1>1 DEF Get, Drain, Admit, EnterEngine, Activate, EngineStep
    <3>5. ~((\E p \in outs : Delta(p)) \/ EndDeltas \/ (\E p \in fin : Finish(p)) \/ EndFinished)
      BY <1>1 DEF Delta, EndDeltas, Finish, EndFinished
    <3>6. ~(MarkFailed \/ FailActive \/ FailQueued \/ FailControls \/ FailAborts)
      BY <1>1 DEF MarkFailed, FailActive, FailQueued, FailControls, FailAborts
    <3>7. QED BY <1>1, <3>2, <3>3, <3>4, <3>5, <3>6 DEF Next, Thread
  <2>3. PICK a : a = Head(aborts)
    OBVIOUS
  <2>4. a.req \in Reqs /\ cancelled[a.req]
    BY <1>1, <2>2, <2>3, TakeAbort DEF Asking, AbortActive, AbortInactive, PopAbort
  <2>5. CASE AbortActive
    <3>1. SeqOf[a.req] \in Seqs /\ active[SeqOf[a.req]] = a.req
      BY <1>1, <2>3, <2>4, <2>5, DispatcherAssumption DEF AbortActive, StaleAbort
    <3>2. engine' = engine \/ engine' = [engine EXCEPT ![SeqOf[a.req]] = NoReq]
      BY <2>3, <2>5 DEF AbortActive, EngineAbort
    <3>3. QED BY <1>1, <2>1, <2>4, <3>1, <3>2
  <2>6. CASE AbortInactive
    <3>1. active[SeqOf[a.req]] = NoReq
      BY <2>3, <2>6 DEF AbortInactive
    <3>2. engine' = engine \/ engine' = [engine EXCEPT ![SeqOf[a.req]] = NoReq]
      BY <2>3, <2>6 DEF AbortInactive, EngineAbort
    <3>3. QED BY <1>1, <2>1, <3>1, <3>2
  <2>7. QED BY <2>2, <2>5, <2>6
<1>2. DispatcherInv /\ [Next]_vars
        => [\A q \in Seqs : pc \in {"aborts", "aborts2"} /\ engine[q] # NoReq /\ engine'[q] # engine[q]
              => cancelled[engine[q]]]_vars
  BY <1>1
<1>3. QED BY <1>2, DispatcherInductive, PTL DEF Spec, OnlyOwnAborts

=============================================================================
