------------------------------ MODULE TpChannel ------------------------------
(***************************************************************************)
(* The command channel between rank 0 and the worker processes:            *)
(* ModelRunner.loop, read_shm, write_shm, call and the status              *)
(* synchronisation (engine/model_runner.py), and LLMEngine.exit with       *)
(* _shutdown_runtime (engine/llm_engine.py).                               *)
(*                                                                         *)
(* One buffer in shared memory holds the last command.  Every worker has a *)
(* command event, a completion event and a status byte.  A call whose      *)
(* status is synchronised does not wait until the workers have read the    *)
(* command; it meets them later, through the status bytes or in a          *)
(* collective.                                                             *)
(*                                                                         *)
(* A command is its number; calls says which method it is.  Methods stands *)
(* for one member of each class the code distinguishes.  The n-th          *)
(* collective a rank enters meets the n-th of every other rank: that is    *)
(* torch.distributed's rule.  log, status.of, failedAt and skipped are     *)
(* history.                                                                *)
(***************************************************************************)
EXTENDS Naturals, Sequences, FiniteSets

CONSTANTS
  N,            \* workers: world_size - 1
  MaxCalls,     \* bound on the calls before exit
  Methods,      \* methods rank 0 calls
  DecodeGraph,  \* config.decode_graph
  FailPoints,   \* where a rank may raise: "before" the collective of a
                \* method's body, "after" it (or in a body without one), or
                \* "diverge": the result differs from the other ranks'
  Forced        \* may exit be called while a call is under way?

ASSUME TpAssumption ==
  /\ N \in Nat \ {0}
  /\ MaxCalls \in Nat
  /\ Methods \subseteq {"run", "free_slots", "chain_invalidate", "chain_validate_admission_plan",
                        "begin_startup_memory_profile", "capture_startup_memory_snapshot",
                        "set_tokenizer_metadata"}
  /\ FailPoints \subseteq {"before", "after", "diverge"}
  /\ {DecodeGraph, Forced} \subseteq BOOLEAN

Workers == 1..N
Ranks == 0..N
Threads == {"call", "exit"}

RECOVERABLE_TP_CONTROL_RPC_METHODS ==
  {"free_slots", "chain_validate_admission_plan", "begin_startup_memory_profile",
   "capture_startup_memory_snapshot"}

HOST_STATUS_SYNC_METHODS ==
  {"begin_startup_memory_profile", "capture_startup_memory_snapshot"}

TP_RPC_STATUS_SYNC_METHODS ==
  HOST_STATUS_SYNC_METHODS \cup
  {"run", "free_slots", "chain_invalidate", "chain_validate_admission_plan"}

\* How call() learns what became of the method on the other ranks.
Sync(m) ==
  IF m \notin TP_RPC_STATUS_SYNC_METHODS THEN "ack"
  ELSE IF m \in HOST_STATUS_SYNC_METHODS \/ (m = "run" /\ DecodeGraph) THEN "host"
  ELSE "reduce"

\* Methods whose body is itself a collective: the forward pass, and the records
\* _gather_startup_record collects.
Collective == {"run", "capture_startup_memory_snapshot"}

\* Methods whose results are compared between the ranks.
Gathers == {"chain_invalidate", "chain_validate_admission_plan"}

VARIABLES
  calls,       \* the methods of the commands written so far
  buffer,      \* the command in shared memory; 0: none
  command,     \* command_event of every worker
  completion,  \* completion_event of every worker
  status,      \* status byte of every worker, and the command it is about
  thread,      \* rank 0: the caller's thread and the exit thread
  worker,      \* the worker processes
  entered,     \* the collectives every rank has entered
  shmOpen,     \* rank 0 still has the shared memory
  result,      \* what call() returned for a command: "ok" or "error"
  log,         \* the commands every worker has taken up
  failedAt,    \* the commands that raised on a worker
  skipped      \* the commands in whose body a rank raised in front of the collective

channel == <<buffer, command, completion, status>>
vars == <<calls, channel, thread, worker, entered, shmOpen, result, log, failedAt, skipped>>

NoStatus == [value |-> "pending", of |-> 0]

-----------------------------------------------------------------------------
(* Collectives of torch.distributed (external).                            *)

\* Rank r enters a collective with its contribution.
Enter(r, id, kind, flag) ==
  entered' = [entered EXCEPT ![r] = Append(@, [id |-> id, kind |-> kind, flag |-> flag])]

\* Everybody has entered the n-th collective.
Met(n) == \A r \in Ranks : Len(entered[r]) >= n

Flags(n) == {entered[r][n].flag : r \in Ranks}

\* The MAX of the failure flags; for gathered results: do they differ?
Bad(n) ==
  LET all == Flags(n)
  IN  IF entered[0][n].kind = "gather" THEN Cardinality(all) > 1 ELSE TRUE \in all

\* The contributions a rank may make to the comparison of results.
Results == {FALSE} \cup {TRUE : p \in FailPoints \cap {"diverge"}}

\* Does the body raise at this point?
Outcomes(point) == {FALSE} \cup {TRUE : p \in FailPoints \cap {point}}

\* Does the body of m raise before it is over, or before its collective?
FirstOutcomes(m) == IF m \in Collective THEN Outcomes("before") ELSE Outcomes("after")

\* The commands whose collective was skipped, once the body of command id has
\* or has not raised in front of it.
Skipping(id, error) == skipped \cup {k \in {id} : error /\ calls[k] \in Collective}

-----------------------------------------------------------------------------
(* Rank 0: call and write_shm.                                             *)

\* The method the thread is at.
Method(t) == calls[thread[t].id]

\* A worker that will not answer: it is gone, or it waits in a collective that
\* somebody has not entered.
Stuck(w) ==
  \/ worker[w].pc \in {"dead", "exited"}
  \/ worker[w].pc = "collective" /\ ~Met(Len(entered[w]))

\* A worker that has done all it can for now.
Settled(w) == Stuck(w) \/ (worker[w].pc = "read" /\ ~command[w])

\* A timeout is long: it expires on a stuck worker, after the others have done
\* what they can.
Expires(w) == Stuck(w) /\ \A v \in Workers : Settled(v)

\* The beginning of write_shm: the command goes into the buffer.
Write(t, m) ==
  /\ calls' = Append(calls, m)
  /\ buffer' = Len(calls) + 1
  /\ thread' = [thread EXCEPT ![t] = [pc |-> "signal", id |-> Len(calls) + 1, rank |-> 1,
                                      error |-> FALSE, at |-> 0]]
  /\ UNCHANGED <<command, completion, status, worker, entered, shmOpen, log, failedAt, skipped>>

\* The engine calls a method.
Call(m) ==
  /\ thread["call"].pc = "idle" /\ thread["exit"].pc = "idle"
  /\ Len(calls) < MaxCalls
  /\ Write("call", m)
  /\ UNCHANGED result

\* Mutant: the read acknowledgement is skipped for every method.
AfterSignalNever(m) == "body"

\* Where write_shm goes on: a method that is not synchronised waits until every
\* worker has read the command.
AfterSignal(m) == IF Sync(m) = "ack" THEN "ack" ELSE "body"

\* The next worker of a loop over self.event, or the first for the next loop.
NextRank(w) == IF w < N THEN w + 1 ELSE 1

\* Mutant: the answer to an earlier command is left in place.
ResetNothing(w) == UNCHANGED <<completion, status>>

\* The completion event and the status byte are reset before the worker is woken.
Reset(w) ==
  /\ completion' = [completion EXCEPT ![w] = FALSE]
  /\ status' = [status EXCEPT ![w] = NoStatus]

\* One iteration of the signalling loop.
Signal(t) ==
  LET w == thread[t].rank
      next == IF w < N THEN "signal" ELSE AfterSignal(Method(t))
  IN  /\ thread[t].pc = "signal" /\ shmOpen
      /\ Reset(w)
      /\ command' = [command EXCEPT ![w] = TRUE]
      /\ thread' = [thread EXCEPT ![t].pc = next, ![t].rank = NextRank(w)]
      /\ UNCHANGED <<calls, buffer, worker, entered, shmOpen, result, log, failedAt, skipped>>

\* call() returns.
Return(t, outcome) ==
  /\ thread' = [thread EXCEPT ![t].pc = IF t = "exit" THEN "reap" ELSE "idle", ![t].rank = 1]
  /\ result' = [result EXCEPT ![thread[t].id] = outcome]

\* One worker has read the command.
Acknowledged(t) ==
  LET w == thread[t].rank
  IN  /\ thread[t].pc = "ack"
      /\ ~command[w]
      /\ thread' = [thread EXCEPT ![t].pc = IF w < N THEN "ack" ELSE "body",
                                  ![t].rank = NextRank(w)]
      /\ UNCHANGED <<calls, channel, worker, entered, shmOpen, result, log, failedAt, skipped>>

\* SPARSEVLLM_TP_RPC_ACK_TIMEOUT_S
AckTimeout(t) ==
  /\ thread[t].pc = "ack"
  /\ command[thread[t].rank] /\ Expires(thread[t].rank)
  /\ Return(t, "error")
  /\ UNCHANGED <<calls, channel, worker, entered, shmOpen, log, failedAt, skipped>>

\* Mutant: a method that raised on rank 0 is not synchronised.
FinishSkipsSync(error) ==
  LET t == "call"
  IN  CASE error \/ Sync(Method(t)) = "ack" ->
             Return(t, IF error THEN "error" ELSE "ok") /\ UNCHANGED entered
        [] ~error /\ Sync(Method(t)) = "host" ->
             /\ thread' = [thread EXCEPT ![t].pc = "status", ![t].error = error]
             /\ UNCHANGED <<entered, result>>
        [] OTHER ->
             /\ Enter(0, thread[t].id, "reduce", error)
             /\ thread' = [thread EXCEPT ![t].pc = "collective", ![t].error = error,
                                         ![t].at = Len(entered[0]) + 1]
             /\ UNCHANGED result

\* What follows the method's body on rank 0: nothing, the status bytes or the
\* all-reduce.
Finish(error) ==
  LET t == "call"
  IN  CASE Sync(Method(t)) = "ack" ->
             Return(t, IF error THEN "error" ELSE "ok") /\ UNCHANGED entered
        [] Sync(Method(t)) = "host" ->
             /\ thread' = [thread EXCEPT ![t].pc = "status", ![t].error = error]
             /\ UNCHANGED <<entered, result>>
        [] OTHER ->
             /\ Enter(0, thread[t].id, "reduce", error)
             /\ thread' = [thread EXCEPT ![t].pc = "collective", ![t].error = error,
                                         ![t].at = Len(entered[0]) + 1]
             /\ UNCHANGED result

\* The method on rank 0, up to the collective in its body if it has one.
Body(error) ==
  /\ thread["call"].pc = "body" /\ shmOpen
  /\ error \in FirstOutcomes(Method("call"))
  /\ IF Method("call") \in Collective /\ ~error
     THEN /\ Enter(0, thread["call"].id, "body", FALSE)
          /\ thread' = [thread EXCEPT !["call"].pc = "collective",
                                      !["call"].at = Len(entered[0]) + 1]
          /\ UNCHANGED result
     ELSE Finish(error)
  /\ skipped' = Skipping(thread["call"].id, error)
  /\ UNCHANGED <<calls, channel, worker, shmOpen, log, failedAt>>

\* Rank 0 leaves the collective of the body.
LeaveBody(error) ==
  LET at == thread["call"].at
  IN  /\ thread["call"].pc = "collective" /\ Met(at) /\ shmOpen
      /\ entered[0][at].kind = "body"
      /\ error \in Outcomes("after")
      /\ Finish(error)
      /\ UNCHANGED <<calls, channel, worker, shmOpen, log, failedAt, skipped>>

\* _sync_tp_rpc_status on rank 0, then _sync_chain_cache_result.
LeaveReduce(differs) ==
  LET at == thread["call"].at
      ok == ~Bad(at)
  IN  /\ thread["call"].pc = "collective" /\ Met(at) /\ shmOpen
      /\ entered[0][at].kind = "reduce"
      /\ differs \in Results
      /\ IF ok /\ Method("call") \in Gathers
         THEN /\ Enter(0, thread["call"].id, "gather", differs)
              /\ thread' = [thread EXCEPT !["call"].at = Len(entered[0]) + 1]
              /\ UNCHANGED result
         ELSE Return("call", IF ok THEN "ok" ELSE "error") /\ UNCHANGED entered
      /\ UNCHANGED <<calls, channel, worker, shmOpen, log, failedAt, skipped>>

\* The results are compared.
LeaveGather ==
  LET at == thread["call"].at
  IN  /\ thread["call"].pc = "collective" /\ Met(at) /\ shmOpen
      /\ entered[0][at].kind = "gather"
      /\ Return("call", IF Bad(at) THEN "error" ELSE "ok")
      /\ UNCHANGED <<calls, channel, worker, entered, shmOpen, log, failedAt, skipped>>

\* Mutant: only the last worker's answer counts.
BadStatusOfLast(error, value) == value = "failed"

\* The failures seen so far, after one more status byte.
BadStatus(error, value) == error \/ value = "failed"

\* _sync_tp_host_status on rank 0, one worker.
TakeStatus ==
  LET w == thread["call"].rank
      error == BadStatus(thread["call"].error, status[w].value)
  IN  /\ thread["call"].pc = "status" /\ shmOpen
      /\ completion[w]
      /\ completion' = [completion EXCEPT ![w] = FALSE]
      /\ IF status[w].value = "pending" THEN Return("call", "error")
         ELSE IF w < N
         THEN /\ thread' = [thread EXCEPT !["call"].rank = w + 1, !["call"].error = error]
              /\ UNCHANGED result
         ELSE Return("call", IF error THEN "error" ELSE "ok")
      /\ UNCHANGED <<calls, buffer, command, status, worker, entered, shmOpen, log, failedAt, skipped>>

\* SPARSEVLLM_TP_RPC_STATUS_TIMEOUT_S
StatusTimeout ==
  LET w == thread["call"].rank
  IN  /\ thread["call"].pc = "status" /\ shmOpen
      /\ ~completion[w] /\ Expires(w)
      /\ Return("call", "error")
      /\ UNCHANGED <<calls, channel, worker, entered, shmOpen, log, failedAt, skipped>>

-----------------------------------------------------------------------------
(* The worker: loop, read_shm and call.                                    *)

\* read_shm up to pickle.loads
Load(w) ==
  /\ worker[w].pc = "read" /\ command[w]
  /\ worker' = [worker EXCEPT ![w] = [pc |-> "clear", id |-> buffer, error |-> FALSE]]
  /\ log' = [log EXCEPT ![w] = Append(@, buffer)]
  /\ UNCHANGED <<calls, channel, thread, entered, shmOpen, result, failedAt, skipped>>

\* read_shm, after the command is copied
Clear(w) ==
  /\ worker[w].pc = "clear"
  /\ command' = [command EXCEPT ![w] = FALSE]
  /\ worker' = [worker EXCEPT ![w].pc = "body"]
  /\ UNCHANGED <<calls, buffer, completion, status, thread, entered, shmOpen, result, log, failedAt, skipped>>

\* The method the worker is at.
Task(w) == calls[worker[w].id]

\* Mutant: no method is recoverable.
AfterCallFatal(w, error) == IF error THEN "dead" ELSE "read"

\* The handler in loop(): where the worker is after call() returned or raised.
AfterCall(w, error) ==
  IF error /\ Task(w) \notin RECOVERABLE_TP_CONTROL_RPC_METHODS THEN "dead" ELSE "read"

\* What follows the method's body on a worker.
WorkerFinish(w, error) ==
  /\ failedAt' = [failedAt EXCEPT ![w] = IF error THEN @ \cup {worker[w].id} ELSE @]
  /\ CASE Sync(Task(w)) = "ack" ->
            /\ worker' = [worker EXCEPT ![w].pc = AfterCall(w, error)]
            /\ UNCHANGED entered
       [] Sync(Task(w)) = "host" ->
            /\ worker' = [worker EXCEPT ![w].pc = "report", ![w].error = error]
            /\ UNCHANGED entered
       [] OTHER ->
            /\ Enter(w, worker[w].id, "reduce", error)
            /\ worker' = [worker EXCEPT ![w].pc = "collective", ![w].error = error]

\* The method on a worker, up to the collective in its body if it has one.
WorkerBody(w, error) ==
  /\ worker[w].pc = "body" /\ Task(w) # "exit"
  /\ error \in FirstOutcomes(Task(w))
  /\ IF Task(w) \in Collective /\ ~error
     THEN /\ Enter(w, worker[w].id, "body", FALSE)
          /\ worker' = [worker EXCEPT ![w].pc = "collective"]
          /\ UNCHANGED failedAt
     ELSE WorkerFinish(w, error)
  /\ skipped' = Skipping(worker[w].id, error)
  /\ UNCHANGED <<calls, channel, thread, shmOpen, result, log>>

\* A worker leaves the collective of the body.
WorkerLeaveBody(w, error) ==
  LET at == Len(entered[w])
  IN  /\ worker[w].pc = "collective" /\ Met(at)
      /\ entered[w][at].kind = "body"
      /\ error \in Outcomes("after")
      /\ WorkerFinish(w, error)
      /\ UNCHANGED <<calls, channel, thread, shmOpen, result, log, skipped>>

\* _sync_tp_rpc_status on a worker, then _sync_chain_cache_result.
WorkerLeaveReduce(w, differs) ==
  LET at == Len(entered[w])
      ok == ~Bad(at)
  IN  /\ worker[w].pc = "collective" /\ Met(at)
      /\ entered[w][at].kind = "reduce"
      /\ differs \in Results
      /\ IF ok /\ Task(w) \in Gathers
         THEN Enter(w, worker[w].id, "gather", differs) /\ UNCHANGED worker
         ELSE /\ worker' = [worker EXCEPT ![w].pc = AfterCall(w, ~ok)]
              /\ UNCHANGED entered
      /\ UNCHANGED <<calls, channel, thread, shmOpen, result, log, failedAt, skipped>>

\* The results are compared.
WorkerLeaveGather(w) ==
  LET at == Len(entered[w])
  IN  /\ worker[w].pc = "collective" /\ Met(at)
      /\ entered[w][at].kind = "gather"
      /\ worker' = [worker EXCEPT ![w].pc = AfterCall(w, Bad(at))]
      /\ UNCHANGED <<calls, channel, thread, entered, shmOpen, result, log, failedAt, skipped>>

\* _sync_tp_host_status on a worker: the status byte ...
Report(w) ==
  /\ worker[w].pc = "report"
  /\ status' = [status EXCEPT ![w] = [value |-> IF worker[w].error THEN "failed" ELSE "success",
                                      of |-> worker[w].id]]
  /\ worker' = [worker EXCEPT ![w].pc = "reported"]
  /\ UNCHANGED <<calls, buffer, command, completion, thread, entered, shmOpen, result, log, failedAt, skipped>>

\* ... and the completion event.
Announce(w) ==
  /\ worker[w].pc = "reported"
  /\ completion' = [completion EXCEPT ![w] = TRUE]
  /\ worker' = [worker EXCEPT ![w].pc = AfterCall(w, worker[w].error)]
  /\ UNCHANGED <<calls, buffer, command, status, thread, entered, shmOpen, result, log, failedAt, skipped>>

-----------------------------------------------------------------------------
(* Shutdown: LLMEngine.exit, ModelRunner.exit, _shutdown_runtime.          *)

\* exit() starts the exit thread, which calls "exit".  The dispatcher does so
\* after its own thread has ended or, if Forced, while it is still in a call.
Exit ==
  /\ thread["exit"].pc = "idle"
  /\ thread["call"].pc = "idle" \/ Forced
  /\ Write("exit", "exit")
  /\ UNCHANGED result

\* ModelRunner.exit on rank 0, up to the barrier.
ExitBody ==
  /\ thread["exit"].pc = "body"
  /\ Enter(0, thread["exit"].id, "barrier", FALSE)
  /\ shmOpen' = FALSE
  /\ thread' = [thread EXCEPT !["exit"].pc = "collective", !["exit"].at = Len(entered[0]) + 1]
  /\ UNCHANGED <<calls, channel, worker, result, log, failedAt, skipped>>

\* Rank 0 passes the barrier.
ExitPassed ==
  /\ thread["exit"].pc = "collective" /\ Met(thread["exit"].at)
  /\ Return("exit", "ok")
  /\ UNCHANGED <<calls, channel, worker, entered, shmOpen, log, failedAt, skipped>>

\* ModelRunner.exit on a worker, up to the barrier.
WorkerExit(w) ==
  /\ worker[w].pc = "body" /\ Task(w) = "exit"
  /\ Enter(w, worker[w].id, "barrier", FALSE)
  /\ worker' = [worker EXCEPT ![w].pc = "collective"]
  /\ UNCHANGED <<calls, channel, thread, shmOpen, result, log, failedAt, skipped>>

\* A worker passes the barrier and leaves its loop.
WorkerExitPassed(w) ==
  LET at == Len(entered[w])
  IN  /\ worker[w].pc = "collective" /\ Met(at)
      /\ entered[w][at].kind = "barrier"
      /\ worker' = [worker EXCEPT ![w].pc = "exited"]
      /\ UNCHANGED <<calls, channel, thread, entered, shmOpen, result, log, failedAt, skipped>>

\* SPARSEVLLM_ENGINE_EXIT_TIMEOUT_S: the exit thread is given up and the shared
\* memory is closed.
ExitTimeout ==
  /\ thread["exit"].pc \in {"signal", "ack", "body", "collective"}
  /\ Forced \/ \E w \in Workers : Expires(w)
  /\ shmOpen' = FALSE
  /\ thread' = [thread EXCEPT !["exit"].pc = "reap", !["exit"].rank = 1]
  /\ UNCHANGED <<calls, channel, worker, entered, result, log, failedAt, skipped>>

\* Mutant: a worker that does not stop by itself is left alone.
StopNothing(pc) == pc

\* join with a timeout, then terminate and kill.
Stop(pc) == IF pc = "exited" THEN pc ELSE "dead"

\* One worker process is joined: it has left its loop, has died, or is stopped.
Reap ==
  LET w == thread["exit"].rank
  IN  /\ thread["exit"].pc = "reap"
      /\ worker[w].pc \in {"exited", "dead"} \/ Forced \/ Expires(w)
      /\ worker' = [worker EXCEPT ![w].pc = Stop(@)]
      /\ shmOpen' = FALSE
      /\ thread' = [thread EXCEPT !["exit"].pc = IF w < N THEN "reap" ELSE "done",
                                  !["exit"].rank = IF w < N THEN w + 1 ELSE w]
      /\ UNCHANGED <<calls, channel, entered, result, log, failedAt, skipped>>

-----------------------------------------------------------------------------

NoThread == [pc |-> "idle", id |-> 0, rank |-> 1, error |-> FALSE, at |-> 0]

Init ==
  /\ calls = <<>>
  /\ buffer = 0
  /\ command = [w \in Workers |-> FALSE]
  /\ completion = [w \in Workers |-> FALSE]
  /\ status = [w \in Workers |-> NoStatus]
  /\ thread = [t \in Threads |-> NoThread]
  /\ worker = [w \in Workers |-> [pc |-> "read", id |-> 0, error |-> FALSE]]
  /\ entered = [r \in Ranks |-> <<>>]
  /\ shmOpen = TRUE
  /\ result = [id \in 1..(MaxCalls + 1) |-> "none"]
  /\ log = [w \in Workers |-> <<>>]
  /\ failedAt = [w \in Workers |-> {}]
  /\ skipped = {}

\* Rank 0 inside call().
Rank0Step ==
  \/ Signal("call") \/ Acknowledged("call") \/ AckTimeout("call")
  \/ \E flag \in BOOLEAN : Body(flag) \/ LeaveBody(flag) \/ LeaveReduce(flag)
  \/ LeaveGather \/ TakeStatus \/ StatusTimeout

\* A worker process.
WorkerStep(w) ==
  \/ Load(w) \/ Clear(w)
  \/ \E flag \in BOOLEAN :
       WorkerBody(w, flag) \/ WorkerLeaveBody(w, flag) \/ WorkerLeaveReduce(w, flag)
  \/ WorkerLeaveGather(w) \/ Report(w) \/ Announce(w)
  \/ WorkerExit(w) \/ WorkerExitPassed(w)

\* Rank 0 inside exit().
ExitStep ==
  \/ Signal("exit") \/ Acknowledged("exit") \/ AckTimeout("exit")
  \/ ExitBody \/ ExitPassed \/ ExitTimeout \/ Reap

Next ==
  \/ \E m \in Methods : Call(m)
  \/ Exit
  \/ Rank0Step
  \/ \E w \in Workers : WorkerStep(w)
  \/ ExitStep

Spec == Init /\ [][Next]_vars

\* Processes and threads are scheduled, and timeouts expire.
FairSpec ==
  /\ Spec
  /\ WF_vars(Rank0Step)
  /\ WF_vars(ExitStep)
  /\ \A w \in Workers : WF_vars(WorkerStep(w))

-----------------------------------------------------------------------------
(* Properties.                                                             *)

\* One rank has raised in front of the collective of a body that another rank
\* has entered, and which it will now wait in.
Deserted ==
  \E r \in Ranks : \E n \in 1..Len(entered[r]) :
    entered[r][n].kind = "body" /\ entered[r][n].id \in skipped

\* The states tp_calls explores: what is deserted stays so, because entered and
\* skipped only grow.
NobodyDeserted == ~Deserted

\* Every worker takes up every command once and in the order they were called:
\* although most calls do not wait for a read acknowledgement, the one buffer is
\* never overwritten before every worker has read it and no wake-up is lost.
InOrder ==
  ~Deserted => \A w \in Workers : \A i \in 1..Len(log[w]) : log[w][i] = i

\* The answer rank 0 finds behind a completion event is the answer to the call
\* it is in, never one that was left over from an earlier call.
StatusIsCurrent ==
  ~Deserted /\ thread["call"].pc = "status" =>
    \A w \in Workers : (completion[w] /\ w >= thread["call"].rank) => status[w].of = thread["call"].id

\* A synchronised call that returns normally on rank 0 has raised nowhere.
FailureReported ==
  ~Deserted =>
    \A id \in 1..Len(calls) :
      (result[id] = "ok" /\ Sync(calls[id]) # "ack") => \A w \in Workers : id \notin failedAt[w]

\* All ranks enter the same collectives in the same order, nobody's all-reduce
\* meets somebody else's gather or barrier: whatever raises, on some ranks or on
\* all, until a rank deserts the collective of a body.
CollectivesMatch ==
  ~Deserted =>
    \A r, s \in Ranks : \A n \in 1..Len(entered[r]) :
      n <= Len(entered[s]) => /\ entered[r][n].id = entered[s][n].id
                              /\ entered[r][n].kind = entered[s][n].kind

\* A method that is not recoverable has raised somewhere.
FatalFailure ==
  \E id \in 1..Len(calls) :
    /\ calls[id] \notin RECOVERABLE_TP_CONTROL_RPC_METHODS
    /\ result[id] = "error" \/ \E w \in Workers : id \in failedAt[w]

\* Recoverable methods may raise in any place on any ranks, or end differently
\* on them: rank 0 and the workers never all wait for each other inside a call,
\* and a call that has returned leaves no worker dead or stuck, until a method that
\* is not recoverable fails, a rank deserts the collective of a body, or the engine
\* is shut down.  No rank loops inside a call, so every call returns.
CallsReturn ==
  ~FatalFailure /\ ~Deserted /\ thread["exit"].pc = "idle" =>
    IF thread["call"].pc = "idle" THEN \A w \in Workers : ~Stuck(w)
    ELSE ENABLED (Rank0Step \/ \E w \in Workers : WorkerStep(w))

\* exit() ends, and with it every worker process, whatever state the engine is
\* in: workers dead, blocked in a collective, or another thread inside a call.
ShutdownEnds ==
  (thread["exit"].pc # "idle") ~>
    (thread["exit"].pc = "done" /\ \A w \in Workers : worker[w].pc \in {"dead", "exited"})
=============================================================================
