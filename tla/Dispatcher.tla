----------------------------- MODULE Dispatcher -----------------------------
(***************************************************************************)
(* AsyncEngineDispatcher (entrypoints/openai/dispatcher.py): one thread    *)
(* runs _run and is the only caller of the engine; any number of callers   *)
(* on event-loop threads submit, cancel, discard and control requests and  *)
(* close the server.  They meet in three queues, in the threading.Events   *)
(* of a RequestHandle and in the fields guarded by _state_lock.            *)
(*                                                                         *)
(* Every access of one thread that another thread can see between is a     *)
(* step of its own: cancel reads terminal, sets cancelled, reads seq_id    *)
(* and enqueues; _admit reads cancelled, sets seq_id and reads cancelled   *)
(* again; a control call enqueues itself and then the wake-up.             *)
(*                                                                         *)
(* The engine is what the dispatcher sees of it: which request each        *)
(* sequence runs.  In chain mode a sequence id is used again by the next   *)
(* turn of the conversation, so several requests may share one.  Text is   *)
(* left out: a stop string matches or does not.                            *)
(***************************************************************************)
EXTENDS Naturals, Sequences, FiniteSets

CONSTANTS
  Reqs,         \* RequestHandles
  Seqs,         \* sequence ids
  SeqOf,        \* the sequence id the engine gives each request
  Ctls,         \* calls of control()
  MaxTokens,    \* tokens of a request, at most
  MayCancel,    \* requests whose client may call cancel
  MayDiscard,   \* requests whose client may call discard
  MayClose,     \* TRUE if close may be called
  Faults,       \* where an exception may be raised
  NoReq, Wakeup, Stop

\* Where the dispatcher calls code that may raise: the engine (admit, abort,
\* step), _refresh_routing_snapshots (refresh, and after a control call), the
\* set-up of an admitted request, the detokenizer and the response parser.
FaultPoints == {"control", "refresh", "admit", "setup", "abort", "step",
                "deltas", "finish", "late_finish"}

ASSUME DispatcherAssumption ==
  /\ SeqOf \in [Reqs -> Seqs]
  /\ MaxTokens \in Nat \ {0}
  /\ MayCancel \subseteq Reqs /\ MayDiscard \subseteq Reqs
  /\ MayClose \in BOOLEAN
  /\ Faults \subseteq FaultPoints
  /\ NoReq \notin Reqs /\ {Wakeup, Stop} \cap Reqs = {} /\ Wakeup # Stop
  /\ Ctls \cap (Reqs \union {NoReq}) = {}

VARIABLES
  \* the callers
  call,       \* where the client of each request is
  ctl,        \* where each control call is
  closer,     \* where close() is
  lock,       \* the control or discard call inside _state_lock, or NoReq
  \* RequestHandle, its admission future and its output queue
  cancelled, terminal, hasSeq, admission, tokens, ends,
  \* shared queues and flags
  pending, aborts, controls, failed,
  \* the thread
  pc, stopping, active, latest, cur, outs, fin,
  \* the engine: the request each sequence runs
  engine

callerVars == <<call, ctl, closer, lock>>
handleVars == <<cancelled, terminal, hasSeq, admission, tokens, ends>>
queueVars == <<pending, aborts, controls>>
threadVars == <<pc, stopping, active, latest, cur, outs, fin>>
vars == <<callerVars, handleVars, queueVars, failed, threadVars, engine>>

\* call: "new" -> "running" once submit returned, then a cancel (checked,
\* flagged, queued) or a discard (discarding, dqueued, waiting), then "left";
\* "danswered": the answer came before the wake-up was sent.

Init ==
  /\ call = [r \in Reqs |-> "new"]
  /\ ctl = [c \in Ctls |-> "new"]
  /\ closer = "open"
  /\ lock = NoReq
  /\ cancelled = [r \in Reqs |-> FALSE]
  /\ terminal = [r \in Reqs |-> FALSE]
  /\ hasSeq = [r \in Reqs |-> FALSE]
  /\ admission = [r \in Reqs |-> "none"]
  /\ tokens = [r \in Reqs |-> 0]
  /\ ends = [r \in Reqs |-> 0]
  /\ pending = <<>> /\ aborts = <<>> /\ controls = <<>>
  /\ failed = FALSE
  /\ pc = "controls"
  /\ stopping = FALSE
  /\ active = [q \in Seqs |-> NoReq]
  /\ latest = [q \in Seqs |-> NoReq]
  /\ cur = NoReq
  /\ outs = {} /\ fin = {}
  /\ engine = [q \in Seqs |-> NoReq]

Closing == closer # "open"

\* _terminal_message_locked.
Unavailable == failed \/ Closing

Active == {q \in Seqs : active[q] # NoReq}

\* _state_lock; close holds it from the flag to the sentinel.
LockFree == lock = NoReq /\ closer # "closing"

\* A terminal event in the output queue of r.
PutEnd(r) == ends' = [ends EXCEPT ![r] = @ + 1]

-----------------------------------------------------------------------------
(* The callers.                                                            *)

\* Mutant: the check and the put are not under the lock, so the put may come
\* after the thread has drained the queue for the last time.
SubmitUnchecked(r) ==
  /\ call[r] = "new"
  /\ LockFree
  /\ call' = [call EXCEPT ![r] = "running"]
  /\ pending' = Append(pending, r)
  /\ UNCHANGED <<ctl, closer, lock, handleVars, aborts, controls, failed, threadVars, engine>>

Submit(r) ==
  /\ call[r] = "new"
  /\ LockFree
  /\ call' = [call EXCEPT ![r] = "running"]
  /\ IF Unavailable
       THEN /\ terminal' = [terminal EXCEPT ![r] = TRUE]
            /\ admission' = [admission EXCEPT ![r] = "error"]
            /\ PutEnd(r)
            /\ UNCHANGED pending
       ELSE /\ pending' = Append(pending, r)
            /\ UNCHANGED <<terminal, admission, ends>>
  /\ UNCHANGED <<ctl, closer, lock, cancelled, hasSeq, tokens, aborts, controls,
                 failed, threadVars, engine>>

\* cancel: nothing to do after the end of the request.
CancelCheck(r) ==
  /\ r \in MayCancel
  /\ call[r] = "running"
  /\ call' = [call EXCEPT ![r] = IF terminal[r] THEN "left" ELSE "checked"]
  /\ UNCHANGED <<ctl, closer, lock, handleVars, queueVars, failed, threadVars, engine>>

CancelFlag(r) ==
  /\ call[r] = "checked"
  /\ call' = [call EXCEPT ![r] = "flagged"]
  /\ cancelled' = [cancelled EXCEPT ![r] = TRUE]
  /\ UNCHANGED <<ctl, closer, lock, terminal, hasSeq, admission, tokens, ends,
                 queueVars, failed, threadVars, engine>>

CancelPut(r) ==
  /\ call[r] = "flagged"
  /\ IF hasSeq[r]
       THEN /\ aborts' = Append(aborts, [req |-> r, force |-> FALSE])
            /\ call' = [call EXCEPT ![r] = "queued"]
       ELSE /\ call' = [call EXCEPT ![r] = "left"]
            /\ UNCHANGED aborts
  /\ UNCHANGED <<ctl, closer, lock, handleVars, pending, controls, failed, threadVars, engine>>

CancelWake(r) ==
  /\ call[r] = "queued"
  /\ pending' = Append(pending, Wakeup)
  /\ call' = [call EXCEPT ![r] = "left"]
  /\ UNCHANGED <<ctl, closer, lock, handleVars, aborts, controls, failed, threadVars, engine>>

\* discard of a request that was admitted: it waits for the answer.
DiscardFlag(r) ==
  /\ r \in MayDiscard
  /\ call[r] = "running"
  /\ admission[r] = "ok"
  /\ cancelled' = [cancelled EXCEPT ![r] = TRUE]
  /\ call' = [call EXCEPT ![r] = "discarding"]
  /\ UNCHANGED <<ctl, closer, lock, terminal, hasSeq, admission, tokens, ends,
                 queueVars, failed, threadVars, engine>>

DiscardPut(r) ==
  /\ call[r] = "discarding"
  /\ LockFree
  /\ IF Unavailable
       THEN /\ call' = [call EXCEPT ![r] = "left"]
            /\ UNCHANGED <<aborts, lock>>
       ELSE /\ aborts' = Append(aborts, [req |-> r, force |-> TRUE])
            /\ lock' = r
            /\ call' = [call EXCEPT ![r] = "dqueued"]
  /\ UNCHANGED <<ctl, closer, handleVars, pending, controls, failed, threadVars, engine>>

\* The answer may be there before the wake-up is sent: then the wait is over.
DiscardWake(r) ==
  /\ lock = r
  /\ pending' = Append(pending, Wakeup)
  /\ lock' = NoReq
  /\ call' = [call EXCEPT ![r] = IF @ = "dqueued" THEN "waiting" ELSE "left"]
  /\ UNCHANGED <<ctl, closer, handleVars, aborts, controls, failed, threadVars, engine>>

\* asyncio.wait_for of discard; the answer may still come.
DiscardTimeout(r) ==
  /\ call[r] = "waiting"
  /\ call' = [call EXCEPT ![r] = "left"]
  /\ UNCHANGED <<ctl, closer, lock, handleVars, queueVars, failed, threadVars, engine>>

ControlPut(c) ==
  /\ ctl[c] = "new"
  /\ LockFree
  /\ IF Unavailable
       THEN /\ ctl' = [ctl EXCEPT ![c] = "answered"]
            /\ UNCHANGED <<controls, lock>>
       ELSE /\ controls' = Append(controls, c)
            /\ lock' = c
            /\ ctl' = [ctl EXCEPT ![c] = "waiting"]
  /\ UNCHANGED <<call, closer, handleVars, pending, aborts, failed, threadVars, engine>>

\* Mutant: the thread is not woken up.
ControlSilent(c) ==
  /\ lock = c
  /\ lock' = NoReq
  /\ UNCHANGED <<call, ctl, closer, handleVars, queueVars, failed, threadVars, engine>>

ControlWake(c) ==
  /\ lock = c
  /\ pending' = Append(pending, Wakeup)
  /\ lock' = NoReq
  /\ UNCHANGED <<call, ctl, closer, handleVars, aborts, controls, failed, threadVars, engine>>

\* close: the flag first, then the sentinel.
CloseFlag ==
  /\ MayClose
  /\ closer = "open"
  /\ LockFree
  /\ closer' = "closing"
  /\ UNCHANGED <<call, ctl, lock, handleVars, queueVars, failed, threadVars, engine>>

CloseStop ==
  /\ closer = "closing"
  /\ pending' = Append(pending, Stop)
  /\ closer' = "closed"
  /\ UNCHANGED <<call, ctl, lock, handleVars, aborts, controls, failed, threadVars, engine>>

-----------------------------------------------------------------------------
(* The thread.  An exception that reaches _run takes it to "mark".         *)

idleThread == <<stopping, active, latest, cur, outs, fin>>

Goto(p) == pc' = p

\* _drain_controls: one call.
DrainControl ==
  /\ pc \in {"controls", "controls2"}
  /\ controls # <<>>
  /\ controls' = Tail(controls)
  /\ ctl' = [ctl EXCEPT ![Head(controls)] = "answered"]
  /\ \/ UNCHANGED pc
     \/ "control" \in Faults /\ ~Unavailable /\ Goto("mark")
  /\ UNCHANGED <<call, closer, lock, handleVars, pending, aborts, failed, idleThread, engine>>

\* The queue is empty; run_pending_prefix_prune may raise.
EndControls ==
  /\ pc \in {"controls", "controls2"}
  /\ controls = <<>>
  /\ \/ Goto(IF pc = "controls" THEN "aborts" ELSE "aborts2")
     \/ "refresh" \in Faults /\ pc = "controls" /\ Goto("mark")
  /\ UNCHANGED <<callerVars, handleVars, queueVars, failed, idleThread, engine>>

\* _resolve_abort: only discard waits for the answer.
ResolveAbort(a) ==
  call' = [call EXCEPT ![a.req] =
             CASE a.force /\ @ = "dqueued" -> "danswered"
               [] a.force /\ @ = "waiting" -> "left"
               [] OTHER -> @]

\* _mark_request_terminal.
MarkTerminal(r) ==
  /\ terminal' = [terminal EXCEPT ![r] = TRUE]
  /\ latest' = [latest EXCEPT ![SeqOf[r]] = IF @ = r THEN NoReq ELSE @]

\* engine.abort_request: unknown sequences are ignored.
EngineAbort(q) == engine' = [engine EXCEPT ![q] = NoReq]

\* Mutant: an abort is matched by its sequence id alone.
NeverStale(a) == FALSE

\* The abort names a request whose sequence id serves another one by now.
StaleAbort(a) ==
  LET q == SeqOf[a.req] IN
  \/ latest[q] \notin {NoReq, a.req}
  \/ active[q] \notin {NoReq, a.req}

SkipAbort(a) == terminal[a.req] /\ ~a.force

\* _drain_aborts: one entry.
PopAbort ==
  /\ pc \in {"aborts", "aborts2"}
  /\ aborts # <<>>
  /\ aborts' = Tail(aborts)
  /\ UNCHANGED <<ctl, closer, lock, cancelled, hasSeq, admission, tokens, ends, pending,
                 controls, failed, stopping, cur, outs, fin>>

AbortSkipped ==
  /\ PopAbort
  /\ SkipAbort(Head(aborts))
  /\ UNCHANGED <<call, terminal, pc, active, latest, engine>>

AbortStale ==
  /\ PopAbort
  /\ LET a == Head(aborts) IN
       /\ ~SkipAbort(a) /\ StaleAbort(a)
       /\ terminal' = [terminal EXCEPT ![a.req] = TRUE]
       /\ ResolveAbort(a)
  /\ UNCHANGED <<pc, active, latest, engine>>

AbortActive ==
  /\ PopAbort
  /\ LET a == Head(aborts)  q == SeqOf[a.req] IN
       /\ ~SkipAbort(a) /\ ~StaleAbort(a) /\ active[q] # NoReq
       /\ ResolveAbort(a)
       /\ \/ /\ EngineAbort(q)
             /\ active' = [active EXCEPT ![q] = NoReq]
             /\ MarkTerminal(active[q])
             /\ UNCHANGED pc
          \/ /\ "abort" \in Faults
             /\ Goto("mark")
             /\ UNCHANGED <<engine, active, terminal, latest>>

\* The request does not run: discard_chain drops the resident state of its
\* conversation; a plain cancel is passed on to the engine.
AbortInactive ==
  /\ PopAbort
  /\ LET a == Head(aborts)  q == SeqOf[a.req] IN
       /\ ~SkipAbort(a) /\ ~StaleAbort(a) /\ active[q] = NoReq
       /\ ResolveAbort(a)
       /\ IF a.force
            THEN UNCHANGED <<terminal, latest, engine>>
            ELSE EngineAbort(q) /\ MarkTerminal(a.req)
  /\ UNCHANGED <<pc, active>>

\* The queue is empty; then _refresh_routing_snapshots, which may raise (in
\* "aborts" only if the drain changed something, which is not tracked).
EndAborts ==
  /\ pc \in {"aborts", "aborts2"}
  /\ aborts = <<>>
  /\ \/ /\ pc = "aborts"
        /\ Goto(IF Active = {} THEN "get" ELSE "drain")
     \/ /\ pc = "aborts2"
        /\ Goto(CASE Active # {} -> "step" [] stopping -> "fail_active"
                  [] OTHER -> "controls")
     \/ "refresh" \in Faults /\ Goto("mark")
  /\ UNCHANGED <<callerVars, handleVars, queueVars, failed, idleThread, engine>>

\* The blocking get of an idle loop.
Get ==
  /\ pc = "get"
  /\ pending # <<>>
  /\ pending' = Tail(pending)
  /\ LET item == Head(pending) IN
       CASE item = Stop -> Goto("fail_active") /\ UNCHANGED cur
         [] item = Wakeup -> Goto("controls") /\ UNCHANGED cur
         [] OTHER -> Goto("admit") /\ cur' = item
  /\ UNCHANGED <<callerVars, handleVars, aborts, controls, failed, stopping, active,
                 latest, outs, fin, engine>>

\* Mutant: the sentinel is taken for a wake-up.
DrainForgetsStop ==
  /\ pc = "drain"
  /\ IF pending = <<>>
       THEN Goto("controls2") /\ UNCHANGED <<pending, cur>>
       ELSE /\ pending' = Tail(pending)
            /\ IF Head(pending) \in {Stop, Wakeup}
                 THEN UNCHANGED <<pc, cur>>
                 ELSE Goto("admit") /\ cur' = Head(pending)
  /\ UNCHANGED <<callerVars, handleVars, aborts, controls, failed, stopping, active, latest,
                 outs, fin, engine>>

\* get_nowait until the queue is empty.
Drain ==
  /\ pc = "drain"
  /\ IF pending = <<>>
       THEN Goto("controls2") /\ UNCHANGED <<pending, cur, stopping>>
       ELSE /\ pending' = Tail(pending)
            /\ LET item == Head(pending) IN
                 /\ stopping' = (stopping \/ item = Stop)
                 /\ IF item \in {Stop, Wakeup}
                      THEN UNCHANGED <<pc, cur>>
                      ELSE Goto("admit") /\ cur' = item
  /\ UNCHANGED <<callerVars, handleVars, aborts, controls, failed, active, latest,
                 outs, fin, engine>>

-----------------------------------------------------------------------------
(* _admit.                                                                 *)

ResolveAdmission(r, result) == admission' = [admission EXCEPT ![r] = result]

\* The request is over before it ran; event: its client is told so.
Refuse(r, event) ==
  /\ terminal' = [terminal EXCEPT ![r] = TRUE]
  /\ ResolveAdmission(r, "error")
  /\ IF event THEN PutEnd(r) ELSE UNCHANGED ends
  /\ Goto("drain")
  /\ cur' = NoReq

Admit ==
  /\ pc = "admit"
  /\ \/ cancelled[cur] /\ Refuse(cur, FALSE)
     \/ ~cancelled[cur] /\ Unavailable /\ Refuse(cur, TRUE)
     \/ /\ ~cancelled[cur] /\ ~Unavailable
        /\ Goto("enter")
        /\ UNCHANGED <<terminal, admission, ends, cur>>
  /\ UNCHANGED <<callerVars, cancelled, hasSeq, tokens, queueVars, failed, stopping,
                 active, latest, outs, fin, engine>>

\* engine.admit_request refuses a request whose conversation is running
\* (ChainBusyError) and may raise; then handle.seq_id is set.
EnterEngine ==
  /\ pc = "enter"
  /\ LET q == SeqOf[cur] IN
       \/ /\ engine[q] = NoReq
          /\ engine' = [engine EXCEPT ![q] = cur]
          /\ hasSeq' = [hasSeq EXCEPT ![cur] = TRUE]
          /\ Goto("recheck")
          /\ UNCHANGED <<terminal, admission, ends, cur>>
       \/ /\ engine[q] # NoReq \/ "admit" \in Faults
          /\ Refuse(cur, TRUE)
          /\ UNCHANGED <<hasSeq, engine>>
  /\ UNCHANGED <<callerVars, cancelled, tokens, queueVars, failed, stopping,
                 active, latest, outs, fin>>

\* Mutant: a cancel that came in during engine.admit_request is not seen.
ActivateUnchecked ==
  /\ pc = "recheck"
  /\ active' = [active EXCEPT ![SeqOf[cur]] = cur]
  /\ latest' = [latest EXCEPT ![SeqOf[cur]] = cur]
  /\ ResolveAdmission(cur, "ok")
  /\ Goto("drain")
  /\ cur' = NoReq
  /\ UNCHANGED <<callerVars, cancelled, terminal, hasSeq, tokens, ends, queueVars, failed,
                 stopping, outs, fin, engine>>

\* Mutant: a request cancelled during its admission keeps its sequence.
ActivateLeaks ==
  /\ pc = "recheck"
  /\ \/ /\ cancelled[cur]
        /\ Refuse(cur, FALSE)
        /\ UNCHANGED <<active, latest>>
     \/ /\ ~cancelled[cur]
        /\ active' = [active EXCEPT ![SeqOf[cur]] = cur]
        /\ latest' = [latest EXCEPT ![SeqOf[cur]] = cur]
        /\ ResolveAdmission(cur, "ok")
        /\ Goto("drain")
        /\ cur' = NoReq
        /\ UNCHANGED <<terminal, ends>>
  /\ UNCHANGED <<callerVars, cancelled, hasSeq, tokens, queueVars, failed, stopping,
                 outs, fin, engine>>

\* A cancel that came in during engine.admit_request found no seq_id: the
\* flag is read again.  Otherwise the request is active; an exception on
\* the way gives its sequence back.
Activate ==
  /\ pc = "recheck"
  /\ LET q == SeqOf[cur] IN
       \/ cancelled[cur] /\ EngineAbort(q) /\ Refuse(cur, FALSE) /\ UNCHANGED <<active, latest>>
       \/ "setup" \in Faults /\ EngineAbort(q) /\ Refuse(cur, TRUE) /\ UNCHANGED <<active, latest>>
       \/ /\ ~cancelled[cur]
          /\ active' = [active EXCEPT ![q] = cur]
          /\ latest' = [latest EXCEPT ![q] = cur]
          /\ ResolveAdmission(cur, "ok")
          /\ Goto("drain")
          /\ cur' = NoReq
          /\ UNCHANGED <<terminal, ends, engine>>
  /\ UNCHANGED <<callerVars, cancelled, hasSeq, tokens, queueVars, failed, stopping, outs, fin>>

-----------------------------------------------------------------------------
(* A step of the engine and its publication.                               *)

\* engine.step: some of the running sequences get a token, some of these
\* finish and leave the engine; or it raises.
EngineStep ==
  /\ pc = "step"
  /\ \/ \E run \in SUBSET {q \in Seqs : engine[q] # NoReq} :
          \E done \in SUBSET run :
            /\ run # {}
            /\ {q \in run : tokens[engine[q]] + 1 >= MaxTokens} \subseteq done
            /\ outs' = run
            /\ fin' = done
            /\ engine' = [q \in Seqs |-> IF q \in done THEN NoReq ELSE engine[q]]
            /\ Goto("deltas")
     \/ "step" \in Faults /\ Goto("mark") /\ UNCHANGED <<outs, fin, engine>>
  /\ UNCHANGED <<callerVars, handleVars, queueVars, failed, stopping, active, latest, cur>>

\* Mutant: the final event of a stop string leaves the request active.
DeltaKeepsActive(q) ==
  LET r == active[q] IN
  /\ pc = "deltas"
  /\ outs' = outs \ {q}
  /\ r # NoReq
  /\ tokens' = [tokens EXCEPT ![r] = @ + 1]
  /\ \/ PutEnd(r) /\ UNCHANGED pc
     \/ UNCHANGED <<ends, pc>>
  /\ UNCHANGED <<callerVars, cancelled, terminal, hasSeq, admission, queueVars, failed,
                 stopping, active, latest, cur, fin, engine>>

\* _publish_token_deltas: one sequence.  A stop string ends the request here
\* and aborts its sequence, which may have finished in the same step.
Delta(q) ==
  LET r == active[q] IN
  /\ pc = "deltas"
  /\ outs' = outs \ {q}
  /\ IF r = NoReq
       THEN UNCHANGED <<tokens, ends, terminal, latest, active, engine, pc>>
       ELSE \/ /\ tokens' = [tokens EXCEPT ![r] = @ + 1]
               /\ UNCHANGED <<ends, terminal, latest, active, engine, pc>>
            \/ /\ tokens' = [tokens EXCEPT ![r] = @ + 1]
               /\ EngineAbort(q)
               /\ active' = [active EXCEPT ![q] = NoReq]
               /\ MarkTerminal(r)
               /\ PutEnd(r)
               /\ UNCHANGED pc
            \/ /\ "deltas" \in Faults
               /\ Goto("mark")
               /\ UNCHANGED <<tokens, ends, terminal, latest, active, engine>>
  /\ UNCHANGED <<callerVars, cancelled, hasSeq, admission, queueVars, failed, stopping, cur, fin>>

EndDeltas ==
  /\ pc = "deltas"
  /\ outs = {}
  /\ Goto("finished")
  /\ UNCHANGED <<callerVars, handleVars, queueVars, failed, idleThread, engine>>

\* _publish_finished: one sequence.  The request leaves active before its
\* text is checked ("late_finish"), and gets its final event after that.
Finish(q) ==
  LET r == active[q] IN
  /\ pc = "finished"
  /\ fin' = fin \ {q}
  /\ IF r = NoReq
       THEN UNCHANGED <<ends, terminal, latest, active, pc>>
       ELSE \/ /\ active' = [active EXCEPT ![q] = NoReq]
               /\ MarkTerminal(r)
               /\ PutEnd(r)
               /\ UNCHANGED pc
            \/ /\ "finish" \in Faults
               /\ Goto("mark")
               /\ UNCHANGED <<ends, terminal, latest, active>>
            \/ /\ "late_finish" \in Faults
               /\ Goto("mark")
               /\ active' = [active EXCEPT ![q] = NoReq]
               /\ UNCHANGED <<ends, terminal, latest>>
  /\ UNCHANGED <<callerVars, cancelled, hasSeq, admission, tokens, queueVars, failed,
                 stopping, cur, outs, engine>>

EndFinished ==
  /\ pc = "finished"
  /\ fin = {}
  /\ Goto(IF stopping THEN "fail_active" ELSE "controls")
  /\ UNCHANGED <<callerVars, handleVars, queueVars, failed, idleThread, engine>>

-----------------------------------------------------------------------------
(* The end of the thread.                                                  *)

\* _mark_failed, under the lock.
MarkFailed ==
  /\ pc = "mark"
  /\ LockFree
  /\ failed' = TRUE
  /\ outs' = {} /\ fin' = {}
  /\ Goto("fail_active")
  /\ UNCHANGED <<callerVars, handleVars, queueVars, stopping, active, latest, cur, engine>>

\* _fail_active_requests.
FailActive ==
  /\ pc = "fail_active"
  /\ IF Active = {}
       THEN Goto("fail_queued") /\ UNCHANGED <<active, terminal, latest, ends, engine>>
       ELSE \E q \in Active :
              /\ active' = [active EXCEPT ![q] = NoReq]
              /\ MarkTerminal(active[q])
              /\ PutEnd(active[q])
              /\ EngineAbort(q)
              /\ UNCHANGED pc
  /\ UNCHANGED <<callerVars, cancelled, hasSeq, admission, tokens, queueVars, failed,
                 stopping, cur, outs, fin>>

\* _drain_queued_requests: the requests, then the control calls.
FailQueued ==
  /\ pc = "fail_queued"
  /\ IF pending = <<>>
       THEN Goto("fail_controls") /\ UNCHANGED <<pending, admission, terminal, ends>>
       ELSE /\ pending' = Tail(pending)
            /\ LET item == Head(pending) IN
                 IF item \in {Stop, Wakeup}
                   THEN UNCHANGED <<admission, terminal, ends>>
                   ELSE /\ ResolveAdmission(item, "error")
                        /\ terminal' = [terminal EXCEPT ![item] = TRUE]
                        /\ PutEnd(item)
            /\ UNCHANGED pc
  /\ UNCHANGED <<callerVars, cancelled, hasSeq, tokens, aborts, controls, failed, idleThread, engine>>

FailControls ==
  /\ pc = "fail_controls"
  /\ IF controls = <<>>
       THEN Goto("fail_aborts") /\ UNCHANGED <<controls, ctl>>
       ELSE /\ controls' = Tail(controls)
            /\ ctl' = [ctl EXCEPT ![Head(controls)] = "answered"]
            /\ UNCHANGED pc
  /\ UNCHANGED <<call, closer, lock, handleVars, pending, aborts, failed, idleThread, engine>>

\* _fail_pending_aborts, the last thing the thread does.
FailAborts ==
  /\ pc = "fail_aborts"
  /\ IF aborts = <<>>
       THEN Goto("dead") /\ UNCHANGED <<aborts, call, terminal>>
       ELSE /\ aborts' = Tail(aborts)
            /\ ResolveAbort(Head(aborts))
            /\ terminal' = [terminal EXCEPT ![Head(aborts).req] = TRUE]
            /\ UNCHANGED pc
  /\ UNCHANGED <<ctl, closer, lock, cancelled, hasSeq, admission, tokens, ends, pending,
                 controls, failed, idleThread, engine>>

-----------------------------------------------------------------------------

Thread ==
  \/ DrainControl \/ EndControls
  \/ AbortSkipped \/ AbortStale \/ AbortActive \/ AbortInactive \/ EndAborts
  \/ Get \/ Drain \/ Admit \/ EnterEngine \/ Activate
  \/ EngineStep
  \/ \E q \in outs : Delta(q)
  \/ EndDeltas
  \/ \E q \in fin : Finish(q)
  \/ EndFinished
  \/ MarkFailed \/ FailActive \/ FailQueued \/ FailControls \/ FailAborts

\* What a caller does once it has begun.
Continue ==
  \/ \E r \in Reqs : CancelFlag(r) \/ CancelPut(r) \/ CancelWake(r)
                       \/ DiscardPut(r) \/ DiscardWake(r)
  \/ \E c \in Ctls : ControlWake(c)
  \/ CloseStop

Begin ==
  \/ \E r \in Reqs : Submit(r) \/ CancelCheck(r) \/ DiscardFlag(r) \/ DiscardTimeout(r)
  \/ \E c \in Ctls : ControlPut(c)
  \/ CloseFlag

Next == Thread \/ Continue \/ Begin

\* The thread is scheduled, and a call that has begun runs on.  Nothing is
\* assumed of the calls a client makes, nor of the timeout.
Spec == Init /\ [][Next]_vars /\ WF_vars(Thread) /\ WF_vars(Continue)

-----------------------------------------------------------------------------
(* Properties.                                                             *)

\* The dispatcher and the engine agree on what runs: before every step of the
\* engine each of its sequences belongs to an active request that has not
\* ended, and when the loop blocks on an empty active nothing is left running
\* (it would hold its KV for ever).
NoOrphans ==
  /\ pc = "step" => engine = active
  /\ pc = "get" => engine = [q \in Seqs |-> NoReq]
  /\ pc \in {"step", "get"} => \A q \in Active : ~terminal[active[q]]

\* No cancel is lost, wherever in the admission of its request it comes: a
\* cancelled request takes part in a step of the engine only while its abort
\* is queued or on its way to the queue.  Once close was called a discard is
\* refused, and the end of the thread releases the request.
CancelNotLost ==
  pc = "step" =>
    \A r \in {active[q] : q \in Active} :
      cancelled[r] => \/ call[r] \in {"flagged", "discarding"}
                      \/ \E i \in DOMAIN aborts : aborts[i].req = r
                      \/ Closing

\* Nothing follows the terminal event of a stream: no token, no second end.
\* A stop string and the end of the generation may meet in one step, and a
\* shutdown or a failure may meet both.
EndIsFinal ==
  [][\A r \in Reqs : ends[r] = 1 => tokens'[r] = tokens[r] /\ ends'[r] = 1]_vars

\* An abort ends only the run of the request it names, although the next turn
\* of the conversation runs under the same sequence id: whoever loses his run
\* while aborts are drained was cancelled or discarded by his own client.
OnlyOwnAborts ==
  [][\A q \in Seqs :
       pc \in {"aborts", "aborts2"} /\ engine[q] # NoReq /\ engine'[q] # engine[q]
         => cancelled[engine[q]]]_vars

\* Every request that is submitted has its admission resolved and, unless its
\* client gave it up, its stream ended, also when the server fails or closes.
EveryRequestAnswered ==
  \A r \in Reqs : call[r] # "new" ~> admission[r] # "none" /\ (ends[r] = 1 \/ cancelled[r])

\* control and discard return: they never rely on a wake-up that is lost, nor
\* on a thread that is gone (discard does not need its timeout).
EveryCallReturns ==
  /\ \A c \in Ctls : ctl[c] = "waiting" ~> ctl[c] = "answered"
  /\ \A r \in Reqs : call[r] \in {"discarding", "dqueued", "danswered", "waiting"} ~> call[r] = "left"

\* close ends the thread, whether the sentinel meets an idle loop, a loop that
\* drains its queue or a step that fails.
CloseEndsThread == Closing ~> pc = "dead"

=============================================================================
