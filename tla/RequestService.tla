--------------------------- MODULE RequestService ---------------------------
(***************************************************************************)
(* What the engine promises its clients, with no queues, batches, memory   *)
(* or preemption in sight: an accepted request is answered by a stream of  *)
(* at most MaxTokens tokens, the stream stops for good when the request is *)
(* done, and a request that used up its budget is done.  A client may      *)
(* cancel an accepted request at any time.                                 *)
(***************************************************************************)
EXTENDS Naturals

CONSTANTS Reqs, MaxTokens

VARIABLES
  phase,    \* "new", "active" or "done"
  tokens    \* tokens streamed so far

vars == <<phase, tokens>>

Init ==
  /\ phase = [s \in Reqs |-> "new"]
  /\ tokens = [s \in Reqs |-> 0]

Accept(s) ==
  /\ phase[s] = "new"
  /\ phase' = [phase EXCEPT ![s] = "active"]
  /\ UNCHANGED tokens

Stream(s) ==
  /\ phase[s] = "active"
  /\ tokens[s] + 1 < MaxTokens[s]
  /\ tokens' = [tokens EXCEPT ![s] = @ + 1]
  /\ UNCHANGED phase

StreamLast(s) ==
  /\ phase[s] = "active"
  /\ tokens[s] < MaxTokens[s]
  /\ tokens' = [tokens EXCEPT ![s] = @ + 1]
  /\ phase' = [phase EXCEPT ![s] = "done"]

Cancel(s) ==
  /\ phase[s] = "active"
  /\ phase' = [phase EXCEPT ![s] = "done"]
  /\ UNCHANGED tokens

Next == \E s \in Reqs : Accept(s) \/ Stream(s) \/ StreamLast(s) \/ Cancel(s)

Spec == Init /\ [][Next]_vars

=============================================================================
