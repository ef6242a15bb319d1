---------------------------- MODULE MCScheduler ----------------------------
(***************************************************************************)
(* Small workloads for Scheduler.  Each is a pair of functions: the prompt *)
(* length and the token budget of every request.                           *)
(***************************************************************************)
EXTENDS Scheduler

CONSTANTS r1, r2, r3, r4

\* Four requests that fit one by one but not together.
MixedReqs == {r1, r2, r3, r4}
MixedPrompt == r1 :> 3 @@ r2 :> 2 @@ r3 :> 3 @@ r4 :> 1
MixedMax == r1 :> 3 @@ r2 :> 3 @@ r3 :> 2 @@ r4 :> 3

\* Four requests with a page or less of prompt each.
ShortPrompt == r1 :> 1 @@ r2 :> 1 @@ r3 :> 1 @@ r4 :> 2
ShortMax == r1 :> 3 @@ r2 :> 3 @@ r3 :> 3 @@ r4 :> 3

\* r1 fits, r2 and r3 outgrow the pool while they decode, and the prompt of r4
\* is larger than the pool.
HopelessPrompt == r1 :> 3 @@ r2 :> 2 @@ r3 :> 2 @@ r4 :> 7
HopelessMax == r1 :> 3 @@ r2 :> 6 @@ r3 :> 6 @@ r4 :> 1

=============================================================================
