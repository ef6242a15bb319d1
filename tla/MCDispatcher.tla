---------------------------- MODULE MCDispatcher ----------------------------
(***************************************************************************)
(* Small workloads for Dispatcher: r1 and r2 are turns of one conversation *)
(* and share a sequence id, r3 has its own.                                *)
(***************************************************************************)
EXTENDS Dispatcher

CONSTANTS r1, r2, r3, q1, q2, c1

MCSeqOf == [r \in Reqs |-> IF r = r3 THEN q2 ELSE q1]

\* Whatever may raise, up to the point where a finished request leaves active.
MCFaults == FaultPoints \ {"late_finish"}

=============================================================================
