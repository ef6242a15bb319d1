---------------------------- MODULE MCChainCache ----------------------------
(***************************************************************************)
(* Layer profiles for ChainCache.                                          *)
(***************************************************************************)
EXTENDS ChainCache

\* One layer kept in full.
FullBudget == [l \in Layers |-> MaxModelLen]

\* Layer l keeps l tokens after a prompt.
SlopedBudget == [l \in Layers |-> l]
=============================================================================
