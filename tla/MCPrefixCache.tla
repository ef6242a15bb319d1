--------------------------- MODULE MCPrefixCache ---------------------------
(***************************************************************************)
(* Small workloads for PrefixCache.                                        *)
(***************************************************************************)
EXTENDS PrefixCache, TLC

CONSTANTS r1, r2, r3, r4

MCReqs == {r1, r2, r3, r4}
TwoReqs == {r1, r2}

\* r1 and r2 send prompts of which one continues the other, r3 shares their
\* first token.  The prompt of r1 takes two chunks, r4 comes back with the
\* prompt and the answer of r2.
SharedStream == r1 :> <<1, 2, 3, 5>> @@ r2 :> <<1, 2, 3>> @@ r3 :> <<1, 4, 4>> @@ r4 :> <<1, 2, 3, 6>>
SharedPrompt == r1 :> 3 @@ r2 :> 2 @@ r3 :> 2 @@ r4 :> 4

\* Two requests that cannot both decode in four pages.
ReplayStream == r1 :> <<1, 2, 3>> @@ r2 :> <<1, 4, 4>>
ReplayPrompt == r1 :> 2 @@ r2 :> 2

MCDelete == {<<1>>}
MCPin == {<<1, 2>>}

=============================================================================
