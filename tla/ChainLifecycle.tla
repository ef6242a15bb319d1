--------------------------- MODULE ChainLifecycle ---------------------------
(***************************************************************************)
(* What a chain identifier promises its client (the lifecycle behind       *)
(* ChainState, ChainBusyError and ChainGoneError of engine/chain_cache.py  *)
(* ): an id is issued once, has at most one writer at a time, rests        *)
(* between turns, and is gone for good once it is dropped.  Only a resting *)
(* chain is sacrificed for somebody else's admission.                      *)
(***************************************************************************)
CONSTANT Ids

VARIABLE life    \* "unborn", "active", "idle" or "gone" for every id

Idle == {c \in Ids : life[c] = "idle"}

Active == {c \in Ids : life[c] = "active"}

\* Every set that moves, with the place it moves to.
Move(gone, active, idle) ==
  life' = [c \in Ids |-> IF c \in gone THEN "gone"
                         ELSE IF c \in active THEN "active"
                         ELSE IF c \in idle THEN "idle"
                         ELSE life[c]]

Init == life = [c \in Ids |-> "unborn"]

\* A turn begins on a new or a resting chain; other resting chains make room.
Begin ==
  \E c \in Ids : \E victims \in SUBSET Idle :
    /\ life[c] \in {"unborn", "idle"}
    /\ c \notin victims
    /\ Move(victims, {c}, {})

\* The writer of c completes its turn.
Rest(c) == life[c] = "active" /\ Move({}, {}, {c})

\* Chains dropped at their owners' wish or because their turn failed.
Drop == \E S \in SUBSET (Idle \cup Active) : Move(S, {}, {})

Next == Begin \/ Drop \/ \E c \in Ids : Rest(c)

Spec == Init /\ [][Next]_life
=============================================================================
