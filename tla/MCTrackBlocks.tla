--------------------------- MODULE MCTrackBlocks ---------------------------
(* TrackBlocks with interchangeable tasks.                                 *)
EXTENDS TrackBlocks, TLC

CONSTANTS MaxRaced,  \* bound: blocks that races ruin
          MaxUsers   \* bound: users of a track, when its block is ruined

\* Behaviours are checked up to the states past the bounds and not followed
\* further.  No bound is on a block without a race.
Bounds ==
  /\ Cardinality(raced) <= MaxRaced
  /\ \A x \in raced \X Indices : users[x] <= MaxUsers

Symmetry == Permutations(Tasks)
=============================================================================
