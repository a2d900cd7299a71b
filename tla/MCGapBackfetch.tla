--------------------------- MODULE MCGapBackfetch ---------------------------
(***************************************************************************)
(* Instances of GapBackfetch for TLC.                                      *)
(***************************************************************************)
EXTENDS GapBackfetch, TLC

CONSTANT u1    \* a model value

\* Every message has a timestamp of its own.
DistinctStamps == [m \in 1..MaxMessages |-> m]
=============================================================================
