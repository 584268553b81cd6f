-------------------------- MODULE MCHeadNodeWall --------------------------
(* A wall of two displays side by side behind a head node, for TLC.        *)
EXTENDS HeadNodeWall, TLC

CONSTANTS left, both, bezel

\* A tile of the left display, one that overlaps both, one between them.
ThreeTilesReach == (left :> {1}) @@ (both :> {1, 2}) @@ (bezel :> {})
=============================================================================
