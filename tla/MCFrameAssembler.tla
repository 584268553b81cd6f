-------------------------- MODULE MCFrameAssembler --------------------------
(* Small instances of FrameAssembler for TLC: displays of a few pixels.    *)
EXTENDS FrameAssemblerInvariant, TLC

CONSTANTS t1, t2, t3, left, middle, right

\* Two tiles of different sizes.
TwoTilesRegion == 1 .. 3
TwoTilesCover == (left :> {1}) @@ (right :> {2, 3})

\* Three tiles: as many as threads, so that all threads can hold one.
ThreeTilesRegion == 1 .. 4
ThreeTilesCover == (left :> {1}) @@ (middle :> {2}) @@ (right :> {3, 4})
=============================================================================
