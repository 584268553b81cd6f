--------------------------- MODULE MCDisplayWall ---------------------------
(* A wall of two displays for TLC, driven by two clients.                  *)
EXTENDS DisplayWall

CONSTANTS c1, c2

\* Client c1 renders the left half of display 0, client c2 all the rest.
TwoClientsTouches == {<<c1, 0>>, <<c2, 0>>, <<c2, 1>>}
=============================================================================
