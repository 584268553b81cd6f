----------------------------- MODULE MCTilePath -----------------------------
(* A small wall for TLC: three by two windows of two by one pixels, with   *)
(* bezels of one pixel, and the tilings that the test renderers use, for a *)
(* few sizes of tiles.                                                     *)
EXTENDS TilePath

ThreeByTwo == Vec(3, 2)
TwoByOne == Vec(2, 1)
OneByOne == Vec(1, 1)

Least(a, b) == IF a < b THEN a ELSE b
CeilDiv(a, b) == (a + b - 1) \div b

\* Tiles of one size, cut off at the border of the wall.
Grid(tileSize) ==
  {Box(Vec(x * tileSize.x, y * tileSize.y),
       Vec(Least((x + 1) * tileSize.x, totalPixelsInWall.x),
           Least((y + 1) * tileSize.y, totalPixelsInWall.y))) :
     x \in 0 .. CeilDiv(totalPixelsInWall.x, tileSize.x) - 1,
     y \in 0 .. CeilDiv(totalPixelsInWall.y, tileSize.y) - 1}

\* The whole wall; halves; rows, the second of them all bezel; quarters that
\* cut windows in two, the lower ones cut off.
FourGrids == {Grid(Vec(8, 3)), Grid(Vec(4, 3)), Grid(Vec(8, 1)), Grid(Vec(4, 2))}
=============================================================================
