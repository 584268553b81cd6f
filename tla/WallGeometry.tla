---------------------------- MODULE WallGeometry ----------------------------
(***************************************************************************)
(* Where the displays of a wall are, which pixels a box has, and where a   *)
(* pixel of a box is in the array that holds the box row by row: vec2i and *)
(* box2i of vec.h, Server::Config, and the offsets that dw2_send_rgba()    *)
(* and the frame assembler compute.  Pure arithmetic, without a state.     *)
(***************************************************************************)
EXTENDS Integers

CONSTANTS numDisplays,   \* Server::Config, each a vec2i [x, y]
          windowSize,
          bezelWidth

\* main() refuses a wall without displays; windows have pixels.
ASSUME GeometryAssumption ==
  /\ numDisplays \in [x: Nat \ {0}, y: Nat \ {0}]
  /\ windowSize \in [x: Nat \ {0}, y: Nat \ {0}]
  /\ bezelWidth \in [x: Nat, y: Nat]

-----------------------------------------------------------------------------
(* vec2i and box2i.  A box includes its lower corner and not its upper.    *)

Vec(x, y) == [x |-> x, y |-> y]
Plus(a, b) == Vec(a.x + b.x, a.y + b.y)
Minus(a, b) == Vec(a.x - b.x, a.y - b.y)
Times(a, b) == Vec(a.x * b.x, a.y * b.y)

Vecs == [x: Int, y: Int]
Boxes == [lower: Vecs, upper: Vecs]
Box(lower, upper) == [lower |-> lower, upper |-> upper]
Size(box) == Minus(box.upper, box.lower)
Area(box) == Size(box).x * Size(box).y
Pixels(box) == [x: box.lower.x .. box.upper.x - 1,
                y: box.lower.y .. box.upper.y - 1]

-----------------------------------------------------------------------------
(* A slip one could make in a definition below; no specification uses it.  *)

\* The offset is taken in the wall, not in the box.
OffsetInWall(box, p) == p.x + Size(box).x * p.y

-----------------------------------------------------------------------------
(* What is done with boxes.                                                *)

Overlaps(a, b) ==
  /\ a.upper.x > b.lower.x
  /\ a.upper.y > b.lower.y
  /\ a.lower.x < b.upper.x
  /\ a.lower.y < b.upper.y

\* Where pixel p of a box is in the array that holds the box row by row.
OffsetIn(box, p) == (p.x - box.lower.x) + Size(box).x * (p.y - box.lower.y)

-----------------------------------------------------------------------------
(* The wall: displays row by row, with bezels between them.                *)

NumDisplays == numDisplays.x * numDisplays.y
Displays == 0 .. NumDisplays - 1

RegionOfDisplay(displayNo) ==
  IF displayNo < 0
  THEN Box(Vec(-1, -1), Vec(-1, -1))
  ELSE LET displayID == Vec(displayNo % numDisplays.x, displayNo \div numDisplays.x)
           lower == Times(displayID, Plus(windowSize, bezelWidth))
       IN  Box(lower, Plus(lower, windowSize))

totalPixelsInWall ==
  Plus(Times(numDisplays, windowSize),
       Times(Minus(numDisplays, Vec(1, 1)), bezelWidth))

Wall == Box(Vec(0, 0), totalPixelsInWall)

\* With a head node, rank 0 has no display, and display d is that of rank d + 1.
NumRanks(useHeadNode) == NumDisplays + (IF useHeadNode THEN 1 ELSE 0)
Ranks(useHeadNode) == 0 .. NumRanks(useHeadNode) - 1
DisplayOf(rank, useHeadNode) == IF useHeadNode THEN rank - 1 ELSE rank
RegionOfRank(rank, useHeadNode) == RegionOfDisplay(DisplayOf(rank, useHeadNode))
Assembles(rank, useHeadNode) == ~ useHeadNode \/ rank # 0

\* The regions that the nodes of the service info stand for, by rank.
RegionOfNode(useHeadNode) ==
  IF useHeadNode THEN [rank \in {0} |-> Wall]
                 ELSE [rank \in Displays |-> RegionOfDisplay(rank)]

\* The renderer's part: tiles with at least one pixel each, that cover the
\* wall, every pixel once.
Tiles(tiling) ==
  /\ tiling \subseteq Boxes
  /\ \A t \in tiling : Pixels(t) # {}
  /\ UNION {Pixels(t) : t \in tiling} = Pixels(Wall)
  /\ \A t, u \in tiling : t # u => Pixels(t) \cap Pixels(u) = {}
=============================================================================
