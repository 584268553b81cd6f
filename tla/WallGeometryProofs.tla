-------------------------- MODULE WallGeometryProofs --------------------------
(***************************************************************************)
(* Proofs about WallGeometry and about the two modules that extend it,     *)
(* TilePath and ServiceDiscovery.                                          *)
(*                                                                         *)
(* First what the arithmetic of WallGeometry gives, for walls of every     *)
(* size: the displays' regions lie in the wall and apart from each other,  *)
(* a tile overlaps a region just when it has a pixel in it, the offsets of *)
(* a box's pixels fit into its array, each its own; and so every tiling of *)
(* the wall covers every display as a frame assembler needs it.            *)
(*                                                                         *)
(* Then the way of the pixels over such a wall, with and without head      *)
(* node, for every tiling that covers it; and how any number of renderers  *)
(* learn of such a wall, each getting the whole service info and no more.  *)
(***************************************************************************)
EXTENDS TilePath, ServiceDiscoveryInvariant, FiniteSetTheorems, SequenceTheorems,
        TLAPS

USE GeometryAssumption

-----------------------------------------------------------------------------
(* Arithmetic with two factors that are not constants.                     *)

LEMMA ProductMonotone ==
  ASSUME NEW a \in Int, NEW b \in Int, NEW w \in Nat, a <= b
  PROVE  a * w <= b * w
<1>1. PICK k \in Nat : b = a + k
  BY b - a \in Nat, b = a + (b - a)
<1>2. (a + k) * w = a * w + k * w
  OBVIOUS
<1>3. k * w >= 0
  OBVIOUS
<1> QED BY <1>1, <1>2, <1>3

LEMMA ProductStep ==
  ASSUME NEW a \in Int, NEW b \in Int, NEW w \in Nat, a < b
  PROVE  a * w + w <= b * w
<1>1. (a + 1) * w <= b * w
  BY ProductMonotone
<1>2. (a + 1) * w = a * w + w
  OBVIOUS
<1> QED BY <1>1, <1>2

LEMMA DivMod ==
  ASSUME NEW d \in Nat, NEW n \in Nat \ {0}
  PROVE  /\ d \div n \in Nat
         /\ d % n \in 0 .. n - 1
         /\ d = n * (d \div n) + (d % n)
  OBVIOUS

-----------------------------------------------------------------------------
(* Displays in the wall.                                                   *)

LEMMA DisplayCoords ==
  ASSUME NEW d \in Displays
  PROVE  /\ d % numDisplays.x \in 0 .. numDisplays.x - 1
         /\ d \div numDisplays.x \in 0 .. numDisplays.y - 1
<1> DEFINE nx == numDisplays.x
           ny == numDisplays.y
           row == d \div nx
<1>1. nx \in Nat \ {0} /\ ny \in Nat \ {0}
  OBVIOUS
<1>2. nx * ny \in Nat
  BY <1>1
<1>3. d \in Nat /\ d < nx * ny
  BY <1>2 DEF Displays, NumDisplays
<1>4. row \in Nat /\ d % nx \in 0 .. nx - 1 /\ d = nx * row + (d % nx)
  BY <1>1, <1>3, DivMod
<1>5. row < ny
  <2> SUFFICES ASSUME ny <= row PROVE FALSE
    BY <1>1, <1>4
  <2> HIDE DEF row, nx, ny
  <2>1. ny * nx <= row * nx
    BY <1>1, <1>4, ProductMonotone
  <2>2. nx * ny = ny * nx /\ nx * row = row * nx /\ row * nx \in Int
    BY <1>1, <1>4
  <2> QED BY <1>1, <1>2, <1>3, <1>4, <2>1, <2>2
<1> QED BY <1>1, <1>4, <1>5

\* Two displays differ in their column or in their row.
LEMMA CoordsTellApart ==
  ASSUME NEW d \in Displays, NEW e \in Displays, d # e
  PROVE  \/ d % numDisplays.x # e % numDisplays.x
         \/ d \div numDisplays.x # e \div numDisplays.x
<1>1. d \in Nat /\ e \in Nat
  BY DEF Displays
<1>2. numDisplays.x \in Nat \ {0}
  OBVIOUS
<1>3. d = numDisplays.x * (d \div numDisplays.x) + (d % numDisplays.x)
  BY <1>1, <1>2, DivMod
<1>4. e = numDisplays.x * (e \div numDisplays.x) + (e % numDisplays.x)
  BY <1>1, <1>2, DivMod
<1> SUFFICES ASSUME d % numDisplays.x = e % numDisplays.x,
                    d \div numDisplays.x = e \div numDisplays.x
             PROVE  FALSE
  OBVIOUS
<1> QED BY <1>3, <1>4

\* One axis of the wall: n windows of w pixels, with b pixels between them.
LEMMA Axis ==
  ASSUME NEW n \in Nat \ {0}, NEW w \in Nat \ {0}, NEW b \in Nat,
         NEW i \in 0 .. n - 1
  PROVE  /\ i * (w + b) \in Nat
         /\ i * (w + b) + w <= n * w + (n - 1) * b
         /\ \A j \in i + 1 .. n - 1 : i * (w + b) + w <= j * (w + b)
<1>1. i * (w + b) = i * w + i * b /\ i * (w + b) \in Nat
  OBVIOUS
<1>2. i * w + w <= n * w /\ i * b <= (n - 1) * b
  BY ProductStep, ProductMonotone
<1>3. ASSUME NEW j \in i + 1 .. n - 1
      PROVE  i * (w + b) + w <= j * (w + b)
  <2>1. i * (w + b) + (w + b) <= j * (w + b)
    BY ProductStep
  <2> QED BY <1>1, <2>1
<1>4. n * w \in Int /\ (n - 1) * b \in Int /\ i * w \in Int /\ i * b \in Int
  OBVIOUS
<1> QED BY <1>1, <1>2, <1>3, <1>4

\* Where a display is.
LEMMA Region ==
  ASSUME NEW d \in Displays
  PROVE  LET column == d % numDisplays.x
             row == d \div numDisplays.x
         IN  RegionOfDisplay(d) =
               [lower |-> [x |-> column * (windowSize.x + bezelWidth.x),
                           y |-> row * (windowSize.y + bezelWidth.y)],
                upper |-> [x |-> column * (windowSize.x + bezelWidth.x) + windowSize.x,
                           y |-> row * (windowSize.y + bezelWidth.y) + windowSize.y]]
<1>1. ~ (d < 0)
  BY DEF Displays
<1> QED BY <1>1 DEF RegionOfDisplay, Times, Plus, Vec, Box

(* A display's region is a box with pixels, all of them in the wall.       *)
THEOREM RegionInWall ==
  ASSUME NEW d \in Displays
  PROVE  /\ RegionOfDisplay(d) \in Boxes
         /\ Pixels(RegionOfDisplay(d)) # {}
         /\ Pixels(RegionOfDisplay(d)) \subseteq Pixels(Wall)
<1> DEFINE column == d % numDisplays.x
           row == d \div numDisplays.x
           left == column * (windowSize.x + bezelWidth.x)
           top == row * (windowSize.y + bezelWidth.y)
           right == numDisplays.x * windowSize.x + (numDisplays.x - 1) * bezelWidth.x
           bottom == numDisplays.y * windowSize.y + (numDisplays.y - 1) * bezelWidth.y
<1>1. column \in 0 .. numDisplays.x - 1 /\ row \in 0 .. numDisplays.y - 1
  BY DisplayCoords
<1>2. left \in Nat /\ left + windowSize.x <= right
  BY <1>1, Axis
<1>3. top \in Nat /\ top + windowSize.y <= bottom
  BY <1>1, Axis
<1>4. RegionOfDisplay(d) = [lower |-> [x |-> left, y |-> top],
                            upper |-> [x |-> left + windowSize.x, y |-> top + windowSize.y]]
  BY Region
<1>5. Wall = [lower |-> [x |-> 0, y |-> 0], upper |-> [x |-> right, y |-> bottom]]
  BY DEF Wall, totalPixelsInWall, Plus, Times, Minus, Vec, Box
<1>6. right \in Int /\ bottom \in Int
  OBVIOUS
<1>7. windowSize.x \in Nat \ {0} /\ windowSize.y \in Nat \ {0}
  OBVIOUS
<1> HIDE DEF left, top, right, bottom
<1>8. RegionOfDisplay(d) \in Boxes
  BY <1>2, <1>3, <1>4, <1>7 DEF Boxes, Vecs
<1>9. [x |-> left, y |-> top] \in Pixels(RegionOfDisplay(d))
  BY <1>2, <1>3, <1>4, <1>7 DEF Pixels
<1>10. Pixels(RegionOfDisplay(d)) \subseteq Pixels(Wall)
  BY <1>2, <1>3, <1>4, <1>5, <1>6, <1>7 DEF Pixels
<1> QED BY <1>8, <1>9, <1>10

(* No two displays show the same pixel of the wall.                        *)
THEOREM RegionsApart ==
  ASSUME NEW d \in Displays, NEW e \in Displays, d # e
  PROVE  Pixels(RegionOfDisplay(d)) \cap Pixels(RegionOfDisplay(e)) = {}
<1> DEFINE column(f) == f % numDisplays.x
           row(f) == f \div numDisplays.x
           left(f) == column(f) * (windowSize.x + bezelWidth.x)
           top(f) == row(f) * (windowSize.y + bezelWidth.y)
<1>1. \A f \in Displays : /\ column(f) \in 0 .. numDisplays.x - 1
                          /\ row(f) \in 0 .. numDisplays.y - 1
  BY DisplayCoords
<1>2. \A f \in Displays :
        RegionOfDisplay(f) =
          [lower |-> [x |-> left(f), y |-> top(f)],
           upper |-> [x |-> left(f) + windowSize.x, y |-> top(f) + windowSize.y]]
  BY Region
<1>3. column(d) # column(e) \/ row(d) # row(e)
  BY CoordsTellApart
<1>4. \A f, g \in Displays :
        /\ column(f) < column(g) => left(f) + windowSize.x <= left(g)
        /\ row(f) < row(g) => top(f) + windowSize.y <= top(g)
  <2> SUFFICES ASSUME NEW f \in Displays, NEW g \in Displays
               PROVE  /\ column(f) < column(g) => left(f) + windowSize.x <= left(g)
                      /\ row(f) < row(g) => top(f) + windowSize.y <= top(g)
    OBVIOUS
  <2> HIDE DEF column, row
  <2>1. column(f) < column(g) => column(g) \in column(f) + 1 .. numDisplays.x - 1
    BY <1>1
  <2>2. row(f) < row(g) => row(g) \in row(f) + 1 .. numDisplays.y - 1
    BY <1>1
  <2>3. column(f) < column(g) => left(f) + windowSize.x <= left(g)
    BY <1>1, <2>1, Axis
  <2>4. row(f) < row(g) => top(f) + windowSize.y <= top(g)
    BY <1>1, <2>2, Axis
  <2> QED BY <2>3, <2>4
<1>5. \A f \in Displays : column(f) \in Int /\ row(f) \in Int /\ left(f) \in Int /\ top(f) \in Int
  <2> SUFFICES ASSUME NEW f \in Displays
               PROVE  column(f) \in Int /\ row(f) \in Int /\ left(f) \in Int /\ top(f) \in Int
    OBVIOUS
  <2> HIDE DEF column, row
  <2> QED BY <1>1
<1> HIDE DEF left, top, column, row
<1>6. \/ left(d) + windowSize.x <= left(e) \/ left(e) + windowSize.x <= left(d)
      \/ top(d) + windowSize.y <= top(e) \/ top(e) + windowSize.y <= top(d)
  BY <1>3, <1>4, <1>5
<1> QED BY <1>2, <1>5, <1>6 DEF Pixels

-----------------------------------------------------------------------------
(* Tiles and regions.                                                      *)

\* A pixel by its coordinates.
LEMMA PixelIn ==
  ASSUME NEW a \in Boxes, NEW p
  PROVE  p \in Pixels(a) <=>
           /\ p = [x |-> p.x, y |-> p.y]
           /\ p.x \in Int /\ a.lower.x <= p.x /\ p.x < a.upper.x
           /\ p.y \in Int /\ a.lower.y <= p.y /\ p.y < a.upper.y
<1>1. a.lower.x \in Int /\ a.lower.y \in Int /\ a.upper.x \in Int /\ a.upper.y \in Int
  BY DEF Boxes, Vecs
<1> QED BY <1>1 DEF Pixels

(* The test by which clients and dispatcher choose the displays of a tile: *)
(* among boxes with pixels, those that overlap are those that share a      *)
(* pixel, so that the assembler writes something (FrameAssembler.cpp:111). *)
THEOREM OverlapMeansSharing ==
  ASSUME NEW a \in Boxes, NEW b \in Boxes, Pixels(a) # {}, Pixels(b) # {}
  PROVE  Overlaps(a, b) <=> Pixels(a) \cap Pixels(b) # {}
<1>1. /\ a.lower.x \in Int /\ a.lower.y \in Int /\ a.upper.x \in Int /\ a.upper.y \in Int
      /\ b.lower.x \in Int /\ b.lower.y \in Int /\ b.upper.x \in Int /\ b.upper.y \in Int
  BY DEF Boxes, Vecs
<1>2. a.lower.x < a.upper.x /\ a.lower.y < a.upper.y
  BY <1>1, PixelIn
<1>3. b.lower.x < b.upper.x /\ b.lower.y < b.upper.y
  BY <1>1, PixelIn
<1>4. ASSUME Overlaps(a, b)
      PROVE  Pixels(a) \cap Pixels(b) # {}
  <2> DEFINE p == [x |-> IF a.lower.x < b.lower.x THEN b.lower.x ELSE a.lower.x,
                   y |-> IF a.lower.y < b.lower.y THEN b.lower.y ELSE a.lower.y]
  <2>1. p \in Pixels(a)
    BY <1>1, <1>2, <1>4 DEF Overlaps, Pixels
  <2>2. p \in Pixels(b)
    BY <1>1, <1>3, <1>4 DEF Overlaps, Pixels
  <2> QED BY <2>1, <2>2
<1>5. ASSUME Pixels(a) \cap Pixels(b) # {}
      PROVE  Overlaps(a, b)
  <2>1. PICK p : p \in Pixels(a) /\ p \in Pixels(b)
    BY <1>5
  <2> QED BY <1>1, <2>1, PixelIn DEF Overlaps
<1> QED BY <1>4, <1>5

(* The tiles of a frame that overlap a display cover it, every pixel once, *)
(* and each has a pixel there: what FrameAssembler assumes of its tiles    *)
(* (CoverAssumption) holds for every wall, display and tiling.             *)
THEOREM TilesCoverDisplay ==
  ASSUME NEW partition, Tiles(partition), NEW d \in Displays
  PROVE  LET region == RegionOfDisplay(d)
             cover == [t \in {t \in partition : Overlaps(t, region)} |->
                         Pixels(t) \cap Pixels(region)]
         IN  /\ UNION {cover[t] : t \in DOMAIN cover} = Pixels(region)
             /\ \A t \in DOMAIN cover : cover[t] # {}
             /\ \A t, u \in DOMAIN cover : t # u => cover[t] \cap cover[u] = {}
<1> DEFINE region == RegionOfDisplay(d)
           near == {t \in partition : Overlaps(t, region)}
           cover == [t \in near |-> Pixels(t) \cap Pixels(region)]
<1>1. /\ region \in Boxes
      /\ Pixels(region) # {}
      /\ Pixels(region) \subseteq Pixels(Wall)
  BY RegionInWall
<1>2. /\ partition \subseteq Boxes
      /\ \A t \in partition : Pixels(t) # {}
      /\ UNION {Pixels(t) : t \in partition} = Pixels(Wall)
      /\ \A t, u \in partition : t # u => Pixels(t) \cap Pixels(u) = {}
  BY DEF Tiles
<1> HIDE DEF region
<1>3. \A t \in partition : Overlaps(t, region) <=> Pixels(t) \cap Pixels(region) # {}
  BY <1>1, <1>2, OverlapMeansSharing
<1>4. \A t \in near : cover[t] = Pixels(t) \cap Pixels(region)
  OBVIOUS
<1>5. UNION {cover[t] : t \in near} = Pixels(region)
  <2>1. ASSUME NEW p \in Pixels(region)
        PROVE  p \in UNION {cover[t] : t \in near}
    <3>1. PICK t \in partition : p \in Pixels(t)
      BY <1>1, <1>2
    <3>2. t \in near
      BY <1>3, <3>1
    <3> QED BY <1>4, <3>1, <3>2
  <2>2. UNION {cover[t] : t \in near} \subseteq Pixels(region)
    BY <1>4
  <2> QED BY <2>1, <2>2
<1>6. \A t \in near : cover[t] # {}
  BY <1>3, <1>4
<1>7. \A t, u \in near : t # u => cover[t] \cap cover[u] = {}
  BY <1>2, <1>4
<1>8. DOMAIN cover = near
  OBVIOUS
<1> HIDE DEF cover, near
<1>9. /\ UNION {cover[t] : t \in DOMAIN cover} = Pixels(region)
      /\ \A t \in DOMAIN cover : cover[t] # {}
      /\ \A t, u \in DOMAIN cover : t # u => cover[t] \cap cover[u] = {}
  BY <1>5, <1>6, <1>7, <1>8
<1> QED BY <1>9 DEF cover, near, region

-----------------------------------------------------------------------------
(* Offsets.                                                                *)

(* The offset of a pixel of a box lies in the box's array, so the copying  *)
(* loops of dw2_send_rgba() and of the assembler stay within their arrays. *)
THEOREM OffsetInArray ==
  ASSUME NEW a \in Boxes, NEW p \in Pixels(a)
  PROVE  OffsetIn(a, p) \in 0 .. Area(a) - 1
<1> DEFINE w == a.upper.x - a.lower.x
           h == a.upper.y - a.lower.y
           i == p.x - a.lower.x
           j == p.y - a.lower.y
<1>1. a.lower.x \in Int /\ a.lower.y \in Int /\ a.upper.x \in Int /\ a.upper.y \in Int
  BY DEF Boxes, Vecs
<1>2. i \in Nat /\ j \in Nat /\ i < w /\ j < h /\ w \in Nat /\ h \in Nat
  BY <1>1, PixelIn
<1>3. OffsetIn(a, p) = i + w * j /\ Area(a) = w * h
  BY <1>1 DEF OffsetIn, Area, Size, Minus, Vec
<1> HIDE DEF w, h, i, j
<1>4. j * w + w <= h * w
  BY <1>2, ProductStep
<1>5. w * j = j * w /\ w * h = h * w /\ j * w \in Nat /\ h * w \in Nat
  BY <1>2
<1> QED BY <1>2, <1>3, <1>4, <1>5

(* No two pixels of a box have the same offset, so no pixel overwrites     *)
(* another one.                                                            *)
THEOREM OffsetTellsApart ==
  ASSUME NEW a \in Boxes, NEW p \in Pixels(a), NEW q \in Pixels(a),
         OffsetIn(a, p) = OffsetIn(a, q)
  PROVE  p = q
<1> DEFINE w == a.upper.x - a.lower.x
           i == p.x - a.lower.x
           j == p.y - a.lower.y
           k == q.x - a.lower.x
           l == q.y - a.lower.y
<1>1. a.lower.x \in Int /\ a.lower.y \in Int /\ a.upper.x \in Int /\ a.upper.y \in Int
  BY DEF Boxes, Vecs
<1>2. i \in Nat /\ i < w /\ k \in Nat /\ k < w /\ j \in Nat /\ l \in Nat /\ w \in Nat
  BY <1>1, PixelIn
<1>3. i + w * j = k + w * l
  BY <1>1 DEF OffsetIn, Size, Minus, Vec
<1>4. j = l /\ i = k
  <2> HIDE DEF w, i, j, k, l
  <2>1. w * j = j * w /\ w * l = l * w /\ j * w \in Int /\ l * w \in Int
    BY <1>2
  <2>2. j < l => j * w + w <= l * w
    BY <1>2, ProductStep
  <2>3. l < j => l * w + w <= j * w
    BY <1>2, ProductStep
  <2>4. j = l
    BY <1>2, <1>3, <2>1, <2>2, <2>3
  <2> QED BY <1>2, <1>3, <2>1, <2>4
<1>5. p.x = q.x /\ p.y = q.y
  BY <1>1, <1>4, PixelIn
<1> QED BY <1>5, PixelIn

(* Every place of the array is that of a pixel: arrays have no gaps.       *)
THEOREM OffsetOnto ==
  ASSUME NEW a \in Boxes, Pixels(a) # {}, NEW k \in 0 .. Area(a) - 1
  PROVE  \E p \in Pixels(a) : OffsetIn(a, p) = k
<1> DEFINE w == a.upper.x - a.lower.x
           h == a.upper.y - a.lower.y
           i == k % w
           j == k \div w
           p == [x |-> a.lower.x + i, y |-> a.lower.y + j]
<1>1. a.lower.x \in Int /\ a.lower.y \in Int /\ a.upper.x \in Int /\ a.upper.y \in Int
  BY DEF Boxes, Vecs
<1>2. w \in Nat \ {0} /\ h \in Nat \ {0}
  BY <1>1, PixelIn
<1>3. Area(a) = w * h
  BY <1>1 DEF Area, Size, Minus, Vec
<1>4. i \in 0 .. w - 1 /\ j \in Nat /\ k = w * j + i
  <2> HIDE DEF w
  <2>1. k \in Nat
    OBVIOUS
  <2>2. QED
    BY <1>2, <2>1, DivMod
<1>5. j < h
  <2>1. k \in Nat /\ k < w * h
    <3>1. w * h \in Nat
      BY <1>2
    <3> HIDE DEF w, h
    <3>2. QED
      BY <1>3, <3>1
  <2> HIDE DEF w, h, i, j
  <2>2. h <= j => h * w <= j * w
    BY <1>2, <1>4, ProductMonotone
  <2>3. w * j = j * w /\ w * h = h * w /\ j * w \in Int /\ h * w \in Int
    BY <1>2, <1>4
  <2>4. QED
    BY <1>2, <1>4, <2>1, <2>2, <2>3
<1>6. p.x - a.lower.x = i /\ p.y - a.lower.y = j
  <2> HIDE DEF i, j
  <2>1. QED
    BY <1>1, <1>4
<1>7. p \in Pixels(a)
  <2> HIDE DEF i, j
  <2>1. p.x \in a.lower.x .. a.upper.x - 1 /\ p.y \in a.lower.y .. a.upper.y - 1
    BY <1>1, <1>2, <1>4, <1>5
  <2>2. QED
    BY <2>1 DEF Pixels
<1>8. OffsetIn(a, p) = i + w * j
  <2>1. Size(a).x = w
    BY <1>1 DEF Size, Minus, Vec
  <2> HIDE DEF p, i, j, w
  <2>2. QED
    BY <1>6, <2>1 DEF OffsetIn
<1>9. i + w * j = k
  <2>1. w * j \in Int
    BY <1>2, <1>4
  <2> HIDE DEF i, j, w
  <2>2. QED
    BY <1>4, <2>1
<1>10. QED
  BY <1>7, <1>8, <1>9

\* Row and column are got back from an offset.
LEMMA RowAndColumn ==
  ASSUME NEW w \in Nat, NEW i \in 0 .. w - 1, NEW j \in Nat
  PROVE  (w * j + i) % w = i /\ (w * j + i) \div w = j
<1> DEFINE k == w * j + i
<1>1. w \in Nat \ {0} /\ k \in Nat
  OBVIOUS
<1>2. k \div w \in Nat /\ k % w \in 0 .. w - 1 /\ k = w * (k \div w) + (k % w)
  BY <1>1, DivMod
<1> DEFINE row == k \div w
           column == k % w
<1>3. row \in Nat /\ column \in 0 .. w - 1 /\ w * j + i = w * row + column
  BY <1>2
<1> HIDE DEF row, column, k
<1>4. w * j = j * w /\ w * row = row * w /\ j * w \in Int /\ row * w \in Int
  BY <1>3
<1>5. j < row => j * w + w <= row * w
  BY <1>3, ProductStep
<1>6. row < j => row * w + w <= j * w
  BY <1>3, ProductStep
<1>7. row = j /\ column = i
  <2>1. row = j
    BY <1>3, <1>4, <1>5, <1>6
  <2> QED BY <1>3, <1>4, <2>1
<1> QED BY <1>7 DEF row, column, k

-----------------------------------------------------------------------------
(* The way of the pixels.                                                  *)

USE TilingAssumption

LEMMA PixelsFinite ==
  ASSUME NEW a \in Boxes
  PROVE  IsFiniteSet(Pixels(a))
<1> DEFINE xs == a.lower.x .. a.upper.x - 1
           ys == a.lower.y .. a.upper.y - 1
           f == [c \in xs \X ys |-> [x |-> c[1], y |-> c[2]]]
<1>1. a.lower.x \in Int /\ a.lower.y \in Int /\ a.upper.x - 1 \in Int /\ a.upper.y - 1 \in Int
  BY DEF Boxes, Vecs
<1>2. IsFiniteSet(xs) /\ IsFiniteSet(ys)
  BY <1>1, FS_Interval
<1>3. IsFiniteSet(xs \X ys)
  BY <1>2, FS_Product
<1>4. Pixels(a) = [x: xs, y: ys]
  BY DEF Pixels
<1> HIDE DEF xs, ys
<1>5. f \in Surjection(xs \X ys, [x: xs, y: ys])
  <2>1. f \in [xs \X ys -> [x: xs, y: ys]]
    OBVIOUS
  <2>2. ASSUME NEW p \in [x: xs, y: ys]
        PROVE  \E c \in xs \X ys : f[c] = p
    <3>1. <<p.x, p.y>> \in xs \X ys /\ f[<<p.x, p.y>>] = p
      OBVIOUS
    <3> QED BY <3>1
  <2> QED BY <2>1, <2>2 DEF Surjection
<1> QED BY <1>3, <1>4, <1>5, FS_Surjection

\* A rank with a frame assembler has a display.
LEMMA AssemblersHaveDisplays ==
  ASSUME useHeadNode \in BOOLEAN, NEW r \in Assemblers
  PROVE  DisplayOf(r, useHeadNode) \in Displays
<1>1. NumDisplays \in Nat
  BY DEF NumDisplays
<1> QED BY <1>1 DEF Assemblers, Assembles, Ranks, NumRanks, DisplayOf, Displays

\* dw2_send_rgba() packs the rows of an array of any pitch so that every pixel
\* is at its offset in the tile.
LEMMA PackedIsGood ==
  ASSUME NEW region \in Boxes, NEW slack \in Nat
  PROVE  LET pitch == Size(region).x + slack
         IN  Good(Packed(region, Rendered(region, pitch), pitch))
<1> DEFINE w == Size(region).x
           h == Size(region).y
           pitch == w + slack
           pixel == Rendered(region, pitch)
           tile == Packed(region, pixel, pitch)
<1>1. /\ region.lower.x \in Int /\ region.lower.y \in Int
      /\ region.upper.x \in Int /\ region.upper.y \in Int
  BY DEF Boxes, Vecs
<1>2. w = region.upper.x - region.lower.x /\ h = region.upper.y - region.lower.y
  BY <1>1 DEF Size, Minus, Vec
<1> SUFFICES ASSUME NEW p \in Pixels(region)
             PROVE  tile.pixels[OffsetIn(region, p)] = p
  BY DEF Good, Packed
<1> DEFINE i == p.x - region.lower.x
           j == p.y - region.lower.y
           out == w * j + i
           in == pitch * j + i
<1>3. /\ i \in Nat /\ j \in Nat /\ i < w /\ j < h /\ w \in Nat /\ h \in Nat
      /\ p = [x |-> region.lower.x + i, y |-> region.lower.y + j]
  BY <1>1, <1>2, PixelIn
<1>4. OffsetIn(region, p) = out
  BY <1>1, <1>3 DEF OffsetIn
<1>5. out \in 0 .. Area(region) - 1
  BY <1>4, OffsetInArray
<1>6. tile.pixels[out] = pixel[(out \div w) * pitch + (out % w)]
  BY <1>5 DEF Packed
<1>7. pitch \in Nat /\ i < pitch
  BY <1>3
<1>8. out % w = i /\ out \div w = j /\ in % pitch = i /\ in \div pitch = j
  <2> HIDE DEF w, pitch, i, j
  <2>1. i \in 0 .. w - 1 /\ i \in 0 .. pitch - 1
    BY <1>3, <1>7
  <2>2. out % w = i /\ out \div w = j
    BY <1>3, <2>1, RowAndColumn
  <2>3. in % pitch = i /\ in \div pitch = j
    BY <1>3, <1>7, <2>1, RowAndColumn
  <2> QED BY <2>2, <2>3
<1>9. in \in 0 .. pitch * h - 1
  <2> HIDE DEF w, pitch, i, j, h
  <2>1. j * pitch + pitch <= h * pitch
    BY <1>3, <1>7, ProductStep
  <2>2. pitch * j = j * pitch /\ pitch * h = h * pitch /\ j * pitch \in Nat /\ h * pitch \in Nat
    BY <1>3, <1>7
  <2> QED BY <1>3, <1>7, <2>1, <2>2
<1>10. pixel[in] = [x |-> region.lower.x + i, y |-> region.lower.y + j]
  <2>1. pixel[in] = IF in % pitch < w
                    THEN Plus(region.lower, Vec(in % pitch, in \div pitch))
                    ELSE Blank
    BY <1>9 DEF Rendered
  <2>2. pixel[in] = Plus(region.lower, Vec(i, j))
    BY <1>3, <1>8, <2>1
  <2> QED BY <2>2 DEF Plus, Vec
<1>11. (out \div w) * pitch + (out % w) = in
  <2> HIDE DEF w, pitch, i, j, out
  <2> QED BY <1>3, <1>7, <1>8
<1> QED BY <1>3, <1>4, <1>6, <1>10, <1>11

LEMMA CodingKeepsGood ==
  ASSUME NEW tile, tile.region \in Boxes, Good(tile)
  PROVE  Good(Decode(Encode(tile)))
<1> SUFFICES ASSUME NEW p \in Pixels(tile.region)
             PROVE  Decode(Encode(tile)).pixels[OffsetIn(tile.region, p)] = p
  BY DEF Good, Decode, Encode
<1>1. OffsetIn(tile.region, p) \in 0 .. Area(tile.region) - 1
  BY OffsetInArray
<1> QED BY <1>1 DEF Good, Decode, Encode

\* The offsets in a region's array of the pixels of a tile there.
Places(tile, region) == {OffsetIn(region, p) : p \in Common(tile, region)}

LEMMA CopiedIsImage ==
  ASSUME NEW tile, NEW region \in Boxes, Good(tile)
  PROVE  /\ DOMAIN Copied(tile, region) = Places(tile, region)
         /\ \A p \in Common(tile, region) : Copied(tile, region)[OffsetIn(region, p)] = p
<1>1. DOMAIN Copied(tile, region) = Places(tile, region)
  BY DEF Copied, Places
<1>2. ASSUME NEW p \in Common(tile, region)
      PROVE  Copied(tile, region)[OffsetIn(region, p)] = p
  <2> DEFINE ofs == OffsetIn(region, p)
             q == CHOOSE q \in Common(tile, region) : OffsetIn(region, q) = ofs
  <2>1. q \in Common(tile, region) /\ OffsetIn(region, q) = ofs
    OBVIOUS
  <2>2. q = p
    <3> HIDE DEF q
    <3> QED BY <2>1, OffsetTellsApart DEF Common
  <2>3. Copied(tile, region)[ofs] = tile.pixels[OffsetIn(tile.region, q)]
    BY DEF Copied
  <2> HIDE DEF q
  <2> QED BY <2>2, <2>3 DEF Good, Common
<1> QED BY <1>1, <1>2

\* A tile counts with as many pixels as it has places.
LEMMA PlacesCounted ==
  ASSUME NEW tile, NEW region \in Boxes
  PROVE  /\ Places(tile, region) \subseteq 0 .. Area(region) - 1
         /\ IsFiniteSet(Places(tile, region))
         /\ Cardinality(Places(tile, region)) = NumWritten(tile, region)
<1> DEFINE f == [p \in Common(tile, region) |-> OffsetIn(region, p)]
<1>1. IsFiniteSet(Common(tile, region))
  BY PixelsFinite, FS_Subset DEF Common
<1>2. f \in Bijection(Common(tile, region), Places(tile, region))
  <2>1. f \in [Common(tile, region) -> Places(tile, region)]
    BY DEF Places
  <2>2. \A p, q \in Common(tile, region) : f[p] = f[q] => p = q
    BY OffsetTellsApart DEF Common
  <2>3. \A ofs \in Places(tile, region) : \E p \in Common(tile, region) : f[p] = ofs
    BY DEF Places
  <2> QED BY <2>1, <2>2, <2>3 DEF Bijection, Injection, Surjection, IsInjective
<1>3. ExistsBijection(Common(tile, region), Places(tile, region))
  BY <1>2 DEF ExistsBijection
<1>4. Places(tile, region) \subseteq 0 .. Area(region) - 1
  BY OffsetInArray DEF Places, Common
<1> QED BY <1>1, <1>3, <1>4, FS_Bijection DEF NumWritten

-----------------------------------------------------------------------------
(* The inductive invariant.                                                *)

LEMMA InvInit == Init => IInv
<1> SUFFICES ASSUME Init PROVE IInv
  OBVIOUS
<1> USE DEF Init
<1>1. WireInv /\ OnePlaceEach /\ PixelsRight
  BY DEF WireInv, OnePlaceEach, PixelsRight
<1>2. frame = [r \in Assemblers |-> frame[r]]
  OBVIOUS
<1>3. ASSUME NEW r \in Assemblers
      PROVE  BufferInv(r)
  <2> DEFINE region == MyRegion(r)
             blank == [ofs \in 0 .. Area(region) - 1 |-> Blank]
  <2>1. frame[r] = [pixels |-> blank, numPixelsCompleted |-> 0]
    BY DEF NewFrame
  <2>2. Shown(blank) = {}
    BY DEF Shown
  <2>3. region \in Boxes
    BY AssemblersHaveDisplays, RegionInWall DEF MyRegion, RegionOfRank
  <2>4. \A p \in Pixels(region) : blank[OffsetIn(region, p)] = Blank
    BY <2>3, OffsetInArray
  <2>5. Cardinality(Shown(blank)) = 0
    BY <2>2, FS_EmptySet
  <2> HIDE DEF blank, region
  <2>6. DOMAIN blank = 0 .. Area(region) - 1
    BY DEF blank
  <2>7. /\ frame[r].pixels = blank
        /\ frame[r].numPixelsCompleted = Cardinality(Shown(frame[r].pixels))
        /\ frame[r] = [pixels |-> frame[r].pixels,
                       numPixelsCompleted |-> Cardinality(Shown(frame[r].pixels))]
    BY <2>1, <2>5
  <2>8. \A p \in Pixels(region) : frame[r].pixels[OffsetIn(region, p)] = Blank
    BY <2>4, <2>7
  <2> QED
    <3>1. region = MyRegion(r)
      BY DEF region
    <3> QED BY ONLY <2>6, <2>7, <2>8, <3>1 DEF BufferInv
<1> QED BY <1>1, <1>2, <1>3 DEF IInv, FrameInv

\* A step that leaves the frame buffers alone, and puts no tile back on its way.
LEMMA FrameKept ==
  ASSUME IInv, UNCHANGED <<setting, frame>>,
         \A r \in Assemblers : \A t \in tiling : OnWay(r, t)' => OnWay(r, t)
  PROVE  FrameInv'
<1>1. Assemblers' = Assemblers /\ tiling' = tiling /\ frame' = frame
  BY DEF setting, Assemblers
<1>2. \A r \in Assemblers : MyRegion(r)' = MyRegion(r)
  BY DEF setting, MyRegion
<1>3. ASSUME NEW r \in Assemblers
      PROVE  BufferInv(r)'
  BY <1>1, <1>2, <1>3 DEF IInv, FrameInv, BufferInv
<1> QED BY <1>1, <1>3 DEF IInv, FrameInv

LEMMA SendRGBAKeeps == ASSUME IInv, SendRGBA PROVE IInv'
<1> USE DEF IInv
<1>1. PICK region \in toRender, slack \in 0 .. MaxSlack :
        LET pitch == Size(region).x + slack
            tile == Packed(region, Rendered(region, pitch), pitch)
        IN  /\ toRender' = toRender \ {region}
            /\ tilesToSend' = tilesToSend \cup {tile}
  BY DEF SendRGBA
<1> DEFINE pitch == Size(region).x + slack
           new == Packed(region, Rendered(region, pitch), pitch)
<1>2. toRender' = toRender \ {region} /\ tilesToSend' = tilesToSend \cup {new}
  BY <1>1
<1>3. UNCHANGED <<useHeadNode, tiling, wire, frame>> /\ UNCHANGED <<setting, frame>>
  BY DEF SendRGBA, setting
<1>4. region \in tiling /\ region \in Boxes
  BY DEF WireInv, Tiles
<1>5. new.region = region /\ Good(new)
  <2>1. Good(new)
    BY <1>4, PackedIsGood, SlackAssumption
  <2>2. new.region = region
    BY DEF Packed
  <2> QED BY <2>1, <2>2
<1> HIDE DEF new
<1>6. WireInv'
  BY <1>2, <1>3, <1>4, <1>5 DEF WireInv, Assemblers, MyRegion
<1>7. OnePlaceEach'
  BY <1>2, <1>3, <1>5 DEF OnePlaceEach
<1>8. PixelsRight'
  BY <1>2, <1>3, <1>5 DEF PixelsRight, Good
<1>9. FrameInv'
  <2>1. \A r \in Assemblers : \A t \in tiling : OnWay(r, t)' => OnWay(r, t)
    BY <1>2, <1>3, <1>5 DEF OnWay
  <2> QED BY <1>3, <2>1, FrameKept
<1> QED BY <1>6, <1>7, <1>8, <1>9

LEMMA CompressKeeps == ASSUME IInv, Compress PROVE IInv'
<1> USE DEF IInv
<1> DEFINE toRanks(tile) == {r \in DOMAIN RegionOfNode(useHeadNode) :
                               Overlaps(RegionOfNode(useHeadNode)[r], tile.region)}
<1>1. PICK tile \in tilesToSend :
        /\ tilesToSend' = tilesToSend \ {tile}
        /\ wire' = wire \cup SendTo(toRanks(tile), Encode(tile))
  BY DEF Compress
<1>2. UNCHANGED <<useHeadNode, tiling, toRender, frame>> /\ UNCHANGED <<setting, frame>>
  BY DEF Compress, setting
<1>3. tile.region \in tiling /\ tile.region \in Boxes
  BY DEF WireInv, Tiles
<1> DEFINE new == SendTo(toRanks(tile), Encode(tile))
<1>4. ASSUME NEW m \in new
      PROVE  /\ m = [to |-> m.to, message |-> Encode(tile)]
             /\ m.message.region = tile.region
             /\ m.to \in Assemblers => Overlaps(tile.region, MyRegion(m.to))
             /\ useHeadNode => m.to = 0
  <2>1. /\ m = [to |-> m.to, message |-> Encode(tile)]
        /\ m.message.region = tile.region
        /\ m.to \in DOMAIN RegionOfNode(useHeadNode)
        /\ Overlaps(RegionOfNode(useHeadNode)[m.to], tile.region)
    BY <1>4 DEF SendTo, Encode
  <2>2. CASE useHeadNode
    BY <2>1, <2>2 DEF RegionOfNode, Assemblers, Assembles
  <2>3. CASE ~ useHeadNode
    <3>1. RegionOfNode(useHeadNode)[m.to] = MyRegion(m.to)
      BY <2>1, <2>3 DEF RegionOfNode, MyRegion, RegionOfRank, DisplayOf
    <3> QED BY <2>1, <2>3, <3>1 DEF Overlaps
  <2> QED BY <2>1, <2>2, <2>3
<1>5. wire' = wire \cup new
  BY <1>1
<1> HIDE DEF new, toRanks
<1>6. WireInv'
  BY <1>1, <1>2, <1>3, <1>4, <1>5 DEF WireInv, Assemblers, MyRegion
<1>7. OnePlaceEach'
  <2>1. \A m \in wire : \A n \in new : m.message.region # n.message.region
    BY <1>1, <1>4 DEF OnePlaceEach
  <2>2. \A m, n \in new : /\ m.to = n.to => m = n
                          /\ useHeadNode /\ m.to = 0 => n.to = 0
    BY <1>4
  <2>3. \A m, n \in wire' : m.message.region = n.message.region =>
          /\ m.to = n.to => m = n
          /\ useHeadNode /\ m.to = 0 => n.to = 0
    BY <1>5, <2>1, <2>2 DEF OnePlaceEach
  <2>4. \A m \in wire' : /\ m.message.region \notin toRender'
                         /\ \A t \in tilesToSend' : t.region # m.message.region
    BY <1>1, <1>2, <1>4, <1>5 DEF OnePlaceEach
  <2> QED BY <1>1, <1>2, <2>3, <2>4 DEF OnePlaceEach
<1>8. PixelsRight'
  <2>1. Good(Decode(Encode(tile)))
    BY <1>1, <1>3, CodingKeepsGood DEF PixelsRight
  <2>2. \A m \in new : Good(Decode(m.message))
    BY <1>4, <2>1
  <2> QED BY <1>1, <1>5, <2>2 DEF PixelsRight, Good
<1>9. FrameInv'
  <2>1. \A r \in Assemblers : \A t \in tiling : OnWay(r, t)' => OnWay(r, t)
    BY <1>1, <1>2, <1>4, <1>5 DEF OnWay
  <2> QED BY <1>2, <2>1, FrameKept
<1> QED BY <1>6, <1>7, <1>8, <1>9

LEMMA DispatchKeeps == ASSUME IInv, Dispatch PROVE IInv'
<1> USE DEF IInv
<1> DEFINE toRanks(m) == {r \in Ranks(useHeadNode) :
                          Overlaps(m.message.region, RegionOfRank(r, useHeadNode))}
<1>1. PICK m \in wire :
        /\ m.to = 0
        /\ wire' = (wire \ {m}) \cup SendTo(toRanks(m), m.message)
  BY DEF Dispatch
<1>2. /\ useHeadNode
      /\ UNCHANGED <<useHeadNode, tiling, toRender, tilesToSend, frame>>
      /\ UNCHANGED <<setting, frame>>
  BY DEF Dispatch, setting
<1> DEFINE new == SendTo(toRanks(m), m.message)
<1>3. ASSUME NEW n \in new
      PROVE  /\ n = [to |-> n.to, message |-> m.message]
             /\ n.message = m.message
             /\ Overlaps(m.message.region, MyRegion(n.to))
             /\ n.to # 0
  <2>1. /\ n = [to |-> n.to, message |-> m.message]
        /\ n.message = m.message
        /\ Overlaps(m.message.region, MyRegion(n.to))
    BY <1>3 DEF SendTo, MyRegion
  <2>2. MyRegion(0) = [lower |-> [x |-> -1, y |-> -1], upper |-> [x |-> -1, y |-> -1]]
    BY <1>2 DEF MyRegion, RegionOfRank, DisplayOf, RegionOfDisplay, Box, Vec
  <2>3. m.message.region \in Boxes /\ Pixels(m.message.region) # {}
        /\ Pixels(m.message.region) \subseteq Pixels(Wall)
    BY DEF WireInv, Tiles
  <2>4. m.message.region.lower.x >= 0
    <3>1. PICK p \in Pixels(m.message.region) : TRUE
      BY <2>3
    <3> DEFINE box == m.message.region
               corner == [x |-> box.lower.x, y |-> box.lower.y]
    <3>2. /\ box.lower.x \in Int /\ box.lower.y \in Int
          /\ box.upper.x \in Int /\ box.upper.y \in Int
      BY <2>3 DEF Boxes, Vecs
    <3>3. corner \in Pixels(box)
      BY <2>3, <3>1, <3>2, PixelIn DEF Pixels
    <3>4. corner \in Pixels(Wall)
      BY <2>3, <3>3
    <3>5. Wall.lower.x = 0
      BY DEF Wall, Box, Vec
    <3> QED BY <3>2, <3>4, <3>5 DEF Pixels
  <2>5. m.message.region.lower.x \in Int
    BY <2>3 DEF Boxes, Vecs
  <2> QED BY <2>1, <2>2, <2>4, <2>5 DEF Overlaps
<1>4. wire' = (wire \ {m}) \cup new
  BY <1>1
<1> HIDE DEF new, toRanks
<1>5. WireInv'
  BY <1>1, <1>2, <1>3, <1>4 DEF WireInv, Assemblers, MyRegion
<1>6. OnePlaceEach'
  <2>1. \A n \in wire \ {m} : n.message.region # m.message.region
    BY <1>1, <1>2 DEF OnePlaceEach
  <2>2. \A n, k \in new : /\ n.to = k.to => n = k
                          /\ n.to # 0
                          /\ n.message = m.message
    BY <1>3
  <2>3. \A n, k \in wire' : n.message.region = k.message.region =>
          /\ n.to = k.to => n = k
          /\ useHeadNode /\ n.to = 0 => k.to = 0
    BY <1>4, <2>1, <2>2 DEF OnePlaceEach
  <2>4. \A n \in wire' : /\ n.message.region \notin toRender'
                         /\ \A t \in tilesToSend' : t.region # n.message.region
    BY <1>1, <1>2, <1>4, <2>2 DEF OnePlaceEach
  <2> QED BY <1>2, <2>3, <2>4 DEF OnePlaceEach
<1>7. PixelsRight'
  BY <1>1, <1>2, <1>3, <1>4 DEF PixelsRight, Good
<1>8. FrameInv'
  <2>1. \A r \in Assemblers : \A t \in tiling : OnWay(r, t)' => OnWay(r, t)
    BY <1>1, <1>2, <1>3, <1>4 DEF OnWay
  <2> QED BY <1>2, <2>1, FrameKept
<1> QED BY <1>5, <1>6, <1>7, <1>8

LEMMA AssembleKeeps ==
  ASSUME IInv, NEW r \in 0 .. NumDisplays, Assemble(r)
  PROVE  IInv'
<1> USE DEF IInv
<1> DEFINE region == MyRegion(r)
           old == frame[r].pixels
           completed == frame[r].numPixelsCompleted
<1>1. PICK m \in wire :
        /\ m.to = r
        /\ wire' = wire \ {m}
        /\ LET tile == Decode(m.message)
           IN  frame' = [frame EXCEPT
                 ![r].pixels = Overwritten(@, Copied(tile, MyRegion(r))),
                 ![r].numPixelsCompleted = @ + NumWritten(tile, MyRegion(r))]
  BY DEF Assemble
<1> DEFINE tile == Decode(m.message)
           new == Overwritten(old, Copied(tile, region))
<1>2. /\ r \in Assemblers
      /\ UNCHANGED <<useHeadNode, tiling, toRender, tilesToSend>>
      /\ UNCHANGED setting
  BY DEF Assemble, setting
<1>3. /\ frame = [q \in Assemblers |-> frame[q]]
      /\ frame[r] = [pixels |-> old, numPixelsCompleted |-> completed]
  BY <1>2 DEF FrameInv, BufferInv
<1>4. frame' = [q \in Assemblers |->
                  IF q = r
                  THEN [pixels |-> new,
                        numPixelsCompleted |-> completed + NumWritten(tile, region)]
                  ELSE frame[q]]
  <2>1. frame' = [frame EXCEPT
          ![r] = [[frame[r] EXCEPT !.pixels = new]
                  EXCEPT !.numPixelsCompleted = @ + NumWritten(tile, region)]]
    BY <1>1, <1>2, <1>3
  <2>2. [[frame[r] EXCEPT !.pixels = new]
         EXCEPT !.numPixelsCompleted = @ + NumWritten(tile, region)]
          = [pixels |-> new, numPixelsCompleted |-> completed + NumWritten(tile, region)]
    <3>1. frame[r] = [pixels |-> old, numPixelsCompleted |-> completed]
      BY <1>3
    <3>2. [frame[r] EXCEPT !.pixels = new]
            = [pixels |-> new, numPixelsCompleted |-> completed]
      <4> HIDE DEF old, completed, tile, region, new
      <4> QED BY <3>1
    <3> DEFINE more == NumWritten(tile, region)
    <3>3. [[pixels |-> new, numPixelsCompleted |-> completed]
           EXCEPT !.numPixelsCompleted = @ + more]
            = [pixels |-> new, numPixelsCompleted |-> completed + more]
      <4> HIDE DEF old, completed, tile, region, new, more
      <4> QED OBVIOUS
    <3> HIDE DEF old, completed, tile, region, new
    <3> QED BY <3>2, <3>3
  <2> HIDE DEF old, completed, tile, region, new
  <2> QED BY <1>2, <1>3, <2>1, <2>2
<1>5. /\ tile.region = m.message.region
      /\ tile.region \in tiling /\ tile.region \in Boxes
      /\ Good(tile)
  BY <1>1 DEF WireInv, Tiles, PixelsRight, Decode
<1>6. region \in Boxes /\ Pixels(region) \subseteq Pixels(Wall)
  BY <1>2, AssemblersHaveDisplays, RegionInWall DEF WireInv, MyRegion, RegionOfRank
<1>7. /\ completed = Cardinality(Shown(old))
      /\ DOMAIN old = 0 .. Area(region) - 1
      /\ \A p \in Pixels(region) : old[OffsetIn(region, p)] \in {Blank, p}
      /\ \A t \in tiling : OnWay(r, t) =>
           \A p \in Pixels(t) \cap Pixels(region) : old[OffsetIn(region, p)] = Blank
  BY <1>2 DEF FrameInv, BufferInv
<1>8. OnWay(r, tile.region) /\ ~ OnWay(r, tile.region)'
  <2>1. ~ (useHeadNode /\ r = 0)
    BY <1>2 DEF Assemblers, Assembles, WireInv
  <2>2. \A n \in wire \ {m} : n.message.region = tile.region =>
          ~ (n.to = r) /\ ~ (useHeadNode /\ n.to = 0)
    BY <1>1, <1>5, <2>1 DEF OnePlaceEach
  <2>3. ~ OnWay(r, tile.region)'
    BY <1>1, <1>2, <1>5, <2>2 DEF OnWay, OnePlaceEach
  <2> QED BY <1>1, <1>5, <2>3 DEF OnWay
<1>9. WireInv'
  BY <1>1, <1>2 DEF WireInv, Assemblers, MyRegion
<1>10. OnePlaceEach'
  BY <1>1, <1>2 DEF OnePlaceEach
<1>11. PixelsRight'
  BY <1>1, <1>2 DEF PixelsRight, Good
<1>12. \A q \in Assemblers : \A t \in tiling : OnWay(q, t)' => OnWay(q, t)
  BY <1>1, <1>2 DEF OnWay
<1>13. Assemblers' = Assemblers /\ \A q \in Assemblers : MyRegion(q)' = MyRegion(q)
  BY <1>2 DEF Assemblers, MyRegion
<1> DEFINE places == Places(tile, region)
<1>14. \A p \in Pixels(region) : p # Blank
  <2>1. Wall.lower.x = 0 /\ Blank.x = -1
    BY DEF Wall, Box, Vec, Blank
  <2> QED BY <1>6, <2>1 DEF Pixels
<1>15. /\ DOMAIN new = 0 .. Area(region) - 1
       /\ \A p \in Common(tile, region) : new[OffsetIn(region, p)] = p
       /\ \A ofs \in (0 .. Area(region) - 1) \ places : new[ofs] = old[ofs]
  <2>1. /\ DOMAIN Copied(tile, region) = places
        /\ \A p \in Common(tile, region) : Copied(tile, region)[OffsetIn(region, p)] = p
    BY <1>5, <1>6, CopiedIsImage
  <2>2. \A p \in Common(tile, region) : OffsetIn(region, p) \in places
    BY DEF Places
  <2>3. places \subseteq 0 .. Area(region) - 1
    BY <1>6, PlacesCounted
  <2> HIDE DEF tile, region, places, old
  <2> QED BY <1>7, <2>1, <2>2, <2>3 DEF Overwritten
<1>16. \A p \in Pixels(region) \ Pixels(tile.region) :
          new[OffsetIn(region, p)] = old[OffsetIn(region, p)]
  <2> SUFFICES ASSUME NEW p \in Pixels(region), p \notin Pixels(tile.region)
               PROVE  OffsetIn(region, p) \in (0 .. Area(region) - 1) \ places
    BY <1>15
  <2>1. OffsetIn(region, p) \in 0 .. Area(region) - 1
    BY <1>6, OffsetInArray
  <2>2. ASSUME NEW q \in Common(tile, region), OffsetIn(region, q) = OffsetIn(region, p)
        PROVE  FALSE
    BY <1>6, <2>2, OffsetTellsApart DEF Common
  <2> QED BY <2>1, <2>2 DEF Places
<1>17. Cardinality(Shown(new)) = completed + NumWritten(tile, region)
  <2>1. places \subseteq 0 .. Area(region) - 1 /\ IsFiniteSet(places)
        /\ Cardinality(places) = NumWritten(tile, region)
    BY <1>6, PlacesCounted
  <2>2. \A ofs \in places : new[ofs] # Blank /\ old[ofs] = Blank
    <3> SUFFICES ASSUME NEW p \in Common(tile, region)
                 PROVE  /\ new[OffsetIn(region, p)] # Blank
                        /\ old[OffsetIn(region, p)] = Blank
      BY DEF Places
    <3>1. p \in Pixels(tile.region) \cap Pixels(region)
      BY DEF Common
    <3>2. old[OffsetIn(region, p)] = Blank
      <4> HIDE DEF tile, region, old
      <4> QED BY <1>5, <1>7, <1>8, <3>1
    <3>3. new[OffsetIn(region, p)] # Blank
      <4> HIDE DEF tile, region, old, new
      <4> QED BY <1>14, <1>15, <3>1
    <3> QED BY <3>2, <3>3
  <2>3. Shown(new) = Shown(old) \cup places /\ Shown(old) \cap places = {}
    <3> HIDE DEF tile, region, old, new, places
    <3> QED BY <1>7, <1>15, <2>1, <2>2 DEF Shown
  <2>4. IsFiniteSet(Shown(old))
    <3>1. Area(region) - 1 \in Int
      BY <1>6 DEF Area, Size, Minus, Vec, Boxes, Vecs
    <3>2. IsFiniteSet(0 .. Area(region) - 1)
      BY <3>1, FS_Interval
    <3> QED BY <1>7, <3>2, FS_Subset DEF Shown
  <2> HIDE DEF tile, region, old, new, places, completed
  <2>5. Cardinality(Shown(old) \cap places) = 0
    BY <2>3, FS_EmptySet
  <2>6. Cardinality(Shown(old)) \in Nat /\ Cardinality(places) \in Nat
    BY <2>1, <2>4, FS_CardinalityType
  <2>7. Cardinality(Shown(old) \cup places)
          = Cardinality(Shown(old)) + Cardinality(places) - Cardinality(Shown(old) \cap places)
    BY <2>1, <2>4, FS_Union
  <2> QED BY <1>7, <2>1, <2>3, <2>5, <2>6, <2>7
<1>18. \A p \in Pixels(region) : new[OffsetIn(region, p)] \in {Blank, p}
  <2> HIDE DEF tile, region, old, new
  <2> QED BY <1>7, <1>15, <1>16 DEF Common
<1>19. \A t \in tiling : OnWay(r, t)' =>
         \A p \in Pixels(t) \cap Pixels(region) : new[OffsetIn(region, p)] = Blank
  <2> SUFFICES ASSUME NEW t \in tiling, OnWay(r, t)',
                      NEW p \in Pixels(t) \cap Pixels(region)
               PROVE  new[OffsetIn(region, p)] = Blank
    OBVIOUS
  <2>1. t # tile.region
    BY <1>8
  <2>2. Pixels(t) \cap Pixels(tile.region) = {}
    BY <1>5, <2>1 DEF WireInv, Tiles
  <2>3. OnWay(r, t)
    BY <1>2, <1>12
  <2> HIDE DEF tile, region, old, new
  <2> QED BY <1>7, <1>16, <2>2, <2>3
<1>20. BufferInv(r)'
  <2>1. frame'[r] = [pixels |-> new,
                     numPixelsCompleted |-> completed + NumWritten(tile, region)]
    BY <1>2, <1>4
  <2>2. MyRegion(r)' = region /\ tiling' = tiling
    BY <1>2, <1>13
  <2> HIDE DEF tile, region, old, new, completed
  <2> QED BY <1>15, <1>17, <1>18, <1>19, <2>1, <2>2 DEF BufferInv
<1>21. ASSUME NEW q \in Assemblers, q # r
       PROVE  BufferInv(q)'
  <2>1. frame'[q] = frame[q]
    BY <1>4, <1>21
  <2>2. MyRegion(q)' = MyRegion(q) /\ tiling' = tiling
    BY <1>2, <1>13
  <2>3. BufferInv(q)
    BY DEF FrameInv
  <2> QED BY <1>12, <2>1, <2>2, <2>3 DEF BufferInv
<1>22. frame' = [q \in Assemblers |-> frame'[q]]
  <2> HIDE DEF tile, region, old, new, completed
  <2> QED BY <1>4
<1>23. FrameInv'
  BY <1>13, <1>20, <1>21, <1>22 DEF FrameInv
<1> QED BY <1>9, <1>10, <1>11, <1>23

(* However the steps of renderer, compressors, dispatcher and assemblers   *)
(* interleave, a tile is in one place on its way to each display, shows    *)
(* the image there, and leaves it in a part of the frame buffer that was   *)
(* blank (dw2_client.cpp:234-253, FrameAssembler.cpp:76-111).              *)
THEOREM Inductive == Spec => []IInv
<1>1. Init => IInv
  BY InvInit
<1>2. ASSUME IInv, [Next]_vars
      PROVE  IInv'
  <2>1. CASE SendRGBA
    BY <1>2, <2>1, SendRGBAKeeps
  <2>2. CASE Compress
    BY <1>2, <2>2, CompressKeeps
  <2>3. CASE Dispatch
    BY <1>2, <2>3, DispatchKeeps
  <2>4. CASE \E r \in 0 .. NumDisplays : Assemble(r)
    BY <1>2, <2>4, AssembleKeeps
  <2>5. CASE UNCHANGED vars
    <3>1. UNCHANGED <<setting, frame>> /\ UNCHANGED <<useHeadNode, tiling, toRender, tilesToSend, wire>>
      BY <2>5 DEF vars, setting
    <3>2. WireInv'
      BY <1>2, <3>1 DEF IInv, WireInv, Assemblers, MyRegion
    <3>3. OnePlaceEach' /\ PixelsRight'
      BY <1>2, <3>1 DEF IInv, OnePlaceEach, PixelsRight, Good
    <3>4. \A r \in Assemblers : \A t \in tiling : OnWay(r, t)' => OnWay(r, t)
      BY <3>1 DEF OnWay
    <3>5. FrameInv'
      BY <1>2, <3>1, <3>4, FrameKept
    <3> QED BY <3>2, <3>3, <3>5 DEF IInv
  <2> QED BY <1>2, <2>1, <2>2, <2>3, <2>4, <2>5 DEF Next
<1> QED BY <1>1, <1>2, PTL DEF Spec

(* The number by which an assembler decides that its frame is complete is  *)
(* the number of places of its buffer that were written                    *)
(* (FrameAssembler.cpp:82-111, markPixelsCompleted).                       *)
THEOREM CountingIsRight == Spec => []CountIsTrue
<1>1. IInv => CountIsTrue
  <2> SUFFICES ASSUME IInv, NEW r \in Assemblers
               PROVE  frame[r].numPixelsCompleted = Cardinality(Shown(frame[r].pixels))
    BY DEF CountIsTrue, Shown
  <2>1. frame[r] = [pixels |-> frame[r].pixels,
                    numPixelsCompleted |-> Cardinality(Shown(frame[r].pixels))]
    BY DEF IInv, FrameInv, BufferInv
  <2> QED BY <2>1
<1> QED BY <1>1, Inductive, PTL

(* A complete frame shows, at every place of the window, the pixel that    *)
(* was rendered for this place (FrameAssembler.cpp:100-107).               *)
THEOREM CompleteFrameIsImage == Spec => []ScreenShowsImage
<1>1. IInv => ScreenShowsImage
  <2> SUFFICES ASSUME IInv, NEW r \in Assemblers, Complete(r), NEW p \in Pixels(MyRegion(r))
               PROVE  frame[r].pixels[OffsetIn(MyRegion(r), p)] = p
    BY DEF ScreenShowsImage
  <2> DEFINE region == MyRegion(r)
             pixels == frame[r].pixels
             places == 0 .. Area(region) - 1
  <2>1. /\ frame[r].numPixelsCompleted = Cardinality(Shown(pixels))
        /\ DOMAIN pixels = places
        /\ pixels[OffsetIn(region, p)] \in {Blank, p}
    BY DEF IInv, FrameInv, BufferInv
  <2>2. region \in Boxes
    BY AssemblersHaveDisplays, RegionInWall DEF IInv, WireInv, MyRegion, RegionOfRank
  <2>3. OffsetIn(region, p) \in places
    BY <2>2, OffsetInArray
  <2>4. Area(region) \in Nat
    <3>1. Area(region) \in Int
      BY <2>2 DEF Area, Size, Minus, Vec, Boxes, Vecs
    <3> HIDE DEF region
    <3> QED BY <2>3, <3>1
  <2>5. IsFiniteSet(places) /\ Cardinality(places) = Area(region)
    <3>1. IsFiniteSet(0 .. Area(region) - 1)
      BY <2>4, FS_Interval
    <3>2. \A n \in Nat : Cardinality(0 .. n - 1) = n
      <4> SUFFICES ASSUME NEW n \in Nat PROVE Cardinality(0 .. n - 1) = n
        OBVIOUS
      <4> DEFINE last == n - 1
      <4>1. last \in Int
        OBVIOUS
      <4>2. Cardinality(0 .. last) = IF 0 > last THEN 0 ELSE last - 0 + 1
        <5> HIDE DEF last
        <5> QED BY <4>1, FS_Interval
      <4> QED BY <4>2
    <3> HIDE DEF region
    <3> QED BY <2>4, <3>1, <3>2
  <2>6. Cardinality(Shown(pixels)) = Cardinality(places)
    BY <2>1, <2>5 DEF Complete, NumPixelsExpected
  <2>7. Shown(pixels) \subseteq places
    BY <2>1 DEF Shown
  <2>8. Shown(pixels) = places
    BY <2>5, <2>6, <2>7, FS_Subset
  <2> HIDE DEF region, pixels
  <2>9. pixels[OffsetIn(region, p)] # Blank
    BY <2>3, <2>8 DEF Shown
  <2>10. pixels[OffsetIn(region, p)] = p
    BY <2>1, <2>9
  <2> QED BY <2>10 DEF region, pixels
<1> QED BY <1>1, Inductive, PTL

(* The assertion numWritten > 0 of FrameAssembler.cpp:111 never fails.     *)
THEOREM EveryTileWrites == Spec => []NoTileInVain
<1>1. WireInv => NoTileInVain
  <2> SUFFICES ASSUME WireInv, NEW m \in wire, m.to \in Assemblers
               PROVE  Cardinality(Common(m.message, MyRegion(m.to))) > 0
    BY DEF NoTileInVain, NumWritten
  <2>1. /\ m.message.region \in Boxes
        /\ Pixels(m.message.region) # {}
        /\ Overlaps(m.message.region, MyRegion(m.to))
    BY DEF WireInv, Tiles
  <2>2. MyRegion(m.to) \in Boxes /\ Pixels(MyRegion(m.to)) # {}
    BY AssemblersHaveDisplays, RegionInWall DEF WireInv, MyRegion, RegionOfRank
  <2>3. Common(m.message, MyRegion(m.to)) # {}
    BY <2>1, <2>2, OverlapMeansSharing DEF Common
  <2>4. IsFiniteSet(Common(m.message, MyRegion(m.to)))
    BY <2>1, PixelsFinite, FS_Subset DEF Common
  <2> QED BY <2>3, <2>4, FS_EmptySet, FS_CardinalityType
<1> QED BY <1>1, Inductive, PTL DEF IInv

(* Each pixel that a display is sent counts for it, and counts once, for   *)
(* every wall and every tiling.                                            *)
THEOREM PixelsCountOnce == Spec => []EveryPixelCountsOnce
<1>1. CountIsTrue /\ NoTileInVain => EveryPixelCountsOnce
  BY DEF EveryPixelCountsOnce
<1> QED BY <1>1, CountingIsRight, EveryTileWrites, PTL

-----------------------------------------------------------------------------
(* Types.                                                                  *)

\* A tile of the frame that shows the image has pixels of the wall only.
LEMMA GoodIsPlain ==
  ASSUME IInv, NEW t \in tiling, NEW k \in 0 .. Area(t) - 1, NEW pixels,
         \A p \in Pixels(t) : pixels[OffsetIn(t, p)] = p
  PROVE  pixels[k] \in Pixels(Wall)
<1>1. t \in Boxes /\ Pixels(t) # {} /\ Pixels(t) \subseteq Pixels(Wall)
  BY DEF IInv, WireInv, Tiles
<1>2. PICK p \in Pixels(t) : OffsetIn(t, p) = k
  BY <1>1, OffsetOnto
<1>3. QED
  BY <1>1, <1>2

LEMMA ShapesGiveTypes == IInv /\ Shapes => TypeOK
<1> SUFFICES ASSUME IInv, Shapes PROVE TypeOK
  OBVIOUS
<1> DEFINE coords == Pixels(Wall) \cup {Blank}
           PlainTile(t) == [region: {t}, pixels: [0 .. Area(t) - 1 -> coords]]
<1>1. ASSUME NEW tile \in tilesToSend
      PROVE  tile.region \in tiling /\ tile \in PlainTile(tile.region)
  <2>1. tile.region \in tiling /\ Good(tile)
    BY DEF IInv, WireInv, PixelsRight
  <2>2. \A k \in 0 .. Area(tile.region) - 1 : tile.pixels[k] \in coords
    BY <2>1, GoodIsPlain DEF Good
  <2>3. tile = [region |-> tile.region,
                pixels |-> [i \in 0 .. Area(tile.region) - 1 |-> tile.pixels[i]]]
    BY DEF Shapes
  <2> HIDE DEF coords
  <2>4. QED
    BY <2>1, <2>2, <2>3
<1>2. ASSUME NEW m \in wire
      PROVE  /\ m.to \in Ranks(useHeadNode)
             /\ m.message.region \in tiling
             /\ Decode(m.message) \in PlainTile(m.message.region)
  <2> DEFINE tile == Decode(m.message)
  <2>1. m.message.region \in tiling /\ Good(tile) /\ tile.region = m.message.region
    BY DEF IInv, WireInv, PixelsRight, Decode
  <2>2. \A k \in 0 .. Area(tile.region) - 1 : tile.pixels[k] \in coords
    BY <2>1, GoodIsPlain DEF Good
  <2>3. tile = [region |-> tile.region,
                pixels |-> [i \in 0 .. Area(tile.region) - 1 |-> m.message.payload[i]]]
    BY DEF Decode
  <2>4. tile.pixels = [i \in 0 .. Area(tile.region) - 1 |-> tile.pixels[i]]
    BY DEF Decode
  <2> HIDE DEF coords, tile
  <2>5. tile \in PlainTile(tile.region)
    <3>1. tile.pixels \in [0 .. Area(tile.region) - 1 -> coords]
      BY <2>2, <2>4
    <3>2. tile = [region |-> tile.region, pixels |-> tile.pixels]
      BY <2>3
    <3>3. QED
      BY <3>1, <3>2
  <2>6. m.to \in Ranks(useHeadNode)
    BY DEF Shapes
  <2>7. QED
    BY <2>1, <2>5, <2>6 DEF tile
<1>3. ASSUME NEW r \in Assemblers
      PROVE  frame[r] \in [pixels: [0 .. Area(MyRegion(r)) - 1 -> coords],
                           numPixelsCompleted: Nat]
  <2> DEFINE region == MyRegion(r)
             pixels == frame[r].pixels
             places == 0 .. Area(region) - 1
  <2>1. /\ frame[r] = [pixels |-> pixels,
                       numPixelsCompleted |-> Cardinality(Shown(pixels))]
        /\ DOMAIN pixels = places
        /\ \A p \in Pixels(region) : pixels[OffsetIn(region, p)] \in {Blank, p}
    BY DEF IInv, FrameInv, BufferInv
  <2>2. region \in Boxes /\ Pixels(region) # {} /\ Pixels(region) \subseteq Pixels(Wall)
    BY AssemblersHaveDisplays, RegionInWall DEF IInv, WireInv, MyRegion, RegionOfRank
  <2>3. \A k \in places : pixels[k] \in coords
    <3>1. \A k \in places : \E p \in Pixels(region) : OffsetIn(region, p) = k
      BY <2>2, OffsetOnto
    <3> HIDE DEF region, pixels, places
    <3>2. QED
      BY <2>1, <2>2, <3>1
  <2>4. pixels = [ofs \in DOMAIN pixels |-> pixels[ofs]]
    BY DEF Shapes
  <2>5. Cardinality(Shown(pixels)) \in Nat
    <3>1. IsFiniteSet(places)
      <4>1. Area(region) - 1 \in Int
        BY <2>2 DEF Area, Size, Minus, Vec, Boxes, Vecs
      <4>2. QED
        BY <4>1, FS_Interval
    <3>2. Shown(pixels) \subseteq places
      BY <2>1 DEF Shown
    <3>3. QED
      BY <3>1, <3>2, FS_Subset, FS_CardinalityType
  <2>6. pixels \in [places -> coords]
    <3> HIDE DEF region, pixels, places, coords
    <3>1. QED
      BY <2>1, <2>3, <2>4
  <2> HIDE DEF region, pixels, places, coords
  <2>7. frame[r] \in [pixels: [places -> coords], numPixelsCompleted: Nat]
    BY <2>1, <2>5, <2>6
  <2>8. QED
    BY <2>7 DEF places, region
<1>4. DOMAIN frame = Assemblers
  BY DEF IInv, FrameInv
<1>5. useHeadNode \in BOOLEAN /\ tiling \in Tilings /\ toRender \subseteq tiling
  BY DEF IInv, WireInv
<1>6. QED
  BY <1>1, <1>2, <1>3, <1>4, <1>5 DEF TypeOK

\* Each step makes arrays of pixels, and sends to ranks.
LEMMA ShapesKept ==
  ASSUME IInv, Shapes, [Next]_vars
  PROVE  Shapes'
<1>1. CASE SendRGBA
  <2>1. PICK region \in toRender, slack \in 0 .. MaxSlack :
          tilesToSend' = tilesToSend \cup
            {Packed(region, Rendered(region, Size(region).x + slack), Size(region).x + slack)}
    BY <1>1 DEF SendRGBA
  <2>2. wire' = wire /\ frame' = frame /\ useHeadNode' = useHeadNode
    BY <1>1 DEF SendRGBA, setting
  <2>3. \A pixel, pitch : LET tile == Packed(region, pixel, pitch) IN
          tile = [region |-> tile.region,
                  pixels |-> [i \in 0 .. Area(tile.region) - 1 |-> tile.pixels[i]]]
    BY DEF Packed
  <2>4. QED
    BY <2>1, <2>2, <2>3 DEF Shapes, Assemblers
<1>2. CASE Compress
  <2>1. PICK tile \in tilesToSend :
          /\ tilesToSend' = tilesToSend \ {tile}
          /\ wire' = wire \cup SendTo({r \in DOMAIN RegionOfNode(useHeadNode) :
                                         Overlaps(RegionOfNode(useHeadNode)[r], tile.region)},
                                      Encode(tile))
    BY <1>2 DEF Compress
  <2>2. frame' = frame /\ useHeadNode' = useHeadNode
    BY <1>2 DEF Compress, setting
  <2>3. DOMAIN RegionOfNode(useHeadNode) \subseteq Ranks(useHeadNode)
    <3>1. NumDisplays \in Nat
      BY DEF NumDisplays
    <3>2. CASE useHeadNode
      BY <3>1, <3>2 DEF RegionOfNode, Ranks, NumRanks
    <3>3. CASE ~ useHeadNode
      BY <3>1, <3>3 DEF RegionOfNode, Ranks, NumRanks, Displays
    <3>4. QED
      BY <3>2, <3>3
  <2>4. \A m \in wire' : m.to \in Ranks(useHeadNode)
    BY <2>1, <2>3 DEF Shapes, SendTo
  <2>5. QED
    BY <2>1, <2>2, <2>4 DEF Shapes, Assemblers
<1>3. CASE Dispatch
  <2>1. PICK m \in wire :
          wire' = (wire \ {m}) \cup
            SendTo({r \in Ranks(useHeadNode) :
                      Overlaps(m.message.region, RegionOfRank(r, useHeadNode))}, m.message)
    BY <1>3 DEF Dispatch
  <2>2. frame' = frame /\ useHeadNode' = useHeadNode /\ tilesToSend' = tilesToSend
    BY <1>3 DEF Dispatch, setting
  <2>3. \A n \in wire' : n.to \in Ranks(useHeadNode)
    BY <2>1 DEF Shapes, SendTo
  <2>4. QED
    BY <2>2, <2>3 DEF Shapes, Assemblers
<1>4. CASE \E r \in 0 .. NumDisplays : Assemble(r)
  <2>1. PICK r \in 0 .. NumDisplays : Assemble(r)
    BY <1>4
  <2>2. PICK m \in wire :
          /\ wire' = wire \ {m}
          /\ frame' = [frame EXCEPT
                ![r].pixels = Overwritten(@, Copied(Decode(m.message), MyRegion(r))),
                ![r].numPixelsCompleted = @ + NumWritten(Decode(m.message), MyRegion(r))]
    BY <2>1 DEF Assemble
  <2>3. useHeadNode' = useHeadNode /\ tilesToSend' = tilesToSend
    BY <2>1 DEF Assemble, setting
  <2> DEFINE new == Overwritten(frame[r].pixels, Copied(Decode(m.message), MyRegion(r)))
  <2>4. new = [ofs \in DOMAIN new |-> new[ofs]]
    BY DEF Overwritten
  <2> HIDE DEF new
  <2>5. ASSUME NEW q \in Assemblers
        PROVE  frame'[q].pixels = [ofs \in DOMAIN frame'[q].pixels |-> frame'[q].pixels[ofs]]
    <3>1. q \in DOMAIN frame
      BY DEF IInv, FrameInv
    <3>2. CASE q # r
      BY <2>2, <3>1, <3>2 DEF Shapes
    <3>3. CASE q = r
      <4>1. frame[r] = [pixels |-> frame[r].pixels,
                        numPixelsCompleted |-> Cardinality(Shown(frame[r].pixels))]
        BY <3>3 DEF IInv, FrameInv, BufferInv
      <4>2. frame'[q].pixels = new
        BY <2>2, <3>1, <3>3, <4>1 DEF new
      <4>3. QED
        BY <2>4, <4>2
    <3>4. QED
      BY <3>2, <3>3
  <2>6. Assemblers' = Assemblers
    BY <2>3 DEF Assemblers
  <2>7. QED
    BY <2>2, <2>3, <2>5, <2>6 DEF Shapes
<1>5. CASE UNCHANGED vars
  BY <1>5 DEF vars, Shapes, Assemblers
<1>6. QED
  BY <1>1, <1>2, <1>3, <1>4, <1>5 DEF Next

(* Type correctness, for every wall and every tiling; above all, no offset *)
(* that is computed for a pixel is outside of a tile or a frame buffer     *)
(* (dw2_client.cpp:244-252, FrameAssembler.cpp:100-107).                   *)
THEOREM PathTypeOK == Spec => []TypeOK
<1>1. Init => Shapes
  <2> SUFFICES ASSUME Init PROVE Shapes
    OBVIOUS
  <2>1. ASSUME NEW r \in Assemblers
        PROVE  frame[r].pixels = [ofs \in DOMAIN frame[r].pixels |-> frame[r].pixels[ofs]]
    <3>1. frame[r].pixels = [ofs \in 0 .. Area(MyRegion(r)) - 1 |-> Blank]
      BY DEF Init, NewFrame
    <3>2. QED
      BY <3>1
  <2>2. QED
    BY <2>1 DEF Init, Shapes
<1>2. IInv /\ Shapes /\ [Next]_vars => Shapes'
  BY ShapesKept
<1>3. QED
  BY <1>1, <1>2, ShapesGiveTypes, Inductive, PTL DEF Spec

-----------------------------------------------------------------------------
(* Sequences of whatever values.                                           *)

LEMMA IsSeqFacts ==
  ASSUME NEW s, IsSeq(s)
  PROVE  /\ s \in Seq({s[k] : k \in 1 .. Len(s)})
         /\ DOMAIN s = 1 .. Len(s)
         /\ Len(s) = 0 <=> s = <<>>
<1> DEFINE S == {s[k] : k \in 1 .. Len(s)}
<1>1. Len(s) \in Nat /\ s = [k \in 1 .. Len(s) |-> s[k]]
  BY DEF IsSeq
<1>2. s \in [1 .. Len(s) -> S]
  BY <1>1
<1>3. s \in Seq(S)
  BY <1>1, <1>2, SeqDef
<1>4. Len(s) = 0 <=> s = <<>>
  BY <1>3, EmptySeq
<1>5. QED
  BY <1>2, <1>3, <1>4

LEMMA SeqIsSeq ==
  ASSUME NEW S, NEW s \in Seq(S)
  PROVE  IsSeq(s)
BY LenProperties DEF IsSeq

LEMMA NothingIsSeq == IsSeq(<<>>) /\ Len(<<>>) = 0
<1>1. <<>> \in Seq({})
  BY EmptySeq
<1>2. QED
  BY <1>1, SeqIsSeq, EmptySeq

LEMMA AppendSeq ==
  ASSUME NEW s, IsSeq(s), NEW e
  PROVE  /\ IsSeq(Append(s, e))
         /\ Len(Append(s, e)) = Len(s) + 1
         /\ \A k \in 1 .. Len(s) : Append(s, e)[k] = s[k]
         /\ Append(s, e)[Len(s) + 1] = e
<1> DEFINE S == {s[k] : k \in 1 .. Len(s)} \cup {e}
<1>1. s \in Seq({s[k] : k \in 1 .. Len(s)})
  BY IsSeqFacts
<1>2. \A k \in 1 .. Len(s) : s[k] \in S
  OBVIOUS
<1>3. s \in Seq(S) /\ e \in S
  <2>1. Len(s) \in Nat /\ s \in [1 .. Len(s) -> S]
    BY <1>2 DEF IsSeq
  <2>2. QED
    BY <2>1, SeqDef
<1> HIDE DEF S
<1>4. /\ Append(s, e) \in Seq(S)
      /\ Len(Append(s, e)) = Len(s) + 1
      /\ \A k \in 1 .. Len(s) : Append(s, e)[k] = s[k]
      /\ Append(s, e)[Len(s) + 1] = e
  BY <1>3, AppendProperties
<1>5. QED
  BY <1>4, SeqIsSeq

LEMMA TailSeq ==
  ASSUME NEW s, IsSeq(s), s # <<>>
  PROVE  /\ Len(s) \in Nat \ {0}
         /\ Head(s) = s[1]
         /\ IsSeq(Tail(s))
         /\ Len(Tail(s)) = Len(s) - 1
         /\ \A k \in 1 .. Len(s) - 1 : Tail(s)[k] = s[k + 1]
<1> DEFINE S == {s[k] : k \in 1 .. Len(s)}
<1>1. s \in Seq(S) /\ Len(s) \in Nat /\ Len(s) # 0
  BY IsSeqFacts DEF IsSeq
<1> HIDE DEF S
<1>2. /\ Tail(s) \in Seq(S)
      /\ Len(Tail(s)) = Len(s) - 1
      /\ \A k \in 1 .. Len(Tail(s)) : Tail(s)[k] = s[k + 1]
  BY <1>1, HeadTailProperties
<1>3. Head(s) = s[1]
  OBVIOUS
<1>4. QED
  BY <1>1, <1>2, <1>3, SeqIsSeq

-----------------------------------------------------------------------------
(* The ranks, and the fields of a service info.                            *)

LEMMA RanksFacts ==
  ASSUME InfoInv
  PROVE  /\ NumDisplays \in Nat \ {0} /\ NumNodes \in Nat \ {0}
         /\ ranks = 0 .. (IF config.useHeadNode THEN NumDisplays ELSE NumDisplays - 1)
         /\ 0 \in ranks /\ NumAdded \in Nat /\ NumNodes <= NumDisplays
         /\ config.useHeadNode \in BOOLEAN
<1>1. numDisplays.x \in Nat \ {0} /\ numDisplays.y \in Nat \ {0}
  BY GeometryAssumption
<1>2. \A x, y \in Nat \ {0} : x * y \in Nat \ {0}
  OBVIOUS
<1>3. NumDisplays \in Nat \ {0}
  BY <1>1, <1>2 DEF NumDisplays
<1>4. config.useHeadNode \in BOOLEAN /\ NumAdded \in Nat
  BY DEF InfoInv, IsSeq, NumAdded
<1>5. ranks = 0 .. (IF config.useHeadNode THEN NumDisplays ELSE NumDisplays - 1)
  BY <1>3, <1>4 DEF ranks, Ranks, NumRanks
<1>6. QED
  BY <1>3, <1>4, <1>5 DEF NumNodes

LEMMA FieldFacts ==
  ASSUME NEW info, Len(info.nodes) \in Nat
  PROVE  /\ Field(info, 1) = info.magic
         /\ Field(info, 2) = info.totalPixelsInWall
         /\ Field(info, 3) = info.numDisplays
         /\ Field(info, 4) = info.stereo
         /\ Field(info, 5) = info.hasControlWindow
         /\ Field(info, 6) = info.controlWindowSize
         /\ Field(info, 7) = Len(info.nodes)
         /\ \A i \in 1 .. Len(info.nodes) :
              /\ Field(info, HeaderLength + 3 * (i - 1) + 1) = info.nodes[i].hostName
              /\ Field(info, HeaderLength + 3 * (i - 1) + 2) = info.nodes[i].port
              /\ Field(info, HeaderLength + 3 * (i - 1) + 3) = info.nodes[i].region
<1>1. /\ Field(info, 1) = info.magic /\ Field(info, 2) = info.totalPixelsInWall
      /\ Field(info, 3) = info.numDisplays /\ Field(info, 4) = info.stereo
      /\ Field(info, 5) = info.hasControlWindow
      /\ Field(info, 6) = info.controlWindowSize
      /\ Field(info, 7) = Len(info.nodes)
  BY DEF Field, Header, HeaderLength
<1>2. ASSUME NEW i \in 1 .. Len(info.nodes), NEW j \in 1 .. 3
      PROVE  Field(info, HeaderLength + 3 * (i - 1) + j) =
               <<info.nodes[i].hostName, info.nodes[i].port, info.nodes[i].region>>[j]
  <2> DEFINE k == HeaderLength + 3 * (i - 1) + j
  <2>1. /\ ~ (k <= HeaderLength)
        /\ ((k - HeaderLength - 1) \div 3) + 1 = i
        /\ ((k - HeaderLength - 1) % 3) + 1 = j
    <3>1. i \in Int /\ i >= 1 /\ j \in Int /\ j >= 1 /\ j <= 3
      OBVIOUS
    <3>2. k - HeaderLength - 1 = 3 * (i - 1) + (j - 1)
      BY <3>1 DEF HeaderLength
    <3>3. (3 * (i - 1) + (j - 1)) \div 3 = i - 1 /\ (3 * (i - 1) + (j - 1)) % 3 = j - 1
      BY <3>1
    <3>4. QED
      BY <3>1, <3>2, <3>3 DEF HeaderLength
  <2> HIDE DEF k
  <2>2. Field(info, k) =
          <<info.nodes[i].hostName, info.nodes[i].port, info.nodes[i].region>>[j]
    BY <2>1 DEF Field
  <2>3. QED
    BY <2>2 DEF k
<1>3. ASSUME NEW i \in 1 .. Len(info.nodes)
      PROVE  /\ Field(info, HeaderLength + 3 * (i - 1) + 1) = info.nodes[i].hostName
             /\ Field(info, HeaderLength + 3 * (i - 1) + 2) = info.nodes[i].port
             /\ Field(info, HeaderLength + 3 * (i - 1) + 3) = info.nodes[i].region
  BY <1>2, 1 \in 1 .. 3, 2 \in 1 .. 3, 3 \in 1 .. 3
<1>4. QED
  BY <1>1, <1>3

LEMMA NumFieldsFacts ==
  ASSUME NEW n \in Nat
  PROVE  /\ NumFields(n) \in Nat /\ NumFields(n) >= HeaderLength
         /\ \A m \in Nat : NumFields(n) = NumFields(m) => n = m
         /\ \A m \in Nat : n <= m => NumFields(n) <= NumFields(m)
BY DEF NumFields, HeaderLength

-----------------------------------------------------------------------------
(* The initial state.                                                      *)

LEMMA InitIInv == DiscoveryInit => DiscoveryInv
<1> SUFFICES ASSUME DiscoveryInit PROVE DiscoveryInv
  OBVIOUS
<1>1. PICK garbage \in Garbage : serviceInfo = NewServiceInfo(config, garbage)
  BY DEF DiscoveryInit
<1>2. /\ config \in [useHeadNode: BOOLEAN, hasControlWindow: BOOLEAN, doStereo: BOOLEAN]
      /\ rank = [r \in ranks |-> "create"]
      /\ channel = [r \in ranks |-> <<>>]
      /\ reading = <<>> /\ infoPort = "unbound" /\ backlog = <<>>
      /\ requester = {} /\ written = 0 /\ closed = {}
      /\ stream = [con \in Connections |-> <<>>]
      /\ got = [con \in Connections |-> <<>>]
      /\ client = [c \in Clients |-> [pc |-> "idle", queried |-> FALSE]]
  BY DEF DiscoveryInit
<1>3. serviceInfo.nodes = <<>> /\ NumAdded = 0
  BY <1>1, NothingIsSeq DEF NewServiceInfo, NumAdded
<1>4. InfoInv
  <2>1. serviceInfo = [NewServiceInfo(config, serviceInfo.hasControlWindow)
                         EXCEPT !.nodes = serviceInfo.nodes]
    BY <1>1 DEF NewServiceInfo
  <2>2. IsSeq(serviceInfo.nodes)
    BY <1>3, NothingIsSeq
  <2>3. NumAdded <= NumNodes
    <3>1. numDisplays.x \in Nat \ {0} /\ numDisplays.y \in Nat \ {0}
      BY GeometryAssumption
    <3>2. \A x, y \in Nat \ {0} : x * y \in Nat \ {0}
      OBVIOUS
    <3>3. NumDisplays \in Nat
      BY <3>1, <3>2 DEF NumDisplays
    <3>4. QED
      BY <1>3, <3>3 DEF NumNodes
  <2>4. QED
    BY <1>2, <1>3, <2>1, <2>2, <2>3 DEF InfoInv
<1>5. 0 \in ranks
  BY <1>4, RanksFacts
<1>6. RankInv /\ PortInv
  BY <1>2, <1>3, <1>5 DEF RankInv, PortInv
<1>7. GatherInv
  <2>1. \A r \in ranks \ {0} : NumSent(r) = 0 /\ NumTaken(r) = 0
    BY <1>2, <1>3, <1>4, RanksFacts, NothingIsSeq DEF NumSent, NumTaken
  <2>2. QED
    BY <1>2, <1>5, <2>1, NothingIsSeq DEF GatherInv
<1>8. QueueInv
  BY <1>2, NothingIsSeq DEF QueueInv
<1>9. StreamInv
  <2>1. NumFields(NumNodes) \in Nat
    BY <1>4, RanksFacts, NumFieldsFacts
  <2>2. QED
    BY <1>2, <2>1, NothingIsSeq DEF StreamInv, NumPassed
<1>10. ClientInv
  BY <1>2 DEF ClientInv
<1>11. QED
  BY <1>4, <1>6, <1>7, <1>8, <1>9, <1>10 DEF DiscoveryInv

-----------------------------------------------------------------------------
(* What a step leaves alone.                                               *)

\* The ranks' part of the invariant does not see the info thread and the clients.
LEMMA RanksLeftAlone ==
  ASSUME DiscoveryInv, UNCHANGED <<gatherVars, infoPort>>
  PROVE  InfoInv' /\ RankInv' /\ PortInv' /\ GatherInv'
<1>1. /\ config' = config /\ rank' = rank /\ channel' = channel /\ reading' = reading
      /\ serviceInfo' = serviceInfo /\ infoPort' = infoPort
  BY DEF gatherVars
<1>2. ranks' = ranks
  BY <1>1 DEF ranks
<1>3. NumAdded' = NumAdded /\ NumNodes' = NumNodes /\ \A r : Node(r)' = Node(r)
  BY <1>1 DEF NumAdded, NumNodes, Node
<1>4. \A r : NumSent(r)' = NumSent(r) /\ NumTaken(r)' = NumTaken(r)
  BY <1>1, <1>3 DEF NumSent, NumTaken
<1>5. InfoInv'
  BY <1>1, <1>3 DEF DiscoveryInv, InfoInv
<1>6. RankInv' /\ PortInv'
  BY <1>1, <1>2, <1>3 DEF DiscoveryInv, RankInv, PortInv
<1>7. GatherInv'
  BY <1>1, <1>2, <1>3, <1>4 DEF DiscoveryInv, GatherInv
<1>8. QED
  BY <1>5, <1>6, <1>7

\* Nor do the connections' parts see the ranks, once the info is complete or
\* as long as nobody can connect.
LEMMA ConnectionsLeftAlone ==
  ASSUME DiscoveryInv, UNCHANGED <<infoThreadVars, clientVars>>, config' = config,
         \/ infoPort' = infoPort /\ serviceInfo' = serviceInfo
         \/ infoPort = "unbound"
  PROVE  QueueInv' /\ StreamInv' /\ ClientInv'
<1>1. /\ backlog' = backlog /\ requester' = requester /\ written' = written
      /\ stream' = stream /\ closed' = closed /\ got' = got /\ client' = client
  BY DEF infoThreadVars, clientVars
<1>2. NumNodes' = NumNodes /\ \A con : Asked(con)' = Asked(con) /\ NumPassed(con)' = NumPassed(con)
  BY <1>1 DEF NumNodes, Asked, NumPassed
<1>3. CASE infoPort' = infoPort /\ serviceInfo' = serviceInfo
  <2>1. QueueInv'
    BY <1>1, <1>2, <1>3 DEF DiscoveryInv, QueueInv
  <2>2. StreamInv'
    BY <1>1, <1>2, <1>3 DEF DiscoveryInv, StreamInv
  <2>3. QED
    BY <1>1, <2>1, <2>2 DEF DiscoveryInv, ClientInv
<1>4. CASE infoPort = "unbound"
  <2>1. backlog = <<>> /\ requester = {} /\ closed = {} /\ infoPort # "open"
    BY <1>4 DEF DiscoveryInv, QueueInv
  <2>2. QueueInv'
    BY <1>1, <1>2, <2>1 DEF DiscoveryInv, QueueInv
  <2>3. ASSUME NEW con \in Connections
        PROVE  Len(got[con]) = 0 /\ Len(stream[con]) = 0
    BY <2>1 DEF DiscoveryInv, StreamInv, NumPassed, IsSeq
  <2>4. StreamInv'
    BY <1>1, <1>2, <2>1, <2>3 DEF DiscoveryInv, StreamInv
  <2>5. QED
    BY <1>1, <2>2, <2>4 DEF DiscoveryInv, ClientInv
<1>5. QED
  BY <1>3, <1>4

\* Until rank 0 has added every node, nobody can connect.
LEMMA NotYetOpen ==
  ASSUME DiscoveryInv, rank[0] \in {"create", "barrier", "gather", "bind"}
  PROVE  infoPort = "unbound"
BY DEF DiscoveryInv, PortInv

-----------------------------------------------------------------------------
(* The steps of the ranks.                                                 *)

\* A step of the ranks before the info port is open: what the invariant says
\* of the connections is safe.
LEMMA BeforeOpen ==
  ASSUME DiscoveryInv, infoPort = "unbound", config' = config,
         UNCHANGED <<infoThreadVars, clientVars>>,
         InfoInv', RankInv', PortInv', GatherInv'
  PROVE  DiscoveryInv'
BY ConnectionsLeftAlone DEF DiscoveryInv

LEMMA CreateSocketsStep ==
  ASSUME DiscoveryInv, NEW r \in ranks, CreateSockets(r)
  PROVE  DiscoveryInv'
<1>1. /\ rank[r] = "create" /\ rank' = [rank EXCEPT ![r] = "barrier"]
      /\ config' = config /\ channel' = channel /\ reading' = reading
      /\ serviceInfo' = serviceInfo /\ infoPort' = infoPort
      /\ UNCHANGED <<infoThreadVars, clientVars>>
  BY DEF CreateSockets
<1>2. ranks' = ranks /\ 0 \in ranks /\ NumAdded' = NumAdded /\ NumNodes' = NumNodes
  BY <1>1, RanksFacts DEF ranks, NumAdded, NumNodes, DiscoveryInv
<1>3. \A q \in ranks : rank'[q] = IF q = r THEN "barrier" ELSE rank[q]
  BY <1>1 DEF DiscoveryInv, RankInv
<1>4. rank[0] \in {"create", "barrier"} /\ infoPort = "unbound"
  BY <1>1, NotYetOpen DEF DiscoveryInv, RankInv
<1>5. InfoInv'
  BY <1>1, <1>2 DEF DiscoveryInv, InfoInv, Node
<1>6. RankInv' /\ PortInv'
  BY <1>1, <1>2, <1>3, <1>4 DEF DiscoveryInv, RankInv, PortInv
<1>7. \A q \in ranks : NumSent(q)' = NumSent(q) /\ NumTaken(q)' = NumTaken(q)
  BY <1>1, <1>2, <1>3 DEF NumSent, NumTaken
<1>8. reading = <<>>
  BY <1>4 DEF DiscoveryInv, GatherInv
<1>9. GatherInv'
  BY <1>1, <1>2, <1>7, <1>8 DEF DiscoveryInv, GatherInv
<1>10. QED
  BY <1>1, <1>4, <1>5, <1>6, <1>9, BeforeOpen

LEMMA LeaveBarrierStep ==
  ASSUME DiscoveryInv, LeaveBarrier
  PROVE  DiscoveryInv'
<1>1. /\ \A r \in ranks : rank[r] = "barrier"
      /\ rank' = [r \in ranks |-> IF r = 0 THEN "gather"
                                  ELSE IF config.useHeadNode THEN "running" ELSE "host"]
      /\ config' = config /\ channel' = channel /\ reading' = reading
      /\ serviceInfo' = serviceInfo /\ infoPort' = infoPort
      /\ UNCHANGED <<infoThreadVars, clientVars>>
  BY DEF LeaveBarrier
<1>2. /\ ranks' = ranks /\ 0 \in ranks /\ NumAdded' = NumAdded /\ NumNodes' = NumNodes
      /\ NumNodes \in Nat \ {0}
  BY <1>1, RanksFacts DEF ranks, NumAdded, NumNodes, DiscoveryInv
<1>3. rank[0] = "barrier" /\ infoPort = "unbound" /\ NumAdded = 0
  BY <1>1, <1>2, NotYetOpen DEF DiscoveryInv, RankInv
<1>4. /\ rank'[0] = "gather"
      /\ \A r \in ranks \ {0} : rank'[r] = IF config.useHeadNode THEN "running" ELSE "host"
  BY <1>1, <1>2
<1>5. InfoInv'
  BY <1>1, <1>2 DEF DiscoveryInv, InfoInv, Node
<1>6. RankInv'
  BY <1>1, <1>2, <1>3, <1>4 DEF DiscoveryInv, RankInv
<1>7. PortInv'
  BY <1>1, <1>2, <1>3, <1>4 DEF DiscoveryInv, PortInv
<1>8. \A r \in ranks \ {0} : NumSent(r)' = NumSent(r) /\ NumTaken(r)' = NumTaken(r)
  BY <1>1, <1>2, <1>4 DEF NumSent, NumTaken
<1>9. reading = <<>>
  BY <1>3 DEF DiscoveryInv, GatherInv
<1>10. GatherInv'
  BY <1>1, <1>2, <1>8, <1>9 DEF DiscoveryInv, GatherInv
<1>11. QED
  BY <1>1, <1>3, <1>5, <1>6, <1>7, <1>10, BeforeOpen

\* A rank sends its next value.
LEMMA WriteNodeStep ==
  ASSUME DiscoveryInv, NEW r \in ranks, WriteNode(r)
  PROVE  DiscoveryInv'
<1>1. PICK value, to :
        /\ channel' = [channel EXCEPT ![r] = Append(@, value)]
        /\ rank' = [rank EXCEPT ![r] = to]
        /\ rank[r] \in {"host", "port", "region"}
        /\ rank[r] = "host" => value = HostOf[r] /\ to = "port"
        /\ rank[r] = "port" => value = PortOf[r] /\ to = "region"
        /\ rank[r] = "region" => value = RegionOfDisplay(r) /\ to = "running"
        /\ config' = config /\ reading' = reading
        /\ serviceInfo' = serviceInfo /\ infoPort' = infoPort
        /\ UNCHANGED <<infoThreadVars, clientVars>>
  BY DEF WriteNode, Write
<1>2. /\ ranks' = ranks /\ 0 \in ranks /\ NumAdded' = NumAdded /\ NumNodes' = NumNodes
      /\ config.useHeadNode \in BOOLEAN
  BY <1>1, RanksFacts DEF ranks, NumAdded, NumNodes, DiscoveryInv
<1>3. r # 0 /\ ~ config.useHeadNode
  BY <1>1, <1>2 DEF DiscoveryInv, RankInv
<1>4. /\ \A q \in ranks : rank'[q] = IF q = r THEN to ELSE rank[q]
      /\ to \in {"port", "region", "running"}
  BY <1>1 DEF DiscoveryInv, RankInv
<1>5. NumSent(r) \in 0 .. 2 /\ NumSent(r)' = NumSent(r) + 1 /\ value = NodeValues(r)[NumSent(r) + 1]
  BY <1>1, <1>3, <1>4 DEF NumSent, NodeValues
<1>6. /\ \A q \in ranks : NumTaken(q)' = NumTaken(q)
      /\ \A q \in ranks \ {r} : NumSent(q)' = NumSent(q)
  BY <1>1, <1>2, <1>4 DEF NumSent, NumTaken
<1>7. \A q \in ranks : NumTaken(q) \in Nat
  BY DEF NumTaken, DiscoveryInv, GatherInv, IsSeq
<1>8. infoPort = "unbound"
  <2>1. rank[0] \notin {"ended", "running"}
    <3>1. SUFFICES ASSUME rank[0] \in {"ended", "running"} PROVE FALSE
      OBVIOUS
    <3>2. NumAdded = NumNodes /\ NumNodes = NumDisplays
      BY <1>3, <3>1 DEF DiscoveryInv, RankInv, NumNodes
    <3>3. r \in Nat /\ r < NumDisplays
      BY <1>3, RanksFacts DEF DiscoveryInv
    <3>4. NumTaken(r) = 3
      BY <3>2, <3>3 DEF NumTaken
    <3>5. Len(channel[r]) \in Nat /\ NumSent(r) = NumTaken(r) + Len(channel[r])
      BY <1>3 DEF DiscoveryInv, GatherInv, IsSeq
    <3>6. QED
      BY <1>5, <3>4, <3>5
  <2>2. QED
    BY <2>1 DEF DiscoveryInv, PortInv
<1>9. InfoInv'
  BY <1>1, <1>2 DEF DiscoveryInv, InfoInv, Node
<1>10. rank' \in [ranks -> {"create", "barrier", "gather", "host", "port", "region",
                            "bind", "running", "ended"}]
  BY <1>1, <1>4 DEF DiscoveryInv, RankInv
<1>11. RankInv'
  BY <1>1, <1>2, <1>3, <1>4, <1>10 DEF DiscoveryInv, RankInv
<1>12. PortInv'
  BY <1>1, <1>2, <1>3, <1>4 DEF DiscoveryInv, PortInv
<1>13. GatherInv'
  <2>1. IsSeq(channel[r]) /\ DOMAIN channel = ranks
    BY DEF DiscoveryInv, GatherInv
  <2>2. /\ channel'[r] = Append(channel[r], value)
        /\ \A q \in ranks \ {r} : channel'[q] = channel[q]
        /\ DOMAIN channel' = ranks
    BY <1>1, <2>1
  <2>3. /\ IsSeq(channel'[r])
        /\ Len(channel'[r]) = Len(channel[r]) + 1 /\ Len(channel[r]) \in Nat
        /\ \A k \in 1 .. Len(channel[r]) : channel'[r][k] = channel[r][k]
        /\ channel'[r][Len(channel[r]) + 1] = value
    BY <2>1, <2>2, AppendSeq DEF IsSeq
  <2>4. NumSent(r) = NumTaken(r) + Len(channel[r])
    BY <1>3 DEF DiscoveryInv, GatherInv
  <2>5. NumSent(r)' = NumTaken(r)' + Len(channel'[r])
    BY <1>5, <1>6, <1>7, <2>3, <2>4
  <2>6. ASSUME NEW k \in 1 .. Len(channel'[r])
        PROVE  channel'[r][k] = NodeValues(r)[NumTaken(r) + k]
    <3>1. CASE k \in 1 .. Len(channel[r])
      BY <1>3, <2>3, <3>1 DEF DiscoveryInv, GatherInv
    <3>2. CASE k = Len(channel[r]) + 1
      <4>1. NumTaken(r) + k = NumSent(r) + 1
        BY <1>7, <2>3, <2>4, <3>2
      <4>2. QED
        BY <1>5, <2>3, <3>2, <4>1
    <3>3. QED
      BY <2>3, <3>1, <3>2
  <2>7. ASSUME NEW q \in ranks \ {0}
        PROVE  /\ NumSent(q)' = NumTaken(q)' + Len(channel'[q])
               /\ \A k \in 1 .. Len(channel'[q]) :
                    channel'[q][k] = NodeValues(q)[NumTaken(q)' + k]
    <3>1. CASE q = r
      BY <1>6, <2>5, <2>6, <3>1
    <3>2. CASE q # r
      BY <1>6, <2>2, <3>2 DEF DiscoveryInv, GatherInv
    <3>3. QED
      BY <3>1, <3>2
  <2>8. \A k \in 1 .. Len(reading) : reading[k] = NodeValues(NumAdded)[k]
    BY DEF DiscoveryInv, GatherInv
  <2>9. rank'[0] = rank[0]
    BY <1>2, <1>3, <1>4
  <2>10. \A q \in ranks : IsSeq(channel'[q])
    BY <2>2, <2>3 DEF DiscoveryInv, GatherInv
  <2>11. channel'[0] = <<>>
    BY <1>2, <1>3, <2>2 DEF DiscoveryInv, GatherInv
  <2>12. QED
    BY <1>1, <1>2, <2>2, <2>7, <2>8, <2>9, <2>10, <2>11 DEF DiscoveryInv, GatherInv, NodeValues
<1>14. QED
  BY <1>1, <1>8, <1>9, <1>11, <1>12, <1>13, BeforeOpen

\* Rank 0 adds the node of the next rank to the service info.
LEMMA NodeAdded ==
  ASSUME InfoInv, config' = config, NumAdded < NumNodes,
         serviceInfo' = [serviceInfo EXCEPT !.nodes = Append(@, Node(NumAdded))]
  PROVE  InfoInv' /\ NumAdded' = NumAdded + 1 /\ NumNodes' = NumNodes
<1> DEFINE nodes == Append(serviceInfo.nodes, Node(NumAdded))
           new == NewServiceInfo(config, serviceInfo.hasControlWindow)
<1>1. /\ IsSeq(nodes) /\ Len(nodes) = NumAdded + 1 /\ NumAdded \in Nat
      /\ \A k \in 1 .. NumAdded : nodes[k] = serviceInfo.nodes[k]
      /\ nodes[NumAdded + 1] = Node(NumAdded)
  BY AppendSeq DEF InfoInv, NumAdded, IsSeq
<1>2. serviceInfo' = [serviceInfo EXCEPT !.nodes = nodes]
  OBVIOUS
<1>3. serviceInfo = [new EXCEPT !.nodes = serviceInfo.nodes]
  BY DEF InfoInv
<1> HIDE DEF nodes
<1>4. serviceInfo' = [new EXCEPT !.nodes = nodes]
  BY <1>2, <1>3 DEF NewServiceInfo
<1>5. serviceInfo'.nodes = nodes /\ serviceInfo'.hasControlWindow = new.hasControlWindow
  BY <1>4 DEF NewServiceInfo
<1>6. new = NewServiceInfo(config, new.hasControlWindow)
  BY DEF NewServiceInfo
<1>7. NumAdded' = NumAdded + 1 /\ NumNodes' = NumNodes /\ \A r : Node(r)' = Node(r)
  BY <1>1, <1>5 DEF NumAdded, NumNodes, Node
<1>8. \A i \in 1 .. NumAdded + 1 : nodes[i] = Node(i - 1)
  BY <1>1 DEF InfoInv
<1>9. NumAdded + 1 <= NumNodes
  BY <1>1, RanksFacts
<1>10. serviceInfo' = [NewServiceInfo(config', serviceInfo'.hasControlWindow)
                         EXCEPT !.nodes = serviceInfo'.nodes]
  BY <1>4, <1>5, <1>6
<1>11. InfoInv'
  BY <1>1, <1>5, <1>7, <1>8, <1>9, <1>10 DEF InfoInv
<1>12. QED
  BY <1>7, <1>11

LEMMA AddMyselfStep ==
  ASSUME DiscoveryInv, AddMyself
  PROVE  DiscoveryInv'
<1>1. /\ rank[0] = "gather" /\ serviceInfo.nodes = <<>>
      /\ serviceInfo' = [serviceInfo EXCEPT !.nodes = <<Node(0)>>]
      /\ rank' = [rank EXCEPT ![0] =
                    IF config.useHeadNode \/ NumDisplays = 1 THEN "bind" ELSE "gather"]
      /\ config' = config /\ channel' = channel /\ reading' = reading /\ infoPort' = infoPort
      /\ UNCHANGED <<infoThreadVars, clientVars>>
  BY DEF AddMyself, Node
<1>2. /\ ranks' = ranks /\ 0 \in ranks /\ NumNodes \in Nat \ {0} /\ NumDisplays \in Nat \ {0}
      /\ config.useHeadNode \in BOOLEAN
  BY <1>1, RanksFacts DEF ranks, DiscoveryInv
<1>3. NumAdded = 0
  BY <1>1, NothingIsSeq DEF NumAdded
<1>4. InfoInv' /\ NumAdded' = 1 /\ NumNodes' = NumNodes
  <2>1. Append(serviceInfo.nodes, Node(NumAdded)) = <<Node(0)>>
    BY <1>1, <1>3
  <2>2. QED
    BY <1>1, <1>2, <1>3, <2>1, NodeAdded DEF DiscoveryInv
<1>5. /\ \A r \in ranks \ {0} : rank'[r] = rank[r]
      /\ rank'[0] = IF config.useHeadNode \/ NumDisplays = 1 THEN "bind" ELSE "gather"
      /\ rank' \in [ranks -> {"create", "barrier", "gather", "host", "port", "region",
                              "bind", "running", "ended"}]
  BY <1>1, <1>2 DEF DiscoveryInv, RankInv
<1>6. infoPort = "unbound"
  BY <1>1, NotYetOpen
<1>7. RankInv'
  <2>1. rank'[0] = "bind" <=> NumNodes = 1
    BY <1>2, <1>5 DEF NumNodes
  <2>2. QED
    BY <1>1, <1>2, <1>4, <1>5, <2>1 DEF DiscoveryInv, RankInv
<1>8. PortInv'
  BY <1>1, <1>2, <1>5, <1>6 DEF DiscoveryInv, PortInv
<1>9. reading = <<>> /\ Len(reading) = 0
  BY <1>3, NothingIsSeq DEF DiscoveryInv, GatherInv
<1>10. ASSUME NEW r \in ranks \ {0}
       PROVE  NumSent(r)' = NumSent(r) /\ NumTaken(r)' = NumTaken(r)
  <2>1. r \in Nat \ {0}
    BY <1>2, RanksFacts DEF DiscoveryInv
  <2>2. NumTaken(r) = 0 /\ NumTaken(r)' = 0
    BY <1>1, <1>3, <1>4, <1>9, <2>1 DEF NumTaken
  <2>3. QED
    BY <1>1, <1>5, <2>2 DEF NumSent
<1>11. GatherInv'
  BY <1>1, <1>2, <1>9, <1>10 DEF DiscoveryInv, GatherInv
<1>12. QED
  BY <1>1, <1>4, <1>6, <1>7, <1>8, <1>11, BeforeOpen

\* Rank 0 takes the next value of the next rank.
LEMMA GatherStep ==
  ASSUME DiscoveryInv, Gather
  PROVE  DiscoveryInv'
<1>0. PICK peer : peer = NumAdded
  OBVIOUS
<1> DEFINE value == Head(channel[peer])
           node == Append(reading, value)
<1>1. /\ rank[0] = "gather" /\ NumAdded > 0 /\ channel[peer] # <<>>
      /\ channel' = [channel EXCEPT ![peer] = Tail(@)]
      /\ config' = config /\ infoPort' = infoPort
      /\ UNCHANGED <<infoThreadVars, clientVars>>
  BY <1>0 DEF Gather, NumAdded
<1>2. \/ /\ Len(node) < 3
         /\ reading' = node /\ serviceInfo' = serviceInfo /\ rank' = rank
      \/ /\ ~ (Len(node) < 3)
         /\ reading' = <<>>
         /\ serviceInfo' = [serviceInfo EXCEPT !.nodes =
              Append(@, [hostName |-> node[1], port |-> node[2], region |-> node[3]])]
         /\ rank' = [rank EXCEPT ![0] = IF peer + 1 = NumDisplays THEN "bind" ELSE @]
  BY <1>0 DEF Gather, NumAdded
<1>3. /\ ranks' = ranks /\ 0 \in ranks /\ NumNodes \in Nat \ {0} /\ NumDisplays \in Nat \ {0}
      /\ config.useHeadNode \in BOOLEAN /\ NumAdded \in Nat
  BY <1>1, RanksFacts DEF ranks, DiscoveryInv
<1>4. ~ config.useHeadNode /\ NumNodes = NumDisplays /\ peer \in ranks \ {0} /\ peer < NumDisplays
  <2>1. NumAdded < NumNodes
    BY <1>1 DEF DiscoveryInv, RankInv
  <2>2. ~ config.useHeadNode /\ NumNodes = NumDisplays
    BY <1>1, <1>3, <2>1 DEF NumNodes
  <2>3. ranks = 0 .. NumDisplays - 1
    BY <2>2, RanksFacts DEF DiscoveryInv
  <2>4. QED
    BY <1>0, <1>1, <1>3, <2>1, <2>2, <2>3
<1>5. infoPort = "unbound"
  BY <1>1, NotYetOpen
<1>n. PICK n : n = Len(reading)
  OBVIOUS
<1>6. /\ IsSeq(reading) /\ n \in 0 .. 2
      /\ \A k \in 1 .. n : reading[k] = NodeValues(peer)[k]
      /\ IsSeq(channel[peer]) /\ DOMAIN channel = ranks
      /\ NumTaken(peer) = n
      /\ NumSent(peer) = n + Len(channel[peer])
      /\ \A k \in 1 .. Len(channel[peer]) : channel[peer][k] = NodeValues(peer)[n + k]
  <2>1. NumTaken(peer) = n
    BY <1>0, <1>3, <1>n DEF NumTaken
  <2>2. /\ IsSeq(reading) /\ n \in Nat /\ n < 3
        /\ \A k \in 1 .. n : reading[k] = NodeValues(peer)[k]
    BY <1>0, <1>n DEF DiscoveryInv, GatherInv, IsSeq
  <2>3. /\ DOMAIN channel = ranks /\ IsSeq(channel[peer])
        /\ NumSent(peer) = NumTaken(peer) + Len(channel[peer])
        /\ \A k \in 1 .. Len(channel[peer]) :
             channel[peer][k] = NodeValues(peer)[NumTaken(peer) + k]
    BY <1>4 DEF DiscoveryInv, GatherInv
  <2>4. QED
    BY <2>1, <2>2, <2>3
<1>7. /\ Len(channel[peer]) \in Nat \ {0}
      /\ value = NodeValues(peer)[n + 1]
      /\ IsSeq(Tail(channel[peer]))
      /\ Len(Tail(channel[peer])) = Len(channel[peer]) - 1
      /\ \A k \in 1 .. Len(channel[peer]) - 1 : Tail(channel[peer])[k] = NodeValues(peer)[n + 1 + k]
  <2>1. /\ Len(channel[peer]) \in Nat \ {0}
        /\ value = channel[peer][1]
        /\ IsSeq(Tail(channel[peer]))
        /\ Len(Tail(channel[peer])) = Len(channel[peer]) - 1
        /\ \A k \in 1 .. Len(channel[peer]) - 1 : Tail(channel[peer])[k] = channel[peer][k + 1]
    BY <1>1, <1>6, TailSeq
  <2>2. ASSUME NEW k \in 1 .. Len(channel[peer]) - 1
        PROVE  Tail(channel[peer])[k] = NodeValues(peer)[n + 1 + k]
    <3>1. k + 1 \in 1 .. Len(channel[peer]) /\ n + (k + 1) = n + 1 + k
      BY <1>6, <2>1
    <3>2. channel[peer][k + 1] = NodeValues(peer)[n + (k + 1)]
      BY <1>6, <3>1
    <3>3. QED
      BY <2>1, <3>1, <3>2
  <2>3. value = NodeValues(peer)[n + 1]
    BY <1>6, <2>1
  <2>4. QED
    BY <2>1, <2>2, <2>3
<1>8. /\ IsSeq(node) /\ Len(node) = n + 1
      /\ \A k \in 1 .. n + 1 : node[k] = NodeValues(peer)[k]
  <2>1. /\ IsSeq(node) /\ Len(node) = n + 1
        /\ \A k \in 1 .. n : node[k] = reading[k]
        /\ node[n + 1] = value
    BY <1>6, <1>n, AppendSeq
  <2> HIDE DEF node, value
  <2>2. QED
    BY <1>6, <1>7, <2>1
<1>9. /\ channel'[peer] = Tail(channel[peer])
      /\ \A r \in ranks \ {peer} : channel'[r] = channel[r]
      /\ DOMAIN channel' = ranks
  BY <1>1, <1>4, <1>6
<1>10. /\ \A r \in ranks : IsSeq(channel'[r])
       /\ channel'[0] = <<>>
  BY <1>3, <1>4, <1>7, <1>9 DEF DiscoveryInv, GatherInv
<1>len. /\ n \in Nat /\ Len(channel[peer]) \in Nat
         /\ NumSent(peer) = n + Len(channel[peer])
  BY <1>6, <1>7
<1> HIDE DEF node, value
<1>11. CASE n + 1 < 3
  <2>1. reading' = node /\ serviceInfo' = serviceInfo /\ rank' = rank
    BY <1>2, <1>8, <1>11
  <2>2. NumAdded' = NumAdded /\ NumNodes' = NumNodes /\ \A r : Node(r)' = Node(r)
    BY <1>1, <2>1 DEF NumAdded, NumNodes, Node
  <2>3. InfoInv' /\ RankInv' /\ PortInv'
    BY <1>1, <1>3, <2>1, <2>2 DEF DiscoveryInv, InfoInv, RankInv, PortInv
  <2>4. \A r \in ranks : NumSent(r)' = NumSent(r)
    BY <1>1, <2>1 DEF NumSent
  <2>5. \A r \in ranks \ {peer} : NumTaken(r)' = NumTaken(r)
    BY <1>0, <2>1, <2>2 DEF NumTaken
  <2>6. NumTaken(peer)' = n + 1
    BY <1>0, <1>3, <1>8, <2>1, <2>2 DEF NumTaken
  <2>7. ASSUME NEW r \in ranks \ {0}
        PROVE  /\ NumSent(r)' = NumTaken(r)' + Len(channel'[r])
               /\ \A k \in 1 .. Len(channel'[r]) :
                    channel'[r][k] = NodeValues(r)[NumTaken(r)' + k]
    <3>1. CASE r = peer
      <4>1. Len(channel'[peer]) = Len(channel[peer]) - 1 /\ NumSent(peer)' = NumSent(peer)
        BY <1>4, <1>7, <1>9, <2>4, <2>6
      <4>2. NumSent(peer)' = NumTaken(peer)' + Len(channel'[peer])
        <5>1. PICK len : len = Len(channel[peer])
          OBVIOUS
        <5>2. len \in Nat /\ n \in Nat /\ NumSent(peer)' = n + len
          BY <1>len, <4>1, <5>1
        <5>3. NumTaken(peer)' + Len(channel'[peer]) = (n + 1) + (len - 1)
          BY <4>1, <5>1, <2>6
        <5>4. (n + 1) + (len - 1) = n + len
          BY <5>2
        <5>5. QED
          BY <5>2, <5>3, <5>4
      <4>3. \A k \in 1 .. Len(channel'[peer]) :
               channel'[peer][k] = NodeValues(peer)[NumTaken(peer)' + k]
        BY <1>7, <1>9, <4>1, <2>4, <2>6
      <4>4. QED
        BY <3>1, <4>2, <4>3
    <3>2. CASE r # peer
      BY <1>9, <2>4, <2>5, <3>2 DEF DiscoveryInv, GatherInv
    <3>3. QED
      BY <3>1, <3>2
  <2>8. GatherInv'
    BY <1>0, <1>1, <1>3, <1>4, <1>8, <1>9, <1>10, <1>11, <2>1, <2>2, <2>7 DEF GatherInv, NodeValues
  <2>9. QED
    BY <1>1, <1>5, <2>3, <2>8, BeforeOpen
<1>12. CASE n + 1 = 3
  <2>1. /\ reading' = <<>>
        /\ serviceInfo' = [serviceInfo EXCEPT !.nodes =
             Append(@, [hostName |-> node[1], port |-> node[2], region |-> node[3]])]
        /\ rank' = [rank EXCEPT ![0] = IF peer + 1 = NumDisplays THEN "bind" ELSE @]
    BY <1>2, <1>8, <1>12
  <2>2. [hostName |-> node[1], port |-> node[2], region |-> node[3]] = Node(peer)
    <3>1. /\ node[1] = HostOf[peer] /\ node[2] = PortOf[peer]
          /\ node[3] = RegionOfDisplay(peer)
      BY <1>8, <1>12 DEF NodeValues
    <3>2. RegionOfNode(config.useHeadNode)[peer] = RegionOfDisplay(peer)
      <4>1. peer \in Displays /\ ~ config.useHeadNode
        BY <1>0, <1>3, <1>4 DEF Displays
      <4>2. QED
        BY <4>1 DEF RegionOfNode
    <3>3. QED
      BY <3>1, <3>2 DEF Node
  <2>3. InfoInv' /\ NumAdded' = NumAdded + 1 /\ NumNodes' = NumNodes
    BY <1>0, <1>1, <1>4, <2>1, <2>2, NodeAdded DEF DiscoveryInv
  <2>4. /\ \A r \in ranks \ {0} : rank'[r] = rank[r]
        /\ rank'[0] = IF peer + 1 = NumDisplays THEN "bind" ELSE "gather"
        /\ rank' \in [ranks -> {"create", "barrier", "gather", "host", "port", "region",
                                "bind", "running", "ended"}]
    BY <1>1, <1>3, <2>1 DEF DiscoveryInv, RankInv
  <2>5. RankInv'
    BY <1>0, <1>1, <1>3, <1>4, <2>3, <2>4 DEF DiscoveryInv, RankInv
  <2>6. PortInv'
    BY <1>1, <1>3, <1>5, <2>4 DEF DiscoveryInv, PortInv
  <2>7. \A r \in ranks \ {0} : NumSent(r)' = NumSent(r)
    BY <1>1, <2>4 DEF NumSent
  <2>8. Len(reading') = 0
    BY <2>1, NothingIsSeq
  <2>9. ASSUME NEW r \in ranks \ {0, peer} PROVE NumTaken(r)' = NumTaken(r)
    <3>1. r \in Nat /\ r # NumAdded
      BY <1>0, <1>3, RanksFacts DEF DiscoveryInv
    <3>2. QED
      BY <1>3, <2>3, <2>8, <3>1 DEF NumTaken
  <2>10. NumTaken(peer)' = n + 1
    BY <1>0, <1>3, <1>12, <2>3 DEF NumTaken
  <2>11. ASSUME NEW r \in ranks \ {0}
         PROVE  /\ NumSent(r)' = NumTaken(r)' + Len(channel'[r])
                /\ \A k \in 1 .. Len(channel'[r]) :
                     channel'[r][k] = NodeValues(r)[NumTaken(r)' + k]
    <3>1. CASE r = peer
      <4>1. Len(channel'[peer]) = Len(channel[peer]) - 1 /\ NumSent(peer)' = NumSent(peer)
        BY <1>4, <1>7, <1>9, <2>7, <2>10
      <4>2. NumSent(peer)' = NumTaken(peer)' + Len(channel'[peer])
        <5>1. PICK len : len = Len(channel[peer])
          OBVIOUS
        <5>2. len \in Nat /\ n \in Nat /\ NumSent(peer)' = n + len
          BY <1>len, <4>1, <5>1
        <5>3. NumTaken(peer)' + Len(channel'[peer]) = (n + 1) + (len - 1)
          BY <4>1, <5>1, <2>10
        <5>4. (n + 1) + (len - 1) = n + len
          BY <5>2
        <5>5. QED
          BY <5>2, <5>3, <5>4
      <4>3. \A k \in 1 .. Len(channel'[peer]) :
               channel'[peer][k] = NodeValues(peer)[NumTaken(peer)' + k]
        BY <1>7, <1>9, <4>1, <2>7, <2>10
      <4>4. QED
        BY <3>1, <4>2, <4>3
    <3>2. CASE r # peer
      BY <1>9, <2>7, <2>9, <3>2 DEF DiscoveryInv, GatherInv
    <3>3. QED
      BY <3>1, <3>2
  <2>12. GatherInv'
    BY <1>1, <1>3, <1>9, <1>10, <2>1, <2>8, <2>11, NothingIsSeq DEF GatherInv, NodeValues
  <2>13. QED
    BY <1>1, <1>5, <2>3, <2>5, <2>6, <2>12, BeforeOpen
<1>13. QED
  BY <1>6, <1>11, <1>12
\* The service ends in every rank at once, from bind() or while it is running.
LEMMA RanksEnd ==
  ASSUME DiscoveryInv, rank[0] \in {"bind", "running"}, rank' = [r \in ranks |-> "ended"],
         infoPort' = "gone", UNCHANGED <<config, channel, reading, serviceInfo>>
  PROVE  InfoInv' /\ RankInv' /\ PortInv' /\ GatherInv'
<1>1. /\ ranks' = ranks /\ 0 \in ranks /\ NumNodes \in Nat \ {0} /\ NumDisplays \in Nat \ {0}
      /\ config.useHeadNode \in BOOLEAN /\ NumAdded \in Nat
      /\ NumAdded' = NumAdded /\ NumNodes' = NumNodes /\ \A r : Node(r)' = Node(r)
  BY RanksFacts DEF ranks, DiscoveryInv, NumAdded, NumNodes, Node
<1>2. NumAdded = NumNodes /\ reading = <<>>
  BY DEF DiscoveryInv, RankInv, GatherInv
<1>3. \A r \in ranks : rank'[r] = "ended"
  OBVIOUS
<1>4. InfoInv'
  BY <1>1 DEF DiscoveryInv, InfoInv
<1>5. RankInv' /\ PortInv'
  BY <1>1, <1>2, <1>3 DEF RankInv, PortInv
<1>6. \A r : NumTaken(r)' = NumTaken(r)
  BY <1>1 DEF NumTaken
<1>7. ASSUME NEW r \in ranks \ {0} PROVE NumSent(r)' = NumSent(r)
  <2>1. CASE config.useHeadNode
    BY <2>1 DEF NumSent
  <2>2. CASE ~ config.useHeadNode
    <3>1. r < NumAdded
      BY <1>1, <1>2, <2>2, RanksFacts DEF DiscoveryInv, NumNodes
    <3>2. NumTaken(r) = 3
      BY <3>1 DEF NumTaken
    <3>3. Len(channel[r]) \in Nat /\ NumSent(r) = NumTaken(r) + Len(channel[r])
      BY DEF DiscoveryInv, GatherInv, IsSeq
    <3>4. NumSent(r) = 3
      <4>1. NumSent(r) \in 0 .. 3
        BY DEF NumSent
      <4>2. QED
        BY <3>2, <3>3, <4>1
    <3>5. NumSent(r)' = 3
      BY <1>3, <2>2 DEF NumSent
    <3>6. QED
      BY <3>4, <3>5
  <2>3. QED
    BY <2>1, <2>2
<1>8. GatherInv'
  BY <1>1, <1>2, <1>6, <1>7 DEF DiscoveryInv, GatherInv
<1>9. QED
  BY <1>4, <1>5, <1>8

LEMMA OpenInfoServerStep ==
  ASSUME DiscoveryInv, OpenInfoServer
  PROVE  DiscoveryInv'
<1>1. /\ rank[0] = "bind"
      /\ config' = config /\ channel' = channel /\ reading' = reading
      /\ serviceInfo' = serviceInfo /\ UNCHANGED <<infoThreadVars, clientVars>>
  BY DEF OpenInfoServer
<1>2. infoPort = "unbound"
  BY <1>1, NotYetOpen
<1>3. CASE infoPort' = "open" /\ rank' = [rank EXCEPT ![0] = "running"]
  <2>1. /\ ranks' = ranks /\ 0 \in ranks /\ NumAdded' = NumAdded /\ NumNodes' = NumNodes
        /\ \A r : Node(r)' = Node(r)
    BY <1>1, RanksFacts DEF ranks, NumAdded, NumNodes, DiscoveryInv, Node
  <2>2. /\ rank'[0] = "running" /\ \A r \in ranks \ {0} : rank'[r] = rank[r]
        /\ rank' \in [ranks -> {"create", "barrier", "gather", "host", "port", "region",
                                "bind", "running", "ended"}]
    BY <1>3, <2>1 DEF DiscoveryInv, RankInv
  <2>3. InfoInv' /\ RankInv'
    BY <1>1, <2>1, <2>2 DEF DiscoveryInv, InfoInv, RankInv
  <2>4. PortInv'
    BY <1>2, <1>3, <2>1, <2>2 DEF DiscoveryInv, PortInv
  <2>5. reading = <<>>
    BY <1>1 DEF DiscoveryInv, GatherInv
  <2>6. \A r \in ranks \ {0} : NumSent(r)' = NumSent(r) /\ NumTaken(r)' = NumTaken(r)
    BY <1>1, <2>1, <2>2 DEF NumSent, NumTaken
  <2>7. GatherInv'
    BY <1>1, <2>1, <2>5, <2>6 DEF DiscoveryInv, GatherInv
  <2>8. QED
    BY <1>1, <1>2, <2>3, <2>4, <2>7, BeforeOpen
<1>4. CASE infoPort' = "gone" /\ rank' = [r \in ranks |-> "ended"]
  BY <1>1, <1>2, <1>4, RanksEnd, BeforeOpen
<1>5. QED
  BY <1>3, <1>4 DEF OpenInfoServer

-----------------------------------------------------------------------------
(* The steps of the info thread.                                           *)

\* Where somebody waits or is written to, the service info is complete.
LEMMA OpenFacts ==
  ASSUME DiscoveryInv, infoPort = "open"
  PROVE  NumAdded = NumNodes /\ rank[0] = "running"
BY DEF DiscoveryInv, PortInv, RankInv

LEMMA AcceptRequestStep ==
  ASSUME DiscoveryInv, AcceptRequest
  PROVE  DiscoveryInv'
<1>1. /\ requester = {} /\ backlog # <<>>
      /\ requester' = {Head(backlog)} /\ backlog' = Tail(backlog)
      /\ UNCHANGED <<gatherVars, infoPort>>
      /\ infoPort' = infoPort /\ config' = config /\ serviceInfo' = serviceInfo
      /\ written' = written /\ stream' = stream /\ closed' = closed
      /\ got' = got /\ client' = client
  BY DEF AcceptRequest, clientVars, gatherVars
<1>2. InfoInv' /\ RankInv' /\ PortInv' /\ GatherInv'
  BY <1>1, RanksLeftAlone
<1>3. NumNodes' = NumNodes /\ \A con : Asked(con)' = Asked(con) /\ NumPassed(con)' = NumPassed(con)
  BY <1>1 DEF NumNodes, Asked, NumPassed
<1>4. /\ Len(backlog) \in Nat \ {0} /\ Head(backlog) = backlog[1]
      /\ IsSeq(backlog') /\ Len(backlog') = Len(backlog) - 1
      /\ \A k \in 1 .. Len(backlog) - 1 : backlog'[k] = backlog[k + 1]
  BY <1>1, TailSeq DEF DiscoveryInv, QueueInv
<1>5. /\ \A i \in 1 .. Len(backlog) : /\ backlog[i] \in Connections
                                      /\ backlog[i] \notin closed
                                      /\ Asked(backlog[i])
      /\ \A i, j \in 1 .. Len(backlog) : backlog[i] = backlog[j] => i = j
      /\ infoPort = "open" /\ closed \subseteq Connections
      /\ \A con \in closed : Asked(con)
      /\ written = 0
  BY <1>1 DEF DiscoveryInv, QueueInv, StreamInv
<1>6. 1 \in 1 .. Len(backlog)
  BY <1>4
<1>7. /\ \A k \in 1 .. Len(backlog') : k + 1 \in 1 .. Len(backlog) /\ k + 1 # 1
      /\ \A k \in 1 .. Len(backlog') : backlog'[k] = backlog[k + 1]
  BY <1>4
<1>8. QueueInv'
  <2>1. \A i \in 1 .. Len(backlog') :
          /\ backlog'[i] \in Connections /\ Asked(backlog'[i])
          /\ backlog'[i] \notin requester' \cup closed'
    BY <1>1, <1>4, <1>5, <1>6, <1>7
  <2>2. ASSUME NEW i \in 1 .. Len(backlog'), NEW j \in 1 .. Len(backlog'),
               backlog'[i] = backlog'[j]
        PROVE  i = j
    <3>1. i + 1 = j + 1
      BY <1>5, <1>7, <2>2
    <3>2. QED
      BY <3>1
  <2>3. /\ requester' \subseteq Connections /\ \A a, b \in requester' : a = b
        /\ requester' \cap closed' = {}
        /\ \A con \in requester' \cup closed' : Asked(con)
    BY <1>1, <1>4, <1>5, <1>6
  <2>4. QED
    BY <1>1, <1>3, <1>4, <1>5, <2>1, <2>2, <2>3 DEF QueueInv
<1>9. StreamInv'
  <2>1. NumPassed(Head(backlog)) = 0
    BY <1>1, <1>4, <1>5, <1>6 DEF DiscoveryInv, StreamInv
  <2>2. QED
    BY <1>1, <1>3, <1>5, <2>1 DEF DiscoveryInv, StreamInv
<1>10. QED
  BY <1>1, <1>2, <1>8, <1>9 DEF DiscoveryInv, ClientInv

LEMMA WriteFieldStep ==
  ASSUME DiscoveryInv, WriteField
  PROVE  DiscoveryInv'
<1>1. PICK con \in requester :
        stream' = [stream EXCEPT ![con] = Append(@, Field(serviceInfo, written + 1))]
  BY DEF WriteField
<1>2. /\ written < NumFields(NumAdded) /\ written' = written + 1
      /\ UNCHANGED <<gatherVars, infoPort>>
      /\ infoPort' = infoPort /\ config' = config /\ serviceInfo' = serviceInfo
      /\ backlog' = backlog /\ requester' = requester /\ closed' = closed
      /\ got' = got /\ client' = client
  BY DEF WriteField, clientVars, gatherVars, NumAdded
<1>3. InfoInv' /\ RankInv' /\ PortInv' /\ GatherInv'
  BY <1>2, RanksLeftAlone
<1>4. NumNodes' = NumNodes /\ \A c : Asked(c)' = Asked(c)
  BY <1>2 DEF NumNodes, Asked
<1>5. infoPort = "open" /\ con \in Connections /\ con \notin closed
  BY DEF DiscoveryInv, QueueInv
<1>6. written < NumFields(NumNodes)
  BY <1>2, <1>5, OpenFacts
<1>7. QueueInv' /\ ClientInv'
  BY <1>2, <1>4 DEF DiscoveryInv, QueueInv, ClientInv
<1>8. /\ IsSeq(got[con]) /\ IsSeq(stream[con]) /\ DOMAIN stream = Connections
      /\ NumPassed(con) = written /\ written \in Nat
      /\ \A k \in 1 .. Len(stream[con]) :
           stream[con][k] = Field(serviceInfo, Len(got[con]) + k)
  BY <1>5 DEF DiscoveryInv, StreamInv
<1>9. /\ stream'[con] = Append(stream[con], Field(serviceInfo, written + 1))
      /\ \A c \in Connections \ {con} : stream'[c] = stream[c]
      /\ DOMAIN stream' = Connections
  BY <1>1, <1>5, <1>8
<1>10. /\ IsSeq(stream'[con]) /\ Len(stream'[con]) = Len(stream[con]) + 1
       /\ \A k \in 1 .. Len(stream[con]) : stream'[con][k] = stream[con][k]
       /\ stream'[con][Len(stream[con]) + 1] = Field(serviceInfo, written + 1)
  BY <1>8, <1>9, AppendSeq
<1>11. Len(got[con]) \in Nat /\ Len(stream[con]) \in Nat
       /\ Len(got[con]) + Len(stream[con]) = written
  BY <1>8 DEF IsSeq, NumPassed
<1>12. NumPassed(con)' = written + 1
  <2>1. PICK m, n : m = Len(got[con]) /\ n = Len(stream[con])
    OBVIOUS
  <2>2. m \in Nat /\ n \in Nat /\ m + n = written
    BY <1>11, <2>1
  <2>3. NumPassed(con)' = m + (n + 1)
    BY <1>2, <1>10, <2>1 DEF NumPassed
  <2>4. QED
    BY <2>2, <2>3
<1>13. \A c \in Connections \ {con} : NumPassed(c)' = NumPassed(c)
  BY <1>2, <1>9 DEF NumPassed
<1>14. \A c \in requester : c = con
  BY DEF DiscoveryInv, QueueInv
<1>15. ASSUME NEW k \in 1 .. Len(stream'[con])
       PROVE  stream'[con][k] = Field(serviceInfo, Len(got[con]) + k)
  <2>1. CASE k \in 1 .. Len(stream[con])
    BY <1>8, <1>10, <2>1
  <2>2. CASE k = Len(stream[con]) + 1
    <3>1. PICK m, n : m = Len(got[con]) /\ n = Len(stream[con])
      OBVIOUS
    <3>2. m \in Nat /\ n \in Nat /\ m + n = written
      BY <1>11, <3>1
    <3>3. m + (n + 1) = written + 1
      BY <3>2
    <3>4. Len(got[con]) + k = written + 1
      BY <2>2, <3>1, <3>3
    <3>5. QED
      BY <1>10, <2>2, <3>4
  <2>3. QED
    BY <1>10, <1>11, <2>1, <2>2
<1>16. NumFields(NumNodes) \in Nat
  BY RanksFacts, NumFieldsFacts DEF DiscoveryInv
<1>17. ASSUME NEW c \in Connections
       PROVE  /\ IsSeq(got[c]) /\ IsSeq(stream'[c])
              /\ NumPassed(c)' <= NumFields(NumNodes)
              /\ c \in requester => NumPassed(c)' = written + 1
              /\ c \notin requester \cup closed => NumPassed(c)' = 0
              /\ c \in closed => NumPassed(c)' = NumFields(NumNodes)
              /\ \A k \in 1 .. Len(got[c]) : got[c][k] = Field(serviceInfo, k)
              /\ \A k \in 1 .. Len(stream'[c]) :
                   stream'[c][k] = Field(serviceInfo, Len(got[c]) + k)
  <2>1. /\ IsSeq(got[c]) /\ \A k \in 1 .. Len(got[c]) : got[c][k] = Field(serviceInfo, k)
    BY DEF DiscoveryInv, StreamInv
  <2>2. CASE c = con
    <3>1. NumPassed(con)' <= NumFields(NumNodes)
      BY <1>6, <1>8, <1>12, <1>16
    <3>2. QED
      BY <1>5, <1>10, <1>12, <1>15, <2>1, <2>2, <3>1
  <2>3. CASE c # con
    <3>1. stream'[c] = stream[c] /\ NumPassed(c)' = NumPassed(c) /\ c \notin requester
      BY <1>9, <1>13, <1>14, <2>3
    <3>2. QED
      BY <1>5, <2>1, <3>1 DEF DiscoveryInv, StreamInv
  <2>4. QED
    BY <2>2, <2>3
<1>18. StreamInv'
  <2>1. written' \in 0 .. NumFields(NumNodes) /\ requester' # {}
    BY <1>2, <1>6, <1>8, <1>16
  <2>2. DOMAIN got' = Connections
    BY <1>2 DEF DiscoveryInv, StreamInv
  <2>3. QED
    BY <1>2, <1>4, <1>9, <1>17, <2>1, <2>2 DEF StreamInv
<1>19. QED
  BY <1>3, <1>7, <1>18 DEF DiscoveryInv

LEMMA CloseRequestStep ==
  ASSUME DiscoveryInv, CloseRequest
  PROVE  DiscoveryInv'
<1>1. /\ written = NumFields(NumAdded) /\ written' = 0
      /\ closed' = closed \cup requester /\ requester' = {}
      /\ UNCHANGED <<gatherVars, infoPort>>
      /\ infoPort' = infoPort /\ config' = config /\ serviceInfo' = serviceInfo
      /\ backlog' = backlog /\ stream' = stream /\ got' = got /\ client' = client
  BY DEF CloseRequest, clientVars, gatherVars, NumAdded
<1>2. InfoInv' /\ RankInv' /\ PortInv' /\ GatherInv'
  BY <1>1, RanksLeftAlone
<1>3. NumNodes' = NumNodes /\ \A con : Asked(con)' = Asked(con) /\ NumPassed(con)' = NumPassed(con)
  BY <1>1 DEF NumNodes, Asked, NumPassed
<1>4. requester # {}
  <2>1. written >= 7
    BY <1>1, RanksFacts, NumFieldsFacts DEF DiscoveryInv, HeaderLength
  <2>2. QED
    BY <2>1 DEF DiscoveryInv, StreamInv
<1>5. infoPort = "open" /\ written = NumFields(NumNodes)
  BY <1>1, <1>4, OpenFacts DEF DiscoveryInv, QueueInv
<1>6. QueueInv' /\ ClientInv'
  BY <1>1, <1>3, <1>5 DEF DiscoveryInv, QueueInv, ClientInv
<1>7. NumFields(NumNodes) \in Nat
  BY RanksFacts, NumFieldsFacts DEF DiscoveryInv
<1>8. StreamInv'
  BY <1>1, <1>3, <1>5, <1>7 DEF DiscoveryInv, StreamInv
<1>9. QED
  BY <1>2, <1>6, <1>8 DEF DiscoveryInv

LEMMA ServiceEndsStep ==
  ASSUME DiscoveryInv, ServiceEnds
  PROVE  DiscoveryInv'
<1>1. /\ infoPort = "open" /\ infoPort' = "gone" /\ rank' = [r \in ranks |-> "ended"]
      /\ closed' = closed \cup requester \cup {backlog[i] : i \in 1 .. Len(backlog)}
      /\ backlog' = <<>> /\ requester' = {} /\ written' = 0
      /\ config' = config /\ channel' = channel /\ reading' = reading
      /\ serviceInfo' = serviceInfo /\ stream' = stream /\ got' = got /\ client' = client
  BY DEF ServiceEnds, clientVars
<1>2. InfoInv' /\ RankInv' /\ PortInv' /\ GatherInv'
  BY <1>1, OpenFacts, RanksEnd
<1>3. NumNodes' = NumNodes /\ \A con : Asked(con)' = Asked(con) /\ NumPassed(con)' = NumPassed(con)
  BY <1>1 DEF NumNodes, Asked, NumPassed
<1>4. QueueInv' /\ ClientInv'
  BY <1>1, <1>3, NothingIsSeq DEF DiscoveryInv, QueueInv, ClientInv
<1>5. NumFields(NumNodes) \in Nat
  BY RanksFacts, NumFieldsFacts DEF DiscoveryInv
<1>6. StreamInv'
  BY <1>1, <1>3, <1>5 DEF DiscoveryInv, StreamInv
<1>7. QED
  BY <1>2, <1>4, <1>6 DEF DiscoveryInv
-----------------------------------------------------------------------------
(* The steps of the clients.                                               *)

\* Connecting: it was not asked for before.
LEMMA ConnectStep ==
  ASSUME DiscoveryInv, NEW c \in Clients, NEW purpose \in {"query", "connect"}, Connect(c, purpose)
  PROVE  DiscoveryInv'
<1>1. /\ client[c].pc = "idle" /\ (purpose = "query" => ~ client[c].queried)
      /\ infoPort = "open"
      /\ client' = [client EXCEPT ![c].pc = purpose, ![c].queried = @ \/ purpose = "query"]
      /\ backlog' = Append(backlog, <<c, purpose>>)
      /\ UNCHANGED <<gatherVars, infoPort>>
      /\ infoPort' = infoPort /\ config' = config /\ serviceInfo' = serviceInfo
      /\ requester' = requester /\ written' = written /\ stream' = stream
      /\ closed' = closed /\ got' = got
  BY DEF Connect, gatherVars
<1> DEFINE new == <<c, purpose>>
           AskedNow(con) == \/ con[2] = "query" /\ client'[con[1]].queried
                            \/ con[2] = "connect" /\ client'[con[1]].pc \notin {"idle", "query"}
<1>2. InfoInv' /\ RankInv' /\ PortInv' /\ GatherInv'
  BY <1>1, RanksLeftAlone
<1>3. NumNodes' = NumNodes /\ \A con : NumPassed(con)' = NumPassed(con)
  BY <1>1 DEF NumNodes, NumPassed
<1>4. /\ client \in [Clients -> [pc: {"idle", "query", "connect", "sockets", "terminated"},
                                 queried: BOOLEAN]]
      /\ client[c] \in [pc: {"idle", "query", "connect", "sockets", "terminated"},
                        queried: BOOLEAN]
  BY DEF DiscoveryInv, ClientInv
<1>5. /\ \A d \in Clients \ {c} : client'[d] = client[d]
      /\ client'[c] = [pc |-> purpose, queried |-> client[c].queried \/ purpose = "query"]
  BY <1>1, <1>4
<1>now. client'[c].pc = purpose /\ (purpose = "query" \/ client[c].queried => client'[c].queried)
  <2>1. client'[c].pc = purpose /\ client'[c].queried = (client[c].queried \/ purpose = "query")
    BY <1>5
  <2>2. QED
    BY <2>1, Zenon
<1>6. ClientInv'
  <2>1. client'[c] \in [pc: {"idle", "query", "connect", "sockets", "terminated"},
                        queried: BOOLEAN]
    BY <1>4, <1>5
  <2>2. DOMAIN client' = Clients /\ client' = [d \in Clients |-> client'[d]]
    BY <1>1, <1>4
  <2>3. QED
    BY <1>4, <1>5, <2>1, <2>2 DEF ClientInv
<1>7. ~ Asked(new)
  BY <1>1 DEF Asked
<1>8. AskedNow(new)
  <2>1. new[1] = c /\ new[2] = purpose
    OBVIOUS
  <2>2. CASE purpose = "query"
    BY <1>now, <2>1, <2>2
  <2>3. CASE purpose = "connect"
    BY <1>now, <2>1, <2>3
  <2>4. QED
    BY <2>2, <2>3
<1>9. ASSUME NEW con \in Connections, Asked(con)
      PROVE  AskedNow(con)
  <2>1. con[1] \in Clients /\ con[2] \in {"query", "connect"}
    BY DEF Connections
  <2>2. CASE con[1] = c
    BY <1>1, <1>now, <1>9, <2>1, <2>2 DEF Asked
  <2>3. CASE con[1] # c
    BY <1>5, <1>9, <2>1, <2>3 DEF Asked
  <2>4. QED
    BY <2>2, <2>3
<1>10. new \in Connections
  BY DEF Connections
<1> HIDE DEF new, AskedNow
<1>11. /\ IsSeq(backlog) /\ IsSeq(backlog') /\ Len(backlog') = Len(backlog) + 1
       /\ Len(backlog) \in Nat
       /\ \A k \in 1 .. Len(backlog) : backlog'[k] = backlog[k]
       /\ backlog'[Len(backlog) + 1] = new
  BY <1>1, AppendSeq DEF DiscoveryInv, QueueInv, IsSeq, new
<1>12. /\ \A i \in 1 .. Len(backlog) :
            /\ backlog[i] \in Connections /\ backlog[i] \notin requester \cup closed
            /\ Asked(backlog[i])
       /\ \A i, j \in 1 .. Len(backlog) : backlog[i] = backlog[j] => i = j
       /\ \A con \in requester \cup closed : con \in Connections /\ Asked(con)
  BY DEF DiscoveryInv, QueueInv
<1>13. \A k \in 1 .. Len(backlog') : k \in 1 .. Len(backlog) \/ k = Len(backlog) + 1
  BY <1>11
<1>14. QueueInv'
  <2>1. \A i \in 1 .. Len(backlog') :
          /\ backlog'[i] \in Connections /\ AskedNow(backlog'[i])
          /\ backlog'[i] \notin requester \cup closed
    BY <1>7, <1>8, <1>9, <1>10, <1>11, <1>12, <1>13
  <2>2. ASSUME NEW i \in 1 .. Len(backlog'), NEW j \in 1 .. Len(backlog'),
               backlog'[i] = backlog'[j]
        PROVE  i = j
    <3>1. \A k \in 1 .. Len(backlog) : backlog'[k] # new
      BY <1>7, <1>11, <1>12
    <3>2. QED
      BY <1>11, <1>12, <1>13, <2>2, <3>1
  <2>3. \A con \in requester \cup closed : AskedNow(con)
    BY <1>9, <1>12
  <2>4. QED
    BY <1>1, <1>11, <2>1, <2>2, <2>3 DEF DiscoveryInv, QueueInv, Asked, AskedNow
<1>15. StreamInv'
  BY <1>1, <1>3 DEF DiscoveryInv, StreamInv
<1>16. QED
  BY <1>2, <1>6, <1>14, <1>15 DEF DiscoveryInv

\* A client goes on, and what it has asked for stays asked for.
LEMMA ClientMoves ==
  ASSUME DiscoveryInv, NEW c \in Clients, NEW label, Goto(c, label),
         UNCHANGED <<gatherVars, infoPort, infoThreadVars, got>>,
         label \in {"idle", "sockets", "terminated"},
         label = "idle" => client[c].pc \in {"idle", "query"}
  PROVE  DiscoveryInv'
<1>1. /\ client' = [client EXCEPT ![c].pc = label]
      /\ UNCHANGED <<gatherVars, infoPort>>
      /\ infoPort' = infoPort /\ config' = config /\ serviceInfo' = serviceInfo
      /\ backlog' = backlog /\ requester' = requester /\ written' = written
      /\ stream' = stream /\ closed' = closed /\ got' = got
  BY DEF Goto, gatherVars, infoThreadVars
<1>2. InfoInv' /\ RankInv' /\ PortInv' /\ GatherInv'
  BY <1>1, RanksLeftAlone
<1>3. NumNodes' = NumNodes /\ \A con : NumPassed(con)' = NumPassed(con)
  BY <1>1 DEF NumNodes, NumPassed
<1>4. /\ client \in [Clients -> [pc: {"idle", "query", "connect", "sockets", "terminated"},
                                 queried: BOOLEAN]]
      /\ client[c] \in [pc: {"idle", "query", "connect", "sockets", "terminated"},
                        queried: BOOLEAN]
  BY DEF DiscoveryInv, ClientInv
<1>5. /\ \A d \in Clients \ {c} : client'[d] = client[d]
      /\ client'[c] = [pc |-> label, queried |-> client[c].queried]
  BY <1>1, <1>4
<1>6. ClientInv'
  <2>1. client'[c] \in [pc: {"idle", "query", "connect", "sockets", "terminated"},
                        queried: BOOLEAN]
    BY <1>4, <1>5
  <2>2. DOMAIN client' = Clients /\ client' = [d \in Clients |-> client'[d]]
    BY <1>1, <1>4
  <2>3. QED
    BY <1>4, <1>5, <2>1, <2>2 DEF ClientInv
<1>7. ASSUME NEW con \in Connections, Asked(con)
      PROVE  Asked(con)'
  <2>1. con[1] \in Clients /\ con[2] \in {"query", "connect"}
    BY DEF Connections
  <2>2. CASE con[1] = c
    BY <1>5, <1>7, <2>1, <2>2 DEF Asked
  <2>3. CASE con[1] # c
    BY <1>5, <1>7, <2>1, <2>3 DEF Asked
  <2>4. QED
    BY <2>2, <2>3
<1>8. QueueInv'
  BY <1>1, <1>7 DEF DiscoveryInv, QueueInv
<1>9. StreamInv'
  BY <1>1, <1>3 DEF DiscoveryInv, StreamInv
<1>10. QED
  BY <1>2, <1>6, <1>8, <1>9 DEF DiscoveryInv

\* What waits for a client's next value is a connection's purpose.
LEMMA PurposeOf ==
  ASSUME NEW c \in Clients, <<c, client[c].pc>> \in Connections
  PROVE  client[c].pc \in {"query", "connect"}
BY DEF Connections

LEMMA ReturnStep ==
  ASSUME DiscoveryInv, NEW c \in Clients, Return(c)
  PROVE  DiscoveryInv'
<1>1. client[c].pc \in {"query", "connect"}
  BY PurposeOf DEF Return
<1>2. QED
  BY <1>1, ClientMoves DEF Return

LEMMA DisconnectStep ==
  ASSUME DiscoveryInv, NEW c \in Clients, Disconnect(c)
  PROVE  DiscoveryInv'
<1>1. client[c].pc \in {"query", "connect"}
  BY PurposeOf DEF Disconnect
<1>2. QED
  BY <1>1, ClientMoves DEF Disconnect

LEMMA RefusedStep ==
  ASSUME DiscoveryInv, NEW c \in Clients, Refused(c)
  PROVE  DiscoveryInv'
BY ClientMoves DEF Refused

\* A client reads the next value: it is the next field of the service info.
LEMMA ReadFieldStep ==
  ASSUME DiscoveryInv, NEW c \in Clients, ReadField(c)
  PROVE  DiscoveryInv'
<1>1. PICK con \in Connections :
        /\ stream[con] # <<>>
        /\ got' = [got EXCEPT ![con] = Append(@, Head(stream[con]))]
        /\ stream' = [stream EXCEPT ![con] = Tail(@)]
  BY DEF ReadField
<1>2. /\ UNCHANGED <<gatherVars, infoPort>>
      /\ infoPort' = infoPort /\ config' = config /\ serviceInfo' = serviceInfo
      /\ backlog' = backlog /\ requester' = requester /\ written' = written
      /\ closed' = closed /\ client' = client
  BY DEF ReadField, gatherVars
<1>3. InfoInv' /\ RankInv' /\ PortInv' /\ GatherInv'
  BY <1>2, RanksLeftAlone
<1>4. NumNodes' = NumNodes /\ \A d : Asked(d)' = Asked(d)
  BY <1>2 DEF NumNodes, Asked
<1>5. QueueInv' /\ ClientInv'
  BY <1>2, <1>4 DEF DiscoveryInv, QueueInv, ClientInv
<1>6. /\ IsSeq(got[con]) /\ IsSeq(stream[con])
      /\ DOMAIN got = Connections /\ DOMAIN stream = Connections
      /\ \A k \in 1 .. Len(got[con]) : got[con][k] = Field(serviceInfo, k)
      /\ \A k \in 1 .. Len(stream[con]) : stream[con][k] = Field(serviceInfo, Len(got[con]) + k)
  BY DEF DiscoveryInv, StreamInv
<1>7. /\ got'[con] = Append(got[con], Head(stream[con])) /\ stream'[con] = Tail(stream[con])
      /\ DOMAIN got' = Connections /\ DOMAIN stream' = Connections
      /\ \A d \in Connections \ {con} : got'[d] = got[d] /\ stream'[d] = stream[d]
  BY <1>1, <1>6
<1>8. PICK m, n : m = Len(got[con]) /\ n = Len(stream[con])
  OBVIOUS
<1>9. m \in Nat /\ n \in Nat \ {0} /\ Head(stream[con]) = stream[con][1]
  BY <1>1, <1>6, <1>8, TailSeq DEF IsSeq
<1>10. /\ IsSeq(got'[con]) /\ Len(got'[con]) = m + 1
       /\ \A k \in 1 .. m : got'[con][k] = got[con][k]
       /\ got'[con][m + 1] = stream[con][1]
  BY <1>6, <1>7, <1>8, <1>9, AppendSeq
<1>11. /\ IsSeq(stream'[con]) /\ Len(stream'[con]) = n - 1
       /\ \A k \in 1 .. n - 1 : stream'[con][k] = stream[con][k + 1]
  BY <1>1, <1>6, <1>7, <1>8, TailSeq
<1>12. NumPassed(con)' = NumPassed(con)
  <2>1. NumPassed(con) = m + n /\ NumPassed(con)' = (m + 1) + (n - 1)
    BY <1>8, <1>10, <1>11 DEF NumPassed
  <2>2. QED
    BY <1>9, <2>1
<1>13. \A d \in Connections : NumPassed(d)' = NumPassed(d)
  BY <1>7, <1>12 DEF NumPassed
<1>14. \A k \in 1 .. m + 1 : got'[con][k] = Field(serviceInfo, k)
  <2>1. stream[con][1] = Field(serviceInfo, m + 1)
    BY <1>6, <1>8, <1>9
  <2>2. \A k \in 1 .. m : got'[con][k] = Field(serviceInfo, k)
    BY <1>6, <1>8, <1>10
  <2>3. \A k \in 1 .. m + 1 : k \in 1 .. m \/ k = m + 1
    BY <1>9
  <2>4. QED
    BY <1>10, <2>1, <2>2, <2>3
<1>15. \A k \in 1 .. n - 1 : stream'[con][k] = Field(serviceInfo, m + 1 + k)
  <2>1. ASSUME NEW k \in 1 .. n - 1
        PROVE  stream'[con][k] = Field(serviceInfo, m + 1 + k)
    <3>1. k + 1 \in 1 .. n /\ m + (k + 1) = m + 1 + k
      BY <1>9
    <3>2. stream[con][k + 1] = Field(serviceInfo, m + (k + 1))
      BY <1>6, <1>8, <3>1
    <3>3. QED
      BY <1>11, <3>1, <3>2
  <2>2. QED
    BY <2>1
<1>16. ASSUME NEW d \in Connections
       PROVE  /\ IsSeq(got'[d]) /\ IsSeq(stream'[d])
              /\ \A k \in 1 .. Len(got'[d]) : got'[d][k] = Field(serviceInfo, k)
              /\ \A k \in 1 .. Len(stream'[d]) :
                   stream'[d][k] = Field(serviceInfo, Len(got'[d]) + k)
  <2>1. CASE d = con
    BY <1>10, <1>11, <1>14, <1>15, <2>1
  <2>2. CASE d # con
    <3>1. got'[d] = got[d] /\ stream'[d] = stream[d]
      BY <1>7, <2>2
    <3>2. /\ IsSeq(got[d]) /\ IsSeq(stream[d])
          /\ \A k \in 1 .. Len(got[d]) : got[d][k] = Field(serviceInfo, k)
          /\ \A k \in 1 .. Len(stream[d]) :
               stream[d][k] = Field(serviceInfo, Len(got[d]) + k)
      BY DEF DiscoveryInv, StreamInv
    <3>3. QED
      BY <3>1, <3>2
  <2>3. QED
    BY <2>1, <2>2
<1>17. StreamInv'
  BY <1>2, <1>4, <1>7, <1>13, <1>16 DEF DiscoveryInv, StreamInv
<1>18. QED
  BY <1>3, <1>5, <1>17 DEF DiscoveryInv
LEMMA StutterStep ==
  ASSUME DiscoveryInv, UNCHANGED discoveryVars
  PROVE  DiscoveryInv'
<1>1. UNCHANGED <<gatherVars, infoPort>> /\ infoPort' = infoPort /\ config' = config
      /\ UNCHANGED <<infoThreadVars, clientVars>> /\ serviceInfo' = serviceInfo
  BY DEF discoveryVars, gatherVars, infoThreadVars, clientVars
<1>2. QED
  BY <1>1, RanksLeftAlone, ConnectionsLeftAlone DEF DiscoveryInv

-----------------------------------------------------------------------------
(* The invariant, and what it says to whoever asks.                        *)

LEMMA NextIInv == DiscoveryInv /\ [DiscoveryNext]_discoveryVars => DiscoveryInv'
<1> SUFFICES ASSUME DiscoveryInv, [DiscoveryNext]_discoveryVars PROVE DiscoveryInv'
  OBVIOUS
<1>1. ASSUME NEW r \in ranks, RankStep(r) PROVE DiscoveryInv'
  BY <1>1, CreateSocketsStep, WriteNodeStep DEF RankStep
<1>2. CASE RankZero
  BY <1>2, LeaveBarrierStep, AddMyselfStep, GatherStep, OpenInfoServerStep DEF RankZero
<1>3. CASE InfoThread
  BY <1>3, AcceptRequestStep, WriteFieldStep, CloseRequestStep DEF InfoThread
<1>4. CASE ServiceEnds
  BY <1>4, ServiceEndsStep
<1>5. ASSUME NEW c \in Clients, ClientStep(c) PROVE DiscoveryInv'
  BY <1>5, ReadFieldStep, ReturnStep, DisconnectStep DEF ClientStep
<1>6. ASSUME NEW c \in Clients, Refused(c) PROVE DiscoveryInv'
  BY <1>6, RefusedStep
<1>7. ASSUME NEW c \in Clients, NEW purpose \in {"query", "connect"}, Connect(c, purpose)
      PROVE  DiscoveryInv'
  BY <1>7, ConnectStep
<1>8. CASE UNCHANGED discoveryVars
  BY <1>8, StutterStep
<1>9. QED
  BY <1>1, <1>2, <1>3, <1>4, <1>5, <1>6, <1>7, <1>8 DEF DiscoveryNext

\* Every value that a rank sends reaches the service info in its place, and
\* every value of the service info reaches whoever asks in its place
\* (Server.cpp createServiceInfo(), ServiceInfo.cpp writeTo(), getInfo()).
THEOREM DiscoveryInvariant == DiscoverySpec => []DiscoveryInv
BY InitIInv, NextIInv, PTL DEF DiscoverySpec

LEMMA IInvTypeOK == DiscoveryInv => DiscoveryTypeOK
<1> SUFFICES ASSUME DiscoveryInv PROVE DiscoveryTypeOK
  OBVIOUS
<1>1. /\ NumDisplays \in Nat \ {0} /\ NumNodes \in Nat \ {0} /\ NumNodes <= NumDisplays
      /\ 0 \in ranks /\ NumAdded \in Nat
  BY RanksFacts DEF DiscoveryInv
<1>2. /\ config \in [useHeadNode: BOOLEAN, hasControlWindow: BOOLEAN, doStereo: BOOLEAN]
      /\ rank \in [ranks -> {"create", "barrier", "gather", "host", "port", "region",
                             "bind", "running", "ended"}]
      /\ NumAdded <= NumNodes /\ Len(reading) < 3
      /\ infoPort \in {"unbound", "open", "gone"}
  BY DEF DiscoveryInv, InfoInv, RankInv, PortInv, GatherInv
<1>3. ASSUME NEW r \in ranks PROVE Len(channel[r]) <= 3
  <2>1. CASE r = 0
    BY <2>1, NothingIsSeq DEF DiscoveryInv, GatherInv
  <2>2. CASE r # 0
    <3>1. PICK n : n = Len(channel[r])
      OBVIOUS
    <3>2. n \in Nat /\ NumSent(r) = NumTaken(r) + n
      BY <2>2, <3>1 DEF DiscoveryInv, GatherInv, IsSeq
    <3>3. NumSent(r) \in 0 .. 3
      BY DEF NumSent
    <3>4. NumTaken(r) \in Nat
      BY DEF NumTaken, DiscoveryInv, GatherInv, IsSeq
    <3>5. n <= 3
      BY <3>2, <3>3, <3>4
    <3>6. QED
      BY <3>1, <3>5
  <2>3. QED
    BY <2>1, <2>2
<1>4. Len(serviceInfo.nodes) <= NumDisplays
  BY <1>1, <1>2 DEF NumAdded
<1>5. /\ \A i \in 1 .. Len(backlog) : backlog[i] \in Connections
      /\ requester \subseteq Connections /\ \A a, b \in requester : a = b
      /\ closed \subseteq Connections
  BY DEF DiscoveryInv, QueueInv
<1>6. Cardinality(requester) <= 1
  <2>1. CASE requester = {}
    BY <2>1, FS_EmptySet
  <2>2. ASSUME NEW a \in requester PROVE Cardinality(requester) <= 1
    <3>1. requester = {a}
      BY <1>5
    <3>2. Cardinality({a}) = 1
      BY FS_Singleton
    <3>3. QED
      BY <3>1, <3>2
  <2>3. QED
    BY <2>1, <2>2
<1>7. NumFields(NumNodes) \in Nat /\ NumFields(NumDisplays) \in Nat
      /\ NumFields(NumNodes) <= NumFields(NumDisplays)
  BY <1>1 DEF NumFields, HeaderLength
<1>8. written \in 0 .. NumFields(NumDisplays)
  BY <1>7 DEF DiscoveryInv, StreamInv
<1>9. ASSUME NEW con \in Connections
      PROVE  Len(got[con]) + Len(stream[con]) <= NumFields(NumDisplays)
  <2>1. PICK m, n : m = Len(got[con]) /\ n = Len(stream[con])
    OBVIOUS
  <2>2. m \in Nat /\ n \in Nat /\ m + n <= NumFields(NumNodes)
    BY <2>1 DEF DiscoveryInv, StreamInv, NumPassed, IsSeq
  <2>3. m + n <= NumFields(NumDisplays)
    BY <1>7, <2>2
  <2>4. QED
    BY <2>1, <2>3
<1>10. client \in [Clients -> [pc: {"idle", "query", "connect", "sockets", "terminated"},
                               queried: BOOLEAN]]
  BY DEF DiscoveryInv, ClientInv
<1>11. QED
  BY <1>2, <1>3, <1>4, <1>5, <1>6, <1>8, <1>9, <1>10 DEF DiscoveryTypeOK

\* The types: no rank has more than three values under way, and no connection
\* more than a service info.
THEOREM DiscoveryTypeCorrect == DiscoverySpec => []DiscoveryTypeOK
BY DiscoveryInvariant, IInvTypeOK, PTL

\* To whom anything was written, to him the complete service info is written.
LEMMA WrittenIsComplete ==
  ASSUME DiscoveryInv, NEW con \in Connections, NumPassed(con) # 0
  PROVE  NumAdded = NumNodes
<1>1. NumFields(NumNodes) \in Nat
  BY RanksFacts, NumFieldsFacts DEF DiscoveryInv
<1>2. con \in requester \cup closed
  BY DEF DiscoveryInv, StreamInv
<1>3. infoPort # "unbound"
  BY <1>2 DEF DiscoveryInv, QueueInv
<1>4. rank[0] \in {"running", "ended"}
  BY <1>3 DEF DiscoveryInv, PortInv
<1>5. QED
  BY <1>4 DEF DiscoveryInv, RankInv

\* A client has all, exactly when it has as many values as the service info.
LEMMA AllIsEverything ==
  ASSUME DiscoveryInv, NEW con \in Connections
  PROVE  /\ HasAll(got[con]) => /\ NumAdded = NumNodes
                                /\ Len(got[con]) = NumFields(NumNodes)
         /\ NumAdded = NumNodes /\ Len(got[con]) = NumFields(NumNodes) => HasAll(got[con])
<1>1. PICK m, n : m = Len(got[con]) /\ n = Len(stream[con])
  OBVIOUS
<1>2. m \in Nat /\ n \in Nat /\ \A k \in 1 .. m : got[con][k] = Field(serviceInfo, k)
  BY <1>1 DEF DiscoveryInv, StreamInv, IsSeq
<1>3. NumAdded \in Nat /\ Field(serviceInfo, 7) = NumAdded
  BY RanksFacts, FieldFacts DEF DiscoveryInv, NumAdded
<1>4. ASSUME m >= HeaderLength PROVE got[con][HeaderLength] = NumAdded
  BY <1>2, <1>3, <1>4 DEF HeaderLength
<1>5. ASSUME m >= HeaderLength PROVE NumWanted(got[con]) = NumFields(NumAdded)
  BY <1>1, <1>2, <1>4, <1>5 DEF NumWanted, HeaderLength
<1>6. ASSUME HasAll(got[con])
      PROVE  NumAdded = NumNodes /\ Len(got[con]) = NumFields(NumNodes)
  <2>1. m >= HeaderLength /\ m = NumFields(NumAdded)
    BY <1>1, <1>5, <1>6 DEF HasAll
  <2>2. m + n # 0
    BY <1>2, <2>1 DEF HeaderLength
  <2>3. NumAdded = NumNodes
    BY <1>1, <2>2, WrittenIsComplete DEF NumPassed
  <2>4. QED
    BY <1>1, <2>1, <2>3
<1>7. ASSUME NumAdded = NumNodes, Len(got[con]) = NumFields(NumNodes)
      PROVE  HasAll(got[con])
  <2>1. m >= HeaderLength
    BY <1>1, <1>3, <1>7, NumFieldsFacts
  <2>2. QED
    BY <1>1, <1>5, <1>7, <2>1 DEF HasAll
<1>8. QED
  BY <1>6, <1>7

LEMMA RegionsCounted ==
  ASSUME InfoInv
  PROVE  Cardinality(DOMAIN RegionOfNode(config.useHeadNode)) = NumNodes
<1>1. CASE config.useHeadNode
  <2>1. DOMAIN RegionOfNode(config.useHeadNode) = {0}
    BY <1>1 DEF RegionOfNode
  <2>2. QED
    BY <1>1, <2>1, FS_Singleton DEF NumNodes
<1>2. CASE ~ config.useHeadNode
  <2>1. DOMAIN RegionOfNode(config.useHeadNode) = 0 .. NumDisplays - 1
    BY <1>2 DEF RegionOfNode, Displays
  <2>2. NumDisplays \in Nat \ {0}
    BY RanksFacts
  <2>3. Cardinality(0 .. NumDisplays - 1) = NumDisplays
    BY <2>2, FS_Interval
  <2>4. QED
    BY <1>2, <2>1, <2>3 DEF NumNodes
<1>3. QED
  BY <1>1, <1>2

LEMMA IInvClientsFind == DiscoveryInv => ClientsFindTheService
<1> SUFFICES ASSUME DiscoveryInv PROVE ClientsFindTheService
  OBVIOUS
<1>1. NumNodes \in Nat \ {0}
  BY RanksFacts DEF DiscoveryInv
<1>2. ASSUME NEW con \in Connections, HasAll(got[con])
      PROVE  LET info == InfoFrom(got[con])
                 region == RegionOfNode(config.useHeadNode)
             IN  /\ info.magic = Magic
                 /\ info.totalPixelsInWall = totalPixelsInWall
                 /\ info.numDisplays = numDisplays
                 /\ info.controlWindowSize =
                      IF config.hasControlWindow THEN controlWindowSize ELSE Vec(0, 0)
                 /\ Len(info.nodes) = Cardinality(DOMAIN region)
                 /\ \A i \in 1 .. Len(info.nodes) :
                      info.nodes[i] = [hostName |-> HostOf[i - 1], port |-> PortOf[i - 1],
                                       region |-> region[i - 1]]
  <2> DEFINE values == got[con]
             info == InfoFrom(values)
  <2>1. NumAdded = NumNodes /\ Len(values) = NumFields(NumNodes)
    BY <1>2, AllIsEverything
  <2>2. \A k \in 1 .. NumFields(NumNodes) : values[k] = Field(serviceInfo, k)
    BY <2>1 DEF DiscoveryInv, StreamInv
  <2> HIDE DEF values
  <2>3. /\ Field(serviceInfo, 1) = serviceInfo.magic
        /\ Field(serviceInfo, 2) = serviceInfo.totalPixelsInWall
        /\ Field(serviceInfo, 3) = serviceInfo.numDisplays
        /\ Field(serviceInfo, 6) = serviceInfo.controlWindowSize
        /\ Field(serviceInfo, 7) = NumNodes
        /\ \A i \in 1 .. NumNodes :
             /\ Field(serviceInfo, HeaderLength + 3 * (i - 1) + 1) = Node(i - 1).hostName
             /\ Field(serviceInfo, HeaderLength + 3 * (i - 1) + 2) = Node(i - 1).port
             /\ Field(serviceInfo, HeaderLength + 3 * (i - 1) + 3) = Node(i - 1).region
    <3>1. Len(serviceInfo.nodes) = NumNodes
      BY <2>1 DEF NumAdded
    <3>2. \A i \in 1 .. NumNodes : serviceInfo.nodes[i] = Node(i - 1)
      BY <2>1 DEF DiscoveryInv, InfoInv
    <3>3. QED
      BY <1>1, <3>1, <3>2, FieldFacts
  <2>4. /\ serviceInfo.magic = Magic
        /\ serviceInfo.totalPixelsInWall = totalPixelsInWall
        /\ serviceInfo.numDisplays = numDisplays
        /\ serviceInfo.controlWindowSize =
             IF config.hasControlWindow THEN controlWindowSize ELSE Vec(0, 0)
    <3>1. serviceInfo = [NewServiceInfo(config, serviceInfo.hasControlWindow)
                           EXCEPT !.nodes = serviceInfo.nodes]
      BY DEF DiscoveryInv, InfoInv
    <3>2. QED
      BY <3>1 DEF NewServiceInfo
  <2>5. /\ 1 \in 1 .. NumFields(NumNodes) /\ 2 \in 1 .. NumFields(NumNodes)
        /\ 3 \in 1 .. NumFields(NumNodes) /\ 6 \in 1 .. NumFields(NumNodes)
        /\ 7 \in 1 .. NumFields(NumNodes)
        /\ \A i \in 1 .. NumNodes :
             /\ HeaderLength + 3 * (i - 1) + 1 \in 1 .. NumFields(NumNodes)
             /\ HeaderLength + 3 * (i - 1) + 2 \in 1 .. NumFields(NumNodes)
             /\ HeaderLength + 3 * (i - 1) + 3 \in 1 .. NumFields(NumNodes)
    BY <1>1 DEF NumFields, HeaderLength
  <2>6. /\ values[1] = Magic /\ values[2] = totalPixelsInWall /\ values[3] = numDisplays
        /\ values[6] = IF config.hasControlWindow THEN controlWindowSize ELSE Vec(0, 0)
        /\ values[HeaderLength] = NumNodes
    BY <2>2, <2>3, <2>4, <2>5 DEF HeaderLength
  <2>7. /\ info.magic = Magic /\ info.totalPixelsInWall = totalPixelsInWall
        /\ info.numDisplays = numDisplays
        /\ info.controlWindowSize =
             IF config.hasControlWindow THEN controlWindowSize ELSE Vec(0, 0)
    BY <2>6 DEF InfoFrom
  <2>8. info.nodes = [i \in 1 .. NumNodes |->
                        LET first == HeaderLength + 3 * (i - 1) + 1
                        IN  [hostName |-> values[first], port |-> values[first + 1],
                             region |-> values[first + 2]]]
    BY <2>6 DEF InfoFrom
  <2>9. Len(info.nodes) = NumNodes
    BY <1>1, <2>8
  <2>10. ASSUME NEW i \in 1 .. NumNodes
         PROVE  info.nodes[i] = [hostName |-> HostOf[i - 1], port |-> PortOf[i - 1],
                                 region |-> RegionOfNode(config.useHeadNode)[i - 1]]
    <3> DEFINE first == HeaderLength + 3 * (i - 1) + 1
    <3>1. /\ first + 1 = HeaderLength + 3 * (i - 1) + 2
          /\ first + 2 = HeaderLength + 3 * (i - 1) + 3
      BY <1>1 DEF HeaderLength
    <3>2. /\ values[first] = Node(i - 1).hostName /\ values[first + 1] = Node(i - 1).port
          /\ values[first + 2] = Node(i - 1).region
      BY <2>2, <2>3, <2>5, <3>1
    <3>3. info.nodes[i] = [hostName |-> values[first], port |-> values[first + 1],
                           region |-> values[first + 2]]
      BY <2>8
    <3>4. QED
      BY <3>2, <3>3 DEF Node
  <2>11. Cardinality(DOMAIN RegionOfNode(config.useHeadNode)) = NumNodes
    BY RegionsCounted DEF DiscoveryInv
  <2>12. QED
    BY <2>7, <2>9, <2>10, <2>11 DEF values
<1>3. ClientKnowsTheService
  BY <1>2 DEF ClientKnowsTheService
<1>4. PortsOpenBeforeInfo
  BY OpenFacts DEF PortsOpenBeforeInfo, DiscoveryInv, RankInv
<1>5. QED
  BY <1>3, <1>4 DEF ClientsFindTheService

\* Whoever asks learns the wall as it was configured and where each rank of
\* the service really is, when it can be reached there (ServiceInfo.cpp
\* writeTo() and getInfo(), Server.cpp createServiceInfo()).
THEOREM ServiceIsFound == DiscoverySpec => []ClientsFindTheService
BY DiscoveryInvariant, IInvClientsFind, PTL

LEMMA OpenDoesNotDisconnect ==
  ASSUME DiscoveryInv, NEW c \in Clients, Disconnect(c)
  PROVE  infoPort = "gone"
<1> DEFINE con == <<c, client[c].pc>>
<1>1. con \in Connections /\ ~ HasAll(got[con]) /\ stream[con] = <<>> /\ con \in closed
  BY DEF Disconnect
<1> HIDE DEF con
<1>2. infoPort # "unbound" /\ infoPort \in {"unbound", "open", "gone"}
  BY <1>1 DEF DiscoveryInv, QueueInv, PortInv
<1>3. ASSUME infoPort = "open" PROVE FALSE
  <2>1. NumAdded = NumNodes
    BY <1>3, OpenFacts
  <2>2. NumPassed(con) = NumFields(NumNodes)
    BY <1>1, <1>3 DEF DiscoveryInv, StreamInv
  <2>3. PICK m : m = Len(got[con])
    OBVIOUS
  <2>4. m \in Nat /\ NumPassed(con) = m + 0
    BY <1>1, <2>3, NothingIsSeq DEF DiscoveryInv, StreamInv, IsSeq, NumPassed
  <2>5. Len(got[con]) = NumFields(NumNodes)
    BY <2>2, <2>3, <2>4
  <2>6. QED
    BY <1>1, <2>1, <2>5, AllIsEverything
<1>4. QED
  BY <1>2, <1>3

\* As long as the service runs, nobody who has reached its info port is cut
\* off before the last value (InfoServer.cpp:50-56, Socket.cpp read_some()).
THEOREM NoneIsCutOff == DiscoverySpec => OnlyAnEndDisconnects
<1>1. DiscoveryInv /\ [DiscoveryNext]_discoveryVars =>
        [\A c \in Clients : Disconnect(c) => infoPort = "gone"]_discoveryVars
  BY OpenDoesNotDisconnect
<1>2. QED
  BY <1>1, DiscoveryInvariant, PTL DEF DiscoverySpec, OnlyAnEndDisconnects
=============================================================================
