------------------------------ MODULE TilePath ------------------------------
(***************************************************************************)
(* The way of one frame's pixels: from dw2_send_rgba() in the renderer,    *)
(* through the queue of the compressor threads, to the ranks whose region  *)
(* in the service info the tile overlaps; with a head node, through its    *)
(* dispatcher to the ranks that the tile overlaps; and through the frame   *)
(* assembler of a rank into its frame buffer.                              *)
(*                                                                         *)
(* Order and threads are the matter of the other modules: here a step is   *)
(* what is done with one tile, and any tile may be next.  The value of a   *)
(* pixel is the place on the wall that it was rendered for.                *)
(***************************************************************************)
EXTENDS WallGeometry, FiniteSets

CONSTANTS Tilings,    \* the ways in which the renderer may tile the wall
          MaxSlack    \* bound: the pitch of its arrays exceeds a row by this

ASSUME TilingAssumption == \A partition \in Tilings : Tiles(partition)
ASSUME SlackAssumption == MaxSlack \in Nat

Blank == Vec(-1, -1)

VARIABLES useHeadNode,   \* Config::useHeadNode; never changes
          tiling,        \* the tiles of the frame; never changes
          toRender,      \* the tiles not given to dw2_send_rgba() yet
          tilesToSend,   \* Client::tilesToSend: PlainTiles
          wire,          \* messages under way or in an inbox, to a rank each
          frame          \* the FrameToBe of each rank that has a display

vars == <<useHeadNode, tiling, toRender, tilesToSend, wire, frame>>
setting == <<useHeadNode, tiling>>

Assemblers == {r \in Ranks(useHeadNode) : Assembles(r, useHeadNode)}
MyRegion(r) == RegionOfRank(r, useHeadNode)
NumPixelsExpected(r) == Area(MyRegion(r))
Complete(r) == frame[r].numPixelsCompleted = NumPixelsExpected(r)

\* FrameToBe's constructor.
NewFrame(box) == [pixels |-> [ofs \in 0 .. Area(box) - 1 |-> Blank],
                  numPixelsCompleted |-> 0]

Init ==
  /\ useHeadNode \in BOOLEAN
  /\ tiling \in Tilings
  /\ toRender = tiling
  /\ tilesToSend = {}
  /\ wire = {}
  /\ frame = [r \in Assemblers |-> NewFrame(MyRegion(r))]

-----------------------------------------------------------------------------
(* Slips one could make in the operators below; no specification uses      *)
(* them.                                                                   *)

\* The pitch is ignored.
PackedTight(region, pixel, pitch) ==
  [region |-> region,
   pixels |-> [out \in 0 .. Area(region) - 1 |-> pixel[out]]]

\* A tile counts with all its pixels, those outside of the region too.
NumWrittenOfTile(tile, region) == Area(tile.region)

-----------------------------------------------------------------------------
\* What the renderer passes to dw2_send_rgba(): rows that are pitch long, of
\* which a tile uses the beginning.
Rendered(region, pitch) ==
  [i \in 0 .. pitch * Size(region).y - 1 |->
     IF i % pitch < Size(region).x
     THEN Plus(region.lower, Vec(i % pitch, i \div pitch))
     ELSE Blank]

\* dw2_send_rgba() packs the rows into a PlainTile.
Packed(region, pixel, pitch) ==
  [region |-> region,
   pixels |-> [out \in 0 .. Area(region) - 1 |->
                 pixel[(out \div Size(region).x) * pitch + (out % Size(region).x)]]]

\* A message has the tile's region in its header, and as many pixels behind it
\* as the region says; the decoder allocates as many (plain coding; a JPEG has
\* pixels of about the same value).
Encode(tile) ==
  [region |-> tile.region,
   payload |-> [i \in 0 .. Area(tile.region) - 1 |-> tile.pixels[i]]]
Decode(message) ==
  [region |-> message.region,
   pixels |-> [i \in 0 .. Area(message.region) - 1 |-> message.payload[i]]]

\* What the assembler of a region copies of a tile: new values by local offset.
Common(tile, region) == Pixels(tile.region) \cap Pixels(region)
Copied(tile, region) ==
  [ofs \in {OffsetIn(region, p) : p \in Common(tile, region)} |->
     LET p == CHOOSE p \in Common(tile, region) : OffsetIn(region, p) = ofs
     IN  tile.pixels[OffsetIn(tile.region, p)]]
NumWritten(tile, region) == Cardinality(Common(tile, region))

\* An array after some of its places were written.
Overwritten(array, new) ==
  [ofs \in DOMAIN array \cup DOMAIN new |->
     IF ofs \in DOMAIN new THEN new[ofs] ELSE array[ofs]]

\* To one message for each of the ranks.
SendTo(ranks, message) == [to: ranks, message: {message}]

-----------------------------------------------------------------------------
(* A slip one could make in the action of the same name below; no          *)
(* specification uses it.                                                  *)

\* The dispatcher goes by the regions of the displays, not of the ranks.
DispatchByDisplay ==
  /\ useHeadNode
  /\ \E m \in wire :
       /\ m.to = 0
       /\ LET ranks == {r \in Displays : Overlaps(m.message.region, RegionOfDisplay(r))}
          IN  wire' = (wire \ {m}) \cup SendTo(ranks, m.message)
  /\ UNCHANGED <<setting, toRender, tilesToSend, frame>>

-----------------------------------------------------------------------------
\* dw2_send_rgba().
SendRGBA ==
  /\ \E region \in toRender : \E slack \in 0 .. MaxSlack :
       LET pitch == Size(region).x + slack
           tile == Packed(region, Rendered(region, pitch), pitch)
       IN  /\ toRender' = toRender \ {region}
           /\ tilesToSend' = tilesToSend \cup {tile}
  /\ UNCHANGED <<setting, wire, frame>>

\* A compressor thread takes a tile and sends it to every node of the service
\* info that needs it.
Compress ==
  /\ \E tile \in tilesToSend :
       LET nodes == RegionOfNode(useHeadNode)
           toRanks == {r \in DOMAIN nodes : Overlaps(nodes[r], tile.region)}
       IN  /\ tilesToSend' = tilesToSend \ {tile}
           /\ wire' = wire \cup SendTo(toRanks, Encode(tile))
  /\ UNCHANGED <<setting, toRender, frame>>

\* The head node's dispatcher passes a tile on.
Dispatch ==
  /\ useHeadNode
  /\ \E m \in wire :
       /\ m.to = 0
       /\ LET ranks == {r \in Ranks(useHeadNode) :
                          Overlaps(m.message.region, RegionOfRank(r, useHeadNode))}
          IN  wire' = (wire \ {m}) \cup SendTo(ranks, m.message)
  /\ UNCHANGED <<setting, toRender, tilesToSend, frame>>

\* An assembler thread decodes a tile, copies what lies in its region, and
\* counts it.
Assemble(r) ==
  /\ r \in Assemblers
  /\ \E m \in wire :
       /\ m.to = r
       /\ wire' = wire \ {m}
       /\ LET tile == Decode(m.message)
          IN  frame' = [frame EXCEPT
                ![r].pixels = Overwritten(@, Copied(tile, MyRegion(r))),
                ![r].numPixelsCompleted = @ + NumWritten(tile, MyRegion(r))]
  /\ UNCHANGED <<setting, toRender, tilesToSend>>

Next ==
  \/ SendRGBA
  \/ Compress
  \/ Dispatch
  \/ \E r \in 0 .. NumDisplays : Assemble(r)

Spec == Init /\ [][Next]_vars

\* As long as somebody has something to do with a tile, somebody does it: less
\* than that every thread goes on, and enough, as no thread waits for another.
FairSpec == Spec /\ WF_vars(Next)

-----------------------------------------------------------------------------
(* Types.  No offset that the assembler computes is outside of the buffer. *)
TypeOK ==
  LET coords == Pixels(Wall) \cup {Blank}
      PlainTile(t) == [region: {t}, pixels: [0 .. Area(t) - 1 -> coords]]
  IN  /\ useHeadNode \in BOOLEAN
      /\ tiling \in Tilings
      /\ toRender \subseteq tiling
      /\ \A tile \in tilesToSend : tile.region \in tiling /\ tile \in PlainTile(tile.region)
      /\ \A m \in wire :
           /\ m.to \in Ranks(useHeadNode)
           /\ m.message.region \in tiling
           /\ Decode(m.message) \in PlainTile(m.message.region)
      /\ DOMAIN frame = Assemblers
      /\ \A r \in Assemblers :
           frame[r] \in [pixels: [0 .. Area(MyRegion(r)) - 1 -> coords],
                         numPixelsCompleted: Nat]

(* The number by which an assembler decides that its frame is complete is  *)
(* the number of places of the frame buffer that were written: no place is *)
(* written for two tiles, none counted that was not written                *)
(* (FrameAssembler.cpp:82-111, markPixelsCompleted).                       *)
CountIsTrue ==
  \A r \in Assemblers :
    frame[r].numPixelsCompleted
      = Cardinality({ofs \in DOMAIN frame[r].pixels : frame[r].pixels[ofs] # Blank})

(* A frame that is complete shows, at every place of the window, the pixel *)
(* that was rendered for this place of the wall: the strides of the        *)
(* renderer's array, of the tile and of the frame buffer fit together      *)
(* (dw2_client.cpp:244-252, FrameAssembler.cpp:100-107).                   *)
ScreenShowsImage ==
  \A r \in Assemblers : Complete(r) =>
    \A p \in Pixels(MyRegion(r)) : frame[r].pixels[OffsetIn(MyRegion(r), p)] = p

(* A display is never given a tile of which it shows nothing: the          *)
(* assertion numWritten > 0 of FrameAssembler.cpp:111 holds, both for what *)
(* a client sends and for what the dispatcher passes on.                   *)
NoTileInVain ==
  \A m \in wire : m.to \in Assemblers => NumWritten(m.message, MyRegion(m.to)) > 0

(* Each pixel that a display is sent counts for it, and counts once: the   *)
(* two facts on which counting up to numPixelsExpected rests.              *)
EveryPixelCountsOnce == CountIsTrue /\ NoTileInVain

(* The whole wall gets complete, whatever the tiling: no tile that a       *)
(* display waits for is kept from it by the regions of the service info or *)
(* by those of the dispatcher.                                             *)
EveryScreenFills == <>(\A r \in Assemblers : Complete(r))

-----------------------------------------------------------------------------
(* The inductive invariant behind the theorems of WallGeometryProofs.      *)

\* What is under way are tiles of the frame, and on the way to an assembler
\* only those that overlap its region.
WireInv ==
  /\ useHeadNode \in BOOLEAN
  /\ tiling \in Tilings
  /\ toRender \subseteq tiling
  /\ \A tile \in tilesToSend : tile.region \in tiling
  /\ \A m \in wire :
       /\ m.message.region \in tiling
       /\ m.to \in Assemblers => Overlaps(m.message.region, MyRegion(m.to))

\* A tile is in one place on its way to each rank.
OnePlaceEach ==
  /\ \A tile \in tilesToSend : tile.region \notin toRender
  /\ \A tile, other \in tilesToSend : tile.region = other.region => tile = other
  /\ \A m \in wire : /\ m.message.region \notin toRender
                     /\ \A tile \in tilesToSend : tile.region # m.message.region
  /\ \A m, n \in wire : m.message.region = n.message.region =>
       /\ m.to = n.to => m = n
       /\ useHeadNode /\ m.to = 0 => n.to = 0

\* On its way a tile shows the image.
Good(tile) == \A p \in Pixels(tile.region) : tile.pixels[OffsetIn(tile.region, p)] = p
PixelsRight ==
  /\ \A tile \in tilesToSend : Good(tile)
  /\ \A m \in wire : Good(Decode(m.message))

\* Tile t has not reached the frame buffer of rank r.
OnWay(r, t) ==
  \/ t \in toRender
  \/ \E tile \in tilesToSend : tile.region = t
  \/ \E m \in wire : /\ m.message.region = t
                     /\ m.to = r \/ (useHeadNode /\ m.to = 0)

Shown(pixels) == {ofs \in DOMAIN pixels : pixels[ofs] # Blank}

\* What a frame buffer shows is the image, and nothing of tiles on their way.
BufferInv(r) ==
  LET region == MyRegion(r)
      pixels == frame[r].pixels
  IN  /\ frame[r] = [pixels |-> pixels,
                     numPixelsCompleted |-> Cardinality(Shown(pixels))]
      /\ DOMAIN pixels = 0 .. Area(region) - 1
      /\ \A p \in Pixels(region) : pixels[OffsetIn(region, p)] \in {Blank, p}
      /\ \A t \in tiling : OnWay(r, t) =>
           \A p \in Pixels(t) \cap Pixels(region) : pixels[OffsetIn(region, p)] = Blank

FrameInv ==
  /\ frame = [r \in Assemblers |-> frame[r]]
  /\ \A r \in Assemblers : BufferInv(r)

(* A tile is in one place on its way to each display, shows the image      *)
(* there, and leaves the image in its part of the frame buffer when it     *)
(* arrives, which was blank until then.                                    *)
IInv == WireInv /\ OnePlaceEach /\ PixelsRight /\ FrameInv

\* Tiles and buffers are arrays of pixels, and messages go to ranks.
Shapes ==
  /\ \A tile \in tilesToSend :
       tile = [region |-> tile.region,
               pixels |-> [i \in 0 .. Area(tile.region) - 1 |-> tile.pixels[i]]]
  /\ \A m \in wire : m.to \in Ranks(useHeadNode)
  /\ \A r \in Assemblers :
       frame[r].pixels = [ofs \in DOMAIN frame[r].pixels |-> frame[r].pixels[ofs]]
=============================================================================
