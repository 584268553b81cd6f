---------------------------- MODULE FrameStream ----------------------------
(***************************************************************************)
(* What the frame assembler of one display promises to the thread that     *)
(* draws: the frames of the renderer, in order, each handed over once, and *)
(* only when every tile of it has arrived; what is on the screen then is   *)
(* the whole picture of that frame and nothing of any other.               *)
(*                                                                         *)
(* Tiles may arrive in any order, up to MaxFramesInFlight frames ahead.    *)
(* FrameAssembler.tla implements this specification.                       *)
(***************************************************************************)
EXTENDS Integers

CONSTANTS Region,             \* the pixels of this display
          Tiles,              \* the tiles of a frame that touch the display
          LastFrame,          \* the renderer sends the frames 0 .. LastFrame
          MaxFramesInFlight,  \* frames that may be in flight (Server::Config)
          Blank               \* what a pixel shows before anything was drawn

VARIABLES arrived,    \* the messages that have reached the display
          delivered,  \* how many frames were handed over to be drawn
          picture     \* the last frame handed over, pixel by pixel

vars == <<arrived, delivered, picture>>

Messages == [frameID: 0 .. LastFrame, tile: Tiles]
TilesOf(f) == [frameID: {f}, tile: Tiles]

Init ==
  /\ arrived = {}
  /\ delivered = 0
  /\ picture = [p \in Region |-> Blank]

Arrive(m) ==
  /\ m \notin arrived
  /\ m.frameID < delivered + MaxFramesInFlight
  /\ arrived' = arrived \cup {m}
  /\ UNCHANGED <<delivered, picture>>

\* The complete frame `delivered` replaces the one on the screen.
Deliver ==
  /\ delivered <= LastFrame
  /\ TilesOf(delivered) \subseteq arrived
  /\ picture' = [p \in Region |-> delivered]
  /\ delivered' = delivered + 1
  /\ UNCHANGED arrived

Next == Deliver \/ \E m \in Messages : Arrive(m)

Spec == Init /\ [][Next]_vars
=============================================================================
