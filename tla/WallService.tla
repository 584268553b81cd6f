---------------------------- MODULE WallService ----------------------------
(***************************************************************************)
(* What dw2 as a whole promises: the displays go through the frames in     *)
(* lock step.  A display shows a frame only when every display has shown   *)
(* the frame before it and the renderer has sent the whole frame, for the  *)
(* whole wall; and the renderer never is more than MaxFramesInFlight       *)
(* frames ahead of the frame that some display is working on.              *)
(* DisplayWall implements this specification.                              *)
(***************************************************************************)
EXTENDS Integers

CONSTANTS Displays,           \* the displays of the wall
          Touches,            \* pairs <<c, d>>: client c has tiles on display d
          LastFrame,          \* the renderer renders the frames 0 .. LastFrame
          MaxFramesInFlight   \* how many frames may be in flight

VARIABLES sent,    \* what the renderer has sent, of which frame, to whom
          shown    \* how many frames each display has shown

vars == <<sent, shown>>

Batches == [frameID: 0 .. LastFrame, from: {t[1] : t \in Touches}, to: Displays]
BatchesOf(f) == {b \in Batches : b.frameID = f /\ <<b.from, b.to>> \in Touches}

Init ==
  /\ sent = {}
  /\ shown = [d \in Displays |-> 0]

Send(b) ==
  /\ b \notin sent
  /\ \A d \in Displays : b.frameID <= shown[d] + MaxFramesInFlight
  /\ sent' = sent \cup {b}
  /\ UNCHANGED shown

Show(d) ==
  /\ shown[d] <= LastFrame
  /\ BatchesOf(shown[d]) \subseteq sent
  /\ \A e \in Displays : shown[e] >= shown[d]
  /\ shown' = [shown EXCEPT ![d] = @ + 1]
  /\ UNCHANGED sent

Next ==
  \/ \E b \in Batches : Send(b)
  \/ \E d \in Displays : Show(d)

Spec == Init /\ [][Next]_vars
=============================================================================
