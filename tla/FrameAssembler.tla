--------------------------- MODULE FrameAssembler ---------------------------
(***************************************************************************)
(* One display of the wall: the FrameAssembler of src/service with its     *)
(* threads, its TimeStampedMailbox, and the main thread that builds it     *)
(* (Server::Server), says "start accepting tiles" and then collects the    *)
(* assembled frames one after the other.                                   *)
(*                                                                         *)
(* A step is what a thread does between two points where another thread    *)
(* can interfere: one critical section of the mailbox's, the assembler's   *)
(* or the frame's mutex, or the writing of one tile's pixels (the pixels   *)
(* of two tiles of a frame are disjoint, so a tile is written as one).     *)
(*                                                                         *)
(* A message is a tile of a frame.  A pixel shows the number of the frame  *)
(* it was last written for.  A FrameToBe is known by its frame ID: the     *)
(* code makes one object per frame (see NoSecondFinisher).                 *)
(***************************************************************************)
EXTENDS TimeStampedMailbox, FiniteSets

CONSTANTS Threads,            \* the assembler threads
          Region,             \* myRegion: the pixels of this display
          Tiles,              \* the tiles of a frame that touch myRegion
          Cover,              \* Cover[t]: the pixels of myRegion tile t holds
          LastFrame,          \* bound: the renderer sends frames 0 .. LastFrame
          MaxFramesInFlight   \* tokens the renderer starts with

ASSUME ThreadsAssumption == Threads # {}

\* The renderer covers the display, every pixel once per frame, and sends a
\* display only tiles that touch it (dw2_send_rgba, Dispatcher).
ASSUME CoverAssumption ==
  /\ IsFiniteSet(Region)
  /\ Region # {}
  /\ Cover \in [Tiles -> (SUBSET Region) \ {{}}]
  /\ UNION {Cover[t] : t \in Tiles} = Region
  /\ \A t, u \in Tiles : t # u => Cover[t] \cap Cover[u] = {}

ASSUME BoundsAssumption ==
  /\ LastFrame \in Nat
  /\ MaxFramesInFlight \in Nat \ {0}

Blank == -1
Frames == 0 .. LastFrame + 1      \* one more frame is opened than is sent
Messages == [frameID: 0 .. LastFrame, tile: Tiles]
TilesOf(f) == [frameID: {f}, tile: Tiles]

VARIABLES inbox,           \* the TimeStampedMailbox
          currentFrame,    \* _currentFrame (its ID), -1 while it is null
          frames,          \* the FrameToBe of every frame ID
          finishedFrames,  \* assembled frames, not collected yet
          worker,          \* the assembler threads: pc and local variables
          main,            \* the pc of the main thread
          arrived,         \* history: the messages that were put
          delivered        \* how many frames were collected

vars == <<inbox, currentFrame, frames, finishedFrames, worker, main,
          arrived, delivered>>


-----------------------------------------------------------------------------
\* What a thread's locals hold before they are first assigned.
NoMessage == [frameID |-> -1, tile |-> CHOOSE t \in Tiles : TRUE]

WorkerState ==
  [pc: {"get", "fetch", "write", "mark", "push", "setFrame", "startInbox"},
   message: [frameID: -1 .. LastFrame, tile: Tiles],
   frame: -1 .. LastFrame]

\* FrameToBe(frameID, ...): nothing written yet.
NewFrame == [pixels |-> [p \in Region |-> Blank], numPixelsCompleted |-> 0]

Goto(t, label) == worker' = [worker EXCEPT ![t].pc = label]

Init ==
  /\ inbox = EmptyMailbox
  /\ currentFrame = -1
  /\ frames = [f \in Frames |-> NewFrame]
  /\ finishedFrames = <<>>
  /\ worker = [t \in Threads |->
                 [pc |-> "get", message |-> NoMessage, frame |-> -1]]
  /\ main = "construct"
  /\ arrived = {}
  /\ delivered = 0

-----------------------------------------------------------------------------
(* Slips one could make in the actions below.  No specification uses them: *)
(* each is put in the place of the action to see a property fail.          *)

\* The frame counts as complete although one pixel is missing.
MarkTooEarly(t) ==
  LET f == worker[t].frame
      numWritten == Cardinality(Cover[worker[t].message.tile])
  IN  /\ worker[t].pc = "mark"
      /\ frames' = [frames EXCEPT ![f].numPixelsCompleted = @ + numWritten]
      /\ IF frames'[f].numPixelsCompleted >= Cardinality(Region) - 1
           THEN Goto(t, "push")
           ELSE Goto(t, "get")
      /\ UNCHANGED <<inbox, currentFrame, finishedFrames, main, arrived, delivered>>

\* The mailbox is opened for the next frame before that frame is there.
InboxBeforeFrame(t) ==
  /\ worker[t].pc = "setFrame"
  /\ inbox' = StartNewFrame(inbox, worker[t].frame + 1)
  /\ Goto(t, "startInbox")
  /\ UNCHANGED <<currentFrame, frames, finishedFrames, main, arrived, delivered>>

\* The finished frame's own buffer is cleared for the next one.
ReuseFinishedFrame(t) ==
  /\ worker[t].pc = "setFrame"
  /\ currentFrame' = worker[t].frame + 1
  /\ frames' = [frames EXCEPT ![worker[t].frame] = NewFrame]
  /\ Goto(t, "startInbox")
  /\ UNCHANGED <<inbox, finishedFrames, main, arrived, delivered>>

-----------------------------------------------------------------------------
(* An assembler thread: assemblerThreadFunction() and finishFrame().       *)

\* message = inbox->get()
Get(t) ==
  /\ worker[t].pc = "get"
  /\ CanGet(inbox)
  /\ worker' = [worker EXCEPT ![t].pc = "fetch", ![t].message = Front(inbox)]
  /\ inbox' = PopFront(inbox)
  /\ UNCHANGED <<currentFrame, frames, finishedFrames, main, arrived, delivered>>

\* currentFrame = getCurrentFrame(): only now, after the mailbox's mutex was
\* released, does the thread ask which frame the tile is for.
FetchFrame(t) ==
  /\ worker[t].pc = "fetch"
  /\ worker' = [worker EXCEPT ![t].pc = "write", ![t].frame = currentFrame]
  /\ UNCHANGED <<inbox, currentFrame, frames, finishedFrames, main, arrived,
                 delivered>>

\* Decode the tile and copy its pixels into the frame.
WritePixels(t) ==
  LET m == worker[t].message
      f == worker[t].frame
  IN  /\ worker[t].pc = "write"
      /\ frames' = [frames EXCEPT ![f].pixels =
                      [p \in Region |-> IF p \in Cover[m.tile] THEN m.frameID ELSE @[p]]]
      /\ Goto(t, "mark")
      /\ UNCHANGED <<inbox, currentFrame, finishedFrames, main, arrived, delivered>>

\* markPixelsCompleted(numWritten); the thread that reaches the expected
\* number exactly goes on to finish the frame.
MarkPixelsCompleted(t) ==
  LET f == worker[t].frame
      numWritten == Cardinality(Cover[worker[t].message.tile])
  IN  /\ worker[t].pc = "mark"
      /\ frames' = [frames EXCEPT ![f].numPixelsCompleted = @ + numWritten]
      /\ IF frames'[f].numPixelsCompleted = Cardinality(Region)
           THEN Goto(t, "push")
           ELSE Goto(t, "get")
      /\ UNCHANGED <<inbox, currentFrame, finishedFrames, main, arrived, delivered>>

\* finishFrame(), under the assembler's mutex.
PushFinished(t) ==
  /\ worker[t].pc = "push"
  /\ finishedFrames' = Append(finishedFrames, worker[t].frame)
  /\ Goto(t, "setFrame")
  /\ UNCHANGED <<inbox, currentFrame, frames, main, arrived, delivered>>

\* startOnNewFrame(f), first half: make the frame and set it, under the
\* assembler's mutex.  Its two halves are not one critical section.
SetCurrentFrame(f) ==
  /\ currentFrame' = f
  /\ frames' = [frames EXCEPT ![f] = NewFrame]

SetNextFrame(t) ==
  /\ worker[t].pc = "setFrame"
  /\ SetCurrentFrame(worker[t].frame + 1)
  /\ Goto(t, "startInbox")
  /\ UNCHANGED <<inbox, finishedFrames, main, arrived, delivered>>

\* startOnNewFrame(f), second half: let the tiles of the frame through.
StartInbox(t) ==
  /\ worker[t].pc = "startInbox"
  /\ inbox' = StartNewFrame(inbox, worker[t].frame + 1)
  /\ Goto(t, "get")
  /\ UNCHANGED <<currentFrame, frames, finishedFrames, main, arrived, delivered>>

Worker(t) ==
  \/ Get(t) \/ FetchFrame(t) \/ WritePixels(t) \/ MarkPixelsCompleted(t)
  \/ PushFinished(t) \/ SetNextFrame(t) \/ StartInbox(t)

-----------------------------------------------------------------------------
(* The main thread: FrameAssembler's constructor, the last statement of    *)
(* Server's, then waitForNextAssembledFrame() again and again.             *)

ConstructSetFrame ==
  /\ main = "construct"
  /\ main' = "constructInbox"
  /\ SetCurrentFrame(0)
  /\ UNCHANGED <<inbox, finishedFrames, worker, arrived, delivered>>

ConstructStartInbox ==
  /\ main = "constructInbox"
  /\ main' = "accept"
  /\ inbox' = StartNewFrame(inbox, 0)
  /\ UNCHANGED <<currentFrame, frames, finishedFrames, worker, arrived, delivered>>

\* "start accepting tiles": inbox->startNewFrame(0), whatever the assembler
\* threads have done meanwhile.
AcceptTiles ==
  /\ main = "accept"
  /\ main' = "collect"
  /\ inbox' = StartNewFrame(inbox, 0)
  /\ UNCHANGED <<currentFrame, frames, finishedFrames, worker, arrived, delivered>>

\* collectAssembledFrame(); its caller then draws the frame.
CollectAssembledFrame ==
  /\ main = "collect"
  /\ finishedFrames # <<>>
  /\ finishedFrames' = Tail(finishedFrames)
  /\ delivered' = delivered + 1
  /\ UNCHANGED <<inbox, currentFrame, frames, worker, main, arrived>>

Main == ConstructSetFrame \/ ConstructStartInbox \/ AcceptTiles \/ CollectAssembledFrame

-----------------------------------------------------------------------------
(* The network: a receiving thread puts a tile.  No tile comes before the  *)
(* renderer holds a token, that is before every display has passed the     *)
(* last barrier of Server's constructor; a token for frame f comes when    *)
(* frame f - MaxFramesInFlight was collected.  Beyond that, order is free: *)
(* the renderer compresses and sends on many threads.                      *)

PutTile(m) ==
  /\ main \in {"accept", "collect"}
  /\ m \notin arrived
  /\ m.frameID < delivered + MaxFramesInFlight
  /\ arrived' = arrived \cup {m}
  /\ inbox' = LockedPut(inbox, m)
  /\ UNCHANGED <<currentFrame, frames, finishedFrames, worker, main, delivered>>

Next ==
  \/ \E t \in Threads : Worker(t)
  \/ Main
  \/ \E m \in Messages : PutTile(m)

\* Every thread keeps running; tiles need not come.
Fairness ==
  /\ \A t \in Threads : WF_vars(Worker(t))
  /\ WF_vars(Main)

Spec == Init /\ [][Next]_vars
FairSpec == Spec /\ Fairness

-----------------------------------------------------------------------------
(* Correctness.                                                            *)

\* A thread that took a tile from the mailbox and has not accounted for it.
Holds(t) == worker[t].pc \in {"fetch", "write", "mark"}

\* A thread inside finishFrame().
Finishing(t) == worker[t].pc \in {"push", "setFrame", "startInbox"}

\* The frames that were assembled are those below this number.
NumFinished == delivered + Len(finishedFrames)

\* Every variable has its type; no frame counts more pixels than it has.
TypeOK ==
  /\ inbox \in Mailbox(Messages)
  /\ inbox.currentFrameID \in {-1} \cup Frames
  /\ currentFrame \in {-1} \cup Frames
  /\ frames \in [Frames -> [pixels: [Region -> {Blank} \cup Frames],
                            numPixelsCompleted: 0 .. Cardinality(Region)]]
  /\ finishedFrames \in Seq(0 .. LastFrame)
  /\ worker \in [Threads -> WorkerState]
  /\ main \in {"construct", "constructInbox", "accept", "collect"}
  /\ arrived \subseteq Messages
  /\ delivered \in Frames

\* Points a) and c) of the argument in assemblerThreadFunction(): although
\* the thread asks for the current frame after it took the tile, the frame
\* it writes to is the tile's, and stays the current one while it writes.
TilesGoToTheirFrame ==
  \A t \in Threads :
    /\ Holds(t) => worker[t].message.frameID = currentFrame
    /\ worker[t].pc \in {"write", "mark"} => worker[t].frame = currentFrame

\* Point b): while a thread has a tile of a frame in hand, that frame is
\* not finished, nobody is finishing it, and nobody can have drawn it.
FrameStillOpen ==
  \A t \in Threads : Holds(t) =>
    /\ worker[t].message.frameID >= NumFinished
    /\ \A u \in Threads : ~ Finishing(u)

\* At most one thread is in finishFrame(), which it runs without the mutex:
\* no frame is opened twice, none is finished twice.
NoSecondFinisher ==
  \A t, u \in Threads : Finishing(t) /\ Finishing(u) => t = u

\* The comment in assemblerThreadFunction() argues that a thread may ask for
\* the current frame after it took its tile: the three points, together.
ThreadSafe == TilesGoToTheirFrame /\ FrameStillOpen /\ NoSecondFinisher

\* Frames wait to be collected in order, with none missing or repeated.
FramesInOrder ==
  \A i \in DOMAIN finishedFrames : finishedFrames[i] = delivered + i - 1

\* An assembled frame, waiting or already on the screen, shows that frame on
\* every pixel: no hole, no pixel of an earlier or a later frame.
FinishedFramesComplete ==
  \A f \in 0 .. NumFinished - 1 : frames[f].pixels = [p \in Region |-> f]

\* collectAssembledFrame() takes every frame once, in order, whole.
FramesWholeAndInOrder == FramesInOrder /\ FinishedFramesComplete

\* A tile that arrived waits in the mailbox, is in a thread's hands, or its
\* pixels are in its frame: the mailbox's dropping of tiles of an earlier
\* frame never loses one.
NoTileLost ==
  \A m \in arrived :
    \/ m \in Range(inbox.messages) \cup Range(inbox.futureFrameMessages)
    \/ \E t \in Threads : Holds(t) /\ worker[t].message = m
    \/ \A p \in Cover[m.tile] : frames[m.frameID].pixels[p] = m.frameID

\* The tokens bound every queue: assembled frames, let-through and deferred
\* tiles.  No deferred tile is of a frame that is finished already.
BoundedBacklog ==
  /\ Len(finishedFrames) <= MaxFramesInFlight
  /\ Len(inbox.messages) <= Cardinality(Tiles)
  /\ Len(inbox.futureFrameMessages) <=
       (MaxFramesInFlight - Len(finishedFrames)) * Cardinality(Tiles)
  /\ \A m \in Range(inbox.futureFrameMessages) : m.frameID >= NumFinished

\* No step changes a frame that was finished before it.
FinishedFramesFrozen ==
  [][\A f \in 0 .. NumFinished - 1 : frames'[f] = frames[f]]_vars

\* The whole implements the abstract stream of frames.
Stream == INSTANCE FrameStream WITH
  picture <- IF delivered = 0 THEN [p \in Region |-> Blank]
                              ELSE frames[delivered - 1].pixels

ImplementsStream == Stream!Spec

-----------------------------------------------------------------------------
(* Progress.                                                               *)

\* The main thread waits for a frame all tiles of which have arrived.
AwaitsWholeFrame == TilesOf(delivered) \subseteq arrived

\* The mailbox is behind the frame under assembly and nobody is about to
\* move it on: AcceptTiles came after an assembler thread's StartInbox.
Rewound ==
  /\ main = "collect"
  /\ inbox.currentFrameID < currentFrame
  /\ \A t \in Threads : ~ Finishing(t)

\* A frame whose tiles have all arrived is handed over, whether or not more
\* tiles come, unless the late startNewFrame(0) of the main thread set the
\* mailbox back: nothing else ever makes a display wait in vain.
OnlyRewindStops == <>[]AwaitsWholeFrame => <>[]Rewound

\* Mailbox.h on the mailbox: it "delays all others until a respective frame
\* with this time stamp has been started".
DeferredUntilStarted ==
  \A m \in Messages :
    (m \in Range(inbox.futureFrameMessages) /\ m.frameID <= currentFrame)
      ~> m \notin Range(inbox.futureFrameMessages)
=============================================================================
