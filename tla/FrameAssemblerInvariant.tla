----------------------- MODULE FrameAssemblerInvariant -----------------------
(***************************************************************************)
(* The inductive invariant of FrameAssembler: why every frame is assembled *)
(* from its own tiles, exactly once, in order.  It keeps account of every  *)
(* message that arrived: queued, deferred, in a thread's hands, or done.   *)
(***************************************************************************)
EXTENDS FrameAssembler

Queued == Range(inbox.messages)
Deferred == Range(inbox.futureFrameMessages)
InHands == {worker[t].message : t \in {u \in Threads : Holds(u)}}

\* The messages whose pixels are written and counted.
Done == arrived \ (Queued \cup Deferred \cup InHands)
DonePixels(f) == {p \in Region : \E m \in Done : m.frameID = f /\ p \in Cover[m.tile]}

\* How many frames are complete, with one that still is to be pushed.
Sealed == IF \E t \in Threads : worker[t].pc = "push"
            THEN NumFinished + 1 ELSE NumFinished

-----------------------------------------------------------------------------
\* TypeOK without its bounds on the counters, which take the rest to show.
Types ==
  /\ inbox \in Mailbox(Messages)
  /\ inbox.currentFrameID \in {-1} \cup Frames
  /\ currentFrame \in {-1} \cup Frames
  /\ frames \in [Frames -> [pixels: [Region -> {Blank} \cup Frames],
                            numPixelsCompleted: Nat]]
  /\ finishedFrames \in Seq(0 .. LastFrame)
  /\ worker \in [Threads -> WorkerState]
  /\ main \in {"construct", "constructInbox", "accept", "collect"}
  /\ arrived \subseteq Messages
  /\ delivered \in Nat

\* Until the constructor returns, the assembler threads have nothing to do.
NothingBeforeStart ==
  main \in {"construct", "constructInbox"} =>
    /\ inbox = EmptyMailbox
    /\ finishedFrames = <<>>
    /\ arrived = {}
    /\ delivered = 0
    /\ currentFrame = IF main = "construct" THEN -1 ELSE 0
    /\ \A t \in Threads : worker[t].pc = "get"

\* From then on there is a frame, and the mailbox is open for one.
StartedOnce ==
  main \in {"accept", "collect"} => inbox.currentFrameID >= 0 /\ currentFrame >= 0

\* A message is in one place only, and every message in a place did arrive.
OnePlaceEach ==
  /\ NoDuplicates(inbox)
  /\ Queued \cup Deferred \cup InHands \subseteq arrived
  /\ InHands \cap (Queued \cup Deferred) = {}
  /\ \A t, u \in Threads :
       Holds(t) /\ Holds(u) /\ worker[t].message = worker[u].message => t = u

\* What was let through is of the frame under assembly; what is deferred is
\* of a frame the mailbox was not opened for, and is not complete.
RightPlace ==
  /\ \A m \in Queued \cup InHands : m.frameID = currentFrame
  /\ \A m \in Deferred : m.frameID > inbox.currentFrameID /\ m.frameID >= Sealed

\* The thread that finishes a frame is alone: there is no tile to work on.
FinisherAlone ==
  \A t \in Threads : Finishing(t) =>
    /\ Queued = {} /\ InHands = {}
    /\ \A u \in Threads : Finishing(u) => t = u

\* The frame IDs the threads, the mailbox and the queue hold agree.
NumbersAgree ==
  /\ \A t \in Threads :
       /\ worker[t].pc \in {"write", "mark", "push", "setFrame"} =>
            worker[t].frame = currentFrame
       /\ worker[t].pc = "startInbox" =>
            /\ worker[t].frame = currentFrame - 1
            /\ inbox.currentFrameID <= worker[t].frame
  /\ inbox.currentFrameID <= currentFrame
  /\ main # "construct" =>
       Sealed = IF \E t \in Threads : worker[t].pc \in {"push", "setFrame"}
                  THEN currentFrame + 1 ELSE currentFrame
  /\ FramesInOrder

\* The pixels of a done tile are in its frame, so are those of a tile about
\* to be counted, and a frame counts the pixels of its done tiles.
WorkIsDone ==
  /\ \A m \in Messages : m.frameID < Sealed => m \in Done
  /\ \A m \in Done :
       /\ m.frameID <= currentFrame
       /\ \A p \in Cover[m.tile] : frames[m.frameID].pixels[p] = m.frameID
  /\ \A t \in Threads : worker[t].pc = "mark" =>
       \A p \in Cover[worker[t].message.tile] :
         frames[currentFrame].pixels[p] = currentFrame
  /\ \A f \in Frames : frames[f].numPixelsCompleted = Cardinality(DonePixels(f))

IInv ==
  /\ Types
  /\ NothingBeforeStart
  /\ StartedOnce
  /\ OnePlaceEach
  /\ RightPlace
  /\ FinisherAlone
  /\ NumbersAgree
  /\ WorkIsDone

-----------------------------------------------------------------------------
\* The tokens: no tile is sent before a token for its frame came back.  This
\* is inductive by itself, and with IInv it bounds the queues.
ArrivedInWindow ==
  /\ delivered \in Nat
  /\ arrived \subseteq Messages
  /\ \A m \in arrived : m.frameID < delivered + MaxFramesInFlight
=============================================================================
