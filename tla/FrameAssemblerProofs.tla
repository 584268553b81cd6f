------------------------ MODULE FrameAssemblerProofs ------------------------
(***************************************************************************)
(* The correctness of FrameAssembler for any number of threads, any tiling *)
(* of any display, any number of frames and any number of tokens.          *)
(***************************************************************************)
EXTENDS FrameAssemblerInvariant, MailboxFacts

USE BoundsAssumption, CoverAssumption, ThreadsAssumption

-----------------------------------------------------------------------------
(* Facts about messages, tiles and threads.                                *)

LEMMA MessageFacts ==
  /\ \A m \in Messages : m.frameID \in Int /\ m.frameID \in 0 .. LastFrame /\ m.tile \in Tiles
  /\ \A m, n \in Messages : m.frameID = n.frameID /\ m.tile = n.tile => m = n
BY DEF Messages

LEMMA CoverFacts ==
  /\ \A tile \in Tiles : Cover[tile] \subseteq Region /\ Cover[tile] # {}
  /\ \A tile, other \in Tiles : \A p \in Region :
       p \in Cover[tile] /\ p \in Cover[other] => tile = other
  /\ \E tile \in Tiles : TRUE
OBVIOUS

\* A thread's locals keep their types when it moves on with new values.
LEMMA WorkerTypes ==
  ASSUME worker \in [Threads -> WorkerState], NEW t \in Threads,
         NEW l \in {"get", "fetch", "write", "mark", "push", "setFrame", "startInbox"},
         NEW m \in [frameID: -1 .. LastFrame, tile: Tiles],
         NEW f \in -1 .. LastFrame
  PROVE  /\ [worker EXCEPT ![t].pc = l] \in [Threads -> WorkerState]
         /\ [worker EXCEPT ![t].pc = l, ![t].message = m] \in [Threads -> WorkerState]
         /\ [worker EXCEPT ![t].pc = l, ![t].frame = f] \in [Threads -> WorkerState]
<1>1. worker[t] \in WorkerState
  OBVIOUS
<1>2. /\ [worker[t] EXCEPT !.pc = l] \in WorkerState
      /\ [worker[t] EXCEPT !.pc = l, !.message = m] \in WorkerState
      /\ [worker[t] EXCEPT !.pc = l, !.frame = f] \in WorkerState
  BY <1>1 DEF WorkerState
<1>3. QED
  BY <1>2

\* What the threads hold is what it was if no thread takes or drops a tile.
LEMMA SameHands ==
  ASSUME \A u \in Threads : /\ Holds(u)' <=> Holds(u)
                            /\ Holds(u) => worker'[u].message = worker[u].message
  PROVE  InHands' = InHands
BY DEF InHands

\* What is done is what it was if no message moves.
LEMMA SameDone ==
  ASSUME arrived' = arrived, InHands' = InHands,
         Queued' \cup Deferred' = Queued \cup Deferred
  PROVE  /\ Done' = Done
         /\ \A f : DonePixels(f)' = DonePixels(f)
<1>1. Done' = Done
  BY DEF Done
<1>2. QED
  BY <1>1 DEF DonePixels

-----------------------------------------------------------------------------
(* The initial state.                                                      *)

LEMMA InitIInv == Init => IInv
<1> SUFFICES ASSUME Init PROVE IInv
  OBVIOUS
<1> USE DEF Init
<1>1. /\ Queued = {} /\ Deferred = {} /\ InHands = {} /\ Done = {}
      /\ \A f : DonePixels(f) = {}
  BY DEF Queued, Deferred, InHands, Done, DonePixels, EmptyMailbox, Range, Holds
<1>2. Sealed = 0 /\ NumFinished = 0
  BY DEF Sealed, NumFinished
<1>3. Types
  <2>1. NoMessage \in [frameID: -1 .. LastFrame, tile: Tiles]
    BY CoverFacts DEF NoMessage
  <2>2. inbox \in Mailbox(Messages)
    BY EmptySeq DEF EmptyMailbox, Mailbox
  <2>3. worker \in [Threads -> WorkerState]
    BY <2>1 DEF WorkerState
  <2>4. frames \in [Frames -> [pixels: [Region -> {Blank} \cup Frames],
                               numPixelsCompleted: Nat]]
    BY DEF NewFrame
  <2>5. QED
    BY <2>2, <2>3, <2>4 DEF Types, EmptyMailbox
<1>4. NothingBeforeStart
  BY DEF NothingBeforeStart
<1>5. StartedOnce
  BY DEF StartedOnce
<1>6. OnePlaceEach
  BY <1>1 DEF OnePlaceEach, NoDuplicates, IsInjective, EmptyMailbox, Holds, Queued, Deferred
<1>7. RightPlace
  BY <1>1 DEF RightPlace
<1>8. FinisherAlone
  BY DEF FinisherAlone, Finishing
<1>9. NumbersAgree
  BY <1>2 DEF NumbersAgree, FramesInOrder, EmptyMailbox
<1>10. WorkIsDone
  <2>1. \A m \in Messages : m.frameID < Sealed => m \in Done
    BY <1>2, MessageFacts
  <2>2. \A f \in Frames : frames[f].numPixelsCompleted = Cardinality(DonePixels(f))
    BY <1>1, FS_EmptySet DEF NewFrame
  <2>3. QED
    BY <1>1, <2>1, <2>2 DEF WorkIsDone
<1>11. QED
  BY <1>3, <1>4, <1>5, <1>6, <1>7, <1>8, <1>9, <1>10 DEF IInv
-----------------------------------------------------------------------------
(* The steps of an assembler thread.                                       *)

\* The number of complete frames is what it was if no frame is completed,
\* pushed or collected.
LEMMA SameSealed ==
  ASSUME finishedFrames' = finishedFrames, delivered' = delivered,
         \A u \in Threads : worker'[u].pc = "push" <=> worker[u].pc = "push"
  PROVE  NumFinished' = NumFinished /\ Sealed' = Sealed
BY DEF NumFinished, Sealed

LEMMA GetStep ==
  ASSUME IInv, NEW t \in Threads, Get(t)
  PROVE  IInv'
<1> DEFINE m == Front(inbox)
<1> USE DEF IInv
<1>1. /\ inbox' \in Mailbox(Messages)
      /\ inbox'.currentFrameID = inbox.currentFrameID
      /\ m \in Queued
      /\ Queued = Queued' \cup {m}
      /\ Deferred' = Deferred
      /\ NoDuplicates(inbox')
      /\ m \notin Queued'
  BY PopFrontFacts DEF Get, Types, OnePlaceEach, Queued, Deferred
<1>2. /\ worker[t].pc = "get"
      /\ worker' = [worker EXCEPT ![t].pc = "fetch", ![t].message = m]
      /\ UNCHANGED <<currentFrame, frames, finishedFrames, main, arrived, delivered>>
  BY DEF Get
<1> HIDE DEF m
<1>3. m \in Messages /\ m \in arrived /\ m \notin InHands /\ m \notin Deferred
  BY <1>1 DEF OnePlaceEach, Types, Queued, Deferred, NoDuplicates
<1>4. /\ worker'[t].pc = "fetch" /\ worker'[t].message = m
      /\ worker'[t].frame = worker[t].frame
      /\ \A u \in Threads : u # t => worker'[u] = worker[u]
  BY <1>2 DEF Types
<1>5. ~ Holds(t) /\ Holds(t)' /\ \A u \in Threads : u # t => (Holds(u)' <=> Holds(u))
  BY <1>2, <1>4 DEF Holds
<1>6. InHands' = InHands \cup {m}
  BY <1>4, <1>5 DEF InHands
<1>7. Done' = Done /\ \A f : DonePixels(f)' = DonePixels(f)
  <2>1. Done' = Done
    BY <1>1, <1>2, <1>6 DEF Done
  <2>2. QED
    BY <2>1 DEF DonePixels
<1>8. NumFinished' = NumFinished /\ Sealed' = Sealed
  BY <1>2, <1>4, SameSealed
<1>9. \A u \in Threads : ~ Finishing(u)
  BY <1>1 DEF FinisherAlone
<1>10. \A u \in Threads : ~ Finishing(u)'
  BY <1>4, <1>9 DEF Finishing
<1>11. Types'
  <2>1. worker' \in [Threads -> WorkerState]
    <3>1. m \in [frameID: -1 .. LastFrame, tile: Tiles] /\ 0 \in -1 .. LastFrame
      BY <1>3 DEF Messages
    <3>2. QED
      BY <1>2, <3>1, WorkerTypes DEF Types
  <2>2. QED
    BY <1>1, <1>2, <2>1 DEF Types
<1>12. NothingBeforeStart'
  BY <1>1, <1>2 DEF NothingBeforeStart, EmptyMailbox, Types, Queued, Range
<1>13. StartedOnce'
  BY <1>1, <1>2 DEF StartedOnce
<1>14. OnePlaceEach'
  <2>1. ASSUME NEW u \in Threads, Holds(u), u # t PROVE worker[u].message # m
    BY <1>3, <2>1 DEF InHands
  <2>2. \A u, v \in Threads :
          Holds(u)' /\ Holds(v)' /\ worker'[u].message = worker'[v].message => u = v
    BY <1>4, <1>5, <2>1 DEF OnePlaceEach
  <2>3. QED
    BY <1>1, <1>2, <1>3, <1>6, <2>2 DEF OnePlaceEach
<1>15. RightPlace'
  BY <1>1, <1>2, <1>6, <1>8 DEF RightPlace
<1>16. FinisherAlone'
  BY <1>10 DEF FinisherAlone
<1>17. NumbersAgree'
  BY <1>1, <1>2, <1>4, <1>8 DEF NumbersAgree, FramesInOrder
<1>18. WorkIsDone'
  BY <1>2, <1>4, <1>7, <1>8 DEF WorkIsDone
<1>19. QED
  BY <1>11, <1>12, <1>13, <1>14, <1>15, <1>16, <1>17, <1>18

LEMMA FetchFrameStep ==
  ASSUME IInv, NEW t \in Threads, FetchFrame(t)
  PROVE  IInv'
<1> USE DEF IInv
<1>1. /\ worker[t].pc = "fetch"
      /\ worker' = [worker EXCEPT ![t].pc = "write", ![t].frame = currentFrame]
      /\ UNCHANGED <<inbox, currentFrame, frames, finishedFrames, main, arrived, delivered>>
  BY DEF FetchFrame
<1>2. /\ worker'[t].pc = "write" /\ worker'[t].message = worker[t].message
      /\ worker'[t].frame = currentFrame
      /\ \A u \in Threads : u # t => worker'[u] = worker[u]
  BY <1>1 DEF Types
<1>3. /\ \A u \in Threads : Holds(u)' <=> Holds(u)
      /\ \A u \in Threads : Finishing(u)' <=> Finishing(u)
      /\ \A u \in Threads : worker'[u].message = worker[u].message
  BY <1>1, <1>2 DEF Holds, Finishing
<1>4. Queued' = Queued /\ Deferred' = Deferred /\ InHands' = InHands
  BY <1>1, <1>3, SameHands DEF Queued, Deferred
<1>5. Done' = Done /\ \A f : DonePixels(f)' = DonePixels(f)
  BY <1>1, <1>4, SameDone
<1>6. NumFinished' = NumFinished /\ Sealed' = Sealed
  BY <1>1, <1>2, SameSealed
<1>7. currentFrame \in 0 .. LastFrame
  <2>1. worker[t].message \in InHands
    BY <1>1 DEF InHands, Holds
  <2>2. worker[t].message \in Messages /\ worker[t].message.frameID = currentFrame
    BY <2>1 DEF OnePlaceEach, RightPlace, Types
  <2>3. QED
    BY <2>2, MessageFacts
<1>8. Types'
  <2>1. worker' \in [Threads -> WorkerState]
    <3>1. currentFrame \in -1 .. LastFrame /\ worker[t].message \in [frameID: -1 .. LastFrame, tile: Tiles]
      BY <1>7 DEF Types, WorkerState
    <3>2. QED
      BY <1>1, <3>1, WorkerTypes DEF Types
  <2>2. QED
    BY <1>1, <2>1 DEF Types
<1>9. NothingBeforeStart'
  BY <1>1 DEF NothingBeforeStart
<1>10. StartedOnce'
  BY <1>1 DEF StartedOnce
<1>11. OnePlaceEach'
  BY <1>1, <1>3, <1>4 DEF OnePlaceEach
<1>12. RightPlace'
  BY <1>1, <1>4, <1>6 DEF RightPlace
<1>13. FinisherAlone'
  BY <1>3, <1>4 DEF FinisherAlone
<1>14. NumbersAgree'
  BY <1>1, <1>2, <1>6 DEF NumbersAgree, FramesInOrder
<1>15. WorkIsDone'
  BY <1>1, <1>2, <1>5, <1>6 DEF WorkIsDone
<1>16. QED
  BY <1>8, <1>9, <1>10, <1>11, <1>12, <1>13, <1>14, <1>15

LEMMA WritePixelsStep ==
  ASSUME IInv, NEW t \in Threads, WritePixels(t)
  PROVE  IInv'
<1> DEFINE m == worker[t].message
           f == worker[t].frame
           written == [p \in Region |-> IF p \in Cover[m.tile] THEN m.frameID
                                                               ELSE frames[f].pixels[p]]
<1> USE DEF IInv
<1>1. /\ worker[t].pc = "write"
      /\ worker' = [worker EXCEPT ![t].pc = "mark"]
      /\ frames' = [frames EXCEPT ![f].pixels = written]
      /\ UNCHANGED <<inbox, currentFrame, finishedFrames, main, arrived, delivered>>
  BY DEF WritePixels, Goto
<1>2. /\ worker'[t].pc = "mark" /\ worker'[t].message = m /\ worker'[t].frame = f
      /\ \A u \in Threads : u # t => worker'[u] = worker[u]
  BY <1>1 DEF Types
<1>3. /\ \A u \in Threads : Holds(u)' <=> Holds(u)
      /\ \A u \in Threads : Finishing(u)' <=> Finishing(u)
      /\ \A u \in Threads : worker'[u].message = worker[u].message
  BY <1>1, <1>2 DEF Holds, Finishing
<1>4. Queued' = Queued /\ Deferred' = Deferred /\ InHands' = InHands
  BY <1>1, <1>3, SameHands DEF Queued, Deferred
<1>5. Done' = Done /\ \A g : DonePixels(g)' = DonePixels(g)
  BY <1>1, <1>4, SameDone
<1>6. NumFinished' = NumFinished /\ Sealed' = Sealed
  BY <1>1, <1>2, SameSealed
<1>7. m \in InHands /\ m \in Messages /\ m.frameID = currentFrame /\ f = currentFrame
  BY <1>1 DEF InHands, Holds, OnePlaceEach, RightPlace, Types, NumbersAgree
<1>8. f \in Frames /\ m.tile \in Tiles /\ m.frameID \in Frames
  BY <1>7, MessageFacts DEF Frames
<1>9. frames[f] \in [pixels: [Region -> {Blank} \cup Frames], numPixelsCompleted: Nat]
  BY <1>8 DEF Types
<1>10. /\ frames'[f] = [frames[f] EXCEPT !.pixels = written]
       /\ \A g \in Frames : g # f => frames'[g] = frames[g]
  BY <1>1, <1>8 DEF Types
<1>11. written \in [Region -> {Blank} \cup Frames]
  BY <1>8, <1>9
<1>12. /\ frames'[f].pixels = written
       /\ frames'[f].numPixelsCompleted = frames[f].numPixelsCompleted
       /\ frames'[f] \in [pixels: [Region -> {Blank} \cup Frames], numPixelsCompleted: Nat]
  BY <1>9, <1>10, <1>11
<1>13. \A p \in Region : written[p] = IF p \in Cover[m.tile] THEN f ELSE frames[f].pixels[p]
  BY <1>7
<1> HIDE DEF written, m, f
<1>14. Types'
  <2>1. worker' \in [Threads -> WorkerState]
    <3>1. worker[t].message \in [frameID: -1 .. LastFrame, tile: Tiles] /\ 0 \in -1 .. LastFrame
      BY DEF Types, WorkerState
    <3>2. QED
      BY <1>1, <3>1, WorkerTypes DEF Types
  <2>2. frames' \in [Frames -> [pixels: [Region -> {Blank} \cup Frames],
                                numPixelsCompleted: Nat]]
    BY <1>1, <1>10, <1>12 DEF Types
  <2>3. QED
    BY <1>1, <2>1, <2>2 DEF Types
<1>15. NothingBeforeStart'
  BY <1>1 DEF NothingBeforeStart
<1>16. StartedOnce'
  BY <1>1 DEF StartedOnce
<1>17. OnePlaceEach'
  BY <1>1, <1>3, <1>4 DEF OnePlaceEach
<1>18. RightPlace'
  BY <1>1, <1>4, <1>6 DEF RightPlace
<1>19. FinisherAlone'
  BY <1>3, <1>4 DEF FinisherAlone
<1>20. NumbersAgree'
  BY <1>1, <1>2, <1>6 DEF NumbersAgree, FramesInOrder
<1>21. WorkIsDone'
  <2>1. ASSUME NEW d \in Done, NEW p \in Cover[d.tile]
        PROVE  frames'[d.frameID].pixels[p] = d.frameID
    <3>1. d \in Messages /\ d.frameID \in Frames /\ p \in Region
      BY MessageFacts, CoverFacts DEF Done, Types, Frames
    <3>2. frames[d.frameID].pixels[p] = d.frameID
      BY DEF WorkIsDone
    <3>3. QED
      BY <1>10, <1>12, <1>13, <3>1, <3>2
  <2>2. ASSUME NEW u \in Threads, worker'[u].pc = "mark",
               NEW p \in Cover[worker'[u].message.tile]
        PROVE  frames'[currentFrame].pixels[p] = currentFrame
    <3>1. worker[u].message.tile \in Tiles /\ p \in Region
      BY <1>3, <2>2, CoverFacts DEF Types, WorkerState
    <3>2. CASE u = t
      BY <1>2, <1>7, <1>12, <1>13, <2>2, <3>1, <3>2
    <3>3. CASE u # t
      <4>1. frames[currentFrame].pixels[p] = currentFrame
        BY <1>2, <2>2, <3>3 DEF WorkIsDone
      <4>2. QED
        BY <1>7, <1>12, <1>13, <3>1, <4>1
    <3>4. QED
      BY <3>2, <3>3
  <2>3. \A g \in Frames : frames'[g].numPixelsCompleted = Cardinality(DonePixels(g))
    BY <1>10, <1>12 DEF WorkIsDone
  <2>4. QED
    BY <1>1, <1>5, <1>6, <2>1, <2>2, <2>3 DEF WorkIsDone
<1>22. QED
  BY <1>14, <1>15, <1>16, <1>17, <1>18, <1>19, <1>20, <1>21

\* A frame whose done tiles cover the display has no tile left that is not
\* done, because no two tiles share a pixel and none is empty.
LEMMA AllTilesDone ==
  ASSUME NEW D, NEW f,
         \A p \in Region : \E d \in D : d.frameID = f /\ p \in Cover[d.tile],
         D \subseteq Messages
  PROVE  \A m \in Messages : m.frameID = f => m \in D
<1> SUFFICES ASSUME NEW m \in Messages, m.frameID = f PROVE m \in D
  OBVIOUS
<1>1. m.tile \in Tiles
  BY MessageFacts
<1>2. PICK p \in Region : p \in Cover[m.tile]
  BY <1>1, CoverFacts
<1>3. PICK d \in D : d.frameID = f /\ p \in Cover[d.tile]
  BY <1>2
<1>4. d \in Messages /\ d.tile \in Tiles
  BY MessageFacts
<1>5. d.tile = m.tile
  BY <1>1, <1>2, <1>3, <1>4, CoverFacts
<1>6. QED
  BY <1>3, <1>4, <1>5, MessageFacts

\* A thread that has anything to do is past the constructor.
LEMMA BusyMeansStarted ==
  ASSUME IInv, NEW t \in Threads, worker[t].pc # "get"
  PROVE  main \in {"accept", "collect"} /\ currentFrame \in Frames
BY DEF IInv, NothingBeforeStart, StartedOnce, Types

LEMMA MarkPixelsCompletedStep ==
  ASSUME IInv, NEW t \in Threads, MarkPixelsCompleted(t)
  PROVE  IInv'
<1>0. PICK f : f = worker[t].frame
  OBVIOUS
<1> DEFINE m == worker[t].message
           numWritten == Cardinality(Cover[m.tile])
           count == frames[f].numPixelsCompleted + numWritten
           next == IF count = Cardinality(Region) THEN "push" ELSE "get"
<1> USE DEF IInv
<1>1. m \in InHands /\ m \in Messages /\ m.frameID = currentFrame /\ f = currentFrame
  BY <1>0 DEF MarkPixelsCompleted, InHands, Holds, OnePlaceEach, RightPlace, Types, NumbersAgree
<1>2. f \in Frames /\ f \in 0 .. LastFrame /\ m.tile \in Tiles
  BY <1>1, MessageFacts DEF Frames
<1>3. /\ worker[t].pc = "mark"
      /\ frames' = [frames EXCEPT ![f].numPixelsCompleted = @ + numWritten]
      /\ UNCHANGED <<inbox, currentFrame, finishedFrames, main, arrived, delivered>>
  BY <1>0 DEF MarkPixelsCompleted
<1>4. frames[f] \in [pixels: [Region -> {Blank} \cup Frames], numPixelsCompleted: Nat]
  BY <1>2 DEF Types
<1>5. /\ frames'[f] = [frames[f] EXCEPT !.numPixelsCompleted = count]
      /\ \A g \in Frames : g # f => frames'[g] = frames[g]
  BY <1>2, <1>3 DEF Types
<1>6. Cover[m.tile] \subseteq Region /\ IsFiniteSet(Cover[m.tile]) /\ numWritten \in Nat
  BY <1>2, CoverFacts, FS_Subset, FS_CardinalityType
<1>7. /\ frames'[f].numPixelsCompleted = count
      /\ frames'[f].pixels = frames[f].pixels
      /\ frames'[f] \in [pixels: [Region -> {Blank} \cup Frames], numPixelsCompleted: Nat]
  BY <1>4, <1>5, <1>6
<1>8. worker' = [worker EXCEPT ![t].pc = next]
  BY <1>0, <1>7 DEF MarkPixelsCompleted, Goto
<1>9. next \in {"push", "get"}
  OBVIOUS
<1> HIDE DEF m, numWritten, count, next
<1>10. /\ worker'[t].pc = next /\ worker'[t].message = m /\ worker'[t].frame = f
       /\ \A u \in Threads : u # t => worker'[u] = worker[u]
  BY <1>0, <1>8 DEF Types, m
<1>11. \A u \in Threads : ~ Finishing(u)
  BY <1>1 DEF FinisherAlone
<1>12. /\ Holds(t) /\ ~ Holds(t)'
       /\ \A u \in Threads : u # t => (Holds(u)' <=> Holds(u))
       /\ \A u \in Threads : u # t => ~ Finishing(u)'
       /\ Finishing(t)' <=> next = "push"
  BY <1>3, <1>9, <1>10, <1>11 DEF Holds, Finishing
<1>13. Queued' = Queued /\ Deferred' = Deferred
  BY <1>3 DEF Queued, Deferred
<1>14. InHands' = InHands \ {m}
  <2>1. \A u \in Threads : u # t /\ Holds(u) => worker[u].message # m
    BY <1>12 DEF OnePlaceEach, m
  <2>2. QED
    BY <1>10, <1>12, <2>1 DEF InHands, m
<1>15. Done' = Done \cup {m} /\ m \notin Done
  <2>1. m \in arrived /\ m \notin Queued /\ m \notin Deferred
    BY <1>1 DEF OnePlaceEach
  <2>2. QED
    BY <1>1, <1>3, <1>13, <1>14, <2>1 DEF Done
<1>16. \A g \in Frames : g # f => DonePixels(g)' = DonePixels(g)
  BY <1>1, <1>15 DEF DonePixels
<1>17. DonePixels(f)' = DonePixels(f) \cup Cover[m.tile]
  BY <1>1, <1>6, <1>15 DEF DonePixels
<1>18. DonePixels(f) \cap Cover[m.tile] = {}
  <2>1. ASSUME NEW d \in Done, d.frameID = f, NEW p \in Region,
               p \in Cover[d.tile], p \in Cover[m.tile]
        PROVE  FALSE
    <3>1. d \in Messages /\ d.tile \in Tiles
      BY MessageFacts DEF Done, Types
    <3>2. d.tile = m.tile
      BY <1>2, <2>1, <3>1, CoverFacts
    <3>3. QED
      BY <1>1, <1>15, <2>1, <3>1, <3>2, MessageFacts
  <2>2. QED
    BY <2>1 DEF DonePixels
<1>19. /\ DonePixels(f)' \subseteq Region
       /\ IsFiniteSet(DonePixels(f)')
       /\ count = Cardinality(DonePixels(f)')
  <2>1. DonePixels(f) \subseteq Region /\ IsFiniteSet(DonePixels(f))
    BY FS_Subset DEF DonePixels
  <2>2. /\ Cardinality(DonePixels(f) \cup Cover[m.tile]) =
             Cardinality(DonePixels(f)) + numWritten - Cardinality(DonePixels(f) \cap Cover[m.tile])
        /\ IsFiniteSet(DonePixels(f) \cup Cover[m.tile])
    BY <1>6, <2>1, FS_Union DEF numWritten
  <2>3. Cardinality(DonePixels(f) \cap Cover[m.tile]) = 0
    BY <1>18, FS_EmptySet
  <2>4. frames[f].numPixelsCompleted = Cardinality(DonePixels(f))
    BY <1>2 DEF WorkIsDone
  <2>5. QED
    BY <1>4, <1>6, <1>17, <2>1, <2>2, <2>3, <2>4 DEF count
<1>20. ASSUME next = "push"
       PROVE  \A d \in Messages : d.frameID = f => d \in Done'
  <2>1. DonePixels(f)' = Region
    BY <1>19, <1>20, FS_Subset DEF next
  <2>2. \A p \in Region : \E d \in Done' : d.frameID = f /\ p \in Cover[d.tile]
    BY <2>1 DEF DonePixels
  <2>3. Done' \subseteq Messages
    BY <1>1, <1>15 DEF Done, Types
  <2>4. QED
    BY <2>2, <2>3, AllTilesDone
<1>21. main \in {"accept", "collect"}
  BY <1>3, BusyMeansStarted
<1>22. NumFinished' = NumFinished /\ Sealed = NumFinished /\ NumFinished = currentFrame
  <2>1. NumFinished' = NumFinished
    BY <1>3 DEF NumFinished
  <2>2. QED
    BY <1>11, <1>21, <2>1 DEF Sealed, NumbersAgree, Finishing
<1>23. Sealed' = IF next = "push" THEN currentFrame + 1 ELSE currentFrame
  <2>1. \A u \in Threads : u # t => worker'[u].pc # "push"
    BY <1>12 DEF Finishing
  <2>2. QED
    BY <1>10, <1>22, <2>1 DEF Sealed
<1>24. Types'
  <2>1. worker' \in [Threads -> WorkerState]
    <3>1. m \in [frameID: -1 .. LastFrame, tile: Tiles] /\ 0 \in -1 .. LastFrame
      BY <1>1 DEF Messages
    <3>2. QED
      BY <1>8, <1>9, <3>1, WorkerTypes DEF Types
  <2>2. frames' \in [Frames -> [pixels: [Region -> {Blank} \cup Frames],
                                numPixelsCompleted: Nat]]
    BY <1>3, <1>5, <1>7 DEF Types
  <2>3. QED
    BY <1>3, <2>1, <2>2 DEF Types
<1>25. NothingBeforeStart'
  BY <1>3, <1>21 DEF NothingBeforeStart
<1>26. StartedOnce'
  BY <1>3 DEF StartedOnce
<1>27. OnePlaceEach'
  BY <1>3, <1>10, <1>12, <1>13, <1>14 DEF OnePlaceEach
<1>28. RightPlace'
  <2>1. \A d \in Queued' \cup InHands' : d.frameID = currentFrame
    BY <1>13, <1>14 DEF RightPlace
  <2>2. ASSUME NEW d \in Deferred'
        PROVE  d.frameID > inbox.currentFrameID /\ d.frameID >= Sealed'
    <3>1. d \in Messages /\ d.frameID \in Int /\ d \notin Done'
      BY <1>3, <1>13, <2>2, MessageFacts DEF OnePlaceEach, Types, Done
    <3>2. d.frameID > inbox.currentFrameID /\ d.frameID >= currentFrame
      BY <1>13, <1>22, <2>2 DEF RightPlace
    <3>3. next = "push" => d.frameID # currentFrame
      BY <1>1, <1>20, <3>1
    <3>4. QED
      BY <1>1, <1>2, <1>23, <3>1, <3>2, <3>3
  <2>3. QED
    BY <1>3, <2>1, <2>2 DEF RightPlace
<1>29. FinisherAlone'
  <2>1. ASSUME next = "push" PROVE Queued' = {} /\ InHands' = {}
    <3>1. \A d \in Queued' \cup InHands' : d \in Messages /\ d.frameID = f /\ d \notin Done'
      BY <1>1, <1>3, <1>13, <1>14 DEF RightPlace, OnePlaceEach, Types, Done
    <3>2. QED
      BY <1>20, <2>1, <3>1
  <2>2. QED
    BY <1>12, <2>1 DEF FinisherAlone
<1>30. NumbersAgree'
  <2>1. \A u \in Threads : u # t => worker'[u].pc \notin {"push", "setFrame", "startInbox"}
    BY <1>12 DEF Finishing
  <2>2. worker'[t].pc = next /\ next \in {"push", "get"} /\ worker'[t].frame = currentFrame
    BY <1>1, <1>9, <1>10
  <2>3. Sealed' = IF \E u \in Threads : worker'[u].pc \in {"push", "setFrame"}
                    THEN currentFrame + 1 ELSE currentFrame
    BY <1>23, <2>1, <2>2
  <2>4. \A u \in Threads : worker'[u].pc \in {"write", "mark", "push", "setFrame"} =>
                             worker'[u].frame = currentFrame
    BY <1>10, <2>2 DEF NumbersAgree
  <2>5. \A u \in Threads : worker'[u].pc # "startInbox"
    BY <2>1, <2>2
  <2>6. QED
    BY <1>3, <2>3, <2>4, <2>5 DEF NumbersAgree, FramesInOrder
<1>31. WorkIsDone'
  <2>1. ASSUME NEW d \in Messages, d.frameID < Sealed' PROVE d \in Done'
    <3>1. d.frameID \in Int /\ f \in Int
      BY <1>2, MessageFacts
    <3>2. CASE d.frameID < currentFrame
      BY <1>15, <1>22, <3>2 DEF WorkIsDone
    <3>3. CASE d.frameID = currentFrame
      BY <1>1, <1>20, <1>23, <2>1, <3>1, <3>3
    <3>4. QED
      BY <1>1, <1>23, <2>1, <3>1, <3>2, <3>3
  <2>2. ASSUME NEW d \in Done'
        PROVE  /\ d.frameID <= currentFrame
               /\ \A p \in Cover[d.tile] : frames'[d.frameID].pixels[p] = d.frameID
    <3>1. CASE d \in Done
      <4>1. d.frameID \in Frames
        BY <3>1, MessageFacts DEF Done, Types, Frames
      <4>2. frames'[d.frameID].pixels = frames[d.frameID].pixels
        BY <1>5, <1>7, <4>1
      <4>3. QED
        BY <3>1, <4>2 DEF WorkIsDone
    <3>2. CASE d = m
      BY <1>1, <1>2, <1>3, <1>7, <3>2 DEF WorkIsDone, m
    <3>3. QED
      BY <1>15, <3>1, <3>2
  <2>3. \A u \in Threads : worker'[u].pc = "mark" =>
          \A p \in Cover[worker'[u].message.tile] : frames'[currentFrame].pixels[p] = currentFrame
    BY <1>1, <1>7, <1>9, <1>10 DEF WorkIsDone
  <2>4. \A g \in Frames : frames'[g].numPixelsCompleted = Cardinality(DonePixels(g)')
    BY <1>5, <1>7, <1>16, <1>19 DEF WorkIsDone
  <2>5. QED
    BY <1>3, <2>1, <2>2, <2>3, <2>4 DEF WorkIsDone
<1>32. QED
  BY <1>24, <1>25, <1>26, <1>27, <1>28, <1>29, <1>30, <1>31

\* While a thread finishes a frame every other thread waits for a tile.
LEMMA OthersWait ==
  ASSUME IInv, NEW t \in Threads, Finishing(t)
  PROVE  \A u \in Threads : u # t => worker[u].pc = "get" /\ ~ Holds(u) /\ ~ Finishing(u)
<1> SUFFICES ASSUME NEW u \in Threads, u # t
             PROVE  worker[u].pc = "get" /\ ~ Holds(u) /\ ~ Finishing(u)
  OBVIOUS
<1>1. ~ Finishing(u)
  BY DEF IInv, FinisherAlone
<1>2. ~ Holds(u)
  BY DEF IInv, FinisherAlone, InHands
<1>3. worker[u].pc \in {"get", "fetch", "write", "mark", "push", "setFrame", "startInbox"}
  BY DEF IInv, Types, WorkerState
<1>4. QED
  BY <1>1, <1>2, <1>3 DEF Holds, Finishing

LEMMA PushFinishedStep ==
  ASSUME IInv, NEW t \in Threads, PushFinished(t)
  PROVE  IInv'
<1> DEFINE f == worker[t].frame
<1> USE DEF IInv
<1>1. /\ worker[t].pc = "push"
      /\ worker' = [worker EXCEPT ![t].pc = "setFrame"]
      /\ finishedFrames' = Append(finishedFrames, f)
      /\ UNCHANGED <<inbox, currentFrame, frames, main, arrived, delivered>>
  BY DEF PushFinished, Goto
<1>2. /\ worker'[t].pc = "setFrame" /\ worker'[t].message = worker[t].message
      /\ worker'[t].frame = worker[t].frame
      /\ \A u \in Threads : u # t => worker'[u] = worker[u]
  BY <1>1 DEF Types
<1>3. \A u \in Threads : u # t => worker[u].pc = "get" /\ ~ Holds(u) /\ ~ Finishing(u)
  BY <1>1, OthersWait DEF Finishing
<1>4. /\ \A u \in Threads : Holds(u)' <=> Holds(u)
      /\ \A u \in Threads : Finishing(u)' <=> Finishing(u)
      /\ \A u \in Threads : worker'[u].message = worker[u].message
  BY <1>1, <1>2 DEF Holds, Finishing
<1>5. Queued' = Queued /\ Deferred' = Deferred /\ InHands' = InHands
  BY <1>1, <1>4, SameHands DEF Queued, Deferred
<1>6. Done' = Done /\ \A g : DonePixels(g)' = DonePixels(g)
  BY <1>1, <1>5, SameDone
<1>7. main \in {"accept", "collect"} /\ currentFrame \in Frames
  BY <1>1, BusyMeansStarted
<1>8. f = currentFrame /\ f \in 0 .. LastFrame
  BY <1>1, <1>7 DEF NumbersAgree, Types, WorkerState, Frames
<1>9. /\ finishedFrames \in Seq(0 .. LastFrame)
      /\ finishedFrames' \in Seq(0 .. LastFrame)
      /\ Len(finishedFrames') = Len(finishedFrames) + 1
      /\ \A i \in 1 .. Len(finishedFrames) : finishedFrames'[i] = finishedFrames[i]
      /\ finishedFrames'[Len(finishedFrames) + 1] = f
      /\ Len(finishedFrames) \in Nat
      /\ DOMAIN finishedFrames = 1 .. Len(finishedFrames)
      /\ DOMAIN finishedFrames' = 1 .. Len(finishedFrames')
  BY <1>1, <1>8, AppendProperties, LenProperties DEF Types
<1>10. NumFinished' = NumFinished + 1 /\ NumFinished \in Nat
  <2>1. delivered \in Nat
    BY DEF Types
  <2>2. QED
    BY <1>1, <1>9, <2>1 DEF NumFinished
<1>11. Sealed = NumFinished + 1 /\ Sealed = currentFrame + 1
  BY <1>1, <1>7 DEF Sealed, NumbersAgree
<1>12. Sealed' = Sealed
  BY <1>2, <1>3, <1>10, <1>11 DEF Sealed
<1> HIDE DEF f
<1>13. Types'
  <2>1. worker' \in [Threads -> WorkerState]
    <3>1. worker[t].message \in [frameID: -1 .. LastFrame, tile: Tiles] /\ 0 \in -1 .. LastFrame
      BY DEF Types, WorkerState
    <3>2. QED
      BY <1>1, <3>1, WorkerTypes DEF Types
  <2>2. QED
    BY <1>1, <1>9, <2>1 DEF Types
<1>14. NothingBeforeStart'
  BY <1>1, <1>7 DEF NothingBeforeStart
<1>15. StartedOnce'
  BY <1>1 DEF StartedOnce
<1>16. OnePlaceEach'
  BY <1>1, <1>4, <1>5 DEF OnePlaceEach
<1>17. RightPlace'
  BY <1>1, <1>5, <1>12 DEF RightPlace
<1>18. FinisherAlone'
  BY <1>4, <1>5 DEF FinisherAlone
<1>19. NumbersAgree'
  <2>1. FramesInOrder'
    <3>1. ASSUME NEW i \in 1 .. Len(finishedFrames')
          PROVE  finishedFrames'[i] = delivered + i - 1
      <4>1. CASE i <= Len(finishedFrames)
        BY <1>9, <4>1 DEF NumbersAgree, FramesInOrder
      <4>2. CASE i = Len(finishedFrames) + 1
        BY <1>8, <1>9, <1>10, <1>11, <4>2 DEF NumFinished, Types
      <4>3. QED
        BY <1>9, <4>1, <4>2
    <3>2. QED
      BY <1>1, <1>9, <3>1 DEF FramesInOrder
  <2>2. \A u \in Threads : u # t => worker'[u].pc = "get"
    BY <1>2, <1>3
  <2>3. worker'[t].frame = currentFrame
    BY <1>2, <1>8 DEF f
  <2>4. QED
    BY <1>1, <1>2, <1>11, <1>12, <2>1, <2>2, <2>3 DEF NumbersAgree
<1>20. WorkIsDone'
  BY <1>1, <1>2, <1>6, <1>12 DEF WorkIsDone
<1>21. QED
  BY <1>13, <1>14, <1>15, <1>16, <1>17, <1>18, <1>19, <1>20

\* An empty frame is a frame.
LEMMA NewFrameType ==
  /\ NewFrame \in [pixels: [Region -> {Blank} \cup Frames], numPixelsCompleted: Nat]
  /\ NewFrame.numPixelsCompleted = 0
BY DEF NewFrame

LEMMA SetNextFrameStep ==
  ASSUME IInv, NEW t \in Threads, SetNextFrame(t)
  PROVE  IInv'
<1>0. PICK f : f = worker[t].frame
  OBVIOUS
<1> USE DEF IInv
<1>1. /\ worker[t].pc = "setFrame"
      /\ worker' = [worker EXCEPT ![t].pc = "startInbox"]
      /\ currentFrame' = f + 1
      /\ frames' = [frames EXCEPT ![f + 1] = NewFrame]
      /\ UNCHANGED <<inbox, finishedFrames, main, arrived, delivered>>
  BY <1>0 DEF SetNextFrame, SetCurrentFrame, Goto
<1>2. /\ worker'[t].pc = "startInbox" /\ worker'[t].message = worker[t].message
      /\ worker'[t].frame = f
      /\ \A u \in Threads : u # t => worker'[u] = worker[u]
  BY <1>0, <1>1 DEF Types
<1>3. \A u \in Threads : u # t => worker[u].pc = "get" /\ ~ Holds(u) /\ ~ Finishing(u)
  BY <1>1, OthersWait DEF Finishing
<1>4. /\ \A u \in Threads : Holds(u)' <=> Holds(u)
      /\ \A u \in Threads : Finishing(u)' <=> Finishing(u)
      /\ \A u \in Threads : worker'[u].message = worker[u].message
  BY <1>1, <1>2 DEF Holds, Finishing
<1>5. Queued' = Queued /\ Deferred' = Deferred /\ InHands' = InHands
  BY <1>1, <1>4, SameHands DEF Queued, Deferred
<1>6. Done' = Done /\ \A g : DonePixels(g)' = DonePixels(g)
  BY <1>1, <1>5, SameDone
<1>7. main \in {"accept", "collect"} /\ currentFrame \in Frames
  BY <1>1, BusyMeansStarted
<1>8. f = currentFrame /\ f \in 0 .. LastFrame /\ f + 1 \in Frames
  BY <1>0, <1>1, <1>7 DEF NumbersAgree, Types, WorkerState, Frames
<1>9. Queued = {} /\ InHands = {}
  BY <1>1 DEF FinisherAlone, Finishing
<1>10. Sealed = currentFrame + 1
  BY <1>1, <1>7 DEF NumbersAgree
<1>11. Sealed' = Sealed
  <2>1. worker'[t].pc # "push" /\ worker[t].pc # "push"
    BY <1>1, <1>2
  <2>2. \A u \in Threads : worker'[u].pc = "push" <=> worker[u].pc = "push"
    BY <1>2, <2>1
  <2>3. QED
    BY <1>1, <2>2, SameSealed
<1>12. /\ frames'[f + 1] = NewFrame
       /\ \A g \in Frames : g # f + 1 => frames'[g] = frames[g]
  BY <1>1, <1>8 DEF Types
<1>13. Types'
  <2>1. worker' \in [Threads -> WorkerState]
    <3>1. worker[t].message \in [frameID: -1 .. LastFrame, tile: Tiles] /\ 0 \in -1 .. LastFrame
      BY DEF Types, WorkerState
    <3>2. QED
      BY <1>1, <3>1, WorkerTypes DEF Types
  <2>2. frames' \in [Frames -> [pixels: [Region -> {Blank} \cup Frames],
                                numPixelsCompleted: Nat]]
    BY <1>1, NewFrameType DEF Types
  <2>3. QED
    BY <1>1, <1>8, <2>1, <2>2 DEF Types
<1>14. NothingBeforeStart'
  BY <1>1, <1>7 DEF NothingBeforeStart
<1>15. StartedOnce'
  BY <1>1, <1>8 DEF StartedOnce
<1>16. OnePlaceEach'
  BY <1>1, <1>4, <1>5 DEF OnePlaceEach
<1>17. RightPlace'
  BY <1>1, <1>5, <1>9, <1>11 DEF RightPlace
<1>18. FinisherAlone'
  BY <1>4, <1>5 DEF FinisherAlone
<1>19. NumbersAgree'
  <2>1. FramesInOrder'
    BY <1>1 DEF NumbersAgree, FramesInOrder
  <2>2. \A u \in Threads : u # t => worker'[u].pc = "get"
    BY <1>2, <1>3
  <2>3. inbox.currentFrameID <= f /\ inbox.currentFrameID \in Int
    BY <1>8 DEF NumbersAgree, Types, Frames
  <2>4. QED
    BY <1>1, <1>2, <1>8, <1>10, <1>11, <2>1, <2>2, <2>3 DEF NumbersAgree
<1>20. WorkIsDone'
  <2>1. \A d \in Done : d.frameID \in Frames /\ d.frameID \in Int /\ d.frameID <= f
    BY <1>8, MessageFacts DEF WorkIsDone, Done, Types, Frames
  <2>2. ASSUME NEW d \in Done
        PROVE  /\ d.frameID <= f + 1
               /\ \A p \in Cover[d.tile] : frames'[d.frameID].pixels[p] = d.frameID
    <3>1. d.frameID # f + 1 /\ d.frameID <= f + 1
      BY <1>8, <2>1
    <3>2. QED
      BY <1>12, <2>1, <3>1 DEF WorkIsDone
  <2>3. DonePixels(f + 1) = {}
    BY <1>8, <2>1 DEF DonePixels
  <2>4. \A g \in Frames : frames'[g].numPixelsCompleted = Cardinality(DonePixels(g))
    BY <1>12, <2>3, NewFrameType, FS_EmptySet DEF WorkIsDone
  <2>5. \A u \in Threads : worker'[u].pc # "mark"
    BY <1>2, <1>3
  <2>6. QED
    BY <1>1, <1>6, <1>11, <2>2, <2>4, <2>5 DEF WorkIsDone
<1>21. QED
  BY <1>13, <1>14, <1>15, <1>16, <1>17, <1>18, <1>19, <1>20

\* What startNewFrame(f) does to the messages in the mailbox.
LEMMA RestartedInbox ==
  ASSUME IInv, NEW f \in Int, inbox' = StartNewFrame(inbox, f)
  PROVE  /\ inbox' \in Mailbox(Messages)
         /\ inbox'.currentFrameID = f
         /\ Queued' = Queued \cup {d \in Deferred : d.frameID = f}
         /\ Deferred' = {d \in Deferred : d.frameID > f}
         /\ NoDuplicates(inbox')
<1>1. inbox \in Mailbox(Messages) /\ NoDuplicates(inbox)
  BY DEF IInv, Types, OnePlaceEach
<1> DEFINE nb == StartNewFrame(inbox, f)
<1>2. /\ nb \in Mailbox(Messages)
      /\ nb.currentFrameID = f
      /\ Range(nb.messages) =
           Range(inbox.messages) \cup {d \in Range(inbox.futureFrameMessages) : d.frameID = f}
      /\ Range(nb.futureFrameMessages) = {d \in Range(inbox.futureFrameMessages) : d.frameID > f}
      /\ NoDuplicates(nb)
  BY <1>1, StartNewFrameFacts
<1>3. inbox' = nb
  OBVIOUS
<1> HIDE DEF nb
<1>4. QED
  BY <1>2, <1>3 DEF Queued, Deferred

LEMMA StartInboxStep ==
  ASSUME IInv, NEW t \in Threads, StartInbox(t)
  PROVE  IInv'
<1>0. PICK f : f = worker[t].frame
  OBVIOUS
<1> USE DEF IInv
<1>1. /\ worker[t].pc = "startInbox"
      /\ worker' = [worker EXCEPT ![t].pc = "get"]
      /\ inbox' = StartNewFrame(inbox, f + 1)
      /\ UNCHANGED <<currentFrame, frames, finishedFrames, main, arrived, delivered>>
  BY <1>0 DEF StartInbox, Goto
<1>2. /\ worker'[t].pc = "get" /\ worker'[t].message = worker[t].message
      /\ \A u \in Threads : u # t => worker'[u] = worker[u]
  BY <1>1 DEF Types
<1>3. \A u \in Threads : u # t => worker[u].pc = "get" /\ ~ Holds(u) /\ ~ Finishing(u)
  BY <1>1, OthersWait DEF Finishing
<1>4. /\ \A u \in Threads : Holds(u)' <=> Holds(u)
      /\ \A u \in Threads : worker'[u].pc = "get" /\ ~ Finishing(u)'
      /\ \A u \in Threads : worker'[u].message = worker[u].message
  BY <1>1, <1>2, <1>3 DEF Holds, Finishing
<1>5. InHands' = InHands
  BY <1>4, SameHands
<1>6. main \in {"accept", "collect"} /\ currentFrame \in Frames
  BY <1>1, BusyMeansStarted
<1>7. f + 1 = currentFrame /\ f + 1 \in Int
  BY <1>0, <1>1, <1>6 DEF NumbersAgree, Types, WorkerState, Frames
<1>8. Queued = {} /\ InHands = {}
  BY <1>1 DEF FinisherAlone, Finishing
<1>9. \A u \in Threads : worker[u].pc \notin {"push", "setFrame"}
  BY <1>1, <1>3
<1>10. Sealed = currentFrame
  BY <1>6, <1>9 DEF NumbersAgree
<1>11. Sealed' = Sealed
  <2>1. \A u \in Threads : worker'[u].pc = "push" <=> worker[u].pc = "push"
    BY <1>4, <1>9
  <2>2. QED
    BY <1>1, <2>1, SameSealed
<1>12. /\ inbox' \in Mailbox(Messages)
       /\ inbox'.currentFrameID = f + 1
       /\ Queued' = Queued \cup {d \in Deferred : d.frameID = f + 1}
       /\ Deferred' = {d \in Deferred : d.frameID > f + 1}
       /\ NoDuplicates(inbox')
  BY <1>1, <1>7, RestartedInbox
<1>13. \A d \in Deferred : d \in Messages /\ d.frameID \in Int /\ d.frameID >= f + 1
  BY <1>7, <1>10, MessageFacts DEF RightPlace, OnePlaceEach, Types
<1>14. Queued' \cup Deferred' = Queued \cup Deferred
  BY <1>7, <1>12, <1>13
<1>15. Done' = Done /\ \A g : DonePixels(g)' = DonePixels(g)
  BY <1>1, <1>5, <1>14, SameDone
<1>16. Types'
  <2>1. worker' \in [Threads -> WorkerState]
    <3>1. worker[t].message \in [frameID: -1 .. LastFrame, tile: Tiles] /\ 0 \in -1 .. LastFrame
      BY DEF Types, WorkerState
    <3>2. QED
      BY <1>1, <3>1, WorkerTypes DEF Types
  <2>2. QED
    BY <1>1, <1>6, <1>7, <1>12, <2>1 DEF Types
<1>17. NothingBeforeStart'
  BY <1>1, <1>6 DEF NothingBeforeStart
<1>18. StartedOnce'
  BY <1>1, <1>7, <1>12 DEF StartedOnce
<1>19. OnePlaceEach'
  BY <1>1, <1>4, <1>5, <1>12, <1>14 DEF OnePlaceEach
<1>20. RightPlace'
  <2>1. \A d \in Queued' \cup InHands' : d.frameID = currentFrame
    BY <1>5, <1>7, <1>8, <1>12
  <2>2. \A d \in Deferred' : d.frameID > inbox'.currentFrameID /\ d.frameID >= Sealed
    BY <1>7, <1>10, <1>12, <1>13
  <2>3. QED
    BY <1>1, <1>11, <2>1, <2>2 DEF RightPlace
<1>21. FinisherAlone'
  BY <1>4 DEF FinisherAlone
<1>22. NumbersAgree'
  <2>1. FramesInOrder'
    BY <1>1 DEF NumbersAgree, FramesInOrder
  <2>2. QED
    BY <1>1, <1>4, <1>6, <1>7, <1>10, <1>11, <1>12, <2>1 DEF NumbersAgree, Frames
<1>23. WorkIsDone'
  BY <1>1, <1>4, <1>11, <1>15 DEF WorkIsDone
<1>24. QED
  BY <1>16, <1>17, <1>18, <1>19, <1>20, <1>21, <1>22, <1>23

-----------------------------------------------------------------------------
(* The steps of the main thread.                                           *)

\* The assembler threads' part of the state is what it was.
LEMMA SameWorkers ==
  ASSUME worker' = worker
  PROVE  /\ InHands' = InHands
         /\ \A u \in Threads : (Holds(u)' <=> Holds(u)) /\ (Finishing(u)' <=> Finishing(u))
BY DEF InHands, Holds, Finishing

LEMMA ConstructSetFrameStep ==
  ASSUME IInv, ConstructSetFrame
  PROVE  IInv'
<1> USE DEF IInv
<1>1. /\ main = "construct" /\ main' = "constructInbox"
      /\ currentFrame' = 0
      /\ frames' = [frames EXCEPT ![0] = NewFrame]
      /\ UNCHANGED <<inbox, finishedFrames, worker, arrived, delivered>>
  BY DEF ConstructSetFrame, SetCurrentFrame
<1>2. /\ inbox = EmptyMailbox /\ finishedFrames = <<>> /\ arrived = {}
      /\ delivered = 0 /\ currentFrame = -1
      /\ \A t \in Threads : worker[t].pc = "get"
  BY <1>1 DEF NothingBeforeStart
<1>3. /\ InHands' = InHands /\ Queued' = Queued /\ Deferred' = Deferred
      /\ \A u \in Threads : (Holds(u)' <=> Holds(u)) /\ (Finishing(u)' <=> Finishing(u))
  BY <1>1, SameWorkers DEF Queued, Deferred
<1>4. Done' = {} /\ Queued = {} /\ InHands = {} /\ Deferred = {}
  BY <1>1, <1>2 DEF Done, OnePlaceEach
<1>5. \A g : DonePixels(g)' = {}
  BY <1>4 DEF DonePixels
<1>6. Sealed' = 0
  BY <1>1, <1>2 DEF Sealed, NumFinished
<1>7. 0 \in Frames
  BY DEF Frames
<1>8. Types'
  <2>1. frames' \in [Frames -> [pixels: [Region -> {Blank} \cup Frames],
                                numPixelsCompleted: Nat]]
    BY <1>1, NewFrameType DEF Types
  <2>2. QED
    BY <1>1, <1>7, <2>1 DEF Types
<1>9. NothingBeforeStart'
  BY <1>1, <1>2 DEF NothingBeforeStart
<1>10. StartedOnce'
  BY <1>1 DEF StartedOnce
<1>11. OnePlaceEach'
  BY <1>1, <1>3 DEF OnePlaceEach
<1>12. RightPlace'
  BY <1>3, <1>4 DEF RightPlace
<1>13. FinisherAlone'
  BY <1>3 DEF FinisherAlone
<1>14. NumbersAgree'
  BY <1>1, <1>2, <1>6 DEF NumbersAgree, FramesInOrder, EmptyMailbox
<1>15. WorkIsDone'
  <2>1. ASSUME NEW g \in Frames
        PROVE  frames'[g].numPixelsCompleted = Cardinality(DonePixels(g)')
    <3>1. DonePixels(g) = {}
      BY <1>2 DEF DonePixels, Done
    <3>2. frames[g].numPixelsCompleted = 0
      BY <3>1, FS_EmptySet DEF WorkIsDone
    <3>3. frames'[g].numPixelsCompleted = 0
      BY <1>1, <3>2, NewFrameType DEF Types
    <3>4. QED
      BY <1>5, <3>3, FS_EmptySet
  <2>2. \A m \in Messages : ~ (m.frameID < 0)
    BY MessageFacts
  <2>3. QED
    BY <1>1, <1>2, <1>4, <1>6, <2>1, <2>2 DEF WorkIsDone
<1>16. QED
  BY <1>8, <1>9, <1>10, <1>11, <1>12, <1>13, <1>14, <1>15

LEMMA ConstructStartInboxStep ==
  ASSUME IInv, ConstructStartInbox
  PROVE  IInv'
<1> USE DEF IInv
<1>1. /\ main = "constructInbox" /\ main' = "accept"
      /\ inbox' = StartNewFrame(inbox, 0)
      /\ UNCHANGED <<currentFrame, frames, finishedFrames, worker, arrived, delivered>>
  BY DEF ConstructStartInbox
<1>2. /\ arrived = {} /\ currentFrame = 0
      /\ \A t \in Threads : worker[t].pc = "get"
  BY <1>1 DEF NothingBeforeStart
<1>3. /\ InHands' = InHands
      /\ \A u \in Threads : (Holds(u)' <=> Holds(u)) /\ (Finishing(u)' <=> Finishing(u))
  BY <1>1, SameWorkers
<1>4. Queued = {} /\ InHands = {} /\ Deferred = {}
  BY <1>2 DEF OnePlaceEach
<1>5. /\ inbox' \in Mailbox(Messages)
      /\ inbox'.currentFrameID = 0
      /\ Queued' = {} /\ Deferred' = {}
      /\ NoDuplicates(inbox')
  BY <1>1, <1>4, RestartedInbox
<1>6. Done' = Done /\ \A g : DonePixels(g)' = DonePixels(g)
  BY <1>1, <1>3, <1>4, <1>5, SameDone
<1>7. NumFinished' = NumFinished /\ Sealed' = Sealed
  BY <1>1, SameSealed
<1>8. Types'
  BY <1>1, <1>5 DEF Types, Frames
<1>9. NothingBeforeStart'
  BY <1>1 DEF NothingBeforeStart
<1>10. StartedOnce'
  BY <1>1, <1>2, <1>5 DEF StartedOnce
<1>11. OnePlaceEach'
  BY <1>1, <1>3, <1>4, <1>5 DEF OnePlaceEach
<1>12. RightPlace'
  BY <1>3, <1>4, <1>5 DEF RightPlace
<1>13. FinisherAlone'
  BY <1>3, <1>4, <1>5 DEF FinisherAlone
<1>14. NumbersAgree'
  BY <1>1, <1>2, <1>5, <1>7 DEF NumbersAgree, FramesInOrder
<1>15. WorkIsDone'
  BY <1>1, <1>6, <1>7 DEF WorkIsDone
<1>16. QED
  BY <1>8, <1>9, <1>10, <1>11, <1>12, <1>13, <1>14, <1>15

\* Whenever it comes, startNewFrame(0) loses no tile: it lets nothing
\* through and only makes the mailbox defer what it should let through.
LEMMA AcceptTilesStep ==
  ASSUME IInv, AcceptTiles
  PROVE  IInv'
<1> USE DEF IInv
<1>1. /\ main = "accept" /\ main' = "collect"
      /\ inbox' = StartNewFrame(inbox, 0)
      /\ UNCHANGED <<currentFrame, frames, finishedFrames, worker, arrived, delivered>>
  BY DEF AcceptTiles
<1>2. /\ InHands' = InHands
      /\ \A u \in Threads : (Holds(u)' <=> Holds(u)) /\ (Finishing(u)' <=> Finishing(u))
  BY <1>1, SameWorkers
<1>3. \A d \in Deferred : d \in Messages /\ d.frameID \in Int /\ d.frameID > 0
  <2>1. inbox.currentFrameID \in Int /\ inbox.currentFrameID >= 0
    BY <1>1 DEF StartedOnce, Types, Frames
  <2>2. QED
    BY <2>1, MessageFacts DEF RightPlace, OnePlaceEach, Types
<1>4. /\ inbox' \in Mailbox(Messages)
      /\ inbox'.currentFrameID = 0
      /\ Queued' = Queued \cup {d \in Deferred : d.frameID = 0}
      /\ Deferred' = {d \in Deferred : d.frameID > 0}
      /\ NoDuplicates(inbox')
  BY <1>1, RestartedInbox
<1>5. Queued' = Queued /\ Deferred' = Deferred
  BY <1>3, <1>4
<1>6. Done' = Done /\ \A g : DonePixels(g)' = DonePixels(g)
  BY <1>1, <1>2, <1>5, SameDone
<1>7. NumFinished' = NumFinished /\ Sealed' = Sealed
  BY <1>1, SameSealed
<1>8. Types'
  BY <1>1, <1>4 DEF Types, Frames
<1>9. NothingBeforeStart'
  BY <1>1 DEF NothingBeforeStart
<1>10. StartedOnce'
  BY <1>1, <1>4 DEF StartedOnce
<1>11. OnePlaceEach'
  BY <1>1, <1>2, <1>4, <1>5 DEF OnePlaceEach
<1>12. RightPlace'
  BY <1>1, <1>2, <1>3, <1>4, <1>5, <1>7 DEF RightPlace
<1>13. FinisherAlone'
  BY <1>2, <1>5 DEF FinisherAlone
<1>14. NumbersAgree'
  <2>1. ASSUME NEW u \in Threads, worker[u].pc = "startInbox"
        PROVE  0 <= worker[u].frame
    <3>1. inbox.currentFrameID \in Int /\ inbox.currentFrameID >= 0
      BY <1>1 DEF StartedOnce, Types, Frames
    <3>2. inbox.currentFrameID <= worker[u].frame /\ worker[u].frame \in Int
      BY <2>1 DEF NumbersAgree, Types, WorkerState
    <3>3. QED
      BY <3>1, <3>2
  <2>2. FramesInOrder'
    BY <1>1 DEF NumbersAgree, FramesInOrder
  <2>3. currentFrame >= 0
    BY <1>1 DEF StartedOnce
  <2>4. QED
    BY <1>1, <1>4, <1>7, <2>1, <2>2, <2>3 DEF NumbersAgree
<1>15. WorkIsDone'
  BY <1>1, <1>6, <1>7 DEF WorkIsDone
<1>16. QED
  BY <1>8, <1>9, <1>10, <1>11, <1>12, <1>13, <1>14, <1>15

LEMMA CollectAssembledFrameStep ==
  ASSUME IInv, CollectAssembledFrame
  PROVE  IInv'
<1> USE DEF IInv
<1>1. /\ main = "collect" /\ finishedFrames # <<>>
      /\ finishedFrames' = Tail(finishedFrames)
      /\ delivered' = delivered + 1
      /\ UNCHANGED <<inbox, currentFrame, frames, worker, main, arrived>>
  BY DEF CollectAssembledFrame
<1>2. delivered \in Nat /\ finishedFrames \in Seq(0 .. LastFrame)
  BY DEF Types
<1>3. /\ finishedFrames' \in Seq(0 .. LastFrame)
      /\ Len(finishedFrames) \in Nat
      /\ Len(finishedFrames') = Len(finishedFrames) - 1
      /\ \A i \in 1 .. Len(finishedFrames') : finishedFrames'[i] = finishedFrames[i + 1]
      /\ DOMAIN finishedFrames = 1 .. Len(finishedFrames)
      /\ DOMAIN finishedFrames' = 1 .. Len(finishedFrames')
  BY <1>1, <1>2, HeadTailProperties, LenProperties
<1>4. NumFinished' = NumFinished
  BY <1>1, <1>2, <1>3 DEF NumFinished
<1>5. Sealed' = Sealed
  BY <1>1, <1>4 DEF Sealed
<1>6. /\ InHands' = InHands /\ Queued' = Queued /\ Deferred' = Deferred
      /\ \A u \in Threads : (Holds(u)' <=> Holds(u)) /\ (Finishing(u)' <=> Finishing(u))
  BY <1>1, SameWorkers DEF Queued, Deferred
<1>7. Done' = Done /\ \A g : DonePixels(g)' = DonePixels(g)
  BY <1>1, <1>6, SameDone
<1>8. Types'
  <2>1. delivered' \in Nat
    BY <1>1, <1>2
  <2>2. QED
    BY <1>1, <1>3, <2>1 DEF Types
<1>9. NothingBeforeStart'
  BY <1>1 DEF NothingBeforeStart
<1>10. StartedOnce'
  BY <1>1 DEF StartedOnce
<1>11. OnePlaceEach'
  BY <1>1, <1>6 DEF OnePlaceEach
<1>12. RightPlace'
  BY <1>1, <1>5, <1>6 DEF RightPlace
<1>13. FinisherAlone'
  BY <1>6 DEF FinisherAlone
<1>14. NumbersAgree'
  <2>1. ASSUME NEW i \in 1 .. Len(finishedFrames')
        PROVE  finishedFrames'[i] = delivered' + i - 1
    <3>1. i + 1 \in DOMAIN finishedFrames /\ finishedFrames'[i] = finishedFrames[i + 1]
      BY <1>3
    <3>2. finishedFrames[i + 1] = delivered + (i + 1) - 1
      BY <3>1 DEF NumbersAgree, FramesInOrder
    <3>3. QED
      BY <1>1, <1>2, <3>1, <3>2
  <2>2. FramesInOrder'
    BY <1>3, <2>1 DEF FramesInOrder
  <2>3. QED
    BY <1>1, <1>5, <2>2 DEF NumbersAgree
<1>15. WorkIsDone'
  BY <1>1, <1>5, <1>7 DEF WorkIsDone
<1>16. QED
  BY <1>8, <1>9, <1>10, <1>11, <1>12, <1>13, <1>14, <1>15

-----------------------------------------------------------------------------
(* The step of the network.                                                *)

\* A tile that arrives is never of a frame the mailbox is past.
LEMMA PutTileStep ==
  ASSUME IInv, NEW m \in Messages, PutTile(m)
  PROVE  IInv'
<1> USE DEF IInv
<1>1. /\ main \in {"accept", "collect"} /\ m \notin arrived
      /\ arrived' = arrived \cup {m}
      /\ inbox' = LockedPut(inbox, m)
      /\ UNCHANGED <<currentFrame, frames, finishedFrames, worker, main, delivered>>
  BY DEF PutTile
<1>2. /\ m.frameID \in Int
      /\ m \notin Queued /\ m \notin Deferred /\ m \notin InHands /\ m \notin Done
  BY <1>1, MessageFacts DEF OnePlaceEach, Done
<1>3. /\ currentFrame \in Int /\ inbox.currentFrameID \in Int
      /\ inbox.currentFrameID <= currentFrame
      /\ Sealed = currentFrame \/ Sealed = currentFrame + 1
  BY <1>1 DEF NumbersAgree, Types, Frames
<1>4. m.frameID >= Sealed
  BY <1>2, <1>3 DEF WorkIsDone
<1>5. /\ inbox' \in Mailbox(Messages)
      /\ inbox'.currentFrameID = inbox.currentFrameID
      /\ Queued' = IF m.frameID = inbox.currentFrameID THEN Queued \cup {m} ELSE Queued
      /\ Deferred' = IF m.frameID > inbox.currentFrameID THEN Deferred \cup {m} ELSE Deferred
      /\ NoDuplicates(inbox')
  <2>1. inbox \in Mailbox(Messages) /\ NoDuplicates(inbox)
    BY DEF Types, OnePlaceEach
  <2> DEFINE nb == LockedPut(inbox, m)
  <2>2. /\ nb \in Mailbox(Messages)
        /\ nb.currentFrameID = inbox.currentFrameID
        /\ Range(nb.messages) = IF m.frameID = inbox.currentFrameID
                                  THEN Queued \cup {m} ELSE Queued
        /\ Range(nb.futureFrameMessages) = IF m.frameID > inbox.currentFrameID
                                             THEN Deferred \cup {m} ELSE Deferred
        /\ NoDuplicates(nb)
    BY <1>2, <2>1, LockedPutFacts DEF Queued, Deferred
  <2>3. inbox' = nb
    BY <1>1
  <2> HIDE DEF nb
  <2>4. QED
    BY <2>2, <2>3 DEF Queued, Deferred
<1>6. m.frameID = inbox.currentFrameID \/ m.frameID > inbox.currentFrameID
  BY <1>2, <1>3, <1>4
<1>7. Queued' \cup Deferred' = Queued \cup Deferred \cup {m}
  BY <1>5, <1>6
<1>8. m.frameID = inbox.currentFrameID =>
        m.frameID = currentFrame /\ \A u \in Threads : ~ Finishing(u)
  <2> SUFFICES ASSUME m.frameID = inbox.currentFrameID
               PROVE  m.frameID = currentFrame /\ \A u \in Threads : ~ Finishing(u)
    OBVIOUS
  <2>1. m.frameID = currentFrame /\ Sealed = currentFrame
    BY <1>2, <1>3, <1>4
  <2>2. \A u \in Threads : worker[u].pc \notin {"push", "setFrame"}
    BY <1>1, <1>3, <2>1 DEF NumbersAgree
  <2>3. ASSUME NEW u \in Threads, worker[u].pc = "startInbox" PROVE FALSE
    BY <1>3, <2>1, <2>3 DEF NumbersAgree
  <2>4. QED
    BY <2>1, <2>2, <2>3 DEF Finishing
<1>9. /\ InHands' = InHands
      /\ \A u \in Threads : (Holds(u)' <=> Holds(u)) /\ (Finishing(u)' <=> Finishing(u))
  BY <1>1, SameWorkers
<1>10. Done' = Done /\ \A g : DonePixels(g)' = DonePixels(g)
  <2>1. Done' = Done
    BY <1>1, <1>2, <1>7, <1>9 DEF Done
  <2>2. QED
    BY <2>1 DEF DonePixels
<1>11. NumFinished' = NumFinished /\ Sealed' = Sealed
  BY <1>1, SameSealed
<1>12. Types'
  BY <1>1, <1>5 DEF Types
<1>13. NothingBeforeStart'
  BY <1>1 DEF NothingBeforeStart
<1>14. StartedOnce'
  BY <1>1, <1>5 DEF StartedOnce
<1>15. OnePlaceEach'
  BY <1>1, <1>2, <1>5, <1>7, <1>9 DEF OnePlaceEach
<1>16. RightPlace'
  <2>1. \A d \in Queued' \cup InHands' : d.frameID = currentFrame
    BY <1>5, <1>8, <1>9 DEF RightPlace
  <2>2. \A d \in Deferred' : d.frameID > inbox.currentFrameID /\ d.frameID >= Sealed
    BY <1>4, <1>5 DEF RightPlace
  <2>3. QED
    BY <1>1, <1>5, <1>11, <2>1, <2>2 DEF RightPlace
<1>17. FinisherAlone'
  BY <1>5, <1>8, <1>9 DEF FinisherAlone
<1>18. NumbersAgree'
  BY <1>1, <1>5, <1>11 DEF NumbersAgree, FramesInOrder
<1>19. WorkIsDone'
  BY <1>1, <1>10, <1>11 DEF WorkIsDone
<1>20. QED
  BY <1>12, <1>13, <1>14, <1>15, <1>16, <1>17, <1>18, <1>19

-----------------------------------------------------------------------------
(* Every step.                                                             *)

LEMMA StutterStep ==
  ASSUME IInv, UNCHANGED vars
  PROVE  IInv'
<1> USE DEF IInv
<1>1. UNCHANGED <<inbox, currentFrame, frames, finishedFrames, worker, main, arrived, delivered>>
  BY DEF vars
<1>2. /\ InHands' = InHands /\ Queued' = Queued /\ Deferred' = Deferred
      /\ \A u \in Threads : (Holds(u)' <=> Holds(u)) /\ (Finishing(u)' <=> Finishing(u))
  BY <1>1, SameWorkers DEF Queued, Deferred
<1>3. Done' = Done /\ \A g : DonePixels(g)' = DonePixels(g)
  BY <1>1, <1>2, SameDone
<1>4. Sealed' = Sealed
  BY <1>1, SameSealed
<1>5. Types'
  BY <1>1 DEF Types
<1>6. NothingBeforeStart' /\ StartedOnce'
  BY <1>1 DEF NothingBeforeStart, StartedOnce
<1>7. OnePlaceEach' /\ RightPlace' /\ FinisherAlone'
  BY <1>1, <1>2, <1>4 DEF OnePlaceEach, RightPlace, FinisherAlone
<1>8. NumbersAgree' /\ WorkIsDone'
  BY <1>1, <1>3, <1>4 DEF NumbersAgree, FramesInOrder, WorkIsDone
<1>9. QED
  BY <1>5, <1>6, <1>7, <1>8

\* Every step keeps the inductive invariant.
LEMMA NextIInv == IInv /\ [Next]_vars => IInv'
<1> SUFFICES ASSUME IInv, [Next]_vars PROVE IInv'
  OBVIOUS
<1>1. ASSUME NEW t \in Threads, Worker(t) PROVE IInv'
  BY <1>1, GetStep, FetchFrameStep, WritePixelsStep, MarkPixelsCompletedStep,
     PushFinishedStep, SetNextFrameStep, StartInboxStep DEF Worker
<1>2. CASE Main
  BY <1>2, ConstructSetFrameStep, ConstructStartInboxStep, AcceptTilesStep,
     CollectAssembledFrameStep DEF Main
<1>3. ASSUME NEW m \in Messages, PutTile(m) PROVE IInv'
  BY <1>3, PutTileStep
<1>4. CASE UNCHANGED vars
  BY <1>4, StutterStep
<1>5. QED
  BY <1>1, <1>2, <1>3, <1>4 DEF Next

\* The bookkeeping of FrameAssemblerInvariant holds in every reachable state.
THEOREM Bookkeeping == Spec => []IInv
<1>1. Init => IInv
  BY InitIInv
<1>2. IInv /\ [Next]_vars => IInv'
  BY NextIInv
<1>3. QED
  BY <1>1, <1>2, PTL DEF Spec

-----------------------------------------------------------------------------
(* What the invariant implies.                                             *)

LEMMA SealedFacts ==
  ASSUME IInv
  PROVE  /\ NumFinished \in Nat /\ Sealed \in Nat
         /\ NumFinished <= Sealed /\ Sealed <= LastFrame + 1
         /\ delivered \in Nat /\ Len(finishedFrames) \in Nat /\ delivered <= NumFinished
<1> USE DEF IInv
<1>1. delivered \in Nat /\ Len(finishedFrames) \in Nat
  BY LenProperties DEF Types
<1>2. NumFinished \in Nat /\ delivered <= NumFinished
  BY <1>1 DEF NumFinished
<1>3. Sealed \in Nat /\ NumFinished <= Sealed
  BY <1>2 DEF Sealed
<1>4. Sealed <= LastFrame + 1
  <2>1. CASE main = "construct"
    BY <2>1 DEF NothingBeforeStart, Sealed, NumFinished
  <2>2. ASSUME main # "construct", NEW t \in Threads, worker[t].pc \in {"push", "setFrame"}
        PROVE  Sealed <= LastFrame + 1
    BY <2>2 DEF NumbersAgree, Types, WorkerState
  <2>3. ASSUME main # "construct", \A t \in Threads : worker[t].pc \notin {"push", "setFrame"}
        PROVE  Sealed <= LastFrame + 1
    BY <2>3 DEF NumbersAgree, Types, Frames
  <2>4. QED
    BY <2>1, <2>2, <2>3
<1>5. QED
  BY <1>1, <1>2, <1>3, <1>4

\* While a thread has a tile, the frame under assembly is the first that is
\* not complete, and nobody is in finishFrame().
LEMMA HolderFacts ==
  ASSUME IInv, NEW t \in Threads, Holds(t)
  PROVE  /\ worker[t].message \in Messages
         /\ worker[t].message.frameID = currentFrame
         /\ NumFinished = currentFrame
         /\ \A u \in Threads : ~ Finishing(u)
<1> USE DEF IInv
<1>1. worker[t].message \in InHands
  BY DEF InHands
<1>2. \A u \in Threads : ~ Finishing(u)
  BY <1>1 DEF FinisherAlone
<1>3. main # "construct"
  BY BusyMeansStarted DEF Holds
<1>4. NumFinished = currentFrame
  BY <1>2, <1>3 DEF Sealed, NumbersAgree, Finishing
<1>5. QED
  BY <1>1, <1>2, <1>4 DEF OnePlaceEach, RightPlace, Types

LEMMA ImpliesTypeOK == IInv => TypeOK
<1> SUFFICES ASSUME IInv PROVE TypeOK
  OBVIOUS
<1> USE DEF IInv
<1>1. ASSUME NEW f \in Frames
      PROVE  frames[f].numPixelsCompleted \in 0 .. Cardinality(Region)
  <2>1. DonePixels(f) \subseteq Region
    BY DEF DonePixels
  <2>2. Cardinality(DonePixels(f)) \in Nat /\ Cardinality(Region) \in Nat
        /\ Cardinality(DonePixels(f)) <= Cardinality(Region)
    BY <2>1, FS_Subset, FS_CardinalityType
  <2>3. QED
    BY <2>2 DEF WorkIsDone
<1>2. frames \in [Frames -> [pixels: [Region -> {Blank} \cup Frames],
                             numPixelsCompleted: 0 .. Cardinality(Region)]]
  BY <1>1 DEF Types
<1>3. delivered \in Frames
  BY SealedFacts DEF Frames
<1>4. QED
  BY <1>2, <1>3 DEF Types, TypeOK

LEMMA ImpliesComplete == IInv => FinishedFramesComplete
<1> SUFFICES ASSUME IInv, NEW f \in 0 .. NumFinished - 1
             PROVE  frames[f].pixels = [p \in Region |-> f]
  BY DEF FinishedFramesComplete
<1> USE DEF IInv
<1>1. f \in 0 .. LastFrame /\ f < Sealed /\ f \in Frames
  BY SealedFacts DEF Frames
<1>2. frames[f].pixels \in [Region -> {Blank} \cup Frames]
  BY <1>1 DEF Types
<1>3. ASSUME NEW p \in Region PROVE frames[f].pixels[p] = f
  <2>1. PICK tile \in Tiles : p \in Cover[tile]
    OBVIOUS
  <2> DEFINE m == [frameID |-> f, tile |-> tile]
  <2>2. m \in Messages
    BY <1>1 DEF Messages
  <2>3. m \in Done
    BY <1>1, <2>2 DEF WorkIsDone
  <2>4. QED
    BY <2>1, <2>3 DEF WorkIsDone
<1>4. QED
  BY <1>2, <1>3

LEMMA ImpliesThreadSafety ==
  IInv => TilesGoToTheirFrame /\ FrameStillOpen /\ NoSecondFinisher
<1> SUFFICES ASSUME IInv
             PROVE  TilesGoToTheirFrame /\ FrameStillOpen /\ NoSecondFinisher
  OBVIOUS
<1>1. TilesGoToTheirFrame
  BY HolderFacts DEF TilesGoToTheirFrame, IInv, NumbersAgree
<1>2. FrameStillOpen
  <2>1. currentFrame \in Int
    BY DEF IInv, Types, Frames
  <2>2. QED
    BY <2>1, HolderFacts DEF FrameStillOpen
<1>3. NoSecondFinisher
  BY DEF NoSecondFinisher, IInv, FinisherAlone
<1>4. QED
  BY <1>1, <1>2, <1>3

LEMMA ImpliesNoTileLost == IInv => NoTileLost
<1> SUFFICES ASSUME IInv, NEW m \in arrived,
                    m \notin Range(inbox.messages) \cup Range(inbox.futureFrameMessages),
                    ~ \E t \in Threads : Holds(t) /\ worker[t].message = m
             PROVE  \A p \in Cover[m.tile] : frames[m.frameID].pixels[p] = m.frameID
  BY DEF NoTileLost
<1>1. m \in Done
  BY DEF Done, Queued, Deferred, InHands
<1>2. QED
  BY <1>1 DEF IInv, WorkIsDone

-----------------------------------------------------------------------------
(* The theorems.                                                           *)

\* Every variable keeps its type; no frame counts more pixels than it has.
THEOREM TypeCorrect == Spec => []TypeOK
BY Bookkeeping, ImpliesTypeOK, PTL

\* The three points of the argument written in assemblerThreadFunction():
\* the frame a thread fetches is its tile's, it stays open while the tile is
\* being written, and one thread at a time finishes a frame.
THEOREM ThreadSafety == Spec => []ThreadSafe
<1>1. IInv => ThreadSafe
  BY ImpliesThreadSafety DEF ThreadSafe
<1>2. QED
  BY <1>1, Bookkeeping, PTL

\* Assembled frames show their own pixels everywhere, and are collected in
\* order, none missing, none twice.
THEOREM FramesRight == Spec => []FramesWholeAndInOrder
<1>1. IInv => FramesWholeAndInOrder
  BY ImpliesComplete DEF FramesWholeAndInOrder, IInv, NumbersAgree
<1>2. QED
  BY <1>1, Bookkeeping, PTL

\* The mailbox drops no tile that its frame still needs.
THEOREM TilesKept == Spec => []NoTileLost
BY Bookkeeping, ImpliesNoTileLost, PTL

-----------------------------------------------------------------------------
(* Steps leave finished frames alone, and implement the abstract stream.   *)

LEMMA FrozenStep ==
  ASSUME IInv, [Next]_vars, NEW f \in 0 .. NumFinished - 1
  PROVE  frames'[f] = frames[f]
<1> USE DEF IInv
<1>1. f \in Frames /\ f \in Int /\ f < NumFinished /\ NumFinished \in Int
  BY SealedFacts DEF Frames
<1>2. CASE frames' = frames
  BY <1>2
<1>3. ASSUME NEW t \in Threads, WritePixels(t) \/ MarkPixelsCompleted(t)
      PROVE  frames'[f] = frames[f]
  <2>1. NumFinished = currentFrame
    BY <1>3, HolderFacts DEF WritePixels, MarkPixelsCompleted, Holds
  <2>2. worker[t].frame = currentFrame
    BY <1>3 DEF WritePixels, MarkPixelsCompleted, NumbersAgree
  <2>3. worker[t].frame # f
    BY <1>1, <2>1, <2>2
  <2>4. QED
    BY <1>1, <1>3, <2>3 DEF WritePixels, MarkPixelsCompleted, Types
<1>4. ASSUME NEW t \in Threads, SetNextFrame(t)
      PROVE  frames'[f] = frames[f]
  <2>1. worker[t].pc = "setFrame" /\ frames' = [frames EXCEPT ![worker[t].frame + 1] = NewFrame]
    BY <1>4 DEF SetNextFrame, SetCurrentFrame
  <2>2. worker[t].frame = currentFrame /\ Sealed = currentFrame + 1
    BY <2>1, BusyMeansStarted DEF NumbersAgree
  <2>3. worker[t].frame + 1 # f
    BY <1>1, <2>2, SealedFacts
  <2>4. QED
    BY <1>1, <2>1, <2>3 DEF Types
<1>5. CASE ConstructSetFrame
  <2>1. NumFinished = 0
    BY <1>5 DEF ConstructSetFrame, NothingBeforeStart, NumFinished
  <2>2. QED
    BY <1>1, <2>1
<1>6. ASSUME NEW t \in Threads,
             Get(t) \/ FetchFrame(t) \/ PushFinished(t) \/ StartInbox(t)
      PROVE  frames' = frames
  BY <1>6 DEF Get, FetchFrame, PushFinished, StartInbox
<1>7. CASE ConstructStartInbox \/ AcceptTiles \/ CollectAssembledFrame
  BY <1>7 DEF ConstructStartInbox, AcceptTiles, CollectAssembledFrame
<1>8. ASSUME NEW m \in Messages, PutTile(m) PROVE frames' = frames
  BY <1>8 DEF PutTile
<1>9. CASE UNCHANGED vars
  BY <1>9 DEF vars
<1>10. QED
  BY <1>2, <1>3, <1>4, <1>5, <1>6, <1>7, <1>8, <1>9 DEF Next, Worker, Main

\* No step changes a frame that was finished before it: what is on the
\* screen, or waits to be, is safe from every thread.
THEOREM FinishedStayFrozen == Spec => FinishedFramesFrozen
<1>1. IInv /\ [Next]_vars => [\A f \in 0 .. NumFinished - 1 : frames'[f] = frames[f]]_vars
  BY FrozenStep
<1>2. QED
  BY <1>1, Bookkeeping, PTL DEF Spec, FinishedFramesFrozen

\* The picture on the screen, as the abstract specification sees it.
Picture == IF delivered = 0 THEN [p \in Region |-> Blank] ELSE frames[delivered - 1].pixels

LEMMA PictureFacts ==
  ASSUME IInv, [Next]_vars, delivered' = delivered
  PROVE  Picture' = Picture
<1>1. CASE delivered = 0
  BY <1>1 DEF Picture
<1>2. CASE delivered # 0
  <2>1. delivered - 1 \in 0 .. NumFinished - 1
    BY <1>2, SealedFacts
  <2>2. frames'[delivered - 1] = frames[delivered - 1]
    BY <2>1, FrozenStep
  <2>3. QED
    BY <1>2, <2>2 DEF Picture
<1>3. QED
  BY <1>1, <1>2

\* Collecting a frame delivers it whole, after all its tiles.
LEMMA CollectDelivers ==
  ASSUME IInv, CollectAssembledFrame
  PROVE  Stream!Deliver
<1> USE DEF IInv
<1>1. /\ finishedFrames # <<>> /\ delivered' = delivered + 1
      /\ arrived' = arrived /\ frames' = frames
  BY DEF CollectAssembledFrame
<1>2. Len(finishedFrames) # 0
  BY <1>1, EmptySeq DEF Types
<1>3. delivered \in 0 .. NumFinished - 1 /\ delivered < Sealed /\ delivered <= LastFrame
  BY <1>2, SealedFacts DEF NumFinished
<1>4. frames[delivered].pixels = [p \in Region |-> delivered]
  BY <1>3, ImpliesComplete DEF FinishedFramesComplete
<1>5. Picture' = [p \in Region |-> delivered]
  BY <1>1, <1>3, <1>4 DEF Picture
<1>6. TilesOf(delivered) \subseteq arrived
  <2>1. TilesOf(delivered) \subseteq Messages
    BY <1>3 DEF TilesOf, Messages
  <2>2. \A m \in TilesOf(delivered) : m.frameID = delivered
    BY DEF TilesOf
  <2>3. QED
    BY <1>3, <2>1, <2>2 DEF WorkIsDone, Done
<1>7. QED
  BY <1>1, <1>3, <1>5, <1>6 DEF Stream!Deliver, Stream!TilesOf, TilesOf, Picture

\* FrameAssembler implements FrameStream: every step maps to an arrival, a
\* delivery, or nothing.
THEOREM Implements == Spec => ImplementsStream
<1>1. Init => Stream!Init
  BY DEF Init, Stream!Init
<1>2. IInv /\ [Next]_vars => [Stream!Next]_Stream!vars
  <2> SUFFICES ASSUME IInv, [Next]_vars PROVE [Stream!Next]_Stream!vars
    OBVIOUS
  <2>1. CASE CollectAssembledFrame
    BY <2>1, CollectDelivers DEF Stream!Next
  <2>2. ASSUME NEW m \in Messages, PutTile(m) PROVE Stream!Arrive(m) /\ m \in Stream!Messages
    <3>1. Picture' = Picture
      BY <2>2, PictureFacts DEF PutTile
    <3>2. QED
      BY <2>2, <3>1 DEF PutTile, Stream!Arrive, Stream!Messages, Messages, Picture
  <2>3. ASSUME arrived' = arrived, delivered' = delivered
        PROVE  UNCHANGED Stream!vars
    <3>1. Picture' = Picture
      BY <2>3, PictureFacts
    <3>2. QED
      BY <2>3, <3>1 DEF Stream!vars, Picture
  <2>4. ASSUME NEW t \in Threads, Worker(t) PROVE arrived' = arrived /\ delivered' = delivered
    BY <2>4 DEF Worker, Get, FetchFrame, WritePixels, MarkPixelsCompleted, PushFinished,
                SetNextFrame, StartInbox
  <2>5. CASE ConstructSetFrame \/ ConstructStartInbox \/ AcceptTiles
    BY <2>3, <2>5 DEF ConstructSetFrame, ConstructStartInbox, AcceptTiles
  <2>6. CASE UNCHANGED vars
    BY <2>3, <2>6 DEF vars
  <2>7. QED
    BY <2>1, <2>2, <2>3, <2>4, <2>5, <2>6 DEF Next, Main, Stream!Next
<1>3. QED
  BY <1>1, <1>2, Bookkeeping, PTL DEF Spec, ImplementsStream, Stream!Spec

-----------------------------------------------------------------------------
(* The tokens bound the queues.                                            *)

\* Only finitely many tiles touch the display: no two share a pixel.
LEMMA TilesFinite == IsFiniteSet(Tiles)
<1>1. IsFiniteSet(SUBSET Region)
  BY FS_SUBSET
<1>2. \A t, u \in Tiles : Cover[t] = Cover[u] => t = u
  BY CoverFacts
<1>3. Cover \in Injection(Tiles, SUBSET Region)
  BY <1>2 DEF Injection, IsInjective
<1>4. QED
  BY <1>1, <1>3, FS_Injection

\* n things told apart within a finite set are no more than its elements.
LEMMA NoMoreThan ==
  ASSUME NEW n \in Nat, NEW T, IsFiniteSet(T), NEW g \in [1 .. n -> T],
         \A i, j \in 1 .. n : g[i] = g[j] => i = j
  PROVE  n <= Cardinality(T)
<1>1. g \in Injection(1 .. n, T)
  BY DEF Injection, IsInjective
<1>2. Cardinality(1 .. n) <= Cardinality(T)
  BY <1>1, FS_Injection
<1>3. Cardinality(1 .. n) = n
  BY FS_Interval
<1>4. QED
  BY <1>2, <1>3

\* Messages without repetition, of frames from a range: as many at most as
\* the range has frames, times the tiles of a frame.
LEMMA QueueOfRange ==
  ASSUME NEW s \in Seq(Messages), IsInjective(s), NEW first \in Int, NEW last \in Int,
         \A m \in Range(s) : first <= m.frameID /\ m.frameID <= last
  PROVE  Len(s) <= (IF first > last THEN 0 ELSE last - first + 1) * Cardinality(Tiles)
<1> DEFINE pairs == (first .. last) \X Tiles
           g == [i \in 1 .. Len(s) |-> <<s[i].frameID, s[i].tile>>]
<1>1. Len(s) \in Nat /\ DOMAIN s = 1 .. Len(s) /\ \A i \in 1 .. Len(s) : s[i] \in Messages
  BY LenProperties, ElementOfSeq
<1>2. \A i \in 1 .. Len(s) : s[i] \in Range(s)
  BY <1>1 DEF Range
<1>3. ASSUME NEW i \in 1 .. Len(s)
      PROVE  s[i].frameID \in first .. last /\ s[i].tile \in Tiles
  BY <1>1, <1>2, MessageFacts
<1>4. g \in [1 .. Len(s) -> pairs]
  BY <1>3
<1>5. ASSUME NEW i \in 1 .. Len(s), NEW j \in 1 .. Len(s), g[i] = g[j] PROVE i = j
  <2>1. s[i] \in Messages /\ s[j] \in Messages
    BY <1>1
  <2>2. s[i].frameID = s[j].frameID /\ s[i].tile = s[j].tile
    BY <1>5
  <2>3. s[i] = s[j]
    BY <2>1, <2>2, MessageFacts
  <2>4. QED
    BY <1>1, <2>3 DEF IsInjective
<1>6. /\ IsFiniteSet(pairs)
      /\ Cardinality(pairs) = Cardinality(first .. last) * Cardinality(Tiles)
  BY TilesFinite, FS_Interval, FS_Product
<1> HIDE DEF g, pairs
<1>7. Len(s) <= Cardinality(pairs)
  BY <1>1, <1>4, <1>5, <1>6, NoMoreThan
<1>8. Cardinality(first .. last) = IF first > last THEN 0 ELSE last - first + 1
  BY FS_Interval
<1>9. QED
  BY <1>6, <1>7, <1>8

\* No tile is sent without its token.
LEMMA TokensHold == Spec => []ArrivedInWindow
<1>1. Init => ArrivedInWindow
  BY DEF Init, ArrivedInWindow
<1>2. ArrivedInWindow /\ [Next]_vars => ArrivedInWindow'
  <2> SUFFICES ASSUME ArrivedInWindow, [Next]_vars PROVE ArrivedInWindow'
    OBVIOUS
  <2>1. ASSUME arrived' = arrived, delivered' = delivered PROVE ArrivedInWindow'
    BY <2>1 DEF ArrivedInWindow
  <2>2. ASSUME NEW m \in Messages, PutTile(m) PROVE ArrivedInWindow'
    BY <2>2 DEF PutTile, ArrivedInWindow
  <2>3. CASE CollectAssembledFrame
    BY <2>3, MessageFacts DEF CollectAssembledFrame, ArrivedInWindow
  <2>4. ASSUME NEW t \in Threads, Worker(t) PROVE arrived' = arrived /\ delivered' = delivered
    BY <2>4 DEF Worker, Get, FetchFrame, WritePixels, MarkPixelsCompleted, PushFinished,
                SetNextFrame, StartInbox
  <2>5. CASE ConstructSetFrame \/ ConstructStartInbox \/ AcceptTiles \/ UNCHANGED vars
    BY <2>1, <2>5 DEF ConstructSetFrame, ConstructStartInbox, AcceptTiles, vars
  <2>6. QED
    BY <2>1, <2>2, <2>3, <2>4, <2>5 DEF Next, Main
<1>3. QED
  BY <1>1, <1>2, PTL DEF Spec

LEMMA ImpliesBounded == IInv /\ ArrivedInWindow => BoundedBacklog
<1> SUFFICES ASSUME IInv, ArrivedInWindow PROVE BoundedBacklog
  OBVIOUS
<1>1. /\ delivered \in Nat /\ Len(finishedFrames) \in Nat /\ MaxFramesInFlight \in Nat
      /\ NumFinished = delivered + Len(finishedFrames)
      /\ NumFinished <= Sealed /\ Sealed <= LastFrame + 1 /\ Sealed \in Nat
  BY SealedFacts DEF NumFinished
<1>2. /\ inbox.messages \in Seq(Messages) /\ IsInjective(inbox.messages)
      /\ inbox.futureFrameMessages \in Seq(Messages)
      /\ IsInjective(inbox.futureFrameMessages)
      /\ currentFrame \in Int
  BY DEF IInv, Types, OnePlaceEach, NoDuplicates, Mailbox, Frames
<1>3. Len(finishedFrames) <= MaxFramesInFlight
  <2> SUFFICES ASSUME Len(finishedFrames) > MaxFramesInFlight PROVE FALSE
    BY <1>1
  <2> DEFINE f == NumFinished - 1
  <2>1. f \in 0 .. LastFrame /\ f < Sealed
    BY <1>1
  <2>2. PICK tile \in Tiles : TRUE
    BY CoverFacts
  <2> DEFINE m == [frameID |-> f, tile |-> tile]
  <2>3. m \in Messages /\ m.frameID = f
    BY <2>1 DEF Messages
  <2>4. m \in arrived
    BY <2>1, <2>3 DEF IInv, WorkIsDone, Done
  <2>5. f < delivered + MaxFramesInFlight
    BY <2>3, <2>4 DEF ArrivedInWindow
  <2>6. QED
    BY <1>1, <2>5
<1>4. Len(inbox.messages) <= Cardinality(Tiles)
  <2>1. \A m \in Range(inbox.messages) : currentFrame <= m.frameID /\ m.frameID <= currentFrame
    BY <1>2 DEF IInv, RightPlace, Queued
  <2>2. Cardinality(Tiles) \in Nat
    BY TilesFinite, FS_CardinalityType
  <2>3. QED
    BY <1>2, <2>1, <2>2, QueueOfRange
<1>5. \A m \in Range(inbox.futureFrameMessages) : m \in arrived /\ m.frameID \in Int
                                                 /\ m.frameID >= NumFinished
  <2>1. \A m \in Deferred : m \in arrived /\ m \in Messages /\ m.frameID >= Sealed
    BY DEF IInv, OnePlaceEach, RightPlace, Types
  <2>2. QED
    BY <1>1, <2>1, MessageFacts DEF Deferred
<1>6. Len(inbox.futureFrameMessages)
        <= (MaxFramesInFlight - Len(finishedFrames)) * Cardinality(Tiles)
  <2> DEFINE last == delivered + MaxFramesInFlight - 1
  <2>1. last \in Int /\ NumFinished \in Int
    BY <1>1
  <2>2. \A m \in Range(inbox.futureFrameMessages) :
          NumFinished <= m.frameID /\ m.frameID <= last
    BY <1>1, <1>5 DEF ArrivedInWindow
  <2>3. (IF NumFinished > last THEN 0 ELSE last - NumFinished + 1)
          = MaxFramesInFlight - Len(finishedFrames)
    BY <1>1, <1>3
  <2> HIDE DEF last
  <2>4. Len(inbox.futureFrameMessages)
          <= (IF NumFinished > last THEN 0 ELSE last - NumFinished + 1) * Cardinality(Tiles)
    BY <1>2, <2>1, <2>2, QueueOfRange
  <2>5. QED
    BY <2>3, <2>4
<1>7. QED
  BY <1>3, <1>4, <1>5, <1>6 DEF BoundedBacklog

\* The renderer's tokens bound every queue of the display: the assembled
\* frames, the tiles let through and the tiles deferred.
THEOREM BacklogBounded == Spec => []BoundedBacklog
BY Bookkeeping, TokensHold, ImpliesBounded, PTL
=============================================================================
