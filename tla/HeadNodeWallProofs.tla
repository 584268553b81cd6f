------------------------- MODULE HeadNodeWallProofs -------------------------
(***************************************************************************)
(* Proofs about HeadNodeWall, for every number of displays, every tiling,  *)
(* every size of MPI's buffers and every number of frames in flight: the   *)
(* inductive invariant, that every tile a display needs passes the head    *)
(* node and none passes out of turn, and that the head node feeds every    *)
(* assembler the way FrameStream assumes.                                  *)
(***************************************************************************)
EXTENDS HeadNodeWall, MailboxFacts

USE DisplaysAssumption, ReachAssumption, ChannelAssumption, FramesAssumption

-----------------------------------------------------------------------------
(* Facts about single states.                                              *)

\* What a message is made of.
LEMMA MessageFacts ==
  ASSUME NEW m \in Messages
  PROVE  m.frameID \in 0 .. LastFrame /\ m.tile \in Tiles
BY DEF Messages

\* The least of some displays is one of them: the loop's next rank exists.
LEMMA MinFacts ==
  ASSUME NEW S \in SUBSET Displays, S # {}
  PROVE  Sets!Min(S) \in S
<1>1. S \in SUBSET Nat
  BY DEF Displays
<1>2. PICK x \in S : \A y \in Nat : y < x => y \notin S
  BY <1>1, LeastNumber
<1>3. \A y \in S : ~ (y < x)
  BY <1>1, <1>2
<1>4. \A y \in S : x <= y
  BY <1>1, <1>3
<1>5. \E z \in S : \A y \in S : z <= y
  BY <1>4
<1>6. QED
  BY <1>5 DEF Sets!Min

\* The mailbox is never ahead of the frame that the head node waits for, nor
\* of what the displays have collected.
LEMMA InboxNotAhead ==
  ASSUME IInv
  PROVE  /\ inbox.currentFrameID \in Int
         /\ headFrames \in 0 .. LastFrame + 1
         /\ inbox.currentFrameID <= headFrames
         /\ inbox.currentFrameID >= headFrames - 1
         /\ \A d \in Displays : collected[d] \in 0 .. LastFrame + 1 /\ headFrames <= collected[d]
<1>1. inbox \in Mailbox(Messages) /\ headFrames \in 0 .. LastFrame + 1
  BY DEF IInv, TypeOK
<1>2. inbox.currentFrameID \in Int
  BY <1>1 DEF Mailbox
<1>3. head \in {"construct", "barrier", "announce", "restart"}
  BY DEF IInv, TypeOK
<1>4. head = "construct" => headFrames = 0
  BY DEF IInv, FramesInStep
<1>5. inbox.currentFrameID \in {headFrames - 1, headFrames}
  BY <1>1, <1>3, <1>4 DEF IInv, InboxInStep
<1>6. \A d \in Displays : collected[d] \in 0 .. LastFrame + 1 /\ headFrames <= collected[d]
  BY DEF IInv, TypeOK, FramesInStep
<1>7. QED
  BY <1>1, <1>2, <1>5, <1>6

\* A display that has collected the frame of a tile it needs has the tile.
LEMMA CollectedTiles ==
  ASSUME IInv, NEW m \in Messages, NEW d \in Reach[m.tile], d \in Displays,
         m.frameID < collected[d]
  PROVE  m \in received[d]
<1>1. m.frameID \in 0 .. LastFrame /\ m.tile \in Tiles
  BY MessageFacts
<1>2. m.tile \in TilesFor(d)
  BY <1>1 DEF TilesFor
<1>3. m = [frameID |-> m.frameID, tile |-> m.tile]
  BY DEF Messages
<1>4. m \in NeededFor(d, m.frameID)
  BY <1>2, <1>3 DEF NeededFor
<1>5. NeededFor(d, m.frameID) \subseteq received[d]
  BY <1>1 DEF IInv, FramesInStep
<1>6. QED
  BY <1>4, <1>5

\* Where a relevant message is, all messages are the system's.
LEMMA PlacesTyped ==
  ASSUME IInv
  PROVE  /\ Range(inbox.messages) \subseteq Messages
         /\ Range(inbox.futureFrameMessages) \subseteq Messages
         /\ dispatcher \subseteq Messages
         /\ arrived \subseteq Messages
         /\ \A d \in Displays : Range(channel[d]) \subseteq Messages /\ received[d] \subseteq Messages
<1>1. InInbox \cup dispatcher \subseteq arrived /\ arrived \subseteq Messages
  BY DEF IInv, TypeOK, QueuedOnce
<1>2. \A d \in Displays : Range(channel[d]) \cup received[d] \subseteq arrived
  BY DEF IInv, SentOnce
<1>3. QED
  BY <1>1, <1>2 DEF InInbox

LEMMA InitIInv == Init => IInv
<1> SUFFICES ASSUME Init PROVE IInv
  OBVIOUS
<1>1. /\ Range(<<>>) = {} /\ IsInjective(<<>>)
  BY DEF Range, IsInjective
<1>2. <<>> \in Seq(Messages) /\ Len(<<>>) = 0
  OBVIOUS
<1>3. \A d \in Displays : channel[d] = <<>> /\ received[d] = {} /\ collected[d] = 0
  BY DEF Init
<1>4. /\ inbox.messages = <<>> /\ inbox.futureFrameMessages = <<>>
      /\ inbox.currentFrameID = -1 /\ inbox \in Mailbox(Messages)
  BY <1>2 DEF Init, EmptyMailbox, Mailbox
<1>5. TypeOK
  BY <1>1, <1>2, <1>4 DEF Init, TypeOK, NoDuplicates
<1>6. SentOnce /\ QueuedOnce
  BY <1>1, <1>3, <1>4 DEF Init, SentOnce, QueuedOnce, InInbox
<1>7. InboxInStep /\ FramesInStep
  BY <1>1, <1>3, <1>4 DEF Init, InboxInStep, FramesInStep
<1>8. TilesPassTheHeadNode
  BY <1>1, <1>3 DEF Init, TilesPassTheHeadNode, OnlyInactiveTilesDropped, PassedOnInTime
<1>9. QED
  BY <1>5, <1>6, <1>7, <1>8 DEF IInv

-----------------------------------------------------------------------------
(* Each action keeps the invariant.                                        *)

\* The renderer may send what is not yet due; what is past cannot be new.
LEMMA ArriveStep ==
  ASSUME IInv, NEW m \in Messages, Arrive(m)
  PROVE  IInv'
<1>1. /\ m \notin arrived /\ arrived' = arrived \cup {m}
      /\ inbox' = LockedPut(inbox, m)
      /\ tokens' = tokens /\ dispatcher' = dispatcher /\ forwarded' = forwarded
      /\ channel' = channel /\ received' = received /\ head' = head
      /\ headFrames' = headFrames /\ collected' = collected /\ setter' = setter
      /\ setBack' = setBack
  BY DEF Arrive, displayVars
<1>2. inbox \in Mailbox(Messages) /\ NoDuplicates(inbox)
  BY DEF IInv, TypeOK
<1>3. m.frameID \in Int
  BY MessageFacts
<1>4. m \notin InInbox \cup dispatcher
  BY <1>1 DEF IInv, QueuedOnce
<1>5. \A d \in Displays : m \notin Range(channel[d]) \cup received[d]
  BY <1>1 DEF IInv, SentOnce
<1>6. /\ inbox' \in Mailbox(Messages)
      /\ inbox'.currentFrameID = inbox.currentFrameID
      /\ Range(inbox'.messages) =
           IF m.frameID = inbox.currentFrameID
             THEN Range(inbox.messages) \cup {m} ELSE Range(inbox.messages)
      /\ Range(inbox'.futureFrameMessages) =
           IF m.frameID > inbox.currentFrameID
             THEN Range(inbox.futureFrameMessages) \cup {m}
             ELSE Range(inbox.futureFrameMessages)
      /\ NoDuplicates(inbox')
  BY <1>1, <1>2, <1>3, <1>4, LockedPutFacts DEF InInbox
<1>7. TypeOK'
  BY <1>1, <1>6 DEF IInv, TypeOK
<1>8. SentOnce'
  BY <1>1 DEF IInv, SentOnce
<1>9. InInbox \subseteq InInbox' /\ InInbox' \subseteq InInbox \cup {m}
  BY <1>6 DEF InInbox
<1>10. QueuedOnce'
  BY <1>1, <1>4, <1>5, <1>9 DEF IInv, QueuedOnce
<1>11. InboxInStep'
  <2>1. \A x \in Range(inbox'.messages) \cup dispatcher : x.frameID <= inbox.currentFrameID
    <3>1. \A x \in Range(inbox.messages) \cup dispatcher : x.frameID <= inbox.currentFrameID
      BY DEF IInv, InboxInStep
    <3>2. m.frameID = inbox.currentFrameID => m.frameID <= inbox.currentFrameID
      BY <1>3
    <3>3. QED
      BY <1>6, <3>1, <3>2
  <2>2. \A x \in Range(inbox'.futureFrameMessages) : x.frameID > inbox.currentFrameID
    BY <1>6 DEF IInv, InboxInStep
  <2>3. QED
    BY <1>1, <1>6, <2>1, <2>2 DEF IInv, InboxInStep
<1>12. FramesInStep'
  BY <1>1 DEF IInv, FramesInStep
<1>13. ASSUME NEW d \in Displays, d \in Reach[m.tile]
       PROVE  m \in InInbox'
  <2>1. m.frameID >= inbox.currentFrameID
    <3>1. SUFFICES ASSUME m.frameID < inbox.currentFrameID PROVE FALSE
      BY <1>3, InboxNotAhead
    <3>2. m.frameID < collected[d]
      BY <1>3, <3>1, InboxNotAhead
    <3>3. QED
      BY <1>5, <1>13, <3>2, CollectedTiles
  <2>2. m.frameID = inbox.currentFrameID \/ m.frameID > inbox.currentFrameID
    BY <1>3, <2>1, InboxNotAhead
  <2>3. QED
    BY <1>6, <2>2 DEF InInbox
<1>14. TilesPassTheHeadNode'
  <2>1. OnlyInactiveTilesDropped'
    BY <1>1, <1>9, <1>13
       DEF IInv, TilesPassTheHeadNode, OnlyInactiveTilesDropped, Queued, InInbox
  <2>2. PassedOnInTime'
    BY <1>1 DEF IInv, TilesPassTheHeadNode, PassedOnInTime
  <2>3. QED
    BY <2>1, <2>2 DEF TilesPassTheHeadNode
<1>15. QED
  BY <1>7, <1>8, <1>10, <1>11, <1>12, <1>14 DEF IInv

LEMMA TakeTileStep ==
  ASSUME IInv, TakeTile
  PROVE  IInv'
<1> DEFINE m == Front(inbox)
<1>1. /\ dispatcher = {} /\ CanGet(inbox)
      /\ dispatcher' = {m} /\ inbox' = PopFront(inbox)
      /\ tokens' = tokens /\ arrived' = arrived /\ forwarded' = forwarded
      /\ channel' = channel /\ received' = received /\ head' = head
      /\ headFrames' = headFrames /\ collected' = collected /\ setter' = setter
      /\ setBack' = setBack
  BY DEF TakeTile, displayVars
<1>2. inbox \in Mailbox(Messages) /\ NoDuplicates(inbox)
  BY DEF IInv, TypeOK
<1>3. /\ inbox' \in Mailbox(Messages)
      /\ inbox'.currentFrameID = inbox.currentFrameID
      /\ m \in Range(inbox.messages)
      /\ Range(inbox.messages) = Range(inbox'.messages) \cup {m}
      /\ inbox'.futureFrameMessages = inbox.futureFrameMessages
      /\ NoDuplicates(inbox') /\ m \notin Range(inbox'.messages)
  BY <1>1, <1>2, PopFrontFacts
<1> HIDE DEF m
<1>4. InInbox = InInbox' \cup {m} /\ m \notin InInbox'
  BY <1>2, <1>3 DEF InInbox, NoDuplicates
<1>5. m \in Messages /\ forwarded = {}
  BY <1>1, <1>3, PlacesTyped DEF IInv, TypeOK
<1>6. TypeOK'
  BY <1>1, <1>3, <1>5 DEF IInv, TypeOK
<1>7. SentOnce' /\ FramesInStep'
  BY <1>1 DEF IInv, SentOnce, FramesInStep
<1>8. QueuedOnce'
  BY <1>1, <1>4, <1>5 DEF IInv, QueuedOnce
<1>9. InboxInStep'
  BY <1>1, <1>3 DEF IInv, InboxInStep
<1>10. Queued' = Queued
  BY <1>1, <1>3 DEF Queued
<1>11. TilesPassTheHeadNode'
  BY <1>1, <1>10
     DEF IInv, TilesPassTheHeadNode, OnlyInactiveTilesDropped, PassedOnInTime
<1>12. QED
  BY <1>6, <1>7, <1>8, <1>9, <1>11 DEF IInv

\* A tile that is sent to a display is of the frame that all displays wait for
\* that have not collected it: this display has not, as it lacks the tile.
LEMMA ForwardStep ==
  ASSUME IInv, Forward
  PROVE  IInv'
<1>1. PICK m \in dispatcher :
        /\ ToSend(m) # {}
        /\ Len(channel[Sets!Min(ToSend(m))]) < ChannelSize
        /\ channel' = [channel EXCEPT ![Sets!Min(ToSend(m))] = Append(@, m)]
        /\ forwarded' = forwarded \cup {Sets!Min(ToSend(m))}
  BY DEF Forward
<1>2. /\ tokens' = tokens /\ arrived' = arrived /\ inbox' = inbox
      /\ dispatcher' = dispatcher /\ received' = received /\ head' = head
      /\ headFrames' = headFrames /\ collected' = collected /\ setter' = setter
      /\ setBack' = setBack
  BY DEF Forward, displayVars
<1>3. PICK d : d = Sets!Min(ToSend(m))
  OBVIOUS
<1>4. m \in Messages /\ m \in arrived /\ dispatcher = {m}
  BY <1>1, PlacesTyped DEF IInv, TypeOK, QueuedOnce
<1>5. d \in Displays /\ d \in Reach[m.tile] /\ d \notin forwarded
  <2>1. Reach[m.tile] \subseteq Displays
    BY <1>4, MessageFacts
  <2>2. ToSend(m) \in SUBSET Displays
    BY <2>1 DEF ToSend
  <2>3. d \in ToSend(m)
    BY <1>1, <1>3, <2>2, MinFacts
  <2>4. QED
    BY <2>1, <2>3 DEF ToSend
<1>6. m \notin Range(channel[d]) \cup received[d]
  BY <1>1, <1>5 DEF IInv, QueuedOnce
<1>7. channel \in [Displays -> Seq(Messages)]
  BY DEF IInv, TypeOK
<1>8. channel' = [channel EXCEPT ![d] = Append(channel[d], m)]
  BY <1>1, <1>3
<1>9. \A e \in Displays : channel'[e] = IF e = d THEN Append(channel[d], m) ELSE channel[e]
  BY <1>7, <1>8
<1>10. /\ Append(channel[d], m) \in Seq(Messages)
       /\ Range(Append(channel[d], m)) = Range(channel[d]) \cup {m}
       /\ IsInjective(channel[d]) => IsInjective(Append(channel[d], m))
       /\ Len(Append(channel[d], m)) = Len(channel[d]) + 1
       /\ Len(channel[d]) \in Nat
  <2>1. channel[d] \in Seq(Messages)
    BY <1>5, <1>7
  <2>2. QED
    BY <1>4, <1>6, <2>1, AppendFacts, AppendProperties, LenProperties
<1>11. TypeOK'
  <2>1. channel' \in [Displays -> Seq(Messages)]
    BY <1>7, <1>8, <1>10
  <2>2. Len(Append(channel[d], m)) <= ChannelSize
    BY <1>1, <1>3, <1>10
  <2>3. \A e \in Displays : Len(channel'[e]) <= ChannelSize
    BY <1>9, <2>2 DEF IInv, TypeOK
  <2>4. forwarded' \subseteq Displays /\ dispatcher # {}
    BY <1>1, <1>3, <1>5 DEF IInv, TypeOK
  <2>5. QED
    BY <1>2, <2>1, <2>3, <2>4 DEF IInv, TypeOK
<1>12. \A e \in Displays :
         Range(channel'[e]) = IF e = d THEN Range(channel[e]) \cup {m} ELSE Range(channel[e])
  BY <1>9, <1>10
<1>13. SentOnce'
  <2> SUFFICES ASSUME NEW e \in Displays
               PROVE  /\ Range(channel'[e]) \cup received[e] \subseteq
                           {x \in arrived : e \in Reach[x.tile]}
                      /\ IsInjective(channel'[e])
                      /\ Range(channel'[e]) \cap received[e] = {}
    BY <1>2 DEF SentOnce
  <2>1. /\ Range(channel[e]) \cup received[e] \subseteq {x \in arrived : e \in Reach[x.tile]}
        /\ IsInjective(channel[e])
        /\ Range(channel[e]) \cap received[e] = {}
    BY DEF IInv, SentOnce
  <2>2. CASE e = d
    BY <1>4, <1>5, <1>6, <1>9, <1>10, <1>12, <2>1, <2>2
  <2>3. CASE e # d
    BY <1>9, <1>12, <2>1, <2>3
  <2>4. QED
    BY <2>2, <2>3
<1>14. QueuedOnce'
  <2>1. InInbox' = InInbox /\ m \notin InInbox
    BY <1>1, <1>2 DEF IInv, QueuedOnce, InInbox
  <2>2. \A e \in Displays : InInbox \cap (Range(channel'[e]) \cup received[e]) = {}
    BY <1>12, <2>1 DEF IInv, QueuedOnce
  <2>3. \A e \in Displays : m \in Range(channel'[e]) \cup received[e] <=> e \in forwarded'
    <3>1. \A e \in Displays : m \in Range(channel[e]) \cup received[e] <=> e \in forwarded
      BY <1>4 DEF IInv, QueuedOnce
    <3>2. forwarded' = forwarded \cup {d}
      BY <1>1, <1>3
    <3>3. QED
      BY <1>12, <3>1, <3>2
  <2>4. QED
    BY <1>2, <1>4, <2>1, <2>2, <2>3 DEF IInv, QueuedOnce
<1>15. InboxInStep' /\ FramesInStep'
  BY <1>2 DEF IInv, InboxInStep, FramesInStep
<1>16. m.frameID = collected[d] /\ \A e \in Displays : m.frameID <= collected[e]
  <2>1. m.frameID \in Int
    BY <1>4, MessageFacts
  <2>2. m.frameID <= inbox.currentFrameID
    BY <1>4 DEF IInv, InboxInStep
  <2>3. ~ (m.frameID < collected[d])
    BY <1>4, <1>5, <1>6, CollectedTiles
  <2>4. QED
    BY <1>5, <2>1, <2>2, <2>3, InboxNotAhead
<1>17. TilesPassTheHeadNode'
  <2>1. OnlyInactiveTilesDropped'
    BY <1>2, <1>12
       DEF IInv, TilesPassTheHeadNode, OnlyInactiveTilesDropped, Queued
  <2>2. ASSUME NEW e \in Displays, NEW x \in Range(channel'[e])
        PROVE  x.frameID = collected[e] /\ \A y \in Displays : x.frameID <= collected[y]
    <3>1. CASE x \in Range(channel[e])
      BY <3>1 DEF IInv, TilesPassTheHeadNode, PassedOnInTime
    <3>2. CASE e = d /\ x = m
      BY <1>16, <3>2
    <3>3. QED
      BY <1>12, <3>1, <3>2
  <2>3. PassedOnInTime'
    BY <1>2, <2>2 DEF PassedOnInTime
  <2>4. QED
    BY <2>1, <2>3 DEF TilesPassTheHeadNode
<1>18. QED
  BY <1>11, <1>13, <1>14, <1>15, <1>17 DEF IInv

\* The dispatcher forgets a tile when every display that needs it was sent it.
LEMMA FinishTileStep ==
  ASSUME IInv, FinishTile
  PROVE  IInv'
<1>1. PICK m \in dispatcher : ToSend(m) = {}
  BY DEF FinishTile
<1>2. /\ dispatcher' = {} /\ forwarded' = {}
      /\ tokens' = tokens /\ arrived' = arrived /\ inbox' = inbox
      /\ channel' = channel /\ received' = received /\ head' = head
      /\ headFrames' = headFrames /\ collected' = collected /\ setter' = setter
      /\ setBack' = setBack
  BY DEF FinishTile, displayVars
<1>3. dispatcher = {m}
  BY <1>1 DEF IInv, TypeOK
<1>4. \A d \in Displays : d \in Reach[m.tile] => m \in Range(channel[d]) \cup received[d]
  BY <1>1 DEF IInv, QueuedOnce, ToSend
<1>5. TypeOK' /\ SentOnce' /\ FramesInStep'
  BY <1>2 DEF IInv, TypeOK, SentOnce, FramesInStep
<1>6. QueuedOnce' /\ InboxInStep'
  BY <1>2 DEF IInv, QueuedOnce, InboxInStep, InInbox
<1>7. OnlyInactiveTilesDropped'
  BY <1>2, <1>3, <1>4
     DEF IInv, TilesPassTheHeadNode, OnlyInactiveTilesDropped, Queued
<1>8. PassedOnInTime'
  BY <1>2 DEF IInv, TilesPassTheHeadNode, PassedOnInTime
<1>9. QED
  BY <1>5, <1>6, <1>7, <1>8 DEF IInv, TilesPassTheHeadNode

LEMMA ReceiveStep ==
  ASSUME IInv, NEW d \in Displays, Receive(d)
  PROVE  IInv'
<1> DEFINE m == Head(channel[d])
           rest == Tail(channel[d])
<1>1. /\ channel[d] # <<>>
      /\ channel' = [channel EXCEPT ![d] = rest]
      /\ received' = [received EXCEPT ![d] = received[d] \cup {m}]
      /\ tokens' = tokens /\ arrived' = arrived /\ inbox' = inbox
      /\ dispatcher' = dispatcher /\ forwarded' = forwarded /\ head' = head
      /\ headFrames' = headFrames /\ collected' = collected /\ setter' = setter
      /\ setBack' = setBack
  BY DEF Receive, displayVars
<1>2. /\ channel \in [Displays -> Seq(Messages)] /\ IsInjective(channel[d])
      /\ received \in [Displays -> SUBSET Messages]
  BY DEF IInv, TypeOK, SentOnce
<1>3. /\ m \in Range(channel[d]) /\ rest \in Seq(Messages)
      /\ Range(channel[d]) = Range(rest) \cup {m}
      /\ IsInjective(rest) /\ m \notin Range(rest)
      /\ Len(rest) <= Len(channel[d]) /\ Len(rest) \in Nat
  <2>1. channel[d] \in Seq(Messages)
    BY <1>2
  <2>2. Len(channel[d]) \in Nat /\ Len(rest) = Len(channel[d]) - 1 /\ rest \in Seq(Messages)
    BY <1>1, <2>1, HeadTailProperties, LenProperties
  <2>3. Len(rest) <= Len(channel[d]) /\ Len(rest) \in Nat
    BY <2>2, LenProperties
  <2>4. QED
    BY <1>1, <1>2, <2>1, <2>3, TailFacts
<1> HIDE DEF m, rest
<1>4. m \in Messages /\ m \notin received[d]
  BY <1>3, PlacesTyped DEF IInv, SentOnce
<1>5. \A e \in Displays :
        /\ channel'[e] = IF e = d THEN rest ELSE channel[e]
        /\ received'[e] = IF e = d THEN received[d] \cup {m} ELSE received[e]
  BY <1>1, <1>2
<1>6. \A e \in Displays :
        /\ Range(channel'[e]) \cup received'[e] = Range(channel[e]) \cup received[e]
        /\ Range(channel'[e]) \subseteq Range(channel[e])
        /\ received[e] \subseteq received'[e]
  BY <1>3, <1>5
<1>7. TypeOK'
  <2>1. channel' \in [Displays -> Seq(Messages)]
    BY <1>1, <1>2, <1>3
  <2>2. received' \in [Displays -> SUBSET Messages]
    BY <1>1, <1>2, <1>4
  <2>3. \A e \in Displays : Len(channel'[e]) <= ChannelSize
    <3>1. Len(channel[d]) <= ChannelSize /\ Len(channel[d]) \in Nat
      BY <1>2, LenProperties DEF IInv, TypeOK
    <3>2. Len(rest) <= ChannelSize
      BY <1>3, <3>1
    <3>3. QED
      BY <1>5, <3>2 DEF IInv, TypeOK
  <2>4. QED
    BY <1>1, <2>1, <2>2, <2>3 DEF IInv, TypeOK
<1>8. SentOnce'
  <2> SUFFICES ASSUME NEW e \in Displays
               PROVE  /\ Range(channel'[e]) \cup received'[e] \subseteq
                           {x \in arrived : e \in Reach[x.tile]}
                      /\ IsInjective(channel'[e])
                      /\ Range(channel'[e]) \cap received'[e] = {}
    BY <1>1 DEF SentOnce
  <2>1. /\ Range(channel[e]) \cup received[e] \subseteq {x \in arrived : e \in Reach[x.tile]}
        /\ IsInjective(channel[e])
        /\ Range(channel[e]) \cap received[e] = {}
    BY DEF IInv, SentOnce
  <2>2. QED
    BY <1>3, <1>5, <1>6, <2>1
<1>9. QueuedOnce'
  BY <1>1, <1>6 DEF IInv, QueuedOnce, InInbox
<1>10. InboxInStep'
  BY <1>1 DEF IInv, InboxInStep
<1>11. FramesInStep'
  BY <1>1, <1>6 DEF IInv, FramesInStep
<1>12. TilesPassTheHeadNode'
  <2>1. OnlyInactiveTilesDropped'
    BY <1>1, <1>6
       DEF IInv, TilesPassTheHeadNode, OnlyInactiveTilesDropped, Queued
  <2>2. PassedOnInTime'
    BY <1>1, <1>6 DEF IInv, TilesPassTheHeadNode, PassedOnInTime
  <2>3. QED
    BY <2>1, <2>2 DEF TilesPassTheHeadNode
<1>13. QED
  BY <1>7, <1>8, <1>9, <1>10, <1>11, <1>12 DEF IInv

\* startNewFrame() on the frame that comes next, at the start and after every
\* frame: every deferred tile stays deferred, or is now let through.
LEMMA NextFrameStep ==
  ASSUME IInv, head \in {"construct", "restart"},
         inbox' = StartNewFrame(inbox, headFrames),
         head' = "barrier",
         UNCHANGED <<tokens, headFrames, tileVars, displayVars>>
  PROVE  IInv'
<1>1. /\ tokens' = tokens /\ headFrames' = headFrames
      /\ arrived' = arrived /\ dispatcher' = dispatcher /\ forwarded' = forwarded
      /\ channel' = channel /\ received' = received
      /\ collected' = collected /\ setter' = setter
      /\ setBack' = setBack
  BY DEF tileVars, displayVars
<1>2. inbox \in Mailbox(Messages) /\ NoDuplicates(inbox)
  BY DEF IInv, TypeOK
<1>3. headFrames \in Int /\ inbox.currentFrameID = headFrames - 1
  BY InboxNotAhead DEF IInv, InboxInStep, FramesInStep
<1>4. /\ inbox' \in Mailbox(Messages)
      /\ inbox'.currentFrameID = headFrames
      /\ Range(inbox'.messages) =
           Range(inbox.messages)
             \cup {x \in Range(inbox.futureFrameMessages) : x.frameID = headFrames}
      /\ Range(inbox'.futureFrameMessages) =
           {x \in Range(inbox.futureFrameMessages) : x.frameID > headFrames}
      /\ NoDuplicates(inbox')
  BY <1>2, <1>3, StartNewFrameFacts
<1>5. \A x \in Range(inbox.futureFrameMessages) :
        x.frameID = headFrames \/ x.frameID > headFrames
  <2>1. ASSUME NEW x \in Range(inbox.futureFrameMessages)
        PROVE  x.frameID = headFrames \/ x.frameID > headFrames
    <3>1. x.frameID \in Int
      BY PlacesTyped, MessageFacts
    <3>2. x.frameID > headFrames - 1
      BY <1>3 DEF IInv, InboxInStep
    <3>3. QED
      BY <1>3, <3>1, <3>2
  <2>2. QED
    BY <2>1
<1>6. InInbox' = InInbox
  BY <1>4, <1>5 DEF InInbox
<1>7. TypeOK'
  BY <1>1, <1>4 DEF IInv, TypeOK
<1>8. SentOnce' /\ QueuedOnce'
  BY <1>1, <1>6 DEF IInv, SentOnce, QueuedOnce
<1>9. InboxInStep'
  <2>1. ASSUME NEW x \in Range(inbox'.messages) \cup dispatcher
        PROVE  x.frameID <= headFrames
    <3>1. CASE x \in Range(inbox.messages) \cup dispatcher
      <4>1. x.frameID <= headFrames - 1 /\ x.frameID \in Int
        BY <1>3, <3>1, PlacesTyped, MessageFacts DEF IInv, InboxInStep
      <4>2. QED
        BY <1>3, <4>1
    <3>2. CASE x \in Range(inbox.futureFrameMessages) /\ x.frameID = headFrames
      BY <1>3, <3>2
    <3>3. QED
      BY <1>4, <2>1, <3>1, <3>2
  <2>2. QED
    BY <1>1, <1>4, <2>1 DEF InboxInStep
<1>10. FramesInStep'
  BY <1>1 DEF IInv, FramesInStep
<1>11. Queued' = Queued
  BY <1>1, <1>6 DEF Queued, InInbox
<1>12. TilesPassTheHeadNode'
  BY <1>1, <1>11
     DEF IInv, TilesPassTheHeadNode, OnlyInactiveTilesDropped, PassedOnInTime
<1>13. QED
  BY <1>7, <1>8, <1>9, <1>10, <1>12 DEF IInv

LEMMA StartAcceptingStep ==
  ASSUME IInv, StartAccepting
  PROVE  IInv'
<1>1. headFrames = 0
  BY DEF StartAccepting, IInv, FramesInStep
<1>2. QED
  BY <1>1, NextFrameStep DEF StartAccepting

LEMMA RestartStep ==
  ASSUME IInv, Restart
  PROVE  IInv'
BY NextFrameStep DEF Restart

\* The head node leaves its barrier when every display has collected the frame.
LEMMA LeaveBarrierHeadStep ==
  ASSUME IInv, LeaveBarrierHead
  PROVE  IInv'
<1>1. /\ head = "barrier" /\ head' = "announce"
      /\ headFrames' = headFrames + 1
      /\ \A d \in Displays : collected[d] >= headFrames + 1
      /\ tokens' = tokens /\ inbox' = inbox
      /\ arrived' = arrived /\ dispatcher' = dispatcher /\ forwarded' = forwarded
      /\ channel' = channel /\ received' = received
      /\ collected' = collected /\ setter' = setter
      /\ setBack' = setBack
  BY DEF LeaveBarrierHead, DisplayEntered, tileVars, displayVars
<1>2. headFrames \in 0 .. LastFrame + 1 /\ 1 \in Displays
  BY InboxNotAhead DEF Displays
<1>3. headFrames + 1 \in 0 .. LastFrame + 1
  BY <1>1, <1>2, InboxNotAhead
<1>4. TypeOK'
  BY <1>1, <1>3 DEF IInv, TypeOK
<1>5. SentOnce' /\ QueuedOnce'
  BY <1>1 DEF IInv, SentOnce, QueuedOnce, InInbox
<1>6. InboxInStep'
  BY <1>1, <1>2 DEF IInv, InboxInStep
<1>7. FramesInStep'
  <2>1. tokens' = MaxFramesInFlight + headFrames' - 1
    BY <1>1, <1>2 DEF IInv, FramesInStep
  <2>2. \A d \in Displays : headFrames' <= collected[d]
    BY <1>1, <1>2, InboxNotAhead
  <2>3. \A d \in Displays, f \in 0 .. LastFrame :
          f < collected[d] => NeededFor(d, f) \subseteq received[d]
    BY DEF IInv, FramesInStep
  <2>4. headFrames' > 0
    BY <1>1, <1>2
  <2>5. QED
    BY <1>1, <2>1, <2>2, <2>3, <2>4 DEF FramesInStep
<1>8. TilesPassTheHeadNode'
  BY <1>1 DEF IInv, TilesPassTheHeadNode, OnlyInactiveTilesDropped, PassedOnInTime,
              Queued
<1>9. QED
  BY <1>4, <1>5, <1>6, <1>7, <1>8 DEF IInv

LEMMA AnnounceStep ==
  ASSUME IInv, Announce
  PROVE  IInv'
<1>1. /\ head = "announce" /\ head' = "restart" /\ tokens' = tokens + 1
      /\ headFrames' = headFrames /\ inbox' = inbox
      /\ arrived' = arrived /\ dispatcher' = dispatcher /\ forwarded' = forwarded
      /\ channel' = channel /\ received' = received
      /\ collected' = collected /\ setter' = setter
      /\ setBack' = setBack
  BY DEF Announce, tileVars, displayVars
<1>2. tokens = MaxFramesInFlight + headFrames - 1 /\ headFrames > 0
  BY <1>1 DEF IInv, FramesInStep
<1>3. headFrames \in 0 .. LastFrame + 1
  BY InboxNotAhead
<1>4. tokens' = MaxFramesInFlight + headFrames
  BY <1>1, <1>2, <1>3
<1>5. tokens' \in MaxFramesInFlight .. MaxFramesInFlight + LastFrame + 1
  BY <1>3, <1>4
<1>6. TypeOK'
  BY <1>1, <1>5 DEF IInv, TypeOK
<1>7. SentOnce' /\ QueuedOnce' /\ InboxInStep'
  BY <1>1 DEF IInv, SentOnce, QueuedOnce, InInbox, InboxInStep
<1>8. FramesInStep'
  BY <1>1, <1>2, <1>3, <1>4 DEF IInv, FramesInStep
<1>9. TilesPassTheHeadNode'
  BY <1>1 DEF IInv, TilesPassTheHeadNode, OnlyInactiveTilesDropped, PassedOnInTime,
              Queued
<1>10. QED
  BY <1>6, <1>7, <1>8, <1>9 DEF IInv

\* When a display collects a frame nothing of the frame is on its way to it,
\* for all that it needs of the frame it has, and it was sent everything once.
LEMMA CollectStep ==
  ASSUME IInv, NEW d \in Displays, Collect(d)
  PROVE  IInv'
<1>1. /\ collected[d] <= LastFrame
      /\ NeededFor(d, collected[d]) \subseteq received[d]
      /\ collected' = [collected EXCEPT ![d] = collected[d] + 1]
      /\ setter' = [setter EXCEPT ![d] = "barrier"] /\ setBack' = setBack
      /\ tokens' = tokens /\ inbox' = inbox /\ head' = head
      /\ headFrames' = headFrames
      /\ arrived' = arrived /\ dispatcher' = dispatcher /\ forwarded' = forwarded
      /\ channel' = channel /\ received' = received
  BY DEF Collect, tileVars
<1>2. /\ collected \in [Displays -> 0 .. LastFrame + 1]
      /\ setter \in [Displays -> {"accept", "collect", "barrier"}]
  BY DEF IInv, TypeOK
<1>3. \A e \in Displays : collected'[e] = IF e = d THEN collected[d] + 1 ELSE collected[e]
  BY <1>1, <1>2
<1>4. collected[d] + 1 \in 0 .. LastFrame + 1
  BY <1>1, <1>2
<1>5. TypeOK'
  <2>1. collected' \in [Displays -> 0 .. LastFrame + 1]
    BY <1>1, <1>2, <1>4
  <2>2. setter' \in [Displays -> {"accept", "collect", "barrier"}]
    BY <1>1, <1>2
  <2>3. QED
    BY <1>1, <2>1, <2>2 DEF IInv, TypeOK
<1>6. SentOnce' /\ QueuedOnce' /\ InboxInStep'
  BY <1>1 DEF IInv, SentOnce, QueuedOnce, InInbox, InboxInStep
<1>7. \A e \in Displays : collected[e] \in Int /\ collected[e] <= collected'[e]
  BY <1>2, <1>3
<1>8. FramesInStep'
  <2>1. \A e \in Displays : headFrames <= collected'[e]
    BY <1>3, <1>4, <1>7, InboxNotAhead
  <2>2. ASSUME NEW e \in Displays, NEW f \in 0 .. LastFrame, f < collected'[e]
        PROVE  NeededFor(e, f) \subseteq received[e]
    <3>1. f < collected[e] \/ (e = d /\ f = collected[d])
      BY <1>2, <1>3, <2>2
    <3>2. QED
      BY <1>1, <3>1 DEF IInv, FramesInStep
  <2>3. QED
    BY <1>1, <2>1, <2>2 DEF IInv, FramesInStep
<1>9. Range(channel[d]) = {}
  <2>1. SUFFICES ASSUME NEW m \in Range(channel[d]) PROVE FALSE
    OBVIOUS
  <2>2. m \in Messages /\ m.frameID = collected[d] /\ d \in Reach[m.tile] /\ m \notin received[d]
    BY PlacesTyped DEF IInv, TilesPassTheHeadNode, PassedOnInTime, SentOnce
  <2>3. m \in NeededFor(d, collected[d])
    BY <2>2 DEF Messages, NeededFor, TilesFor
  <2>4. QED
    BY <1>1, <2>2, <2>3
<1>10. PassedOnInTime'
  <2> SUFFICES ASSUME NEW e \in Displays, NEW m \in Range(channel[e])
               PROVE  /\ m.frameID = collected'[e]
                      /\ \A x \in Displays : m.frameID <= collected'[x]
    BY <1>1 DEF PassedOnInTime
  <2>1. e # d
    BY <1>9
  <2>2. m.frameID = collected[e] /\ \A x \in Displays : m.frameID <= collected[x]
    BY DEF IInv, TilesPassTheHeadNode, PassedOnInTime
  <2>3. \A x \in Displays : m.frameID <= collected'[x]
    BY <1>2, <1>3, <2>2
  <2>4. QED
    BY <1>3, <2>1, <2>2, <2>3
<1>11. OnlyInactiveTilesDropped'
  BY <1>1 DEF IInv, TilesPassTheHeadNode, OnlyInactiveTilesDropped, Queued
<1>12. QED
  BY <1>5, <1>6, <1>8, <1>10, <1>11 DEF IInv, TilesPassTheHeadNode

\* From the barrier, or from Server's constructor, to the next frame.
LEMMA BackToCollectStep ==
  ASSUME IInv, NEW d \in Displays, LeaveBarrier(d) \/ AcceptTiles(d)
  PROVE  IInv'
<1>1. /\ setter' = [setter EXCEPT ![d] = "collect"]
      /\ setBack' = setBack \/ setBack' = setBack \cup {d}
      /\ tokens' = tokens /\ inbox' = inbox /\ head' = head
      /\ headFrames' = headFrames /\ collected' = collected
      /\ arrived' = arrived /\ dispatcher' = dispatcher /\ forwarded' = forwarded
      /\ channel' = channel /\ received' = received
  BY DEF LeaveBarrier, AcceptTiles, tileVars
<1>2. TypeOK'
  BY <1>1 DEF IInv, TypeOK
<1>3. SentOnce' /\ QueuedOnce' /\ InboxInStep' /\ FramesInStep'
  BY <1>1 DEF IInv, SentOnce, QueuedOnce, InInbox, InboxInStep, FramesInStep
<1>4. TilesPassTheHeadNode'
  BY <1>1 DEF IInv, TilesPassTheHeadNode, OnlyInactiveTilesDropped, PassedOnInTime,
              Queued
<1>5. QED
  BY <1>2, <1>3, <1>4 DEF IInv

LEMMA StutterStep ==
  ASSUME IInv, UNCHANGED vars
  PROVE  IInv'
BY DEF IInv, vars, TypeOK, SentOnce, QueuedOnce, InInbox, InboxInStep, FramesInStep,
       TilesPassTheHeadNode, OnlyInactiveTilesDropped, PassedOnInTime, Queued

LEMMA NextStep == IInv /\ [Next]_vars => IInv'
<1> SUFFICES ASSUME IInv, [Next]_vars PROVE IInv'
  OBVIOUS
<1>1. CASE \E m \in Messages : Arrive(m)
  BY <1>1, ArriveStep
<1>2. CASE Dispatch
  BY <1>2, TakeTileStep, ForwardStep, FinishTileStep DEF Dispatch
<1>3. CASE HeadNode
  BY <1>3, StartAcceptingStep, LeaveBarrierHeadStep, AnnounceStep, RestartStep DEF HeadNode
<1>4. CASE \E d \in Displays : Display(d)
  BY <1>4, ReceiveStep, CollectStep, BackToCollectStep DEF Display
<1>5. CASE UNCHANGED vars
  BY <1>5, StutterStep
<1>6. QED
  BY <1>1, <1>2, <1>3, <1>4, <1>5 DEF Next

-----------------------------------------------------------------------------
(* What follows.                                                           *)

\* The inductive invariant: where every tile is between the head node's inbox
\* and the displays, and how far mailbox, main loop and displays are apart.
THEOREM HeadNodeInvariant == Spec => []IInv
<1>1. IInv /\ [Next]_vars => IInv'
  BY NextStep
<1>2. QED
  BY InitIInv, <1>1, PTL DEF Spec

\* Type correctness; with it, that the mailbox is on the frame that the head
\* node announced whenever the main loop waits (Server::syncOnFrameReceived).
THEOREM HeadNodeTypeOK == Spec => []TypeOK
<1>1. IInv => TypeOK
  BY DEF IInv
<1>2. QED
  BY HeadNodeInvariant, <1>1, PTL

\* What locked_put() drops on the head node no display needs, and what its
\* dispatcher passes on is of the frame for which that display waits.
THEOREM NoTileLostOnTheWay == Spec => []TilesPassTheHeadNode
<1>1. IInv => TilesPassTheHeadNode
  BY DEF IInv
<1>2. QED
  BY HeadNodeInvariant, <1>1, PTL

\* One step of the wall is, for each display, a step of the stream of frames
\* that its assembler expects, or none.
LEMMA StreamStep ==
  ASSUME IInv, [Next]_vars, NEW d \in Displays
  PROVE  Stream(d)!Next \/ UNCHANGED Stream(d)!vars
<1> DEFINE pic == [p \in {d} |-> collected[d] - 1]
<1>1. ASSUME received'[d] = received[d], collected'[d] = collected[d]
      PROVE  UNCHANGED Stream(d)!vars
  BY <1>1 DEF Stream!vars
<1>2. CASE UNCHANGED <<received, collected>>
  BY <1>1, <1>2
<1>3. ASSUME NEW e \in Displays, Receive(e)
      PROVE  Stream(d)!Next \/ UNCHANGED Stream(d)!vars
  <2> DEFINE m == Head(channel[e])
  <2>1. /\ channel[e] # <<>> /\ collected' = collected
        /\ received' = [received EXCEPT ![e] = received[e] \cup {m}]
    BY <1>3 DEF Receive, displayVars
  <2>2. received \in [Displays -> SUBSET Messages] /\ channel[e] \in Seq(Messages)
    BY DEF IInv, TypeOK
  <2>3. CASE e # d
    BY <1>1, <2>1, <2>2, <2>3
  <2>4. CASE e = d
    <3>1. m \in Range(channel[d])
      BY <2>1, <2>2, <2>4, TailFacts
    <3> HIDE DEF m
    <3>2. /\ m \in Messages /\ d \in Reach[m.tile] /\ m \notin received[d]
          /\ m.frameID = collected[d]
      BY <3>1, PlacesTyped DEF IInv, SentOnce, TilesPassTheHeadNode, PassedOnInTime
    <3>3. m \in Stream(d)!Messages
      BY <3>2 DEF Messages, Stream!Messages, TilesFor
    <3>4. m.frameID < collected[d] + MaxFramesInFlight
      BY <3>2, InboxNotAhead
    <3>5. received'[d] = received[d] \cup {m} /\ collected'[d] = collected[d]
      BY <2>1, <2>2, <2>4
    <3>6. Stream(d)!Arrive(m)
      BY <3>2, <3>4, <3>5 DEF Stream!Arrive
    <3>7. QED
      BY <3>3, <3>6 DEF Stream!Next
  <2>5. QED
    BY <2>3, <2>4
<1>4. ASSUME NEW e \in Displays, Collect(e)
      PROVE  Stream(d)!Next \/ UNCHANGED Stream(d)!vars
  <2>1. /\ collected[e] <= LastFrame
        /\ NeededFor(e, collected[e]) \subseteq received[e]
        /\ collected' = [collected EXCEPT ![e] = collected[e] + 1]
        /\ received' = received
    BY <1>4 DEF Collect, tileVars
  <2>2. collected \in [Displays -> 0 .. LastFrame + 1]
    BY DEF IInv, TypeOK
  <2>3. CASE e # d
    BY <1>1, <2>1, <2>2, <2>3
  <2>4. CASE e = d
    <3>1. collected'[d] = collected[d] + 1 /\ received'[d] = received[d] /\ collected[d] \in Int
      BY <2>1, <2>2, <2>4
    <3>2. Stream(d)!TilesOf(collected[d]) \subseteq received[d]
      BY <2>1, <2>4 DEF NeededFor, Stream!TilesOf
    <3>3. collected'[d] - 1 = collected[d]
      BY <3>1
    <3>4. Stream(d)!Deliver
      BY <2>1, <2>4, <3>1, <3>2, <3>3 DEF Stream!Deliver
    <3>5. QED
      BY <3>4 DEF Stream!Next
  <2>5. QED
    BY <2>3, <2>4
<1>5. QED
  BY <1>2, <1>3, <1>4
     DEF Next, vars, Arrive, Dispatch, TakeTile, Forward, FinishTile, HeadNode,
         StartAccepting, LeaveBarrierHead, Announce, Restart, Display, AcceptTiles,
         LeaveBarrier, tileVars, displayVars

\* The displays behind a head node get their tiles the way their assemblers
\* assume: FrameAssembler's proofs hold for them as well.
THEOREM HeadNodeFeedsDisplays == Spec => EveryDisplayIsFed
<1>1. Init => \A d \in Displays : Stream(d)!Init
  BY DEF Init, Stream!Init
<1>2. IInv /\ [Next]_vars =>
        [\A d \in Displays : Stream(d)!Next \/ UNCHANGED Stream(d)!vars]_vars
  BY StreamStep
<1>3. QED
  BY HeadNodeInvariant, <1>1, <1>2, PTL DEF Spec, EveryDisplayIsFed
=============================================================================
