---------------------------- MODULE HeadNodeWall ----------------------------
(***************************************************************************)
(* The wall in operation with a head node (Config::useHeadNode).  Rank 0   *)
(* has no display.  Its time-stamped mailbox takes the tiles of the whole  *)
(* wall, its dispatcher passes each on over MPI to the displays that the   *)
(* tile overlaps, and its main thread runs syncOnFrameReceived() for ever: *)
(* a barrier with the displays, a token to the clients, and the mailbox    *)
(* started on the next frame.                                              *)
(*                                                                         *)
(* A tile may overlap no display at all, when it lies within a bezel: no   *)
(* frame waits for it.  Assemblers are what FrameStream says of them, as   *)
(* in DisplayWall, and one whose mailbox was set back to frame 0 may never *)
(* hand over another frame.                                                *)
(***************************************************************************)
EXTENDS TimeStampedMailbox, FiniteSets

Sets == INSTANCE FiniteSetsExt

CONSTANTS NumDisplays,        \* ranks 1 .. NumDisplays have a display
          Tiles,              \* the tiles of a frame
          Reach,              \* Reach[t]: the displays that tile t overlaps
          ChannelSize,        \* how many messages MPI holds for each display
          LastFrame,          \* bound: the renderer renders frames 0 .. LastFrame
          MaxFramesInFlight

Displays == 1 .. NumDisplays

ASSUME DisplaysAssumption == NumDisplays \in Nat \ {0}
ASSUME ReachAssumption ==
  /\ Reach \in [Tiles -> SUBSET Displays]
  /\ \A d \in Displays : \E t \in Tiles : d \in Reach[t]
ASSUME ChannelAssumption == ChannelSize \in Nat \ {0}
ASSUME FramesAssumption == LastFrame \in Nat /\ MaxFramesInFlight \in Nat \ {0}

Messages == [frameID: 0 .. LastFrame, tile: Tiles]
TilesFor(d) == {t \in Tiles : d \in Reach[t]}
NeededFor(d, f) == [frameID: {f}, tile: TilesFor(d)]

VARIABLES tokens,      \* how many tokens the head node has broadcast
          arrived,     \* the messages that were put in the head node's inbox
          inbox,       \* the head node's inbox
          dispatcher,  \* the message in the dispatcher's hands: none, or one
          forwarded,   \* the displays that this message was sent to already
          channel,     \* MPI messages under way to each display
          received,    \* what each display's dispatcher has put in its inbox
          head,        \* where the head node's main thread is
          headFrames,  \* how many frames the head node has seen received
          collected,   \* how many frames each display has collected
          setter,      \* where the thread of each display is that collects
          setBack      \* the displays whose mailbox was set back to frame 0

vars == <<tokens, arrived, inbox, dispatcher, forwarded, channel, received,
          head, headFrames, collected, setter, setBack>>
tileVars == <<arrived, dispatcher, forwarded, channel, received>>
displayVars == <<collected, setter, setBack>>

Init ==
  /\ tokens = MaxFramesInFlight
  /\ arrived = {}
  /\ inbox = EmptyMailbox
  /\ dispatcher = {}
  /\ forwarded = {}
  /\ channel = [d \in Displays |-> <<>>]
  /\ received = [d \in Displays |-> {}]
  /\ head = "construct"
  /\ headFrames = 0
  /\ collected = [d \in Displays |-> 0]
  /\ setter = [d \in Displays |-> "accept"]
  /\ setBack = {}

-----------------------------------------------------------------------------
(* Slips one could make in the actions below; no specification uses them.  *)

\* The head node starts on the next frame without waiting for the displays.
LeaveBarrierHeadAlone ==
  /\ head = "barrier"
  /\ headFrames <= LastFrame
  /\ headFrames' = headFrames + 1
  /\ head' = "announce"
  /\ UNCHANGED <<tokens, inbox, tileVars, displayVars>>

\* frameID instead of frameID + 1: the mailbox stays a frame behind.
RestartSameFrame ==
  /\ head = "restart"
  /\ inbox' = StartNewFrame(inbox, headFrames - 1)
  /\ head' = "barrier"
  /\ UNCHANGED <<tokens, headFrames, tileVars, displayVars>>

\* The dispatcher stops at the first display that the tile overlaps.
ForwardToFirstOnly ==
  \E m \in dispatcher :
    /\ IF forwarded # {} \/ Reach[m.tile] = {}
         THEN dispatcher' = {} /\ forwarded' = {} /\ UNCHANGED channel
         ELSE \E d \in Reach[m.tile] :
                /\ channel' = [channel EXCEPT ![d] = Append(@, m)]
                /\ forwarded' = {d}
                /\ UNCHANGED dispatcher
    /\ UNCHANGED <<tokens, arrived, inbox, received, head, headFrames, displayVars>>

-----------------------------------------------------------------------------
(* The renderer and the network: any order within the tokens' window.      *)

Arrive(m) ==
  /\ m \notin arrived
  /\ m.frameID < tokens
  /\ arrived' = arrived \cup {m}
  /\ inbox' = LockedPut(inbox, m)
  /\ UNCHANGED <<tokens, dispatcher, forwarded, channel, received, head, headFrames, displayVars>>

-----------------------------------------------------------------------------
(* The dispatcher's threads.                                               *)

\* Head node: message = inbox->get()
TakeTile ==
  /\ dispatcher = {}
  /\ CanGet(inbox)
  /\ dispatcher' = {Front(inbox)}
  /\ inbox' = PopFront(inbox)
  /\ UNCHANGED <<tokens, arrived, forwarded, channel, received, head, headFrames, displayVars>>

\* The ranks whose region the tile overlaps and that do not have it yet.
ToSend(m) == Reach[m.tile] \ forwarded

\* MPI_Send to the next rank of the loop, which may block until MPI can take
\* the message, and with it all that is for other ranks.  (A send that blocks
\* until the message is received is a Forward and a Receive with none of the
\* dispatcher's steps between them.)
Forward ==
  \E m \in dispatcher :
    /\ ToSend(m) # {}
    /\ LET d == Sets!Min(ToSend(m))
       IN  /\ Len(channel[d]) < ChannelSize
           /\ channel' = [channel EXCEPT ![d] = Append(@, m)]
           /\ forwarded' = forwarded \cup {d}
    /\ UNCHANGED <<tokens, arrived, inbox, dispatcher, received, head, headFrames, displayVars>>

\* All who need it have it.
FinishTile ==
  /\ \E m \in dispatcher : ToSend(m) = {}
  /\ dispatcher' = {}
  /\ forwarded' = {}
  /\ UNCHANGED <<tokens, arrived, inbox, channel, received, head, headFrames, displayVars>>

Dispatch == TakeTile \/ Forward \/ FinishTile

\* Display: probe, receive, inbox->put(message).
Receive(d) ==
  /\ channel[d] # <<>>
  /\ channel' = [channel EXCEPT ![d] = Tail(@)]
  /\ received' = [received EXCEPT ![d] = @ \cup {Head(channel[d])}]
  /\ UNCHANGED <<tokens, arrived, inbox, dispatcher, forwarded, head, headFrames, displayVars>>

-----------------------------------------------------------------------------
(* The head node's main thread, and the barrier it shares with the         *)
(* displays.  A rank is in its n-th barrier or beyond:                     *)

HeadEntered(n) == headFrames >= n \/ (headFrames = n - 1 /\ head = "barrier")
DisplayEntered(d, n) == collected[d] >= n

\* The end of Server's constructor: inbox->startNewFrame(0).
StartAccepting ==
  /\ head = "construct"
  /\ inbox' = StartNewFrame(inbox, 0)
  /\ head' = "barrier"
  /\ UNCHANGED <<tokens, headFrames, tileVars, displayVars>>

LeaveBarrierHead ==
  /\ head = "barrier"
  /\ \A d \in Displays : DisplayEntered(d, headFrames + 1)
  /\ headFrames' = headFrames + 1
  /\ head' = "announce"
  /\ UNCHANGED <<tokens, inbox, tileVars, displayVars>>

Announce ==
  /\ head = "announce"
  /\ tokens' = tokens + 1
  /\ head' = "restart"
  /\ UNCHANGED <<inbox, headFrames, tileVars, displayVars>>

\* inbox->startNewFrame(frameID + 1), whatever is still in the inbox.
Restart ==
  /\ head = "restart"
  /\ inbox' = StartNewFrame(inbox, headFrames)
  /\ head' = "barrier"
  /\ UNCHANGED <<tokens, headFrames, tileVars, displayVars>>

HeadNode == StartAccepting \/ LeaveBarrierHead \/ Announce \/ Restart

-----------------------------------------------------------------------------
(* The thread of a display that collects its frames.                       *)

\* The end of Server's constructor on a display, inbox->startNewFrame(0): the
\* head node may have passed on frame 0 before, and the display's assembler
\* have finished it.
AcceptTiles(d) ==
  /\ setter[d] = "accept"
  /\ \/ setBack' = setBack
     \/ /\ NeededFor(d, 0) \subseteq received[d]
        /\ setBack' = setBack \cup {d}
  /\ setter' = [setter EXCEPT ![d] = "collect"]
  /\ UNCHANGED <<tokens, inbox, head, headFrames, collected, tileVars>>

\* collectAssembledFrame(), which on a display that was set back may return,
\* when the frame was assembled before, or wait for ever.
Collect(d) ==
  /\ setter[d] = "collect"
  /\ collected[d] <= LastFrame
  /\ NeededFor(d, collected[d]) \subseteq received[d]
  /\ collected' = [collected EXCEPT ![d] = @ + 1]
  /\ setter' = [setter EXCEPT ![d] = "barrier"]
  /\ UNCHANGED <<tokens, inbox, head, headFrames, setBack, tileVars>>

\* Leave the barrier, give the frame to the window.
LeaveBarrier(d) ==
  /\ setter[d] = "barrier"
  /\ HeadEntered(collected[d])
  /\ \A e \in Displays : DisplayEntered(e, collected[d])
  /\ setter' = [setter EXCEPT ![d] = "collect"]
  /\ UNCHANGED <<tokens, inbox, head, headFrames, collected, setBack, tileVars>>

Display(d) == Receive(d) \/ AcceptTiles(d) \/ Collect(d) \/ LeaveBarrier(d)

Next ==
  \/ \E m \in Messages : Arrive(m)
  \/ Dispatch \/ HeadNode
  \/ \E d \in Displays : Display(d)

\* The renderer renders on, every thread keeps running; an assembler is sure
\* to hand over a frame only on a display that was not set back.
Fairness ==
  /\ \A m \in Messages : WF_vars(Arrive(m))
  /\ WF_vars(Dispatch)
  /\ WF_vars(HeadNode)
  /\ \A d \in Displays :
       /\ WF_vars(Receive(d))
       /\ WF_vars(AcceptTiles(d) \/ LeaveBarrier(d))
       /\ WF_vars(Collect(d) /\ d \notin setBack)

Spec == Init /\ [][Next]_vars
FairSpec == Spec /\ Fairness

-----------------------------------------------------------------------------
(* Correctness.                                                            *)

Queued == Range(inbox.messages) \cup Range(inbox.futureFrameMessages) \cup dispatcher

\* Every variable has its type; the head node's mailbox is on the frame that
\* it has announced.
TypeOK ==
  /\ tokens \in MaxFramesInFlight .. MaxFramesInFlight + LastFrame + 1
  /\ arrived \subseteq Messages
  /\ inbox \in Mailbox(Messages)
  /\ NoDuplicates(inbox)
  /\ dispatcher \in {{}} \cup {{m} : m \in Messages}
  /\ forwarded \subseteq Displays
  /\ dispatcher = {} => forwarded = {}
  /\ channel \in [Displays -> Seq(Messages)]
  /\ \A d \in Displays : Len(channel[d]) <= ChannelSize
  /\ received \in [Displays -> SUBSET Messages]
  /\ head \in {"construct", "barrier", "announce", "restart"}
  /\ headFrames \in 0 .. LastFrame + 1
  /\ head = "barrier" => inbox.currentFrameID = headFrames
  /\ collected \in [Displays -> 0 .. LastFrame + 1]
  /\ setter \in [Displays -> {"accept", "collect", "barrier"}]
  /\ setBack \subseteq Displays

\* What locked_put() says of the tiles that it drops, "they're guaranteed
\* inactive": a tile that some display needs is still queued on the head
\* node, on its way to that display, or there.
OnlyInactiveTilesDropped ==
  \A m \in arrived, d \in Displays :
    d \in Reach[m.tile] =>
      m \in Queued \cup Range(channel[d]) \cup received[d]

\* The head node holds back what is early and passes on nothing late: a tile
\* on its way to a display is of the very frame that display waits for, and
\* no display lacks an earlier one.
PassedOnInTime ==
  \A d \in Displays : \A m \in Range(channel[d]) :
    /\ m.frameID = collected[d]
    /\ \A e \in Displays : m.frameID <= collected[e]

\* Every tile that a display needs passes the head node, and none passes it
\* out of turn, although the mailbox is restarted while tiles of the old frame
\* are queued and tiles of the next are on their way.
TilesPassTheHeadNode == OnlyInactiveTilesDropped /\ PassedOnInTime

\* The displays get their tiles the way their assemblers assume.
Stream(d) == INSTANCE FrameStream WITH
  Region <- {d},
  Tiles <- TilesFor(d),
  Blank <- -1,
  arrived <- received[d],
  delivered <- collected[d],
  picture <- [p \in {d} |-> collected[d] - 1]

EveryDisplayIsFed ==
  /\ \A d \in Displays : Stream(d)!Init
  /\ [][\A d \in Displays : Stream(d)!Next \/ UNCHANGED Stream(d)!vars]_vars

-----------------------------------------------------------------------------
(* The inductive invariant: where a tile is on its way, and how far apart  *)
(* mailbox, head node and displays may be.                                 *)

InInbox == Range(inbox.messages) \cup Range(inbox.futureFrameMessages)

\* A display was sent only what it needs, and every tile once.
SentOnce ==
  \A d \in Displays :
    /\ Range(channel[d]) \cup received[d] \subseteq {m \in arrived : d \in Reach[m.tile]}
    /\ IsInjective(channel[d])
    /\ Range(channel[d]) \cap received[d] = {}

\* What is queued was sent to no display yet; what the dispatcher holds was
\* sent to the displays that it has done, and is queued no more.
QueuedOnce ==
  /\ InInbox \cup dispatcher \subseteq arrived
  /\ InInbox \cap dispatcher = {}
  /\ \A d \in Displays :
       /\ InInbox \cap (Range(channel[d]) \cup received[d]) = {}
       /\ \A m \in dispatcher :
            m \in Range(channel[d]) \cup received[d] <=> d \in forwarded

\* The mailbox is on the frame that the head node waits for, or has just seen
\* collected; it lets nothing through early and defers nothing that is due.
InboxInStep ==
  /\ inbox.currentFrameID =
       CASE head = "construct" -> -1
         [] head = "barrier" -> headFrames
         [] head \in {"announce", "restart"} -> headFrames - 1
  /\ \A m \in Range(inbox.messages) \cup dispatcher : m.frameID <= inbox.currentFrameID
  /\ \A m \in Range(inbox.futureFrameMessages) : m.frameID > inbox.currentFrameID

\* Tokens and frames: every frame that the head node has seen was announced,
\* and every display has collected it, from its tiles.
FramesInStep ==
  /\ tokens = MaxFramesInFlight + headFrames - (IF head = "announce" THEN 1 ELSE 0)
  /\ head = "construct" => headFrames = 0
  /\ head \in {"announce", "restart"} => headFrames > 0
  /\ \A d \in Displays :
       /\ headFrames <= collected[d]
       /\ \A f \in 0 .. LastFrame : f < collected[d] => NeededFor(d, f) \subseteq received[d]

IInv ==
  /\ TypeOK
  /\ SentOnce
  /\ QueuedOnce
  /\ InboxInStep
  /\ FramesInStep
  /\ TilesPassTheHeadNode

-----------------------------------------------------------------------------
(* Progress.                                                               *)

\* Every display has collected every frame, and the head node announced it.
AllAnnounced ==
  /\ \A d \in Displays : collected[d] = LastFrame + 1
  /\ tokens = MaxFramesInFlight + LastFrame + 1

\* collectAssembledFrame() waits on display d, whose mailbox was set back, for
\* a frame that it has all the tiles of.
WaitsInVain(d) ==
  /\ d \in setBack
  /\ setter[d] = "collect"
  /\ NeededFor(d, collected[d]) \subseteq received[d]

\* Barrier, tokens, the restarted mailbox and sends that block never stop each
\* other: every frame gets through, or a display whose startNewFrame(0) came
\* late waits for ever for a frame that the head node has passed on in full.
OnlyRewindStopsTheWall ==
  <>[]AllAnnounced \/ <>[](\E d \in Displays : WaitsInVain(d))
=============================================================================
