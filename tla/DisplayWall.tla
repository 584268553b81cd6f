---------------------------- MODULE DisplayWall ----------------------------
(***************************************************************************)
(* The wall in operation, without a head node: the renderer's ranks, that  *)
(* begin and end frames and send tiles; the network; and on every rank of  *)
(* the service the thread that collects assembled frames (the frameSetter  *)
(* of main(), in Server::waitForNextAssembledFrame) and the window.        *)
(*                                                                         *)
(* It starts where ConnectionSetup ends: MaxFramesInFlight tokens are on   *)
(* their way, and every rank is about to "start accepting tiles".  The     *)
(* assembler of a display is what FrameStream says of it, which            *)
(* FrameAssembler implements.  FrameStream assumes that tiles come no more *)
(* than MaxFramesInFlight frames ahead; here nothing assumes it, and that  *)
(* the barrier and the tokens make it so is EveryDisplayIsFed.             *)
(*                                                                         *)
(* FrameStream does not promise that a frame whose tiles are all there is  *)
(* ever handed over: FrameAssembler's OnlyRewindStops shows that it is,    *)
(* unless "start accepting tiles" came late and set the mailbox back to    *)
(* frame 0.  The displays that it happened to are in setBack.              *)
(***************************************************************************)
EXTENDS Integers, FiniteSets

CONSTANTS NumDisplays,        \* ranks of the service, one per display
          Clients,            \* ranks of the renderer
          Touches,            \* pairs <<c, d>>: client c has tiles on display d
          LastFrame,          \* bound: the renderer renders frames 0 .. LastFrame
          MaxFramesInFlight

Displays == 0 .. NumDisplays - 1

ASSUME DisplaysAssumption == NumDisplays \in Nat \ {0}
ASSUME TouchesAssumption ==
  /\ Touches \subseteq Clients \X Displays
  /\ \A d \in Displays : \E c \in Clients : <<c, d>> \in Touches
ASSUME FramesAssumption == LastFrame \in Nat /\ MaxFramesInFlight \in Nat \ {0}

\* The clients that have tiles on display d, and what each of them sends of a
\* frame: its tiles for d, which are one here.
Senders(d) == {c \in Clients : <<c, d>> \in Touches}
Batches == [frameID: 0 .. LastFrame, from: Clients, to: Displays]
NeededFor(d, f) == [frameID: {f}, from: Senders(d), to: {d}]

VARIABLES client,     \* g_frameID of each client, and whether it is in a frame
          tokens,     \* how many tokens rank 0 has broadcast
          sent,       \* the batches that were given to dw2_send_rgba()
          arrived,    \* those that reached the inbox of their display
          collected,  \* how many frames each display has collected
          setter,     \* where the thread of each display is that collects
          setBack,    \* the displays whose mailbox was set back to frame 0
          shown,      \* how many frames were given to each window
          screen      \* the frame each window has drawn, -1 while none

vars == <<client, tokens, sent, arrived, collected, setter,
          setBack, shown, screen>>
clientVars == <<client, sent>>
displayVars == <<collected, setter, setBack, shown, screen>>

Init ==
  /\ client = [c \in Clients |-> [frameID |-> 0, inFrame |-> FALSE]]
  /\ tokens = MaxFramesInFlight
  /\ sent = {}
  /\ arrived = {}
  /\ collected = [d \in Displays |-> 0]
  /\ setter = [d \in Displays |-> "accept"]
  /\ setBack = {}
  /\ shown = [d \in Displays |-> 0]
  /\ screen = [d \in Displays |-> -1]

Goto(d, label) == setter' = [setter EXCEPT ![d] = label]

-----------------------------------------------------------------------------
(* Slips one could make in the actions below; no specification uses them.  *)

\* A display does not wait for the others.
LeaveBarrierAlone(d) ==
  /\ setter[d] = "barrier"
  /\ Goto(d, IF d = 0 THEN "announce" ELSE "show")
  /\ UNCHANGED <<tokens, arrived, collected, setBack, shown, screen, clientVars>>

\* The head counts its own frame only and hands out two tokens for it.
AnnounceTwice ==
  /\ setter[0] = "announce"
  /\ tokens' = tokens + 2
  /\ Goto(0, "show")
  /\ UNCHANGED <<arrived, collected, setBack, shown, screen, clientVars>>

\* The number of the frame is taken when the tile leaves, not when it is given.
ArriveRelabelled(b) ==
  /\ b \in sent \ arrived
  /\ arrived' = arrived \cup {[b EXCEPT !.frameID = client[b.from].frameID]}
  /\ UNCHANGED <<tokens, clientVars, displayVars>>

\* The token is forgotten.
AnnounceNothing ==
  /\ setter[0] = "announce"
  /\ tokens' = tokens
  /\ Goto(0, "show")
  /\ UNCHANGED <<arrived, collected, setBack, shown, screen, clientVars>>

-----------------------------------------------------------------------------
(* A rank of the renderer.                                                 *)

\* dw2_begin_frame() takes a token.  A client has taken one for every frame
\* that it has ended, and one for the frame that it is in.
BeginFrame(c) ==
  /\ ~ client[c].inFrame
  /\ client[c].frameID <= LastFrame
  /\ client[c].frameID < tokens
  /\ client' = [client EXCEPT ![c].inFrame = TRUE]
  /\ UNCHANGED <<tokens, sent, arrived, displayVars>>

\* dw2_send_rgba() stamps the tile with g_frameID and leaves it to the
\* compressor threads.
SendTiles(c, d) ==
  LET batch == [frameID |-> client[c].frameID, from |-> c, to |-> d]
  IN  /\ client[c].inFrame
      /\ <<c, d>> \in Touches
      /\ batch \notin sent
      /\ sent' = sent \cup {batch}
      /\ UNCHANGED <<client, tokens, arrived, displayVars>>

\* dw2_end_frame(), which the renderer calls when it has sent its part.
EndFrame(c) ==
  /\ client[c].inFrame
  /\ \A d \in Displays : <<c, d>> \in Touches =>
       [frameID |-> client[c].frameID, from |-> c, to |-> d] \in sent
  /\ client' = [client EXCEPT ![c] = [frameID |-> @.frameID + 1, inFrame |-> FALSE]]
  /\ UNCHANGED <<tokens, sent, arrived, displayVars>>

\* Compression, the outbox, TCP and the receive thread, in whatever order
\* they let the tiles of different frames and clients through.
Arrive(b) ==
  /\ b \in sent \ arrived
  /\ arrived' = arrived \cup {b}
  /\ UNCHANGED <<tokens, clientVars, displayVars>>

-----------------------------------------------------------------------------
(* A rank of the service: the thread that collects frames and the window.  *)

\* "start accepting tiles ...": the last statement of Server's constructor,
\* inbox->startNewFrame(0), after which main() starts the thread.  When the
\* assembler's threads have finished frame 0 and gone on before it, it takes
\* the mailbox back from a later frame.
AcceptTiles(d) ==
  /\ setter[d] = "accept"
  /\ \/ setBack' = setBack
     \/ /\ NeededFor(d, 0) \subseteq arrived
        /\ setBack' = setBack \cup {d}
  /\ Goto(d, "collect")
  /\ UNCHANGED <<tokens, arrived, collected, shown, screen, clientVars>>

\* collectAssembledFrame(), then syncOnFrameReceived() enters the barrier.  A
\* display that was set back may have assembled the frame, or it may not: its
\* tiles may be deferred for ever (see Fairness).
Collect(d) ==
  /\ setter[d] = "collect"
  /\ collected[d] <= LastFrame
  /\ NeededFor(d, collected[d]) \subseteq arrived
  /\ collected' = [collected EXCEPT ![d] = @ + 1]
  /\ Goto(d, "barrier")
  /\ UNCHANGED <<tokens, arrived, setBack, shown, screen, clientVars>>

LeaveBarrier(d) ==
  /\ setter[d] = "barrier"
  /\ \A e \in Displays : collected[e] >= collected[d]
  /\ Goto(d, IF d = 0 THEN "announce" ELSE "show")
  /\ UNCHANGED <<tokens, arrived, collected, setBack, shown, screen, clientVars>>

\* Rank 0 tells the clients that the frame has been received.
Announce ==
  /\ setter[0] = "announce"
  /\ tokens' = tokens + 1
  /\ Goto(0, "show")
  /\ UNCHANGED <<arrived, collected, setBack, shown, screen, clientVars>>

\* setFrameBuffer() on the window, then wait for the next frame.
SetFrameBuffer(d) ==
  /\ setter[d] = "show"
  /\ shown' = [shown EXCEPT ![d] = collected[d]]
  /\ Goto(d, "collect")
  /\ UNCHANGED <<tokens, arrived, collected, setBack, screen, clientVars>>

\* The main thread's display(): draw what getFrameBuffer() returns, be it new
\* or not.
Draw(d) ==
  /\ screen' = [screen EXCEPT ![d] = shown[d] - 1]
  /\ UNCHANGED <<tokens, arrived, collected, setter, setBack, shown, clientVars>>

Client(c) == BeginFrame(c) \/ EndFrame(c) \/ \E d \in Displays : SendTiles(c, d)

Setter(d) == AcceptTiles(d) \/ Collect(d) \/ LeaveBarrier(d) \/ SetFrameBuffer(d)

Next ==
  \/ \E c \in Clients : Client(c)
  \/ \E b \in Batches : Arrive(b)
  \/ \E d \in Displays : Setter(d) \/ Draw(d)
  \/ Announce

\* The renderer renders on while it has tokens, the network delivers, threads
\* keep running.  A frame whose tiles are there is certain to be handed over
\* only on a display that was not set back.
Fairness ==
  /\ \A c \in Clients : WF_vars(Client(c))
  /\ \A b \in Batches : WF_vars(Arrive(b))
  /\ \A d \in Displays :
       /\ WF_vars(AcceptTiles(d) \/ LeaveBarrier(d) \/ SetFrameBuffer(d))
       /\ WF_vars(Collect(d) /\ d \notin setBack)
       /\ WF_vars(Draw(d))
  /\ WF_vars(Announce)

Spec == Init /\ [][Next]_vars
FairSpec == Spec /\ Fairness

-----------------------------------------------------------------------------
(* Correctness.                                                            *)

\* Every variable has its type; nothing arrives that was not sent.
TypeOK ==
  /\ client \in [Clients -> [frameID: 0 .. LastFrame + 1, inFrame: BOOLEAN]]
  /\ tokens \in MaxFramesInFlight .. MaxFramesInFlight + LastFrame + 1
  /\ sent \subseteq Batches
  /\ arrived \subseteq sent
  /\ collected \in [Displays -> 0 .. LastFrame + 1]
  /\ setter \in [Displays -> {"accept", "collect", "barrier", "announce", "show"}]
  /\ setBack \subseteq Displays
  /\ shown \in [Displays -> 0 .. LastFrame + 1]
  /\ screen \in [Displays -> -1 .. LastFrame]

\* waitForNextAssembledFrame() waits until every rank has its frame: the
\* windows are never more than one frame apart, and none is given a frame
\* that another display has not collected.
LockStep ==
  \A d, e \in Displays : /\ shown[d] <= collected[e]
                         /\ shown[d] <= shown[e] + 1

\* However late a client is with taking its tokens, every display's frames in
\* flight stay bounded: a client that is in a frame is less than
\* MaxFramesInFlight frames ahead of what any display has collected.
FramesInFlightBounded ==
  \A c \in Clients, d \in Displays :
    client[c].inFrame => client[c].frameID < collected[d] + MaxFramesInFlight

\* Nobody runs ahead, no window of another and no client of any window:
\* barrier and tokens keep all of them within one stretch of frames.
NobodyRunsAhead == LockStep /\ FramesInFlightBounded

\* Each display gets its tiles the way the assembler assumes, within the
\* window of MaxFramesInFlight frames, and hands over frames as it promises.
Stream(d) == INSTANCE FrameStream WITH
  Region <- {d},
  Tiles <- Senders(d),
  Blank <- -1,
  arrived <- {[frameID |-> b.frameID, tile |-> b.from] : b \in {a \in arrived : a.to = d}},
  delivered <- collected[d],
  picture <- [p \in {d} |-> collected[d] - 1]

EveryDisplayIsFed ==
  /\ \A d \in Displays : Stream(d)!Init
  /\ [][\A d \in Displays : Stream(d)!Next \/ UNCHANGED Stream(d)!vars]_vars

\* The wall shows frames in lock step.
Wall == INSTANCE WallService

ImplementsWallService == Wall!Spec

-----------------------------------------------------------------------------
(* Why it is so: the inductive invariant.                                  *)

\* A display outside the barrier has nobody behind it; inside it, nobody is
\* further behind than the frame it waits for.
BarrierInv ==
  \A d, e \in Displays :
    /\ setter[d] # "barrier" => collected[e] >= collected[d]
    /\ setter[d] = "barrier" => collected[e] >= collected[d] - 1

\* Where a display's thread is says whether its last frame was shown.
ShownInv ==
  \A d \in Displays :
    /\ setter[d] \in {"accept", "collect"} => shown[d] = collected[d]
    /\ setter[d] \notin {"accept", "collect"} => shown[d] = collected[d] - 1
    /\ setter[d] = "announce" => d = 0

\* There is a token for every frame that rank 0 has announced.
TokenInv ==
  /\ setter[0] \in {"accept", "collect", "show"} => tokens = MaxFramesInFlight + collected[0]
  /\ setter[0] \in {"barrier", "announce"} => tokens = MaxFramesInFlight + collected[0] - 1

\* A client is in a frame that it had a token for, and so is all it has sent.
ClientInv ==
  /\ \A c \in Clients : client[c].inFrame =>
       client[c].frameID < tokens /\ client[c].frameID <= LastFrame
  /\ \A b \in sent : <<b.from, b.to>> \in Touches /\ b.frameID < tokens

\* What was collected had arrived.
CollectedInv ==
  \A d \in Displays, f \in 0 .. LastFrame :
    f < collected[d] => NeededFor(d, f) \subseteq arrived

IInv == TypeOK /\ BarrierInv /\ ShownInv /\ TokenInv /\ ClientInv /\ CollectedInv

-----------------------------------------------------------------------------
(* Progress.                                                               *)

\* Every screen shows the last frame.
AllShown == \A d \in Displays : shown[d] = LastFrame + 1 /\ screen[d] = LastFrame

\* collectAssembledFrame() waits on display d, whose mailbox was set back, for
\* a frame that it has all the tiles of.
WaitsInVain(d) ==
  /\ d \in setBack
  /\ setter[d] = "collect"
  /\ NeededFor(d, collected[d]) \subseteq arrived

\* Whatever the number of tokens, clients, displays and barrier never wait
\* for each other in a circle: every screen comes to show the last frame, or
\* a display whose startNewFrame(0) came late waits for ever for a frame that
\* it has all the tiles of.  Nothing else stops the wall.
OnlyRewindStopsTheWall ==
  <>[]AllShown \/ <>[](\E d \in Displays : WaitsInVain(d))
=============================================================================
