------------------------- MODULE DisplayWallProofs -------------------------
(***************************************************************************)
(* Proofs about DisplayWall, for every wall, renderer and number of frames *)
(* in flight: the inductive invariant, lock step, the bound on the frames  *)
(* in flight, and that the wall implements WallService and feeds every     *)
(* assembler the way FrameStream assumes.                                  *)
(***************************************************************************)
EXTENDS DisplayWall, TLAPS

USE DisplaysAssumption, TouchesAssumption, FramesAssumption DEF Displays

LEMMA InitIInv == Init => IInv
  BY SMT DEF Init, IInv, TypeOK, BarrierInv, ShownInv, TokenInv, ClientInv,
             CollectedInv, NeededFor, Senders, Batches

-----------------------------------------------------------------------------
(* Each action keeps each part of the invariant.                           *)

LEMMA BeginFrameStep ==
  ASSUME IInv, NEW c \in Clients, BeginFrame(c)
  PROVE  IInv'
  BY DEF IInv, BeginFrame, displayVars, TypeOK, BarrierInv, ShownInv, TokenInv,
         ClientInv, CollectedInv, NeededFor, Senders

LEMMA EndFrameStep ==
  ASSUME IInv, NEW c \in Clients, EndFrame(c)
  PROVE  IInv'
<1> DEFINE F == [frameID: 0 .. LastFrame + 1, inFrame: BOOLEAN]
           next == [frameID |-> client[c].frameID + 1, inFrame |-> FALSE]
<1> USE DEF IInv
<1>1. client \in [Clients -> F] /\ client' = [client EXCEPT ![c] = next]
  BY DEF TypeOK, EndFrame
<1>2. next \in F
  <2>1. client[c].frameID \in 0 .. LastFrame
    <3>1. client[c] \in F BY <1>1
    <3>2. client[c].frameID <= LastFrame BY DEF EndFrame, ClientInv
    <3> QED BY <3>1, <3>2
  <2>2. client[c].frameID + 1 \in 0 .. LastFrame + 1 BY <2>1
  <2> QED BY <2>2
<1>3. \A e \in Clients : client'[e] = IF e = c THEN next ELSE client[e]
  BY <1>1
<1>4. TypeOK'
  <2>1. client' \in [Clients -> F] BY <1>1, <1>2
  <2> QED BY <2>1 DEF TypeOK, EndFrame, displayVars
<1>5. BarrierInv' /\ ShownInv' /\ TokenInv' /\ CollectedInv'
  BY DEF EndFrame, displayVars, BarrierInv, ShownInv, TokenInv, CollectedInv,
         NeededFor, Senders
<1>6. ClientInv'
  <2>1. ~ next.inFrame OBVIOUS
  <2>2. tokens' = tokens /\ sent' = sent BY DEF EndFrame
  <2> HIDE DEF next
  <2> QED BY <1>3, <2>1, <2>2 DEF ClientInv
<1> QED BY <1>4, <1>5, <1>6

LEMMA SendTilesStep ==
  ASSUME IInv, NEW c \in Clients, NEW d \in Displays, SendTiles(c, d)
  PROVE  IInv'
<1> DEFINE batch == [frameID |-> client[c].frameID, from |-> c, to |-> d]
<1> USE DEF IInv
<1>1. client[c].frameID \in 0 .. LastFrame
  <2>1. client[c] \in [frameID: 0 .. LastFrame + 1, inFrame: BOOLEAN] BY DEF TypeOK
  <2>2. client[c].frameID <= LastFrame BY DEF SendTiles, ClientInv
  <2> QED BY <2>1, <2>2
<1>2. batch \in Batches BY <1>1 DEF Batches
<1>3. sent' = sent \cup {batch} BY DEF SendTiles
<1>4. /\ batch.from = c /\ batch.to = d /\ <<c, d>> \in Touches
      /\ batch.frameID < tokens
  BY DEF SendTiles, ClientInv
<1>5. /\ client' = client /\ tokens' = tokens /\ arrived' = arrived
      /\ collected' = collected /\ setter' = setter /\ shown' = shown
      /\ screen' = screen /\ setBack' = setBack
  BY DEF SendTiles, displayVars
<1> HIDE DEF batch
<1>6. TypeOK' BY <1>2, <1>3, <1>5 DEF TypeOK
<1>7. ClientInv' BY <1>3, <1>4, <1>5 DEF ClientInv
<1>8. BarrierInv' /\ ShownInv' /\ TokenInv' /\ CollectedInv'
  BY <1>5 DEF BarrierInv, ShownInv, TokenInv, CollectedInv, NeededFor, Senders
<1> QED BY <1>6, <1>7, <1>8

LEMMA ArriveStep ==
  ASSUME IInv, NEW b \in Batches, Arrive(b)
  PROVE  IInv'
  BY DEF IInv, Arrive, clientVars, displayVars, TypeOK, BarrierInv, ShownInv,
         TokenInv, ClientInv, CollectedInv, NeededFor, Senders

LEMMA AcceptTilesStep ==
  ASSUME IInv, NEW d \in Displays, AcceptTiles(d)
  PROVE  IInv'
<1> USE DEF IInv
<1>1. /\ setter[d] = "accept" /\ tokens' = tokens /\ arrived' = arrived
      /\ collected' = collected /\ shown' = shown /\ screen' = screen
      /\ client' = client /\ sent' = sent
      /\ setBack' = setBack \/ setBack' = setBack \cup {d}
      /\ setter' = [setter EXCEPT ![d] = "collect"]
  BY DEF AcceptTiles, Goto, clientVars
<1>2. setter \in [Displays -> {"accept", "collect", "barrier", "announce", "show"}]
  BY DEF TypeOK
<1>3. /\ setter' \in [Displays -> {"accept", "collect", "barrier", "announce", "show"}]
      /\ setter'[d] = "collect"
      /\ \A e \in Displays \ {d} : setter'[e] = setter[e]
  BY <1>1, <1>2
<1>4. setBack' \subseteq Displays BY <1>1 DEF TypeOK
<1>5. TypeOK' BY <1>1, <1>3, <1>4 DEF TypeOK
<1>6. BarrierInv' BY <1>1, <1>3 DEF BarrierInv
<1>7. ShownInv' BY <1>1, <1>3 DEF ShownInv
<1>8. TokenInv' BY <1>1, <1>3 DEF TokenInv
<1>9. ClientInv' BY <1>1 DEF ClientInv
<1>10. CollectedInv' BY <1>1 DEF CollectedInv, NeededFor, Senders
<1> QED BY <1>5, <1>6, <1>7, <1>8, <1>9, <1>10

LEMMA CollectStep ==
  ASSUME IInv, NEW d \in Displays, Collect(d)
  PROVE  IInv'
<1> USE DEF IInv
<1>1. /\ collected \in [Displays -> 0 .. LastFrame + 1]
      /\ shown \in [Displays -> 0 .. LastFrame + 1]
      /\ setter \in [Displays -> {"accept", "collect", "barrier", "announce", "show"}]
      /\ tokens \in Int
  BY DEF TypeOK
<1>2. /\ setter[d] = "collect" /\ collected[d] <= LastFrame
      /\ NeededFor(d, collected[d]) \subseteq arrived
      /\ tokens' = tokens /\ arrived' = arrived /\ shown' = shown
      /\ screen' = screen /\ client' = client /\ sent' = sent
      /\ setBack' = setBack
  BY DEF Collect, clientVars
<1>3. collected' = [collected EXCEPT ![d] = collected[d] + 1]
  BY DEF Collect
<1>4. setter' = [setter EXCEPT ![d] = "barrier"] BY DEF Collect, Goto
<1>5. collected[d] + 1 \in 0 .. LastFrame + 1 BY <1>1, <1>2
<1>6. /\ collected' \in [Displays -> 0 .. LastFrame + 1]
      /\ setter' \in [Displays -> {"accept", "collect", "barrier", "announce", "show"}]
  BY <1>1, <1>3, <1>4, <1>5
<1>7. /\ collected'[d] = collected[d] + 1 /\ setter'[d] = "barrier"
      /\ \A e \in Displays \ {d} : collected'[e] = collected[e] /\ setter'[e] = setter[e]
  BY <1>1, <1>3, <1>4
<1>8. TypeOK' BY <1>2, <1>6 DEF TypeOK
<1>9. BarrierInv'
  <2> SUFFICES ASSUME NEW x \in Displays, NEW y \in Displays
               PROVE  /\ setter'[x] # "barrier" => collected'[y] >= collected'[x]
                      /\ setter'[x] = "barrier" => collected'[y] >= collected'[x] - 1
    BY DEF BarrierInv
  <2>1. collected[x] \in Int /\ collected[y] \in Int BY <1>1
  <2>2. CASE x = d BY <2>1, <2>2, <1>2, <1>7 DEF BarrierInv
  <2>3. CASE x # d BY <2>1, <2>3, <1>2, <1>7 DEF BarrierInv
  <2> QED BY <2>2, <2>3
<1>10. ShownInv'
  <2> SUFFICES ASSUME NEW x \in Displays
               PROVE  /\ setter'[x] \in {"accept", "collect"} => shown[x] = collected'[x]
                      /\ setter'[x] \notin {"accept", "collect"} =>
                           shown[x] = collected'[x] - 1
                      /\ setter'[x] = "announce" => x = 0
    BY <1>2 DEF ShownInv
  <2>1. collected[x] \in Int /\ shown[x] \in Int BY <1>1
  <2>2. CASE x = d BY <2>1, <2>2, <1>2, <1>7 DEF ShownInv
  <2>3. CASE x # d BY <2>3, <1>2, <1>7 DEF ShownInv
  <2> QED BY <2>2, <2>3
<1>11. TokenInv'
  <2>1. 0 \in Displays /\ collected[0] \in Int BY <1>1
  <2>2. CASE d = 0 BY <2>1, <2>2, <1>1, <1>2, <1>7 DEF TokenInv
  <2>3. CASE d # 0 BY <2>1, <2>3, <1>2, <1>7 DEF TokenInv
  <2> QED BY <2>2, <2>3
<1>12. ClientInv' BY <1>2 DEF ClientInv
<1>13. CollectedInv'
  <2> SUFFICES ASSUME NEW x \in Displays, NEW f \in 0 .. LastFrame, f < collected'[x]
               PROVE  NeededFor(x, f) \subseteq arrived
    BY <1>2 DEF CollectedInv, NeededFor, Senders
  <2>1. CASE x = d /\ f = collected[d] BY <2>1, <1>2
  <2>2. CASE ~ (x = d /\ f = collected[d])
    <3>1. f < collected[x] BY <2>2, <1>1, <1>7
    <3> QED BY <3>1 DEF CollectedInv
  <2> QED BY <2>1, <2>2
<1> QED BY <1>8, <1>9, <1>10, <1>11, <1>12, <1>13

LEMMA LeaveBarrierStep ==
  ASSUME IInv, NEW d \in Displays, LeaveBarrier(d)
  PROVE  IInv'
<1> USE DEF IInv, LeaveBarrier, Goto, clientVars
<1>1. TypeOK' BY DEF TypeOK
<1>2. BarrierInv' BY DEF TypeOK, BarrierInv
<1>3. ShownInv' BY DEF TypeOK, ShownInv
<1>4. TokenInv' BY DEF TypeOK, TokenInv
<1>5. ClientInv' BY DEF ClientInv
<1>6. CollectedInv' BY DEF CollectedInv, NeededFor
<1> QED BY <1>1, <1>2, <1>3, <1>4, <1>5, <1>6

LEMMA AnnounceStep ==
  ASSUME IInv, Announce
  PROVE  IInv'
<1> USE DEF IInv
<1>1. /\ collected \in [Displays -> 0 .. LastFrame + 1]
      /\ setter \in [Displays -> {"accept", "collect", "barrier", "announce", "show"}]
      /\ tokens \in MaxFramesInFlight .. MaxFramesInFlight + LastFrame + 1
      /\ 0 \in Displays /\ collected[0] \in 0 .. LastFrame + 1
  BY DEF TypeOK
<1>2. /\ setter[0] = "announce" /\ tokens' = tokens + 1
      /\ arrived' = arrived /\ collected' = collected /\ shown' = shown
      /\ screen' = screen /\ client' = client /\ sent' = sent
      /\ setBack' = setBack
  BY DEF Announce, clientVars
<1>3. setter' = [setter EXCEPT ![0] = "show"] BY DEF Announce, Goto
<1>4. /\ setter' \in [Displays -> {"accept", "collect", "barrier", "announce", "show"}]
      /\ setter'[0] = "show"
      /\ \A e \in Displays \ {0} : setter'[e] = setter[e]
  BY <1>1, <1>3
<1>5. tokens = MaxFramesInFlight + collected[0] - 1 BY <1>2 DEF TokenInv
<1>6. TypeOK'
  <2>1. tokens' \in MaxFramesInFlight .. MaxFramesInFlight + LastFrame + 1
    BY <1>1, <1>2, <1>5
  <2> QED BY <1>2, <1>4, <2>1 DEF TypeOK
<1>7. BarrierInv' BY <1>2, <1>4 DEF BarrierInv
<1>8. ShownInv' BY <1>2, <1>4 DEF ShownInv
<1>9. TokenInv' BY <1>1, <1>2, <1>4, <1>5 DEF TokenInv
<1>10. ClientInv'
  <2>1. \A c \in Clients : client[c].frameID \in Int BY DEF TypeOK
  <2>2. \A b \in sent : b.frameID \in Int BY DEF TypeOK, Batches
  <2> QED BY <1>1, <1>2, <2>1, <2>2 DEF ClientInv
<1>11. CollectedInv' BY <1>2 DEF CollectedInv, NeededFor, Senders
<1> QED BY <1>6, <1>7, <1>8, <1>9, <1>10, <1>11

LEMMA SetFrameBufferStep ==
  ASSUME IInv, NEW d \in Displays, SetFrameBuffer(d)
  PROVE  IInv'
<1> USE DEF IInv
<1>1. /\ collected \in [Displays -> 0 .. LastFrame + 1]
      /\ shown \in [Displays -> 0 .. LastFrame + 1]
      /\ setter \in [Displays -> {"accept", "collect", "barrier", "announce", "show"}]
  BY DEF TypeOK
<1>2. /\ setter[d] = "show" /\ tokens' = tokens /\ arrived' = arrived
      /\ collected' = collected /\ screen' = screen /\ client' = client
      /\ sent' = sent /\ setBack' = setBack
  BY DEF SetFrameBuffer, clientVars
<1>3. /\ shown' = [shown EXCEPT ![d] = collected[d]]
      /\ setter' = [setter EXCEPT ![d] = "collect"]
  BY DEF SetFrameBuffer, Goto
<1>4. /\ shown' \in [Displays -> 0 .. LastFrame + 1]
      /\ setter' \in [Displays -> {"accept", "collect", "barrier", "announce", "show"}]
  BY <1>1, <1>3
<1>5. /\ shown'[d] = collected[d] /\ setter'[d] = "collect"
      /\ \A e \in Displays \ {d} : shown'[e] = shown[e] /\ setter'[e] = setter[e]
  BY <1>1, <1>3
<1>6. TypeOK' BY <1>2, <1>4 DEF TypeOK
<1>7. BarrierInv' BY <1>2, <1>5 DEF BarrierInv
<1>8. ShownInv' BY <1>2, <1>5 DEF ShownInv
<1>9. TokenInv' BY <1>2, <1>5 DEF TokenInv
<1>10. ClientInv' BY <1>2 DEF ClientInv
<1>11. CollectedInv' BY <1>2 DEF CollectedInv, NeededFor, Senders
<1> QED BY <1>6, <1>7, <1>8, <1>9, <1>10, <1>11

LEMMA DrawStep ==
  ASSUME IInv, NEW d \in Displays, Draw(d)
  PROVE  IInv'
<1>1. /\ shown \in [Displays -> 0 .. LastFrame + 1]
      /\ screen \in [Displays -> -1 .. LastFrame]
      /\ screen' = [screen EXCEPT ![d] = shown[d] - 1]
  BY DEF IInv, TypeOK, Draw
<1>2. screen' \in [Displays -> -1 .. LastFrame]
  <2>1. shown[d] - 1 \in -1 .. LastFrame BY <1>1
  <2> QED BY <1>1, <2>1
<1>3. TypeOK' BY <1>2 DEF IInv, TypeOK, Draw, clientVars
<1> QED
  BY <1>3 DEF IInv, Draw, clientVars, BarrierInv, ShownInv, TokenInv, ClientInv,
              CollectedInv, NeededFor, Senders

LEMMA Step == IInv /\ [Next]_vars => IInv'
<1> SUFFICES ASSUME IInv, [Next]_vars PROVE IInv'
  OBVIOUS
<1>1. CASE UNCHANGED vars
  BY <1>1 DEF vars, IInv, TypeOK, BarrierInv, ShownInv, TokenInv, ClientInv,
              CollectedInv, NeededFor
<1>2. CASE Next
  BY <1>2, BeginFrameStep, EndFrameStep, SendTilesStep, ArriveStep, AcceptTilesStep,
     CollectStep, LeaveBarrierStep, AnnounceStep, SetFrameBufferStep, DrawStep
     DEF Next, Client, Setter
<1> QED BY <1>1, <1>2

\* The bookkeeping of tokens, barrier and windows holds in every state.
THEOREM WallBookkeeping == Spec => []IInv
  BY InitIInv, Step, PTL DEF Spec

\* The types of the variables, and that nothing arrives that was not sent.
THEOREM WallTypeCorrect == Spec => []TypeOK
<1>1. IInv => TypeOK
  BY DEF IInv
<1> QED BY <1>1, WallBookkeeping, PTL

-----------------------------------------------------------------------------
(* Lock step and the bound on frames in flight.                            *)

\* syncOnFrameReceived(): no window is given a frame that some display has
\* not collected, and windows are at most one frame apart.
THEOREM DisplaysInLockStep == Spec => []LockStep
<1>1. ASSUME IInv PROVE LockStep
  <2> SUFFICES ASSUME NEW d \in Displays, NEW e \in Displays
               PROVE  shown[d] <= collected[e] /\ shown[d] <= shown[e] + 1
    BY DEF LockStep
  <2>1. \A x \in Displays : collected[x] \in Int /\ shown[x] \in Int
    BY <1>1 DEF IInv, TypeOK
  <2>2. /\ shown[d] = collected[d] \/ shown[d] = collected[d] - 1
        /\ setter[d] = "barrier" => shown[d] = collected[d] - 1
        /\ shown[e] = collected[e] \/ shown[e] = collected[e] - 1
    BY <1>1 DEF IInv, ShownInv
  <2>3. /\ setter[d] # "barrier" => collected[e] >= collected[d]
        /\ setter[d] = "barrier" => collected[e] >= collected[d] - 1
    BY <1>1 DEF IInv, BarrierInv
  <2> QED BY <2>1, <2>2, <2>3
<1> QED BY <1>1, WallBookkeeping, PTL

\* A token is worth one frame on every display, not only on rank 0's.
LEMMA TokenWorth ==
  ASSUME IInv, NEW d \in Displays
  PROVE  tokens <= collected[d] + MaxFramesInFlight
<1>1. /\ 0 \in Displays /\ tokens \in Int
      /\ collected[0] \in Int /\ collected[d] \in Int
      /\ setter[0] \in {"accept", "collect", "barrier", "announce", "show"}
  BY DEF IInv, TypeOK
<1>2. /\ setter[0] \in {"accept", "collect", "show"} => tokens = MaxFramesInFlight + collected[0]
      /\ setter[0] \in {"barrier", "announce"} => tokens = MaxFramesInFlight + collected[0] - 1
  BY DEF IInv, TokenInv
<1>3. /\ setter[0] # "barrier" => collected[d] >= collected[0]
      /\ setter[0] = "barrier" => collected[d] >= collected[0] - 1
  BY <1>1 DEF IInv, BarrierInv
<1> QED BY <1>1, <1>2, <1>3

\* dw2_begin_frame(): a client in a frame is less than MaxFramesInFlight
\* frames ahead of every display.
THEOREM FramesBounded == Spec => []FramesInFlightBounded
<1>1. ASSUME IInv PROVE FramesInFlightBounded
  <2> SUFFICES ASSUME NEW c \in Clients, NEW d \in Displays, client[c].inFrame
               PROVE  client[c].frameID < collected[d] + MaxFramesInFlight
    BY DEF FramesInFlightBounded
  <2>1. tokens \in Int /\ collected[d] \in Int /\ client[c].frameID \in Int
    BY <1>1 DEF IInv, TypeOK
  <2>2. client[c].frameID < tokens BY <1>1 DEF IInv, ClientInv
  <2>3. tokens <= collected[d] + MaxFramesInFlight BY <1>1, TokenWorth
  <2> QED BY <2>1, <2>2, <2>3
<1> QED BY <1>1, WallBookkeeping, PTL

\* No window runs ahead of another, and no client of any window, for every
\* number of displays, clients and frames in flight.
THEOREM NobodyIsAhead == Spec => []NobodyRunsAhead
<1>1. LockStep /\ FramesInFlightBounded => NobodyRunsAhead
  BY DEF NobodyRunsAhead
<1> QED BY <1>1, DisplaysInLockStep, FramesBounded, PTL

-----------------------------------------------------------------------------
(* The wall implements WallService.                                        *)

\* A tile given to dw2_send_rgba() is a Send of the wall's service.
LEMMA SendTilesSends ==
  ASSUME IInv, NEW c \in Clients, NEW d \in Displays, SendTiles(c, d)
  PROVE  \E b \in Wall!Batches : Wall!Send(b)
<1> DEFINE batch == [frameID |-> client[c].frameID, from |-> c, to |-> d]
<1>1. /\ client[c].inFrame /\ <<c, d>> \in Touches /\ batch \notin sent
      /\ sent' = sent \cup {batch} /\ shown' = shown
  BY DEF SendTiles, displayVars
<1>2. client[c].frameID \in 0 .. LastFrame /\ client[c].frameID < tokens
  <2>1. client[c].frameID \in 0 .. LastFrame + 1 BY DEF IInv, TypeOK
  <2> QED BY <1>1, <2>1 DEF IInv, ClientInv
<1>3. batch \in Wall!Batches
  BY <1>1, <1>2 DEF Wall!Batches
<1>4. ASSUME NEW e \in Displays PROVE batch.frameID <= shown[e] + MaxFramesInFlight
  <2>1. /\ tokens \in Int /\ collected[e] \in Int /\ shown[e] \in Int
    BY DEF IInv, TypeOK
  <2>2. collected[e] <= shown[e] + 1 BY <2>1 DEF IInv, ShownInv
  <2>3. tokens <= collected[e] + MaxFramesInFlight BY TokenWorth
  <2> QED BY <1>2, <2>1, <2>2, <2>3
<1> QED BY <1>1, <1>3, <1>4 DEF Wall!Send

\* Giving a frame to a window is a Show of the wall's service.
LEMMA SetFrameBufferShows ==
  ASSUME IInv, NEW d \in Displays, SetFrameBuffer(d)
  PROVE  Wall!Show(d)
<1>1. /\ setter[d] = "show" /\ shown' = [shown EXCEPT ![d] = collected[d]]
      /\ sent' = sent
  BY DEF SetFrameBuffer, clientVars
<1>2. /\ \A e \in Displays : collected[e] \in 0 .. LastFrame + 1 /\ shown[e] \in Nat
      /\ arrived \subseteq sent /\ sent \subseteq Batches
  BY DEF IInv, TypeOK
<1>3. shown[d] = collected[d] - 1 BY <1>1 DEF IInv, ShownInv
<1>4. shown[d] \in 0 .. LastFrame /\ shown[d] < collected[d] BY <1>2, <1>3
<1>5. shown' = [shown EXCEPT ![d] = shown[d] + 1]
  <2>1. shown[d] + 1 = collected[d] BY <1>2, <1>3
  <2> QED BY <1>1, <2>1
<1>6. Wall!BatchesOf(shown[d]) \subseteq sent
  <2> SUFFICES ASSUME NEW b \in Wall!BatchesOf(shown[d]) PROVE b \in sent
    OBVIOUS
  <2>1. /\ b \in [frameID: 0 .. LastFrame, from: {t[1] : t \in Touches}, to: Displays]
        /\ b.frameID = shown[d] /\ <<b.from, b.to>> \in Touches
    BY DEF Wall!BatchesOf, Wall!Batches
  <2>2. b.to \in Displays /\ b.from \in Senders(b.to)
    BY <2>1 DEF Senders
  <2>3. shown[d] < collected[b.to]
    <3>1. collected[b.to] >= collected[d] BY <1>1, <2>2 DEF IInv, BarrierInv
    <3> QED BY <1>2, <1>4, <2>2, <3>1
  <2>4. NeededFor(b.to, shown[d]) \subseteq arrived
    BY <1>4, <2>2, <2>3 DEF IInv, CollectedInv
  <2>5. b \in NeededFor(b.to, shown[d]) BY <2>1, <2>2 DEF NeededFor
  <2> QED BY <1>2, <2>4, <2>5
<1>7. ASSUME NEW e \in Displays PROVE shown[e] >= shown[d]
  <2>1. collected[e] >= collected[d] BY <1>1 DEF IInv, BarrierInv
  <2>2. shown[e] >= collected[e] - 1 BY <1>2 DEF IInv, ShownInv
  <2> QED BY <1>2, <1>3, <2>1, <2>2
<1>8. shown[d] <= LastFrame BY <1>4
<1> QED BY <1>1, <1>5, <1>6, <1>7, <1>8, Zenon DEF Wall!Show

\* The ranks, the barrier and the tokens together show the frames in lock
\* step, each when the renderer has sent it for the whole wall.
THEOREM WallImplementsService == Spec => ImplementsWallService
<1>1. Init => Wall!Init
  BY DEF Init, Wall!Init
<1>2. IInv /\ [Next]_vars => [Wall!Next]_Wall!vars
  <2> SUFFICES ASSUME IInv, [Next]_vars PROVE [Wall!Next]_Wall!vars
    OBVIOUS
  <2>1. ASSUME NEW c \in Clients, NEW d \in Displays, SendTiles(c, d)
        PROVE  Wall!Next
    BY <2>1, SendTilesSends DEF Wall!Next
  <2>2. ASSUME NEW d \in Displays, SetFrameBuffer(d) PROVE Wall!Next
    BY <2>2, SetFrameBufferShows DEF Wall!Next
  <2>3. ASSUME sent' = sent, shown' = shown PROVE UNCHANGED Wall!vars
    BY <2>3 DEF Wall!vars
  <2>4. ASSUME NEW c \in Clients, BeginFrame(c) \/ EndFrame(c)
        PROVE  sent' = sent /\ shown' = shown
    BY <2>4 DEF BeginFrame, EndFrame, displayVars
  <2>5. ASSUME NEW b \in Batches, Arrive(b) PROVE sent' = sent /\ shown' = shown
    BY <2>5 DEF Arrive, clientVars, displayVars
  <2>6. ASSUME NEW d \in Displays, AcceptTiles(d) \/ Collect(d) \/ LeaveBarrier(d) \/ Draw(d)
        PROVE  sent' = sent /\ shown' = shown
    BY <2>6 DEF AcceptTiles, Collect, LeaveBarrier, Draw, clientVars
  <2>7. CASE Announce \/ UNCHANGED vars
    BY <2>3, <2>7 DEF Announce, clientVars, vars
  <2> QED
    BY <2>1, <2>2, <2>3, <2>4, <2>5, <2>6, <2>7 DEF Next, Client, Setter
<1> QED
  BY <1>1, <1>2, WallBookkeeping, PTL DEF Spec, ImplementsWallService, Wall!Spec

-----------------------------------------------------------------------------
(* Every display is fed as FrameStream assumes.                            *)

\* What Stream(d) sees of the batches that have arrived.
Seen(d) == {[frameID |-> b.frameID, tile |-> b.from] : b \in {a \in arrived : a.to = d}}

\* A tile that arrives at its display arrives within the window.
LEMMA ArriveFeeds ==
  ASSUME IInv, NEW d \in Displays, NEW b \in Batches, Arrive(b)
  PROVE  Stream(d)!Next \/ UNCHANGED Stream(d)!vars
<1> DEFINE m == [frameID |-> b.frameID, tile |-> b.from]
<1>1. /\ b \in sent /\ b \notin arrived /\ arrived' = arrived \cup {b}
      /\ collected' = collected
  BY DEF Arrive, displayVars
<1>2. CASE b.to # d
  BY <1>1, <1>2 DEF Stream!vars
<1>3. CASE b.to = d
  <2>1. b.from \in Senders(d) /\ b.frameID \in 0 .. LastFrame
    BY <1>1, <1>3 DEF IInv, ClientInv, Senders, Batches
  <2>2. m \in Stream(d)!Messages BY <2>1 DEF Stream!Messages
  <2>3. m \notin Seen(d)
    <3> SUFFICES ASSUME NEW a \in arrived, a.to = d,
                        m = [frameID |-> a.frameID, tile |-> a.from]
                 PROVE  FALSE
      BY DEF Seen
    <3>1. a \in Batches BY DEF IInv, TypeOK
    <3>2. a.frameID = b.frameID /\ a.from = b.from OBVIOUS
    <3>3. a = b BY <1>3, <3>1, <3>2 DEF Batches
    <3> QED BY <1>1, <3>3
  <2>4. m.frameID < collected[d] + MaxFramesInFlight
    <3>1. b.frameID < tokens BY <1>1 DEF IInv, ClientInv
    <3>2. tokens \in Int /\ collected[d] \in Int BY DEF IInv, TypeOK
    <3> QED BY <2>1, <3>1, <3>2, TokenWorth
  <2>5. Seen(d)' = Seen(d) \cup {m} BY <1>1, <1>3 DEF Seen
  <2>6. Stream(d)!Arrive(m)
    BY <1>1, <2>3, <2>4, <2>5 DEF Stream!Arrive, Seen
  <2> QED BY <2>2, <2>6 DEF Stream!Next
<1> QED BY <1>2, <1>3

\* A frame is collected when all tiles of it have arrived.
LEMMA CollectDelivers ==
  ASSUME IInv, NEW d \in Displays, NEW e \in Displays, Collect(e)
  PROVE  Stream(d)!Next \/ UNCHANGED Stream(d)!vars
<1>1. /\ collected[e] <= LastFrame /\ NeededFor(e, collected[e]) \subseteq arrived
      /\ arrived' = arrived
      /\ collected' = [collected EXCEPT ![e] = collected[e] + 1]
      /\ collected \in [Displays -> 0 .. LastFrame + 1]
  BY DEF Collect, IInv, TypeOK
<1>2. CASE d # e
  BY <1>1, <1>2 DEF Stream!vars
<1>3. CASE d = e
  <2>1. collected'[d] = collected[d] + 1 /\ collected'[d] - 1 = collected[d]
    BY <1>1, <1>3
  <2>2. Stream(d)!TilesOf(collected[d]) \subseteq Seen(d)
    <3> SUFFICES ASSUME NEW m \in Stream(d)!TilesOf(collected[d]) PROVE m \in Seen(d)
      OBVIOUS
    <3> DEFINE b == [frameID |-> m.frameID, from |-> m.tile, to |-> d]
    <3>1. m \in [frameID: {collected[d]}, tile: Senders(d)] BY DEF Stream!TilesOf
    <3>2. b \in arrived /\ b.to = d BY <1>1, <1>3, <3>1 DEF NeededFor
    <3>3. m = [frameID |-> b.frameID, tile |-> b.from] BY <3>1
    <3> QED BY <3>2, <3>3 DEF Seen
  <2>3. Stream(d)!Deliver
    BY <1>1, <1>3, <2>1, <2>2 DEF Stream!Deliver, Seen
  <2> QED BY <2>3 DEF Stream!Next
<1> QED BY <1>2, <1>3

\* With the tokens nothing need be assumed of the renderer: every display's
\* assembler gets each tile once, within MaxFramesInFlight frames, and each
\* frame is taken from it after all its tiles came.
THEOREM DisplaysAreFed == Spec => EveryDisplayIsFed
<1>1. Init => \A d \in Displays : Stream(d)!Init
  BY DEF Init, Stream!Init
<1>2. IInv /\ [Next]_vars
        => [\A d \in Displays : Stream(d)!Next \/ UNCHANGED Stream(d)!vars]_vars
  <2> SUFFICES ASSUME IInv, [Next]_vars, NEW d \in Displays
               PROVE  Stream(d)!Next \/ UNCHANGED Stream(d)!vars
    OBVIOUS
  <2>1. ASSUME arrived' = arrived, collected' = collected
        PROVE  UNCHANGED Stream(d)!vars
    BY <2>1 DEF Stream!vars
  <2>2. ASSUME NEW c \in Clients, Client(c)
        PROVE  arrived' = arrived /\ collected' = collected
    BY <2>2 DEF Client, BeginFrame, EndFrame, SendTiles, displayVars
  <2>3. ASSUME NEW e \in Displays,
               AcceptTiles(e) \/ LeaveBarrier(e) \/ SetFrameBuffer(e) \/ Draw(e)
        PROVE  arrived' = arrived /\ collected' = collected
    BY <2>3 DEF AcceptTiles, LeaveBarrier, SetFrameBuffer, Draw
  <2>4. CASE Announce \/ UNCHANGED vars
    BY <2>1, <2>4 DEF Announce, vars
  <2> QED
    BY <2>1, <2>2, <2>3, <2>4, ArriveFeeds, CollectDelivers DEF Next, Setter
<1> QED
  BY <1>1, <1>2, WallBookkeeping, PTL DEF Spec, EveryDisplayIsFed
=============================================================================
