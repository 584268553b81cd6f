--------------------------- MODULE TileTransport ---------------------------
(***************************************************************************)
(* The way of a message from dw2_send_rgba() to the inbox of a display,    *)
(* thread by thread: the queue of the client and its compressor threads,   *)
(* the outbox and the send thread of its SocketGroup, a TCP connection to  *)
(* every display, and the receive thread of the display's SocketGroup.     *)
(*                                                                         *)
(* A message is its size and then its data.  A connection holds a few      *)
(* parts of messages: a send that finds it full blocks, and so does a      *)
(* receive (MSG_WAITALL) until all of what it waits for is there; while it *)
(* does, the thread serves nobody else.                                    *)
(*                                                                         *)
(* A client may call dw2_disconnect() at any time.  Its process exits, and *)
(* the connections close behind what was written.  That may end a display, *)
(* and the display another client: both ends of a connection run the same  *)
(* recvThreadFct().  What a client receives while all is well, hand-shakes *)
(* and tokens, is ConnectionSetup's and DisplayWall's subject.             *)
(***************************************************************************)
EXTENDS Integers, Sequences, FiniteSets, Functions

CONSTANTS Clients,       \* the ranks of the renderer
          Leavers,       \* bound: those that may call dw2_disconnect()
          NumDisplays,   \* ranks of the service, one per display
          Threads,       \* the compressor threads of a client
          Tile,          \* the tiles that may be sent, each once
          From,          \* the client that sends each tile
          Reach,         \* the displays that each tile overlaps
          DataParts,     \* in how many parts a connection takes the data of a message
          PipeSize,      \* how many parts a connection holds
          Nothing,       \* what an idle thread works on
          MadeUp         \* a message that nobody sent

Displays == 0 .. NumDisplays - 1

ASSUME DisplaysAssumption == NumDisplays \in Nat \ {0}
ASSUME LeaversAssumption == Leavers \subseteq Clients
ASSUME ThreadsAssumption == IsFiniteSet(Threads) /\ Threads # {}
ASSUME TilesAssumption ==
  From \in [Tile -> Clients] /\ Reach \in [Tile -> SUBSET Displays]
ASSUME PartsAssumption == DataParts \in Nat \ {0} /\ PipeSize \in Nat \ {0}

VARIABLES given,        \* the tiles that dw2_send_rgba() was called with
          left,         \* the clients that have exited
          tilesToSend,  \* the queue of each client
          compressor,   \* what each compressor thread does, or the tile it encodes
          outbox,       \* the messages for the send thread of each client
          sending,      \* what the send thread writes, part by part
          pipe,         \* what each connection holds
          reset,        \* the connections known to be dead in both directions
          ready,        \* the remotes that poll() found readable, not yet served
          hungUp,       \* those of them for which it reported POLLHUP
          reading,      \* what each receive thread has of the message it receives
          inbox,        \* how often each display was handed each message
          stopped       \* the displays whose process has ended

memory == <<tilesToSend, compressor, outbox, sending>>
displayVars == <<ready, hungUp, reading, inbox, stopped>>
vars == <<given, left, memory, pipe, reset, displayVars>>

Whole(t) == [tile |-> t, whole |-> TRUE]
Torn(t) == [tile |-> t, whole |-> FALSE]
Message == [tile: Tile, whole: BOOLEAN] \cup {MadeUp}

\* Part 0 of a message is its size, the others are its data.
Part == [tile: Tile, part: 0 .. DataParts]
Sending == [tile: Tile, to: (SUBSET Displays) \ {{}}, part: 0 .. DataParts]
Reading == [from: Clients, parts: Seq(Part)]
AllParts(t) == [i \in 1 .. DataParts + 1 |-> [tile |-> t, part |-> i - 1]]

ASSUME NamesAssumption ==
  /\ "awake" \notin Tile /\ "asleep" \notin Tile
  /\ Nothing \notin Sending \cup Reading
  /\ MadeUp \notin [tile: Tile, whole: BOOLEAN]

\* What a display makes of the parts that it takes for a message.
MessageOf(parts) ==
  IF parts = AllParts(parts[1].tile) THEN Whole(parts[1].tile) ELSE Torn(parts[1].tile)

Init ==
  /\ given = {}
  /\ left = {}
  /\ tilesToSend = [c \in Clients |-> <<>>]
  /\ compressor = [c \in Clients |-> [k \in Threads |-> "awake"]]
  /\ outbox = [c \in Clients |-> <<>>]
  /\ sending = [c \in Clients |-> Nothing]
  /\ pipe = [c \in Clients |-> [d \in Displays |-> <<>>]]
  /\ reset = {}
  /\ ready = [d \in Displays |-> {}]
  /\ hungUp = [d \in Displays |-> {}]
  /\ reading = [d \in Displays |-> Nothing]
  /\ inbox = [d \in Displays |-> [m \in Message |-> 0]]
  /\ stopped = {}

InState(c, state) == {k \in Threads : compressor[c][k] = state}
Hand(d, message) == inbox' = [inbox EXCEPT ![d][message] = @ + 1]

-----------------------------------------------------------------------------
(* Slips one could make in the actions below; no specification uses them.  *)

\* put() wakes a thread only if the queue was empty.
NotifyFirst(c) ==
  IF tilesToSend[c] # <<>> \/ InState(c, "asleep") = {}
    THEN UNCHANGED compressor
    ELSE \E k \in InState(c, "asleep") : compressor' = [compressor EXCEPT ![c][k] = "awake"]

\* The second recv() comes without MSG_WAITALL: it takes what is there.
ReceiveSome(d) ==
  LET r == reading[d]
  IN  /\ d \notin stopped
      /\ r # Nothing
      /\ pipe' = [pipe EXCEPT ![r.from][d] = <<>>]
      /\ reading' = [reading EXCEPT ![d] = Nothing]
      /\ Hand(d, MessageOf(r.parts \o pipe[r.from][d]))
      /\ UNCHANGED <<given, left, tilesToSend, compressor, outbox, sending, reset,
                     ready, hungUp, stopped>>

\* The second recv() is tried again until it has all of the data.
ReceiveTornRetries(d) ==
  LET r == reading[d]
  IN  /\ d \notin stopped
      /\ r # Nothing
      /\ r.from \in left
      /\ pipe[r.from][d] = <<>>
      /\ UNCHANGED vars

\* revents is not set back when a remote was served.
ServeAgain(c, d) ==
  /\ c \in ready[d]
  /\ ready' = [ready EXCEPT ![d] = @ \ {c}]
  /\ UNCHANGED hungUp

-----------------------------------------------------------------------------
(* A client: the application, its compressor threads, its send thread.     *)

\* newWorkAvailable.notify_one(): it wakes one of the sleepers, if there are any.
NotifyOne(c) ==
  IF InState(c, "asleep") = {}
    THEN UNCHANGED compressor
    ELSE \E k \in InState(c, "asleep") : compressor' = [compressor EXCEPT ![c][k] = "awake"]

\* dw2_send_rgba(), which ends in Client::put()
Put(t) ==
  LET c == From[t]
  IN  /\ t \notin given
      /\ c \notin left
      /\ given' = given \cup {t}
      /\ tilesToSend' = [tilesToSend EXCEPT ![c] = Append(@, t)]
      /\ NotifyOne(c)
      /\ UNCHANGED <<left, outbox, sending, pipe, reset, displayVars>>

\* A compressor thread has the mutex: it takes a tile or sleeps.
Take(c, k) ==
  /\ c \notin left
  /\ compressor[c][k] = "awake"
  /\ tilesToSend[c] # <<>>
  /\ compressor' = [compressor EXCEPT ![c][k] = Head(tilesToSend[c])]
  /\ tilesToSend' = [tilesToSend EXCEPT ![c] = Tail(@)]
  /\ UNCHANGED <<given, left, outbox, sending, pipe, reset, displayVars>>

Wait(c, k) ==
  /\ c \notin left
  /\ compressor[c][k] = "awake"
  /\ tilesToSend[c] = <<>>
  /\ compressor' = [compressor EXCEPT ![c][k] = "asleep"]
  /\ UNCHANGED <<given, left, tilesToSend, outbox, sending, pipe, reset, displayVars>>

\* A spurious wake-up.
WakeUp(c, k) ==
  /\ c \notin left
  /\ compressor[c][k] = "asleep"
  /\ compressor' = [compressor EXCEPT ![c][k] = "awake"]
  /\ UNCHANGED <<given, left, tilesToSend, outbox, sending, pipe, reset, displayVars>>

\* The tile is encoded; sendTo() puts the message into the outbox, together
\* with the ranks that need it, be there any or not.
SendTo(c, k) ==
  /\ c \notin left
  /\ compressor[c][k] \in Tile
  /\ outbox' = [outbox EXCEPT ![c] = Append(@, compressor[c][k])]
  /\ compressor' = [compressor EXCEPT ![c][k] = "awake"]
  /\ UNCHANGED <<given, left, tilesToSend, sending, pipe, reset, displayVars>>

\* outbox->get() of the send thread; a message for nobody is done with.
GetMessage(c) ==
  /\ c \notin left
  /\ sending[c] = Nothing
  /\ outbox[c] # <<>>
  /\ LET t == Head(outbox[c])
     IN  sending' = [sending EXCEPT ![c] =
                       IF Reach[t] = {} THEN Nothing ELSE [tile |-> t, to |-> Reach[t], part |-> 0]]
  /\ outbox' = [outbox EXCEPT ![c] = Tail(@)]
  /\ UNCHANGED <<given, left, tilesToSend, compressor, pipe, reset, displayVars>>

\* toRank holds the ranks in ascending order.
FirstRank(ranks) == CHOOSE d \in ranks : \A e \in ranks : d <= e

\* What the send thread writes after the part it has just written: the whole
\* message to one rank, then to the next.
AfterPart(s) ==
  LET rest == s.to \ {FirstRank(s.to)}
  IN  CASE s.part < DataParts -> [s EXCEPT !.part = @ + 1]
        [] s.part = DataParts /\ rest # {} -> [tile |-> s.tile, to |-> rest, part |-> 0]
        [] s.part = DataParts /\ rest = {} -> Nothing

\* A write to a display that has ended fails, which the send thread ignores.
WritePart(c) ==
  LET s == sending[c]
      d == FirstRank(s.to)
  IN  /\ c \notin left
      /\ s # Nothing
      /\ d \in stopped \/ Len(pipe[c][d]) < PipeSize
      /\ pipe' = IF d \in stopped
                   THEN pipe
                   ELSE [pipe EXCEPT ![c][d] = Append(@, [tile |-> s.tile, part |-> s.part])]
      /\ sending' = [sending EXCEPT ![c] = AfterPart(s)]
      /\ UNCHANGED <<given, left, tilesToSend, compressor, outbox, reset, displayVars>>

\* The process of a client ends, whatever its threads are in the middle of.
Exit(c) ==
  /\ c \notin left
  /\ left' = left \cup {c}
  /\ tilesToSend' = [tilesToSend EXCEPT ![c] = <<>>]
  /\ compressor' = [compressor EXCEPT ![c] = [k \in Threads |-> "awake"]]
  /\ outbox' = [outbox EXCEPT ![c] = <<>>]
  /\ sending' = [sending EXCEPT ![c] = Nothing]
  /\ UNCHANGED <<given, pipe, reset, displayVars>>

\* dw2_disconnect(): exit(0)
Disconnect(c) == c \in Leavers /\ Exit(c)

\* The receive thread of a client finds that the connection to a display has
\* ended.  With POLLHUP it calls exit(0).  Without it, as on a display
\* (ReceiveNothing), there is no memory of the size that was never read and the
\* process ends, or it does not, and a message that nobody sent is put into the
\* client's own inbox, on which nothing here depends.
LoseDisplay(c) == stopped # {} /\ Exit(c)

-----------------------------------------------------------------------------
(* A rank of the service.                                                  *)

\* Rank 0 sends a token to a client that is gone: the other side answers with
\* a reset, and forgets what it had not yet passed on.  Other ranks send
\* nothing to a client after the hand-shake.
TokenToNobody(c, kept) ==
  /\ c \in left
  /\ 0 \notin stopped
  /\ <<c, 0>> \notin reset
  /\ reset' = reset \cup {<<c, 0>>}
  /\ pipe' = [pipe EXCEPT ![c][0] = SubSeq(@, 1, kept)]
  /\ UNCHANGED <<given, left, memory, displayVars>>

AtPoll(d) == d \notin stopped /\ reading[d] = Nothing

\* A closed connection is readable, too: recv() will return 0.
Readable(d) == {c \in Clients : pipe[c][d] # <<>> \/ c \in left}

\* poll(); one round over the remotes follows, in their order.
Poll(d) ==
  /\ AtPoll(d)
  /\ ready[d] = {}
  /\ Readable(d) # {}
  /\ ready' = [ready EXCEPT ![d] = Readable(d)]
  /\ hungUp' = [hungUp EXCEPT ![d] = {c \in Readable(d) : <<c, d>> \in reset}]
  /\ UNCHANGED <<given, left, memory, pipe, reset, reading, inbox, stopped>>

ReadFrom(c, d) == pipe' = [pipe EXCEPT ![c][d] = Tail(@)]

\* pollFds[i].revents = 0
Serve(c, d) ==
  /\ c \in ready[d]
  /\ ready' = [ready EXCEPT ![d] = @ \ {c}]
  /\ hungUp' = [hungUp EXCEPT ![d] = @ \ {c}]

\* The first recv(): the size.
ReceiveSize(c, d) ==
  /\ AtPoll(d)
  /\ Serve(c, d)
  /\ pipe[c][d] # <<>>
  /\ reading' = [reading EXCEPT ![d] = [from |-> c, parts |-> <<Head(pipe[c][d])>>]]
  /\ ReadFrom(c, d)
  /\ UNCHANGED <<given, left, memory, reset, inbox, stopped>>

\* The second recv() waits for the data, and when it has all of it the
\* message is put into the inbox.
ReceiveData(d) ==
  LET r == reading[d]
  IN  /\ d \notin stopped
      /\ r # Nothing
      /\ pipe[r.from][d] # <<>>
      /\ ReadFrom(r.from, d)
      /\ LET parts == Append(r.parts, Head(pipe[r.from][d]))
         IN  IF Len(parts) <= DataParts
               THEN /\ reading' = [reading EXCEPT ![d].parts = parts]
                    /\ UNCHANGED inbox
               ELSE /\ reading' = [reading EXCEPT ![d] = Nothing]
                    /\ Hand(d, MessageOf(parts))
      /\ UNCHANGED <<given, left, memory, reset, ready, hungUp, stopped>>

\* Its result is not looked at: if the connection ends before the data does,
\* the message is put into the inbox all the same.
ReceiveTorn(d) ==
  LET r == reading[d]
  IN  /\ d \notin stopped
      /\ r # Nothing
      /\ r.from \in left
      /\ pipe[r.from][d] = <<>>
      /\ reading' = [reading EXCEPT ![d] = Nothing]
      /\ Hand(d, MessageOf(r.parts))
      /\ UNCHANGED <<given, left, memory, pipe, reset, ready, hungUp, stopped>>

\* The first recv() returns 0.
FindsEnd(c, d) ==
  /\ AtPoll(d)
  /\ c \in ready[d]
  /\ c \in left
  /\ pipe[c][d] = <<>>

\* The process of the display ends, and with it its side of the connections.
Stop(d) ==
  /\ stopped' = stopped \cup {d}
  /\ pipe' = [c \in Clients |-> [pipe[c] EXCEPT ![d] = <<>>]]
  /\ ready' = [ready EXCEPT ![d] = {}]
  /\ hungUp' = [hungUp EXCEPT ![d] = {}]
  /\ reading' = [reading EXCEPT ![d] = Nothing]
  /\ UNCHANGED <<given, left, memory, reset, inbox>>

\* "Socket is disconnected and buffer empty, we should exit"
ExitHungUp(c, d) ==
  /\ FindsEnd(c, d)
  /\ c \in hungUp[d]
  /\ Stop(d)

\* Without POLLHUP the thread goes on with a size that was never read: there
\* is no such memory, or a message of that size is put into the inbox.  (Bound:
\* only the first one is kept, as the thread makes up more of them for ever.)
ReceiveNothing(c, d) ==
  /\ FindsEnd(c, d)
  /\ c \notin hungUp[d]
  /\ \/ Stop(d)
     \/ /\ IF inbox[d][MadeUp] > 0 THEN UNCHANGED inbox ELSE Hand(d, MadeUp)
        /\ Serve(c, d)
        /\ UNCHANGED <<given, left, memory, pipe, reset, reading, stopped>>

-----------------------------------------------------------------------------
Compressor(c, k) == Take(c, k) \/ Wait(c, k) \/ SendTo(c, k)

SendThread(c) == GetMessage(c) \/ WritePart(c)

\* The receive thread of a display.
ReceiveThread(d) ==
  \/ Poll(d) \/ ReceiveData(d) \/ ReceiveTorn(d)
  \/ \E c \in Clients : ReceiveSize(c, d) \/ ExitHungUp(c, d) \/ ReceiveNothing(c, d)

Next ==
  \/ \E t \in Tile : Put(t)
  \/ \E c \in Clients, k \in Threads : Compressor(c, k) \/ WakeUp(c, k)
  \/ \E c \in Clients : SendThread(c) \/ Disconnect(c) \/ LoseDisplay(c)
  \/ \E c \in Clients : \E kept \in 0 .. Len(pipe[c][0]) : TokenToNobody(c, kept)
  \/ \E d \in Displays : ReceiveThread(d)

\* Threads keep running.  The application need not send anything nor leave,
\* nobody wakes by itself for sure, and a client need not end with a display.
Fairness ==
  /\ \A c \in Clients : WF_vars(SendThread(c))
  /\ \A c \in Clients, k \in Threads : WF_vars(Compressor(c, k))
  /\ \A d \in Displays : WF_vars(ReceiveThread(d))

Spec == Init /\ [][Next]_vars
FairSpec == Spec /\ Fairness

-----------------------------------------------------------------------------
(* Correctness.                                                            *)

\* Every variable has its type; a connection never holds more than it can, and
\* only a client that has gone hangs up.
TypeOK ==
  /\ given \subseteq Tile
  /\ left \subseteq Clients
  /\ tilesToSend \in [Clients -> Seq(Tile)]
  /\ compressor \in [Clients -> [Threads -> {"awake", "asleep"} \cup Tile]]
  /\ outbox \in [Clients -> Seq(Tile)]
  /\ sending \in [Clients -> {Nothing} \cup Sending]
  /\ pipe \in [Clients -> [Displays -> Seq(Part)]]
  /\ \A c \in Clients, d \in Displays : Len(pipe[c][d]) <= PipeSize
  /\ reset \subseteq left \X {0}
  /\ ready \in [Displays -> SUBSET Clients]
  /\ hungUp \in [Displays -> SUBSET left]
  /\ \A d \in Displays : hungUp[d] \subseteq ready[d]
  /\ reading \in [Displays -> {Nothing} \cup Reading]
  /\ \A d \in Displays : reading[d] # Nothing => Len(reading[d].parts) \in 1 .. DataParts
  /\ inbox \in [Displays -> [Message -> Nat]]
  /\ stopped \subseteq Displays

\* No core is idle while a tile waits: put() wakes one thread for a tile, and
\* that is enough although another thread may take the tile before it, and
\* tiles come while it is on its way.  As long as a thread sleeps there is one
\* awake for every tile in the queue.
NoCoreIdles ==
  \A c \in Clients :
    InState(c, "asleep") # {} => Cardinality(InState(c, "awake")) >= Len(tilesToSend[c])

\* Whatever the threads do, a tile comes to each of its displays once and
\* whole; torn and made up messages and displays that stop there are only
\* after a client has left, and no client ends that has not called
\* dw2_disconnect() unless a display has stopped.
Network == INSTANCE TileNetwork

ImplementsNetwork == Network!Spec

-----------------------------------------------------------------------------
(* Progress.                                                               *)

\* Every thread may block, the send threads on full connections, the receive
\* threads in the middle of a message, but never all in a circle: every tile
\* gets to each of its displays, unless its own client has ended or the display
\* has.  Another client that leaves can keep it from getting there only by
\* ending a display, the tile's own or one that its client then ends with.
TilesGetThrough ==
  \A t \in Tile :
    t \in given ~> \/ From[t] \in left
                  \/ \A d \in Reach[t] \ stopped : inbox[d][Whole(t)] > 0

\* SocketGroup.cpp:116 on a connection that has ended: "Socket is disconnected
\* and buffer empty, we should exit".  The inbox gets nothing from it.
NothingMadeUp == \A d \in Displays : inbox[d][MadeUp] = 0
=============================================================================
