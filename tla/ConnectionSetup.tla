-------------------------- MODULE ConnectionSetup --------------------------
(***************************************************************************)
(* How the service and the renderer find together: the second half of      *)
(* Server's constructor on every rank, the accepter and send threads of    *)
(* its SocketGroup, and dw2_connect() of every rank of the renderer.       *)
(*                                                                         *)
(* A client knows the service from rank 0's info server, so when the first *)
(* one comes every rank that serves clients is listening; here everything  *)
(* starts.  The content of a message does not matter to anyone: the first  *)
(* a client gets from a rank is the hand-shake, the next ones from rank 0  *)
(* are tokens, and only their number counts.                               *)
(*                                                                         *)
(* With a head node, rank 0 alone has clients; without, every rank has.    *)
(***************************************************************************)
EXTENDS Integers, Sequences, FiniteSets, Functions

CONSTANTS NumRanks,           \* MPI ranks of the service
          Clients,            \* the ranks of the renderer; numPeers = their number
          Strangers,          \* clients of another service: their magic is wrong
          MaxFramesInFlight

ASSUME NumRanksAssumption == NumRanks \in Nat \ {0}
ASSUME ClientsAssumption ==
  IsFiniteSet(Clients) /\ Clients # {} /\ Clients \cap Strangers = {}
ASSUME TokensAssumption == MaxFramesInFlight \in Nat \ {0}

Ranks == 0 .. NumRanks - 1
numPeers == Cardinality(Clients)

VARIABLES useHeadNode,   \* Config::useHeadNode; never changes
          rank,          \* where the constructor of each rank is
          tokens,        \* how many tokens rank 0 has broadcast
          accepter,      \* where the accepter thread of each rank is
          backlog,       \* connections a rank has not accepted yet, in order
          remotes,       \* the clients of each rank, in order of acceptance
          expected,      \* numRemotesExpected
          outbox,        \* to whom the send thread of each rank still writes
          client,        \* progress of each client
          inbox          \* the messages each client has got from each rank

vars == <<useHeadNode, rank, tokens, accepter, backlog, remotes, expected,
          outbox, client, inbox>>
socketVars == <<accepter, backlog, remotes, expected>>
clientVars == <<client, inbox>>

\* The nodes of the ServiceInfo, in the order in which a client connects.
Services == IF useHeadNode THEN {0} ELSE Ranks
NumServices == Cardinality(Services)

Waiting == {"check", "fallAsleep", "asleep"}
PastHandshake == {"lastBarrier", "tokens", "accept", "running"}

Init ==
  /\ useHeadNode \in BOOLEAN
  /\ rank = [r \in Ranks |-> "create"]
  /\ tokens = 0
  /\ accepter = [r \in Ranks |-> "accept"]
  /\ backlog = [r \in Ranks |-> <<>>]
  /\ remotes = [r \in Ranks |-> <<>>]
  /\ expected = [r \in Ranks |-> -1]
  /\ outbox = [r \in Ranks |-> <<>>]
  /\ client = [c \in Clients \cup Strangers |->
                 [connected |-> 0, greeted |-> 0, begun |-> 0]]
  /\ inbox = [c \in Clients |-> [r \in Ranks |-> 0]]

Complete(s) == Len(remotes[s]) = expected[s]

-----------------------------------------------------------------------------
(* Slips one could make in the actions below; no specification uses them.  *)

\* waitForRemotesToConnect() waits for the first client only.
CheckFirstRemoteOnly(s) ==
  /\ rank[s] = "check"
  /\ rank' = [rank EXCEPT ![s] = IF remotes[s] # <<>> THEN "greet" ELSE "fallAsleep"]
  /\ UNCHANGED <<useHeadNode, tokens, outbox, socketVars, clientVars>>

\* The number of peers is not read: the accepter thread expects one.
AcceptExpectsOne(s) ==
  /\ accepter[s] = "accept"
  /\ backlog[s] # <<>>
  /\ backlog' = [backlog EXCEPT ![s] = Tail(@)]
  /\ IF Head(backlog[s]) \in Strangers
       THEN UNCHANGED <<remotes, expected, accepter>>
       ELSE /\ remotes' = [remotes EXCEPT ![s] = Append(@, Head(backlog[s]))]
            /\ expected' = [expected EXCEPT ![s] = 1]
            /\ accepter' = [accepter EXCEPT ![s] = "notify"]
  /\ UNCHANGED <<useHeadNode, rank, tokens, outbox, clientVars>>

\* Whoever connects becomes a remote, whatever its magic.
AcceptAnyMagic(s) ==
  /\ accepter[s] = "accept"
  /\ backlog[s] # <<>>
  /\ backlog' = [backlog EXCEPT ![s] = Tail(@)]
  /\ remotes' = [remotes EXCEPT ![s] = Append(@, Head(backlog[s]))]
  /\ expected' = [expected EXCEPT ![s] = numPeers]
  /\ accepter' = [accepter EXCEPT ![s] = IF Len(remotes'[s]) = numPeers THEN "notify" ELSE @]
  /\ UNCHANGED <<useHeadNode, rank, tokens, outbox, clientVars>>

\* dw2_connect() sees the hand-shakes but leaves them in the inboxes.
WelcomeLeftInInbox(c) ==
  /\ client[c].connected = NumServices
  /\ client[c].greeted < NumServices
  /\ inbox[c][client[c].greeted] > 0
  /\ client' = [client EXCEPT ![c].greeted = @ + 1]
  /\ UNCHANGED <<useHeadNode, rank, tokens, outbox, socketVars, inbox>>

\* The accepter forgets to tell the thread that waits.
NotifyNobody(s) ==
  /\ accepter[s] = "notify"
  /\ accepter' = [accepter EXCEPT ![s] = "serve"]
  /\ rank' = rank
  /\ UNCHANGED <<useHeadNode, tokens, outbox, backlog, remotes, expected, clientVars>>

-----------------------------------------------------------------------------
(* The constructor of Server, from the barrier after the frame assemblers  *)
(* and dispatchers were made.                                              *)

EnterBarrier(r) ==
  /\ rank[r] = "create"
  /\ rank' = [rank EXCEPT ![r] = "barrier"]
  /\ UNCHANGED <<useHeadNode, tokens, outbox, socketVars, clientVars>>

\* Ranks without clients go on to the next barrier at once.
LeaveBarrier(r) ==
  /\ rank[r] = "barrier"
  /\ \A q \in Ranks : rank[q] # "create"
  /\ rank' = [rank EXCEPT ![r] = IF r \in Services THEN "check" ELSE "lastBarrier"]
  /\ UNCHANGED <<useHeadNode, tokens, outbox, socketVars, clientVars>>

\* waitForRemotesToConnect() holds the mutex from the check of its condition
\* until it sleeps, but the accepter thread does not take that mutex.
CheckRemotes(s) ==
  /\ rank[s] = "check"
  /\ rank' = [rank EXCEPT ![s] = IF Complete(s) THEN "greet" ELSE "fallAsleep"]
  /\ UNCHANGED <<useHeadNode, tokens, outbox, socketVars, clientVars>>

FallAsleep(s) ==
  /\ rank[s] = "fallAsleep"
  /\ rank' = [rank EXCEPT ![s] = "asleep"]
  /\ UNCHANGED <<useHeadNode, tokens, outbox, socketVars, clientVars>>

\* A spurious wake-up.
WakeUp(s) ==
  /\ rank[s] = "asleep"
  /\ rank' = [rank EXCEPT ![s] = "check"]
  /\ UNCHANGED <<useHeadNode, tokens, outbox, socketVars, clientVars>>

\* clients->broadcast(message): one copy for every remote.
Broadcast(s) == outbox' = [outbox EXCEPT ![s] = @ \o remotes[s]]

\* Send the hand-shake, then enter the last barrier.
Greet(s) ==
  /\ rank[s] = "greet"
  /\ Broadcast(s)
  /\ rank' = [rank EXCEPT ![s] = "lastBarrier"]
  /\ UNCHANGED <<useHeadNode, tokens, socketVars, clientVars>>

LeaveLastBarrier(r) ==
  /\ rank[r] = "lastBarrier"
  /\ \A q \in Ranks : rank[q] \in PastHandshake
  /\ rank' = [rank EXCEPT ![r] = IF r = 0 THEN "tokens" ELSE "accept"]
  /\ UNCHANGED <<useHeadNode, tokens, outbox, socketVars, clientVars>>

SendToken ==
  /\ rank[0] = "tokens"
  /\ Broadcast(0)
  /\ tokens' = tokens + 1
  /\ rank' = [rank EXCEPT ![0] = IF tokens' < MaxFramesInFlight THEN "tokens" ELSE "accept"]
  /\ UNCHANGED <<useHeadNode, socketVars, clientVars>>

\* inbox->startNewFrame(0), the end of the constructor.
StartAccepting(r) ==
  /\ rank[r] = "accept"
  /\ rank' = [rank EXCEPT ![r] = "running"]
  /\ UNCHANGED <<useHeadNode, tokens, outbox, socketVars, clientVars>>

-----------------------------------------------------------------------------
(* The threads of a rank's SocketGroup.                                    *)

\* The accepter thread: listen, read magic and number of peers, and either
\* close the connection or add a remote.
Accept(s) ==
  /\ accepter[s] = "accept"
  /\ backlog[s] # <<>>
  /\ backlog' = [backlog EXCEPT ![s] = Tail(@)]
  /\ IF Head(backlog[s]) \in Strangers
       THEN UNCHANGED <<remotes, expected, accepter>>
       ELSE /\ remotes' = [remotes EXCEPT ![s] = Append(@, Head(backlog[s]))]
            /\ expected' = [expected EXCEPT ![s] = IF @ = -1 THEN numPeers ELSE @]
            /\ accepter' = [accepter EXCEPT ![s] =
                              IF Len(remotes'[s]) = expected'[s] THEN "notify" ELSE @]
  /\ UNCHANGED <<useHeadNode, rank, tokens, outbox, clientVars>>

\* allRemotesConnected.notify_all(), then start sending and receiving.
Notify(s) ==
  /\ accepter[s] = "notify"
  /\ accepter' = [accepter EXCEPT ![s] = "serve"]
  /\ rank' = [rank EXCEPT ![s] = IF @ = "asleep" THEN "check" ELSE @]
  /\ UNCHANGED <<useHeadNode, tokens, outbox, backlog, remotes, expected, clientVars>>

\* The send thread writes a message to one remote; the socket and the
\* client's receive thread keep the order.
SendThread(s) ==
  /\ accepter[s] = "serve"
  /\ outbox[s] # <<>>
  /\ outbox' = [outbox EXCEPT ![s] = Tail(@)]
  /\ inbox' = [inbox EXCEPT ![Head(outbox[s])][s] = @ + 1]
  /\ UNCHANGED <<useHeadNode, rank, tokens, socketVars, client>>

-----------------------------------------------------------------------------
(* A rank of the renderer.                                                 *)

\* SocketGroup(magic, numPeers, remoteURLs) connects to one rank after the
\* other and sends each the magic it believes in, and numPeers.
Connect(c) ==
  /\ client[c].connected < NumServices
  /\ backlog' = [backlog EXCEPT ![client[c].connected] = Append(@, c)]
  /\ client' = [client EXCEPT ![c].connected = @ + 1]
  /\ UNCHANGED <<useHeadNode, rank, tokens, accepter, remotes, expected, outbox, inbox>>

\* dw2_connect() waits for one message from every rank, in order.
Welcome(c) ==
  LET s == client[c].greeted
  IN  /\ client[c].connected = NumServices
      /\ client[c].greeted < NumServices
      /\ inbox[c][s] > 0
      /\ inbox' = [inbox EXCEPT ![c][s] = @ - 1]
      /\ client' = [client EXCEPT ![c].greeted = @ + 1]
      /\ UNCHANGED <<useHeadNode, rank, tokens, outbox, socketVars>>

\* dw2_begin_frame() waits for a message from the first rank.
BeginFrame(c) ==
  /\ client[c].greeted = NumServices
  /\ inbox[c][0] > 0
  /\ inbox' = [inbox EXCEPT ![c][0] = @ - 1]
  /\ client' = [client EXCEPT ![c].begun = @ + 1]
  /\ UNCHANGED <<useHeadNode, rank, tokens, outbox, socketVars>>

-----------------------------------------------------------------------------
Server(r) ==
  \/ EnterBarrier(r) \/ LeaveBarrier(r) \/ CheckRemotes(r) \/ FallAsleep(r)
  \/ Greet(r) \/ LeaveLastBarrier(r) \/ StartAccepting(r)

Accepter(s) == Accept(s) \/ Notify(s)

Client(c) == Welcome(c) \/ BeginFrame(c)

Next ==
  \/ \E r \in Ranks : Server(r) \/ WakeUp(r) \/ Accepter(r) \/ SendThread(r)
  \/ SendToken
  \/ \E c \in Clients \cup Strangers : Connect(c)
  \/ \E c \in Clients : Client(c)

\* Threads keep running and every rank of the renderer connects.  Nobody
\* wakes by itself for sure.
Fairness ==
  /\ \A r \in Ranks : /\ WF_vars(Server(r)) /\ WF_vars(Accepter(r))
                      /\ WF_vars(SendThread(r))
  /\ WF_vars(SendToken)
  /\ \A c \in Clients : WF_vars(Connect(c)) /\ WF_vars(Client(c))

Spec == Init /\ [][Next]_vars
FairSpec == Spec /\ Fairness

-----------------------------------------------------------------------------
(* Correctness.                                                            *)

\* Every variable has its type.  A rank's remotes are clients of this
\* service, each once, and never more than it expects.
TypeOK ==
  /\ useHeadNode \in BOOLEAN
  /\ rank \in [Ranks -> {"create", "barrier", "greet"} \cup Waiting \cup PastHandshake]
  /\ tokens \in 0 .. MaxFramesInFlight
  /\ accepter \in [Ranks -> {"accept", "notify", "serve"}]
  /\ backlog \in [Ranks -> Seq(Clients \cup Strangers)]
  /\ remotes \in [Ranks -> Seq(Clients)]
  /\ \A r \in Ranks : IsInjective(remotes[r])
  /\ expected \in [Ranks -> {-1, numPeers}]
  /\ outbox \in [Ranks -> Seq(Clients)]
  /\ client \in [Clients \cup Strangers ->
                   [connected: 0 .. NumRanks, greeted: 0 .. NumRanks,
                    begun: 0 .. MaxFramesInFlight]]
  /\ inbox \in [Clients -> [Ranks -> 0 .. MaxFramesInFlight + 1]]

\* "This will get stuck until all render nodes have connected to all service
\* nodes": a client that has its hand-shakes is not alone, every client was
\* accepted by every rank that serves clients.
ConnectedTogether ==
  \A c \in Clients : client[c].greeted = NumServices =>
    \A s \in Services : Range(remotes[s]) = Clients

\* When a client begins a frame, every rank has its frame assembler and has
\* all its clients: the tiles of the frame find an inbox everywhere.
FramesAfterConstruction ==
  \A c \in Clients : client[c].begun > 0 =>
    \A r \in Ranks : rank[r] \in PastHandshake

\* A client's first frames are paid for with tokens: the hand-shake of rank 0
\* is never taken for one, although they arrive in the same inbox.
NoFreeFrame == \A c \in Clients : client[c].begun <= tokens

\* No frame begins before it can be received, or without a token.
NoFrameTooEarly == FramesAfterConstruction /\ NoFreeFrame

\* The assertion in sendTo(), and why it may use remotes without the accepter
\* taking the mutex: remotes does not change once something was sent to it.
RemotesFixedOnceUsed ==
  [][\A s \in Ranks : rank[s] \in PastHandshake => remotes'[s] = remotes[s]]_vars

\* dw2_connect() keeps the clients together.
ConnectBarrier == INSTANCE SoftBarrier WITH
  arrived <- {c \in Clients : client[c].connected = NumServices},
  passed <- {c \in Clients : client[c].greeted = NumServices}

ImplementsSoftBarrier == ConnectBarrier!Spec

-----------------------------------------------------------------------------
(* Why it is so: the inductive invariant.                                  *)

\* A client connects to a rank once, and only to ranks that expect it.
ComeOnce(s) ==
  /\ IsInjective(backlog[s]) /\ IsInjective(remotes[s])
  /\ Range(backlog[s]) \cap Range(remotes[s]) = {}
  /\ \A c \in Range(backlog[s]) \cup Range(remotes[s]) : s < client[c].connected

\* Nobody is accepted any more once all have come, and nothing is sent before.
AllHaveCome(s) ==
  /\ accepter[s] = "accept" => ~ Complete(s)
  /\ s \in Services /\ rank[s] \in {"greet"} \cup PastHandshake => Complete(s)

\* Only when every rank is past its hand-shake does one leave the last
\* barrier, and tokens are sent between this barrier and the first frame.
InStep ==
  /\ \A r \in Ranks : rank[r] \in PastHandshake \ {"lastBarrier"} =>
       \A q \in Ranks : rank[q] \in PastHandshake
  /\ tokens > 0 => rank[0] \in PastHandshake \ {"lastBarrier"}
  /\ rank[0] = "tokens" => tokens < MaxFramesInFlight

\* The messages a rank has sent to each of its clients, those a client has
\* taken from its inbox, and those in a queue that are for the client.
Sent(s) ==
  (IF rank[s] \in PastHandshake THEN 1 ELSE 0) + (IF s = 0 THEN tokens ELSE 0)
Taken(c, s) ==
  (IF s < client[c].greeted THEN 1 ELSE 0) + (IF s = 0 THEN client[c].begun ELSE 0)
Occurrences(q, c) == Cardinality({i \in 1 .. Len(q) : q[i] = c})

\* No message is there twice or out of nothing.
Account(c, s) ==
  Occurrences(outbox[s], c) + inbox[c][s] + Taken(c, s) <= Sent(s)

IInv ==
  /\ TypeOK
  /\ \A c \in Clients \cup Strangers : client[c].connected <= NumServices
  /\ \A c \in Clients : /\ client[c].greeted <= NumServices
                        /\ client[c].begun > 0 => client[c].greeted = NumServices
  /\ \A s \in Ranks : ComeOnce(s) /\ AllHaveCome(s)
  /\ InStep
  /\ \A c \in Clients, s \in Ranks : Account(c, s)

-----------------------------------------------------------------------------
(* Progress.                                                               *)

\* A rank decided to sleep before its last client was accepted, and has not
\* fallen asleep when that is announced.
MissesNotification(s) == rank[s] = "fallAsleep" /\ accepter[s] = "serve"

AllRunning ==
  /\ \A r \in Ranks : rank[r] = "running"
  /\ \A c \in Clients : client[c].begun = MaxFramesInFlight

\* Service and renderer find together, unless a rank misses the one
\* notification it will get: nothing else, and no stranger, keeps them apart.
OnlyMissedNotificationStops ==
  <>[]AllRunning \/ \E s \in Ranks : <>MissesNotification(s)

\* SocketGroup.h on waitForRemotesToConnect(): "waits until _all_ remotes are
\* connected", and no longer.
WaitEnds ==
  \A s \in Ranks : accepter[s] = "serve" ~> rank[s] \notin Waiting
=============================================================================
