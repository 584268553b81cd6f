-------------------------- MODULE ServiceDiscovery --------------------------
(***************************************************************************)
(* How a renderer learns of the wall: the first half of Server's           *)
(* constructor, in which every rank opens its port and rank 0 collects the *)
(* names, ports and regions of all ranks; rank 0's info server, that       *)
(* writes the service info to everyone who connects; and in the renderer   *)
(* dw2_query_info() and the beginning of dw2_connect(), which read it.     *)
(* ConnectionSetup goes on from here.                                      *)
(*                                                                         *)
(* One value written to a socket or to MPI is one value here: a number, a  *)
(* string (with its length), a vec2i or a box2i.                           *)
(***************************************************************************)
EXTENDS WallGeometry, Sequences, FiniteSets

CONSTANTS Clients,            \* ranks of the renderer
          HostOf, PortOf,     \* where the sockets of each rank will be
          Magic,              \* what rank 0 broadcast as magic
          controlWindowSize,  \* Config::controlWindowSize
          Garbage             \* what memory may hold that nobody has written

\* No two sockets have the same address.
ASSUME AddressAssumption ==
  \A r, s \in 0 .. NumDisplays :
    r # s => <<HostOf[r], PortOf[r]>> # <<HostOf[s], PortOf[s]>>

VARIABLES config,      \* Server::Config, as main() got it; never changes
          rank,        \* where the constructor of each rank is
          channel,     \* what each rank has sent to rank 0 over MPI
          reading,     \* what rank 0 has read of the node it is reading
          serviceInfo, \* rank 0's
          infoPort,    \* unbound, open, or gone with the service
          backlog,     \* connections that the info server has not accepted
          requester,   \* the connection it writes to: none, or one
          written,     \* how many values it has written there
          stream,      \* the values under way on each connection
          closed,      \* connections that the service has closed
          got,         \* what the client has read from each connection
          client       \* what each client is doing

discoveryVars ==
  <<config, rank, channel, reading, serviceInfo, infoPort, backlog, requester,
    written, stream, closed, got, client>>
gatherVars == <<config, rank, channel, reading, serviceInfo>>
infoThreadVars == <<backlog, requester, written, stream, closed>>
clientVars == <<got, client>>

ranks == Ranks(config.useHeadNode)

\* A client connects to the info server once for each purpose (a bound: an
\* application may query as often as it likes).
Connections == Clients \X {"query", "connect"}

ConfiguredInt(b) == IF b THEN 1 ELSE 0

\* The values of a service info in the order in which writeTo() writes and
\* getInfo() reads them: a header, and three for each node.
HeaderLength == 7
NumFields(numNodes) == HeaderLength + 3 * numNodes
Header(info) == <<info.magic, info.totalPixelsInWall, info.numDisplays, info.stereo,
                  info.hasControlWindow, info.controlWindowSize, Len(info.nodes)>>
Field(info, k) ==
  IF k <= HeaderLength
  THEN Header(info)[k]
  ELSE LET node == info.nodes[((k - HeaderLength - 1) \div 3) + 1]
       IN  <<node.hostName, node.port, node.region>>[((k - HeaderLength - 1) % 3) + 1]

NumWanted(values) ==
  NumFields(IF Len(values) < HeaderLength THEN 0 ELSE values[HeaderLength])
HasAll(values) == Len(values) >= HeaderLength /\ Len(values) = NumWanted(values)

\* getInfo() makes an info of the values it has read.
InfoFrom(values) ==
  [magic |-> values[1], totalPixelsInWall |-> values[2], numDisplays |-> values[3],
   stereo |-> values[4], hasControlWindow |-> values[5], controlWindowSize |-> values[6],
   nodes |-> [i \in 1 .. values[HeaderLength] |->
                LET first == HeaderLength + 3 * (i - 1) + 1
                IN  [hostName |-> values[first], port |-> values[first + 1],
                     region |-> values[first + 2]]]]

\* What createServiceInfo() makes before it adds nodes: without a control
\* window, nobody assigns hasControlWindow.
NewServiceInfo(cfg, garbage) ==
  [magic |-> Magic,
   totalPixelsInWall |-> totalPixelsInWall,
   numDisplays |-> numDisplays,
   stereo |-> ConfiguredInt(cfg.doStereo),
   hasControlWindow |-> IF cfg.hasControlWindow THEN 1 ELSE garbage,
   controlWindowSize |-> IF cfg.hasControlWindow THEN controlWindowSize ELSE Vec(0, 0),
   nodes |-> <<>>]

DiscoveryInit ==
  /\ config \in [useHeadNode: BOOLEAN, hasControlWindow: BOOLEAN, doStereo: BOOLEAN]
  /\ rank = [r \in ranks |-> "create"]
  /\ channel = [r \in ranks |-> <<>>]
  /\ reading = <<>>
  /\ \E garbage \in Garbage : serviceInfo = NewServiceInfo(config, garbage)
  /\ infoPort = "unbound"
  /\ backlog = <<>>
  /\ requester = {}
  /\ written = 0
  /\ stream = [con \in Connections |-> <<>>]
  /\ closed = {}
  /\ got = [con \in Connections |-> <<>>]
  /\ client = [c \in Clients |-> [pc |-> "idle", queried |-> FALSE]]

-----------------------------------------------------------------------------
(* Slips one could make in the actions below; no specification uses them.  *)

\* What was read of a node is not forgotten when the node is complete.
GatherKeepsReading ==
  /\ rank[0] = "gather"
  /\ Len(serviceInfo.nodes) > 0
  /\ LET peer == Len(serviceInfo.nodes)
         node == Append(reading, Head(channel[peer]))
     IN  /\ channel[peer] # <<>>
         /\ channel' = [channel EXCEPT ![peer] = Tail(@)]
         /\ reading' = node
         /\ IF Len(node) < 3
            THEN UNCHANGED <<serviceInfo, rank>>
            ELSE /\ serviceInfo' = [serviceInfo EXCEPT !.nodes =
                      Append(@, [hostName |-> node[1], port |-> node[2], region |-> node[3]])]
                 /\ rank' = [rank EXCEPT ![0] =
                      IF peer + 1 = NumDisplays THEN "bind" ELSE @]
  /\ UNCHANGED <<config, infoPort, infoThreadVars, clientVars>>

\* The info server serves the first client, and returns.
CloseAndReturn ==
  /\ \E con \in requester : written = NumFields(Len(serviceInfo.nodes))
                         /\ closed' = closed \cup {con}
  /\ UNCHANGED <<gatherVars, infoPort, backlog, requester, written, stream, clientVars>>

\* The info server closes a connection when the header is written.
CloseAfterHeader ==
  /\ \E con \in requester : written >= HeaderLength /\ closed' = closed \cup {con}
  /\ requester' = {}
  /\ written' = 0
  /\ UNCHANGED <<gatherVars, infoPort, backlog, stream, clientVars>>

\* Nobody waits for the ranks to have sockets: rank 0 starts with the info.
LeaveBarrierEarly ==
  /\ rank[0] = "barrier"
  /\ rank' = [r \in ranks |-> IF r = 0 THEN "gather" ELSE rank[r]]
  /\ UNCHANGED <<config, channel, reading, serviceInfo, infoPort, infoThreadVars, clientVars>>

-----------------------------------------------------------------------------
(* The ranks of the service.                                               *)

\* SocketGroup's constructor binds a port and listens, on ranks with clients.
CreateSockets(r) ==
  /\ rank[r] = "create"
  /\ rank' = [rank EXCEPT ![r] = "barrier"]
  /\ UNCHANGED <<config, channel, reading, serviceInfo, infoPort, infoThreadVars, clientVars>>

\* The barriers between the sockets and createServiceInfo().
LeaveBarrier ==
  /\ \A r \in ranks : rank[r] = "barrier"
  /\ rank' = [r \in ranks |-> IF r = 0 THEN "gather"
                              ELSE IF config.useHeadNode THEN "running"
                              ELSE "host"]
  /\ UNCHANGED <<config, channel, reading, serviceInfo, infoPort, infoThreadVars, clientVars>>

\* Another rank than 0 sends where it is, one value after the other.
Write(r, from, value, to) ==
  /\ rank[r] = from
  /\ channel' = [channel EXCEPT ![r] = Append(@, value)]
  /\ rank' = [rank EXCEPT ![r] = to]
  /\ UNCHANGED <<config, reading, serviceInfo, infoPort, infoThreadVars, clientVars>>
WriteNode(r) ==
  \/ Write(r, "host", HostOf[r], "port")
  \/ Write(r, "port", PortOf[r], "region")
  \/ Write(r, "region", RegionOfDisplay(r), "running")

\* Rank 0 adds itself: as the node of the whole wall, or as the first display.
AddMyself ==
  /\ rank[0] = "gather"
  /\ serviceInfo.nodes = <<>>
  /\ serviceInfo' = [serviceInfo EXCEPT !.nodes =
       <<[hostName |-> HostOf[0], port |-> PortOf[0],
          region |-> RegionOfNode(config.useHeadNode)[0]]>>]
  /\ rank' = [rank EXCEPT ![0] =
       IF config.useHeadNode \/ NumDisplays = 1 THEN "bind" ELSE "gather"]
  /\ UNCHANGED <<config, channel, reading, infoPort, infoThreadVars, clientVars>>

\* Rank 0 reads the next value of the next rank; the third completes a node.
Gather ==
  /\ rank[0] = "gather"
  /\ Len(serviceInfo.nodes) > 0
  /\ LET peer == Len(serviceInfo.nodes)
         node == Append(reading, Head(channel[peer]))
     IN  /\ channel[peer] # <<>>
         /\ channel' = [channel EXCEPT ![peer] = Tail(@)]
         /\ IF Len(node) < 3
            THEN reading' = node /\ UNCHANGED <<serviceInfo, rank>>
            ELSE /\ reading' = <<>>
                 /\ serviceInfo' = [serviceInfo EXCEPT !.nodes =
                      Append(@, [hostName |-> node[1], port |-> node[2], region |-> node[3]])]
                 /\ rank' = [rank EXCEPT ![0] =
                      IF peer + 1 = NumDisplays THEN "bind" ELSE @]
  /\ UNCHANGED <<config, infoPort, infoThreadVars, clientVars>>

\* InfoServer's constructor.  A port that is in use throws, and ends the
\* service: the loop that would try the next port is never gone round.
OpenInfoServer ==
  /\ rank[0] = "bind"
  /\ \/ infoPort' = "open" /\ rank' = [rank EXCEPT ![0] = "running"]
     \/ infoPort' = "gone" /\ rank' = [r \in ranks |-> "ended"]
  /\ UNCHANGED <<config, channel, reading, serviceInfo, infoThreadVars, clientVars>>

-----------------------------------------------------------------------------
(* The info server's thread.                                               *)

\* sock::listen().
AcceptRequest ==
  /\ requester = {}
  /\ backlog # <<>>
  /\ requester' = {Head(backlog)}
  /\ backlog' = Tail(backlog)
  /\ UNCHANGED <<gatherVars, infoPort, written, stream, closed, clientVars>>

\* ServiceInfo::writeTo().
WriteField ==
  /\ written < NumFields(Len(serviceInfo.nodes))
  /\ \E con \in requester :
       stream' = [stream EXCEPT ![con] = Append(@, Field(serviceInfo, written + 1))]
  /\ written' = written + 1
  /\ UNCHANGED <<gatherVars, infoPort, backlog, requester, closed, clientVars>>

\* sock::close(), and round the loop.
CloseRequest ==
  /\ written = NumFields(Len(serviceInfo.nodes))
  /\ closed' = closed \cup requester
  /\ requester' = {}
  /\ written' = 0
  /\ UNCHANGED <<gatherVars, infoPort, backlog, stream, clientVars>>

\* The receive thread of a rank ends its process when a renderer that was
\* connected has gone, and with it ends the service, whoever is being served.
ServiceEnds ==
  /\ infoPort = "open"
  /\ \E c \in Clients : client[c].pc = "sockets"
  /\ infoPort' = "gone"
  /\ rank' = [r \in ranks |-> "ended"]
  /\ closed' = closed \cup requester \cup {backlog[i] : i \in 1 .. Len(backlog)}
  /\ backlog' = <<>>
  /\ requester' = {}
  /\ written' = 0
  /\ UNCHANGED <<config, channel, reading, serviceInfo, stream, clientVars>>

-----------------------------------------------------------------------------
(* The clients.                                                            *)

Goto(c, label) == client' = [client EXCEPT ![c].pc = label]

\* dw2_query_info() and dw2_connect() connect to the info port.
Connect(c, purpose) ==
  /\ client[c].pc = "idle"
  /\ purpose = "query" => ~ client[c].queried
  /\ infoPort = "open"
  /\ client' = [client EXCEPT ![c].pc = purpose, ![c].queried = @ \/ purpose = "query"]
  /\ backlog' = Append(backlog, <<c, purpose>>)
  /\ UNCHANGED <<gatherVars, infoPort, requester, written, stream, closed, got>>

\* Nobody listens: sock::connect() throws.  dw2_query_info() returns an error
\* and changes nothing, dw2_connect() lets the exception end the renderer.
Refused(c) ==
  /\ client[c].pc = "idle"
  /\ infoPort # "open"
  /\ Goto(c, "terminated")
  /\ UNCHANGED <<gatherVars, infoPort, infoThreadVars, got>>

\* One read() of getInfo().
ReadField(c) ==
  LET con == <<c, client[c].pc>>
  IN  /\ con \in Connections
      /\ ~ HasAll(got[con])
      /\ stream[con] # <<>>
      /\ got' = [got EXCEPT ![con] = Append(@, Head(stream[con]))]
      /\ stream' = [stream EXCEPT ![con] = Tail(@)]
      /\ UNCHANGED <<gatherVars, infoPort, backlog, requester, written, closed, client>>

\* getInfo() returns: the query too, and dw2_connect() goes on to the sockets.
Return(c) ==
  LET con == <<c, client[c].pc>>
  IN  /\ con \in Connections
      /\ HasAll(got[con])
      /\ Goto(c, IF client[c].pc = "query" THEN "idle" ELSE "sockets")
      /\ UNCHANGED <<gatherVars, infoPort, infoThreadVars, got>>

\* read_some() finds the connection closed and throws Disconnect: the query
\* fails, dw2_connect() ends the renderer.
Disconnect(c) ==
  LET con == <<c, client[c].pc>>
  IN  /\ con \in Connections
      /\ ~ HasAll(got[con])
      /\ stream[con] = <<>>
      /\ con \in closed
      /\ Goto(c, IF client[c].pc = "query" THEN "idle" ELSE "terminated")
      /\ UNCHANGED <<gatherVars, infoPort, infoThreadVars, got>>

-----------------------------------------------------------------------------
RankStep(r) == CreateSockets(r) \/ WriteNode(r)
RankZero == LeaveBarrier \/ AddMyself \/ Gather \/ OpenInfoServer
InfoThread == AcceptRequest \/ WriteField \/ CloseRequest
ClientStep(c) == ReadField(c) \/ Return(c) \/ Disconnect(c)

DiscoveryNext ==
  \/ \E r \in ranks : RankStep(r)
  \/ RankZero
  \/ InfoThread
  \/ ServiceEnds
  \/ \E c \in Clients :
       \/ ClientStep(c)
       \/ Refused(c)
       \/ \E purpose \in {"query", "connect"} : Connect(c, purpose)

DiscoverySpec == DiscoveryInit /\ [][DiscoveryNext]_discoveryVars

\* Threads that can go on do; nobody need ask, and the service need not end.
FairDiscoverySpec ==
  /\ DiscoverySpec
  /\ \A r \in 0 .. NumDisplays : WF_discoveryVars(r \in ranks /\ RankStep(r))
  /\ WF_discoveryVars(RankZero)
  /\ WF_discoveryVars(InfoThread)
  /\ \A c \in Clients : WF_discoveryVars(ClientStep(c))

-----------------------------------------------------------------------------
(* Types.  What a client has read is a beginning of a service info, and a  *)
(* connection has at most as many values as that.                          *)
DiscoveryTypeOK ==
  /\ config \in [useHeadNode: BOOLEAN, hasControlWindow: BOOLEAN, doStereo: BOOLEAN]
  /\ rank \in [ranks -> {"create", "barrier", "gather", "host", "port", "region",
                         "bind", "running", "ended"}]
  /\ \A r \in ranks : Len(channel[r]) <= 3
  /\ Len(reading) < 3
  /\ Len(serviceInfo.nodes) <= NumDisplays
  /\ infoPort \in {"unbound", "open", "gone"}
  /\ \A i \in 1 .. Len(backlog) : backlog[i] \in Connections
  /\ requester \subseteq Connections /\ Cardinality(requester) <= 1
  /\ written \in 0 .. NumFields(NumDisplays)
  /\ closed \subseteq Connections
  /\ \A con \in Connections : Len(got[con]) + Len(stream[con]) <= NumFields(NumDisplays)
  /\ client \in [Clients -> [pc: {"idle", "query", "connect", "sockets", "terminated"},
                             queried: BOOLEAN]]

(* A client that has got the info has the wall as it was configured, its   *)
(* size and its magic, and the nodes in the order of their ranks, each     *)
(* with its own address and region: the first is rank 0, from which tokens *)
(* come (dw2_client.cpp:200-212), and tiles go by the index of the node    *)
(* (dw2_client.cpp:76-83).  What a query returned is the same.             *)
ClientKnowsTheService ==
  \A con \in Connections : HasAll(got[con]) =>
    LET info == InfoFrom(got[con])
        region == RegionOfNode(config.useHeadNode)
    IN  /\ info.magic = Magic
        /\ info.totalPixelsInWall = totalPixelsInWall
        /\ info.numDisplays = numDisplays
        /\ info.controlWindowSize =
             IF config.hasControlWindow THEN controlWindowSize ELSE Vec(0, 0)
        /\ Len(info.nodes) = Cardinality(DOMAIN region)
        /\ \A i \in 1 .. Len(info.nodes) :
             info.nodes[i] = [hostName |-> HostOf[i - 1], port |-> PortOf[i - 1],
                              region |-> region[i - 1]]

(* No client can ask before every rank listens on its port: what ports the *)
(* info names are open (Server.cpp:182-184, "need to do that before        *)
(* serverinfo because we need the port number(s)").                        *)
PortsOpenBeforeInfo ==
  infoPort = "open" => \A r \in ranks : rank[r] \notin {"create", "barrier"}

(* Whoever asks learns where each rank of the service really is, at a time *)
(* when it can be reached there.                                           *)
ClientsFindTheService == ClientKnowsTheService /\ PortsOpenBeforeInfo

(* A query that fails on an open connection, or a dw2_connect() that ends  *)
(* the renderer there, means that the service has ended: the info server   *)
(* closes a connection after the last value, and what was sent is read.    *)
OnlyAnEndDisconnects ==
  [][\A c \in Clients : Disconnect(c) => infoPort = "gone"]_discoveryVars

(* Nobody who has reached the info server waits for ever, however many ask *)
(* at the same time and whether or not the service ends meanwhile.         *)
EveryRequestEnds ==
  \A c \in Clients : \A purpose \in {"query", "connect"} :
    (client[c].pc = purpose) ~> (client[c].pc # purpose)

(* "constructor that initializes everything to default values"             *)
(* (ServiceInfo.h:31): a client is told of a control window if and only if *)
(* the service was started with one.                                       *)
ControlWindowAsConfigured ==
  \A con \in Connections : HasAll(got[con]) =>
    InfoFrom(got[con]).hasControlWindow = ConfiguredInt(config.hasControlWindow)
=============================================================================
