---------------------- MODULE ServiceDiscoveryInvariant ----------------------
(***************************************************************************)
(* The inductive invariant of ServiceDiscovery: why whoever asks gets the  *)
(* whole service info and nothing else.  It accounts for every value that  *)
(* a rank has sent to rank 0, and for every value on a connection.         *)
(***************************************************************************)
EXTENDS ServiceDiscovery

\* A sequence, of whatever values.
IsSeq(s) == Len(s) \in Nat /\ s = [k \in 1 .. Len(s) |-> s[k]]

\* How many nodes a service info names, and the node of a rank.
NumNodes == IF config.useHeadNode THEN 1 ELSE NumDisplays
NumAdded == Len(serviceInfo.nodes)
Node(r) == [hostName |-> HostOf[r], port |-> PortOf[r],
            region |-> RegionOfNode(config.useHeadNode)[r]]

\* What a rank sends to rank 0, how much of it it has sent, and how much of
\* that rank 0 has taken.
NodeValues(r) == <<HostOf[r], PortOf[r], RegionOfDisplay(r)>>
NumSent(r) ==
  IF config.useHeadNode THEN 0
  ELSE IF rank[r] = "port" THEN 1
  ELSE IF rank[r] = "region" THEN 2
  ELSE IF rank[r] \in {"running", "ended"} THEN 3
  ELSE 0
NumTaken(r) == IF r < NumAdded THEN 3 ELSE IF r = NumAdded THEN Len(reading) ELSE 0

\* A connection that its client has asked for, and what was written to it.
Asked(con) ==
  \/ con[2] = "query" /\ client[con[1]].queried
  \/ con[2] = "connect" /\ client[con[1]].pc \notin {"idle", "query"}
NumPassed(con) == Len(got[con]) + Len(stream[con])

-----------------------------------------------------------------------------
\* The service info is the one rank 0 made, but for the nodes it has added.
InfoInv ==
  /\ config \in [useHeadNode: BOOLEAN, hasControlWindow: BOOLEAN, doStereo: BOOLEAN]
  /\ serviceInfo = [NewServiceInfo(config, serviceInfo.hasControlWindow)
                      EXCEPT !.nodes = serviceInfo.nodes]
  /\ IsSeq(serviceInfo.nodes)
  /\ NumAdded <= NumNodes
  /\ \A i \in 1 .. NumAdded : serviceInfo.nodes[i] = Node(i - 1)

\* The ranks go through the constructor together, up to the barrier; rank 0
\* is done with the nodes when it binds the info port.
RankInv ==
  /\ rank \in [ranks -> {"create", "barrier", "gather", "host", "port", "region",
                         "bind", "running", "ended"}]
  /\ rank[0] \notin {"host", "port", "region"}
  /\ \A r \in ranks \ {0} : rank[r] \notin {"gather", "bind"}
  /\ config.useHeadNode => \A r \in ranks : rank[r] \notin {"host", "port", "region"}
  /\ rank[0] \in {"create", "barrier"} =>
       NumAdded = 0 /\ \A r \in ranks : rank[r] \in {"create", "barrier"}
  /\ rank[0] \notin {"create", "barrier"} =>
       \A r \in ranks : rank[r] \notin {"create", "barrier"}
  /\ rank[0] = "gather" => NumAdded < NumNodes
  /\ rank[0] \in {"bind", "running", "ended"} => NumAdded = NumNodes

\* The info port is open while rank 0 runs.
PortInv ==
  /\ infoPort = CASE rank[0] = "running" -> "open"
                  [] rank[0] = "ended" -> "gone"
                  [] OTHER -> "unbound"
  /\ \A r \in ranks : rank[r] = "ended" => infoPort = "gone"

\* What rank 0 has taken of a rank, and then what is under way, is what that
\* rank has sent so far, in order.
GatherInv ==
  /\ IsSeq(reading) /\ Len(reading) < 3
  /\ \A k \in 1 .. Len(reading) : reading[k] = NodeValues(NumAdded)[k]
  /\ reading # <<>> => ~ config.useHeadNode /\ rank[0] = "gather" /\ NumAdded > 0
  /\ DOMAIN channel = ranks
  /\ \A r \in ranks : IsSeq(channel[r])
  /\ channel[0] = <<>>
  /\ \A r \in ranks \ {0} :
       /\ NumSent(r) = NumTaken(r) + Len(channel[r])
       /\ \A k \in 1 .. Len(channel[r]) : channel[r][k] = NodeValues(r)[NumTaken(r) + k]

\* A connection that was asked for waits, is written to, or was closed.
QueueInv ==
  /\ IsSeq(backlog)
  /\ \A i \in 1 .. Len(backlog) :
       backlog[i] \in Connections /\ backlog[i] \notin requester \cup closed
  /\ \A i, j \in 1 .. Len(backlog) : backlog[i] = backlog[j] => i = j
  /\ requester \subseteq Connections /\ \A a, b \in requester : a = b
  /\ closed \subseteq Connections /\ requester \cap closed = {}
  /\ \A con \in requester \cup closed : Asked(con)
  /\ \A i \in 1 .. Len(backlog) : Asked(backlog[i])
  /\ infoPort # "open" => backlog = <<>> /\ requester = {}
  /\ infoPort = "unbound" => closed = {}

\* What a client has read, and then what is under way to it, is what was
\* written so far of the service info: all of it once the server closes.
StreamInv ==
  /\ written \in 0 .. NumFields(NumNodes)
  /\ requester = {} => written = 0
  /\ DOMAIN got = Connections /\ DOMAIN stream = Connections
  /\ \A con \in Connections :
       /\ IsSeq(got[con]) /\ IsSeq(stream[con])
       /\ NumPassed(con) <= NumFields(NumNodes)
       /\ con \in requester => NumPassed(con) = written
       /\ con \notin requester \cup closed => NumPassed(con) = 0
       /\ con \in closed /\ infoPort = "open" => NumPassed(con) = NumFields(NumNodes)
       /\ \A k \in 1 .. Len(got[con]) : got[con][k] = Field(serviceInfo, k)
       /\ \A k \in 1 .. Len(stream[con]) :
            stream[con][k] = Field(serviceInfo, Len(got[con]) + k)

ClientInv ==
  client \in [Clients -> [pc: {"idle", "query", "connect", "sockets", "terminated"},
                          queried: BOOLEAN]]

DiscoveryInv == InfoInv /\ RankInv /\ PortInv /\ GatherInv /\ QueueInv /\ StreamInv /\ ClientInv
=============================================================================
