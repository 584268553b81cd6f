----------------------- MODULE TileTransportInvariant -----------------------
(***************************************************************************)
(* Why TileTransport implements TileNetwork: the inductive invariant.  It  *)
(* says where each tile of a client is until the send thread is done with  *)
(* it, that no display has seen it before, and that a connection holds     *)
(* whole messages one behind the other, of which the display has taken the *)
(* first parts and the send thread has not written the last.               *)
(***************************************************************************)
EXTENDS TileTransport

\* The tiles of a client that its send thread has not taken yet.
Encoded(c) == {compressor[c][k] : k \in Threads} \cap Tile
Inside(c) == Range(tilesToSend[c]) \cup Encoded(c) \cup Range(outbox[c])

\* Each of them is in one place.
OnePlaceEach(c) ==
  /\ IsInjective(tilesToSend[c])
  /\ IsInjective(outbox[c])
  /\ Range(tilesToSend[c]) \cap Range(outbox[c]) = {}
  /\ Encoded(c) \cap (Range(tilesToSend[c]) \cup Range(outbox[c])) = {}
  /\ \A k, l \in Threads :
       compressor[c][k] \in Tile /\ compressor[c][k] = compressor[c][l] => k = l
  /\ sending[c] # Nothing => sending[c].tile \notin Inside(c)

Reads(c, d) == reading[d] # Nothing /\ reading[d].from = c
TileRead(d) == reading[d].parts[1].tile

\* Nothing of a tile has come near a display.
Unheard(t, d) == inbox[d][Whole(t)] = 0 /\ inbox[d][Torn(t)] = 0
Untouched(t, d) ==
  /\ Unheard(t, d)
  /\ \A c \in Clients : /\ \A i \in 1 .. Len(pipe[c][d]) : pipe[c][d][i].tile # t
                        /\ Reads(c, d) => TileRead(d) # t

\* What is inside was given by the client's own application, and no display
\* has heard of it.
InsideIsFresh(c) ==
  \A t \in Inside(c) : From[t] = c /\ t \in given /\ \A d \in Displays : Untouched(t, d)

\* What the send thread is at, no display has heard of that comes later.
SendingIsFresh(c) ==
  LET s == sending[c]
  IN  s # Nothing =>
        /\ From[s.tile] = c
        /\ s.tile \in given
        /\ s.to \subseteq Reach[s.tile]
        /\ \A d \in s.to : d # FirstRank(s.to) \/ s.part = 0 => Untouched(s.tile, d)

ClientIsFresh(c) == OnePlaceEach(c) /\ InsideIsFresh(c) /\ SendingIsFresh(c)

\* Nobody has heard of what was not given yet.
RestIsFresh == \A t \in Tile \ given, d \in Displays : Untouched(t, d)

\* The send thread is in the middle of a message to the display.
Writes(c, d) ==
  /\ sending[c] # Nothing
  /\ d = FirstRank(sending[c].to)
  /\ sending[c].part > 0

\* A part of a message follows the other.
Follows(q, p) ==
  IF p.part < DataParts THEN q = [tile |-> p.tile, part |-> p.part + 1] ELSE q.part = 0

\* The parts in a connection are of tiles of its client for its display, each
\* part once, in the order of whole messages.
InOrder(c, d) ==
  LET p == pipe[c][d]
  IN  /\ \A i \in 1 .. Len(p) : /\ From[p[i].tile] = c
                                /\ p[i].tile \in given
                                /\ d \in Reach[p[i].tile]
                                /\ Unheard(p[i].tile, d)
      /\ \A i, j \in 1 .. Len(p) : p[i] = p[j] => i = j
      /\ \A i \in 1 .. Len(p) - 1 : Follows(p[i + 1], p[i])

\* The display has taken the first parts of a message, and the connection goes
\* on with the next.
AtDisplay(c, d) ==
  LET p == pipe[c][d]
      r == reading[d].parts
  IN  IF Reads(c, d)
        THEN /\ \A i \in 1 .. Len(r) : r[i] = [tile |-> r[1].tile, part |-> i - 1]
             /\ From[r[1].tile] = c
             /\ r[1].tile \in given
             /\ d \in Reach[r[1].tile]
             /\ Unheard(r[1].tile, d)
             /\ p # <<>> => p[1] = [tile |-> r[1].tile, part |-> Len(r)]
             /\ \A i \in 1 .. Len(p) : p[i].tile = r[1].tile => p[i].part >= Len(r)
        ELSE p # <<>> => p[1].part = 0

\* The connection ends with the last part that the send thread wrote, of this
\* message or of the one before.
AtSender(c, d) ==
  LET p == pipe[c][d]
      r == reading[d].parts
      s == sending[c]
  IN  IF Writes(c, d)
        THEN /\ p # <<>> => p[Len(p)] = [tile |-> s.tile, part |-> s.part - 1]
             /\ p = <<>> => /\ Reads(c, d)
                            /\ r[1].tile = s.tile
                            /\ Len(r) = s.part
             /\ \A i \in 1 .. Len(p) : p[i].tile = s.tile => p[i].part < s.part
        ELSE /\ p # <<>> => p[Len(p)].part = DataParts
             /\ p = <<>> => ~ Reads(c, d)

WholeMessages ==
  \A c \in Clients, d \in Displays :
    /\ InOrder(c, d)
    /\ AtDisplay(c, d)
    /\ c \notin left /\ d \notin stopped => AtSender(c, d)

\* A torn message is the last that a display hears of a client.
TornIsLast ==
  \A t \in Tile, d \in Displays : inbox[d][Torn(t)] > 0 =>
    /\ From[t] \in left
    /\ pipe[From[t]][d] = <<>>
    /\ ~ Reads(From[t], d)

\* Who has gone holds nothing.
GoneIsGone ==
  /\ \A c \in left : Inside(c) = {} /\ sending[c] = Nothing /\ InState(c, "asleep") = {}
  /\ \A d \in stopped : reading[d] = Nothing /\ \A c \in Clients : pipe[c][d] = <<>>

IInv ==
  /\ TypeOK
  /\ NoCoreIdles
  /\ \A c \in Clients : ClientIsFresh(c)
  /\ RestIsFresh
  /\ WholeMessages
  /\ TornIsLast
  /\ GoneIsGone
=============================================================================
