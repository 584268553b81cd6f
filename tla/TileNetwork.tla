---------------------------- MODULE TileNetwork ----------------------------
(***************************************************************************)
(* What lies between dw2_send_rgba() and the inboxes of the displays, as   *)
(* DisplayWall and FrameAssembler take it: every tile comes to each of its *)
(* displays once and whole, in any order.  A client that leaves may take   *)
(* tiles with it, and then, but only then, a display may be handed the     *)
(* beginning of a tile, or a message that nobody sent, or may stop; and a  *)
(* display that stops may take clients with it that did not want to leave. *)
(* TileTransport implements this specification.                            *)
(***************************************************************************)
EXTENDS Integers

CONSTANTS Clients,    \* the ranks of the renderer
          Leavers,    \* those that may leave by themselves
          Displays,   \* the ranks of the service
          Tile,       \* the tiles that may be sent, each once
          From,       \* the client that sends each tile
          Reach,      \* the displays that each tile overlaps
          MadeUp      \* a message that nobody sent

VARIABLES given,    \* the tiles that dw2_send_rgba() was called with
          left,     \* the clients that have gone
          inbox,    \* how often each display was handed each message
          stopped   \* the displays that ended because of it

vars == <<given, left, inbox, stopped>>

Whole(t) == [tile |-> t, whole |-> TRUE]
Torn(t) == [tile |-> t, whole |-> FALSE]
Message == [tile: Tile, whole: BOOLEAN] \cup {MadeUp}

Init ==
  /\ given = {}
  /\ left = {}
  /\ inbox = [d \in Displays |-> [m \in Message |-> 0]]
  /\ stopped = {}

Give(t) ==
  /\ From[t] \notin left
  /\ given' = given \cup {t}
  /\ UNCHANGED <<left, inbox, stopped>>

\* Nothing comes after a torn message of the same client.
MayCome(t, d) ==
  /\ t \in given
  /\ d \in Reach[t] \ stopped
  /\ inbox[d][Whole(t)] = 0
  /\ \A u \in Tile : From[u] = From[t] => inbox[d][Torn(u)] = 0

Hand(d, message) == inbox' = [inbox EXCEPT ![d][message] = @ + 1]

Deliver(t, d) ==
  /\ MayCome(t, d)
  /\ Hand(d, Whole(t))
  /\ UNCHANGED <<given, left, stopped>>

\* A client leaves, or ends because a display has stopped.
Leave(c) ==
  /\ c \in Leavers \/ stopped # {}
  /\ left' = left \cup {c}
  /\ UNCHANGED <<given, inbox, stopped>>

Tear(t, d) ==
  /\ From[t] \in left
  /\ MayCome(t, d)
  /\ Hand(d, Torn(t))
  /\ UNCHANGED <<given, left, stopped>>

MakeUp(d) ==
  /\ left # {}
  /\ d \notin stopped
  /\ Hand(d, MadeUp)
  /\ UNCHANGED <<given, left, stopped>>

Stop(d) ==
  /\ left # {}
  /\ stopped' = stopped \cup {d}
  /\ UNCHANGED <<given, left, inbox>>

Next ==
  \/ \E t \in Tile : Give(t)
  \/ \E t \in Tile, d \in Displays : Deliver(t, d) \/ Tear(t, d)
  \/ \E c \in Clients : Leave(c)
  \/ \E d \in Displays : MakeUp(d) \/ Stop(d)

Spec == Init /\ [][Next]_vars
=============================================================================
