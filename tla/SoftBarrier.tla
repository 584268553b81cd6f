---------------------------- MODULE SoftBarrier ----------------------------
(***************************************************************************)
(* What dw2_connect() promises the ranks of the renderer: none of them     *)
(* returns from it before all of them have connected to the whole wall.    *)
(* ConnectionSetup implements this specification.                          *)
(***************************************************************************)
CONSTANTS Clients

VARIABLES arrived,   \* the clients connected to every node of the service
          passed     \* the clients that returned from dw2_connect()

vars == <<arrived, passed>>

Init == arrived = {} /\ passed = {}

Arrive(c) ==
  /\ c \notin arrived
  /\ arrived' = arrived \cup {c}
  /\ UNCHANGED passed

Pass(c) ==
  /\ arrived = Clients
  /\ c \notin passed
  /\ passed' = passed \cup {c}
  /\ UNCHANGED arrived

Next == \E c \in Clients : Arrive(c) \/ Pass(c)

Spec == Init /\ [][Next]_vars
=============================================================================
