-------------------------- MODULE MCTileTransport --------------------------
(* Two clients and two displays for TLC: tiles of the first client for     *)
(* both displays and for none (within a bezel), of the second for both.    *)
EXTENDS TileTransport, TLC

CONSTANTS c1, c2, wide, bezel, other

TheClients == {c1, c2}
TheTiles == {wide, bezel, other}
TheSenders == (wide :> c1) @@ (bezel :> c1) @@ (other :> c2)
TheReach == (wide :> {0, 1}) @@ (bezel :> {}) @@ (other :> {0, 1})
=============================================================================
