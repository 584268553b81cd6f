------------------------- MODULE MCServiceDiscovery -------------------------
(* A small service for TLC: two displays, each of one pixel.               *)
EXTENDS ServiceDiscoveryInvariant

TwoByOne == Vec(2, 1)
OneByOne == Vec(1, 1)

\* Two ranks share a host, so that only the port tells them apart.
Hosts == [r \in 0 .. 2 |-> IF r < 2 THEN "left" ELSE "right"]
Ports == [r \in 0 .. 2 |-> IF r = 0 THEN 40001 ELSE 40002]
=============================================================================
