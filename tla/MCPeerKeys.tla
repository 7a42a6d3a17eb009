----------------------------- MODULE MCPeerKeys -----------------------------
(***************************************************************************)
(* PeerKeys on a small instance: two calls in flight next to the startup,  *)
(* and enough keys for each of them to make one up.                        *)
(***************************************************************************)
EXTENDS PeerKeys

CONSTANTS c1, c2, k1, k2, k3, k4

TwoCalls == {c1, c2}
Keys == {k1, k2, k3, k4}
=============================================================================
