----------------------------- MODULE MCBirdConf -----------------------------
(***************************************************************************)
(* BirdConf on a small instance: this node and another one, a link better  *)
(* and one worse than the limits of a rule, and a mode for each way in     *)
(* which a peer gets none, one or two sessions.                            *)
(***************************************************************************)
EXTENDS BirdConf

CONSTANTS p1, p2, other

TwoPeers == {p1, p2}
Nodes == {Me, other}
Links == {[latency |-> 1, loss |-> 0], [latency |-> 3, loss |-> 1]}
Rules == {[latency |-> 1, loss |-> 0, bandwidth |-> 1000, crypto |-> 1],
          [latency |-> 0, loss |-> 1, bandwidth |-> 0, crypto |-> 0]}
Modes == {
    [multiprotocol |-> TRUE, extended_nexthop |-> TRUE, sessions |-> 1,
     has |-> {"v6"}],
    [multiprotocol |-> TRUE, extended_nexthop |-> FALSE, sessions |-> 1,
     has |-> {"v6"}],
    [multiprotocol |-> FALSE, extended_nexthop |-> FALSE, sessions |-> 2,
     has |-> {"v4", "v6"}],
    [multiprotocol |-> FALSE, extended_nexthop |-> FALSE, sessions |-> 0,
     has |-> {"v6"}],
    [multiprotocol |-> FALSE, extended_nexthop |-> FALSE, sessions |-> 2,
     has |-> {"v4"}]}
=============================================================================
