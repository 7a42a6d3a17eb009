---------------------------- MODULE MCBgpListener ----------------------------
(***************************************************************************)
(* BgpListener on a small instance: two sessions share a channel that is   *)
(* shorter than an update.  The updates have prefixes whose length is no   *)
(* multiple of eight, of no bits and of all bits, attributes in two orders *)
(* and with both forms of a length, and nothing at all (End-of-RIB).       *)
(***************************************************************************)
EXTENDS BgpListener

CONSTANTS s1, s2

Sessions == {s1, s2}
ShortSessions == [s \in Sessions |-> IF s = s1 THEN 3 ELSE 2]

Greetings == {[as |-> 65280, hold |-> 90], [as |-> 65534, hold |-> 30]}

Default == [bits |-> 0, octets |-> <<0, 0, 0, 0>>]
Net == [bits |-> 14, octets |-> <<172, 20, 0, 0>>]
Other == [bits |-> 8, octets |-> <<10, 0, 0, 0>>]
HostRoute == [bits |-> 32, octets |-> <<172, 20, 1, 255>>]

Origin == [type |-> 1, value |-> <<0>>, extended |-> FALSE]
AsPath(extended) == [type |-> 2, value |-> <<2, 1, 254, 9>>, extended |-> extended]

Updates ==
    { [withdrawn |-> <<>>, attrs |-> <<Origin, AsPath(FALSE)>>, nlri |-> <<Net, Default>>],
      [withdrawn |-> <<>>, attrs |-> <<AsPath(TRUE), Origin>>, nlri |-> <<Net>>],
      [withdrawn |-> <<Other, HostRoute>>, attrs |-> <<Origin>>, nlri |-> <<HostRoute>>],
      [withdrawn |-> <<Net>>, attrs |-> <<>>, nlri |-> <<>>],
      [withdrawn |-> <<>>, attrs |-> <<>>, nlri |-> <<>>] }
=============================================================================
