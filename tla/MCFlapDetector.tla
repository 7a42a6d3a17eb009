-------------------------- MODULE MCFlapDetector --------------------------
(***************************************************************************)
(* FlapDetector on a small instance.  One unit of time is the check        *)
(* interval of 30 seconds.                                                 *)
(***************************************************************************)
EXTENDS FlapDetector, TLC

CONSTANTS p1, p2
TwoPrefixes == {p1, p2}
PrefixSymmetry == Permutations(TwoPrefixes)
=============================================================================
