-------------------------- MODULE MCLookingGlass --------------------------
(***************************************************************************)
(* LookingGlass on a small instance: one browser, one query at a time, and *)
(* two nodes.  One unit of time is half of the limiter's window; a token   *)
(* lives for one unit, and the library's leeway is another.                *)
(***************************************************************************)
EXTENDS LookingGlass

CONSTANTS b1, q1, n1, n2, t1, t2

OneBrowser == {b1}
OneQuery == {q1}
TwoLines == <<t1, t2>>
TwoNodes == {n1, n2}
=============================================================================
