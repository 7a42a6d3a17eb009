--------------------------- MODULE MCConfigApply ---------------------------
(***************************************************************************)
(* ConfigApply on small instances.  Two calls in flight next to the        *)
(* debounce task are enough for every race of the code (its races are      *)
(* between a handler and the apply, or between two handlers); two          *)
(* interface names let an update move a peer and two peers collide.        *)
(***************************************************************************)
EXTENDS ConfigApply

CONSTANTS r1, r2, i1, i2

OneCall == {r1}
TwoCalls == {r1, r2}
OneIface == {i1}
TwoIfaces == {i1, i2}

RaceOps == {"create", "toggle", "delete", "settings"}
CreateDelete == {"create", "delete"}

\* Bound: ApplyConfigNow is called when there is something to deploy and the
\* debounce task is not about to do it.
AskedInNeed ==
    (\E r \in Req : pc[r] = "idle" /\ pc'[r] = "lock" /\ db' = db) =>
        ~dirty /\ pc[Debounce] = "idle" /\ bird # db
=============================================================================
