--------------------------- MODULE ApplyRecovery ---------------------------
(***************************************************************************)
(* What ConfigApply achieves in the end.  A failed apply is not retried    *)
(* and a restart forgets the flag: the edits they lose wait for the next   *)
(* edit, or for somebody to call ApplyConfigNow, and that must then bring  *)
(* everything up to date.                                                  *)
(***************************************************************************)
EXTENDS ConfigApply

VARIABLE
    clean  \* history: an edit was written, or an apply asked for, since the
           \* last failure or restart

rvars == <<vars, clean>>

RInit == Init /\ clean = TRUE

\* A call goes for the lock without having written.
Asked == \E r \in Req : pc[r] = "idle" /\ pc'[r] = "lock" /\ db' = db

\* Bound: ApplyConfigNow is called after a setback, when no edit will follow
\* and nothing is flagged or in flight.
Rescue == ~clean /\ ~dirty /\ ~CanEdit /\ \A p \in Proc : pc[p] = "idle"

Work ==
    /\ Quiet \/ \E r \in Req : EditFault(r)
    /\ Asked => Rescue
    /\ clean' = (clean \/ Asked \/ db' # db)

\* What can lose the work of an apply.
Setback ==
    /\ Crash \/ \E p \in Proc : ApplyFault(p)
    /\ clean' = FALSE

\* FairSpec of ConfigApply, with the history.
RFairSpec == RInit /\ [][Work \/ Setback]_rvars /\ Progress

\* Recovery: when no failure follows the last edit or request to apply, BIRD
\* ends up running the configuration of the database, whatever was lost
\* before: the flag in a restart, applies that failed or stopped half-way.
Recovers == <>[]clean => <>[]Deployed
=============================================================================
