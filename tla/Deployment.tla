----------------------------- MODULE Deployment -----------------------------
(***************************************************************************)
(* What deploying a configuration promises, whatever does the deploying.   *)
(* The database is a pair of version counters, one for the peers and one   *)
(* for the settings; "deployed" is the pair BIRD runs.  A deployment may   *)
(* lag behind the database and may skip versions, but it is never ahead of *)
(* the database and never goes back to an older configuration.             *)
(***************************************************************************)
EXTENDS Naturals

VARIABLES
    written,    \* [peers, settings]: number of writes committed so far
    deployed    \* [peers, settings]: the writes the running BIRD reflects

Version == [peers : Nat, settings : Nat]

\* v is at most w in both components
AtMost(v, w) == v.peers <= w.peers /\ v.settings <= w.settings

Init ==
    /\ written = [peers |-> 0, settings |-> 0]
    /\ deployed = [peers |-> 0, settings |-> 0]

\* A peer row or the settings row is written.
Write ==
    /\ \/ written' = [written EXCEPT !.peers = @ + 1]
       \/ written' = [written EXCEPT !.settings = @ + 1]
    /\ UNCHANGED deployed

\* Some database state between the deployed one and the current one is
\* deployed.
Deploy ==
    /\ deployed' \in Version
    /\ AtMost(deployed, deployed')
    /\ AtMost(deployed', written)
    /\ UNCHANGED written

Next == Write \/ Deploy

Spec == Init /\ [][Next]_<<written, deployed>>

=============================================================================
