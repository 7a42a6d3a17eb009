-------------------------- MODULE MCApplyRecovery --------------------------
(***************************************************************************)
(* ApplyRecovery on the instances of MCConfigApply.                        *)
(***************************************************************************)
EXTENDS ApplyRecovery, MCConfigApply

RaceAndApplyOps == RaceOps \cup {"apply_now"}
=============================================================================
