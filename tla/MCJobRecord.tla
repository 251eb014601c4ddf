----------------------------- MODULE MCJobRecord -----------------------------
(* Instances of JobRecord for TLC.                                         *)
EXTENDS JobRecord, TLC

(* Jobs are interchangeable: for the runs that check no liveness.          *)
Symmetric == Permutations(Jobs)
==============================================================================
