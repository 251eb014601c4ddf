---------------------------- MODULE MCSupervisor ----------------------------
(* Instances of Supervisor for TLC.                                        *)
EXTENDS Supervisor, TLC

(* Process ids are interchangeable, and so are worker processes: for the   *)
(* runs that check no liveness.                                            *)
Symmetric == Permutations(Procs) \cup Permutations(Pids)
=============================================================================
