----------------------------- MODULE MCPoolServer -----------------------------
(* Instances of PoolServer for TLC. *)
EXTENDS PoolServer, TLC

Symmetric == Permutations(Requests) \cup Permutations(Workers)
===============================================================================
