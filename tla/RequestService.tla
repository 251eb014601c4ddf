---------------------------- MODULE RequestService ----------------------------
(***************************************************************************)
(* What the worker pool promises the executor that calls apply_async       *)
(* (pyqgiswps/poolserver/client.py): every request gets at most one        *)
(* outcome and never changes it, its job is started at most once, and an   *)
(* answer (a result or the exception of the job) only comes from a job     *)
(* that was started.                                                       *)
(*                                                                         *)
(* The promise is deliberately weak about timeouts: a caller may give up   *)
(* while the request is still in the pool, and the job may start, or go on *)
(* running, after that.                                                    *)
(***************************************************************************)

CONSTANT Requests

VARIABLES
  outcome,   \* outcome[r]: "none", or what the caller of apply_async got
  started    \* the requests whose job was started by some worker

vars == <<outcome, started>>

Answers  == {"result", "error"}
Refusals == {"rejected", "gateway"}
Outcomes == {"none", "timeout"} \cup Answers \cup Refusals

TypeOK ==
  /\ outcome \in [Requests -> Outcomes]
  /\ started \in SUBSET Requests

Init ==
  /\ outcome = [r \in Requests |-> "none"]
  /\ started = {}

(* A worker starts the job of r: never twice, and never for a request that *)
(* was refused (it was not sent to any worker).                            *)
Run(r) ==
  /\ r \notin started
  /\ outcome[r] \in {"none", "timeout"}
  /\ started' = started \cup {r}
  /\ UNCHANGED outcome

(* The caller gets the answer of its own job. *)
Answer(r) ==
  /\ outcome[r] = "none"
  /\ r \in started
  /\ \E a \in Answers : outcome' = [outcome EXCEPT ![r] = a]
  /\ UNCHANGED started

(* The request is refused (queue full, or its worker is unreachable). *)
Refuse(r) ==
  /\ outcome[r] = "none"
  /\ r \notin started
  /\ \E a \in Refusals : outcome' = [outcome EXCEPT ![r] = a]
  /\ UNCHANGED started

(* The caller stops waiting. *)
GiveUp(r) ==
  /\ outcome[r] = "none"
  /\ outcome' = [outcome EXCEPT ![r] = "timeout"]
  /\ UNCHANGED started

Next == \E r \in Requests : Run(r) \/ Answer(r) \/ Refuse(r) \/ GiveUp(r)

Spec == Init /\ [][Next]_vars
===============================================================================
