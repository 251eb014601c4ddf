---------------------------- MODULE ServiceLifecycle ----------------------------
(***************************************************************************)
(* The life of the service: run_server of pyqgiswps/runtime.py, the pool   *)
(* process of poolserver/server.py and poolserver/pool.py, and the reload  *)
(* monitor of pyqgisservercontrib/core/watchfiles.py, around the delegate  *)
(* of FactoryDelegate.                                                     *)
(*                                                                         *)
(* The server starts the delegate, waits for the list of processes, forks  *)
(* the pool, and serves until a signal; then it terminates all of them.    *)
(* When the watched file changes the providers are reloaded and, if that   *)
(* worked, the workers told to restart.  A worker reads the providers from *)
(* disk when it starts.                                                    *)
(*                                                                         *)
(* The watched file is touched when new providers are installed: its time  *)
(* is the version disk.                                                    *)
(***************************************************************************)
EXTENDS FactoryDelegate

CONSTANTS
  Slots,     \* the places of the pool
  MaxEvents  \* bound: calls, faults and new versions, together

ASSUME LifecycleAssumption == Slots # {} /\ MaxEvents \in Nat

VARIABLES
  main,     \* where the server is in run_server
  pool,     \* where the pool process is in run_worker_pool
  worker,   \* worker[s]: the process in the place s
  wver,     \* wver[s]: the version of the providers that it loaded
  told,     \* told[s]: a RESTART is in its SUB socket
  heir,     \* heir[s]: it inherited the SIGTERM handler of the pool process
  seen,     \* modify_times of the watched file, 0 before the first check
  hasty,    \* the pool was terminated before it had its handlers (history)
  failures  \* counter of the bound

poolVars      == <<pool, worker, wver, told, heir, hasty, failures>>
lifecycleVars == <<main, seen, poolVars>>
vars          == <<factoryVars, lifecycleVars>>

WorkerAlive(s) == worker[s] \in {"starting", "up", "native"}
ServerAlive == main \in {"boot", "loading", "starting", "ready", "closing", "joining"}

TypeOK ==
  /\ FactoryTypeOK
  /\ main \in {"boot", "loading", "starting", "ready", "closing", "joining",
               "ended", "killed", "aborted"}
  /\ pool \in {"none", "forking", "running", "term", "joining", "gone"}
  /\ worker \in [Slots -> {"none", "starting", "up", "native", "exited", "failed"}]
  /\ wver \in [Slots -> Versions]
  /\ told \in [Slots -> BOOLEAN]
  /\ heir \in [Slots -> BOOLEAN]
  /\ seen \in Versions
  /\ hasty \in BOOLEAN
  /\ failures \in 0 .. MaxFaults

Init ==
  /\ FactoryInit
  /\ main = "boot"
  /\ pool = "none"
  /\ worker = [s \in Slots |-> "none"]
  /\ wver = [s \in Slots |-> 0]
  /\ told = [s \in Slots |-> FALSE]
  /\ heir = [s \in Slots |-> FALSE]
  /\ seen = 0
  /\ hasty = FALSE
  /\ failures = 0

-------------------------------------------------------------------------------
(* The server: run_server                                                  *)

(* initialize: the delegate is started and asked for the processes.        *)
Boot ==
  /\ main = "boot"
  /\ AskFirstList
  /\ main' = "loading"
  /\ UNCHANGED <<seen, poolVars>>

(* The list is there and the pool process is forked; or None, the          *)
(* exception leaves _main, and terminate is called.                        *)
Initialized ==
  /\ main = "loading"
  /\ TakeList
  /\ IF Head(pipe) = NoneItem
     THEN main' = "closing" /\ UNCHANGED pool
     ELSE main' = "starting" /\ pool' = "forking"
  /\ UNCHANGED <<seen, worker, wver, told, heir, hasty, failures>>

(* The application, the reload monitor, the supervisor and at last the     *)
(* handlers of the signals.                                                *)
Ready ==
  /\ main = "starting"
  /\ main' = "ready"
  /\ UNCHANGED <<factoryVars, seen, poolVars>>

(* SIGINT or SIGTERM: the event wakes _main up when the loop is free.      *)
Signal ==
  /\ main = "ready"
  /\ call = Idle
  /\ main' = "closing"
  /\ UNCHANGED <<factoryVars, seen, poolVars>>

(* Before the handlers are set, SIGTERM ends the server on the spot.       *)
EarlySignal ==
  /\ main \in {"loading", "starting"}
  /\ main' = "killed"
  /\ ServerDies
  /\ UNCHANGED <<seen, poolVars>>

(* Mutant: only the pool is terminated. *)
TerminatePoolOnly ==
  /\ main = "closing"
  /\ main' = "joining"
  /\ pool' = CASE pool = "forking" -> "gone"
               [] pool = "running" -> "term"
               [] OTHER -> pool
  /\ hasty' = (pool = "forking")
  /\ UNCHANGED <<factoryVars, seen, worker, wver, told, heir, failures>>

(* terminate: SIGTERM to the delegate and to the pool process.  A pool     *)
(* process that has not set its handlers dies of it.                       *)
Terminate ==
  /\ main = "closing"
  /\ main' = "joining"
  /\ delegate' = IF delegate \in {"watch", "quit"} THEN "term" ELSE delegate
  /\ pool' = CASE pool = "forking" -> "gone"
               [] pool = "running" -> "term"
               [] OTHER -> pool
  /\ hasty' = (pool = "forking")
  /\ UNCHANGED <<queueVars, loaderVars, serverVars, disk, raced, factoryBounds,
                 seen, worker, wver, told, heir, failures>>

(* Mutant: the pool process is not joined. *)
EndNoJoin ==
  /\ main = "joining"
  /\ delegate \in {"none", "gone"}
  /\ out["server"] = <<>>
  /\ main' = "ended"
  /\ UNCHANGED <<factoryVars, seen, poolVars>>

(* The pool process is joined, and at exit the delegate.                   *)
End ==
  /\ main = "joining"
  /\ pool \in {"none", "gone"}
  /\ delegate \in {"none", "gone"}
  /\ out["server"] = <<>>
  /\ main' = "ended"
  /\ UNCHANGED <<factoryVars, seen, poolVars>>

-------------------------------------------------------------------------------
(* Requests and reloads, in the event loop                                 *)

Contextualize ==
  /\ main = "ready"
  /\ AskContext
  /\ UNCHANGED lifecycleVars

Contextualized ==
  /\ main = "ready"
  /\ TakeContext
  /\ UNCHANGED lifecycleVars

(* _check_file, the first time: the time is noted and nothing else done.   *)
FirstCheck ==
  /\ main = "ready" /\ call = Idle
  /\ seen = 0
  /\ seen' = disk
  /\ UNCHANGED <<factoryVars, main, poolVars>>

(* The time has changed: reload_qgis_processes.                            *)
Reload ==
  /\ main = "ready"
  /\ seen # 0 /\ seen # disk
  /\ AskNewList
  /\ seen' = disk
  /\ UNCHANGED <<main, poolVars>>

(* Mutant: the time is noted after the reload. *)
ReloadedNotesTime ==
  /\ main = "ready"
  /\ TakeList
  /\ IF Head(pipe) = NoneItem
     THEN UNCHANGED told
     ELSE \E S \in SUBSET {s \in Slots : worker[s] = "starting"} :
            told' = [s \in Slots |-> told[s] \/ s \in S \/ worker[s] = "up"]
  /\ seen' = disk
  /\ UNCHANGED <<main, pool, worker, wver, heir, hasty, failures>>

(* The answer to a reload: unless it is None, the pool is restarted.  A    *)
(* worker that starts may or may not have subscribed.                      *)
Reloaded ==
  /\ main = "ready"
  /\ TakeList
  /\ IF Head(pipe) = NoneItem
     THEN UNCHANGED told
     ELSE \E S \in SUBSET {s \in Slots : worker[s] = "starting"} :
            told' = [s \in Slots |-> told[s] \/ s \in S \/ worker[s] = "up"]
  /\ UNCHANGED <<main, seen, pool, worker, wver, heir, hasty, failures>>

-------------------------------------------------------------------------------
(* The pool process and its workers                                        *)

(* Pool(...) forks the workers, then the handlers are set.                 *)
ForkWorkers ==
  /\ pool = "forking"
  /\ IF \E s \in Slots : worker[s] = "none"
     THEN /\ worker' = [worker EXCEPT ![CHOOSE s \in Slots : worker[s] = "none"] = "starting"]
          /\ UNCHANGED pool
     ELSE pool' = "running" /\ UNCHANGED worker
  /\ UNCHANGED <<factoryVars, main, seen, wver, told, heir, hasty, failures>>

(* A worker ends, with its socket and what it loaded.                      *)
Ends(s, how) ==
  /\ worker' = [worker EXCEPT ![s] = how]
  /\ wver' = [wver EXCEPT ![s] = 0]
  /\ told' = [told EXCEPT ![s] = FALSE]

(* maintain_pool: a worker that exited is replaced, by a process that is   *)
(* forked with the handlers.  If it failed while the pool is young, the    *)
(* pool aborts the server, and goes on itself.                             *)
Maintain(s) ==
  /\ pool = "running"
  /\ worker[s] \in {"exited", "failed"}
  /\ worker' = [worker EXCEPT ![s] = "starting"]
  /\ heir' = [heir EXCEPT ![s] = TRUE]
  /\ \/ UNCHANGED <<factoryVars, main>>
     \/ worker[s] = "failed" /\ ServerAlive /\ main' = "aborted" /\ ServerDies
  /\ UNCHANGED <<seen, pool, wver, told, hasty, failures>>

(* SIGTERM: _terminate_pool terminates its workers.  Those that were       *)
(* forked before the handlers die at once.  Of the others, that inherited  *)
(* a Python handler, any may be in native code of a job.                   *)
TerminateWorkers ==
  /\ pool = "term"
  /\ pool' = "joining"
  /\ \E native \in SUBSET {s \in Slots : worker[s] = "up"} :
       worker' = [s \in Slots |-> CASE WorkerAlive(s) /\ ~heir[s] -> "failed"
                                    [] s \in native /\ heir[s]   -> "native"
                                    [] OTHER                     -> worker[s]]
  /\ UNCHANGED <<factoryVars, main, seen, wver, told, heir, hasty, failures>>

(* These raise SystemExit as soon as they run Python code.                 *)
WorkerStops(s) ==
  /\ pool = "joining"
  /\ WorkerAlive(s)
  /\ Ends(s, "exited")
  /\ UNCHANGED <<factoryVars, main, seen, pool, heir, hasty, failures>>

(* It joins them all, and ends.                                            *)
JoinWorkers ==
  /\ pool = "joining"
  /\ \A s \in Slots : ~WorkerAlive(s)
  /\ pool' = "gone"
  /\ UNCHANGED <<factoryVars, main, seen, worker, wver, told, heir, hasty, failures>>

(* The initializer of a worker reads the providers.  Its SUB socket was    *)
(* connected before: that it has subscribed by now is assumed.             *)
WorkerLoads(s) ==
  /\ worker[s] = "starting"
  /\ worker' = [worker EXCEPT ![s] = "up"]
  /\ wver' = [wver EXCEPT ![s] = disk]
  /\ UNCHANGED <<factoryVars, main, seen, pool, told, heir, hasty, failures>>

(* It sees RESTART between two jobs.                                       *)
WorkerRestarts(s) ==
  /\ worker[s] = "up" /\ told[s]
  /\ Ends(s, "exited")
  /\ UNCHANGED <<factoryVars, main, seen, pool, heir, hasty, failures>>

(* It has run maxcycles jobs.                                              *)
WorkerRetires(s) ==
  /\ worker[s] = "up"
  /\ Ends(s, "exited")
  /\ UNCHANGED <<factoryVars, main, seen, pool, heir, hasty, failures>>

(* It exits with an error, or is killed by the supervisor.                 *)
WorkerFails(s) ==
  /\ WorkerAlive(s)
  /\ failures + fails + deaths < MaxFaults
  /\ failures' = failures + 1
  /\ Ends(s, "failed")
  /\ UNCHANGED <<factoryVars, main, seen, pool, heir, hasty>>

-------------------------------------------------------------------------------

Delegate ==
  /\ LoaderStep \/ DelegateStep \/ QueueStep \/ DiskChanges
  /\ failures + fails' + deaths' <= MaxFaults
  /\ UNCHANGED lifecycleVars


ServerStep ==
  \/ Boot \/ Initialized \/ Ready \/ Signal \/ EarlySignal \/ Terminate \/ End
  \/ Contextualize \/ Contextualized \/ FirstCheck \/ Reload \/ Reloaded

PoolStep ==
  \/ ForkWorkers \/ TerminateWorkers \/ JoinWorkers
  \/ \E s \in Slots :
       \/ Maintain(s) \/ WorkerLoads(s) \/ WorkerRestarts(s) \/ WorkerRetires(s)
       \/ WorkerStops(s) \/ WorkerFails(s)

(* The processes that outlive the server are not followed.                 *)
Next ==
  /\ ServerAlive
  /\ Delegate \/ ServerStep \/ PoolStep
  /\ calls' + fails' + deaths' + failures' + (disk' - 1) <= MaxEvents

Spec == Init /\ [][Next]_vars

(* The server runs what its code says next, its monitor checks at its      *)
(* interval, the pool process wakes up every 0.1 s, workers load, look for *)
(* RESTART and heed SIGTERM, but for those in native code, which need not  *)
(* end.  Signals, requests, failures and new providers are free.           *)
Fairness ==
  /\ WF_vars(Boot \/ Initialized \/ Ready \/ Contextualized \/ Reloaded \/ Terminate \/ End)
  /\ WF_vars(FirstCheck \/ Reload)
  /\ WF_vars(ForkWorkers \/ TerminateWorkers \/ JoinWorkers)
  /\ \A s \in Slots :
       /\ WF_vars(Maintain(s))
       /\ WF_vars(WorkerLoads(s) \/ WorkerRestarts(s) \/ (worker[s] # "native" /\ WorkerStops(s)))
  /\ \A p \in Writers : WF_vars(Flush(p) /\ UNCHANGED lifecycleVars)
  /\ \A p \in {"server", "loader"} : SF_vars(Acquire(p) /\ UNCHANGED lifecycleVars)
  /\ WF_vars(LoaderUrged /\ UNCHANGED lifecycleVars)
  /\ WF_vars(DelegateStep /\ UNCHANGED lifecycleVars)

FairSpec == Spec /\ Fairness

-------------------------------------------------------------------------------
(* Properties                                                              *)

(* A worker whose providers are older than the published ones will         *)
(* restart, or is on its way: no request can reach outdated providers for  *)
(* ever (processfactory.py:260-264, worker.py:103-112).                    *)
StaleWorkersAreTold ==
  published.kind = "list" /\ main \in {"starting", "ready"} =>
    \A s \in Slots : worker[s] = "up" /\ wver[s] < published.ver => told[s]

(* After a reload nothing keeps serving what was loaded before: neither    *)
(* the cache of contexts of the server, nor a worker.                      *)
ProvidersAreCurrent == ContextIsCurrent /\ StaleWorkersAreTold

(* A service that ended left no process behind, except workers of a pool   *)
(* process killed while it forked them (runtime.py:253-257).               *)
NothingLeftBehind ==
  main = "ended" =>
    /\ delegate \in {"none", "gone"} /\ ~LoaderAlive
    /\ pool \in {"none", "gone"}
    /\ (\E s \in Slots : WorkerAlive(s)) => hasty

(* Termination ends: the joins of the pool, of its workers and of the      *)
(* delegate return (server.py:82-90, pool.py:107-121).  What may hold them *)
(* for ever is a job that stays in native code, in a worker that replaced  *)
(* an earlier one: its handler of SIGTERM is not run, and the supervisor   *)
(* that would kill it was stopped before.                                  *)
ShutdownEnds ==
  \/ []<>(main \notin {"closing", "joining"})
  \/ <>[](\E s \in Slots : worker[s] = "native" /\ heir[s])

(* A change of the watched file after the first check gets published, if   *)
(* the delegate works (watchfiles.py:30-58, processingexecutor.py:92-104). *)
(* A change before the first check is never noticed.                       *)
ChangesAreReloaded ==
  (main = "ready" /\ seen # 0 /\ seen # disk) ~>
    (published = ListOf(disk) \/ main # "ready" \/ ~Undisturbed)
===============================================================================
