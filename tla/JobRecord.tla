------------------------------ MODULE JobRecord ------------------------------
(***************************************************************************)
(* The life of a job in the log store: executors/processingexecutor.py,    *)
(* executors/logstore.py, WPSResponse.update_status (app/request.py) and   *)
(* the dismissal of ogc/api/request.py.                                    *)
(*                                                                         *)
(* A job has a record and a response document in Redis and a working       *)
(* directory.  Two processes write them: the server, one thread, and the   *)
(* worker that runs the job.  An update is three commands, and nothing is  *)
(* locked: the document is written, the record read, the record written.   *)
(* Each command is a step of its own here, the server's other steps wait   *)
(* for its commands, and the worker's do not.                              *)
(*                                                                         *)
(* Time is relative, as in Supervisor: ticks add to ages that are no       *)
(* longer counted past a cap.  The pool is seen from the outside: a        *)
(* request is refused, waits for a worker, then for its reply (PoolServer  *)
(* has the rest).                                                          *)
(***************************************************************************)
EXTENDS Integers, FiniteSets

CONSTANTS
  Jobs,            \* job uuids
  None,            \* no record, no command under way
  Timeout,         \* timeout of the requests, in ticks
  ServerTimeout,   \* response_timeout, after which the supervisor kills
  Expiration,      \* expiration of the responses
  Skew,            \* what the cleanup adds to ages: minus the UTC offset
  MaxAge,          \* cap of the ages
  MaxDeaths,       \* bound: workers that die by themselves
  MaxServerStops,  \* bound: restarts of the whole service
  MaxDismissals    \* bound: dismissals and deletions asked by clients

ASSUME BoundsAssumption ==
  /\ Timeout \in Nat \ {0} /\ Expiration \in Nat \ {0} /\ Skew \in Int
  /\ ServerTimeout \in Nat /\ ServerTimeout >= Timeout
  /\ MaxAge \in Nat /\ MaxAge + Skew >= Timeout /\ MaxAge + Skew >= Expiration
  /\ MaxAge >= ServerTimeout
  /\ MaxDeaths \in Nat /\ MaxServerStops \in Nat /\ MaxDismissals \in Nat

VARIABLES
  record,    \* record[u]: status, whether it has a pid, age of its timestamp
  document,  \* document[u]: the status the response document tells
  workdir,   \* whether the working directory exists
  client,    \* client[u]: where the request is in `execute`
  async,     \* execute_async
  wait,      \* time spent in the present wait of the client
  worker,    \* worker[u]: where the job is in `_run_process`
  ran,       \* time since the worker took it
  update,    \* update[p][u]: the update_status under way in process p
  removal,   \* removal[u]: the deletion under way in the server
  deleted,   \* a deletion was asked or decided (history)
  dismissed, \* a dismissal began and has not failed (history)
  deaths, stops, dismissals  \* counters of the bounds

store    == <<record, document, workdir>>
clientVars == <<client, async, wait>>
workVars == <<worker, ran>>
history  == <<deleted, dismissed>>
counters == <<deaths, stops, dismissals>>
vars == <<store, clientVars, workVars, update, removal, history, counters>>

(* STATUS: the members the code sets, with their values. *)
Value == [NO_STATUS |-> 0, ACCEPTED |-> 21, STARTED |-> 25, DONE |-> 30, ERROR |-> 40]
Status == DOMAIN Value
Final(s) == Value[s] >= Value["DONE"]

Record == [status : Status, pid : BOOLEAN, age : 0 .. MaxAge]
Update ==
  [status : Status, step : {"document", "read"}, saved : {None}]
    \cup [status : Status, step : {"write"}, saved : Record]
Processes == {"server", "worker"}

ASSUME NoneAssumption == None \notin Record \cup Update

Waiting == {"waiting", "sent"}
Alive   == {"inbox", "starting", "running", "finishing", "failing"}

TypeOK ==
  /\ record \in [Jobs -> Record \cup {None}]
  /\ document \in [Jobs -> Status \cup {None}]
  /\ workdir \in [Jobs -> BOOLEAN]
  /\ client \in [Jobs -> {"new", "opened", "waiting", "sent", "ok", "error", "timeout"}]
  /\ async \in [Jobs -> BOOLEAN]
  /\ wait \in [Jobs -> 0 .. Timeout]
  /\ worker \in [Jobs -> Alive \cup {"none", "done", "failed", "killed"}]
  /\ ran \in [Jobs -> 0 .. ServerTimeout]
  /\ update \in [Processes -> [Jobs -> Update \cup {None}]]
  /\ removal \in [Jobs -> {"none", "kill", "workdir", "record"}]
  /\ deleted \in [Jobs -> BOOLEAN] /\ dismissed \in [Jobs -> BOOLEAN]
  /\ deaths \in Nat /\ stops \in Nat /\ dismissals \in Nat

Init ==
  /\ record = [u \in Jobs |-> None]
  /\ document = [u \in Jobs |-> None]
  /\ workdir = [u \in Jobs |-> FALSE]
  /\ client = [u \in Jobs |-> "new"]
  /\ async = [u \in Jobs |-> FALSE]
  /\ wait = [u \in Jobs |-> 0]
  /\ worker = [u \in Jobs |-> "none"]
  /\ ran = [u \in Jobs |-> 0]
  /\ update = [p \in Processes |-> [u \in Jobs |-> None]]
  /\ removal = [u \in Jobs |-> "none"]
  /\ deleted = [u \in Jobs |-> FALSE]
  /\ dismissed = [u \in Jobs |-> FALSE]
  /\ deaths = 0 /\ stops = 0 /\ dismissals = 0

-------------------------------------------------------------------------------
(* update_status, in either process                                        *)

Begin(p, u, s) ==
  update' = [update EXCEPT ![p][u] = [status |-> s, step |-> "document", saved |-> None]]

(* write_response *)
WriteDocument(p, u) ==
  /\ update[p][u] # None
  /\ update[p][u].step = "document"
  /\ document' = [document EXCEPT ![u] = update[p][u].status]
  /\ update' = [update EXCEPT ![p][u].step = "read"]
  /\ UNCHANGED <<record, workdir, clientVars, workVars, removal, history, counters>>

(* What log_request writes: no pid, and no timestamp. *)
Logged == [status |-> "NO_STATUS", pid |-> FALSE, age |-> 0]

(* Mutant: a record that is not there is not made again. *)
ReadRecordOnly(p, u) ==
  /\ update[p][u] # None
  /\ update[p][u].step = "read"
  /\ update' = [update EXCEPT ![p][u].step = "write", ![p][u].saved = record[u]]
  /\ UNCHANGED <<store, clientVars, workVars, removal, history, counters>>

(* hget; where there is no record, log_request makes one, and its write    *)
(* and this read are taken for one command.                                *)
ReadRecord(p, u) ==
  LET found == IF record[u] = None THEN Logged ELSE record[u] IN
  /\ update[p][u] # None
  /\ update[p][u].step = "read"
  /\ record' = [record EXCEPT ![u] = found]
  /\ update' = [update EXCEPT ![p][u].step = "write", ![p][u].saved = found]
  /\ UNCHANGED <<document, workdir, clientVars, workVars, removal, history, counters>>

(* Mutant: the pid stays in the record of a finished job. *)
UpdatedKeepsPid(saved, s) ==
  [status |-> s,
   pid    |-> saved.pid \/ (s = "STARTED" /\ Value[saved.status] < Value["STARTED"]),
   age    |-> 0]

(* Mutant: the timestamp stays that of the record read. *)
UpdatedKeepsStamp(saved, s) ==
  [status |-> s,
   pid    |-> ~Final(s) /\ (saved.pid \/ s = "STARTED"),
   age    |-> saved.age]

(* The record written from the one read. The pid is that of the worker     *)
(* that tells STARTED, unless the record was further already.              *)
Updated(saved, s) ==
  [status |-> s,
   pid    |-> \/ s = "STARTED" /\ Value[saved.status] < Value["STARTED"]
              \/ saved.pid /\ ~Final(s),
   age    |-> 0]

(* hset *)
WriteRecord(p, u) ==
  /\ update[p][u] # None
  /\ update[p][u].step = "write"
  /\ record' = [record EXCEPT ![u] = Updated(update[p][u].saved, update[p][u].status)]
  /\ update' = [update EXCEPT ![p][u] = None]
  /\ UNCHANGED <<document, workdir, clientVars, workVars, removal, history, counters>>

-------------------------------------------------------------------------------
(* The server: execute.  Its one thread does nothing else while it         *)
(* registers a request, updates a status or deletes results.               *)

ServerFree ==
  \A u \in Jobs : /\ client[u] # "opened"
                  /\ update["server"][u] = None
                  /\ removal[u] = "none"

(* execute_process: makedirs *)
Submit(u) ==
  /\ ServerFree
  /\ client[u] = "new"
  /\ client' = [client EXCEPT ![u] = "opened"]
  /\ \E b \in BOOLEAN : async' = [async EXCEPT ![u] = b]
  /\ workdir' = [workdir EXCEPT ![u] = TRUE]
  /\ UNCHANGED <<record, document, wait, workVars, update, removal, history, counters>>

(* log_request, then 'Task accepted'.  The coroutine of apply_async has    *)
(* not begun yet.                                                          *)
LogRequest(u) ==
  /\ client[u] = "opened"
  /\ client' = [client EXCEPT ![u] = "waiting"]
  /\ wait' = [wait EXCEPT ![u] = 0]
  /\ record' = [record EXCEPT ![u] = Logged]
  /\ Begin("server", u, "ACCEPTED")
  /\ UNCHANGED <<document, workdir, async, workVars, removal, history, counters>>

(* A failure of the pool is written in the record of an asynchronous job   *)
(* only; a synchronous one leaves it to the client.                        *)
Failure(u) ==
  /\ client' = [client EXCEPT ![u] = "error"]
  /\ IF async[u] THEN Begin("server", u, "ERROR") ELSE UNCHANGED update

(* MaxRequestsExceeded, RequestGatewayError *)
Refuse(u) ==
  /\ ServerFree
  /\ client[u] = "waiting"
  /\ Failure(u)
  /\ UNCHANGED <<store, async, wait, workVars, removal, history, counters>>

(* Mutant: the request is sent before 'Task accepted' is written. *)
DispatchFirst(u) ==
  /\ client[u] = "waiting"
  /\ client' = [client EXCEPT ![u] = "sent"]
  /\ wait' = [wait EXCEPT ![u] = 0]
  /\ worker' = [worker EXCEPT ![u] = "inbox"]
  /\ UNCHANGED <<store, async, ran, update, removal, history, counters>>

(* A worker was found; the wait for the reply has its own timeout. *)
Dispatch(u) ==
  /\ ServerFree
  /\ client[u] = "waiting"
  /\ client' = [client EXCEPT ![u] = "sent"]
  /\ wait' = [wait EXCEPT ![u] = 0]
  /\ worker' = [worker EXCEPT ![u] = "inbox"]
  /\ UNCHANGED <<store, async, ran, update, removal, history, counters>>

(* asyncio.TimeoutError: the worker is left alone. *)
TimeOut(u) ==
  /\ ServerFree
  /\ client[u] \in Waiting
  /\ wait[u] = Timeout
  /\ client' = [client EXCEPT ![u] = "timeout"]
  /\ Begin("server", u, "ERROR")
  /\ UNCHANGED <<store, async, wait, workVars, removal, history, counters>>

Reply(u) ==
  /\ ServerFree
  /\ client[u] = "sent"
  /\ \/ /\ worker[u] = "done"
        /\ client' = [client EXCEPT ![u] = "ok"]
        /\ UNCHANGED update
     \/ worker[u] = "failed" /\ Failure(u)
  /\ UNCHANGED <<store, async, wait, workVars, removal, history, counters>>

-------------------------------------------------------------------------------
(* The server: deletions                                                   *)

(* get_ogcapi_job_dismiss: the record is read. *)
Dismiss(u) ==
  /\ ServerFree
  /\ dismissals < MaxDismissals
  /\ record[u] # None
  /\ dismissals' = dismissals + 1
  /\ dismissed' = [dismissed EXCEPT ![u] = TRUE]
  /\ removal' = [removal EXCEPT ![u] =
       IF ~Final(record[u].status) /\ record[u].pid THEN "kill" ELSE "workdir"]
  /\ deleted' = [deleted EXCEPT ![u] = TRUE]
  /\ UNCHANGED <<store, clientVars, workVars, update, deaths, stops>>

(* delete_results of the status handler: finished jobs only. *)
DeleteResults(u) ==
  /\ ServerFree
  /\ dismissals < MaxDismissals
  /\ record[u] # None
  /\ Final(record[u].status)
  /\ dismissals' = dismissals + 1
  /\ removal' = [removal EXCEPT ![u] = "workdir"]
  /\ deleted' = [deleted EXCEPT ![u] = TRUE]
  /\ UNCHANGED <<store, clientVars, workVars, update, dismissed, deaths, stops>>

(* The worker process dies, in the middle of an update if there is one. *)
Killed(u) ==
  /\ worker' = [worker EXCEPT ![u] = "killed"]
  /\ update' = [update EXCEPT !["worker"][u] = None]

(* kill_worker_busy: the supervisor may not know yet that the worker is    *)
(* busy.  It may not know that the worker died either: os.kill then        *)
(* raises, the dismissal is answered 500 and deletes nothing.  (That the   *)
(* pid may run another job by now is left to Supervisor.)                  *)
Kill(u) ==
  /\ removal[u] = "kill"
  /\ \/ /\ worker[u] \in Alive \ {"inbox"}
        /\ Killed(u)
        /\ removal' = [removal EXCEPT ![u] = "workdir"]
        /\ UNCHANGED dismissed
     \/ /\ removal' = [removal EXCEPT ![u] = "workdir"]
        /\ UNCHANGED <<worker, update, dismissed>>
     \/ /\ worker[u] = "killed"
        /\ removal' = [removal EXCEPT ![u] = "none"]
        /\ dismissed' = [dismissed EXCEPT ![u] = FALSE]
        /\ UNCHANGED <<worker, update>>
  /\ UNCHANGED <<store, clientVars, ran, deleted, counters>>

RemoveWorkdir(u) ==
  /\ removal[u] = "workdir"
  /\ removal' = [removal EXCEPT ![u] = "record"]
  /\ workdir' = [workdir EXCEPT ![u] = FALSE]
  /\ UNCHANGED <<record, document, clientVars, workVars, update, history, counters>>

(* delete_response: a pipeline, one transaction. *)
DeleteRecord(u) ==
  /\ removal[u] = "record"
  /\ removal' = [removal EXCEPT ![u] = "none"]
  /\ record' = [record EXCEPT ![u] = None]
  /\ document' = [document EXCEPT ![u] = None]
  /\ UNCHANGED <<workdir, clientVars, workVars, update, history, counters>>

(* Mutant: dangling jobs are not looked for. *)
ExpiredFinished(r) == Final(r.status) /\ r.age + Skew >= Expiration

(* A record without a timestamp, an unfinished one older than the timeout  *)
(* of its request, a finished one older than its expiration.  Ages are     *)
(* wrong by the UTC offset: the clock is read as if it were local time.    *)
Expired(r) ==
  \/ r.status = "NO_STATUS"
  \/ r.age + Skew >= IF Final(r.status) THEN Expiration ELSE Timeout

(* _clean_processes: the records are listed, and those that have expired   *)
(* are deleted whatever they have become.                                  *)
Clean ==
  LET doomed == {u \in Jobs : record[u] # None /\ Expired(record[u])} IN
  /\ ServerFree
  /\ doomed # {}
  /\ removal' = [u \in Jobs |-> IF u \in doomed THEN "workdir" ELSE removal[u]]
  /\ deleted' = [u \in Jobs |-> deleted[u] \/ u \in doomed]
  /\ UNCHANGED <<store, clientVars, workVars, update, dismissed, counters>>

-------------------------------------------------------------------------------
(* The worker: _run_process                                                *)

WorkerIdle(u) == update["worker"][u] = None

(* chdir to the working directory, then 'Task started'. *)
TakeJob(u) ==
  /\ worker[u] = "inbox"
  /\ ran' = [ran EXCEPT ![u] = 0]
  /\ IF workdir[u]
     THEN worker' = [worker EXCEPT ![u] = "starting"] /\ Begin("worker", u, "STARTED")
     ELSE worker' = [worker EXCEPT ![u] = "failing"] /\ Begin("worker", u, "ERROR")
  /\ UNCHANGED <<store, clientVars, removal, history, counters>>

Started(u) ==
  /\ worker[u] = "starting"
  /\ WorkerIdle(u)
  /\ worker' = [worker EXCEPT ![u] = "running"]
  /\ UNCHANGED <<store, clientVars, ran, update, removal, history, counters>>

(* The handler tells its progress. *)
Progress(u) ==
  /\ worker[u] = "running"
  /\ WorkerIdle(u)
  /\ Begin("worker", u, "STARTED")
  /\ UNCHANGED <<store, clientVars, workVars, removal, history, counters>>

(* 'Task finished', or the handler raised. *)
HandlerEnds(u) ==
  /\ worker[u] = "running"
  /\ WorkerIdle(u)
  /\ \/ worker' = [worker EXCEPT ![u] = "finishing"] /\ Begin("worker", u, "DONE")
     \/ worker' = [worker EXCEPT ![u] = "failing"] /\ Begin("worker", u, "ERROR")
  /\ UNCHANGED <<store, clientVars, ran, removal, history, counters>>

(* Mutant: the reply is sent before the status is written. *)
FinishEarly(u) ==
  /\ \/ worker[u] = "finishing" /\ worker' = [worker EXCEPT ![u] = "done"]
     \/ worker[u] = "failing" /\ worker' = [worker EXCEPT ![u] = "failed"]
  /\ UNCHANGED <<store, clientVars, ran, update, removal, history, counters>>

(* The reply is sent. *)
Finish(u) ==
  /\ WorkerIdle(u)
  /\ \/ worker[u] = "finishing" /\ worker' = [worker EXCEPT ![u] = "done"]
     \/ worker[u] = "failing" /\ worker' = [worker EXCEPT ![u] = "failed"]
  /\ UNCHANGED <<store, clientVars, ran, update, removal, history, counters>>

(* The supervisor, at the timeout of the server. *)
KillStalled(u) ==
  /\ worker[u] \in Alive \ {"inbox"}
  /\ ran[u] = ServerTimeout
  /\ Killed(u)
  /\ UNCHANGED <<store, clientVars, ran, removal, history, counters>>

WorkerDies(u) ==
  /\ deaths < MaxDeaths
  /\ worker[u] \in Alive
  /\ deaths' = deaths + 1
  /\ Killed(u)
  /\ UNCHANGED <<store, clientVars, ran, removal, history, stops, dismissals>>

(* The service is restarted: what is in Redis and on disk stays. *)
ServerStops ==
  /\ stops < MaxServerStops
  /\ stops' = stops + 1
  /\ client' = [u \in Jobs |-> IF client[u] \in Waiting \cup {"opened"}
                               THEN "error" ELSE client[u]]
  /\ worker' = [u \in Jobs |-> IF worker[u] \in Alive THEN "killed" ELSE worker[u]]
  /\ update' = [p \in Processes |-> [u \in Jobs |-> None]]
  /\ removal' = [u \in Jobs |-> "none"]
  /\ dismissed' = [u \in Jobs |-> dismissed[u] /\ removal[u] = "none"]
  /\ UNCHANGED <<store, async, wait, ran, deleted, deaths, dismissals>>

UpTo(n, cap) == IF n < cap THEN n + 1 ELSE n

Tick ==
  /\ wait' = [u \in Jobs |-> UpTo(wait[u], Timeout)]
  /\ ran' = [u \in Jobs |-> UpTo(ran[u], ServerTimeout)]
  /\ record' = [u \in Jobs |-> IF record[u] = None THEN None
                               ELSE [record[u] EXCEPT !.age = UpTo(@, MaxAge)]]
  /\ UNCHANGED <<document, workdir, client, async, worker, update, removal,
                 history, counters>>

-------------------------------------------------------------------------------
Command(p, u) == WriteDocument(p, u) \/ ReadRecord(p, u) \/ WriteRecord(p, u)
Delete(u)     == Kill(u) \/ RemoveWorkdir(u) \/ DeleteRecord(u)
Work(u)       == TakeJob(u) \/ Started(u) \/ Finish(u)

Next ==
  \/ \E u \in Jobs :
       \/ \E p \in Processes : Command(p, u)
       \/ Submit(u) \/ LogRequest(u) \/ Refuse(u) \/ Dispatch(u) \/ TimeOut(u) \/ Reply(u)
       \/ Dismiss(u) \/ DeleteResults(u) \/ Delete(u)
       \/ Work(u) \/ Progress(u) \/ HandlerEnds(u) \/ KillStalled(u) \/ WorkerDies(u)
  \/ Clean
  \/ ServerStops
  \/ Tick

Spec == Init /\ [][Next]_vars

(* Both processes go on, timers fire, the cleanup runs at its interval and *)
(* the supervisor kills; handlers need not end.                            *)
Fairness ==
  /\ \A u \in Jobs :
       /\ \A p \in Processes : WF_vars(Command(p, u))
       /\ WF_vars(LogRequest(u)) /\ WF_vars(TimeOut(u)) /\ WF_vars(Delete(u))
       /\ WF_vars(Work(u)) /\ WF_vars(KillStalled(u))
  /\ WF_vars(Clean)
  /\ WF_vars(Tick)

FairSpec == Spec /\ Fairness

-------------------------------------------------------------------------------
(* Properties                                                              *)

(* A job whose worker answered, whose client did not give up and that      *)
(* neither a client nor the cleanup deleted has the outcome in its record  *)
(* and in its document, and has its results: the commands of the two       *)
(* processes, interleaved in any way, lose nothing.                        *)
OutcomeRecorded ==
  \A u \in Jobs :
    (/\ worker[u] \in {"done", "failed"}
     /\ client[u] # "timeout" /\ ~deleted[u]
     /\ update["server"][u] = None) =>
       LET s == IF worker[u] = "done" THEN "DONE" ELSE "ERROR" IN
       /\ record[u] # None /\ record[u].status = s
       /\ document[u] = s
       /\ workdir[u]

(* Until its client gives up or a deletion of it begins, the status of a   *)
(* job only goes forward.  (After a timeout ERROR is replaced by what the  *)
(* worker tells: processingexecutor.py:315.)                               *)
StatusForward ==
  [][ \A u \in Jobs :
        (record[u] # None /\ record'[u] # None /\ client[u] # "timeout" /\ ~deleted[u])
          => Value[record'[u].status] >= Value[record[u].status] ]_vars

(* A pid is in the record of a started job only, and its worker has not    *)
(* finished that job: the process a dismissal kills is not at another job, *)
(* but for the time a DONE takes to the supervisor.                        *)
PidIsCurrent ==
  \A u \in Jobs :
    record[u] # None /\ record[u].pid =>
      record[u].status = "STARTED" /\ worker[u] \notin {"none", "inbox", "done", "failed"}

(* With a clock in UTC, or east of it, the cleanup takes no job in STARTED  *)
(* that was sent and whose client still waits for it with time left.       *)
CleanupSparesStarted ==
  [][ \A u \in Jobs :
        (/\ Clean /\ removal'[u] = "workdir"
         /\ record[u].status = "STARTED" /\ client[u] = "sent")
          => wait[u] = Timeout ]_vars

(* Whatever happens, record and directory of a job both go in the end:     *)
(* refused, forgotten, killed, dismissed and finished jobs, and those of a *)
(* service that was restarted.                                             *)
RecordsExpire ==
  \A u \in Jobs : (record[u] # None) ~> (record[u] = None /\ ~workdir[u])

-------------------------------------------------------------------------------
(* What the repository says and the code does not do: see the README.      *)

(* A dismissed job stays dismissed.                                        *)
DismissedStaysGone ==
  \A u \in Jobs : dismissed[u] /\ removal[u] = "none" => record[u] = None
===============================================================================
