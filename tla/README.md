# TLA+ models of py-qgis-wps

py-qgis-wps is a WPS / OGC API Processes server for QGIS algorithms: an asyncio HTTP
server, a pool of worker processes behind ZeroMQ sockets, and a Redis store of job
records. This directory models its control as TLA+ modules, checks them with TLC and
proves part of what is checked with TLAPS. Paths are relative to `src/pyqgiswps` unless
they begin with another directory.

## 1. Inventory

| Component | Code | State | Operations | What is hard, what must hold |
|---|---|---|---|---|
| Pool client | `poolserver/client.py` | `_handlers`, `_worker_q`, `_worker_s`, ROUTER socket | `apply_async`, `_get_worker`, `_poll`, `close` | many tasks on one loop, timeouts that race answers: one outcome by request, no leaked handler, no worker lost or given twice |
| Workers | `poolserver/worker.py` | the loop, `completed`, DEALER and SUB sockets | READY, run, reply, heartbeat, end of life, RESTART | a process may die anywhere: no job run twice, restart obeyed |
| Pool process, server | `poolserver/pool.py`, `server.py` | `_pool`, PUB socket | reap and replace, broadcast, terminate | the pool comes back to its size; early failures abort the service |
| Supervisor | `poolserver/supervisor.py` | `_busy`: pid -> timer | BUSY, DONE, timer, `kill_worker_busy`, `stop` | stale pids and timers, lost notifications: kill what stalls and nothing else |
| Executor | `executors/processingexecutor.py` | tasks, reload handler | `execute`, `_run_process`, `kill_job`, `delete_results`, `_clean_processes` | two processes write one record; cleanup and dismissal race both |
| Log store | `executors/logstore.py`, `app/request.py` | Redis: records, requests, documents | `log_request`, `update_response`, `delete_response` | read and write are separate commands |
| Dismissal | `ogc/api/request.py`, `handlers/statushandler.py` | none | dismiss, delete | what is dismissed may still be running |
| Process factory | `executors/processfactory.py` | one queue, a delegate process, its loader | initialize, reload, contextualized processes | both sides read and write the same queue; a load may fail or die |
| Reload monitor | `pyqgisservercontrib/core/watchfiles.py` | modification times | check, callback | a change during a reload must lead to another one |
| Runtime | `runtime.py`, `wpsserver.py` | the application, the processes it started, signals | start, stop | order of start and of shutdown, whatever state a signal finds |
| Access policy | `accesspolicy.py` | allow and deny rules | `permitted` | the order of rules of several origins |
| Middleware, filters | `middleware.py`, `pyqgisservercontrib/core/filters.py`, `componentmanager.py`, `lizmapacl` | chain of filters, rules of Lizmap, arguments of the routes | `find_handler`, reload of rules | which filter wins, and that its rules are used for this request only |
| Request parameters | `handlers/processeshandler.py`, `ogc/*/request.py` | none | preferences, timeout, expiration | bounds and defaults in two protocols |
| HTTP handlers | `handlers/`, `runtime.py` | none of their own | routes of both protocols, jobs, files | realms, statuses, what a refused request leaves |
| Stored results | `handlers/storehandler.py`, `utils/lru.py` | tokens | list, file, log, token, deletion | who may read which file, and when |
| Input validation | `app/service.py`, `ogc/*/inputs.py`, `inout/`, `validator/` | none | parse in three encodings, convert, validate | boundaries; the published schema and the validation are two pieces of code |
| QGIS binding | `executors/processingio.py`, `executors/io/`, `processingprocess.py` | the context of a job | describe, convert, run, collect | projects shared by the jobs of a worker; layers that do not load |
| Project cache | `qgscache/`, `utils/lru.py` | projects by MAP, least recently used first | lookup, refresh | entries older than their file |
| Contextualized processes | `executors/processingexecutor.py` | descriptions by MAP and identifier | `get_processes` | older than the project, mixed |
| Everything else | configuration, plugins, logging, layout of documents, HTML, docker | | | formatting, third-party code or start-up settings |

How they interact. A request reaches `Service.execute_process`, which creates the working
directory and calls `execute`: the record is logged in Redis, the call pickled and given
to the pool client. The client waits for a worker, sends the request and waits for the
reply. The worker tells the supervisor that it is BUSY, writes the status of the job in
Redis itself, replies and tells DONE. The supervisor lives in the server and kills by pid;
the pool process notices the death and starts another worker. Clients of the API read,
dismiss and delete records; a periodic cleanup deletes the expired ones. A change of a
watched file reloads the processes through the factory and restarts the workers.

Before any of that a request passes the filters, which may refuse it, rewrite its path and
give it a policy, then its handler, which reads its parameters and its inputs. With a MAP,
the algorithms are described for that project by the loader of the factory while the server
waits; the descriptions stay in the server. The worker opens the project again, from a
cache of its own, and makes of the validated inputs the parameters of the algorithm.

The hazards of this code are listed at their lines in `PROJECT.json`; the properties below
were chosen from that list.

## 2. Modules

| Module | What it is |
|---|---|
| `RequestService` | what `apply_async` promises its callers: an outcome at most once, an answer only of a job that was started |
| `PoolServer` | client, workers, sockets, pool process; implements `RequestService` |
| `PoolServer_proofs` | theorems about `PoolServer` |
| `Supervisor` | worker processes, their notifications, the table of timers, dismissals |
| `JobRecord` | records, documents and working directories, written by server and worker, command by command |
| `Supervisor_proofs` | theorems about `Supervisor` |
| `JobRecord_proofs` | theorems about `JobRecord` |
| `FactoryDelegate` | the queue that server, delegate and loader share, with its lock and feeder threads |
| `ServiceLifecycle` | extends `FactoryDelegate` with the server's start, signals and end, the pool and its workers, the reload monitor |
| `ServiceLifecycle_proofs` | theorems about both |
| `AccessControl` | policies, filters, rules of Lizmap, the middleware |
| `RequestParsing` | extends `AccessControl` with the parameters of requests and the order of their checks |
| `HttpService` | extends `RequestParsing` with the handlers and what they share |
| `HttpService_proofs` | theorems about the three |
| `InputValidation` | from the inputs of a client to validated values, and the schema published for them |
| `QgsBinding` | extends it with the description of algorithms |
| `AlgorithmRun` | extends that with conversion, results and documents of a job |
| `ProjectCache` | the LRU, the resolution of a MAP, the file handler |
| `Execution` | composes `AlgorithmRun` and `ProjectCache` with the server, its loader and its workers |
| `Execution_proofs` | theorems about the caches and the versions of `ProjectCache` and `Execution` |
| `ExecutionValues_proofs` | theorems about the values and documents of jobs, through `InputValidation`, `QgsBinding` and `AlgorithmRun` |
| `FoldLemmas` | lemmas about recursive functions, which two of the proof modules use |
| `MCPoolServer`, `MCSupervisor`, `MCJobRecord`, `MCHttpService`, `MCExecution` | instances for TLC: symmetry sets, or clients, rules, requests, projects and algorithms |

Operators whose comment says "Mutant:" are faulty variants of the definition that follows
them. No specification uses them; each was put in the place of the right definition to see
that a property notices.

### PoolServer
An action of the client is the code between two suspension points of one of its tasks:
`Submit` (the check of `maxqueue`), `PopWorker` (the `get` of the queue, a task of its own
under `wait_for`), `Retry`, `Dispatch` and `Unreachable` (from the `remove` of `_worker_s`
to the wait for the reply), the two timeouts, and `PollReady`, `PollDone`, `PollReply` for
a message each. Those of a worker follow its loop: `SendReady`, `Receive` or `Heartbeat`,
`Finish`, `SeeRestart`, `EndOfLife`. `_worker_s` is a list that `_put_worker` keeps free of
duplicates, and is a set here. A worker process is a member of `Workers` used once: its
socket identity is a new uuid. `toClient[w]` is bounded by `ChanCap`, because the code's
sockets are (SNDHWM 1); a send that finds it full waits, as the code does.

`Crash` drops any suffix of what the worker has not flushed. ZeroMQ is otherwise assumed
to deliver in order by pair; `PeerGone` is the moment the ROUTER notices a disconnection.

### Supervisor
`busy` is `_busy`, `armed` the timers of the event loop. They are two variables because the
code lets them differ: a BUSY overwrites an entry and leaves its timer, and a dismissal
removes an entry and leaves its timer. A timer bears the number of the job it was armed for,
a history the code has not. `DismissRead` and `KillWorkerBusy` are the two ends of
`get_ogcapi_job_dismiss`; between them the server does nothing else and workers go on.
`MaxLost` notifications never arrive (EAGAIN is ignored), and with `PidReuse` the system
gives pids again.

Time is relative: `Tick` takes one from what is left of every timer and adds one to the age
of every job, up to a cap at which no guard can tell more. No bound on the clock is needed,
and timers may be late by any time.

### JobRecord
`update_status` is three actions, `WriteDocument`, `ReadRecord`, `WriteRecord`, taken by the
process `p` that updates; they interleave with those of the other process. The server is
one thread: `ServerFree` guards the beginning of its operations, which otherwise suspend
only between the steps of the model. `Dismiss`, `DeleteResults` and `Clean` decide, then
`Kill`, `RemoveWorkdir` and `DeleteRecord` carry out. `Skew` is minus the UTC offset in
ticks: `_clean_processes` computes ages from a naive UTC time that it reads as local time.
`Kill` has three outcomes: the worker dies of it; nothing is killed, since the supervisor has
no entry; or `os.kill` raises because the worker is dead already, the dismissal is answered
500 and nothing is deleted (`poolserver/supervisor.py:96-99`).
The pool appears as its outcomes: refused, dispatched, answered, timed out; a wait that
`_get_worker` starts again after a retry is not distinguished from the first.
Where the record is missing, `update_response` calls `log_request`; its write and the read
before it are one action, since the write that follows replaces the whole record. Pinning is
not modelled: `pin_response` looks up `str(uuid)`, the module and not the job
(`logstore.py:143`), and so finds nothing; nothing calls it.

### FactoryDelegate and ServiceLifecycle
The three processes of the factory put to and get from one pipe. A `put` is two steps, as in
`multiprocessing`: the item enters the buffer of the process (`out`), its feeder writes it to
`pipe` (`Flush`). A `get` is a place in `line`, then `Acquire` of the reader lock, then the
head of the pipe; `lock` is "lost" if its holder was killed. The actions of the loader follow
`task` (`Load`, `LoaderAsks`, the three kinds of item it may get, `LoaderWorks`,
`LoaderExits`), those of the delegate its loop over `join`. `call` is what the server, which
blocks, waits for. The histories `raced` and `Undisturbed` tell the runs of the program in
which nobody overtook another and nothing failed, of which `AnswersMatch` speaks.

`main` follows `run_server`, `pool` the pool process, `worker`, `wver` and `told` its places.
`Reload` and `Reloaded` are the callback of the monitor; `seen` its modification time. The end
of the pool process is `TerminateWorkers`, which sends SIGTERM, `WorkerStops` for each worker
that heeds it, and `JoinWorkers`. The first workers are forked before the pool process sets its
handlers and die of the signal at once; a worker that replaced another (`heir`) inherited a
Python handler, which runs when the process is back in Python code, and not while a job is in
native code (`native`). No supervisor is left to kill such a job: `_Server.terminate` stops it
first. The join may then hold for ever, and `ShutdownEnds` says that nothing else may hold the
shutdown. `WorkerLoads` takes the subscription of a worker as made when its initializer has
read the providers: its SUB socket connects before (`poolserver/worker.py:63-70`), and a worker
that starts during a broadcast may or may not get it. What the model shows beside the
properties: a change of the watched file before the first check is never noticed; a loader
killed while it holds the reader lock blocks the event loop for ever, which `CallReturns` must
except; a SIGTERM before the pool process has installed its handlers leaves its workers
(`hasty`); a worker that fails within the first seconds of the pool, a dismissal's kill
included, aborts the service.

### AccessControl, RequestParsing, HttpService
A glob pattern is the set of the identifiers it matches, a filter is a record with the paths
it matches; `Filtered` runs them in the order of their priorities, as a recursive function
of their place. `Install` is what
`find_handler` does to the arguments of the route. `RequestParsing` has an operator for each
group of checks; `a ?? b` is the first error of the two. `HttpService` has a variable for
each thing that requests share, and one action for each operation, chosen by the kind and
the operation of the request. A handler is one step, except that a synchronous execution
waits (`waiting`) until its job replies or its timer fires, while other requests go on; the
steps of jobs are those of `JobRecord` seen from the store. `answer` records what the last
request was told: the properties compare it with who asked. Inputs are "valid", "refused" or
"fatal" in this composition, and the token of a download is the pair it stands for.

### InputValidation, QgsBinding, AlgorithmRun
Operators without state. A datum is a record with a type, numbers are counted in halves so
that some have a fraction, and texts are members of small sets. A verdict is "ok", "invalid"
(400) or "fatal" (an exception that no handler expects, 500). What the code filters and keeps
in order, such as the items of one input or the parameters that are described, is a function
of the places that stay: its least place is its first element (`FirstOf`), and the first
verdict that is not good is what a request is answered (`FirstBad`). `FromKvp`, `FromXml` and
`FromJson` are the readers of the three encodings, `Convert` the literal types, `Allowed` the
allowed values, `ValidateRequest` the loop of `Service`. `InSchema` is written from
`ogcapi_schema`, which is separate code. `InputsOf` describes the parameters of an algorithm,
a record as QGIS gives it; `ConvertAll`, `OutputDocument` and `PublishedLayers` are the
worker's side. Only a source of features
takes a selection: a plain layer parameter ignores what its input says of features
(`executors/io/layersio.py:411-422`). What QGIS does is external and enumerated where it
matters: whether a layer loads, the mime type of a file, an algorithm that raises.

### ProjectCache and Execution
A cache is a sequence of entries, the least recently used first. `Put`, `Touched` and
`Fitted` are the LRU, `ResolveAlias` and `LookupError` the path from a MAP to a file, and
`Outdated` and `Entry` the file handler, which keeps the time asked *before* it reads. The
server keeps descriptions (`ctx`), and is blocked from `Receive` to `LoaderAnswers`; each
parameter that depends on the project is a lookup of its own (`LoaderStats`, `LoaderReads`),
so that a file saved meanwhile gives a description made of two versions. `Lookups` are the
places of these parameters, the lowest first (`NotAfter`), and a `Question` is what the
loader still has to find; `UsedCtx` and `PutCtx` go through the identifiers of a request one
by one. A job is
`StartJob`, `ReadProject`, `ConvertInputs`, `RunAlgorithm`, `Finish` in a worker with a cache
of its own, and `Save` and `Vanish` change files between any two of them. `seen` is a history
of each file: whether its content has a time above all earlier ones. Without that a copy that
keeps the time of its original is not noticed, which is what the floor in
`JobsUseCurrentProject` excepts. Descriptions of an edited project stay until a reload that
succeeds. When two sources of one request select features of the same layer the last one
wins for both, which is why `SelectionIsOwn` speaks of *a* source parameter of the request.
A plain layer parameter of that request selects nothing, whatever its input says, and reads
the whole layer.


## 3. Runs

| Run | Instance | Properties | Shows |
|---|---|---|---|
| `pool_safety` | 2 requests, 2 workers of one job each, 1 crash, 1 RESTART | `TypeOK`, `WorkerListOK`, `OnePlace`, `HandlersArePending`, `Promise` | lists agree, no handler leaks, a request is at one place, `RequestService` is implemented |
| `pool_recovery` | 1 request, 3 workers, ChanCap 1, 1 crash, 1 RESTART, close | `RestartHonoured`, `PoolRecovers`, `Completes` | the pool heals, no caller waits for ever |
| `pool_calm` | 3 requests, 2 workers, no fault | `EveryAnswered` | the protocol needs no timeout |
| `supervisor` | 2 workers, 2 jobs, pid reuse, 1 crash, 1 loss, 1 dismissal, stop | `TypeOK`, `EntriesAreArmed`, `Supervised`, `NoEarlyKill`, `DismissalKillsAnnounced`, `StopIsFinal`, `StalledIsKilled`, `TableDrains` | what is killed, when, nothing after `stop`; stalled jobs are, dead entries leave |
| `job` | 1 job, timeout 2, server timeout 3, 1 death, 2 restarts of the service, 2 deletions | `TypeOK`, `OutcomeRecorded`, `PidIsCurrent`, `StatusForward`, `CleanupSparesStarted`, `RecordsExpire` | no update of the two processes is lost where it matters, nothing stays in the store or on disk |
| `lifecycle` | 1 place in the pool, 1 context call, 1 fault, 3 versions of the providers, 3 of these events in all | `TypeOK`, `ProvidersAreCurrent`, `NothingLeftBehind`, `AnswersMatch`, `CallReturns`, `ShutdownEnds`, `ChangesAreReloaded` | answers belong to their calls, nothing outdated is served after a reload, a change during a reload leads to another one, the service ends with its processes unless a worker stays in native code, the event loop does not block for ever |
| `requests` | 4 clients, 2 contents of the rules, 2 processes, 1 job, some 60 requests | `TypeOK` (with `LimitsKept`), `OwnRulesDecide`, `CheckedRealmsKept`, `RefusedLeavesNothing` | a request is decided by its own rules; lists, statuses, dismissals and files stay within the realm where it is checked; what is refused leaves nothing |
| `execution` | 1 request at a time, 1 worker, caches of 1 project and 2 descriptions, 3 versions of a project behind 2 MAPs, 5 algorithms with a parameter of each kind, some 50 requests | `TypeOK`, `JobsUseCurrentProject`, `SelectionIsOwn`, `ParametersConform`, `DescribedIsAccepted`, `LayersNamedAsAsked` | what a job gets of a project, of the selections of earlier jobs and of its client, and what it says of its layers |

Bounds. Two workers and two requests give every pairing of the races listed as hazards: two
tasks on one id, a worker and its replacement, a job and the request behind it. `Workers` is
finite and used up: where a run ends for that reason, or because the client was closed, its
cfg has `CHECK_DEADLOCK FALSE`, and `pool_recovery` has workers enough for the crash and the
RESTART it allows. For the supervisor two jobs are two successive ones of one worker, or one
of each, or one in each of two processes that had the same pid. One job is enough for
`JobRecord`: jobs share nothing but the server's thread, so that another job can only delay
a step, and no step of the model is urgent.

One place is enough for `lifecycle`: places share nothing but the pool process, which
handles them one after the other. Of its bounds, `MaxDisk` is 3, so that the watched file changes
twice, the second time during the reload that the first led to, and `MaxEvents` is 3: calls,
faults and changes together, hence a failed load or a dead worker beside both changes, or
a call with any two of them. In `requests` the job is one uuid: what a request does to
a job it does to the record that it names, and all routes and rules are shared already. In
`execution` one worker keeps its projects while the files change and the other processes
work: jobs of several workers share the files, that change at any moment anyway, and the
server, that does nothing else while it waits for the loader. A cache of one project makes
each second MAP evict the first, and three versions suffice for an entry to be older than
one file and newer than another. `MaxTime` lets a file keep its time, or go back in it. Each file is
saved once in the run (`MCRevisions`); that it may be saved again is covered by the theorem
`CurrentCorrect`.

Fairness. `PoolServer`: the event loop runs ready tasks and the poll (WF), the kernel runs
workers (WF), a published RESTART is seen although `NOBLOCK` may miss it at one turn (SF), the
pool process wakes up every 0.1 s (WF), and asyncio timers fire (WF, not in `CalmSpec`).
Requests, crashes, RESTART and close are not fair. `Supervisor` and `JobRecord`: the event loop
receives, runs due timers and finishes what it began, the cleanup runs at its interval, time
passes. Handlers of jobs are never assumed to end. `ServiceLifecycle`: the server does what its
code does next, the monitor checks at its interval, the pool process wakes up, workers load,
look for RESTART and heed SIGTERM unless they are in native code, feeder threads write and the
loader (`LoaderUrged`) and the delegate go on (WF); the reader lock goes to each waiting
process in the end (SF, since the semaphore is not fair by itself and others may take it in
between). Signals, requests, faults and new versions are not fair. `HttpService` and
`Execution` have safety properties only: what must happen to a job is said in `PoolServer` and
`JobRecord`.

### Disagreements of the code with its documentation
Each is a run whose only property TLC refutes; `PROJECT.json` quotes the lines.

| Run | Property | Behaviour |
|---|---|---|
| `pool_graceful` | `RestartIsGraceful` | a worker exits on RESTART with a request in its inbox |
| `job_dismissed` | `DismissedStaysGone` | a late update makes the record of a dismissed job again |
| `lifecycle_answers` | `ContextCallsAnswered` | after a load that failed, later calls get what was left in the queue |
| `requests_policy` | `FullAccessWithoutRules` | a request that no rule concerns is decided by the policy of an earlier one |

Others are in the models as the code has them, and no run is spent on them:

- `maxqueue` counts the requests sent and not those that wait (`poolserver/client.py:167`).
- A job whose request timed out goes on, and its DONE replaces ERROR
  (`executors/processingexecutor.py:315`).
- With a negative UTC offset jobs that run are cleaned up (`Skew`,
  `executors/processingexecutor.py:375`).
- `doc/accesscontrol.rst:8-10` (of the repository) requires the realm of a job for its status,
  results and dismissal. The results (`handlers/processeshandler.py:305-313`), GetResults, the
  inputs of a job and the old `/status` routes, DELETE included, look at no realm
  (`handlers/statushandler.py:21-85`), and files are checked as outputs, of whatever job
  (`handlers/storehandler.py:124-137`). `CheckedRealmsKept` is about the operations that check
  it, and its name says so.
- The repository's `README.md:86` speaks of a maximum expiration that the server may configure;
  there is none in the code. `LimitsKept` only asks that an expiration is at least 1, and a
  timeout at most that of the server.
- The dismissal of a job whose worker has died, while the supervisor still has its entry, is
  answered 500 and deletes nothing: `os.kill` raises (`poolserver/supervisor.py:96-99`).
- A join at shutdown may last for ever (`poolserver/pool.py:120`, above).
- A time zone in a date of a request, whose bounds have none, is an error of the comparison and
  answered 500 (`executors/io/datetimeio.py:61`, `validator/literalvalidator.py:108`).
- A file input given by value with null data fails its job (`inout/inputs.py:122-126`).
- The value of a `crs` input is compared instead of assigned: each job with one fails
  (`executors/io/geometryio.py:266`).
- A duration is described with numeric bounds, a time is compared with them: each request
  with one is answered 500 (`executors/processingio.py:146`).
- References are read with a limit of 0 bytes, whatever `maxinputsize` says
  (`inout/httpclient.py:41`).
- In the OGC API a file given by value, which is the default, makes the document of the job
  fail (`ogc/api/outputs.py:164`); in WPS, lineage does for units and empty lists
  (`ogc/ows/inputs.py:293`).
- A folder given to a file parameter is described as a literal and converted as a file
  (`executors/io/filesio.py:119`); an optional destination that is left out ends the job
  after the algorithm has run (`executors/processingprocess.py:328`); a selection by
  rectangle is always refused by `QgsRectangle`; an empty list passes the check of
  occurrences of an optional input, and nothing reads `max_occurs` (`app/service.py:143`).
- The users of a Lizmap rule are cut at commas and keep their spaces
  (`lizmapacl/filters.py:65`), its maps are read before names of arguments are put in upper
  case (`lizmapacl/filters.py:169`), and DescribeProcess expands `all` after the policy was
  asked (`ogc/ows/request.py:536`), where `pyqgisservercontrib/lizmapacl/README.md:24` promises
  403 for denied processes.

The properties that hold are stated around what else the code allows, which a reader will see
by dropping their conditions: a worker may be listed while it runs a job (a READY of its
heartbeat is handled late), which is why `EveryAnswered` and not `worker idle` is checked; a
dismissal or a timer may hit a worker whose DONE is in transit, and any worker once a
notification was lost or a pid given again (`NoEarlyKill`, `DismissalKillsAnnounced`,
`Supervised`); a job that starts after its request timed out has no pid in its record; an
accepted job, sent and not begun, may be taken for dangling (`CleanupSparesStarted` is about
started jobs, and a clock in UTC). `StatusForward` and `OutcomeRecorded` hold until the client
gives up or a deletion begins.

## 4. Proofs

`PoolServer_proofs` proves for all values of the constants (under the `ASSUME`s of
`PoolServer`, that TLC evaluates):

| Theorem | Statement | Argument |
|---|---|---|
| `TypeCorrect` | `Spec => []TypeOK` | with `BusyHasJob`: a busy worker has a job, without which `Finish` could send an answer to no request |
| `HandlersCorrect` | `Spec => []HandlersArePending` | inductive given the types |
| `WorkerListCorrect`, `AnnouncedCorrect` | `[]WorkerListOK`, `[]AnnouncedNeverListed` | `ListInv` adds that a task that popped an id holds it, that DONE is the last message of a worker and that an announced worker has exited: without these a READY could follow |
| `OnePlaceCorrect` | `[]OnePlace` | `PlaceInv` adds that inboxes and replies hold a request once, and that what is somewhere was sent by its task |
| `Implementation` | `Spec => Promise` | initial states map to initial states, and every step to a step of `RequestService` or a stutter, from the invariants above |

`AnnouncedNeverListed` is a part of `ListInv` that is proved and in no run.

`Supervisor_proofs` proves all safety properties of `Supervisor`, for any processes, pids,
jobs and timeout:

| Theorem | Statement | Argument |
|---|---|---|
| `TypeCorrect` | `Spec => []TypeOK` | with `SenderBorn`: only a process that was born has notifications under way, so that they have a pid |
| `StopCorrect` | `Spec => StopIsFinal` | `StoppedEmpty`: after stop the table is empty and nothing fills it again; without an entry neither a timer nor a dismissal kills |
| `EntriesCorrect` | `Spec => []EntriesAreArmed` | DONE cancels the timers of the entry it removes; that it takes no timer of *another* entry needs `OneEntry`, which needs `Numbered` and `AnnouncedOnce`: each job is announced once |
| `SupervisedCorrect` | `Spec => []Supervised` | `FollowInv`: for a live worker the table, what is in its channel and its state are one alternating sequence (`Continues`, `Alternates`, `TellsState`, `HasState`), and its timers are those of its entry (`TimersOf`). `PidsKnown` says that nothing is left for the pid of a new process |
| `EarlyKillCorrect` | `Spec => NoEarlyKill` | from `TimersOf`: a timer that is due is of the running job, which then had its time, or of one whose DONE is under way |
| `DismissalCorrect` | `Spec => DismissalKillsAnnounced` | from `DismissalOf`: between the read of the pid and the kill the worker still has the job, or sent its DONE |

`Supervised`, `NoEarlyKill` and `DismissalKillsAnnounced` are conditional in their own
statement (`Reliable`: no notification lost, no pid given twice), and so is `Followed` in
`FollowInv`; the other three hold with losses and pids that come back.

`JobRecord_proofs` proves all its safety properties, for any jobs, timeouts and bounds:

| Theorem | Statement | Argument |
|---|---|---|
| `TypeCorrect` | `Spec => []TypeOK` | inductive |
| `PidCorrect` | `Spec => []PidIsCurrent` | `PidInv`: an update under way carries what its process knows (`UpdatesKnown`), a job that was not sent has no pid anywhere (`NotSentYet`), and a pid that was read or is to be written is that of the worker (`PidWritten`): an update reads and writes back the whole record, so that a pid could come back with it |
| `OutcomeCorrect` | `Spec => []OutcomeRecorded` | `OutcomeInv` follows request and worker through every pair of their commands (`RequestOf`, `WorkOf`) until its client gives it up at a timeout, or a client or the cleanup deletes it (`Kept`), and says that a removal begins with a deletion |
| `ForwardCorrect` | `Spec => StatusForward` | for a job that is `Kept`, from the two invariants, by the kind of the step of one of the two processes, server and worker |
| `CleanupCorrect` | `ASSUME Skew <= 0 PROVE Spec => CleanupSparesStarted` | for STARTED jobs that were sent and have time left. `WaitInv`: a client has waited as long as the record is old, or its time is over |

`Skew <= 0` is a clock in UTC or east of it. It is necessary: with a negative UTC offset the
cleanup takes jobs that run, a disagreement listed above. The run `job` has `Skew = 0`.

`ServiceLifecycle_proofs` proves the safety properties of `ServiceLifecycle`, for any places
in the pool and any bounds on calls, faults and versions:

| Theorem | Statement | Argument |
|---|---|---|
| `TypeCorrect` | `Spec => []TypeOK` | inductive; the queue has items of versions that exist |
| `StaleCorrect` | `Spec => []StaleWorkersAreTold` | `VersionInv`: whatever is under way is not newer than the disk, and no worker is there before the first list. It holds with faults and is the part of `ProvidersAreCurrent` that needs no condition |
| `LeftCorrect` | `Spec => []NothingLeftBehind` | `EndInv`: who may still live when another process has ended |
| `AnswersCorrect` | `Spec => AnswersMatch` | `PhaseInv`: as long as nothing disturbs the delegate (`Undisturbed`), the queue goes through a cycle: at most one item under way, and the one that waits for it is the first in line (`IdlePhase`, `ListPhase`, `ContextPhase`) |
| `ProvidersCorrect` | `Spec => []ProvidersAreCurrent` | from `PhaseInv` and `VersionInv` |

`HttpService_proofs` proves the properties of `HttpService`, for any clients, requests,
filters, rules, routes and processes that satisfy the assumptions of its modules:

| Theorem | Statement | Argument |
|---|---|---|
| `TypeCorrect` | `Spec => []TypeOK` | `StoreInv` adds the types of the stores that a handler reads, and that a started job has a directory |
| `RefusedCorrect` | `Spec => RefusedLeavesNothing` | each way to refuse leaves the stores as they are; one step for each handler |
| `OwnRulesCorrect` | `ASSUME LizmapLast PROVE Spec => []OwnRulesDecide` | a chain of filters that the last one of them ends gives its policy, or refuses; what the route had before is then replaced |
| `CheckedRealmsCorrect` | `Spec => []CheckedRealmsKept` | each answer that lists, shows or dismisses a job, or gives a file, passed the check of its realm; answers of the operations that look at none are left alone (`OutOfRealms`) |

`LizmapLast` says that in the order of their priorities no filter comes after that of
Lizmap, which takes the default priority 0 (`lizmapacl/filters.py`). It is a hypothesis about the
deployment, which `MCHttpService` states as an assumption so that TLC evaluates it: a filter
that comes later may replace the policy, as the code lets it.

`Execution_proofs` proves two properties of `Execution`, for any algorithms, requests, files
with their edits, cache sizes, and any number of workers and of requests in flight, where the
run has one of each:

| Theorem | Statement | Argument |
|---|---|---|
| `TypeCorrect` | `Spec => []TypeOK` | `TypeInv` gives types to what the loader and the workers go on with: a place that was found when its time was asked is still one when it is read. That each cache keeps one entry for a key through `Put`, `Touched` and `Fitted` is a lemma for each of them, and a fold of them for the descriptions |
| `CurrentCorrect` | `Spec => []JobsUseCurrentProject` | `VersionInv`: no time that is kept is above the highest the file had (`KeptTimes`), and if the time of the file is above all its earlier ones, then a project kept with that time or a later one has that content or a newer one. A job that reads has a time not above the highest, since the file may have been saved since, with any time (`GoodVersion`) |

`ExecutionValues_proofs` proves the other four, for the same constants and any sequence of
items in a request:

| Theorem | Statement | Argument |
|---|---|---|
| `SelectionCorrect` | `Spec => []SelectionIsOwn` | a conversion changes the selection of a layer only for a source parameter, to an expression of its item in the request (`Reselected`), and one that asks for selected features makes such a change; that the job finds its project in the cache is `KeyKept`, and that every project there has a selection for each layer `SelKept` |
| `ConformCorrect` | `Spec => []ParametersConform` | along the way of a datum: what the reader of each encoding makes of it (`FormArms`), what validation lets through (`GoodValueIs`), what the inputs of a request are (`GivenValues`), what conversion makes of one (`ConvertedIs`) and of all, in order, until one raises (`ConvertAllIs`) |
| `DescribedCorrect` | `Spec => []DescribedIsAccepted` | a literal within its schema passes `Convert` and `Allowed` (`LiteralAccepted`), and as many as announced are enough (`DescribedIsValid`) |
| `NamedCorrect` | `Spec => []LayersNamedAsAsked` | a destination keeps the text of its item from conversion to document (`AllAsked`); what is published is announced, output by output (`NamedAsAsked`) |

`ValueInv` says for each state of a job what is known of its request, its values and its
document (`GoodRun`): the properties speak of a job that is converted or done, and what makes
them true was established when its request was read. It needs `TypeInv`, since only one job
uses a worker: no other job changes the selections between the two steps of one.

The assumptions on the constants: parameters and outputs of an algorithm have distinct names
(QGIS refuses a second one), numbers have both bounds, as QGIS gives them, and other types
may have none (`Bounded`), words and
numbers of a request have one form each (`Datum`), a reference occurs in XML only, and `None` is no
number. `MCExecution` satisfies them and TLC evaluates them.

`FoldLemmas` and the proofs about folds. Filters are run one after another, and descriptions
kept one after another, by recursive functions on `0 .. N`. The induction theorems of the
library take an operator as a parameter, which the provers cannot instantiate. The proofs use
sets instead: were there a place where the function fails there would be a least one
(`LeastOf`, from the well-foundedness of `<`), and the step before it leads to a contradiction
(`NoLeastFailure`). That a recursive function exists at all is shown in the same way
(`FoldExists`).

Only model-checked:

- Liveness, out of the prover's reach, and with it all of `pool_recovery` and `pool_calm`.

### Strengthenings found

Each proof module states its own, with comments: `BusyHasJob`, `PoppedHolds`,
`AnnouncedGone`, `DoneIsLast` and `PlaceInv` for the pool; `SenderBorn`, `StoppedEmpty`,
`EntryInv` and `FollowInv` for the supervisor; `PidInv`, `OutcomeInv` and `WaitInv` for the
records; `VersionInv`, `EndInv` and `PhaseInv` for the service; `StoreInv` for the requests;
`TypeInv`, `VersionInv` and `ValueInv` for the executions. TLC checked those of the records,
the service, the requests and the executions as invariants of the runs of their components,
all but the type of `asked`, whose descriptions are sequences of any length.

## 5. Not modelled, and the plan

Left out for good:

- The layout and wording of documents, HTML pages, the landing page, the OpenAPI document and
  the server information; configuration, entry points and logging; docker and assets. They
  keep no state, and their errors are seen by any test.
- What QGIS does: styles, formats of layers, providers, and the storage and PostgreSQL
  handlers of projects, which call it and cannot be stated without it.
- Command line, SSL and the sockets of `wpsserver.py`.

What remains, most important first:

1. `JobService`: the composition of `JobRecord`, `Supervisor` and the pool for one dismissal.
2. Two slots and two workers in `Execution`, on an instance with fewer requests.
