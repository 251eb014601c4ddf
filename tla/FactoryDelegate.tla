---------------------------- MODULE FactoryDelegate ----------------------------
(***************************************************************************)
(* The delegate of pyqgiswps/executors/processfactory.py, which loads the  *)
(* QGIS providers outside of the server so that they can be reloaded.      *)
(*                                                                         *)
(* The server starts the delegate, a process that starts a loader (task)   *)
(* and starts another one whenever it exits with 0.  All three share ONE   *)
(* multiprocessing queue: the loader's lists and contextualized processes, *)
(* the server's arguments, and None, which means "stop" to the loader and  *)
(* "failed" to the server, travel in the same pipe, and whoever holds the  *)
(* reader lock takes the next item, be it its own.                         *)
(*                                                                         *)
(* A put is two steps, as in multiprocessing: the item enters the buffer   *)
(* of the process, and its feeder thread writes it to the pipe.  A         *)
(* semaphore is not fair, and a loader may be late for its next get: the   *)
(* history raced tells whether one of these ever let a process overtake    *)
(* another.                                                                *)
(***************************************************************************)
EXTENDS Integers, Sequences

CONSTANTS
  Nobody,    \* no process
  MaxCalls,  \* bound: requests for contextualized processes
  MaxFaults, \* bound: loads that raise, loaders and workers that die
  MaxDisk    \* bound: versions of the providers on disk

ASSUME FactoryAssumption ==
  /\ Nobody \notin {"server", "loader", "delegate", "lost"}
  /\ MaxCalls \in Nat /\ MaxFaults \in Nat
  /\ MaxDisk \in Nat \ {0}

VARIABLES
  pipe,      \* the pipe of _queue
  out,       \* out[p]: items that p put and its feeder has not written
  lock,      \* who holds _rlock; "lost" when its holder was killed
  line,      \* those who wait for _rlock, the longest first
  loader,    \* where the loader is in task
  lver,      \* the version of the providers that it loaded
  task,      \* the call that it works on
  delegate,  \* where the delegate is in run
  call,      \* what the server waits for
  published, \* ProcessingExecutor.processes
  context,   \* what _context_processes holds
  disk,      \* the version of the providers on disk
  raced,     \* some get overtook another, or the loader was late (history)
  calls, fails, deaths  \* counters of the bounds

queueVars    == <<pipe, out, lock, line>>
loaderVars   == <<loader, lver, task>>
serverVars   == <<call, published, context>>
factoryBounds == <<calls, fails, deaths>>
factoryVars  == <<queueVars, loaderVars, delegate, serverVars, disk, raced, factoryBounds>>

Writers  == {"server", "loader", "delegate"}
Versions == 0 .. MaxDisk
CallIds  == 1 .. MaxCalls

(* Items: a list of all processes, processes for the call n, arguments of  *)
(* the call n, None, and [].                                               *)
ListOf(v)   == [kind |-> "list", n |-> 0, ver |-> v]
CtxOf(n, v) == [kind |-> "ctx", n |-> n, ver |-> v]
ArgsOf(n)   == [kind |-> "args", n |-> n, ver |-> 0]
NoneItem    == [kind |-> "none", n |-> 0, ver |-> 0]
EmptyList   == [kind |-> "empty", n |-> 0, ver |-> 0]
Item == [kind : {"list", "ctx", "args", "none", "empty"}, n : 0 .. MaxCalls, ver : Versions]

(* Calls: n is 0 for a list; ver is the version on disk when it was asked. *)
Idle == [kind |-> "idle", n |-> 0, ver |-> 0]
Call == [kind : {"idle", "list", "ctx"}, n : 0 .. MaxCalls, ver : Versions]

LoaderAlive == loader \in {"load", "loop", "get", "work", "exit"}
DelegateAlive == delegate \in {"watch", "quit", "term"}

FactoryTypeOK ==
  /\ pipe \in Seq(Item)
  /\ out \in [Writers -> Seq(Item)]
  /\ lock \in {Nobody, "server", "loader", "lost"}
  /\ line \in Seq({"server", "loader"})
  /\ loader \in {"none", "load", "loop", "get", "work", "exit", "done", "dead"}
  /\ lver \in Versions
  /\ task \in 0 .. MaxCalls
  /\ delegate \in {"none", "watch", "quit", "term", "gone"}
  /\ call \in Call
  /\ published \in Item
  /\ context \in Item
  /\ disk \in Versions
  /\ raced \in BOOLEAN
  /\ calls \in 0 .. MaxCalls /\ fails \in 0 .. MaxFaults /\ deaths \in 0 .. MaxFaults

FactoryInit ==
  /\ pipe = <<>>
  /\ out = [p \in Writers |-> <<>>]
  /\ lock = Nobody
  /\ line = <<>>
  /\ loader = "none"
  /\ lver = 0
  /\ task = 0
  /\ delegate = "none"
  /\ call = Idle
  /\ published = EmptyList
  /\ context = EmptyList
  /\ disk = 1
  /\ raced = FALSE
  /\ calls = 0 /\ fails = 0 /\ deaths = 0

-------------------------------------------------------------------------------
(* The queue                                                               *)

Put(p, m) == out' = [out EXCEPT ![p] = Append(@, m)]

(* The feeder thread of p writes to the pipe.                              *)
Flush(p) ==
  /\ out[p] # <<>>
  /\ pipe' = Append(pipe, Head(out[p]))
  /\ out' = [out EXCEPT ![p] = Tail(@)]
  /\ UNCHANGED <<lock, line, loaderVars, delegate, serverVars, disk, raced, factoryBounds>>

(* A process waits in the line once.                                       *)
Without(p) ==
  LET at == {i \in DOMAIN line : line[i] = p}
      i  == CHOOSE i \in at : TRUE
  IN IF at = {} THEN line ELSE SubSeq(line, 1, i - 1) \o SubSeq(line, i + 1, Len(line))

(* A get begins: p obtains the reader lock.                                *)
Acquire(p) ==
  /\ lock = Nobody
  /\ \E i \in DOMAIN line : line[i] = p
  /\ lock' = p
  /\ line' = Without(p)
  /\ raced' = (raced \/ p # Head(line))
  /\ UNCHANGED <<pipe, out, loaderVars, delegate, serverVars, disk, factoryBounds>>

(* A get ends: p takes the next item and releases the lock.                *)
Take(p) ==
  /\ lock = p
  /\ pipe # <<>>
  /\ pipe' = Tail(pipe)
  /\ lock' = Nobody

-------------------------------------------------------------------------------
(* The loader: task                                                        *)

(* _create_qgis_processes: the providers are read from disk.               *)
Load ==
  /\ loader = "load"
  /\ lver' = disk
  /\ Put("loader", ListOf(disk))
  /\ loader' = "loop"
  /\ UNCHANGED <<pipe, lock, line, task, delegate, serverVars, disk, raced, factoryBounds>>

(* It raises: None tells the server, and the loader returns.               *)
LoadFails ==
  /\ loader = "load"
  /\ fails + deaths < MaxFaults
  /\ fails' = fails + 1
  /\ Put("loader", NoneItem)
  /\ loader' = "exit"
  /\ UNCHANGED <<pipe, lock, line, lver, task, delegate, serverVars, disk, raced, calls, deaths>>

(* The loader calls get.                                                   *)
LoaderAsks ==
  /\ loader = "loop"
  /\ loader' = "get"
  /\ line' = Append(line, "loader")
  /\ UNCHANGED <<pipe, out, lock, lver, task, delegate, serverVars, disk, raced, factoryBounds>>

(* None stops it.                                                          *)
LoaderToldToStop ==
  /\ loader = "get"
  /\ Take("loader")
  /\ Head(pipe) = NoneItem
  /\ loader' = "exit"
  /\ UNCHANGED <<out, line, lver, task, delegate, serverVars, disk, raced, factoryBounds>>

(* The identifiers and the map of a call.                                  *)
LoaderGetsArgs ==
  /\ loader = "get"
  /\ Take("loader")
  /\ Head(pipe).kind = "args"
  /\ task' = Head(pipe).n
  /\ loader' = "work"
  /\ UNCHANGED <<out, line, lver, delegate, serverVars, disk, raced, factoryBounds>>

(* Anything else does not unpack into identifiers and map_uri: the         *)
(* exception is caught, and [] is put.                                     *)
LoaderGetsJunk ==
  /\ loader = "get"
  /\ Take("loader")
  /\ Head(pipe).kind \in {"list", "ctx", "empty"}
  /\ Put("loader", EmptyList)
  /\ loader' = "loop"
  /\ UNCHANGED <<line, lver, task, delegate, serverVars, disk, raced, factoryBounds>>

(* Mutant: the answer of the loader is the list of all processes. *)
LoaderWorksNoContext ==
  /\ loader = "work"
  /\ Put("loader", ListOf(lver))
  /\ loader' = "loop"
  /\ task' = 0
  /\ UNCHANGED <<pipe, lock, line, lver, delegate, serverVars, disk, raced, factoryBounds>>

(* Contextualized processes, or [] when their creation raises.             *)
LoaderWorks ==
  /\ loader = "work"
  /\ \/ Put("loader", CtxOf(task, lver))
     \/ Put("loader", EmptyList)
  /\ loader' = "loop"
  /\ task' = 0
  /\ UNCHANGED <<pipe, lock, line, lver, delegate, serverVars, disk, raced, factoryBounds>>

(* A loader that returns exits once its feeder has written everything.     *)
LoaderExits ==
  /\ loader = "exit"
  /\ out["loader"] = <<>>
  /\ loader' = "done"
  /\ UNCHANGED <<queueVars, lver, task, delegate, serverVars, disk, raced, factoryBounds>>

(* It dies, by a registration failure inside QGIS or killed.  What it had  *)
(* not written is lost, and a lock it holds is never released.             *)
LoaderDies ==
  /\ LoaderAlive
  /\ fails + deaths < MaxFaults
  /\ deaths' = deaths + 1
  /\ loader' = "dead"
  /\ out' = [out EXCEPT !["loader"] = <<>>]
  /\ line' = Without("loader")
  /\ lock' = IF lock = "loader" THEN "lost" ELSE lock
  /\ UNCHANGED <<pipe, lver, task, delegate, serverVars, disk, raced, calls, fails>>

-------------------------------------------------------------------------------
(* The delegate: run                                                       *)

(* The loader returned: another one is started.                            *)
RestartLoader ==
  /\ delegate = "watch"
  /\ loader = "done"
  /\ loader' = "load"
  /\ UNCHANGED <<queueVars, lver, task, delegate, serverVars, disk, raced, factoryBounds>>

(* Mutant: nothing tells the server that the loader died. *)
GiveUpSilently ==
  /\ delegate = "watch"
  /\ loader = "dead"
  /\ delegate' = "quit"
  /\ UNCHANGED <<queueVars, loaderVars, serverVars, disk, raced, factoryBounds>>

(* It exited with an error: None is put and the delegate leaves its loop.  *)
GiveUp ==
  /\ delegate = "watch"
  /\ loader = "dead"
  /\ Put("delegate", NoneItem)
  /\ delegate' = "quit"
  /\ UNCHANGED <<pipe, lock, line, loaderVars, serverVars, disk, raced, factoryBounds>>

DelegateExits ==
  /\ delegate = "quit"
  /\ out["delegate"] = <<>>
  /\ delegate' = "gone"
  /\ UNCHANGED <<queueVars, loaderVars, serverVars, disk, raced, factoryBounds>>

(* SIGTERM: the loader is terminated, and the delegate joins it.  The      *)
(* loader has the same handler: SystemExit releases the lock it holds, and *)
(* its feeder writes what is left.                                         *)
TerminateDelegate ==
  /\ delegate = "term"
  /\ IF loader \in {"load", "loop", "get", "work"}
     THEN /\ loader' = "exit"
          /\ line' = Without("loader")
          /\ lock' = IF lock = "loader" THEN Nobody ELSE lock
          /\ UNCHANGED delegate
     ELSE /\ loader # "exit"
          /\ out["delegate"] = <<>>
          /\ delegate' = "gone"
          /\ UNCHANGED <<loader, line, lock>>
  /\ UNCHANGED <<pipe, out, lver, task, serverVars, disk, raced, factoryBounds>>

-------------------------------------------------------------------------------
(* The server: its event loop is blocked from the call to the answer       *)

(* create_qgis_processes, the first time: the delegate is started, and the *)
(* server waits for its list.                                              *)
AskFirstList ==
  /\ delegate = "none"
  /\ call = Idle
  /\ delegate' = "watch"
  /\ loader' = "load"
  /\ call' = [kind |-> "list", n |-> 0, ver |-> disk]
  /\ line' = Append(line, "server")
  /\ UNCHANGED <<pipe, out, lock, lver, task, published, context, disk, raced, factoryBounds>>

(* The next times: None stops the loader, whose successor puts a new list. *)
AskNewList ==
  /\ delegate # "none"
  /\ call = Idle
  /\ Put("server", NoneItem)
  /\ call' = [kind |-> "list", n |-> 0, ver |-> disk]
  /\ line' = Append(line, "server")
  /\ raced' = (raced \/ loader = "loop")
  /\ UNCHANGED <<pipe, lock, loaderVars, delegate, published, context, disk, factoryBounds>>

(* Mutant: the arguments of the following call are sent. *)
AskContextOneAhead ==
  /\ DelegateAlive
  /\ call = Idle
  /\ calls < MaxCalls
  /\ calls' = calls + 1
  /\ Put("server", ArgsOf(calls' + 1))
  /\ call' = [kind |-> "ctx", n |-> calls', ver |-> 0]
  /\ line' = Append(line, "server")
  /\ raced' = (raced \/ loader = "loop")
  /\ UNCHANGED <<pipe, lock, loaderVars, delegate, published, context, disk, fails, deaths>>

(* create_contextualized_processes, with a delegate that lives.            *)
AskContext ==
  /\ DelegateAlive
  /\ call = Idle
  /\ calls < MaxCalls
  /\ calls' = calls + 1
  /\ Put("server", ArgsOf(calls'))
  /\ call' = [kind |-> "ctx", n |-> calls', ver |-> 0]
  /\ line' = Append(line, "server")
  /\ raced' = (raced \/ loader = "loop")
  /\ UNCHANGED <<pipe, lock, loaderVars, delegate, published, context, disk, fails, deaths>>

(* The end of a get of the server.                                         *)
ServerTakes(kind) ==
  /\ call.kind = kind
  /\ Take("server")
  /\ call' = Idle
  /\ UNCHANGED <<out, line, loaderVars, delegate, disk, raced, factoryBounds>>

(* Mutant: the contexts of the former providers stay in the cache. *)
TakeListKeepContext ==
  /\ ServerTakes("list")
  /\ published' = IF Head(pipe).kind \in {"list", "ctx", "empty"} THEN Head(pipe) ELSE published
  /\ UNCHANGED context

(* reload_qgis_processes: whatever can be iterated becomes the processes,  *)
(* and the contexts are forgotten.  None raises ProcessException, which is *)
(* caught, and arguments raise AttributeError: nothing changes.            *)
TakeList ==
  /\ ServerTakes("list")
  /\ IF Head(pipe).kind \in {"list", "ctx", "empty"}
     THEN published' = Head(pipe) /\ context' = EmptyList
     ELSE UNCHANGED <<published, context>>

(* get_processes: what can be iterated is cached, the rest raises.         *)
TakeContext ==
  /\ ServerTakes("ctx")
  /\ context' = IF Head(pipe).kind \in {"list", "ctx"} THEN Head(pipe) ELSE context
  /\ UNCHANGED published

(* The server is killed: the lock it holds is never released.              *)
ServerDies ==
  /\ call' = Idle
  /\ out' = [out EXCEPT !["server"] = <<>>]
  /\ line' = Without("server")
  /\ lock' = IF lock = "server" THEN "lost" ELSE lock
  /\ UNCHANGED <<pipe, loaderVars, delegate, published, context, disk, raced, factoryBounds>>

(* New providers are installed on disk.                                    *)
DiskChanges ==
  /\ disk < MaxDisk
  /\ disk' = disk + 1
  /\ UNCHANGED <<queueVars, loaderVars, delegate, serverVars, raced, factoryBounds>>

LoaderStep ==
  \/ Load \/ LoadFails \/ LoaderAsks \/ LoaderToldToStop \/ LoaderGetsArgs
  \/ LoaderGetsJunk \/ LoaderWorks \/ LoaderExits \/ LoaderDies
DelegateStep == RestartLoader \/ GiveUp \/ DelegateExits \/ TerminateDelegate
QueueStep ==
  \/ \E p \in Writers : Flush(p)
  \/ \E p \in {"server", "loader"} : Acquire(p)

(* What the loader does by itself; a load that fails and a death are not   *)
(* urged.                                                                  *)
LoaderUrged ==
  \/ Load \/ LoaderAsks \/ LoaderToldToStop \/ LoaderGetsArgs \/ LoaderGetsJunk
  \/ LoaderWorks \/ LoaderExits

-------------------------------------------------------------------------------
(* Properties                                                              *)

Undisturbed == ~raced /\ fails = 0 /\ deaths = 0

Answers(c, m) ==
  \/ c.kind = "list" /\ m.kind = "list" /\ m.ver >= c.ver
  \/ c.kind = "ctx" /\ m = EmptyList
  \/ c.kind = "ctx" /\ m.kind = "ctx" /\ m.n = c.n

ServerTook == lock = "server" /\ lock' = Nobody

(* As long as no load failed, no loader died and nobody overtook another,  *)
(* what the server takes from the queue is the answer to its call: a list  *)
(* no older than the request, the contextualized processes of this very    *)
(* call, or the [] of their failure (processfactory.py:65-73).             *)
AnswersMatch ==
  [][Undisturbed /\ ServerTook => Answers(call, Head(pipe))]_factoryVars

(* And the cached contexts come from the providers that are published:     *)
(* never a context of providers that were reloaded                         *)
(* (processingexecutor.py:229-239).                                        *)
ContextIsCurrent ==
  Undisturbed /\ call.kind # "list" /\ context # EmptyList => context.ver = published.ver

(* "Subsqequent calls: return contextualized processe" (processfactory.py: *)
(* 88), also after a load that failed: refuted, the None of the failure    *)
(* leaves every later answer one call late.                                *)
ContextCallsAnswered ==
  [][~raced /\ deaths = 0 /\ call.kind = "ctx" /\ ServerTook
       => Answers(call, Head(pipe))]_factoryVars

(* The event loop does not stay blocked in a get for ever, unless a loader *)
(* was killed while it held the reader lock.                               *)
CallReturns == []<>(call = Idle \/ lock = "lost")
===============================================================================
