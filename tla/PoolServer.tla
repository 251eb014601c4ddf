------------------------------ MODULE PoolServer ------------------------------
(***************************************************************************)
(* The worker pool of pyqgiswps/poolserver: the client that dispatches     *)
(* requests over a ROUTER socket (client.py), the worker processes that    *)
(* run them behind DEALER sockets (worker.py), and the process that        *)
(* replaces the workers that exit (pool.py, server.py).                    *)
(*                                                                         *)
(* The client is one asyncio loop: an action of the client is the code     *)
(* between two suspension points of one of its tasks.  A worker is         *)
(* identified by the uuid of its socket: a new process is a new member of  *)
(* Workers.  The correlation id of a message is the request itself.        *)
(* Timeouts are enabled whenever the wait they bound is pending.           *)
(***************************************************************************)
EXTENDS Naturals, Sequences, FiniteSets

CONSTANTS
  Requests,     \* calls of apply_async
  Workers,      \* worker processes (socket identities), used once each
  None,         \* no request, no worker
  NoLimit,      \* the value of MaxCycles that stands for Python's None
  NumWorkers,   \* numworkers: size of the pool
  MaxCycles,    \* maxcycles: jobs a worker runs before it exits
  MaxQueue,     \* maxqueue
  ChanCap,      \* messages a worker can send before its send blocks
  MaxCrashes,   \* bound: worker processes that crash or are killed
  MaxRestarts,  \* bound: RESTART broadcasts
  CanClose      \* whether the client may be closed

ASSUME NoneAssumption   == None \notin Requests \cup Workers
ASSUME CyclesAssumption == NoLimit \notin Nat /\ MaxCycles \in Nat \cup {NoLimit}
ASSUME BoundsAssumption ==
  /\ NumWorkers \in Nat \ {0}
  /\ MaxQueue \in Nat
  /\ ChanCap \in Nat \ {0}
  /\ MaxCrashes \in Nat
  /\ MaxRestarts \in Nat
  /\ CanClose \in BOOLEAN

VARIABLES
  \* the client process
  status,     \* status[r]: where the task of r is in _apply_async
  got,        \* got[r]: the id r took out of _worker_q, not yet checked
  handlers,   \* keys of _handlers
  workerQ,    \* _worker_q
  workerS,    \* _worker_s, a list without duplicates, as a set
  peers,      \* routing table of the ROUTER socket
  closed,     \* close() was called
  \* the sockets
  toWorker,   \* toWorker[w]: requests sent to w and not yet received
  toClient,   \* toClient[w]: messages of w not yet received
  restart,    \* workers with a RESTART in their SUB socket
  \* the worker processes
  pc,         \* pc[w]: where w is in worker_handler
  job,        \* job[w]: the request w is running
  completed,  \* completed[w]: its local variable of this name
  \* history variables and bounds
  started,    \* requests whose job was started
  announced,  \* workers whose WORKER_DONE was handled
  crashes,    \* crashes so far
  restarts    \* RESTART broadcasts so far

clientVars == <<status, got, handlers, workerQ, workerS, peers, closed>>
workerVars == <<pc, job, completed, started>>
auxVars  == <<announced, crashes, restarts>>
vars == <<clientVars, toWorker, toClient, restart, workerVars, auxVars>>

Answers  == {"result", "error"}
Finished == Answers \cup {"timeout", "rejected", "gateway"}
Status   == {"new", "waiting", "popped", "sent"} \cup Finished

\* "exited" and "failed": the exit code is 0, is not 0; "reaped": joined and
\* removed from Pool._pool
Alive   == {"starting", "recv", "busy", "check"}
Gone    == {"exited", "failed"}
States  == {"unborn", "reaped"} \cup Alive \cup Gone

READY == [kind |-> "READY", req |-> None, ok |-> TRUE]
DONE  == [kind |-> "DONE", req |-> None, ok |-> TRUE]
Reply(r, ok) == [kind |-> "REPLY", req |-> r, ok |-> ok]
Message == {READY, DONE} \cup {Reply(r, ok) : r \in Requests, ok \in BOOLEAN}

TypeOK ==
  /\ status \in [Requests -> Status]
  /\ got \in [Requests -> Workers \cup {None}]
  /\ handlers \in SUBSET Requests
  /\ workerQ \in Seq(Workers)
  /\ workerS \in SUBSET Workers
  /\ peers \in SUBSET Workers
  /\ closed \in BOOLEAN
  /\ toWorker \in [Workers -> Seq(Requests)]
  /\ toClient \in [Workers -> Seq(Message)]
  /\ restart \in SUBSET Workers
  /\ pc \in [Workers -> States]
  /\ job \in [Workers -> Requests \cup {None}]
  /\ completed \in [Workers -> Nat]
  /\ started \in SUBSET Requests
  /\ announced \in SUBSET Workers
  /\ crashes \in Nat
  /\ restarts \in Nat

(* Pool.__init__ starts the first NumWorkers processes. *)
Init ==
  /\ status = [r \in Requests |-> "new"]
  /\ got = [r \in Requests |-> None]
  /\ handlers = {}
  /\ workerQ = <<>>
  /\ workerS = {}
  /\ peers = {}
  /\ closed = FALSE
  /\ toWorker = [w \in Workers |-> <<>>]
  /\ toClient = [w \in Workers |-> <<>>]
  /\ restart = {}
  /\ \E first \in SUBSET Workers :
       /\ Cardinality(first) = NumWorkers
       /\ pc = [w \in Workers |-> IF w \in first THEN "starting" ELSE "unborn"]
  /\ job = [w \in Workers |-> None]
  /\ completed = [w \in Workers |-> 0]
  /\ started = {}
  /\ announced = {}
  /\ crashes = 0
  /\ restarts = 0

-------------------------------------------------------------------------------
(* The tasks of the client: _apply_async and _get_worker                   *)

(* The queue limit is compared with the requests that wait for an answer,  *)
(* not with those that wait for a worker.                                  *)
QueueFull == Cardinality(handlers) > MaxQueue

Submit(r) ==
  /\ status[r] = "new"
  /\ status' = [status EXCEPT ![r] = IF QueueFull THEN "rejected" ELSE "waiting"]
  /\ UNCHANGED <<got, handlers, workerQ, workerS, peers, closed,
                 toWorker, toClient, restart, workerVars, auxVars>>

(* asyncio.Queue.get: wait_for runs it in a task of its own, so other      *)
(* handlers of the loop may run before the id is checked against           *)
(* _worker_s.                                                              *)
PopWorker(r) ==
  /\ status[r] = "waiting"
  /\ workerQ # <<>>
  /\ workerQ' = Tail(workerQ)
  /\ got' = [got EXCEPT ![r] = Head(workerQ)]
  /\ status' = [status EXCEPT ![r] = "popped"]
  /\ UNCHANGED <<handlers, workerS, peers, closed,
                 toWorker, toClient, restart, workerVars, auxVars>>

(* ValueError of _worker_s.remove: the worker has announced its exit. *)
Retry(r) ==
  /\ status[r] = "popped"
  /\ got[r] \notin workerS
  /\ status' = [status EXCEPT ![r] = "waiting"]
  /\ got' = [got EXCEPT ![r] = None]
  /\ UNCHANGED <<handlers, workerQ, workerS, peers, closed,
                 toWorker, toClient, restart, workerVars, auxVars>>

(* Mutant: the worker is taken from the queue only. *)
DispatchListed(r) ==
  LET w == got[r] IN
  /\ status[r] = "popped"
  /\ w \in workerS
  /\ w \in peers
  /\ got' = [got EXCEPT ![r] = None]
  /\ toWorker' = [toWorker EXCEPT ![w] = Append(@, r)]
  /\ handlers' = handlers \cup {r}
  /\ status' = [status EXCEPT ![r] = "sent"]
  /\ UNCHANGED <<workerQ, workerS, peers, closed, toClient, restart, workerVars, auxVars>>

(* The id is removed from _worker_s, the request sent and its handler      *)
(* registered without a suspension: send_multipart with DONTWAIT returns a *)
(* future that is already done.                                            *)
Dispatch(r) ==
  LET w == got[r] IN
  /\ status[r] = "popped"
  /\ w \in workerS
  /\ w \in peers
  /\ workerS' = workerS \ {w}
  /\ got' = [got EXCEPT ![r] = None]
  /\ toWorker' = [toWorker EXCEPT ![w] = Append(@, r)]
  /\ handlers' = handlers \cup {r}
  /\ status' = [status EXCEPT ![r] = "sent"]
  /\ UNCHANGED <<workerQ, peers, closed, toClient, restart, workerVars, auxVars>>

(* ROUTER_MANDATORY: sending to a peer that is gone is an error, and so is *)
(* sending on a closed socket.                                             *)
Unreachable(r) ==
  LET w == got[r] IN
  /\ status[r] = "popped"
  /\ w \in workerS
  /\ w \notin peers
  /\ workerS' = workerS \ {w}
  /\ got' = [got EXCEPT ![r] = None]
  /\ status' = [status EXCEPT ![r] = "gateway"]
  /\ UNCHANGED <<handlers, workerQ, peers, closed,
                 toWorker, toClient, restart, workerVars, auxVars>>

(* Mutant: the wait for a worker has no timeout. *)
WaitForEver(r) == FALSE /\ UNCHANGED vars

(* wait_for(_worker_q.get(), timeout): no worker came. *)
WaitTimeout(r) ==
  /\ status[r] = "waiting"
  /\ status' = [status EXCEPT ![r] = "timeout"]
  /\ UNCHANGED <<got, handlers, workerQ, workerS, peers, closed,
                 toWorker, toClient, restart, workerVars, auxVars>>

(* Mutant: the handler is not removed when the wait for the answer fails. *)
ReplyTimeoutLeak(r) ==
  /\ status[r] = "sent"
  /\ status' = [status EXCEPT ![r] = "timeout"]
  /\ UNCHANGED <<handlers, got, workerQ, workerS, peers, closed,
                 toWorker, toClient, restart, workerVars, auxVars>>

(* wait_for(handler, timeout): the handler is removed by `finally`. *)
ReplyTimeout(r) ==
  /\ status[r] = "sent"
  /\ handlers' = handlers \ {r}
  /\ status' = [status EXCEPT ![r] = "timeout"]
  /\ UNCHANGED <<got, workerQ, workerS, peers, closed,
                 toWorker, toClient, restart, workerVars, auxVars>>

-------------------------------------------------------------------------------
(* The polling task of the client: _poll.  The next message may be of any  *)
(* worker; those of one worker come in order.                              *)

Incoming(w, kind) ==
  /\ ~closed
  /\ toClient[w] # <<>>
  /\ Head(toClient[w]).kind = kind
  /\ toClient' = [toClient EXCEPT ![w] = Tail(@)]

(* Mutant: list the worker again although it is already listed. *)
PutWorkerTwice(w) ==
  /\ workerS' = workerS \cup {w}
  /\ workerQ' = Append(workerQ, w)

PutWorker(w) ==
  IF w \in workerS
  THEN UNCHANGED <<workerS, workerQ>>
  ELSE /\ workerS' = workerS \cup {w}
       /\ workerQ' = Append(workerQ, w)

PollReady(w) ==
  /\ Incoming(w, "READY")
  /\ PutWorker(w)
  /\ UNCHANGED <<status, got, handlers, peers, closed,
                 toWorker, restart, workerVars, auxVars>>

(* The id stays in _worker_q. *)
RemoveWorker(w) == workerS' = workerS \ {w}

PollDone(w) ==
  /\ Incoming(w, "DONE")
  /\ RemoveWorker(w)
  /\ announced' = announced \cup {w}
  /\ UNCHANGED <<status, got, handlers, workerQ, peers, closed,
                 toWorker, restart, workerVars, crashes, restarts>>

(* Mutant: the answer is given to the request without removing the handler. *)
ResolveKeep(r, ok) ==
  /\ r \in handlers
  /\ UNCHANGED handlers
  /\ status' = [status EXCEPT ![r] = IF ok THEN "result" ELSE "error"]

(* The pending future of r is popped and resolved.  An answer that cannot  *)
(* be unpickled is an exception too (ok = FALSE).                          *)
Resolve(r, ok) ==
  /\ r \in handlers
  /\ handlers' = handlers \ {r}
  /\ status' = [status EXCEPT ![r] = IF ok THEN "result" ELSE "error"]

PollReply(w) ==
  /\ Incoming(w, "REPLY")
  /\ LET m == Head(toClient[w]) IN
       \/ Resolve(m.req, m.ok)
       \/ /\ m.req \notin handlers  \* "No pending future found for message"
          /\ UNCHANGED <<handlers, status>>
  /\ UNCHANGED <<got, workerQ, workerS, peers, closed,
                 toWorker, restart, workerVars, auxVars>>

(* close: polling is cancelled and the socket closed. *)
Close ==
  /\ CanClose
  /\ ~closed
  /\ closed' = TRUE
  /\ peers' = {}
  /\ UNCHANGED <<status, got, handlers, workerQ, workerS,
                 toWorker, toClient, restart, workerVars, auxVars>>

(* The ROUTER socket notices that the connection of w is closed. *)
PeerGone(w) ==
  /\ w \in peers
  /\ pc[w] \in Gone \cup {"reaped"}
  /\ peers' = peers \ {w}
  /\ UNCHANGED <<status, got, handlers, workerQ, workerS, closed,
                 toWorker, toClient, restart, workerVars, auxVars>>

-------------------------------------------------------------------------------
(* The worker processes: worker_handler                                    *)

MoreCycles(w) == MaxCycles # NoLimit => completed[w] < MaxCycles

(* sock.send blocks while the buffers of the socket are full. *)
Send(w, m) ==
  /\ Len(toClient[w]) < ChanCap
  /\ toClient' = [toClient EXCEPT ![w] = Append(@, m)]

Goto(w, label) == pc' = [pc EXCEPT ![w] = label]

(* The head of the loop, reached once the worker is initialized and its    *)
(* socket connected, or after a cycle that saw no RESTART (none was sent,  *)
(* or it has not arrived yet).                                             *)
SendReady(w) ==
  /\ pc[w] \in {"starting", "check"}
  /\ MoreCycles(w)
  /\ Send(w, READY)
  /\ Goto(w, "recv")
  /\ peers' = IF closed THEN peers ELSE peers \cup {w}
  /\ UNCHANGED <<status, got, handlers, workerQ, workerS, closed, toWorker,
                 restart, job, completed, started, auxVars>>

(* maxcycles reached: the worker exits without a WORKER_DONE. *)
EndOfLife(w) ==
  /\ pc[w] \in {"starting", "check"}
  /\ ~MoreCycles(w)
  /\ Goto(w, "exited")
  /\ restart' = restart \ {w}
  /\ UNCHANGED <<clientVars, toWorker, toClient, job, completed, started, auxVars>>

(* Mutant: the worker forgets the id of the request. *)
ReceiveNoId(w) ==
  /\ pc[w] = "recv"
  /\ toWorker[w] # <<>>
  /\ toWorker' = [toWorker EXCEPT ![w] = Tail(@)]
  /\ started' = started \cup {Head(toWorker[w])}
  /\ Goto(w, "busy")
  /\ UNCHANGED <<clientVars, toClient, restart, job, completed, auxVars>>

(* Mutant: the request is run from a copy that is left in the socket. *)
ReceiveKeep(w) ==
  /\ pc[w] = "recv"
  /\ toWorker[w] # <<>>
  /\ job' = [job EXCEPT ![w] = Head(toWorker[w])]
  /\ started' = started \cup {Head(toWorker[w])}
  /\ Goto(w, "busy")
  /\ UNCHANGED <<clientVars, toWorker, toClient, restart, completed, auxVars>>

Receive(w) ==
  /\ pc[w] = "recv"
  /\ toWorker[w] # <<>>
  /\ toWorker' = [toWorker EXCEPT ![w] = Tail(@)]
  /\ job' = [job EXCEPT ![w] = Head(toWorker[w])]
  /\ started' = started \cup {Head(toWorker[w])}
  /\ Goto(w, "busy")
  /\ UNCHANGED <<clientVars, toClient, restart, completed, auxVars>>

(* RCVTIMEO: nothing came for a second, the worker goes round its loop and *)
(* announces itself again.                                                 *)
Heartbeat(w) ==
  /\ pc[w] = "recv"
  /\ toWorker[w] = <<>>
  /\ Goto(w, "check")
  /\ UNCHANGED <<clientVars, toWorker, toClient, restart, job, completed, started, auxVars>>

(* The job returns (ok) or raises, and the answer is sent. *)
Finish(w) ==
  /\ pc[w] = "busy"
  /\ \E ok \in BOOLEAN : Send(w, Reply(job[w], ok))
  /\ job' = [job EXCEPT ![w] = None]
  /\ completed' = [completed EXCEPT ![w] = @ + 1]
  /\ Goto(w, "check")
  /\ UNCHANGED <<clientVars, toWorker, restart, started, auxVars>>

(* Mutant: the exit is announced, but the loop goes on. *)
SeeRestartContinue(w) ==
  /\ pc[w] = "check"
  /\ w \in restart
  /\ Send(w, DONE)
  /\ restart' = restart \ {w}
  /\ UNCHANGED <<clientVars, toWorker, pc, job, completed, started, auxVars>>

SeeRestart(w) ==
  /\ pc[w] = "check"
  /\ w \in restart
  /\ Send(w, DONE)
  /\ Goto(w, "exited")
  /\ restart' = restart \ {w}
  /\ UNCHANGED <<clientVars, toWorker, job, completed, started, auxVars>>

(* The process dies: killed by the supervisor, crashed, out of memory, or  *)
(* its answer cannot be pickled.  What it has not flushed is lost.         *)
Crash(w) ==
  /\ crashes < MaxCrashes
  /\ pc[w] \in Alive
  /\ crashes' = crashes + 1
  /\ Goto(w, "failed")
  /\ job' = [job EXCEPT ![w] = None]
  /\ restart' = restart \ {w}
  /\ \E k \in 0 .. Len(toClient[w]) :
       toClient' = [toClient EXCEPT ![w] = SubSeq(@, 1, k)]
  /\ UNCHANGED <<clientVars, toWorker, completed, started, announced, restarts>>

-------------------------------------------------------------------------------
(* The pool process and the server: maintain_pool and broadcast            *)

InState(S) == {w \in Workers : pc[w] \in S}

(* Mutant: the exited processes are joined and not replaced. *)
MaintainPoolReapOnly ==
  /\ InState(Gone) # {}
  /\ pc' = [w \in Workers |-> IF pc[w] \in Gone THEN "reaped" ELSE pc[w]]
  /\ UNCHANGED <<clientVars, toWorker, toClient, restart, job, completed, started, auxVars>>

(* _join_exited_workers, then _repopulate_pool: as many processes as the   *)
(* pool misses (as far as Workers has unused members).                     *)
MaintainPool ==
  LET missing == NumWorkers - Cardinality(InState(Alive))
      unborn  == InState({"unborn"})
  IN
  /\ InState(Gone) # {}
  /\ \E new \in SUBSET unborn :
       /\ Cardinality(new) = IF missing <= Cardinality(unborn)
                             THEN missing ELSE Cardinality(unborn)
       /\ pc' = [w \in Workers |-> IF w \in new THEN "starting"
                                   ELSE IF pc[w] \in Gone THEN "reaped"
                                   ELSE pc[w]]
  /\ UNCHANGED <<clientVars, toWorker, toClient, restart, job, completed, started, auxVars>>

(* The RESTART of the PUB socket reaches every worker that is connected;   *)
(* one that is starting may not be.                                        *)
Restart ==
  /\ restarts < MaxRestarts
  /\ restarts' = restarts + 1
  /\ \E missed \in SUBSET InState({"starting"}) :
       restart' = restart \cup (InState(Alive) \ missed)
  /\ UNCHANGED <<clientVars, toWorker, toClient, workerVars, announced, crashes>>

-------------------------------------------------------------------------------
Timeout(r) == WaitTimeout(r) \/ ReplyTimeout(r)
Task(r)    == Submit(r) \/ PopWorker(r) \/ Retry(r) \/ Dispatch(r) \/ Unreachable(r)
Poll(w)    == PollReady(w) \/ PollDone(w) \/ PollReply(w)
Work(w)    == \/ SendReady(w) \/ EndOfLife(w) \/ Receive(w)
              \/ Heartbeat(w) \/ Finish(w) \/ SeeRestart(w)

Next ==
  \/ \E r \in Requests : Task(r) \/ Timeout(r)
  \/ \E w \in Workers : Poll(w) \/ PeerGone(w) \/ Work(w) \/ Crash(w)
  \/ MaintainPool
  \/ Restart
  \/ Close

Spec == Init /\ [][Next]_vars

(* The event loop runs the tasks and the polling, the kernel runs the      *)
(* worker processes, and the pool process wakes up every 0.1 s.  Crashes,  *)
(* RESTART broadcasts, close and the submission of requests are not fair.  *)
(* A RESTART that was published reaches its subscriber, although not at    *)
(* once (SF).                                                              *)
Fairness ==
  /\ \A r \in Requests :
       WF_vars(PopWorker(r) \/ Retry(r) \/ Dispatch(r) \/ Unreachable(r))
  /\ \A w \in Workers : WF_vars(Poll(w)) /\ WF_vars(PeerGone(w)) /\ WF_vars(Work(w))
  /\ \A w \in Workers : SF_vars(SeeRestart(w))
  /\ WF_vars(MaintainPool)

(* Timers of asyncio.wait_for expire. *)
TimerFairness == \A r \in Requests : WF_vars(Timeout(r))

FairSpec == Spec /\ Fairness /\ TimerFairness

(* A calm pool: no timeout, crash, RESTART, close or exit; what is left is *)
(* the protocol alone.                                                     *)
CalmNext ==
  \/ \E r \in Requests : Task(r)
  \/ \E w \in Workers : Poll(w) \/ Work(w)

CalmSpec == Init /\ [][CalmNext]_vars /\ Fairness

-------------------------------------------------------------------------------
(* Safety                                                                  *)

(* The pending futures in _handlers are those of the requests that wait    *)
(* for an answer: the `finally` of _apply_async and the pop of _poll       *)
(* neither leak a handler nor drop one whose caller still waits.           *)
HandlersArePending == handlers = {r \in Requests : status[r] = "sent"}

Queued(w) == \E i \in DOMAIN workerQ : workerQ[i] = w
Held(w)   == \E r \in Requests : got[r] = w

(* _worker_q and _worker_s agree: an id is at one place at most (once in   *)
(* the queue, or taken out of it by one task), every listed worker is      *)
(* there to be taken, and what is there without being listed is a worker   *)
(* that has announced its exit.                                            *)
WorkerListOK ==
  /\ \A i, j \in DOMAIN workerQ : workerQ[i] = workerQ[j] => i = j
  /\ \A r1, r2 \in Requests : got[r1] = got[r2] /\ got[r1] # None => r1 = r2
  /\ \A w \in Workers : ~ (Queued(w) /\ Held(w))
  /\ \A w \in workerS : Queued(w) \/ Held(w)
  /\ \A w \in Workers : (Queued(w) \/ Held(w)) /\ w \notin workerS => w \in announced

(* A worker that has announced its exit is never listed again, whatever    *)
(* was still in transit: no request is sent to it.                         *)
AnnouncedNeverListed == announced \cap workerS = {}

InInbox(r, w) == \E i \in DOMAIN toWorker[w] : toWorker[w][i] = r
InReply(r, w) == \E i \in DOMAIN toClient[w] : /\ toClient[w][i].kind = "REPLY"
                                               /\ toClient[w][i].req = r

(* A request is sent to one worker: it is in one inbox, or being run by    *)
(* one worker, or answered by one message, whatever the client thinks of   *)
(* it, and it is nowhere before it is sent.                                *)
OnePlace ==
  \A r \in Requests :
    /\ \A w1, w2 \in Workers :
         /\ InInbox(r, w1) => job[w2] # r /\ ~InReply(r, w2)
         /\ job[w1] = r => ~InReply(r, w2)
         /\ w1 # w2 => ~ \/ InInbox(r, w1) /\ InInbox(r, w2)
                         \/ job[w1] = r /\ job[w2] = r
                         \/ InReply(r, w1) /\ InReply(r, w2)
    /\ \A w \in Workers :
         InInbox(r, w) \/ job[w] = r \/ InReply(r, w) => status[r] \in {"sent", "timeout"}

(* The pool keeps the promise of RequestService. *)
Outcome == [r \in Requests |-> IF status[r] \in Finished THEN status[r] ELSE "none"]
Service == INSTANCE RequestService WITH outcome <- Outcome
Promise == Service!Spec

-------------------------------------------------------------------------------
(* Liveness                                                                *)

(* Whatever crashes, restarts or is closed, a request that entered         *)
(* apply_async ends: its caller is never left waiting.                     *)
Completes == \A r \in Requests : status[r] = "waiting" ~> status[r] \in Finished

(* A worker that received a RESTART does not take requests for ever: it    *)
(* exits (or blocks in a send once the client is closed).                  *)
RestartHonoured ==
  \A w \in Workers : w \in restart ~> pc[w] \in Gone \cup {"reaped"} \/ closed

(* Once nothing happens any more the pool is back to its size and every    *)
(* worker of it is listed by the client, unless it was closed: no worker   *)
(* is lost to a READY that was swallowed, to an exit or to a job that was  *)
(* killed.                                                                 *)
PoolRecovers ==
  <>[] /\ Cardinality(InState(Alive)) = NumWorkers
       /\ closed \/ \A w \in InState(Alive) : w \in workerS /\ Queued(w)

(* In a calm pool whose workers do not retire no request needs its         *)
(* timeout: each one gets its answer, even when a busy worker was listed   *)
(* and got a second request.                                               *)
EveryAnswered == \A r \in Requests : status[r] = "waiting" ~> status[r] \in Answers

-------------------------------------------------------------------------------
(* What the documentation says and the code does not do                    *)

(* config.yml:198 "The restart is graceful, jobs terminate normally":      *)
(* where workers exit only because of a RESTART, none leaves behind a      *)
(* request whose caller waits for an answer.                               *)
RestartIsGraceful ==
  \A w \in Workers, r \in Requests :
    pc[w] \in Gone \cup {"reaped"} /\ InInbox(r, w) => status[r] # "sent"
===============================================================================
