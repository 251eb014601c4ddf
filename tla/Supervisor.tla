------------------------------ MODULE Supervisor ------------------------------
(***************************************************************************)
(* The supervisor of pyqgiswps/poolserver/supervisor.py: it kills the      *)
(* worker processes whose job lasts longer than the server's response      *)
(* timeout, or is dismissed.                                               *)
(*                                                                         *)
(* Workers tell it over PUSH/PULL sockets that they are BUSY or DONE; the  *)
(* server process keeps, by process id, a timer of its event loop.  The    *)
(* server is one thread: between the two halves of a dismissal (the read   *)
(* of the pid in the job record, the kill) only workers move.              *)
(*                                                                         *)
(* A job is a number, and a timer bears the number of the job it was armed *)
(* for: the BUSY message carries it here, as a history.  Time is relative: *)
(* a tick takes one from what is left of every timer and adds one to the   *)
(* age of every job, so that the clock needs no bound.                     *)
(***************************************************************************)
EXTENDS Integers, Sequences, FiniteSets

CONSTANTS
  Procs,        \* worker processes, in the whole life of the server
  Pids,         \* process ids
  None,         \* no process id
  Timeout,      \* timeout: the server's response_timeout, in ticks
  PidReuse,     \* whether the system may give the pid of a dead process again
  MaxJobs,      \* bound: jobs started
  MaxCrashes,   \* bound: processes that die by themselves
  MaxLost,      \* bound: notifications that never reach the supervisor
  MaxDismissals \* bound: dismissals

ASSUME NoneAssumption == None \notin Pids
ASSUME BoundsAssumption ==
  /\ Timeout \in Nat \ {0}
  /\ PidReuse \in BOOLEAN
  /\ MaxJobs \in Nat /\ MaxCrashes \in Nat
  /\ MaxLost \in Nat /\ MaxDismissals \in Nat

VARIABLES
  proc,        \* proc[w]: "unborn", "idle", "busy" or "dead"
  pid,         \* pid[w]
  job,         \* job[w]: the job w runs, or ran last; 0 before the first
  age,         \* age[w]: the age of that job, no longer counted past Timeout
  recorded,    \* recorded[w]: the record of that job holds the pid of w
  chan,        \* chan[w]: notifications of w not yet received
  busy,        \* busy[p]: the timer of _busy, 0 when p has no entry
  armed,       \* timers of the event loop that neither fired nor were cancelled
  running,     \* the supervisor was not stopped
  dismissing,  \* the pid read by a dismissal under way
  target,      \* the job it dismisses (history)
  jobs, crashes, lost, dismissals  \* counters of the bounds

procVars   == <<proc, pid, job, age, recorded>>
dismissVars == <<dismissing, target>>
serverVars == <<busy, armed, running>>
counters   == <<jobs, crashes, lost, dismissals>>
vars == <<procVars, chan, serverVars, dismissVars, counters>>

Jobs  == 0 .. MaxJobs
Timer == [pid : Pids, job : 1 .. MaxJobs, left : 0 .. Timeout]
Notif == [kind : {"BUSY", "DONE"}, job : 1 .. MaxJobs]

(* Type correctness: 0 is no job and no timer.                             *)
TypeOK ==
  /\ proc \in [Procs -> {"unborn", "idle", "busy", "dead"}]
  /\ pid \in [Procs -> Pids \cup {None}]
  /\ \A w \in Procs : proc[w] = "unborn" <=> pid[w] = None
  /\ job \in [Procs -> Jobs]
  /\ age \in [Procs -> 0 .. Timeout]
  /\ recorded \in [Procs -> BOOLEAN]
  /\ chan \in [Procs -> Seq(Notif)]
  /\ busy \in [Pids -> Jobs]
  /\ armed \in SUBSET Timer
  /\ running \in BOOLEAN
  /\ dismissing \in Pids \cup {None}
  /\ target \in Jobs
  /\ jobs \in Jobs /\ crashes \in Nat /\ lost \in Nat /\ dismissals \in Nat

Init ==
  /\ proc = [w \in Procs |-> "unborn"]
  /\ pid = [w \in Procs |-> None]
  /\ job = [w \in Procs |-> 0]
  /\ age = [w \in Procs |-> 0]
  /\ recorded = [w \in Procs |-> FALSE]
  /\ chan = [w \in Procs |-> <<>>]
  /\ busy = [p \in Pids |-> 0]
  /\ armed = {}
  /\ running = TRUE
  /\ dismissing = None
  /\ target = 0
  /\ jobs = 0 /\ crashes = 0 /\ lost = 0 /\ dismissals = 0

Live(w) == proc[w] \in {"idle", "busy"}

-------------------------------------------------------------------------------
(* The worker processes                                                    *)

(* Mutant: the worker does not keep its pid. *)
SpawnNoPid(w) ==
  /\ proc[w] = "unborn"
  /\ proc' = [proc EXCEPT ![w] = "idle"]
  /\ UNCHANGED <<pid, job, age, recorded, chan, serverVars, dismissVars, counters>>

(* The system gives a pid that no process has. *)
Spawn(w) ==
  /\ proc[w] = "unborn"
  /\ \E p \in Pids :
       /\ \A v \in Procs : pid[v] = p => PidReuse /\ ~Live(v)
       /\ pid' = [pid EXCEPT ![w] = p]
  /\ proc' = [proc EXCEPT ![w] = "idle"]
  /\ UNCHANGED <<job, age, recorded, chan, serverVars, dismissVars, counters>>

(* Client._send: DONTWAIT and EAGAIN ignored, so that a notification may   *)
(* be dropped; or it is lost later, with the process that sent it.         *)
Notify(w, kind, j) ==
  \/ chan' = [chan EXCEPT ![w] = Append(@, [kind |-> kind, job |-> j])] /\ UNCHANGED lost
  \/ lost < MaxLost /\ lost' = lost + 1 /\ UNCHANGED chan

(* notify_busy; the job begins and writes the pid in its record. *)
StartJob(w) ==
  /\ proc[w] = "idle"
  /\ jobs < MaxJobs
  /\ jobs' = jobs + 1
  /\ proc' = [proc EXCEPT ![w] = "busy"]
  /\ job' = [job EXCEPT ![w] = jobs + 1]
  /\ age' = [age EXCEPT ![w] = 0]
  /\ recorded' = [recorded EXCEPT ![w] = TRUE]
  /\ Notify(w, "BUSY", jobs + 1)
  /\ UNCHANGED <<pid, serverVars, dismissVars, crashes, dismissals>>

(* Mutant: a job that ends is not notified. *)
EndJobSilent(w) ==
  /\ proc[w] = "busy"
  /\ proc' = [proc EXCEPT ![w] = "idle"]
  /\ recorded' = [recorded EXCEPT ![w] = FALSE]
  /\ UNCHANGED <<pid, job, age, chan, serverVars, dismissVars, counters>>

(* The job removes the pid from its record and ends; notify_done. *)
EndJob(w) ==
  /\ proc[w] = "busy"
  /\ proc' = [proc EXCEPT ![w] = "idle"]
  /\ recorded' = [recorded EXCEPT ![w] = FALSE]
  /\ Notify(w, "DONE", job[w])
  /\ UNCHANGED <<pid, job, age, serverVars, dismissVars, jobs, crashes, dismissals>>

(* End of life or restart of an idle worker. *)
Exit(w) ==
  /\ proc[w] = "idle"
  /\ proc' = [proc EXCEPT ![w] = "dead"]
  /\ UNCHANGED <<pid, job, age, recorded, chan, serverVars, dismissVars, counters>>

(* The record of the job keeps the pid. *)
Crash(w) ==
  /\ crashes < MaxCrashes
  /\ proc[w] = "busy"
  /\ crashes' = crashes + 1
  /\ proc' = [proc EXCEPT ![w] = "dead"]
  /\ UNCHANGED <<pid, job, age, recorded, chan, serverVars, dismissVars,
                 jobs, lost, dismissals>>

-------------------------------------------------------------------------------
(* The server process.  None of its steps interrupts a dismissal.          *)

(* os.kill(pid, SIGKILL): whatever process has that pid now; nothing when  *)
(* none has (ProcessLookupError, or a zombie).                             *)
KillPid(p) ==
  proc' = [w \in Procs |-> IF pid[w] = p /\ Live(w) THEN "dead" ELSE proc[w]]

(* recv_multipart, before the socket is closed. *)
Received(w, kind) ==
  /\ running
  /\ dismissing = None
  /\ chan[w] # <<>>
  /\ Head(chan[w]).kind = kind
  /\ chan' = [chan EXCEPT ![w] = Tail(@)]

(* Mutant: no timer is armed. *)
ReceiveBusyNoTimer(w) ==
  /\ Received(w, "BUSY")
  /\ busy' = [busy EXCEPT ![pid[w]] = Head(chan[w]).job]
  /\ UNCHANGED <<procVars, armed, running, dismissVars, counters>>

(* The entry of the pid is overwritten; a timer it held stays armed. *)
ReceiveBusy(w) ==
  /\ Received(w, "BUSY")
  /\ busy' = [busy EXCEPT ![pid[w]] = Head(chan[w]).job]
  /\ armed' = armed \cup {[pid |-> pid[w], job |-> Head(chan[w]).job, left |-> Timeout]}
  /\ UNCHANGED <<procVars, running, dismissVars, counters>>

Cancelled(js) == {t \in armed : t.job \notin js}

(* Mutant: the entry is removed and its timer not cancelled. *)
ReceiveDoneNoCancel(w) ==
  /\ Received(w, "DONE")
  /\ busy' = [busy EXCEPT ![pid[w]] = 0]
  /\ UNCHANGED <<procVars, armed, running, dismissVars, counters>>

(* _busy.pop(pid).cancel(), nothing when the entry is not there. *)
ReceiveDone(w) ==
  /\ Received(w, "DONE")
  /\ armed' = Cancelled({busy[pid[w]]})
  /\ busy' = [busy EXCEPT ![pid[w]] = 0]
  /\ UNCHANGED <<procVars, running, dismissVars, counters>>

(* The entry goes and the process is killed; without an entry, KeyError    *)
(* comes before the kill.                                                  *)
KillBusy(p) ==
  \/ busy[p] = 0 /\ UNCHANGED <<busy, proc>>
  \/ busy[p] # 0 /\ busy' = [busy EXCEPT ![p] = 0] /\ KillPid(p)

(* Mutant: the entry stays when its timer fires. *)
FireKeepEntry(t) ==
  /\ t \in armed
  /\ t.left = 0
  /\ dismissing = None
  /\ armed' = armed \ {t}
  /\ KillPid(t.pid)
  /\ UNCHANGED <<pid, job, age, recorded, chan, busy, running, dismissVars, counters>>

(* The callback `kill`: it does not look which timer the entry holds.      *)
Fire(t) ==
  /\ t \in armed
  /\ t.left = 0
  /\ dismissing = None
  /\ armed' = armed \ {t}
  /\ KillBusy(t.pid)
  /\ UNCHANGED <<pid, job, age, recorded, chan, running, dismissVars, counters>>

(* A dismissal reads the pid in the record of a job, that it will delete.  *)
(* Where the client's timeout or the cleanup changed the record first      *)
(* there is no pid to read, and this step is not taken.                    *)
DismissRead(w) ==
  /\ dismissals < MaxDismissals
  /\ dismissing = None
  /\ recorded[w]
  /\ dismissals' = dismissals + 1
  /\ dismissing' = pid[w]
  /\ target' = job[w]
  /\ recorded' = [recorded EXCEPT ![w] = FALSE]
  /\ UNCHANGED <<proc, pid, job, age, chan, serverVars, jobs, crashes, lost>>

(* Mutant: the process is killed without a look at _busy. *)
KillWorkerBusyAlways ==
  /\ dismissing # None
  /\ dismissing' = None
  /\ busy' = [busy EXCEPT ![dismissing] = 0]
  /\ KillPid(dismissing)
  /\ UNCHANGED <<pid, job, age, recorded, chan, armed, running, target, counters>>

(* kill_worker_busy: the timer of the entry stays armed. *)
KillWorkerBusy ==
  /\ dismissing # None
  /\ dismissing' = None
  /\ KillBusy(dismissing)
  /\ UNCHANGED <<pid, job, age, recorded, chan, armed, running, target, counters>>

(* Mutant: neither the timers nor the table are cleared. *)
StopKeepTable ==
  /\ running
  /\ dismissing = None
  /\ running' = FALSE
  /\ UNCHANGED <<procVars, chan, busy, armed, dismissVars, counters>>

(* stop: the timers of _busy are cancelled, the others are not. *)
Stop ==
  /\ running
  /\ dismissing = None
  /\ running' = FALSE
  /\ armed' = Cancelled({busy[p] : p \in Pids})
  /\ busy' = [p \in Pids |-> 0]
  /\ UNCHANGED <<procVars, chan, dismissVars, counters>>

(* One unit of time; each timer that is due waits for the event loop.      *)
Tick ==
  /\ armed' = {[t EXCEPT !.left = IF @ = 0 THEN 0 ELSE @ - 1] : t \in armed}
  /\ age' = [w \in Procs |-> IF age[w] < Timeout THEN age[w] + 1 ELSE age[w]]
  /\ UNCHANGED <<proc, pid, job, recorded, chan, busy, running, dismissVars, counters>>

Serve(w) == ReceiveBusy(w) \/ ReceiveDone(w)
Expire   == \E t \in armed : Fire(t)

Next ==
  \/ \E w \in Procs : \/ Spawn(w) \/ StartJob(w) \/ EndJob(w) \/ Exit(w) \/ Crash(w)
                      \/ Serve(w) \/ DismissRead(w)
  \/ Expire
  \/ KillWorkerBusy
  \/ Stop
  \/ Tick

Spec == Init /\ [][Next]_vars

(* The event loop of the server runs: it receives, and it runs the timers  *)
(* that are due.  Nothing says that jobs end.                              *)
Fairness ==
  /\ \A w \in Procs : WF_vars(Serve(w))
  /\ WF_vars(Expire)
  /\ WF_vars(KillWorkerBusy)
  /\ WF_vars(Tick)

FairSpec == Spec /\ Fairness

-------------------------------------------------------------------------------
(* Properties.  What is promised of timers needs that notifications arrive *)
(* and that no two processes had the same pid: see the README.             *)

OnePidEach == \A v, w \in Procs : pid[v] = pid[w] /\ v # w => pid[v] = None
Reliable   == lost = 0 /\ OnePidEach

InTransit(w, kind) == \E i \in DOMAIN chan[w] : chan[w][i].kind = kind

(* Every entry of _busy has its timer in the event loop: `kill` and DONE   *)
(* remove the two together, BUSY writes the two together.  An entry        *)
(* without a timer would name a process that nothing kills.                *)
EntriesAreArmed ==
  \A p \in Pids : busy[p] # 0 => \E t \in armed : t.pid = p /\ t.job = busy[p]

(* While the supervisor runs, a worker whose notifications were all        *)
(* received has an entry exactly when it runs a job, and the timer in it   *)
(* is that job's and leaves it its whole time.                             *)
Supervised ==
  Reliable /\ running =>
    \A w \in Procs :
      chan[w] = <<>> /\ Live(w) =>
        /\ proc[w] = "idle" => busy[pid[w]] = 0
        /\ proc[w] = "busy" =>
             /\ busy[pid[w]] = job[w]
             /\ \A t \in armed : t.pid = pid[w] => t.job = job[w] /\ t.left + age[w] >= Timeout

(* A timer kills a worker in the middle of a job only when the job had its *)
(* whole time, or when the DONE of an earlier job of that worker is still  *)
(* to be received: the timer of a finished job is no danger to the next.   *)
NoEarlyKill ==
  [][ \A w \in Procs :
        (/\ Reliable
         /\ armed' # armed /\ busy' # busy
         /\ proc[w] = "busy" /\ proc'[w] = "dead")
          => age[w] = Timeout \/ InTransit(w, "DONE") ]_vars

(* A dismissal kills a worker that the supervisor was told to be busy with *)
(* the dismissed job, or one that finished it and whose DONE is still to   *)
(* be received; never one whose BUSY it did not get.                       *)
DismissalKillsAnnounced ==
  [][ \A w \in Procs :
        (/\ Reliable
         /\ dismissing # None /\ dismissing' = None
         /\ Live(w) /\ proc'[w] = "dead")
          => \/ proc[w] = "busy" /\ job[w] = target /\ chan[w] = <<>>
             \/ InTransit(w, "DONE") ]_vars

(* After stop the supervisor kills nobody, whatever is in transit, due or  *)
(* dismissed: a worker dies in its job only by itself.                     *)
StopIsFinal ==
  [][ \A w \in Procs :
        (~running /\ proc[w] = "busy" /\ proc'[w] = "dead") => crashes' > crashes ]_vars

(* With reliable notifications, a job that never ends is killed:           *)
(* config.yml:131 says of response_timeout that a "Task running longer     *)
(* that this time will be aborted".                                        *)
StalledIsKilled ==
  \A w \in Procs, j \in 1 .. MaxJobs :
    (proc[w] = "busy" /\ job[w] = j /\ Reliable)
      ~> (proc[w] # "busy" \/ job[w] # j \/ ~running)

(* The entry of a process that died, with its DONE or without it, does not *)
(* stay in the table.                                                      *)
TableDrains ==
  \A p \in Pids :
    (busy[p] # 0 /\ \A w \in Procs : pid[w] = p => ~Live(w))
      ~> (busy[p] = 0 \/ \E w \in Procs : pid[w] = p /\ Live(w))

===============================================================================
