--------------------------- MODULE Supervisor_proofs ---------------------------
(***************************************************************************)
(* Proofs about Supervisor, for every set of processes and of process ids  *)
(* and every value of the bounds.                                          *)
(***************************************************************************)
EXTENDS Supervisor, TLAPS

USE NoneAssumption, BoundsAssumption

-------------------------------------------------------------------------------
(* Types.  Only a process that was born sends notifications, and only for  *)
(* a job.                                                                  *)

BusyHasJob == \A w \in Procs : proc[w] = "busy" => job[w] # 0
SenderBorn == \A w \in Procs : chan[w] # <<>> => proc[w] # "unborn"

TypeInv == TypeOK /\ BusyHasJob /\ SenderBorn

(* A notification joins the others, or is lost.                            *)
LEMMA NotifyType ==
  ASSUME TypeInv, NEW w \in Procs, NEW kind \in {"BUSY", "DONE"}, NEW j \in 1 .. MaxJobs,
         Notify(w, kind, j), proc[w] # "unborn"
  PROVE  /\ chan' \in [Procs -> Seq(Notif)]
         /\ \A v \in Procs : chan'[v] # <<>> => proc[v] # "unborn"
         /\ lost' \in Nat
<1>1. [kind |-> kind, job |-> j] \in Notif
  BY DEF Notif
<1>2. CASE chan' = [chan EXCEPT ![w] = Append(@, [kind |-> kind, job |-> j])] /\ UNCHANGED lost
  <2>1. chan[w] \in Seq(Notif)
    BY DEF TypeInv, TypeOK
  <2>2. Append(chan[w], [kind |-> kind, job |-> j]) \in Seq(Notif)
    BY <1>1, <2>1
  <2> QED
    BY <1>2, <2>2 DEF TypeInv, TypeOK, SenderBorn
<1>3. CASE lost < MaxLost /\ lost' = lost + 1 /\ UNCHANGED chan
  BY <1>3 DEF TypeInv, TypeOK, SenderBorn
<1> QED
  BY <1>2, <1>3 DEF Notify

(* What the supervisor receives comes from a process with a pid.           *)
LEMMA ReceivedType ==
  ASSUME TypeInv, NEW w \in Procs, NEW kind \in {"BUSY", "DONE"}, Received(w, kind)
  PROVE  /\ pid[w] \in Pids
         /\ Head(chan[w]) \in Notif
         /\ Head(chan[w]).job \in 1 .. MaxJobs
         /\ chan' \in [Procs -> Seq(Notif)]
         /\ \A v \in Procs : chan'[v] # <<>> => chan[v] # <<>>
<1>1. chan[w] \in Seq(Notif) /\ chan[w] # <<>>
  BY DEF Received, TypeInv, TypeOK
<1>2. Head(chan[w]) \in Notif /\ Tail(chan[w]) \in Seq(Notif)
  BY <1>1
<1>3. pid[w] \in Pids
  BY <1>1 DEF TypeInv, TypeOK, SenderBorn
<1> QED
  BY <1>1, <1>2, <1>3 DEF Received, TypeInv, TypeOK, Notif

(* A kill leaves processes born.                                           *)
LEMMA KillType ==
  ASSUME TypeInv, NEW p \in Pids, KillBusy(p)
  PROVE  /\ proc' \in [Procs -> {"unborn", "idle", "busy", "dead"}]
         /\ \A w \in Procs : proc'[w] = "unborn" <=> proc[w] = "unborn"
         /\ \A w \in Procs : proc'[w] = "busy" => proc[w] = "busy"
         /\ busy' \in [Pids -> Jobs]
<1>1. CASE busy[p] = 0 /\ UNCHANGED <<busy, proc>>
  BY <1>1 DEF TypeInv, TypeOK
<1>2. CASE busy[p] # 0 /\ busy' = [busy EXCEPT ![p] = 0] /\ KillPid(p)
  <2>1. proc' = [w \in Procs |-> IF pid[w] = p /\ Live(w) THEN "dead" ELSE proc[w]]
    BY <1>2 DEF KillPid
  <2>2. \A w \in Procs : proc[w] \in {"unborn", "idle", "busy", "dead"}
    BY DEF TypeInv, TypeOK
  <2>3. busy' \in [Pids -> Jobs]
    BY <1>2 DEF TypeInv, TypeOK, Jobs
  <2> QED
    BY <2>1, <2>2, <2>3 DEF Live
<1> QED
  BY <1>1, <1>2 DEF KillBusy

(* Initially everything has its type.                                      *)
LEMMA InitType == Init => TypeInv
BY DEF Init, TypeInv, TypeOK, BusyHasJob, SenderBorn, Jobs

(* Every step keeps the types.                                             *)
LEMMA NextType == TypeInv /\ [Next]_vars => TypeInv'
<1> SUFFICES ASSUME TypeInv, [Next]_vars PROVE TypeInv'
  OBVIOUS
<1> USE DEF TypeInv
<1>1. ASSUME NEW w \in Procs, Spawn(w) PROVE TypeInv'
  BY <1>1 DEF Spawn, TypeOK, BusyHasJob, SenderBorn, serverVars, dismissVars, counters
<1>2. ASSUME NEW w \in Procs, StartJob(w) PROVE TypeInv'
  <2>1. jobs + 1 \in 1 .. MaxJobs
    BY <1>2 DEF StartJob, TypeOK, Jobs
  <2>2. /\ chan' \in [Procs -> Seq(Notif)]
        /\ \A v \in Procs : chan'[v] # <<>> => proc[v] # "unborn"
        /\ lost' \in Nat
    BY <1>2, <2>1, NotifyType DEF StartJob
  <2>3. /\ proc' = [proc EXCEPT ![w] = "busy"]
        /\ job' = [job EXCEPT ![w] = jobs + 1] /\ jobs' = jobs + 1
        /\ age' = [age EXCEPT ![w] = 0] /\ recorded' = [recorded EXCEPT ![w] = TRUE]
        /\ proc[w] = "idle"
        /\ UNCHANGED <<pid, busy, armed, running, dismissing, target, crashes, dismissals>>
    BY <1>2 DEF StartJob, serverVars, dismissVars
  <2>4. TypeOK'
    BY <2>1, <2>2, <2>3 DEF TypeOK, Jobs
  <2>5. BusyHasJob' /\ SenderBorn'
    BY <2>1, <2>2, <2>3 DEF TypeOK, BusyHasJob, SenderBorn
  <2> QED
    BY <2>4, <2>5
<1>3. ASSUME NEW w \in Procs, EndJob(w) PROVE TypeInv'
  <2>1. job[w] \in 1 .. MaxJobs
    BY <1>3 DEF EndJob, TypeOK, BusyHasJob, Jobs
  <2>2. /\ chan' \in [Procs -> Seq(Notif)]
        /\ \A v \in Procs : chan'[v] # <<>> => proc[v] # "unborn"
        /\ lost' \in Nat
    BY <1>3, <2>1, NotifyType DEF EndJob
  <2> QED
    BY <1>3, <2>2 DEF EndJob, TypeOK, BusyHasJob, SenderBorn, serverVars, dismissVars
<1>4. ASSUME NEW w \in Procs, Exit(w) PROVE TypeInv'
  BY <1>4 DEF Exit, TypeOK, BusyHasJob, SenderBorn, serverVars, dismissVars, counters
<1>5. ASSUME NEW w \in Procs, Crash(w) PROVE TypeInv'
  BY <1>5 DEF Crash, TypeOK, BusyHasJob, SenderBorn, serverVars, dismissVars
<1>6. ASSUME NEW w \in Procs, ReceiveBusy(w) PROVE TypeInv'
  <2>1. /\ pid[w] \in Pids
        /\ Head(chan[w]).job \in 1 .. MaxJobs
        /\ chan' \in [Procs -> Seq(Notif)]
        /\ \A v \in Procs : chan'[v] # <<>> => chan[v] # <<>>
    BY <1>6, ReceivedType DEF ReceiveBusy
  <2>2. [pid |-> pid[w], job |-> Head(chan[w]).job, left |-> Timeout] \in Timer
    BY <2>1 DEF Timer
  <2>3. busy' \in [Pids -> Jobs] /\ armed' \in SUBSET Timer
    BY <1>6, <2>1, <2>2 DEF ReceiveBusy, TypeOK, Jobs
  <2> QED
    BY <1>6, <2>1, <2>3 DEF ReceiveBusy, TypeOK, BusyHasJob, SenderBorn, procVars, dismissVars, counters
<1>7. ASSUME NEW w \in Procs, ReceiveDone(w) PROVE TypeInv'
  <2>1. /\ chan' \in [Procs -> Seq(Notif)]
        /\ \A v \in Procs : chan'[v] # <<>> => chan[v] # <<>>
    BY <1>7, ReceivedType DEF ReceiveDone
  <2>2. busy' \in [Pids -> Jobs]
    <3>1. busy' = [busy EXCEPT ![pid[w]] = 0]
      BY <1>7 DEF ReceiveDone
    <3>2. busy \in [Pids -> Jobs] /\ 0 \in Jobs
      BY DEF TypeOK, Jobs
    <3> QED
      BY <3>1, <3>2
  <2>3. armed' \in SUBSET Timer
    BY <1>7 DEF ReceiveDone, Cancelled, TypeOK
  <2> QED
    BY <1>7, <2>1, <2>2, <2>3 DEF ReceiveDone, TypeOK, BusyHasJob, SenderBorn, procVars, dismissVars, counters
<1>8. ASSUME NEW w \in Procs, DismissRead(w) PROVE TypeInv'
  BY <1>8 DEF DismissRead, TypeOK, BusyHasJob, SenderBorn, serverVars
<1>9. ASSUME NEW t \in armed, Fire(t) PROVE TypeInv'
  <2>1. t.pid \in Pids
    BY DEF TypeOK, Timer
  <2>2. /\ proc' \in [Procs -> {"unborn", "idle", "busy", "dead"}]
        /\ \A w \in Procs : proc'[w] = "unborn" <=> proc[w] = "unborn"
        /\ \A w \in Procs : proc'[w] = "busy" => proc[w] = "busy"
        /\ busy' \in [Pids -> Jobs]
    BY <1>9, <2>1, KillType DEF Fire
  <2> QED
    BY <1>9, <2>2 DEF Fire, TypeOK, BusyHasJob, SenderBorn, dismissVars, counters
<1>10. CASE KillWorkerBusy
  <2>1. dismissing \in Pids
    BY <1>10 DEF KillWorkerBusy, TypeOK
  <2>2. /\ proc' \in [Procs -> {"unborn", "idle", "busy", "dead"}]
        /\ \A w \in Procs : proc'[w] = "unborn" <=> proc[w] = "unborn"
        /\ \A w \in Procs : proc'[w] = "busy" => proc[w] = "busy"
        /\ busy' \in [Pids -> Jobs]
    BY <1>10, <2>1, KillType DEF KillWorkerBusy
  <2> QED
    BY <1>10, <2>2 DEF KillWorkerBusy, TypeOK, BusyHasJob, SenderBorn, counters
<1>11. CASE Stop
  <2>1. armed' \in SUBSET Timer
    BY <1>11 DEF Stop, Cancelled, TypeOK
  <2>2. busy' \in [Pids -> Jobs] /\ running' \in BOOLEAN
    <3>1. busy' = [p \in Pids |-> 0] /\ running' = FALSE
      BY <1>11 DEF Stop
    <3>2. 0 \in Jobs
      BY DEF Jobs
    <3> QED
      BY <3>1, <3>2
  <2> QED
    BY <1>11, <2>1, <2>2 DEF Stop, TypeOK, BusyHasJob, SenderBorn, procVars, dismissVars, counters
<1>12. CASE Tick
  <2>1. armed' \in SUBSET Timer
    <3>1. ASSUME NEW t \in armed
          PROVE  [t EXCEPT !.left = IF @ = 0 THEN 0 ELSE @ - 1] \in Timer
      <4>1. t \in [pid : Pids, job : 1 .. MaxJobs, left : 0 .. Timeout]
        BY DEF TypeOK, Timer
      <4>2. (IF t.left = 0 THEN 0 ELSE t.left - 1) \in 0 .. Timeout
        BY <4>1
      <4> QED
        BY <4>1, <4>2 DEF Timer
    <3> QED
      BY <3>1, <1>12 DEF Tick
  <2>2. age' \in [Procs -> 0 .. Timeout]
    BY <1>12 DEF Tick, TypeOK
  <2> QED
    BY <1>12, <2>1, <2>2 DEF Tick, TypeOK, BusyHasJob, SenderBorn, dismissVars, counters
<1>13. CASE UNCHANGED vars
  BY <1>13 DEF vars, procVars, serverVars, dismissVars, counters, TypeOK, BusyHasJob, SenderBorn
<1> QED
  BY <1>1, <1>2, <1>3, <1>4, <1>5, <1>6, <1>7, <1>8, <1>9, <1>10, <1>11, <1>12, <1>13
     DEF Next, Serve, Expire

(* The types, and what they rest on, are invariant.                        *)
LEMMA TypeInvariant == Spec => []TypeInv
<1>1. Init => TypeInv
  BY InitType
<1>2. TypeInv /\ [Next]_vars => TypeInv'
  BY NextType
<1> QED
  BY <1>1, <1>2, PTL DEF Spec

(* Type correctness.                                                       *)
THEOREM TypeCorrect == Spec => []TypeOK
BY TypeInvariant, PTL DEF TypeInv

-------------------------------------------------------------------------------
(* After stop the table is empty, and stays so: nothing is received, and   *)
(* without an entry neither a timer nor a dismissal kills.                 *)

StoppedEmpty == ~running => \A p \in Pids : busy[p] = 0

(* Without an entry, nothing dies.                                         *)
LEMMA KillNeedsEntry ==
  ASSUME NEW p, KillBusy(p), busy[p] = 0
  PROVE  UNCHANGED <<busy, proc>>
BY DEF KillBusy

LEMMA InitStopped == Init => StoppedEmpty
BY DEF Init, StoppedEmpty

LEMMA NextStopped == TypeInv /\ StoppedEmpty /\ [Next]_vars => StoppedEmpty'
<1> SUFFICES ASSUME TypeInv, StoppedEmpty, [Next]_vars PROVE StoppedEmpty'
  OBVIOUS
<1> USE DEF StoppedEmpty
<1>1. ASSUME UNCHANGED <<busy, running>> PROVE StoppedEmpty'
  BY <1>1
<1>2. ASSUME NEW w \in Procs, \/ Spawn(w) \/ StartJob(w) \/ EndJob(w) \/ Exit(w) \/ Crash(w)
                              \/ DismissRead(w)
      PROVE StoppedEmpty'
  BY <1>1, <1>2 DEF Spawn, StartJob, EndJob, Exit, Crash, DismissRead, serverVars
<1>3. ASSUME NEW w \in Procs, Serve(w) PROVE StoppedEmpty'
  BY <1>3 DEF Serve, ReceiveBusy, ReceiveDone, Received
<1>4. ASSUME NEW p \in Pids, KillBusy(p), UNCHANGED running PROVE StoppedEmpty'
  BY <1>4, KillNeedsEntry
<1>5. ASSUME NEW t \in armed, Fire(t) PROVE StoppedEmpty'
  <2>1. t.pid \in Pids
    BY DEF TypeInv, TypeOK, Timer
  <2> QED
    BY <1>4, <1>5, <2>1 DEF Fire
<1>6. CASE KillWorkerBusy
  <2>1. dismissing \in Pids
    BY <1>6 DEF KillWorkerBusy, TypeInv, TypeOK
  <2> QED
    BY <1>4, <1>6, <2>1 DEF KillWorkerBusy
<1>7. CASE Stop
  BY <1>7 DEF Stop
<1>8. CASE Tick \/ UNCHANGED vars
  BY <1>1, <1>8 DEF Tick, vars, serverVars
<1> QED
  BY <1>2, <1>3, <1>5, <1>6, <1>7, <1>8 DEF Next, Expire

LEMMA StoppedInvariant == Spec => []StoppedEmpty
<1>1. Init => StoppedEmpty
  BY InitStopped
<1>2. TypeInv /\ StoppedEmpty /\ [Next]_vars => StoppedEmpty'
  BY NextStopped
<1> QED
  BY <1>1, <1>2, TypeInvariant, PTL DEF Spec

(* After stop a worker dies in its job only by itself.                     *)
LEMMA StepStop ==
  ASSUME TypeInv, StoppedEmpty, [Next]_vars,
         NEW w \in Procs, ~running, proc[w] = "busy", proc'[w] = "dead"
  PROVE  crashes' > crashes
<1>1. proc' # proc
  OBVIOUS
<1>2. ASSUME NEW v \in Procs, Crash(v) PROVE crashes' > crashes
  BY <1>2 DEF Crash, TypeInv, TypeOK
<1>3. ASSUME NEW v \in Procs, Spawn(v) \/ StartJob(v) \/ EndJob(v) \/ Exit(v) PROVE FALSE
  BY <1>3 DEF Spawn, StartJob, EndJob, Exit, TypeInv, TypeOK
<1>4. ASSUME NEW v \in Procs, Serve(v) \/ DismissRead(v) PROVE FALSE
  BY <1>1, <1>4 DEF Serve, ReceiveBusy, ReceiveDone, DismissRead, procVars
<1>5. ASSUME NEW t \in armed, Fire(t) PROVE FALSE
  <2>1. t.pid \in Pids
    BY DEF TypeInv, TypeOK, Timer
  <2> QED
    BY <1>1, <1>5, <2>1, KillNeedsEntry DEF Fire, StoppedEmpty
<1>6. CASE KillWorkerBusy
  <2>1. dismissing \in Pids
    BY <1>6 DEF KillWorkerBusy, TypeInv, TypeOK
  <2> QED
    BY <1>1, <1>6, <2>1, KillNeedsEntry DEF KillWorkerBusy, StoppedEmpty
<1>7. CASE Stop \/ Tick \/ UNCHANGED vars
  BY <1>1, <1>7 DEF Stop, Tick, vars, procVars
<1> QED
  BY <1>2, <1>3, <1>4, <1>5, <1>6, <1>7 DEF Next, Expire

(* stop is final: the supervisor kills nobody after it.                    *)
THEOREM StopCorrect == Spec => StopIsFinal
<1> DEFINE Kept == \A w \in Procs :
             (~running /\ proc[w] = "busy" /\ proc'[w] = "dead") => crashes' > crashes
<1>1. TypeInv /\ StoppedEmpty /\ [Next]_vars => [Kept]_vars
  BY StepStop
<1> QED
  BY <1>1, TypeInvariant, StoppedInvariant, PTL DEF Spec, StopIsFinal

-------------------------------------------------------------------------------
(* Entries and timers.  A job is announced once, so that two entries never *)
(* are of one job: DONE, which cancels the timer of the entry that it      *)
(* removes, leaves the timers of the other entries armed.                  *)

Numbered ==
  /\ \A w \in Procs : \A i \in DOMAIN chan[w] : chan[w][i].job <= jobs
  /\ \A w \in Procs : job[w] <= jobs
  /\ \A p \in Pids : busy[p] <= jobs
  /\ \A t \in armed : t.job <= jobs

AnnouncedOnce ==
  \A v \in Procs : \A i \in DOMAIN chan[v] : chan[v][i].kind = "BUSY" =>
    /\ \A p \in Pids : busy[p] # chan[v][i].job
    /\ \A w \in Procs : \A k \in DOMAIN chan[w] :
         chan[w][k].kind = "BUSY" /\ chan[w][k].job = chan[v][i].job => w = v /\ k = i

OneEntry == \A p, q \in Pids : busy[p] # 0 /\ busy[p] = busy[q] => p = q

EntryInv == Numbered /\ AnnouncedOnce /\ OneEntry /\ EntriesAreArmed

(* A notification is about a job.                                          *)
LEMMA ChanJob ==
  ASSUME TypeInv, NEW v \in Procs, NEW i \in DOMAIN chan[v]
  PROVE  chan[v][i] \in Notif /\ chan[v][i].job \in 1 .. MaxJobs
<1>1. chan[v] \in Seq(Notif)
  BY DEF TypeInv, TypeOK
<1>2. chan[v][i] \in Notif
  BY <1>1
<1> QED
  BY <1>2 DEF Notif

(* What a channel holds after a notification.                              *)
LEMMA NotifyChan ==
  ASSUME TypeInv, NEW w \in Procs, NEW kind, NEW j, Notify(w, kind, j),
         NEW v \in Procs, NEW i \in DOMAIN chan'[v]
  PROVE  \/ i \in DOMAIN chan[v] /\ chan'[v][i] = chan[v][i]
         \/ v = w /\ i = Len(chan[w]) + 1 /\ chan'[v][i] = [kind |-> kind, job |-> j]
<1>1. CASE UNCHANGED chan
  BY <1>1
<1>2. CASE chan' = [chan EXCEPT ![w] = Append(@, [kind |-> kind, job |-> j])]
  <2>1. chan \in [Procs -> Seq(Notif)]
    BY DEF TypeInv, TypeOK
  <2>2. CASE v = w
    <3> DEFINE m == [kind |-> kind, job |-> j]
    <3>1. chan[w] \in Seq(Notif) /\ chan'[w] = Append(chan[w], m)
      BY <1>2, <2>1
    <3> HIDE DEF m
    <3>2. i \in 1 .. Len(chan[w]) + 1
      BY <2>2, <3>1
    <3> QED
      BY <2>2, <3>1, <3>2 DEF m
  <2>3. CASE v # w
    BY <1>2, <2>1, <2>3
  <2> QED
    BY <2>2, <2>3
<1> QED
  BY <1>1, <1>2 DEF Notify

(* What it holds after its head was received.                              *)
LEMMA ReceivedChan ==
  ASSUME TypeInv, NEW w \in Procs, NEW kind, Received(w, kind)
  PROVE  /\ 1 \in DOMAIN chan[w]
         /\ Head(chan[w]) = chan[w][1] /\ chan[w][1].kind = kind
         /\ \A v \in Procs : v # w => chan'[v] = chan[v]
         /\ Len(chan'[w]) = Len(chan[w]) - 1
         /\ \A i \in DOMAIN chan'[w] :
              i \in Nat \ {0} /\ i + 1 \in DOMAIN chan[w] /\ chan'[w][i] = chan[w][i + 1]
<1>1. chan \in [Procs -> Seq(Notif)] /\ chan[w] \in Seq(Notif) /\ chan[w] # <<>>
  BY DEF Received, TypeInv, TypeOK
<1>2. chan' = [chan EXCEPT ![w] = Tail(@)] /\ Head(chan[w]).kind = kind
  BY DEF Received
<1>3. chan'[w] = Tail(chan[w])
  BY <1>1, <1>2
<1>4. \A v \in Procs : v # w => chan'[v] = chan[v]
  BY <1>1, <1>2
<1>5. 1 \in DOMAIN chan[w] /\ Head(chan[w]) = chan[w][1]
  BY <1>1
<1>6. /\ Len(Tail(chan[w])) = Len(chan[w]) - 1
      /\ \A i \in DOMAIN Tail(chan[w]) :
           i \in Nat \ {0} /\ i + 1 \in DOMAIN chan[w] /\ Tail(chan[w])[i] = chan[w][i + 1]
  BY <1>1
<1> QED
  BY <1>2, <1>3, <1>4, <1>5, <1>6

LEMMA InitEntries == Init => EntryInv
BY DEF Init, EntryInv, Numbered, AnnouncedOnce, OneEntry, EntriesAreArmed

(* A job that starts has a number that no entry and no message bears.      *)
LEMMA StartEntries ==
  ASSUME TypeInv, EntryInv, NEW w \in Procs, StartJob(w)
  PROVE  EntryInv'
<1>1. /\ jobs' = jobs + 1 /\ jobs \in Nat
      /\ job' = [job EXCEPT ![w] = jobs + 1]
      /\ Notify(w, "BUSY", jobs + 1)
      /\ UNCHANGED <<busy, armed>>
  BY DEF StartJob, serverVars, TypeInv, TypeOK, Jobs
<1>2. /\ \A v \in Procs : job[v] \in Nat
      /\ \A p \in Pids : busy[p] \in Nat
      /\ \A t \in armed : t.job \in Nat
      /\ \A v \in Procs : \A i \in DOMAIN chan[v] : chan[v][i].job \in Nat
  BY ChanJob DEF TypeInv, TypeOK, Jobs, Timer
<1>3. \A v \in Procs : \A i \in DOMAIN chan'[v] :
        \/ i \in DOMAIN chan[v] /\ chan'[v][i] = chan[v][i] /\ chan'[v][i].job <= jobs
        \/ v = w /\ i = Len(chan[w]) + 1 /\ chan'[v][i] = [kind |-> "BUSY", job |-> jobs + 1]
  BY <1>1, NotifyChan DEF EntryInv, Numbered
<1>4. Numbered'
  <2>1. \A v \in Procs : \A i \in DOMAIN chan'[v] : chan'[v][i].job <= jobs + 1
    BY <1>1, <1>2, <1>3
  <2>2. \A v \in Procs : job'[v] <= jobs + 1
    BY <1>1, <1>2 DEF TypeInv, TypeOK, EntryInv, Numbered
  <2> QED
    BY <1>1, <1>2, <2>1, <2>2 DEF EntryInv, Numbered
<1>5. AnnouncedOnce'
  <2> SUFFICES ASSUME NEW v \in Procs, NEW i \in DOMAIN chan'[v], chan'[v][i].kind = "BUSY"
               PROVE  /\ \A p \in Pids : busy[p] # chan'[v][i].job
                      /\ \A u \in Procs : \A k \in DOMAIN chan'[u] :
                           chan'[u][k].kind = "BUSY" /\ chan'[u][k].job = chan'[v][i].job
                             => u = v /\ k = i
    BY <1>1 DEF AnnouncedOnce
  <2>1. CASE i \in DOMAIN chan[v] /\ chan'[v][i] = chan[v][i] /\ chan'[v][i].job <= jobs
    <3>1. \A p \in Pids : busy[p] # chan'[v][i].job
      BY <2>1 DEF EntryInv, AnnouncedOnce
    <3>2. ASSUME NEW u \in Procs, NEW k \in DOMAIN chan'[u],
                 chan'[u][k].kind = "BUSY", chan'[u][k].job = chan'[v][i].job
          PROVE  u = v /\ k = i
      <4>1. chan'[v][i].job # jobs + 1
        BY <1>1, <1>2, <2>1
      <4>2. k \in DOMAIN chan[u] /\ chan'[u][k] = chan[u][k]
        BY <1>3, <3>2, <4>1
      <4> QED
        BY <2>1, <3>2, <4>2 DEF EntryInv, AnnouncedOnce
    <3> QED
      BY <3>1, <3>2
  <2>2. CASE v = w /\ i = Len(chan[w]) + 1 /\ chan'[v][i] = [kind |-> "BUSY", job |-> jobs + 1]
    <3>1. \A p \in Pids : busy[p] # chan'[v][i].job
      BY <1>1, <1>2, <2>2 DEF EntryInv, Numbered
    <3>2. ASSUME NEW u \in Procs, NEW k \in DOMAIN chan'[u], chan'[u][k].job = chan'[v][i].job
          PROVE  u = v /\ k = i
      <4>1. ~ (k \in DOMAIN chan[u] /\ chan'[u][k] = chan[u][k] /\ chan'[u][k].job <= jobs)
        BY <1>1, <2>2, <3>2
      <4> QED
        BY <1>3, <2>2, <4>1
    <3> QED
      BY <3>1, <3>2
  <2> QED
    BY <1>3, <2>1, <2>2
<1>6. OneEntry' /\ EntriesAreArmed'
  BY <1>1 DEF EntryInv, OneEntry, EntriesAreArmed
<1> QED
  BY <1>4, <1>5, <1>6 DEF EntryInv

LEMMA EndEntries ==
  ASSUME TypeInv, EntryInv, NEW w \in Procs, EndJob(w)
  PROVE  EntryInv'
<1>1. Notify(w, "DONE", job[w]) /\ UNCHANGED <<job, jobs, busy, armed>>
  BY DEF EndJob, serverVars
<1>2. \A v \in Procs : \A i \in DOMAIN chan'[v] :
        \/ i \in DOMAIN chan[v] /\ chan'[v][i] = chan[v][i]
        \/ chan'[v][i] = [kind |-> "DONE", job |-> job[w]]
  BY <1>1, NotifyChan
<1>3. Numbered'
  BY <1>1, <1>2 DEF EntryInv, Numbered
<1>4. AnnouncedOnce'
  <2>1. \A v \in Procs : \A i \in DOMAIN chan'[v] :
          chan'[v][i].kind = "BUSY" => i \in DOMAIN chan[v] /\ chan'[v][i] = chan[v][i]
    BY <1>2
  <2> QED
    BY <1>1, <2>1 DEF EntryInv, AnnouncedOnce
<1>5. OneEntry' /\ EntriesAreArmed'
  BY <1>1 DEF EntryInv, OneEntry, EntriesAreArmed
<1> QED
  BY <1>3, <1>4, <1>5 DEF EntryInv

(* A received notification was in the channel, one place further.          *)
LEMMA ReceivedEntries ==
  ASSUME TypeInv, NEW w \in Procs, NEW kind, Received(w, kind),
         NEW v \in Procs, NEW i \in DOMAIN chan'[v]
  PROVE  \E k \in DOMAIN chan[v] :
           /\ k = (IF v = w THEN i + 1 ELSE i)
           /\ i \in Nat
           /\ chan'[v][i] = chan[v][k]
           /\ ~ (v = w /\ k = 1)
<1>1. DOMAIN chan[v] = 1 .. Len(chan[v]) /\ Len(chan[v]) \in Nat
  BY DEF TypeInv, TypeOK
<1>2. CASE v = w
  <2>1. i \in Nat \ {0} /\ i + 1 \in DOMAIN chan[w] /\ chan'[w][i] = chan[w][i + 1]
    BY <1>2, ReceivedChan
  <2> QED
    BY <1>2, <2>1
<1>3. CASE v # w
  BY <1>1, <1>3, ReceivedChan
<1> QED
  BY <1>2, <1>3

LEMMA BusyEntries ==
  ASSUME TypeInv, EntryInv, NEW w \in Procs, ReceiveBusy(w)
  PROVE  EntryInv'
<1> DEFINE j == chan[w][1].job
           p == pid[w]
<1>1. /\ Received(w, "BUSY") /\ 1 \in DOMAIN chan[w] /\ chan[w][1].kind = "BUSY"
      /\ p \in Pids /\ j \in 1 .. MaxJobs /\ j <= jobs
      /\ busy' = [busy EXCEPT ![p] = j]
      /\ armed' = armed \cup {[pid |-> p, job |-> j, left |-> Timeout]}
      /\ UNCHANGED <<job, jobs>>
  <2>1. Received(w, "BUSY") /\ 1 \in DOMAIN chan[w] /\ Head(chan[w]) = chan[w][1]
        /\ chan[w][1].kind = "BUSY"
    BY ReceivedChan DEF ReceiveBusy
  <2> QED
    BY <2>1, ReceivedType DEF ReceiveBusy, procVars, counters, EntryInv, Numbered
<1>2. \A v \in Procs : \A i \in DOMAIN chan'[v] : \E k \in DOMAIN chan[v] :
        /\ k = (IF v = w THEN i + 1 ELSE i)
        /\ i \in Nat
        /\ chan'[v][i] = chan[v][k]
        /\ ~ (v = w /\ k = 1)
  BY <1>1, ReceivedEntries
<1>3. \A q \in Pids : busy'[q] = IF q = p THEN j ELSE busy[q]
  BY <1>1 DEF TypeInv, TypeOK
<1>4. \A q \in Pids : busy[q] # j
  BY <1>1 DEF EntryInv, AnnouncedOnce
<1> HIDE DEF j, p
<1>5. Numbered'
  BY <1>1, <1>2, <1>3 DEF EntryInv, Numbered
<1>6. AnnouncedOnce'
  <2> SUFFICES ASSUME NEW v \in Procs, NEW i \in DOMAIN chan'[v], chan'[v][i].kind = "BUSY"
               PROVE  /\ \A q \in Pids : busy'[q] # chan'[v][i].job
                      /\ \A u \in Procs : \A k \in DOMAIN chan'[u] :
                           chan'[u][k].kind = "BUSY" /\ chan'[u][k].job = chan'[v][i].job
                             => u = v /\ k = i
    BY DEF AnnouncedOnce
  <2>1. PICK i0 \in DOMAIN chan[v] : /\ i0 = (IF v = w THEN i + 1 ELSE i)
                                     /\ i \in Nat
                                     /\ chan'[v][i] = chan[v][i0]
                                     /\ ~ (v = w /\ i0 = 1)
    BY <1>2
  <2>2. chan'[v][i].job # j
    BY <1>1, <2>1 DEF EntryInv, AnnouncedOnce, j
  <2>3. \A q \in Pids : busy'[q] # chan'[v][i].job
    BY <1>3, <2>1, <2>2 DEF EntryInv, AnnouncedOnce
  <2>4. ASSUME NEW u \in Procs, NEW k \in DOMAIN chan'[u],
               chan'[u][k].kind = "BUSY", chan'[u][k].job = chan'[v][i].job
        PROVE  u = v /\ k = i
    <3>1. PICK k0 \in DOMAIN chan[u] : /\ k0 = (IF u = w THEN k + 1 ELSE k)
                                       /\ k \in Nat
                                       /\ chan'[u][k] = chan[u][k0]
      BY <1>2
    <3>2. u = v /\ k0 = i0
      BY <2>1, <2>4, <3>1 DEF EntryInv, AnnouncedOnce
    <3> QED
      BY <2>1, <3>1, <3>2
  <2> QED
    BY <2>3, <2>4
<1>7. OneEntry'
  BY <1>3, <1>4 DEF EntryInv, OneEntry
<1>8. EntriesAreArmed'
  <2> SUFFICES ASSUME NEW q \in Pids, busy'[q] # 0
               PROVE  \E t \in armed' : t.pid = q /\ t.job = busy'[q]
    BY DEF EntriesAreArmed
  <2>1. CASE q = p
    <3> DEFINE t == [pid |-> p, job |-> j, left |-> Timeout]
    <3>1. t \in armed' /\ t.pid = p /\ t.job = j
      BY <1>1
    <3> QED
      BY <1>3, <2>1, <3>1
  <2>2. CASE q # p
    <3>1. PICK t \in armed : t.pid = q /\ t.job = busy[q]
      BY <1>3, <2>2 DEF EntryInv, EntriesAreArmed
    <3> QED
      BY <1>1, <1>3, <2>2, <3>1
  <2> QED
    BY <2>1, <2>2
<1> QED
  BY <1>5, <1>6, <1>7, <1>8 DEF EntryInv

LEMMA DoneEntries ==
  ASSUME TypeInv, EntryInv, NEW w \in Procs, ReceiveDone(w)
  PROVE  EntryInv'
<1> DEFINE p == pid[w]
<1>1. /\ Received(w, "DONE") /\ p \in Pids
      /\ busy' = [busy EXCEPT ![p] = 0]
      /\ armed' = {t \in armed : t.job \notin {busy[p]}}
      /\ UNCHANGED <<job, jobs>>
  BY ReceivedType DEF ReceiveDone, Cancelled, procVars, counters
<1>2. \A v \in Procs : \A i \in DOMAIN chan'[v] : \E k \in DOMAIN chan[v] :
        /\ k = (IF v = w THEN i + 1 ELSE i)
        /\ i \in Nat
        /\ chan'[v][i] = chan[v][k]
        /\ ~ (v = w /\ k = 1)
  BY <1>1, ReceivedEntries
<1>3. \A q \in Pids : busy'[q] = IF q = p THEN 0 ELSE busy[q]
  BY <1>1 DEF TypeInv, TypeOK
<1>4. jobs \in Nat /\ \A t \in armed : t.job # 0
  BY DEF TypeInv, TypeOK, Jobs, Timer
<1> HIDE DEF p
<1>5. Numbered'
  BY <1>1, <1>2, <1>3, <1>4 DEF EntryInv, Numbered
<1>6. AnnouncedOnce'
  <2> SUFFICES ASSUME NEW v \in Procs, NEW i \in DOMAIN chan'[v], chan'[v][i].kind = "BUSY"
               PROVE  /\ \A q \in Pids : busy'[q] # chan'[v][i].job
                      /\ \A u \in Procs : \A k \in DOMAIN chan'[u] :
                           chan'[u][k].kind = "BUSY" /\ chan'[u][k].job = chan'[v][i].job
                             => u = v /\ k = i
    BY DEF AnnouncedOnce
  <2>1. PICK i0 \in DOMAIN chan[v] : /\ i0 = (IF v = w THEN i + 1 ELSE i)
                                     /\ i \in Nat
                                     /\ chan'[v][i] = chan[v][i0]
    BY <1>2
  <2>2. chan'[v][i].job # 0
    BY <2>1, ChanJob
  <2>3. \A q \in Pids : busy'[q] # chan'[v][i].job
    BY <1>3, <2>1, <2>2 DEF EntryInv, AnnouncedOnce
  <2>4. ASSUME NEW u \in Procs, NEW k \in DOMAIN chan'[u],
               chan'[u][k].kind = "BUSY", chan'[u][k].job = chan'[v][i].job
        PROVE  u = v /\ k = i
    <3>1. PICK k0 \in DOMAIN chan[u] : /\ k0 = (IF u = w THEN k + 1 ELSE k)
                                       /\ k \in Nat
                                       /\ chan'[u][k] = chan[u][k0]
      BY <1>2
    <3>2. u = v /\ k0 = i0
      BY <2>1, <2>4, <3>1 DEF EntryInv, AnnouncedOnce
    <3> QED
      BY <2>1, <3>1, <3>2
  <2> QED
    BY <2>3, <2>4
<1>7. OneEntry'
  BY <1>3 DEF EntryInv, OneEntry
<1>8. EntriesAreArmed'
  <2> SUFFICES ASSUME NEW q \in Pids, busy'[q] # 0
               PROVE  \E t \in armed' : t.pid = q /\ t.job = busy'[q]
    BY DEF EntriesAreArmed
  <2>1. q # p /\ busy'[q] = busy[q]
    BY <1>3
  <2>2. PICK t \in armed : t.pid = q /\ t.job = busy[q]
    BY <2>1 DEF EntryInv, EntriesAreArmed
  <2>3. t.job # busy[p]
    BY <1>1, <2>1, <2>2 DEF EntryInv, OneEntry
  <2> QED
    BY <1>1, <2>1, <2>2, <2>3
<1> QED
  BY <1>5, <1>6, <1>7, <1>8 DEF EntryInv

(* An entry that goes takes with it no timer of another process.           *)
LEMMA KillEntries ==
  ASSUME TypeInv, EntryInv, NEW p \in Pids, KillBusy(p),
         armed' \subseteq armed, \A t \in armed : t.pid # p => t \in armed',
         armed' = armed \/ busy'[p] = 0,
         UNCHANGED <<chan, job, jobs>>
  PROVE  EntryInv'
<1>1. \A q \in Pids : busy'[q] = busy[q] \/ (q = p /\ busy'[q] = 0)
  BY DEF KillBusy, TypeInv, TypeOK
<1>2. jobs \in Nat /\ \A v \in Procs : \A i \in DOMAIN chan[v] : chan[v][i].job # 0
  BY ChanJob DEF TypeInv, TypeOK, Jobs
<1>3. Numbered'
  BY <1>1, <1>2 DEF EntryInv, Numbered
<1>4. AnnouncedOnce'
  BY <1>1, <1>2 DEF EntryInv, AnnouncedOnce
<1>5. OneEntry'
  BY <1>1 DEF EntryInv, OneEntry
<1>6. EntriesAreArmed'
  <2> SUFFICES ASSUME NEW q \in Pids, busy'[q] # 0
               PROVE  \E t \in armed' : t.pid = q /\ t.job = busy'[q]
    BY DEF EntriesAreArmed
  <2>1. busy'[q] = busy[q] /\ (q # p \/ armed' = armed)
    BY <1>1
  <2>2. PICK t \in armed : t.pid = q /\ t.job = busy[q]
    BY <2>1 DEF EntryInv, EntriesAreArmed
  <2> QED
    BY <2>1, <2>2
<1> QED
  BY <1>3, <1>4, <1>5, <1>6 DEF EntryInv

LEMMA NextEntries == TypeInv /\ EntryInv /\ [Next]_vars => EntryInv'
<1> SUFFICES ASSUME TypeInv, EntryInv, [Next]_vars PROVE EntryInv'
  OBVIOUS
<1>1. ASSUME UNCHANGED <<chan, job, jobs, busy, armed>> PROVE EntryInv'
  BY <1>1 DEF EntryInv, Numbered, AnnouncedOnce, OneEntry, EntriesAreArmed
<1>2. ASSUME NEW w \in Procs, Spawn(w) \/ Exit(w) \/ Crash(w) \/ DismissRead(w) PROVE EntryInv'
  BY <1>1, <1>2 DEF Spawn, Exit, Crash, DismissRead, serverVars, counters
<1>3. ASSUME NEW t \in armed, Fire(t) PROVE EntryInv'
  <2>1. t.pid \in Pids
    BY DEF TypeInv, TypeOK, Timer
  <2>2. busy'[t.pid] = 0
    BY <1>3, <2>1 DEF Fire, KillBusy, TypeInv, TypeOK
  <2>3. /\ KillBusy(t.pid) /\ armed' = armed \ {t} /\ t.left = 0
        /\ UNCHANGED <<chan, job, jobs>>
    BY <1>3 DEF Fire, counters
  <2> QED
    BY <2>1, <2>2, <2>3, KillEntries
<1>4. CASE KillWorkerBusy
  <2>1. dismissing \in Pids
    BY <1>4 DEF KillWorkerBusy, TypeInv, TypeOK
  <2>2. KillBusy(dismissing) /\ armed' = armed /\ UNCHANGED <<chan, job, jobs>>
    BY <1>4 DEF KillWorkerBusy, counters
  <2> QED
    BY <2>1, <2>2, KillEntries
<1>5. CASE Stop
  <2>1. /\ busy' = [p \in Pids |-> 0] /\ armed' \subseteq armed
        /\ UNCHANGED <<chan, job, jobs>>
    BY <1>5 DEF Stop, Cancelled, procVars, counters
  <2>2. jobs \in Nat /\ \A v \in Procs : \A i \in DOMAIN chan[v] : chan[v][i].job # 0
    BY ChanJob DEF TypeInv, TypeOK, Jobs
  <2> QED
    BY <2>1, <2>2 DEF EntryInv, Numbered, AnnouncedOnce, OneEntry, EntriesAreArmed
<1>6. CASE Tick
  <2>1. /\ UNCHANGED <<chan, job, jobs, busy>>
        /\ armed' = {[t EXCEPT !.left = IF @ = 0 THEN 0 ELSE @ - 1] : t \in armed}
    BY <1>6 DEF Tick, counters
  <2>2. \A u \in armed' : \E t \in armed : u.pid = t.pid /\ u.job = t.job
    <3>1. ASSUME NEW t \in armed
          PROVE  LET u == [t EXCEPT !.left = IF @ = 0 THEN 0 ELSE @ - 1] IN
                 u.pid = t.pid /\ u.job = t.job
      BY DEF TypeInv, TypeOK, Timer
    <3> QED
      BY <2>1, <3>1
  <2>3. \A t \in armed : \E u \in armed' : u.pid = t.pid /\ u.job = t.job
    <3> SUFFICES ASSUME NEW t \in armed PROVE \E u \in armed' : u.pid = t.pid /\ u.job = t.job
      OBVIOUS
    <3> DEFINE u == [t EXCEPT !.left = IF @ = 0 THEN 0 ELSE @ - 1]
    <3>1. u \in armed'
      BY <2>1
    <3>2. u.pid = t.pid /\ u.job = t.job
      BY DEF TypeInv, TypeOK, Timer
    <3> QED
      BY <3>1, <3>2
  <2>4. Numbered' /\ AnnouncedOnce' /\ OneEntry'
    BY <2>1, <2>2 DEF EntryInv, Numbered, AnnouncedOnce, OneEntry
  <2>5. EntriesAreArmed'
    <3> SUFFICES ASSUME NEW q \in Pids, busy[q] # 0
                 PROVE  \E u \in armed' : u.pid = q /\ u.job = busy[q]
      BY <2>1 DEF EntriesAreArmed
    <3>1. PICK t \in armed : t.pid = q /\ t.job = busy[q]
      BY DEF EntryInv, EntriesAreArmed
    <3> QED
      BY <2>3, <3>1
  <2> QED
    BY <2>4, <2>5 DEF EntryInv
<1>7. CASE UNCHANGED vars
  BY <1>1, <1>7 DEF vars, procVars, serverVars, counters
<1> QED
  BY <1>2, <1>3, <1>4, <1>5, <1>6, <1>7, StartEntries, EndEntries, BusyEntries, DoneEntries
     DEF Next, Serve, Expire

LEMMA EntryInvariant == Spec => []EntryInv
<1>1. Init => EntryInv
  BY InitEntries
<1>2. TypeInv /\ EntryInv /\ [Next]_vars => EntryInv'
  BY NextEntries
<1> QED
  BY <1>1, <1>2, TypeInvariant, PTL DEF Spec

(* Every entry of _busy has its timer.                                     *)
THEOREM EntriesCorrect == Spec => []EntriesAreArmed
BY EntryInvariant, PTL DEF EntryInv

-------------------------------------------------------------------------------
(* What the table says of a live worker, as long as notifications arrive   *)
(* and no pid was given twice.  BUSY and DONE alternate in the channel;    *)
(* its head continues what the table has, its last message is what the     *)
(* worker does.                                                            *)

Alternates(w) ==
  \A i, k \in DOMAIN chan[w] : k = i + 1 => chan[w][k].kind # chan[w][i].kind

Continues(w) ==
  \A i \in DOMAIN chan[w] : i = 1 => (chan[w][i].kind = "BUSY" <=> busy[pid[w]] = 0)

TellsState(w) ==
  \A i \in DOMAIN chan[w] : i = Len(chan[w]) =>
    /\ proc[w] = "idle" => chan[w][i].kind = "DONE"
    /\ proc[w] = "busy" => chan[w][i].kind = "BUSY" /\ chan[w][i].job = job[w]

HasState(w) ==
  chan[w] = <<>> => busy[pid[w]] = IF proc[w] = "busy" THEN job[w] ELSE 0

TimersOf(w) ==
  \A t \in armed : t.pid = pid[w] =>
    /\ t.job = busy[pid[w]]
    /\ proc[w] = "busy" /\ t.job = job[w] => t.left + age[w] >= Timeout

DismissalOf(w) ==
  dismissing = pid[w] => \/ proc[w] = "busy" /\ job[w] = target
                         \/ InTransit(w, "DONE")

Followed(w) ==
  /\ Alternates(w) /\ Continues(w) /\ TellsState(w) /\ HasState(w)
  /\ TimersOf(w) /\ DismissalOf(w)

(* Entries and timers are of pids that some process has or had, and the    *)
(* record of a job has no pid once the job ended.                          *)
PidsKnown ==
  /\ \A p \in Pids : busy[p] # 0 => \E v \in Procs : pid[v] = p
  /\ \A t \in armed : \E v \in Procs : pid[v] = t.pid
  /\ \A w \in Procs : recorded[w] => proc[w] \in {"busy", "dead"}
  /\ \A p \in Pids : dismissing = p => \E v \in Procs : pid[v] = p

FollowInv ==
  /\ PidsKnown
  /\ Reliable /\ running => \A w \in Procs : Live(w) => Followed(w)

(* Reliability and the supervisor do not come back.                        *)
LEMMA ReliableBefore ==
  ASSUME TypeInv, [Next]_vars, Reliable', running'
  PROVE  Reliable /\ running
<1>1. lost = 0
  <2>1. lost' = lost \/ lost' = lost + 1
    BY DEF Next, Spawn, StartJob, EndJob, Exit, Crash, Serve, ReceiveBusy, ReceiveDone, Received,
           DismissRead, Expire, Fire, KillWorkerBusy, Stop, Tick, Notify, vars, counters
  <2> QED
    BY <2>1 DEF Reliable, TypeInv, TypeOK
<1>2. running
  BY DEF Next, Spawn, StartJob, EndJob, Exit, Crash, Serve, ReceiveBusy, ReceiveDone, Received,
         DismissRead, Expire, Fire, KillWorkerBusy, Stop, Tick, vars, serverVars
<1>3. \A v \in Procs : pid[v] # None => pid'[v] = pid[v]
  <2>1. ASSUME NEW w \in Procs, Spawn(w) PROVE \A v \in Procs : pid[v] # None => pid'[v] = pid[v]
    BY <2>1 DEF Spawn, TypeInv, TypeOK
  <2>2. ASSUME UNCHANGED pid PROVE \A v \in Procs : pid[v] # None => pid'[v] = pid[v]
    BY <2>2
  <2> QED
    BY <2>1, <2>2
       DEF Next, StartJob, EndJob, Exit, Crash, Serve, ReceiveBusy, ReceiveDone,
           DismissRead, Expire, Fire, KillWorkerBusy, Stop, Tick, vars, procVars
<1> QED
  BY <1>1, <1>2, <1>3 DEF Reliable, OnePidEach

(* A step that does not touch a worker leaves it followed.                 *)
LEMMA FollowKept ==
  ASSUME NEW w \in Procs, Followed(w), pid[w] # None,
         UNCHANGED <<proc[w], pid[w], job[w], age[w], chan[w], busy[pid[w]], target>>,
         \A t \in armed' : t.pid = pid[w] => t \in armed,
         dismissing' # pid[w] \/ UNCHANGED dismissing
  PROVE  Followed(w)'
<1>1. Alternates(w)' /\ Continues(w)' /\ TellsState(w)' /\ HasState(w)'
  BY DEF Followed, Alternates, Continues, TellsState, HasState
<1>2. TimersOf(w)'
  BY DEF Followed, TimersOf
<1>3. DismissalOf(w)'
  BY DEF Followed, DismissalOf, InTransit
<1> QED
  BY <1>1, <1>2, <1>3 DEF Followed

LEMMA InitFollow == Init => FollowInv
BY DEF Init, FollowInv, PidsKnown, Live

(* A new process has a pid of its own, which no entry and no timer has.    *)
LEMMA SpawnFollow ==
  ASSUME TypeInv, FollowInv, NEW v \in Procs, Spawn(v), Reliable', running', Reliable,
         NEW w \in Procs, Live(w)'
  PROVE  Followed(w)'
<1>1. /\ proc[v] = "unborn" /\ proc' = [proc EXCEPT ![v] = "idle"]
      /\ UNCHANGED <<job, age, chan, busy, armed, running, dismissing, target>>
  BY DEF Spawn, serverVars, dismissVars
<1>2. PICK p \in Pids : pid' = [pid EXCEPT ![v] = p]
  BY DEF Spawn
<1>3. CASE w = v
  <2>1. pid'[w] = p /\ proc'[w] = "idle" /\ \A u \in Procs : u # v => pid'[u] = pid[u]
    BY <1>1, <1>2, <1>3 DEF TypeInv, TypeOK
  <2>2. \A u \in Procs : pid[u] # p
    <3> SUFFICES ASSUME NEW u \in Procs, pid[u] = p PROVE FALSE
      OBVIOUS
    <3>1. u # v
      BY <1>1 DEF TypeInv, TypeOK
    <3> QED
      BY <1>3, <2>1, <3>1 DEF Reliable, OnePidEach
  <2>3. busy[p] = 0 /\ (\A t \in armed : t.pid # p) /\ dismissing # p
    BY <2>2 DEF FollowInv, PidsKnown
  <2>4. chan[w] = <<>> /\ DOMAIN chan[w] = {}
    BY <1>1, <1>3 DEF TypeInv, SenderBorn
  <2> QED
    BY <1>1, <2>1, <2>3, <2>4
       DEF Followed, Alternates, Continues, TellsState, HasState, TimersOf, DismissalOf
<1>4. CASE w # v
  <2>1. UNCHANGED <<proc[w], pid[w]>>
    BY <1>1, <1>2, <1>4 DEF TypeInv, TypeOK
  <2>2. Live(w) /\ pid[w] # None
    BY <2>1 DEF Live, TypeInv, TypeOK
  <2>3. Followed(w)
    BY <1>1, <2>2 DEF FollowInv
  <2> QED
    BY <1>1, <2>1, <2>2, <2>3, FollowKept
<1> QED
  BY <1>3, <1>4

(* Notifications are received in the order in which they were sent.        *)
LEMMA NotifiedChan ==
  ASSUME TypeInv, NEW w \in Procs, NEW kind, NEW j, Notify(w, kind, j), lost' = 0
  PROVE  /\ \A v \in Procs : v # w => chan'[v] = chan[v]
         /\ Len(chan[w]) \in Nat /\ Len(chan'[w]) = Len(chan[w]) + 1
         /\ DOMAIN chan[w] = 1 .. Len(chan[w]) /\ DOMAIN chan'[w] = 1 .. Len(chan[w]) + 1
         /\ \A i \in DOMAIN chan[w] : chan'[w][i] = chan[w][i]
         /\ chan'[w][Len(chan[w]) + 1] = [kind |-> kind, job |-> j]
<1> DEFINE m == [kind |-> kind, job |-> j]
<1>1. chan' = [chan EXCEPT ![w] = Append(@, m)]
  BY DEF Notify, TypeInv, TypeOK
<1>2. chan \in [Procs -> Seq(Notif)] /\ chan[w] \in Seq(Notif)
  BY DEF TypeInv, TypeOK
<1> HIDE DEF m
<1>3. chan'[w] = Append(chan[w], m)
  BY <1>1, <1>2
<1>4. \A v \in Procs : v # w => chan'[v] = chan[v]
  BY <1>1, <1>2
<1>5. /\ Len(chan[w]) \in Nat /\ Len(chan'[w]) = Len(chan[w]) + 1
      /\ DOMAIN chan[w] = 1 .. Len(chan[w]) /\ DOMAIN chan'[w] = 1 .. Len(chan[w]) + 1
      /\ \A i \in DOMAIN chan[w] : chan'[w][i] = chan[w][i]
      /\ chan'[w][Len(chan[w]) + 1] = m
  BY <1>2, <1>3
<1> QED
  BY <1>4, <1>5 DEF m

(* A live worker has a pid, that no other process has.                     *)
LEMMA OwnPid ==
  ASSUME TypeInv, Reliable, NEW w \in Procs, Live(w)
  PROVE  pid[w] \in Pids /\ \A v \in Procs : v # w => pid[v] # pid[w]
BY DEF Reliable, OnePidEach, Live, TypeInv, TypeOK

LEMMA StartFollow ==
  ASSUME TypeInv, EntryInv, FollowInv, NEW v \in Procs, StartJob(v), Reliable', running', Reliable,
         NEW w \in Procs, Live(w)'
  PROVE  Followed(w)'
<1>1. /\ proc[v] = "idle" /\ proc' = [proc EXCEPT ![v] = "busy"]
      /\ job' = [job EXCEPT ![v] = jobs + 1] /\ age' = [age EXCEPT ![v] = 0]
      /\ Notify(v, "BUSY", jobs + 1) /\ lost' = 0
      /\ UNCHANGED <<pid, busy, armed, running, dismissing, target>>
  BY DEF StartJob, serverVars, dismissVars, Reliable
<1>2. /\ \A u \in Procs : u # v => chan'[u] = chan[u]
      /\ Len(chan[v]) \in Nat /\ Len(chan'[v]) = Len(chan[v]) + 1
      /\ DOMAIN chan[v] = 1 .. Len(chan[v]) /\ DOMAIN chan'[v] = 1 .. Len(chan[v]) + 1
      /\ \A i \in DOMAIN chan[v] : chan'[v][i] = chan[v][i]
      /\ chan'[v][Len(chan[v]) + 1] = [kind |-> "BUSY", job |-> jobs + 1]
  BY <1>1, NotifiedChan
<1>3. Live(w) /\ Followed(w) /\ pid[w] # None
  <2>1. Live(w)
    BY <1>1 DEF Live, TypeInv, TypeOK
  <2> QED
    BY <1>1, <2>1, OwnPid DEF FollowInv
<1>4. CASE w # v
  <2>1. UNCHANGED <<proc[w], job[w], age[w], chan[w]>>
    BY <1>1, <1>2, <1>4 DEF TypeInv, TypeOK
  <2> QED
    BY <1>1, <1>3, <2>1, FollowKept
<1>5. CASE w = v
  <2> DEFINE n == Len(chan[v])
  <2>1. proc'[w] = "busy" /\ job'[w] = jobs + 1
    BY <1>1, <1>5 DEF TypeInv, TypeOK
  <2>2. n = 0 => chan[v] = <<>>
    BY <1>2 DEF TypeInv, TypeOK
  <2>3. n # 0 => n \in DOMAIN chan[v] /\ chan[v][n].kind = "DONE"
    BY <1>1, <1>2, <1>3, <1>5 DEF Followed, TellsState
  <2> HIDE DEF n
  <2>4. Alternates(w)'
    <3> SUFFICES ASSUME NEW i \in DOMAIN chan'[w], NEW k \in DOMAIN chan'[w], k = i + 1
                 PROVE  chan'[w][k].kind # chan'[w][i].kind
      BY DEF Alternates
    <3>1. CASE k \in DOMAIN chan[v]
      <4>1. i \in DOMAIN chan[v]
        BY <1>2, <1>5, <3>1
      <4> QED
        BY <1>2, <1>3, <1>5, <3>1, <4>1 DEF Followed, Alternates
    <3>2. CASE k \notin DOMAIN chan[v]
      <4>1. k = n + 1 /\ i = n /\ n # 0
        BY <1>2, <1>5, <3>2 DEF n
      <4>2. chan'[w][k].kind = "BUSY"
        BY <1>2, <1>5, <4>1 DEF n
      <4>3. chan'[w][i].kind = "DONE"
        BY <1>2, <1>5, <2>3, <4>1
      <4> QED
        BY <4>2, <4>3
    <3> QED
      BY <3>1, <3>2
  <2>5. Continues(w)'
    BY <1>1, <1>2, <1>3, <1>5, <2>2 DEF Followed, Continues, HasState, n
  <2>6. TellsState(w)' /\ HasState(w)'
    BY <1>2, <1>5, <2>1 DEF TellsState, HasState, TypeInv, TypeOK
  <2>7. TimersOf(w)'
    <3>1. \A t \in armed : t.job # jobs + 1
      BY DEF EntryInv, Numbered, TypeInv, TypeOK, Jobs, Timer
    <3> QED
      BY <1>1, <1>3, <2>1, <3>1 DEF Followed, TimersOf
  <2>8. DismissalOf(w)'
    <3>1. dismissing = pid[w] => InTransit(w, "DONE")
      BY <1>1, <1>3, <1>5 DEF Followed, DismissalOf
    <3>2. InTransit(w, "DONE") => InTransit(w, "DONE")'
      BY <1>2, <1>5 DEF InTransit
    <3> QED
      BY <1>1, <3>1, <3>2 DEF DismissalOf
  <2> QED
    BY <2>4, <2>5, <2>6, <2>7, <2>8 DEF Followed
<1> QED
  BY <1>4, <1>5

LEMMA EndFollow ==
  ASSUME TypeInv, FollowInv, NEW v \in Procs, EndJob(v), Reliable', running', Reliable,
         NEW w \in Procs, Live(w)'
  PROVE  Followed(w)'
<1>1. /\ proc[v] = "busy" /\ proc' = [proc EXCEPT ![v] = "idle"]
      /\ Notify(v, "DONE", job[v]) /\ lost' = 0
      /\ UNCHANGED <<pid, job, age, busy, armed, running, dismissing, target>>
  BY DEF EndJob, serverVars, dismissVars, Reliable
<1>2. /\ \A u \in Procs : u # v => chan'[u] = chan[u]
      /\ Len(chan[v]) \in Nat /\ Len(chan'[v]) = Len(chan[v]) + 1
      /\ DOMAIN chan[v] = 1 .. Len(chan[v]) /\ DOMAIN chan'[v] = 1 .. Len(chan[v]) + 1
      /\ \A i \in DOMAIN chan[v] : chan'[v][i] = chan[v][i]
      /\ chan'[v][Len(chan[v]) + 1] = [kind |-> "DONE", job |-> job[v]]
  BY <1>1, NotifiedChan
<1>3. Live(w) /\ Followed(w) /\ pid[w] # None
  <2>1. Live(w)
    BY <1>1 DEF Live, TypeInv, TypeOK
  <2> QED
    BY <1>1, <2>1, OwnPid DEF FollowInv
<1>4. CASE w # v
  <2>1. UNCHANGED <<proc[w], chan[w]>>
    BY <1>1, <1>2, <1>4 DEF TypeInv, TypeOK
  <2> QED
    BY <1>1, <1>3, <2>1, FollowKept
<1>5. CASE w = v
  <2> DEFINE n == Len(chan[v])
  <2>1. proc'[w] = "idle"
    BY <1>1, <1>5 DEF TypeInv, TypeOK
  <2>2. n = 0 => chan[v] = <<>>
    BY <1>2 DEF TypeInv, TypeOK
  <2>3. n # 0 => n \in DOMAIN chan[v] /\ chan[v][n].kind = "BUSY"
    BY <1>1, <1>2, <1>3, <1>5 DEF Followed, TellsState
  <2> HIDE DEF n
  <2>4. Alternates(w)'
    <3> SUFFICES ASSUME NEW i \in DOMAIN chan'[w], NEW k \in DOMAIN chan'[w], k = i + 1
                 PROVE  chan'[w][k].kind # chan'[w][i].kind
      BY DEF Alternates
    <3>1. CASE k \in DOMAIN chan[v]
      <4>1. i \in DOMAIN chan[v]
        BY <1>2, <1>5, <3>1
      <4> QED
        BY <1>2, <1>3, <1>5, <3>1, <4>1 DEF Followed, Alternates
    <3>2. CASE k \notin DOMAIN chan[v]
      <4>1. k = n + 1 /\ i = n /\ n # 0
        BY <1>2, <1>5, <3>2 DEF n
      <4>2. chan'[w][k].kind = "DONE"
        BY <1>2, <1>5, <4>1 DEF n
      <4>3. chan'[w][i].kind = "BUSY"
        BY <1>2, <1>5, <2>3, <4>1
      <4> QED
        BY <4>2, <4>3
    <3> QED
      BY <3>1, <3>2
  <2>5. Continues(w)'
    <3>1. job[v] # 0
      BY <1>1 DEF TypeInv, BusyHasJob
    <3> QED
      BY <1>1, <1>2, <1>3, <1>5, <2>2, <3>1 DEF Followed, Continues, HasState, n
  <2>6. TellsState(w)' /\ HasState(w)'
    BY <1>2, <1>5, <2>1 DEF TellsState, HasState, TypeInv, TypeOK
  <2>7. TimersOf(w)'
    BY <1>1, <1>3, <2>1 DEF Followed, TimersOf
  <2>8. DismissalOf(w)'
    BY <1>1, <1>2, <1>5 DEF DismissalOf, InTransit
  <2> QED
    BY <2>4, <2>5, <2>6, <2>7, <2>8 DEF Followed
<1> QED
  BY <1>4, <1>5

LEMMA BusyFollow ==
  ASSUME TypeInv, FollowInv, NEW v \in Procs, ReceiveBusy(v), running, Reliable,
         NEW w \in Procs, Live(w)'
  PROVE  Followed(w)'
<1> DEFINE j == chan[v][1].job
           p == pid[v]
<1>1. /\ Received(v, "BUSY") /\ p \in Pids /\ j \in 1 .. MaxJobs
      /\ busy' = [busy EXCEPT ![p] = j]
      /\ armed' = armed \cup {[pid |-> p, job |-> j, left |-> Timeout]}
      /\ UNCHANGED <<proc, pid, job, age, running, dismissing, target>>
      /\ dismissing = None
  <2>1. Received(v, "BUSY") /\ Head(chan[v]) = chan[v][1]
    BY ReceivedChan DEF ReceiveBusy
  <2> QED
    BY <2>1, ReceivedType DEF ReceiveBusy, Received, procVars, dismissVars
<1>2. /\ 1 \in DOMAIN chan[v] /\ chan[v][1].kind = "BUSY"
      /\ \A u \in Procs : u # v => chan'[u] = chan[u]
      /\ Len(chan'[v]) = Len(chan[v]) - 1
      /\ \A i \in DOMAIN chan'[v] :
           i \in Nat \ {0} /\ i + 1 \in DOMAIN chan[v] /\ chan'[v][i] = chan[v][i + 1]
  BY <1>1, ReceivedChan
<1> HIDE DEF j, p
<1>3. Live(w) /\ Followed(w) /\ pid[w] \in Pids /\ \A u \in Procs : u # w => pid[u] # pid[w]
  <2>1. Live(w)
    BY <1>1 DEF Live
  <2> QED
    BY <2>1, OwnPid DEF FollowInv
<1>4. CASE w # v
  <2>1. UNCHANGED <<chan[w], busy[pid[w]]>> /\ pid[w] # p
    BY <1>1, <1>2, <1>3, <1>4 DEF p, TypeInv, TypeOK
  <2>2. \A t \in armed' : t.pid = pid[w] => t \in armed
    BY <1>1, <2>1
  <2> QED
    BY <1>1, <1>3, <2>1, <2>2, FollowKept
<1>5. CASE w = v
  <2>1. busy'[pid[w]] = j /\ j # 0 /\ busy[pid[w]] = 0 /\ pid[w] = p
    BY <1>1, <1>2, <1>3, <1>5 DEF Followed, Continues, p, TypeInv, TypeOK
  <2>2. Alternates(w)'
    BY <1>2, <1>3, <1>5 DEF Followed, Alternates
  <2>3. Continues(w)'
    <3>1. ASSUME 1 \in DOMAIN chan'[v] PROVE chan'[v][1].kind # "BUSY"
      <4>1. 2 \in DOMAIN chan[v] /\ chan'[v][1] = chan[v][2]
        BY <1>2, <3>1
      <4>2. chan[v][2].kind # chan[v][1].kind
        BY <1>2, <1>3, <1>5, <4>1, 2 = 1 + 1 DEF Followed, Alternates
      <4> QED
        BY <1>2, <4>1, <4>2
    <3> QED
      BY <1>1, <1>5, <2>1, <3>1 DEF Continues
  <2>4. TellsState(w)'
    <3> SUFFICES ASSUME NEW i \in DOMAIN chan'[w], i = Len(chan'[w])
                 PROVE  /\ proc[w] = "idle" => chan'[w][i].kind = "DONE"
                        /\ proc[w] = "busy" => /\ chan'[w][i].kind = "BUSY"
                                               /\ chan'[w][i].job = job[w]
      BY <1>1 DEF TellsState
    <3>1. i + 1 \in DOMAIN chan[w] /\ chan'[w][i] = chan[w][i + 1]
      BY <1>2, <1>5
    <3>2. i + 1 = Len(chan[w])
      <4>1. Len(chan[w]) \in Nat
        BY DEF TypeInv, TypeOK
      <4> QED
        BY <1>2, <1>5, <4>1
    <3> QED
      BY <1>3, <3>1, <3>2 DEF Followed, TellsState
  <2>5. HasState(w)'
    <3> SUFFICES ASSUME chan'[w] = <<>>
                 PROVE  busy'[pid[w]] = IF proc[w] = "busy" THEN job[w] ELSE 0
      BY <1>1 DEF HasState
    <3>1. Len(chan[w]) = 1
      <4>1. Len(chan[w]) \in Nat /\ Len(chan'[w]) = 0
        BY DEF TypeInv, TypeOK
      <4>2. Len(chan'[w]) = Len(chan[w]) - 1
        BY <1>2, <1>5
      <4> QED
        BY <4>1, <4>2
    <3>2. proc[w] = "busy" /\ job[w] = j
      BY <1>2, <1>3, <1>5, <3>1 DEF Followed, TellsState, Live, j
    <3> QED
      BY <2>1, <3>2
  <2>6. TimersOf(w)'
    <3> SUFFICES ASSUME NEW t \in armed', t.pid = pid[w]
                 PROVE  t.job = j /\ t.left + age[w] >= Timeout
      BY <1>1, <2>1 DEF TimersOf
    <3>1. t \notin armed
      BY <1>3, <2>1 DEF Followed, TimersOf, TypeInv, TypeOK, Timer
    <3>2. t.job = j /\ t.left = Timeout
      BY <1>1, <3>1
    <3>3. age[w] \in 0 .. Timeout
      BY DEF TypeInv, TypeOK
    <3> QED
      BY <3>2, <3>3
  <2>7. DismissalOf(w)'
    BY <1>1, <1>3 DEF DismissalOf
  <2> QED
    BY <2>2, <2>3, <2>4, <2>5, <2>6, <2>7 DEF Followed
<1> QED
  BY <1>4, <1>5

LEMMA DoneFollow ==
  ASSUME TypeInv, FollowInv, NEW v \in Procs, ReceiveDone(v), running, Reliable,
         NEW w \in Procs, Live(w)'
  PROVE  Followed(w)'
<1> DEFINE p == pid[v]
<1>1. /\ Received(v, "DONE") /\ p \in Pids
      /\ busy' = [busy EXCEPT ![p] = 0]
      /\ armed' = {t \in armed : t.job \notin {busy[p]}}
      /\ UNCHANGED <<proc, pid, job, age, running, dismissing, target>>
      /\ dismissing = None
  BY ReceivedType DEF ReceiveDone, Received, Cancelled, procVars, dismissVars
<1>2. /\ 1 \in DOMAIN chan[v] /\ chan[v][1].kind = "DONE"
      /\ \A u \in Procs : u # v => chan'[u] = chan[u]
      /\ Len(chan'[v]) = Len(chan[v]) - 1
      /\ \A i \in DOMAIN chan'[v] :
           i \in Nat \ {0} /\ i + 1 \in DOMAIN chan[v] /\ chan'[v][i] = chan[v][i + 1]
  BY <1>1, ReceivedChan
<1> HIDE DEF p
<1>3. Live(w) /\ Followed(w) /\ pid[w] \in Pids /\ \A u \in Procs : u # w => pid[u] # pid[w]
  <2>1. Live(w)
    BY <1>1 DEF Live
  <2> QED
    BY <2>1, OwnPid DEF FollowInv
<1>4. CASE w # v
  <2>1. UNCHANGED <<chan[w], busy[pid[w]]>>
    BY <1>1, <1>2, <1>3, <1>4 DEF p, TypeInv, TypeOK
  <2> QED
    BY <1>1, <1>3, <2>1, FollowKept
<1>5. CASE w = v
  <2>1. busy'[pid[w]] = 0 /\ pid[w] = p
    BY <1>1, <1>5 DEF p, TypeInv, TypeOK
  <2>2. Alternates(w)'
    BY <1>2, <1>3, <1>5 DEF Followed, Alternates
  <2>3. Continues(w)'
    <3>1. ASSUME 1 \in DOMAIN chan'[v] PROVE chan'[v][1].kind = "BUSY"
      <4>1. 2 \in DOMAIN chan[v] /\ chan'[v][1] = chan[v][2]
        BY <1>2, <3>1
      <4>2. chan[v][2].kind # chan[v][1].kind
        BY <1>2, <1>3, <1>5, <4>1, 2 = 1 + 1 DEF Followed, Alternates
      <4> QED
        BY <1>2, <4>1, <4>2, ChanJob DEF Notif
    <3> QED
      BY <1>1, <1>5, <2>1, <3>1 DEF Continues
  <2>4. TellsState(w)'
    <3> SUFFICES ASSUME NEW i \in DOMAIN chan'[w], i = Len(chan'[w])
                 PROVE  /\ proc[w] = "idle" => chan'[w][i].kind = "DONE"
                        /\ proc[w] = "busy" => /\ chan'[w][i].kind = "BUSY"
                                               /\ chan'[w][i].job = job[w]
      BY <1>1 DEF TellsState
    <3>1. i + 1 \in DOMAIN chan[w] /\ chan'[w][i] = chan[w][i + 1]
      BY <1>2, <1>5
    <3>2. i + 1 = Len(chan[w])
      <4>1. Len(chan[w]) \in Nat
        BY DEF TypeInv, TypeOK
      <4> QED
        BY <1>2, <1>5, <4>1
    <3> QED
      BY <1>3, <3>1, <3>2 DEF Followed, TellsState
  <2>5. HasState(w)'
    <3> SUFFICES ASSUME chan'[w] = <<>>
                 PROVE  proc[w] # "busy"
      BY <1>1, <2>1 DEF HasState
    <3>1. Len(chan[w]) = 1
      <4>1. Len(chan[w]) \in Nat /\ Len(chan'[w]) = 0
        BY DEF TypeInv, TypeOK
      <4>2. Len(chan'[w]) = Len(chan[w]) - 1
        BY <1>2, <1>5
      <4> QED
        BY <4>1, <4>2
    <3> QED
      BY <1>2, <1>3, <1>5, <3>1 DEF Followed, TellsState
  <2>6. TimersOf(w)'
    BY <1>1, <1>3, <2>1 DEF Followed, TimersOf
  <2>7. DismissalOf(w)'
    BY <1>1, <1>3 DEF DismissalOf
  <2> QED
    BY <2>2, <2>3, <2>4, <2>5, <2>6, <2>7 DEF Followed
<1> QED
  BY <1>4, <1>5

(* A kill leaves the others as they were.                                  *)
LEMMA KillFollow ==
  ASSUME TypeInv, FollowInv, NEW p \in Pids, KillBusy(p), running, Reliable,
         armed' \subseteq armed,
         dismissing' = None \/ UNCHANGED dismissing,
         UNCHANGED <<pid, job, age, chan, target>>,
         NEW w \in Procs, Live(w)'
  PROVE  Followed(w)'
<1>1. Live(w) /\ proc'[w] = proc[w] /\ (busy[p] # 0 => pid[w] # p)
  <2>1. CASE busy[p] = 0 /\ UNCHANGED <<busy, proc>>
    BY <2>1 DEF Live
  <2>2. CASE busy[p] # 0 /\ KillPid(p)
    BY <2>2 DEF KillPid, Live
  <2> QED
    BY <2>1, <2>2 DEF KillBusy
<1>2. Followed(w) /\ pid[w] \in Pids
  BY <1>1, OwnPid DEF FollowInv
<1>3. busy'[pid[w]] = busy[pid[w]]
  BY <1>1, <1>2 DEF KillBusy, TypeInv, TypeOK
<1> QED
  BY <1>1, <1>2, <1>3, FollowKept

LEMMA ReadFollow ==
  ASSUME TypeInv, FollowInv, NEW v \in Procs, DismissRead(v), running, Reliable,
         NEW w \in Procs, Live(w)'
  PROVE  Followed(w)'
<1>1. /\ dismissing' = pid[v] /\ target' = job[v] /\ recorded[v]
      /\ UNCHANGED <<proc, pid, job, age, chan, busy, armed>>
  BY DEF DismissRead, serverVars
<1>2. Live(w) /\ Followed(w) /\ \A u \in Procs : u # w => pid[u] # pid[w]
  <2>1. Live(w)
    BY <1>1 DEF Live
  <2> QED
    BY <2>1, OwnPid DEF FollowInv
<1>3. /\ Alternates(w)' /\ Continues(w)' /\ TellsState(w)' /\ HasState(w)' /\ TimersOf(w)'
  BY <1>1, <1>2 DEF Followed, Alternates, Continues, TellsState, HasState, TimersOf
<1>4. DismissalOf(w)'
  <2> SUFFICES ASSUME dismissing' = pid[w] PROVE proc[w] = "busy" /\ job[w] = target'
    BY <1>1 DEF DismissalOf
  <2>1. v = w
    BY <1>1, <1>2
  <2> QED
    BY <1>1, <1>2, <2>1 DEF FollowInv, PidsKnown, Live
<1> QED
  BY <1>3, <1>4 DEF Followed

LEMMA TickFollow ==
  ASSUME TypeInv, FollowInv, Tick, running, Reliable,
         NEW w \in Procs, Live(w)'
  PROVE  Followed(w)'
<1>1. /\ armed' = {[t EXCEPT !.left = IF @ = 0 THEN 0 ELSE @ - 1] : t \in armed}
      /\ age' = [u \in Procs |-> IF age[u] < Timeout THEN age[u] + 1 ELSE age[u]]
      /\ UNCHANGED <<proc, pid, job, chan, busy, dismissing, target>>
  BY DEF Tick, dismissVars
<1>2. Followed(w)
  BY <1>1 DEF Live, FollowInv
<1>3. /\ Alternates(w)' /\ Continues(w)' /\ TellsState(w)' /\ HasState(w)' /\ DismissalOf(w)'
  BY <1>1, <1>2
     DEF Followed, Alternates, Continues, TellsState, HasState, DismissalOf, InTransit
<1>4. TimersOf(w)'
  <2> SUFFICES ASSUME NEW u \in armed', u.pid = pid[w]
               PROVE  /\ u.job = busy[pid[w]]
                      /\ proc[w] = "busy" /\ u.job = job[w] => u.left + age'[w] >= Timeout
    BY <1>1 DEF TimersOf
  <2>1. PICK t \in armed : u = [t EXCEPT !.left = IF @ = 0 THEN 0 ELSE @ - 1]
    BY <1>1
  <2>2. /\ u.pid = t.pid /\ u.job = t.job
        /\ t.left \in 0 .. Timeout /\ u.left = IF t.left = 0 THEN 0 ELSE t.left - 1
    BY <2>1 DEF TypeInv, TypeOK, Timer
  <2>3. /\ t.job = busy[pid[w]]
        /\ proc[w] = "busy" /\ t.job = job[w] => t.left + age[w] >= Timeout
    BY <1>2, <2>2 DEF Followed, TimersOf
  <2>4. age[w] \in 0 .. Timeout /\ age'[w] = IF age[w] < Timeout THEN age[w] + 1 ELSE age[w]
    BY <1>1 DEF TypeInv, TypeOK
  <2>5. Timeout \in Nat
    BY BoundsAssumption
  <2>6. t.left + age[w] >= Timeout => u.left + age'[w] >= Timeout
    <3> DEFINE l == t.left  a == age[w]  k == u.left  b == age'[w]
    <3>1. l \in 0 .. Timeout /\ a \in 0 .. Timeout
      BY <2>2, <2>4
    <3>2. k = IF l = 0 THEN 0 ELSE l - 1
      BY <2>2
    <3>3. b = IF a < Timeout THEN a + 1 ELSE a
      BY <2>4
    <3> HIDE DEF l, a, k, b
    <3>4. l + a >= Timeout => k + b >= Timeout
      BY <2>5, <3>1, <3>2, <3>3
    <3> QED
      BY <3>4 DEF l, a, k, b
  <2>7. proc'[w] = proc[w] /\ job'[w] = job[w] /\ pid'[w] = pid[w] /\ busy' = busy
    BY <1>1
  <2>8. u.job = busy[pid[w]]
    BY <2>2, <2>3
  <2>9. proc[w] = "busy" /\ u.job = job[w] => u.left + age'[w] >= Timeout
    BY <2>2, <2>3, <2>6
  <2> QED
    BY <2>8, <2>9
<1> QED
  BY <1>3, <1>4 DEF Followed

LEMMA NextPids == TypeInv /\ PidsKnown /\ [Next]_vars => PidsKnown'
<1> SUFFICES ASSUME TypeInv, PidsKnown, [Next]_vars PROVE PidsKnown'
  OBVIOUS
<1>1. ASSUME UNCHANGED <<pid, busy, armed, dismissing>>,
             \A w \in Procs : recorded'[w] => proc'[w] \in {"busy", "dead"}
      PROVE  PidsKnown'
  BY <1>1 DEF PidsKnown
<1>2. ASSUME NEW w \in Procs, Spawn(w) PROVE PidsKnown'
  <2>1. PICK p \in Pids : pid' = [pid EXCEPT ![w] = p]
    BY <1>2 DEF Spawn
  <2>2. /\ proc[w] = "unborn" /\ proc' = [proc EXCEPT ![w] = "idle"]
        /\ UNCHANGED <<recorded, busy, armed, dismissing>>
    BY <1>2 DEF Spawn, serverVars, dismissVars
  <2>3. \A v \in Procs : pid[v] # None => pid'[v] = pid[v]
    BY <2>1, <2>2 DEF TypeInv, TypeOK
  <2>4. \A v \in Procs : recorded'[v] => proc'[v] \in {"busy", "dead"}
    BY <2>2 DEF PidsKnown, TypeInv, TypeOK
  <2>5. \A t \in armed : t.pid \in Pids
    BY DEF TypeInv, TypeOK, Timer
  <2> QED
    BY <2>2, <2>3, <2>4, <2>5 DEF PidsKnown
<1>3. ASSUME NEW w \in Procs, StartJob(w) \/ EndJob(w) \/ Exit(w) \/ Crash(w) PROVE PidsKnown'
  <2>1. UNCHANGED <<pid, busy, armed, dismissing>>
    BY <1>3 DEF StartJob, EndJob, Exit, Crash, serverVars, dismissVars
  <2>2. \A v \in Procs : recorded'[v] => proc'[v] \in {"busy", "dead"}
    <3>1. CASE StartJob(w)
      <4>1. /\ proc' = [proc EXCEPT ![w] = "busy"]
            /\ recorded' = [recorded EXCEPT ![w] = TRUE]
        BY <3>1 DEF StartJob
      <4> QED
        BY <4>1 DEF PidsKnown, TypeInv, TypeOK
    <3>2. CASE EndJob(w)
      <4>1. /\ proc' = [proc EXCEPT ![w] = "idle"]
            /\ recorded' = [recorded EXCEPT ![w] = FALSE]
        BY <3>2 DEF EndJob
      <4>2. recorded'[w] = FALSE
        BY <4>1, ZenonT(20) DEF TypeInv, TypeOK
      <4>3. \A v \in Procs : v # w => recorded'[v] = recorded[v] /\ proc'[v] = proc[v]
        BY <4>1 DEF TypeInv, TypeOK
      <4> QED
        BY <4>2, <4>3, Zenon DEF PidsKnown
    <3>3. CASE Exit(w) \/ Crash(w)
      <4>1. proc' = [proc EXCEPT ![w] = "dead"] /\ UNCHANGED recorded
        BY <3>3 DEF Exit, Crash
      <4> QED
        BY <4>1 DEF PidsKnown, TypeInv, TypeOK
    <3> QED
      BY <1>3, <3>1, <3>2, <3>3
  <2> QED
    BY <1>1, <2>1, <2>2
<1>4. ASSUME NEW w \in Procs, ReceiveBusy(w) PROVE PidsKnown'
  <2>1. /\ busy' = [busy EXCEPT ![pid[w]] = Head(chan[w]).job]
        /\ armed' = armed \cup {[pid |-> pid[w], job |-> Head(chan[w]).job, left |-> Timeout]}
        /\ UNCHANGED <<proc, pid, recorded, dismissing>>
    BY <1>4 DEF ReceiveBusy, procVars, dismissVars
  <2> QED
    BY <2>1 DEF PidsKnown, TypeInv, TypeOK
<1>5. ASSUME NEW w \in Procs, ReceiveDone(w) PROVE PidsKnown'
  <2>1. /\ busy' = [busy EXCEPT ![pid[w]] = 0] /\ armed' \subseteq armed
        /\ UNCHANGED <<proc, pid, recorded, dismissing>>
    BY <1>5 DEF ReceiveDone, Cancelled, procVars, dismissVars
  <2> QED
    BY <2>1 DEF PidsKnown, TypeInv, TypeOK
<1>6. ASSUME NEW w \in Procs, DismissRead(w) PROVE PidsKnown'
  BY <1>6 DEF DismissRead, serverVars, PidsKnown, TypeInv, TypeOK
<1>7. ASSUME NEW p \in Pids, KillBusy(p), armed' \subseteq armed,
             dismissing' = None \/ UNCHANGED dismissing, UNCHANGED <<pid, recorded>>
      PROVE  PidsKnown'
  <2>1. \A q \in Pids : busy'[q] # 0 => busy[q] # 0
    BY <1>7 DEF KillBusy, TypeInv, TypeOK
  <2>2. \A v \in Procs : proc'[v] = proc[v] \/ proc'[v] = "dead"
    BY <1>7 DEF KillBusy, KillPid, TypeInv, TypeOK
  <2> QED
    BY <1>7, <2>1, <2>2 DEF PidsKnown
<1>8. ASSUME NEW t \in armed, Fire(t) PROVE PidsKnown'
  <2>1. t.pid \in Pids
    BY DEF TypeInv, TypeOK, Timer
  <2>2. /\ KillBusy(t.pid) /\ armed' \subseteq armed
        /\ UNCHANGED <<pid, recorded, dismissing>>
    BY <1>8 DEF Fire, dismissVars
  <2> QED
    BY <1>7, <2>1, <2>2
<1>9. CASE KillWorkerBusy
  <2>1. dismissing \in Pids
    BY <1>9 DEF KillWorkerBusy, TypeInv, TypeOK
  <2>2. /\ KillBusy(dismissing) /\ armed' \subseteq armed /\ dismissing' = None
        /\ UNCHANGED <<pid, recorded>>
    BY <1>9 DEF KillWorkerBusy
  <2> QED
    BY <1>7, <2>1, <2>2
<1>10. CASE Stop
  BY <1>10 DEF Stop, Cancelled, procVars, dismissVars, PidsKnown
<1>11. CASE Tick
  <2>1. \A u \in armed' : \E t \in armed : u.pid = t.pid
    <3>1. ASSUME NEW t \in armed
          PROVE [t EXCEPT !.left = IF @ = 0 THEN 0 ELSE @ - 1].pid = t.pid
      BY DEF TypeInv, TypeOK, Timer
    <3> QED
      BY <1>11, <3>1 DEF Tick
  <2> QED
    BY <1>11, <2>1 DEF Tick, dismissVars, PidsKnown
<1>12. CASE UNCHANGED vars
  BY <1>1, <1>12 DEF vars, procVars, serverVars, dismissVars, PidsKnown
<1> QED
  BY <1>2, <1>3, <1>4, <1>5, <1>6, <1>8, <1>9, <1>10, <1>11, <1>12 DEF Next, Serve, Expire

LEMMA NextFollow == TypeInv /\ EntryInv /\ FollowInv /\ [Next]_vars => FollowInv'
<1> SUFFICES ASSUME TypeInv, EntryInv, FollowInv, [Next]_vars, Reliable', running',
                    NEW w \in Procs, Live(w)'
             PROVE  Followed(w)'
  BY NextPids DEF FollowInv
<1>1. Reliable /\ running
  BY ReliableBefore
<1>2. ASSUME UNCHANGED <<proc, pid, job, age, chan, busy, armed, dismissing, target>>
      PROVE  Followed(w)'
  <2>1. Live(w)
    BY <1>2 DEF Live
  <2>2. Followed(w) /\ pid[w] # None
    BY <1>1, <2>1, OwnPid DEF FollowInv
  <2> QED
    BY <1>2, <2>2, FollowKept
<1>3. ASSUME NEW v \in Procs, Exit(v) \/ Crash(v) PROVE Followed(w)'
  <2>1. /\ proc' = [proc EXCEPT ![v] = "dead"]
        /\ UNCHANGED <<pid, job, age, chan, busy, armed, dismissing, target>>
    BY <1>3 DEF Exit, Crash, serverVars, dismissVars
  <2>2. proc'[w] = proc[w]
    BY <2>1 DEF Live, TypeInv, TypeOK
  <2>3. Followed(w) /\ pid[w] # None
    BY <1>1, <2>2, OwnPid DEF FollowInv, Live
  <2> QED
    BY <2>1, <2>2, <2>3, FollowKept
<1>4. ASSUME NEW t \in armed, Fire(t) PROVE Followed(w)'
  <2>1. t.pid \in Pids
    BY DEF TypeInv, TypeOK, Timer
  <2>2. /\ KillBusy(t.pid) /\ armed' \subseteq armed
        /\ UNCHANGED <<pid, job, age, chan, dismissing, target>>
    BY <1>4 DEF Fire, dismissVars
  <2> QED
    BY <1>1, <2>1, <2>2, KillFollow
<1>5. CASE KillWorkerBusy
  <2>1. dismissing \in Pids
    BY <1>5 DEF KillWorkerBusy, TypeInv, TypeOK
  <2>2. /\ KillBusy(dismissing) /\ armed' \subseteq armed /\ dismissing' = None
        /\ UNCHANGED <<pid, job, age, chan, target>>
    BY <1>5 DEF KillWorkerBusy
  <2> QED
    BY <1>1, <2>1, <2>2, KillFollow
<1>6. CASE UNCHANGED vars
  BY <1>2, <1>6 DEF vars, procVars, serverVars, dismissVars
<1>7. ~Stop
  BY DEF Stop
<1> QED
  BY <1>1, <1>3, <1>4, <1>5, <1>6, <1>7, SpawnFollow, StartFollow, EndFollow, BusyFollow,
     DoneFollow, ReadFollow, TickFollow DEF Next, Serve, Expire

LEMMA FollowInvariant == Spec => []FollowInv
<1>1. Init => FollowInv
  BY InitFollow
<1>2. TypeInv /\ EntryInv /\ FollowInv /\ [Next]_vars => FollowInv'
  BY NextFollow
<1> QED
  BY <1>1, <1>2, TypeInvariant, EntryInvariant, PTL DEF Spec

(* Whose notifications were received has an entry exactly when it runs a   *)
(* job, with a timer that leaves the job its whole time.                   *)
THEOREM SupervisedCorrect == Spec => []Supervised
<1>1. FollowInv => Supervised
  <2> SUFFICES ASSUME FollowInv, Reliable, running, NEW w \in Procs, chan[w] = <<>>, Live(w)
               PROVE  /\ proc[w] = "idle" => busy[pid[w]] = 0
                      /\ proc[w] = "busy" =>
                           /\ busy[pid[w]] = job[w]
                           /\ \A t \in armed : t.pid = pid[w] =>
                                t.job = job[w] /\ t.left + age[w] >= Timeout
    BY DEF Supervised
  <2> QED
    BY DEF FollowInv, Followed, HasState, TimersOf
<1> QED
  BY <1>1, FollowInvariant, PTL

(* With an entry, the worker is in the job that was announced, or its DONE *)
(* is still to be received.                                                *)
LEMMA EntryOrDone ==
  ASSUME TypeInv, FollowInv, Reliable, running, NEW w \in Procs, Live(w), busy[pid[w]] # 0
  PROVE  \/ chan[w] = <<>> /\ proc[w] = "busy" /\ busy[pid[w]] = job[w]
         \/ InTransit(w, "DONE")
<1>1. Followed(w)
  BY DEF FollowInv
<1>2. CASE chan[w] = <<>>
  BY <1>1, <1>2 DEF Followed, HasState
<1>3. CASE chan[w] # <<>>
  <2>1. 1 \in DOMAIN chan[w]
    BY <1>3 DEF TypeInv, TypeOK
  <2>2. chan[w][1].kind # "BUSY"
    BY <1>1, <2>1 DEF Followed, Continues
  <2>3. chan[w][1].kind = "DONE"
    BY <2>1, <2>2, ChanJob DEF Notif
  <2> QED
    BY <2>1, <2>3 DEF InTransit
<1> QED
  BY <1>2, <1>3

(* Only a worker with the pid in question is killed, and only with an      *)
(* entry.                                                                  *)
LEMMA KilledHasEntry ==
  ASSUME TypeInv, NEW p \in Pids, KillBusy(p), NEW w \in Procs, proc'[w] # proc[w]
  PROVE  pid[w] = p /\ busy[p] # 0
BY DEF KillBusy, KillPid, TypeInv, TypeOK

(* A timer never cuts a job short.                                         *)
LEMMA StepNoEarlyKill ==
  ASSUME TypeInv, StoppedEmpty, FollowInv, [Next]_vars, NEW w \in Procs,
         Reliable, armed' # armed, busy' # busy, proc[w] = "busy", proc'[w] = "dead"
  PROVE  age[w] = Timeout \/ InTransit(w, "DONE")
<1>1. proc' # proc
  OBVIOUS
<1>2. PICK t \in armed : Fire(t)
  BY <1>1
     DEF Next, Spawn, StartJob, EndJob, Exit, Crash, Serve, ReceiveBusy, ReceiveDone,
         DismissRead, Expire, KillWorkerBusy, Stop, Tick, vars, procVars, serverVars
<1>3. t.pid \in Pids /\ t.left = 0 /\ KillBusy(t.pid)
  BY <1>2 DEF Fire, TypeInv, TypeOK, Timer
<1>4. pid[w] = t.pid /\ busy[pid[w]] # 0
  BY <1>3, KilledHasEntry
<1>5. running /\ Live(w)
  BY <1>3, <1>4 DEF StoppedEmpty, Live
<1>6. CASE chan[w] = <<>> /\ busy[pid[w]] = job[w]
  <2>1. t.left + age[w] >= Timeout
    BY <1>4, <1>5, <1>6 DEF FollowInv, Followed, TimersOf
  <2>2. age[w] \in 0 .. Timeout
    BY DEF TypeInv, TypeOK
  <2> QED
    BY <1>3, <2>1, <2>2
<1> QED
  BY <1>4, <1>5, <1>6, EntryOrDone

(* A timer kills in the middle of a job only when the job had its whole    *)
(* time, or when the DONE of an earlier job is still to be received.       *)
THEOREM EarlyKillCorrect == Spec => NoEarlyKill
<1> DEFINE Timely == \A w \in Procs :
             (/\ Reliable
              /\ armed' # armed /\ busy' # busy
              /\ proc[w] = "busy" /\ proc'[w] = "dead")
               => age[w] = Timeout \/ InTransit(w, "DONE")
<1>1. TypeInv /\ StoppedEmpty /\ FollowInv /\ [Next]_vars => [Timely]_vars
  BY StepNoEarlyKill
<1> QED
  BY <1>1, TypeInvariant, StoppedInvariant, FollowInvariant, PTL DEF Spec, NoEarlyKill

(* A dismissal kills the worker of its job.                                *)
LEMMA StepDismissal ==
  ASSUME TypeInv, StoppedEmpty, FollowInv, [Next]_vars, NEW w \in Procs,
         Reliable, dismissing # None, dismissing' = None, Live(w), proc'[w] = "dead"
  PROVE  \/ proc[w] = "busy" /\ job[w] = target /\ chan[w] = <<>>
         \/ InTransit(w, "DONE")
<1>1. KillWorkerBusy
  BY DEF Next, Spawn, StartJob, EndJob, Exit, Crash, Serve, ReceiveBusy, ReceiveDone, Received,
         DismissRead, Expire, Fire, Stop, Tick, vars, dismissVars
<1>2. dismissing \in Pids /\ KillBusy(dismissing)
  BY <1>1 DEF KillWorkerBusy, TypeInv, TypeOK
<1>3. pid[w] = dismissing /\ busy[pid[w]] # 0
  BY <1>2, KilledHasEntry DEF Live
<1>4. running
  BY <1>2, <1>3 DEF StoppedEmpty
<1>5. (proc[w] = "busy" /\ job[w] = target) \/ InTransit(w, "DONE")
  BY <1>3, <1>4 DEF FollowInv, Followed, DismissalOf
<1> QED
  BY <1>3, <1>4, <1>5, EntryOrDone

(* A dismissal kills, where the notifications arrived, the job it was      *)
(* asked for, or leaves a job whose notification is on its way.            *)
THEOREM DismissalCorrect == Spec => DismissalKillsAnnounced
<1> DEFINE Right == \A w \in Procs :
             (/\ Reliable
              /\ dismissing # None /\ dismissing' = None
              /\ Live(w) /\ proc'[w] = "dead")
               => \/ proc[w] = "busy" /\ job[w] = target /\ chan[w] = <<>>
                  \/ InTransit(w, "DONE")
<1>1. TypeInv /\ StoppedEmpty /\ FollowInv /\ [Next]_vars => [Right]_vars
  BY StepDismissal
<1> QED
  BY <1>1, TypeInvariant, StoppedInvariant, FollowInvariant, PTL
     DEF Spec, DismissalKillsAnnounced

===============================================================================
