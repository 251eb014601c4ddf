--------------------------- MODULE JobRecord_proofs ---------------------------
(***************************************************************************)
(* Proofs about JobRecord, for every set of jobs and every value of the    *)
(* bounds.                                                                 *)
(***************************************************************************)
EXTENDS JobRecord, TLAPS

USE NoneAssumption, BoundsAssumption

-------------------------------------------------------------------------------
(* Types.                                                                  *)

Statuses == {"NO_STATUS", "ACCEPTED", "STARTED", "DONE", "ERROR"}

LEMMA Values ==
  /\ Status = Statuses
  /\ Value["NO_STATUS"] = 0 /\ Value["ACCEPTED"] = 21 /\ Value["STARTED"] = 25
  /\ Value["DONE"] = 30 /\ Value["ERROR"] = 40
BY DEF Status, Statuses, Value

LEMMA FinalOf ==
  /\ Final("DONE") /\ Final("ERROR")
  /\ ~Final("STARTED") /\ ~Final("ACCEPTED") /\ ~Final("NO_STATUS")
BY Values DEF Final

(* Nothing but the update of u in the process p changes.                   *)
OnlyUpdate(p, u) ==
  \A q \in Processes, v \in Jobs : q # p \/ v # u => update'[q][v] = update[q][v]

LEMMA UpdateParts ==
  ASSUME NEW a \in Update
  PROVE  /\ a # None
         /\ a.status \in Status
         /\ a.step \in {"document", "read", "write"}
         /\ a.step = "write" => a.saved \in Record
         /\ a.step # "write" => a.saved = None
BY DEF Update

(* An entry of update is replaced.                                         *)
LEMMA Replaced ==
  ASSUME TypeOK, NEW p \in Processes, NEW u \in Jobs, NEW a \in Update \cup {None},
         update' = [update EXCEPT ![p][u] = a]
  PROVE  /\ update' \in [Processes -> [Jobs -> Update \cup {None}]]
         /\ update'[p][u] = a
         /\ OnlyUpdate(p, u)
BY DEF TypeOK, OnlyUpdate

LEMMA BeginUpdate ==
  ASSUME TypeOK, NEW p \in Processes, NEW u \in Jobs, NEW s \in Status, Begin(p, u, s)
  PROVE  /\ update' \in [Processes -> [Jobs -> Update \cup {None}]]
         /\ update'[p][u] = [status |-> s, step |-> "document", saved |-> None]
         /\ update'[p][u] # None
         /\ OnlyUpdate(p, u)
<1> DEFINE a == [status |-> s, step |-> "document", saved |-> None]
<1>1. a \in Update
  BY DEF Update
<1>2. update' = [update EXCEPT ![p][u] = a]
  BY DEF Begin
<1> HIDE DEF a
<1>3. a # None
  BY <1>1
<1>4. update'[p][u] = a /\ update' \in [Processes -> [Jobs -> Update \cup {None}]] /\ OnlyUpdate(p, u)
  BY <1>1, <1>2, Replaced
<1> QED
  BY <1>3, <1>4 DEF a

(* The commands of an update, as replacements.                             *)
LEMMA DocumentStep ==
  ASSUME TypeOK, NEW p \in Processes, NEW u \in Jobs, WriteDocument(p, u)
  PROVE  /\ update[p][u] \in Update /\ update[p][u].step = "document"
         /\ update' \in [Processes -> [Jobs -> Update \cup {None}]]
         /\ update'[p][u] \in Update
         /\ update'[p][u].status = update[p][u].status
         /\ update'[p][u].step = "read"
         /\ OnlyUpdate(p, u)
<1> DEFINE a == [update[p][u] EXCEPT !.step = "read"]
<1>1. update[p][u] \in Update /\ update[p][u].step = "document"
  BY DEF WriteDocument, TypeOK
<1>2. update[p][u] \in [status : Status, step : {"document", "read"}, saved : {None}]
  BY <1>1, UpdateParts DEF Update
<1>3. a \in [status : Status, step : {"document", "read"}, saved : {None}]
  BY <1>2
<1>4. a \in Update /\ a.status = update[p][u].status /\ a.step = "read"
  BY <1>2, <1>3 DEF Update
<1>5. update' = [update EXCEPT ![p][u] = a]
  BY DEF WriteDocument, TypeOK
<1> HIDE DEF a
<1> QED
  BY <1>1, <1>4, <1>5, Replaced

LEMMA ReadStep ==
  ASSUME TypeOK, NEW p \in Processes, NEW u \in Jobs, ReadRecord(p, u)
  PROVE  /\ update[p][u] \in Update /\ update[p][u].step = "read"
         /\ update' \in [Processes -> [Jobs -> Update \cup {None}]]
         /\ update'[p][u] \in Update
         /\ update'[p][u].status = update[p][u].status
         /\ update'[p][u].step = "write"
         /\ update'[p][u].saved = record'[u]
         /\ record'[u] = IF record[u] = None THEN Logged ELSE record[u]
         /\ record' \in [Jobs -> Record \cup {None}]
         /\ record'[u] \in Record
         /\ \A v \in Jobs : v # u => record'[v] = record[v]
         /\ OnlyUpdate(p, u)
<1> DEFINE found == IF record[u] = None THEN Logged ELSE record[u]
           a == [update[p][u] EXCEPT !.step = "write", !.saved = found]
<1>1. update[p][u] \in Update /\ update[p][u].step = "read"
  BY DEF ReadRecord, TypeOK
<1>2. update[p][u] \in [status : Status, step : {"document", "read"}, saved : {None}]
  BY <1>1, UpdateParts DEF Update
<1>3. found \in Record
  BY Values DEF TypeOK, Logged, Record, Statuses
<1>4. a \in [status : Status, step : {"write"}, saved : Record]
  BY <1>2, <1>3
<1>5. a \in Update /\ a.status = update[p][u].status /\ a.step = "write" /\ a.saved = found
  BY <1>2, <1>4 DEF Update
<1>6. /\ record' = [record EXCEPT ![u] = found]
      /\ update' = [update EXCEPT ![p][u].step = "write", ![p][u].saved = found]
  BY DEF ReadRecord
<1> HIDE DEF found
<1>7. update' = [update EXCEPT ![p][u] = a]
  BY <1>6 DEF TypeOK
<1>8. /\ record' \in [Jobs -> Record \cup {None}] /\ record'[u] = found
      /\ \A v \in Jobs : v # u => record'[v] = record[v]
  BY <1>3, <1>6 DEF TypeOK
<1> HIDE DEF a
<1> QED
  BY <1>1, <1>3, <1>5, <1>7, <1>8, Replaced DEF found

LEMMA WriteStep ==
  ASSUME TypeOK, NEW p \in Processes, NEW u \in Jobs, WriteRecord(p, u)
  PROVE  /\ update[p][u] \in Update /\ update[p][u].step = "write"
         /\ update[p][u].saved \in Record
         /\ update' \in [Processes -> [Jobs -> Update \cup {None}]]
         /\ update'[p][u] = None
         /\ OnlyUpdate(p, u)
         /\ record' \in [Jobs -> Record \cup {None}]
         /\ record'[u] \in Record
         /\ record'[u].status = update[p][u].status
         /\ record'[u].age = 0
         /\ record'[u].pid =>
              \/ update[p][u].status = "STARTED"
              \/ update[p][u].saved.pid /\ ~Final(update[p][u].status)
         /\ \A v \in Jobs : v # u => record'[v] = record[v]
<1> DEFINE saved == update[p][u].saved  s == update[p][u].status
           r == Updated(saved, s)
<1>1. update[p][u] \in Update /\ update[p][u].step = "write"
  BY DEF WriteRecord, TypeOK
<1>2. saved \in Record /\ s \in Status
  BY <1>1, UpdateParts
<1>3. record' = [record EXCEPT ![u] = r] /\ update' = [update EXCEPT ![p][u] = None]
  BY DEF WriteRecord
<1> HIDE DEF saved, s
<1> DEFINE b == \/ s = "STARTED" /\ Value[saved.status] < Value["STARTED"]
                \/ saved.pid /\ ~Final(s)
<1>4. b => s = "STARTED" \/ (saved.pid /\ ~Final(s))
  OBVIOUS
<1>5. r = [status |-> s, pid |-> b, age |-> 0]
  BY DEF Updated
<1>9. b \in BOOLEAN
  BY <1>2 DEF Record
<1> HIDE DEF b, r
<1>6. r \in Record /\ r.status = s /\ r.age = 0 /\ r.pid = b
  BY <1>2, <1>5, <1>9 DEF Record
<1>7. /\ record' \in [Jobs -> Record \cup {None}] /\ record'[u] = r
      /\ \A v \in Jobs : v # u => record'[v] = record[v]
  BY <1>3, <1>6 DEF TypeOK
<1>8. r.pid => s = "STARTED" \/ (saved.pid /\ ~Final(s))
  BY <1>4, <1>6
<1> QED
  BY <1>1, <1>2, <1>3, <1>6, <1>7, <1>8, Replaced DEF saved, s

LEMMA KilledStep ==
  ASSUME TypeOK, NEW u \in Jobs, Killed(u)
  PROVE  /\ worker' = [worker EXCEPT ![u] = "killed"]
         /\ worker' \in [Jobs -> Alive \cup {"none", "done", "failed", "killed"}]
         /\ update' \in [Processes -> [Jobs -> Update \cup {None}]]
         /\ update'["worker"][u] = None
         /\ OnlyUpdate("worker", u)
<1>1. update' = [update EXCEPT !["worker"][u] = None] /\ "worker" \in Processes
  BY DEF Killed, Processes
<1>2. worker' \in [Jobs -> Alive \cup {"none", "done", "failed", "killed"}]
  BY DEF Killed, TypeOK
<1> QED
  BY <1>1, <1>2, Replaced DEF Killed

(* Failure begins an update or leaves it.                                  *)
LEMMA FailureStep ==
  ASSUME TypeOK, NEW u \in Jobs, Failure(u)
  PROVE  /\ client' = [client EXCEPT ![u] = "error"]
         /\ update' \in [Processes -> [Jobs -> Update \cup {None}]]
         /\ OnlyUpdate("server", u)
         /\ \/ update' = update
            \/ update'["server"][u] # None /\ update'["server"][u].status = "ERROR"
<1>1. CASE async[u]
  <2>1. Begin("server", u, "ERROR") /\ "server" \in Processes /\ "ERROR" \in Status
    BY <1>1, Values DEF Failure, Processes, Statuses
  <2>2. /\ update' \in [Processes -> [Jobs -> Update \cup {None}]]
        /\ update'["server"][u] = [status |-> "ERROR", step |-> "document", saved |-> None]
        /\ update'["server"][u] # None
        /\ OnlyUpdate("server", u)
    BY <2>1, BeginUpdate
  <2> QED
    BY <2>2 DEF Failure
<1>2. CASE ~async[u]
  BY <1>2 DEF Failure, TypeOK, OnlyUpdate
<1> QED
  BY <1>1, <1>2

LEMMA InitType == Init => TypeOK
BY DEF Init, TypeOK, Processes

(* The commands of both processes keep the types.                          *)
LEMMA CommandType ==
  ASSUME TypeOK, NEW p \in Processes, NEW u \in Jobs, Command(p, u)
  PROVE  TypeOK'
<1>1. CASE WriteDocument(p, u)
  <2>1. /\ document' = [document EXCEPT ![u] = update[p][u].status]
        /\ UNCHANGED <<record, workdir, clientVars, workVars, removal, history, counters>>
    BY <1>1 DEF WriteDocument
  <2>2. update[p][u].status \in Status
    BY <1>1, DocumentStep, UpdateParts
  <2>3. document' \in [Jobs -> Status \cup {None}]
    BY <2>1, <2>2 DEF TypeOK
  <2>4. update' \in [Processes -> [Jobs -> Update \cup {None}]]
    BY <1>1, DocumentStep
  <2> QED
    BY <2>1, <2>3, <2>4 DEF TypeOK, clientVars, workVars, history, counters
<1>2. CASE ReadRecord(p, u)
  <2>1. UNCHANGED <<document, workdir, clientVars, workVars, removal, history, counters>>
    BY <1>2 DEF ReadRecord
  <2>2. /\ update' \in [Processes -> [Jobs -> Update \cup {None}]]
        /\ record' \in [Jobs -> Record \cup {None}]
    BY <1>2, ReadStep
  <2> QED
    BY <2>1, <2>2 DEF TypeOK, clientVars, workVars, history, counters
<1>3. CASE WriteRecord(p, u)
  <2>1. UNCHANGED <<document, workdir, clientVars, workVars, removal, history, counters>>
    BY <1>3 DEF WriteRecord
  <2>2. /\ update' \in [Processes -> [Jobs -> Update \cup {None}]]
        /\ record' \in [Jobs -> Record \cup {None}]
    BY <1>3, WriteStep
  <2> QED
    BY <2>1, <2>2 DEF TypeOK, clientVars, workVars, history, counters
<1> QED
  BY <1>1, <1>2, <1>3 DEF Command

LEMMA LoggedType == Logged \in Record
BY Values DEF Logged, Record, Statuses

LEMMA ServerType ==
  ASSUME TypeOK, NEW u \in Jobs,
         \/ Submit(u) \/ LogRequest(u) \/ Refuse(u) \/ Dispatch(u) \/ TimeOut(u) \/ Reply(u)
         \/ Dismiss(u) \/ DeleteResults(u) \/ Delete(u)
  PROVE  TypeOK'
<1> USE DEF store, clientVars, workVars, history, counters
<1>1. "server" \in Processes /\ "ACCEPTED" \in Status /\ "ERROR" \in Status
  BY Values DEF Processes, Statuses
<1>2. CASE Submit(u)
  BY <1>2 DEF Submit, TypeOK
<1>3. CASE LogRequest(u)
  <2>1. /\ update' \in [Processes -> [Jobs -> Update \cup {None}]]
        /\ record' \in [Jobs -> Record \cup {None}]
    BY <1>1, <1>3, BeginUpdate, LoggedType DEF LogRequest, TypeOK
  <2> QED
    BY <1>3, <2>1 DEF LogRequest, TypeOK
<1>4. CASE Refuse(u)
  <2>1. /\ update' \in [Processes -> [Jobs -> Update \cup {None}]]
        /\ client' = [client EXCEPT ![u] = "error"]
    BY <1>4, FailureStep DEF Refuse
  <2> QED
    BY <1>4, <2>1 DEF Refuse, TypeOK
<1>5. CASE Dispatch(u)
  BY <1>5 DEF Dispatch, TypeOK, Alive
<1>6. CASE TimeOut(u)
  <2>1. update' \in [Processes -> [Jobs -> Update \cup {None}]]
    BY <1>1, <1>6, BeginUpdate DEF TimeOut
  <2> QED
    BY <1>6, <2>1 DEF TimeOut, TypeOK
<1>7. CASE Reply(u)
  <2>1. /\ update' \in [Processes -> [Jobs -> Update \cup {None}]]
        /\ client' \in [Jobs -> {"new", "opened", "waiting", "sent", "ok", "error", "timeout"}]
    BY <1>7, FailureStep DEF Reply, TypeOK
  <2> QED
    BY <1>7, <2>1 DEF Reply, TypeOK
<1>8. CASE Dismiss(u) \/ DeleteResults(u)
  <2>1. /\ removal' \in [Jobs -> {"none", "kill", "workdir", "record"}]
        /\ deleted' \in [Jobs -> BOOLEAN]
    BY <1>8 DEF Dismiss, DeleteResults, TypeOK
  <2>2. dismissed' \in [Jobs -> BOOLEAN]
    BY <1>8 DEF Dismiss, DeleteResults, TypeOK
  <2>3. dismissals' \in Nat
    BY <1>8 DEF Dismiss, DeleteResults, TypeOK
  <2> QED
    BY <1>8, <2>1, <2>2, <2>3 DEF Dismiss, DeleteResults, TypeOK
<1>9. CASE Delete(u)
  <2>1. CASE Kill(u)
    <3>1. /\ worker' \in [Jobs -> Alive \cup {"none", "done", "failed", "killed"}]
          /\ update' \in [Processes -> [Jobs -> Update \cup {None}]]
      BY <2>1, KilledStep DEF Kill, TypeOK
    <3>2. /\ removal' \in [Jobs -> {"none", "kill", "workdir", "record"}]
          /\ dismissed' \in [Jobs -> BOOLEAN]
      BY <2>1 DEF Kill, TypeOK
    <3> QED
      BY <2>1, <3>1, <3>2 DEF Kill, TypeOK
  <2>2. CASE RemoveWorkdir(u) \/ DeleteRecord(u)
    BY <2>2 DEF RemoveWorkdir, DeleteRecord, TypeOK
  <2> QED
    BY <1>9, <2>1, <2>2 DEF Delete
<1> QED
  BY <1>2, <1>3, <1>4, <1>5, <1>6, <1>7, <1>8, <1>9

LEMMA WorkerType ==
  ASSUME TypeOK, NEW u \in Jobs,
         Work(u) \/ Progress(u) \/ HandlerEnds(u) \/ KillStalled(u) \/ WorkerDies(u)
  PROVE  TypeOK'
<1> USE DEF store, clientVars, workVars, history, counters
<1>1. "worker" \in Processes /\ {"STARTED", "DONE", "ERROR"} \subseteq Status
  BY Values DEF Processes, Statuses
<1>2. CASE TakeJob(u)
  <2>1. update' \in [Processes -> [Jobs -> Update \cup {None}]]
    BY <1>1, <1>2, BeginUpdate DEF TakeJob
  <2>2. worker' \in [Jobs -> Alive \cup {"none", "done", "failed", "killed"}]
    BY <1>2 DEF TakeJob, TypeOK, Alive
  <2> QED
    BY <1>2, <2>1, <2>2 DEF TakeJob, TypeOK
<1>3. CASE Started(u) \/ Finish(u)
  <2>1. worker' \in [Jobs -> Alive \cup {"none", "done", "failed", "killed"}]
    BY <1>3 DEF Started, Finish, TypeOK, Alive
  <2> QED
    BY <1>3, <2>1 DEF Started, Finish, TypeOK
<1>4. CASE Progress(u)
  <2>1. update' \in [Processes -> [Jobs -> Update \cup {None}]]
    BY <1>1, <1>4, BeginUpdate DEF Progress
  <2> QED
    BY <1>4, <2>1 DEF Progress, TypeOK
<1>5. CASE HandlerEnds(u)
  <2>1. update' \in [Processes -> [Jobs -> Update \cup {None}]]
    BY <1>1, <1>5, BeginUpdate DEF HandlerEnds
  <2>2. worker' \in [Jobs -> Alive \cup {"none", "done", "failed", "killed"}]
    BY <1>5 DEF HandlerEnds, TypeOK, Alive
  <2> QED
    BY <1>5, <2>1, <2>2 DEF HandlerEnds, TypeOK
<1>6. CASE KillStalled(u) \/ WorkerDies(u)
  <2>1. /\ worker' \in [Jobs -> Alive \cup {"none", "done", "failed", "killed"}]
        /\ update' \in [Processes -> [Jobs -> Update \cup {None}]]
    BY <1>6, KilledStep DEF KillStalled, WorkerDies
  <2> QED
    BY <1>6, <2>1 DEF KillStalled, WorkerDies, TypeOK
<1> QED
  BY <1>2, <1>3, <1>4, <1>5, <1>6 DEF Work

(* Time only makes records older.                                          *)
LEMMA TickRecord ==
  ASSUME TypeOK, Tick, NEW u \in Jobs
  PROVE  /\ record'[u] \in Record \cup {None}
         /\ record'[u] = None <=> record[u] = None
         /\ record[u] # None =>
              /\ record'[u].status = record[u].status
              /\ record'[u].pid = record[u].pid
              /\ record'[u].age = UpTo(record[u].age, MaxAge)
<1>1. CASE record[u] = None
  BY <1>1 DEF Tick
<1>2. CASE record[u] # None
  <2>1. record[u] \in Record /\ record'[u] = [record[u] EXCEPT !.age = UpTo(@, MaxAge)]
    BY <1>2 DEF TypeOK, Tick
  <2>2. record'[u] \in Record
    BY <2>1 DEF Record, UpTo
  <2>3. /\ record'[u].status = record[u].status
        /\ record'[u].pid = record[u].pid
        /\ record'[u].age = UpTo(record[u].age, MaxAge)
    BY <2>1 DEF Record
  <2> QED
    BY <1>2, <2>2, <2>3
<1> QED
  BY <1>1, <1>2

LEMMA OtherType ==
  ASSUME TypeOK, Clean \/ ServerStops \/ Tick \/ UNCHANGED vars
  PROVE  TypeOK'
<1> USE DEF store, clientVars, workVars, history, counters
<1>1. CASE Clean
  BY <1>1 DEF Clean, TypeOK
<1>2. CASE ServerStops
  <2>1. /\ client' \in [Jobs -> {"new", "opened", "waiting", "sent", "ok", "error", "timeout"}]
        /\ worker' \in [Jobs -> Alive \cup {"none", "done", "failed", "killed"}]
        /\ update' \in [Processes -> [Jobs -> Update \cup {None}]]
        /\ dismissed' \in [Jobs -> BOOLEAN]
        /\ removal' \in [Jobs -> {"none", "kill", "workdir", "record"}]
    BY <1>2 DEF ServerStops, TypeOK
  <2> QED
    BY <1>2, <2>1 DEF ServerStops, TypeOK
<1>3. CASE Tick
  <2>2. record' \in [Jobs -> Record \cup {None}]
    BY <1>3, TickRecord DEF Tick
  <2>3. wait' \in [Jobs -> 0 .. Timeout] /\ ran' \in [Jobs -> 0 .. ServerTimeout]
    BY <1>3 DEF Tick, TypeOK, UpTo
  <2> QED
    BY <1>3, <2>2, <2>3 DEF Tick, TypeOK
<1>4. CASE UNCHANGED vars
  BY <1>4 DEF vars, TypeOK
<1> QED
  BY <1>1, <1>2, <1>3, <1>4

LEMMA NextType == TypeOK /\ [Next]_vars => TypeOK'
BY CommandType, ServerType, WorkerType, OtherType DEF Next

(* Type correctness.                                                       *)
THEOREM TypeCorrect == Spec => []TypeOK
<1>1. Init => TypeOK
  BY InitType
<1>2. TypeOK /\ [Next]_vars => TypeOK'
  BY NextType
<1> QED
  BY <1>1, <1>2, PTL DEF Spec

-------------------------------------------------------------------------------
(* A step is one of a job, which leaves all others alone, or one of all    *)
(* jobs.                                                                   *)

Same(v) ==
  /\ record'[v] = record[v] /\ document'[v] = document[v] /\ workdir'[v] = workdir[v]
  /\ client'[v] = client[v] /\ wait'[v] = wait[v] /\ worker'[v] = worker[v]
  /\ removal'[v] = removal[v] /\ deleted'[v] = deleted[v]
  /\ update'["worker"][v] = update["worker"][v]
  /\ update'["server"][v] = update["server"][v]

OthersSame(u) == \A v \in Jobs : v # u => Same(v)

ServerJobStep(u) ==
  \/ Submit(u) \/ LogRequest(u) \/ Refuse(u) \/ Dispatch(u) \/ TimeOut(u) \/ Reply(u)
  \/ Dismiss(u) \/ DeleteResults(u) \/ Delete(u)

WorkerJobStep(u) == Work(u) \/ Progress(u) \/ HandlerEnds(u) \/ KillStalled(u) \/ WorkerDies(u)

LEMMA StepKinds ==
  ASSUME [Next]_vars
  PROVE  \/ \E u \in Jobs : \/ \E p \in Processes : Command(p, u)
                           \/ ServerJobStep(u)
                           \/ WorkerJobStep(u)
         \/ Clean \/ ServerStops \/ Tick \/ UNCHANGED vars
BY DEF Next, ServerJobStep, WorkerJobStep

LEMMA CommandSame ==
  ASSUME TypeOK, NEW p \in Processes, NEW u \in Jobs, Command(p, u)
  PROVE  OthersSame(u)
<1> USE DEF store, clientVars, workVars, history, counters, OthersSame, Same, OnlyUpdate
<1>1. CASE WriteDocument(p, u)
  BY <1>1, DocumentStep DEF WriteDocument, TypeOK, Processes
<1>2. CASE ReadRecord(p, u)
  <2>1. /\ OnlyUpdate(p, u)
        /\ \A v \in Jobs : v # u => record'[v] = record[v]
    BY <1>2, ReadStep
  <2>2. UNCHANGED <<document, workdir, clientVars, workVars, removal, history, counters>>
    BY <1>2 DEF ReadRecord
  <2> QED
    BY <2>1, <2>2 DEF Processes
<1>3. CASE WriteRecord(p, u)
  BY <1>3, WriteStep DEF WriteRecord, Processes
<1> QED
  BY <1>1, <1>2, <1>3 DEF Command

LEMMA ServerSame ==
  ASSUME TypeOK, NEW u \in Jobs, ServerJobStep(u)
  PROVE  OthersSame(u)
<1> USE DEF store, clientVars, workVars, history, counters, OthersSame, Same, OnlyUpdate
<1>1. "server" \in Processes /\ "worker" \in Processes /\ "ACCEPTED" \in Status /\ "ERROR" \in Status
  BY Values DEF Processes, Statuses
<1>2. CASE Submit(u) \/ Dispatch(u)
  BY <1>2 DEF Submit, Dispatch, TypeOK
<1>3. CASE LogRequest(u)
  <2>1. OnlyUpdate("server", u)
    BY <1>1, <1>3, BeginUpdate DEF LogRequest
  <2> QED
    BY <1>1, <1>3, <2>1 DEF LogRequest, TypeOK
<1>4. CASE Refuse(u)
  BY <1>1, <1>4, FailureStep DEF Refuse, TypeOK
<1>5. CASE TimeOut(u)
  <2>1. OnlyUpdate("server", u)
    BY <1>1, <1>5, BeginUpdate DEF TimeOut
  <2> QED
    BY <1>1, <1>5, <2>1 DEF TimeOut, TypeOK
<1>6. CASE Reply(u)
  BY <1>1, <1>6, FailureStep DEF Reply, TypeOK
<1>7. CASE Dismiss(u) \/ DeleteResults(u)
  BY <1>7 DEF Dismiss, DeleteResults, TypeOK
<1>8. CASE Delete(u)
  <2>1. CASE Kill(u)
    BY <1>1, <2>1, KilledStep DEF Kill, TypeOK
  <2>2. CASE RemoveWorkdir(u) \/ DeleteRecord(u)
    BY <2>2 DEF RemoveWorkdir, DeleteRecord, TypeOK
  <2> QED
    BY <1>8, <2>1, <2>2 DEF Delete
<1> QED
  BY <1>2, <1>3, <1>4, <1>5, <1>6, <1>7, <1>8 DEF ServerJobStep

LEMMA WorkerSame ==
  ASSUME TypeOK, NEW u \in Jobs, WorkerJobStep(u)
  PROVE  OthersSame(u)
<1> USE DEF store, clientVars, workVars, history, counters, OthersSame, Same, OnlyUpdate
<1>1. "server" \in Processes /\ "worker" \in Processes /\ {"STARTED", "DONE", "ERROR"} \subseteq Status
  BY Values DEF Processes, Statuses
<1>2. CASE TakeJob(u)
  <2>1. OnlyUpdate("worker", u)
    BY <1>1, <1>2, BeginUpdate DEF TakeJob
  <2> QED
    BY <1>1, <1>2, <2>1 DEF TakeJob, TypeOK
<1>3. CASE Started(u) \/ Finish(u)
  BY <1>3 DEF Started, Finish, TypeOK
<1>4. CASE Progress(u)
  <2>1. OnlyUpdate("worker", u)
    BY <1>1, <1>4, BeginUpdate DEF Progress
  <2> QED
    BY <1>1, <1>4, <2>1 DEF Progress, TypeOK
<1>5. CASE HandlerEnds(u)
  <2>1. OnlyUpdate("worker", u)
    BY <1>1, <1>5, BeginUpdate DEF HandlerEnds
  <2> QED
    BY <1>1, <1>5, <2>1 DEF HandlerEnds, TypeOK
<1>6. CASE KillStalled(u) \/ WorkerDies(u)
  BY <1>1, <1>6, KilledStep DEF KillStalled, WorkerDies, TypeOK
<1> QED
  BY <1>2, <1>3, <1>4, <1>5, <1>6 DEF Work, WorkerJobStep

-------------------------------------------------------------------------------
(* Pids.  An update tells what its process is at, and the pid comes into   *)
(* the record with the STARTED of the worker and leaves it with its last   *)
(* update, whatever the server writes meanwhile.                           *)

Has(u) == record[u] # None

(* What the worker tells in each of its states. *)
Told == [starting |-> "STARTED", running |-> "STARTED", finishing |-> "DONE", failing |-> "ERROR"]

UpdatesKnown(u) ==
  /\ update["worker"][u] # None =>
       /\ worker[u] \in {"starting", "running", "finishing", "failing"}
       /\ update["worker"][u].status = Told[worker[u]]
  /\ update["server"][u] # None =>
       \/ update["server"][u].status = "ACCEPTED" /\ client[u] = "waiting"
       \/ update["server"][u].status = "ERROR" /\ client[u] \in {"error", "timeout"}

NotSentYet(u) == client[u] \in {"new", "opened", "waiting"} => worker[u] = "none"

PidWritten(u) ==
  /\ Has(u) /\ record[u].status = "STARTED" => worker[u] \notin {"none", "inbox"}
  /\ Has(u) /\ record[u].pid =>
       /\ record[u].status = "STARTED"
       /\ worker[u] \notin {"done", "failed"}
       /\ worker[u] \in {"finishing", "failing"} => update["worker"][u] # None
  /\ (/\ update["server"][u] # None
      /\ update["server"][u].status = "ACCEPTED"
      /\ update["server"][u].step = "write") => ~update["server"][u].saved.pid

PidOf(u) == UpdatesKnown(u) /\ NotSentYet(u) /\ PidWritten(u)
PidInv   == \A u \in Jobs : PidOf(u)

LEMMA ToldValues ==
  /\ Told["starting"] = "STARTED" /\ Told["running"] = "STARTED"
  /\ Told["finishing"] = "DONE" /\ Told["failing"] = "ERROR"
BY DEF Told

LEMMA SamePid ==
  ASSUME NEW v \in Jobs, PidOf(v), Same(v)
  PROVE  PidOf(v)'
BY DEF PidOf, UpdatesKnown, NotSentYet, PidWritten, Has, Same

LEMMA CommandPid ==
  ASSUME TypeOK, NEW p \in Processes, NEW u \in Jobs, PidOf(u), Command(p, u)
  PROVE  PidOf(u)'
<1> USE DEF PidOf, UpdatesKnown, NotSentYet, PidWritten, Has
<1>1. p \in {"server", "worker"}
  BY DEF Processes
<1>2. CASE WriteDocument(p, u)
  <2>1. /\ update[p][u] # None /\ update'[p][u] # None
        /\ update'[p][u].status = update[p][u].status
        /\ update'[p][u].step = "read"
        /\ OnlyUpdate(p, u)
    BY <1>2, DocumentStep, UpdateParts
  <2>2. UNCHANGED <<record, client, worker>>
    BY <1>2 DEF WriteDocument, clientVars, workVars
  <2> QED
    BY <1>1, <2>1, <2>2 DEF OnlyUpdate, Processes
<1>3. CASE ReadRecord(p, u)
  <2>1. /\ update[p][u] # None /\ update'[p][u] # None
        /\ update'[p][u].status = update[p][u].status
        /\ update'[p][u].saved = record'[u]
        /\ record'[u] # None
        /\ record'[u] = IF record[u] = None THEN Logged ELSE record[u]
        /\ OnlyUpdate(p, u)
    BY <1>3, ReadStep, UpdateParts
  <2>2. UNCHANGED <<client, worker>>
    BY <1>3 DEF ReadRecord, clientVars, workVars
  <2>3. Logged.pid = FALSE /\ Logged.status = "NO_STATUS"
    BY DEF Logged
  <2>4. UpdatesKnown(u)' /\ NotSentYet(u)'
    BY <1>1, <2>1, <2>2 DEF OnlyUpdate, Processes
  <2>5. record'[u].pid => record[u] # None /\ record'[u] = record[u]
    BY <2>1, <2>3
  <2>6. record'[u].status = "STARTED" => record[u] # None /\ record'[u] = record[u]
    BY <2>1, <2>3
  <2>7. update["server"][u] = None <=> update'["server"][u] = None
    BY <1>1, <2>1 DEF OnlyUpdate, Processes
  <2>8. update["worker"][u] = None <=> update'["worker"][u] = None
    BY <1>1, <2>1 DEF OnlyUpdate, Processes
  <2>9. ASSUME p = "server", update'["server"][u].status = "ACCEPTED"
        PROVE  ~record'[u].pid
    BY <2>1, <2>5, <2>9
  <2>10. p = "worker" => update'["server"][u] = update["server"][u]
    BY <2>1 DEF OnlyUpdate, Processes
  <2>11. PidWritten(u)'
    BY <1>1, <2>1, <2>2, <2>5, <2>6, <2>7, <2>8, <2>9, <2>10
  <2> QED
    BY <2>4, <2>11
<1>4. CASE WriteRecord(p, u)
  <2>1. /\ update[p][u] # None /\ update'[p][u] = None
        /\ OnlyUpdate(p, u)
        /\ record'[u] # None
        /\ record'[u].status = update[p][u].status
        /\ record'[u].pid =>
              \/ update[p][u].status = "STARTED"
              \/ update[p][u].saved.pid /\ ~Final(update[p][u].status)
        /\ update[p][u].step = "write"
    BY <1>4, WriteStep, UpdateParts
  <2>2. UNCHANGED <<client, worker>>
    BY <1>4 DEF WriteRecord, clientVars, workVars
  <2>3. UpdatesKnown(u)' /\ NotSentYet(u)'
    BY <1>1, <2>1, <2>2 DEF OnlyUpdate, Processes
  <2>4. CASE p = "server"
    <3>1. ~record'[u].pid /\ record'[u].status # "STARTED"
      BY <2>1, <2>4, FinalOf
    <3>2. update'["worker"][u] = update["worker"][u] /\ update'["server"][u] = None
      BY <2>1, <2>4 DEF OnlyUpdate, Processes
    <3> QED
      BY <2>2, <2>3, <3>1, <3>2
  <2>5. CASE p = "worker"
    <3>1. update'["server"][u] = update["server"][u] /\ update'["worker"][u] = None
      BY <2>1, <2>5 DEF OnlyUpdate, Processes
    <3>2. /\ worker[u] \in {"starting", "running", "finishing", "failing"}
          /\ update["worker"][u].status = Told[worker[u]]
      BY <2>1, <2>5
    <3>3. record'[u].pid => worker[u] \in {"starting", "running"} /\ record'[u].status = "STARTED"
      BY <2>1, <2>5, <3>2, ToldValues, FinalOf
    <3> QED
      BY <2>1, <2>2, <2>3, <3>1, <3>2, <3>3
  <2> QED
    BY <1>1, <2>4, <2>5
<1> QED
  BY <1>2, <1>3, <1>4 DEF Command

LEMMA ServerPid ==
  ASSUME TypeOK, NEW u \in Jobs, PidOf(u), ServerJobStep(u)
  PROVE  PidOf(u)'
<1> USE DEF PidOf, UpdatesKnown, NotSentYet, PidWritten, Has, store, clientVars, workVars,
            Waiting, Alive
<1>1. "server" \in Processes /\ "worker" \in Processes /\ "ACCEPTED" \in Status /\ "ERROR" \in Status
  BY Values DEF Processes, Statuses
<1>2. CASE Submit(u) \/ Dispatch(u)
  BY <1>2 DEF Submit, Dispatch, TypeOK, ServerFree
<1>3. CASE LogRequest(u)
  <2>1. /\ update'["server"][u] = [status |-> "ACCEPTED", step |-> "document", saved |-> None]
        /\ update'["worker"][u] = update["worker"][u]
    BY <1>1, <1>3, BeginUpdate DEF LogRequest, OnlyUpdate
  <2>2. /\ client[u] = "opened" /\ client'[u] = "waiting" /\ worker' = worker
        /\ record'[u] = Logged
    BY <1>3 DEF LogRequest, TypeOK
  <2>3. Logged.pid = FALSE /\ Logged.status = "NO_STATUS"
    BY DEF Logged
  <2> QED
    BY <2>1, <2>2, <2>3
<1>4. CASE Refuse(u)
  <2>1. /\ client'[u] = "error" /\ UNCHANGED <<worker, record>>
        /\ update["server"][u] = None
    BY <1>4, FailureStep DEF Refuse, TypeOK, ServerFree
  <2>2. /\ update'["worker"][u] = update["worker"][u]
        /\ update'["server"][u] = None \/ update'["server"][u].status = "ERROR"
    BY <1>1, <1>4, <2>1, FailureStep DEF Refuse, OnlyUpdate
  <2> QED
    BY <2>1, <2>2
<1>5. CASE TimeOut(u)
  <2>1. /\ update'["server"][u] = [status |-> "ERROR", step |-> "document", saved |-> None]
        /\ update'["worker"][u] = update["worker"][u]
    BY <1>1, <1>5, BeginUpdate DEF TimeOut, OnlyUpdate
  <2>2. client'[u] = "timeout" /\ UNCHANGED <<worker, record>>
    BY <1>5 DEF TimeOut, TypeOK
  <2> QED
    BY <2>1, <2>2
<1>6. CASE Reply(u)
  <2>1. /\ client'[u] \in {"ok", "error"} /\ UNCHANGED <<worker, record>>
        /\ update["server"][u] = None
    BY <1>6, FailureStep DEF Reply, TypeOK, ServerFree
  <2>2. /\ update'["worker"][u] = update["worker"][u]
        /\ \/ update'["server"][u] = None
           \/ update'["server"][u].status = "ERROR" /\ client'[u] = "error"
    BY <1>1, <1>6, <2>1, FailureStep DEF Reply, OnlyUpdate, TypeOK
  <2> QED
    BY <2>1, <2>2
<1>7. CASE Dismiss(u) \/ DeleteResults(u)
  BY <1>7 DEF Dismiss, DeleteResults, TypeOK
<1>8. CASE Delete(u)
  <2>1. CASE Kill(u)
    <3>1. CASE UNCHANGED <<worker, update>>
      BY <2>1, <3>1 DEF Kill
    <3>2. CASE worker[u] \in Alive \ {"inbox"} /\ Killed(u)
      <4>1. /\ worker'[u] = "killed" /\ update'["worker"][u] = None
            /\ update'["server"][u] = update["server"][u]
        BY <1>1, <3>2, KilledStep DEF OnlyUpdate, TypeOK
      <4>2. UNCHANGED <<client, record>>
        BY <2>1 DEF Kill
      <4> QED
        BY <3>2, <4>1, <4>2
    <3> QED
      BY <2>1, <3>1, <3>2 DEF Kill
  <2>2. CASE RemoveWorkdir(u) \/ DeleteRecord(u)
    BY <2>2 DEF RemoveWorkdir, DeleteRecord, TypeOK
  <2> QED
    BY <1>8, <2>1, <2>2 DEF Delete
<1> QED
  BY <1>2, <1>3, <1>4, <1>5, <1>6, <1>7, <1>8 DEF ServerJobStep

LEMMA WorkerPid ==
  ASSUME TypeOK, NEW u \in Jobs, PidOf(u), WorkerJobStep(u)
  PROVE  PidOf(u)'
<1> USE DEF PidOf, UpdatesKnown, NotSentYet, PidWritten, Has, store, clientVars, workVars,
            Waiting, Alive
<1>1. "server" \in Processes /\ "worker" \in Processes /\ {"STARTED", "DONE", "ERROR"} \subseteq Status
  BY Values DEF Processes, Statuses
<1>2. CASE TakeJob(u)
  <2>1. UNCHANGED <<client, record>> /\ worker[u] = "inbox"
    BY <1>2 DEF TakeJob
  <2>2. \/ worker'[u] = "starting" /\ Begin("worker", u, "STARTED")
        \/ worker'[u] = "failing" /\ Begin("worker", u, "ERROR")
    BY <1>2 DEF TakeJob, TypeOK
  <2>3. PICK s \in {"STARTED", "ERROR"} :
          /\ update'["worker"][u] = [status |-> s, step |-> "document", saved |-> None]
          /\ s = Told[worker'[u]] /\ worker'[u] \in {"starting", "failing"}
          /\ update'["worker"][u] # None /\ update'["server"][u] = update["server"][u]
    BY <1>1, <2>2, BeginUpdate, ToldValues DEF OnlyUpdate
  <2> QED
    BY <2>1, <2>3
<1>3. CASE Started(u) \/ Finish(u)
  <2>1. /\ UNCHANGED <<client, record, update>> /\ update["worker"][u] = None
        /\ \/ worker[u] = "starting" /\ worker'[u] = "running"
           \/ worker[u] = "finishing" /\ worker'[u] = "done"
           \/ worker[u] = "failing" /\ worker'[u] = "failed"
    BY <1>3 DEF Started, Finish, WorkerIdle, TypeOK
  <2> QED
    BY <2>1
<1>4. CASE Progress(u)
  <2>1. /\ update'["worker"][u] = [status |-> "STARTED", step |-> "document", saved |-> None]
        /\ update'["server"][u] = update["server"][u]
        /\ update'["worker"][u] # None
    BY <1>1, <1>4, BeginUpdate DEF Progress, OnlyUpdate
  <2>2. worker[u] = "running" /\ UNCHANGED <<client, record, worker>>
    BY <1>4 DEF Progress
  <2> QED
    BY <2>1, <2>2, ToldValues
<1>5. CASE HandlerEnds(u)
  <2>1. UNCHANGED <<client, record>> /\ worker[u] = "running"
    BY <1>5 DEF HandlerEnds
  <2>2. \/ worker'[u] = "finishing" /\ Begin("worker", u, "DONE")
        \/ worker'[u] = "failing" /\ Begin("worker", u, "ERROR")
    BY <1>5 DEF HandlerEnds, TypeOK
  <2>3. PICK s \in {"DONE", "ERROR"} :
          /\ update'["worker"][u] = [status |-> s, step |-> "document", saved |-> None]
          /\ s = Told[worker'[u]] /\ worker'[u] \in {"finishing", "failing"}
          /\ update'["worker"][u] # None /\ update'["server"][u] = update["server"][u]
    BY <1>1, <2>2, BeginUpdate, ToldValues DEF OnlyUpdate
  <2> QED
    BY <2>1, <2>3
<1>6. CASE KillStalled(u) \/ WorkerDies(u)
  <2>1. /\ worker'[u] = "killed" /\ update'["worker"][u] = None
        /\ update'["server"][u] = update["server"][u]
    BY <1>1, <1>6, KilledStep DEF KillStalled, WorkerDies, OnlyUpdate, TypeOK
  <2>2. UNCHANGED <<client, record>> /\ worker[u] \in Alive
    BY <1>6 DEF KillStalled, WorkerDies
  <2> QED
    BY <2>1, <2>2
<1> QED
  BY <1>2, <1>3, <1>4, <1>5, <1>6 DEF Work, WorkerJobStep

LEMMA OtherPid ==
  ASSUME TypeOK, NEW u \in Jobs, PidOf(u), Clean \/ ServerStops \/ Tick \/ UNCHANGED vars
  PROVE  PidOf(u)'
<1> USE DEF PidOf, UpdatesKnown, NotSentYet, PidWritten, Has, store, clientVars, workVars,
            Waiting, Alive
<1>1. CASE Clean
  BY <1>1 DEF Clean
<1>2. CASE ServerStops
  <2>1. /\ update'["worker"][u] = None /\ update'["server"][u] = None /\ UNCHANGED record
        /\ client'[u] = IF client[u] \in {"waiting", "sent", "opened"} THEN "error" ELSE client[u]
        /\ worker'[u] = IF worker[u] \in Alive THEN "killed" ELSE worker[u]
    BY <1>2 DEF ServerStops, Processes
  <2> QED
    BY <2>1
<1>3. CASE Tick
  <2>1. UNCHANGED <<client, worker, update>>
    BY <1>3 DEF Tick
  <2>2. record'[u] = None <=> record[u] = None
    BY <1>3, TickRecord
  <2>3. record[u] # None => record'[u].pid = record[u].pid /\ record'[u].status = record[u].status
    BY <1>3, TickRecord
  <2> QED
    BY <2>1, <2>2, <2>3
<1>4. CASE UNCHANGED vars
  BY <1>4 DEF vars
<1> QED
  BY <1>1, <1>2, <1>3, <1>4

LEMMA NextPid == TypeOK /\ PidInv /\ [Next]_vars => PidInv'
<1> SUFFICES ASSUME TypeOK, PidInv, [Next]_vars, NEW v \in Jobs
             PROVE  PidOf(v)'
  BY DEF PidInv
<1>1. PidOf(v)
  BY DEF PidInv
<1>2. ASSUME NEW u \in Jobs,
             (\E p \in Processes : Command(p, u)) \/ ServerJobStep(u) \/ WorkerJobStep(u)
      PROVE  PidOf(v)'
  <2>1. PidOf(u) /\ OthersSame(u)
    BY <1>2, CommandSame, ServerSame, WorkerSame DEF PidInv
  <2>2. PidOf(u)'
    BY <1>2, <2>1, CommandPid, ServerPid, WorkerPid
  <2> QED
    BY <1>1, <2>1, <2>2, SamePid DEF OthersSame
<1>3. ASSUME Clean \/ ServerStops \/ Tick \/ UNCHANGED vars PROVE PidOf(v)'
  BY <1>1, <1>3, OtherPid
<1> QED
  BY <1>2, <1>3, StepKinds

LEMMA PidInvariant == Spec => []PidInv
<1>1. Init => PidInv
  BY DEF Init, PidInv, PidOf, UpdatesKnown, NotSentYet, PidWritten, Has, Processes
<1>2. TypeOK /\ PidInv /\ [Next]_vars => PidInv'
  BY NextPid
<1> QED
  BY <1>1, <1>2, TypeCorrect, PTL DEF Spec

(* A pid is in the record of a started job only, whose worker is not done  *)
(* with it.                                                                *)
THEOREM PidCorrect == Spec => []PidIsCurrent
<1>1. PidInv => PidIsCurrent
  BY DEF PidInv, PidOf, PidWritten, Has, PidIsCurrent
<1> QED
  BY <1>1, PidInvariant, PTL

-------------------------------------------------------------------------------
(* Outcomes.  As long as nothing deletes a job and its client does not     *)
(* give up, the two processes take turns: the server writes until it sends *)
(* the request and after the reply, the worker in between.                 *)

Kept(u) == ~deleted[u] /\ client[u] # "timeout"

StatusIn(u, S) == Has(u) /\ record[u].status \in S
Settled(u, s)  == StatusIn(u, {s}) /\ document[u] = s

RequestOf(u) ==
  /\ workdir[u] = (client[u] # "new")
  /\ client[u] \in {"new", "opened"} => ~Has(u)
  /\ client[u] = "waiting" =>
       StatusIn(u, {IF update["server"][u] = None THEN "ACCEPTED" ELSE "NO_STATUS"})
  /\ update["server"][u] # None => Has(u)
  /\ worker[u] \in Alive => client[u] = "sent"

WorkOf(u) ==
  /\ worker[u] = "inbox" => StatusIn(u, {"ACCEPTED"})
  /\ worker[u] \in {"starting", "running"} => StatusIn(u, {"ACCEPTED", "STARTED"})
  /\ worker[u] = "finishing" => StatusIn(u, {"ACCEPTED", "STARTED", "DONE"})
  /\ worker[u] = "failing" => StatusIn(u, {"ACCEPTED", "STARTED", "ERROR"})
  /\ worker[u] \in {"finishing", "failing"} =>
       /\ update["worker"][u] = None => Settled(u, Told[worker[u]])
       /\ (update["worker"][u] # None /\ update["worker"][u].step # "document")
             => document[u] = Told[worker[u]]
  /\ worker[u] = "done" => Settled(u, "DONE") /\ update["server"][u] = None
  /\ worker[u] = "failed" => Settled(u, "ERROR")

OutcomeOf(u) ==
  /\ removal[u] # "none" => deleted[u]
  /\ Kept(u) => RequestOf(u) /\ WorkOf(u)
OutcomeInv == \A u \in Jobs : OutcomeOf(u)

LEMMA SameOutcome ==
  ASSUME NEW v \in Jobs, OutcomeOf(v), Same(v)
  PROVE  OutcomeOf(v)'
BY DEF OutcomeOf, Kept, RequestOf, WorkOf, StatusIn, Settled, Has, Same

LEMMA CommandOutcome ==
  ASSUME TypeOK, NEW p \in Processes, NEW u \in Jobs, PidOf(u), OutcomeOf(u), Command(p, u)
  PROVE  OutcomeOf(u)'
<1>1. UNCHANGED <<workdir, client, worker, removal, deleted>>
  BY DEF Command, WriteDocument, ReadRecord, WriteRecord, clientVars, workVars, history
<1> SUFFICES ASSUME Kept(u) PROVE RequestOf(u)' /\ WorkOf(u)'
  BY <1>1 DEF OutcomeOf, Kept
<1>2. RequestOf(u) /\ WorkOf(u)
  BY DEF OutcomeOf
<1>3. UpdatesKnown(u) /\ NotSentYet(u)
  BY DEF PidOf
<1>4. p \in {"server", "worker"}
  BY DEF Processes
<1> USE DEF StatusIn, Settled, Has
<1>5. CASE WriteDocument(p, u)
  <2>1. /\ update[p][u] # None /\ update'[p][u] # None
        /\ update'[p][u].status = update[p][u].status
        /\ OnlyUpdate(p, u)
    BY <1>5, DocumentStep, UpdateParts
  <2>6. document'[u] = update[p][u].status
    BY <1>5 DEF WriteDocument, TypeOK
  <2>2. UNCHANGED record
    BY <1>5 DEF WriteDocument
  <2>3. RequestOf(u)'
    BY <1>1, <1>2, <1>4, <2>1, <2>2 DEF RequestOf, OnlyUpdate, Processes
  <2>4. CASE p = "worker"
    <3>1. /\ worker[u] \in {"starting", "running", "finishing", "failing"}
          /\ document'[u] = Told[worker[u]]
          /\ update'["worker"][u] # None
      BY <1>3, <2>1, <2>4, <2>6 DEF UpdatesKnown
    <3> QED
      BY <1>1, <1>2, <2>2, <2>3, <3>1 DEF WorkOf
  <2>5. CASE p = "server"
    <3>1. /\ \/ update["server"][u].status = "ERROR" /\ client[u] = "error"
             \/ client[u] = "waiting"
          /\ update["server"][u] # None /\ update'["worker"][u] = update["worker"][u]
      BY <1>3, <2>1, <2>5 DEF UpdatesKnown, Kept, OnlyUpdate, Processes
    <3>2. worker[u] \notin Alive \cup {"done"}
      BY <1>2, <1>3, <3>1 DEF RequestOf, WorkOf, NotSentYet, Alive
    <3>3. worker[u] = "failed" => document'[u] = "ERROR"
      BY <1>3, <2>1, <2>5, <2>6, <3>1 DEF NotSentYet
    <3> QED
      BY <1>1, <1>2, <2>2, <2>3, <3>2, <3>3 DEF WorkOf, Alive
  <2> QED
    BY <1>4, <2>3, <2>4, <2>5
<1>6. CASE ReadRecord(p, u)
  <2>1. /\ update[p][u] # None /\ update'[p][u] # None
        /\ update[p][u].step = "read"
        /\ record[u] # None => record'[u] = record[u]
        /\ OnlyUpdate(p, u)
    BY <1>6, ReadStep, UpdateParts
  <2>2. UNCHANGED document
    BY <1>6 DEF ReadRecord
  <2>3. record[u] # None
    BY <1>2, <1>3, <1>4, <2>1
       DEF RequestOf, WorkOf, UpdatesKnown, NotSentYet, Kept
  <2>4. update'["server"][u] = None <=> update["server"][u] = None
    BY <1>4, <2>1 DEF OnlyUpdate, Processes
  <2>5. RequestOf(u)'
    BY <1>1, <1>2, <2>1, <2>3, <2>4 DEF RequestOf
  <2>6. update["worker"][u] = None <=> update'["worker"][u] = None
    BY <1>4, <2>1 DEF OnlyUpdate, Processes
  <2>7. update'["worker"][u] = update["worker"][u] \/ update["worker"][u].step = "read"
    BY <1>4, <2>1 DEF OnlyUpdate, Processes
  <2>8. WorkOf(u)'
    BY <1>1, <1>2, <2>1, <2>2, <2>3, <2>4, <2>6, <2>7 DEF WorkOf
  <2> QED
    BY <2>5, <2>8
<1>7. CASE WriteRecord(p, u)
  <2>1. /\ update[p][u] # None /\ update'[p][u] = None
        /\ update[p][u].step = "write"
        /\ record'[u] # None /\ record'[u].status = update[p][u].status
        /\ OnlyUpdate(p, u)
    BY <1>7, WriteStep, UpdateParts
  <2>2. UNCHANGED document
    BY <1>7 DEF WriteRecord
  <2>3. CASE p = "worker"
    <3>1. /\ worker[u] \in {"starting", "running", "finishing", "failing"}
          /\ record'[u].status = Told[worker[u]]
          /\ update'["worker"][u] = None /\ update'["server"][u] = update["server"][u]
      BY <1>3, <2>1, <2>3 DEF UpdatesKnown, OnlyUpdate, Processes
    <3>2. client[u] = "sent"
      BY <1>2, <3>1 DEF RequestOf, Alive
    <3>3. RequestOf(u)'
      BY <1>1, <1>2, <2>1, <3>1, <3>2 DEF RequestOf
    <3>4. worker[u] \in {"finishing", "failing"} => document[u] = Told[worker[u]]
      BY <1>2, <2>1, <2>3 DEF WorkOf
    <3>5. WorkOf(u)'
      BY <1>1, <2>1, <2>2, <3>1, <3>4, ToldValues DEF WorkOf
    <3> QED
      BY <3>3, <3>5
  <2>4. CASE p = "server"
    <3>1. /\ \/ client[u] = "waiting" /\ record'[u].status = "ACCEPTED"
             \/ client[u] = "error" /\ record'[u].status = "ERROR"
          /\ update'["server"][u] = None /\ update'["worker"][u] = update["worker"][u]
      BY <1>3, <2>1, <2>4 DEF UpdatesKnown, OnlyUpdate, Processes, Kept
    <3>2. RequestOf(u)'
      BY <1>1, <1>2, <2>1, <3>1 DEF RequestOf
    <3>3. worker[u] \notin Alive \cup {"done"}
      BY <1>2, <1>3, <2>1, <2>4, <3>1 DEF RequestOf, WorkOf, NotSentYet, Alive
    <3>4. worker[u] = "failed" => client[u] = "error"
      BY <1>3, <3>1 DEF NotSentYet
    <3>5. WorkOf(u)'
      BY <1>1, <1>2, <2>1, <2>2, <3>1, <3>3, <3>4 DEF WorkOf, Alive
    <3> QED
      BY <3>2, <3>5
  <2> QED
    BY <1>4, <2>3, <2>4
<1> QED
  BY <1>5, <1>6, <1>7 DEF Command

LEMMA ServerOutcome ==
  ASSUME TypeOK, NEW u \in Jobs, PidOf(u), OutcomeOf(u), ServerJobStep(u)
  PROVE  OutcomeOf(u)'
<1> USE DEF StatusIn, Settled, Has, store, clientVars, workVars, history
<1>1. "server" \in Processes /\ "worker" \in Processes /\ "ACCEPTED" \in Status /\ "ERROR" \in Status
  BY Values DEF Processes, Statuses
<1>2. UpdatesKnown(u) /\ NotSentYet(u)
  BY DEF PidOf
<1>3. CASE Submit(u)
  <2>1. /\ client[u] = "new" /\ client'[u] = "opened" /\ workdir'[u] = TRUE
        /\ UNCHANGED <<record, document, worker, update, removal, deleted>>
    BY <1>3 DEF Submit, TypeOK
  <2> QED
    BY <1>2, <2>1 DEF OutcomeOf, Kept, RequestOf, WorkOf, NotSentYet, Alive
<1>4. CASE LogRequest(u)
  <2>1. /\ client[u] = "opened" /\ client'[u] = "waiting"
        /\ record'[u] = Logged
        /\ UNCHANGED <<document, workdir, worker, removal, deleted>>
    BY <1>4 DEF LogRequest, TypeOK
  <2>2. update'["server"][u] # None /\ update'["worker"][u] = update["worker"][u]
    BY <1>1, <1>4, BeginUpdate DEF LogRequest, OnlyUpdate
  <2>3. Logged # None /\ Logged.status = "NO_STATUS"
    BY LoggedType DEF Logged
  <2> QED
    BY <1>2, <2>1, <2>2, <2>3 DEF OutcomeOf, Kept, RequestOf, WorkOf, NotSentYet, Alive
<1>5. CASE Refuse(u)
  <2>1. /\ client[u] = "waiting" /\ client'[u] = "error" /\ update["server"][u] = None
        /\ UNCHANGED <<record, document, workdir, worker, removal, deleted>>
    BY <1>5, FailureStep DEF Refuse, TypeOK, ServerFree
  <2>2. update'["worker"][u] = update["worker"][u]
    BY <1>1, <1>5, FailureStep DEF Refuse, OnlyUpdate
  <2> QED
    BY <1>2, <2>1, <2>2 DEF OutcomeOf, Kept, RequestOf, WorkOf, NotSentYet, Alive
<1>6. CASE Dispatch(u)
  <2>1. /\ client[u] = "waiting" /\ client'[u] = "sent" /\ update["server"][u] = None
        /\ worker'[u] = "inbox"
        /\ UNCHANGED <<record, document, workdir, update, removal, deleted>>
    BY <1>6 DEF Dispatch, TypeOK, ServerFree
  <2> QED
    BY <1>2, <2>1 DEF OutcomeOf, Kept, RequestOf, WorkOf, Alive
<1>7. CASE TimeOut(u)
  <2>1. client'[u] = "timeout" /\ UNCHANGED <<removal, deleted>>
    BY <1>7 DEF TimeOut, TypeOK
  <2> QED
    BY <2>1 DEF OutcomeOf, Kept
<1>8. CASE Reply(u)
  <2>1. /\ client[u] = "sent" /\ client'[u] \in {"ok", "error"} /\ update["server"][u] = None
        /\ worker[u] \in {"done", "failed"}
        /\ UNCHANGED <<record, document, workdir, worker, removal, deleted>>
    BY <1>8, FailureStep DEF Reply, TypeOK, ServerFree
  <2>2. update'["worker"][u] = update["worker"][u]
    BY <1>1, <1>8, FailureStep DEF Reply, OnlyUpdate
  <2>3. worker[u] = "done" => update'["server"][u] = None
    BY <1>8, <2>1 DEF Reply
  <2> QED
    BY <1>2, <2>1, <2>2, <2>3 DEF OutcomeOf, Kept, RequestOf, WorkOf, Alive
<1>9. CASE Dismiss(u) \/ DeleteResults(u)
  <2>1. deleted'[u] = TRUE
    BY <1>9 DEF Dismiss, DeleteResults, TypeOK
  <2> QED
    BY <2>1 DEF OutcomeOf, Kept
<1>10. CASE Delete(u)
  <2>1. removal[u] # "none" /\ UNCHANGED deleted
    BY <1>10 DEF Delete, Kill, RemoveWorkdir, DeleteRecord
  <2> QED
    BY <2>1 DEF OutcomeOf, Kept
<1> QED
  BY <1>3, <1>4, <1>5, <1>6, <1>7, <1>8, <1>9, <1>10 DEF ServerJobStep

LEMMA WorkerOutcome ==
  ASSUME TypeOK, NEW u \in Jobs, PidOf(u), OutcomeOf(u), WorkerJobStep(u)
  PROVE  OutcomeOf(u)'
<1>1. UNCHANGED <<record, document, workdir, client, removal, deleted>>
  BY DEF WorkerJobStep, Work, TakeJob, Started, Finish, Progress, HandlerEnds, KillStalled,
         WorkerDies, store, clientVars, workVars, history
<1> SUFFICES ASSUME Kept(u) PROVE RequestOf(u)' /\ WorkOf(u)'
  BY <1>1 DEF OutcomeOf, Kept
<1>2. RequestOf(u) /\ WorkOf(u)
  BY DEF OutcomeOf
<1>3. UpdatesKnown(u) /\ NotSentYet(u)
  BY DEF PidOf
<1>4. "server" \in Processes /\ "worker" \in Processes /\ {"STARTED", "DONE", "ERROR"} \subseteq Status
  BY Values DEF Processes, Statuses
<1> USE DEF StatusIn, Settled, Has
<1>5. CASE TakeJob(u)
  <2>1. client[u] = "sent" /\ workdir[u]
    BY <1>2, <1>5 DEF RequestOf, TakeJob, Alive
  <2>2. worker[u] = "inbox" /\ worker'[u] = "starting" /\ Begin("worker", u, "STARTED")
    BY <1>5, <2>1 DEF TakeJob, TypeOK
  <2>3. update'["server"][u] = update["server"][u]
    BY <1>4, <2>2, BeginUpdate DEF OnlyUpdate
  <2> QED
    BY <1>1, <1>2, <2>1, <2>2, <2>3 DEF RequestOf, WorkOf
<1>6. CASE Started(u) \/ Finish(u)
  <2>1. /\ UNCHANGED update /\ update["worker"][u] = None
        /\ \/ worker[u] = "starting" /\ worker'[u] = "running"
           \/ worker[u] = "finishing" /\ worker'[u] = "done"
           \/ worker[u] = "failing" /\ worker'[u] = "failed"
    BY <1>6 DEF Started, Finish, WorkerIdle, TypeOK, workVars
  <2>2. client[u] = "sent"
    BY <1>2, <2>1 DEF RequestOf, Alive
  <2>3. update["server"][u] = None
    BY <1>3, <2>2 DEF UpdatesKnown
  <2>4. RequestOf(u)'
    BY <1>1, <1>2, <2>1, <2>2 DEF RequestOf
  <2>5. WorkOf(u)'
    BY <1>1, <1>2, <2>1, <2>3, ToldValues DEF WorkOf
  <2> QED
    BY <2>4, <2>5
<1>7. CASE Progress(u)
  <2>1. worker[u] = "running" /\ UNCHANGED worker /\ update'["server"][u] = update["server"][u]
    BY <1>4, <1>7, BeginUpdate DEF Progress, workVars, OnlyUpdate
  <2> QED
    BY <1>1, <1>2, <2>1 DEF RequestOf, WorkOf
<1>8. CASE HandlerEnds(u)
  <2>1. /\ worker[u] = "running"
        /\ \/ worker'[u] = "finishing" /\ Begin("worker", u, "DONE")
           \/ worker'[u] = "failing" /\ Begin("worker", u, "ERROR")
    BY <1>8 DEF HandlerEnds, TypeOK
  <2>2. /\ update'["server"][u] = update["server"][u]
        /\ update'["worker"][u] # None
        /\ update'["worker"][u].step = "document"
    <3>1. PICK s \in {"DONE", "ERROR"} : Begin("worker", u, s)
      BY <2>1
    <3>2. s \in Status
      BY <1>4
    <3>3. /\ update'["worker"][u] = [status |-> s, step |-> "document", saved |-> None]
          /\ update'["worker"][u] # None
          /\ OnlyUpdate("worker", u)
      BY <1>4, <3>1, <3>2, BeginUpdate
    <3> QED
      BY <1>4, <3>3 DEF OnlyUpdate
  <2>3. client[u] = "sent"
    BY <1>2, <2>1 DEF RequestOf, Alive
  <2> QED
    BY <1>1, <1>2, <2>1, <2>2, <2>3 DEF RequestOf, WorkOf
<1>9. CASE KillStalled(u) \/ WorkerDies(u)
  <2>1. /\ worker'[u] = "killed" /\ update'["server"][u] = update["server"][u]
    BY <1>4, <1>9, KilledStep DEF KillStalled, WorkerDies, OnlyUpdate, TypeOK
  <2> QED
    BY <1>1, <1>2, <2>1 DEF RequestOf, WorkOf, Alive
<1> QED
  BY <1>5, <1>6, <1>7, <1>8, <1>9 DEF Work, WorkerJobStep

LEMMA OtherOutcome ==
  ASSUME TypeOK, NEW u \in Jobs, PidOf(u), OutcomeOf(u),
         Clean \/ ServerStops \/ Tick \/ UNCHANGED vars
  PROVE  OutcomeOf(u)'
<1> USE DEF StatusIn, Settled, Has, store, clientVars, workVars, history
<1>1. CASE Clean
  <2>1. UNCHANGED <<store, clientVars, workVars, update>>
    BY <1>1 DEF Clean
  <2>2. deleted'[u] = (deleted[u] \/ (record[u] # None /\ Expired(record[u])))
    BY <1>1 DEF Clean
  <2>3. removal'[u] = IF record[u] # None /\ Expired(record[u]) THEN "workdir" ELSE removal[u]
    BY <1>1 DEF Clean
  <2>4. CASE record[u] # None /\ Expired(record[u])
    BY <2>2, <2>4 DEF OutcomeOf, Kept
  <2>5. CASE ~(record[u] # None /\ Expired(record[u]))
    <3>1. removal'[u] = removal[u] /\ (deleted'[u] <=> deleted[u])
      BY <2>2, <2>3, <2>5
    <3> QED
      BY <2>1, <3>1 DEF OutcomeOf, Kept, RequestOf, WorkOf
  <2> QED
    BY <2>4, <2>5
<1>2. CASE ServerStops
  <2>1. /\ update'["worker"][u] = None /\ update'["server"][u] = None
        /\ UNCHANGED <<record, document, workdir, deleted>>
        /\ removal'[u] = "none"
        /\ client'[u] = IF client[u] \in {"waiting", "sent", "opened"} THEN "error" ELSE client[u]
        /\ worker'[u] = IF worker[u] \in Alive THEN "killed" ELSE worker[u]
    BY <1>2 DEF ServerStops, Processes, Waiting
  <2> SUFFICES ASSUME Kept(u)' PROVE RequestOf(u)' /\ WorkOf(u)'
    BY <2>1 DEF OutcomeOf
  <2>2. RequestOf(u) /\ WorkOf(u)
    BY <2>1 DEF OutcomeOf, Kept
  <2>3. RequestOf(u)'
    BY <2>1, <2>2 DEF RequestOf, Alive
  <2>4. worker'[u] \notin Alive
    BY <2>1 DEF Alive
  <2>5. WorkOf(u)'
    BY <2>1, <2>2, <2>4 DEF WorkOf, Alive
  <2> QED
    BY <2>3, <2>5
<1>3. CASE Tick
  <2>1. UNCHANGED <<document, workdir, client, worker, update, removal, deleted>>
    BY <1>3 DEF Tick
  <2>2. /\ record'[u] = None <=> record[u] = None
        /\ record[u] # None => record'[u].status = record[u].status
    BY <1>3, TickRecord
  <2> QED
    BY <2>1, <2>2 DEF OutcomeOf, Kept, RequestOf, WorkOf
<1>4. CASE UNCHANGED vars
  BY <1>4 DEF vars, OutcomeOf, Kept, RequestOf, WorkOf
<1> QED
  BY <1>1, <1>2, <1>3, <1>4

LEMMA NextOutcome == TypeOK /\ PidInv /\ OutcomeInv /\ [Next]_vars => OutcomeInv'
<1> SUFFICES ASSUME TypeOK, PidInv, OutcomeInv, [Next]_vars, NEW v \in Jobs
             PROVE  OutcomeOf(v)'
  BY DEF OutcomeInv
<1>1. PidOf(v) /\ OutcomeOf(v)
  BY DEF PidInv, OutcomeInv
<1>2. ASSUME NEW u \in Jobs,
             (\E p \in Processes : Command(p, u)) \/ ServerJobStep(u) \/ WorkerJobStep(u)
      PROVE  OutcomeOf(v)'
  <2>1. PidOf(u) /\ OutcomeOf(u) /\ OthersSame(u)
    BY <1>2, CommandSame, ServerSame, WorkerSame DEF PidInv, OutcomeInv
  <2>2. OutcomeOf(u)'
    BY <1>2, <2>1, CommandOutcome, ServerOutcome, WorkerOutcome
  <2> QED
    BY <1>1, <2>1, <2>2, SameOutcome DEF OthersSame
<1>3. ASSUME Clean \/ ServerStops \/ Tick \/ UNCHANGED vars PROVE OutcomeOf(v)'
  BY <1>1, <1>3, OtherOutcome
<1> QED
  BY <1>2, <1>3, StepKinds

LEMMA OutcomeInvariant == Spec => []OutcomeInv
<1>1. Init => OutcomeInv
  <2> SUFFICES ASSUME Init, NEW u \in Jobs PROVE OutcomeOf(u)
    BY DEF OutcomeInv
  <2>1. /\ record[u] = None /\ workdir[u] = FALSE /\ client[u] = "new" /\ worker[u] = "none"
        /\ removal[u] = "none" /\ update["server"][u] = None
    BY DEF Init, Processes
  <2> QED
    BY <2>1 DEF OutcomeOf, Kept, RequestOf, WorkOf, Has, Alive
<1>2. TypeOK /\ PidInv /\ OutcomeInv /\ [Next]_vars => OutcomeInv'
  BY NextOutcome
<1> QED
  BY <1>1, <1>2, TypeCorrect, PidInvariant, PTL DEF Spec

(* The outcome of a job is in its record and in its document once the      *)
(* worker has finished with it, and its results are kept, unless its       *)
(* client gave up at its timeout, or a deletion of it began, by a client   *)
(* or by the cleanup.                                                      *)
THEOREM OutcomeCorrect == Spec => []OutcomeRecorded
<1>1. OutcomeInv /\ PidInv => OutcomeRecorded
  <2> SUFFICES ASSUME OutcomeInv, PidInv, NEW u \in Jobs,
                      worker[u] \in {"done", "failed"}, client[u] # "timeout", ~deleted[u]
               PROVE  LET s == IF worker[u] = "done" THEN "DONE" ELSE "ERROR" IN
                      /\ record[u] # None /\ record[u].status = s
                      /\ document[u] = s
                      /\ workdir[u]
    BY DEF OutcomeRecorded
  <2>1. RequestOf(u) /\ WorkOf(u) /\ NotSentYet(u)
    BY DEF OutcomeInv, OutcomeOf, Kept, PidInv, PidOf
  <2> QED
    BY <2>1 DEF RequestOf, WorkOf, NotSentYet, StatusIn, Settled, Has
<1> QED
  BY <1>1, OutcomeInvariant, PidInvariant, PTL

(* What an update writes is no step back from the record.                  *)
LEMMA NoStepBack ==
  ASSUME TypeOK, NEW p \in Processes, NEW u \in Jobs, PidOf(u), OutcomeOf(u), Kept(u), Has(u),
         update[p][u] # None
  PROVE  Value[update[p][u].status] >= Value[record[u].status]
<1>1. RequestOf(u) /\ WorkOf(u) /\ UpdatesKnown(u)
  BY DEF OutcomeOf, PidOf
<1>2. record[u].status \in Statuses
  BY Values DEF TypeOK, Record, Has
<1>3. Value[record[u].status] <= 40
  BY <1>2, Values DEF Statuses
<1>4. CASE update[p][u].status = "ERROR"
  BY <1>2, <1>4, Values DEF Statuses
<1>5. CASE p = "server" /\ update[p][u].status # "ERROR"
  <2>1. update[p][u].status = "ACCEPTED" /\ record[u].status = "NO_STATUS"
    BY <1>1, <1>5 DEF UpdatesKnown, RequestOf, StatusIn
  <2> QED
    BY <2>1, Values
<1>6. CASE p = "worker" /\ update[p][u].status # "ERROR"
  <2>1. \/ update[p][u].status = "STARTED" /\ record[u].status \in {"ACCEPTED", "STARTED"}
        \/ update[p][u].status = "DONE" /\ record[u].status \in {"ACCEPTED", "STARTED", "DONE"}
    BY <1>1, <1>6, ToldValues DEF UpdatesKnown, WorkOf, StatusIn
  <2> QED
    BY <2>1, Values
<1> QED
  BY <1>4, <1>5, <1>6 DEF Processes

(* Who changes the status of a record.                                     *)
LEMMA StatusChanges ==
  ASSUME TypeOK, [Next]_vars, NEW u \in Jobs, record[u] # None, record'[u] # None
  PROVE  \/ record'[u].status = record[u].status
         \/ \E p \in Processes : /\ update[p][u] # None
                                 /\ record'[u].status = update[p][u].status
         \/ client[u] = "opened"
<1>1. ASSUME NEW v \in Jobs, NEW p \in Processes, Command(p, v)
      PROVE  \/ record'[u].status = record[u].status
             \/ update[p][u] # None /\ record'[u].status = update[p][u].status
  <2>1. CASE v # u
    BY <1>1, <2>1, CommandSame DEF OthersSame, Same
  <2>2. CASE v = u
    <3>1. CASE WriteDocument(p, u)
      BY <3>1 DEF WriteDocument
    <3>2. CASE ReadRecord(p, u)
      BY <3>2, ReadStep
    <3>3. CASE WriteRecord(p, u)
      BY <3>3, WriteStep, UpdateParts
    <3> QED
      BY <1>1, <2>2, <3>1, <3>2, <3>3 DEF Command
  <2> QED
    BY <2>1, <2>2
<1>2. ASSUME NEW v \in Jobs, ServerJobStep(v)
      PROVE  record'[u].status = record[u].status \/ client[u] = "opened"
  <2>1. CASE v # u
    BY <1>2, <2>1, ServerSame DEF OthersSame, Same
  <2>2. CASE v = u
    BY <1>2, <2>2 DEF ServerJobStep, Submit, LogRequest, Refuse, Dispatch, TimeOut, Reply,
       Dismiss, DeleteResults, Delete, Kill, RemoveWorkdir, DeleteRecord, store, TypeOK
  <2> QED
    BY <2>1, <2>2
<1>3. ASSUME NEW v \in Jobs, WorkerJobStep(v)
      PROVE  record'[u].status = record[u].status
  BY <1>3 DEF WorkerJobStep, Work, TakeJob, Started, Finish, Progress, HandlerEnds,
     KillStalled, WorkerDies, store
<1>4. CASE Clean \/ ServerStops \/ UNCHANGED vars
  BY <1>4 DEF Clean, ServerStops, vars, store
<1>5. CASE Tick
  BY <1>5, TickRecord
<1> QED
  BY <1>1, <1>2, <1>3, <1>4, <1>5, StepKinds

(* Whatever commands of the two processes that update it cross, the server *)
(* and the worker, the status of a record goes forward, until the client   *)
(* of the job gives up at its timeout or a deletion of it begins.          *)
THEOREM ForwardCorrect == Spec => StatusForward
<1> DEFINE Forward == \A u \in Jobs :
             (record[u] # None /\ record'[u] # None /\ client[u] # "timeout" /\ ~deleted[u])
               => Value[record'[u].status] >= Value[record[u].status]
<1>1. TypeOK /\ PidInv /\ OutcomeInv /\ [Next]_vars => Forward
  <2> SUFFICES ASSUME TypeOK, PidInv, OutcomeInv, [Next]_vars, NEW u \in Jobs,
                      record[u] # None, record'[u] # None, Kept(u)
               PROVE  Value[record'[u].status] >= Value[record[u].status]
    BY DEF Kept
  <2>1. PidOf(u) /\ OutcomeOf(u) /\ Has(u)
    BY DEF PidInv, OutcomeInv, Has
  <2>2. Value[record[u].status] \in Nat
    BY Values DEF TypeOK, Record, Statuses
  <2>3. client[u] # "opened"
    BY <2>1 DEF OutcomeOf, RequestOf
  <2>4. CASE record'[u].status = record[u].status
    BY <2>2, <2>4
  <2>5. ASSUME NEW p \in Processes, update[p][u] # None, record'[u].status = update[p][u].status
        PROVE  Value[record'[u].status] >= Value[record[u].status]
    BY <2>1, <2>5, NoStepBack
  <2> QED
    BY <2>3, <2>4, <2>5, StatusChanges
<1>2. TypeOK /\ PidInv /\ OutcomeInv /\ [Next]_vars => [Forward]_vars
  BY <1>1
<1> QED
  BY <1>2, TypeCorrect, PidInvariant, OutcomeInvariant, PTL DEF Spec, StatusForward

-------------------------------------------------------------------------------
(* Time.  A job is STARTED after it was sent, so that its client has       *)
(* waited since the last timestamp of its record at least.                 *)

WaitOf(u) ==
  StatusIn(u, {"STARTED"}) /\ client[u] = "sent"
    => record[u].age <= wait[u] \/ wait[u] = Timeout
WaitInv == \A u \in Jobs : WaitOf(u)

LEMMA SameWait ==
  ASSUME NEW v \in Jobs, WaitOf(v), Same(v)
  PROVE  WaitOf(v)'
BY DEF WaitOf, StatusIn, Has, Same

LEMMA CommandWait ==
  ASSUME TypeOK, NEW p \in Processes, NEW u \in Jobs, WaitOf(u), Command(p, u)
  PROVE  WaitOf(u)'
<1>1. UNCHANGED <<client, wait>>
  BY DEF Command, WriteDocument, ReadRecord, WriteRecord, clientVars
<1>2. wait[u] \in 0 .. Timeout
  BY DEF TypeOK
<1>3. CASE WriteDocument(p, u)
  BY <1>1, <1>3 DEF WriteDocument, WaitOf, StatusIn, Has
<1>4. CASE ReadRecord(p, u)
  <2>1. record'[u] = record[u] \/ record'[u].status = "NO_STATUS"
    BY <1>4, ReadStep DEF Logged
  <2> QED
    BY <1>1, <2>1 DEF WaitOf, StatusIn, Has
<1>5. CASE WriteRecord(p, u)
  BY <1>1, <1>2, <1>5, WriteStep DEF WaitOf
<1> QED
  BY <1>3, <1>4, <1>5 DEF Command

LEMMA ServerWait ==
  ASSUME TypeOK, NEW u \in Jobs, PidOf(u), WaitOf(u), ServerJobStep(u)
  PROVE  WaitOf(u)'
<1> USE DEF store, clientVars
<1>1. CASE client'[u] # "sent"
  BY <1>1 DEF WaitOf
<1>2. CASE client'[u] = "sent" /\ ~Dispatch(u)
  <2>1. /\ client[u] = "sent" /\ UNCHANGED wait
        /\ record'[u] = record[u] \/ record'[u] = None
    BY <1>2, FailureStep DEF ServerJobStep, Submit, LogRequest, Refuse, TimeOut, Reply,
       Dismiss, DeleteResults, Delete, Kill, RemoveWorkdir, DeleteRecord, TypeOK
  <2> QED
    BY <2>1 DEF WaitOf, StatusIn, Has
<1>3. CASE Dispatch(u)
  <2>1. client[u] = "waiting" /\ UNCHANGED record
    BY <1>3 DEF Dispatch
  <2>2. ~StatusIn(u, {"STARTED"})
    BY <2>1 DEF PidOf, NotSentYet, PidWritten, StatusIn
  <2> QED
    BY <2>1, <2>2 DEF WaitOf, StatusIn, Has
<1> QED
  BY <1>1, <1>2, <1>3

LEMMA OtherWait ==
  ASSUME TypeOK, NEW u \in Jobs, WaitOf(u), Clean \/ ServerStops \/ Tick \/ UNCHANGED vars
  PROVE  WaitOf(u)'
<1> USE DEF WaitOf, StatusIn, Has, store, clientVars
<1>1. CASE Clean \/ UNCHANGED vars
  BY <1>1 DEF Clean, vars
<1>2. CASE ServerStops
  BY <1>2 DEF ServerStops, Waiting
<1>3. CASE Tick
  <2>1. client' = client /\ wait'[u] = UpTo(wait[u], Timeout)
    BY <1>3 DEF Tick
  <2>2. wait[u] \in 0 .. Timeout /\ Timeout \in Nat
    BY DEF TypeOK
  <2>3. ASSUME StatusIn(u, {"STARTED"})', client[u] = "sent"
        PROVE  record'[u].age <= wait'[u] \/ wait'[u] = Timeout
    <3>1. StatusIn(u, {"STARTED"}) /\ record'[u].age = UpTo(record[u].age, MaxAge)
      BY <1>3, <2>3, TickRecord
    <3>2. record[u].age <= wait[u] \/ wait[u] = Timeout
      BY <2>3, <3>1
    <3>3. record[u].age \in 0 .. MaxAge /\ MaxAge \in Nat
      BY <3>1 DEF TypeOK, Record
    <3> DEFINE a == record[u].age  w == wait[u]
    <3> HIDE DEF a, w
    <3>4. UpTo(a, MaxAge) <= UpTo(w, Timeout) \/ UpTo(w, Timeout) = Timeout
      BY <2>2, <3>2, <3>3 DEF UpTo, a, w
    <3> QED
      BY <2>1, <3>1, <3>4 DEF a, w
  <2> QED
    BY <2>1, <2>3
<1> QED
  BY <1>1, <1>2, <1>3

LEMMA NextWait == TypeOK /\ PidInv /\ WaitInv /\ [Next]_vars => WaitInv'
<1> SUFFICES ASSUME TypeOK, PidInv, WaitInv, [Next]_vars, NEW v \in Jobs
             PROVE  WaitOf(v)'
  BY DEF WaitInv
<1>1. WaitOf(v)
  BY DEF WaitInv
<1>2. ASSUME NEW u \in Jobs, (\E p \in Processes : Command(p, u)) \/ ServerJobStep(u)
      PROVE  WaitOf(v)'
  <2>1. PidOf(u) /\ WaitOf(u) /\ OthersSame(u)
    BY <1>2, CommandSame, ServerSame DEF PidInv, WaitInv
  <2>2. WaitOf(u)'
    BY <1>2, <2>1, CommandWait, ServerWait
  <2> QED
    BY <1>1, <2>1, <2>2, SameWait DEF OthersSame
<1>3. ASSUME NEW u \in Jobs, WorkerJobStep(u) PROVE WaitOf(v)'
  <2>1. UNCHANGED <<record, client, wait>>
    BY <1>3 DEF WorkerJobStep, Work, TakeJob, Started, Finish, Progress, HandlerEnds,
       KillStalled, WorkerDies, store, clientVars
  <2> QED
    BY <1>1, <2>1 DEF WaitOf, StatusIn, Has
<1>4. ASSUME Clean \/ ServerStops \/ Tick \/ UNCHANGED vars PROVE WaitOf(v)'
  BY <1>1, <1>4, OtherWait
<1> QED
  BY <1>2, <1>3, <1>4, StepKinds

LEMMA WaitInvariant == Spec => []WaitInv
<1>1. Init => WaitInv
  BY DEF Init, WaitInv, WaitOf
<1>2. TypeOK /\ PidInv /\ WaitInv /\ [Next]_vars => WaitInv'
  BY NextWait
<1> QED
  BY <1>1, <1>2, TypeCorrect, PidInvariant, PTL DEF Spec

(* With a clock in UTC or east of it, which makes records look younger,    *)
(* the cleanup takes no job in STARTED that was sent to the pool and whose *)
(* client waits for it with time left.  Accepted jobs, and those that go   *)
(* on after a timeout, it may take.                                        *)
THEOREM CleanupCorrect == ASSUME Skew <= 0 PROVE Spec => CleanupSparesStarted
<1> DEFINE Spares == \A u \in Jobs :
             (/\ Clean /\ removal'[u] = "workdir"
              /\ record[u].status = "STARTED" /\ client[u] = "sent") => wait[u] = Timeout
<1>1. TypeOK /\ WaitInv => Spares
  <2> SUFFICES ASSUME TypeOK, WaitInv, NEW u \in Jobs, Clean, removal'[u] = "workdir",
                      record[u].status = "STARTED", client[u] = "sent"
               PROVE  wait[u] = Timeout
    OBVIOUS
  <2>1. removal[u] = "none"
    BY DEF Clean, ServerFree
  <2>2. record[u] # None /\ Expired(record[u])
    BY <2>1 DEF Clean
  <2>3. record[u].age + Skew >= Timeout
    BY <2>2, FinalOf DEF Expired
  <2>4. record[u].age <= wait[u] \/ wait[u] = Timeout
    BY <2>2 DEF WaitInv, WaitOf, StatusIn, Has
  <2>5. record[u].age \in 0 .. MaxAge /\ wait[u] \in 0 .. Timeout
    BY <2>2 DEF TypeOK, Record
  <2> DEFINE a == record[u].age  w == wait[u]
  <2> HIDE DEF a, w
  <2>6. w = Timeout
    BY <2>3, <2>4, <2>5 DEF a, w
  <2> QED
    BY <2>6 DEF w
<1>2. TypeOK /\ WaitInv /\ [Next]_vars => [Spares]_vars
  BY <1>1
<1> QED
  BY <1>2, TypeCorrect, WaitInvariant, PTL DEF Spec, CleanupSparesStarted

===============================================================================
