--------------------------- MODULE PoolServer_proofs ---------------------------
(***************************************************************************)
(* Proofs about PoolServer, for every set of requests and workers and      *)
(* every value of the bounds.                                              *)
(***************************************************************************)
EXTENDS PoolServer, TLAPS

USE NoneAssumption, CyclesAssumption, BoundsAssumption

-------------------------------------------------------------------------------
(* Types.  A worker that is busy has a job: the answer it sends is the     *)
(* answer to a request.                                                    *)

BusyHasJob == \A w \in Workers : pc[w] = "busy" <=> job[w] # None

TypeInv == TypeOK /\ BusyHasJob

(* The messages that a worker can build are in Message. *)
LEMMA MessageType ==
  /\ READY \in Message
  /\ DONE \in Message
  /\ \A r \in Requests, ok \in BOOLEAN : Reply(r, ok) \in Message
BY DEF Message

(* What the client reads from a message. *)
LEMMA MessageFields ==
  \A m \in Message :
    /\ m.kind \in {"READY", "DONE", "REPLY"}
    /\ m.ok \in BOOLEAN
    /\ m.kind = "REPLY" => m.req \in Requests
    /\ m.kind = "READY" <=> m = READY
    /\ m.kind = "DONE" <=> m = DONE
<1> TAKE m \in Message
<1>1. CASE m = READY
  BY <1>1 DEF READY, DONE
<1>2. CASE m = DONE
  BY <1>2 DEF READY, DONE
<1>3. ASSUME NEW r \in Requests, NEW ok \in BOOLEAN, m = Reply(r, ok)
      PROVE  /\ m.kind = "REPLY" /\ m.ok \in BOOLEAN /\ m.req \in Requests
             /\ m # READY /\ m # DONE
  BY <1>3 DEF Reply, READY, DONE
<1> QED
  BY <1>1, <1>2, <1>3 DEF Message

(* Initially everything has its type. *)
LEMMA InitType == Init => TypeInv
<1> SUFFICES ASSUME Init PROVE TypeInv
  OBVIOUS
<1>1. pc \in [Workers -> {"starting", "unborn"}]
  BY DEF Init
<1>2. BusyHasJob
  BY <1>1 DEF Init, BusyHasJob
<1>3. TypeOK
  <2>1. pc \in [Workers -> States]
    BY <1>1 DEF States, Alive
  <2>2. status \in [Requests -> Status]
    BY DEF Init, Status
  <2>3. <<>> \in Seq(Workers) /\ <<>> \in Seq(Requests) /\ <<>> \in Seq(Message)
    OBVIOUS
  <2> QED
    BY <2>1, <2>2, <2>3 DEF Init, TypeOK
<1> QED
  BY <1>2, <1>3 DEF TypeInv

(* Every step keeps the types. *)
LEMMA NextType == TypeInv /\ [Next]_vars => TypeInv'
<1> SUFFICES ASSUME TypeInv, [Next]_vars PROVE TypeInv'
  OBVIOUS
<1> USE DEF TypeInv
<1>1. ASSUME NEW r \in Requests, Submit(r) PROVE TypeInv'
  BY <1>1 DEF Submit, TypeOK, BusyHasJob, workerVars, auxVars, Status, Finished, Answers
<1>2. ASSUME NEW r \in Requests, PopWorker(r) PROVE TypeInv'
  BY <1>2 DEF PopWorker, TypeOK, BusyHasJob, workerVars, auxVars, Status
<1>3. ASSUME NEW r \in Requests, Retry(r) PROVE TypeInv'
  BY <1>3 DEF Retry, TypeOK, BusyHasJob, workerVars, auxVars, Status
<1>4. ASSUME NEW r \in Requests, Dispatch(r) PROVE TypeInv'
  BY <1>4 DEF Dispatch, TypeOK, BusyHasJob, workerVars, auxVars, Status
<1>5. ASSUME NEW r \in Requests, Unreachable(r) PROVE TypeInv'
  BY <1>5 DEF Unreachable, TypeOK, BusyHasJob, workerVars, auxVars, Status, Finished
<1>6. ASSUME NEW r \in Requests, WaitTimeout(r) PROVE TypeInv'
  BY <1>6 DEF WaitTimeout, TypeOK, BusyHasJob, workerVars, auxVars, Status, Finished
<1>7. ASSUME NEW r \in Requests, ReplyTimeout(r) PROVE TypeInv'
  BY <1>7 DEF ReplyTimeout, TypeOK, BusyHasJob, workerVars, auxVars, Status, Finished
<1>8. ASSUME NEW w \in Workers, PollReady(w) PROVE TypeInv'
  <2>1. workerS' \in SUBSET Workers /\ workerQ' \in Seq(Workers)
    <3>1. CASE w \in workerS
      BY <3>1, <1>8 DEF PollReady, PutWorker, TypeOK
    <3>2. CASE w \notin workerS
      <4>1. workerQ \in Seq(Workers) /\ workerS \in SUBSET Workers
        BY DEF TypeOK
      <4>2. workerQ' = Append(workerQ, w) /\ workerS' = workerS \cup {w}
        BY <3>2, <1>8 DEF PollReady, PutWorker
      <4> QED
        BY <4>1, <4>2
    <3> QED
      BY <3>1, <3>2
  <2> QED
    BY <2>1, <1>8 DEF PollReady, Incoming, TypeOK, BusyHasJob, workerVars, auxVars
<1>9. ASSUME NEW w \in Workers, PollDone(w) PROVE TypeInv'
  BY <1>9 DEF PollDone, Incoming, RemoveWorker, TypeOK, BusyHasJob, workerVars, auxVars
<1>10. ASSUME NEW w \in Workers, PollReply(w) PROVE TypeInv'
  <2>1. handlers' \in SUBSET Requests /\ status' \in [Requests -> Status]
    BY <1>10 DEF PollReply, Resolve, TypeOK, Status, Finished, Answers
  <2> QED
    BY <2>1, <1>10 DEF PollReply, Incoming, TypeOK, BusyHasJob, workerVars, auxVars
<1>11. CASE Close
  BY <1>11 DEF Close, TypeOK, BusyHasJob, workerVars, auxVars
<1>12. ASSUME NEW w \in Workers, PeerGone(w) PROVE TypeInv'
  BY <1>12 DEF PeerGone, TypeOK, BusyHasJob, workerVars, auxVars
<1>13. ASSUME NEW w \in Workers, SendReady(w) PROVE TypeInv'
  BY <1>13, MessageType
     DEF SendReady, Send, Goto, TypeOK, BusyHasJob, auxVars, States, Alive
<1>14. ASSUME NEW w \in Workers, EndOfLife(w) PROVE TypeInv'
  BY <1>14 DEF EndOfLife, Goto, TypeOK, BusyHasJob, clientVars, auxVars, States, Gone
<1>15. ASSUME NEW w \in Workers, Receive(w) PROVE TypeInv'
  BY <1>15 DEF Receive, Goto, TypeOK, BusyHasJob, clientVars, auxVars, States, Alive
<1>16. ASSUME NEW w \in Workers, Heartbeat(w) PROVE TypeInv'
  BY <1>16 DEF Heartbeat, Goto, TypeOK, BusyHasJob, clientVars, auxVars, States, Alive
<1>17. ASSUME NEW w \in Workers, Finish(w) PROVE TypeInv'
  BY <1>17, MessageType
     DEF Finish, Send, Goto, TypeOK, BusyHasJob, clientVars, auxVars, States, Alive
<1>18. ASSUME NEW w \in Workers, SeeRestart(w) PROVE TypeInv'
  BY <1>18, MessageType
     DEF SeeRestart, Send, Goto, TypeOK, BusyHasJob, clientVars, auxVars, States, Gone
<1>19. ASSUME NEW w \in Workers, Crash(w) PROVE TypeInv'
  BY <1>19 DEF Crash, Goto, TypeOK, BusyHasJob, clientVars, States, Gone
<1>20. CASE MaintainPool
  BY <1>20 DEF MaintainPool, TypeOK, BusyHasJob, clientVars, auxVars, InState,
               States, Alive, Gone
<1>21. CASE Restart
  BY <1>21 DEF Restart, TypeOK, BusyHasJob, clientVars, workerVars, InState
<1>22. CASE UNCHANGED vars
  BY <1>22 DEF vars, clientVars, workerVars, auxVars, TypeOK, BusyHasJob
<1> QED
  BY <1>1, <1>2, <1>3, <1>4, <1>5, <1>6, <1>7, <1>8, <1>9, <1>10, <1>11, <1>12, <1>13,
     <1>14, <1>15, <1>16, <1>17, <1>18, <1>19, <1>20, <1>21, <1>22
     DEF Next, Task, Timeout, Poll, Work

(* The types, and that a busy worker has a job, are invariant. *)
LEMMA TypeInvariant == Spec => []TypeInv
<1>1. Init => TypeInv
  BY InitType
<1>2. TypeInv /\ [Next]_vars => TypeInv'
  BY NextType
<1> QED
  BY <1>1, <1>2, PTL DEF Spec

(* TypeOK, in every behaviour: what travels on the sockets, is queued or   *)
(* is run by a worker are requests, workers and messages of the protocol.  *)
THEOREM TypeCorrect == Spec => []TypeOK
<1>1. TypeInv => TypeOK
  BY DEF TypeInv
<1> QED
  BY <1>1, TypeInvariant, PTL

-------------------------------------------------------------------------------
(* _handlers                                                               *)

(* A step keeps HandlersArePending: only Dispatch registers a handler, and *)
(* the request stops waiting for its answer exactly when it is removed.    *)
LEMMA NextHandlers == TypeInv /\ HandlersArePending /\ [Next]_vars => HandlersArePending'
<1> SUFFICES ASSUME TypeInv, HandlersArePending, [Next]_vars PROVE HandlersArePending'
  OBVIOUS
<1>0. status \in [Requests -> Status] /\ handlers \in SUBSET Requests
  BY DEF TypeInv, TypeOK
<1> USE DEF HandlersArePending
<1>1. ASSUME NEW r \in Requests, Task(r) PROVE HandlersArePending'
  BY <1>0, <1>1 DEF Task, Submit, PopWorker, Retry, Dispatch, Unreachable
<1>2. ASSUME NEW r \in Requests, Timeout(r) PROVE HandlersArePending'
  BY <1>0, <1>2 DEF Timeout, WaitTimeout, ReplyTimeout
<1>3. ASSUME NEW w \in Workers, PollReply(w) PROVE HandlersArePending'
  BY <1>0, <1>3 DEF PollReply, Resolve
<1>4. CASE UNCHANGED <<status, handlers>>
  BY <1>4
<1>5. ASSUME NEW w \in Workers, PollReady(w) \/ PollDone(w) \/ PeerGone(w) \/ Work(w) \/ Crash(w)
      PROVE UNCHANGED <<status, handlers>>
  BY <1>5 DEF PollReady, PollDone, PeerGone, Work, SendReady, EndOfLife, Receive,
              Heartbeat, Finish, SeeRestart, Crash, clientVars
<1>6. ASSUME Close \/ MaintainPool \/ Restart \/ UNCHANGED vars
      PROVE UNCHANGED <<status, handlers>>
  BY <1>6 DEF Close, MaintainPool, Restart, vars, clientVars
<1> QED
  BY <1>1, <1>2, <1>3, <1>4, <1>5, <1>6 DEF Next, Poll

(* The pending futures are those of the requests that wait for an answer:  *)
(* no handler is leaked or dropped, however answers, timeouts and exits    *)
(* interleave (the pop of _poll, the `finally` of _apply_async).           *)
THEOREM HandlersCorrect == Spec => []HandlersArePending
<1>1. Init => HandlersArePending
  BY DEF Init, HandlersArePending
<1> QED
  BY <1>1, TypeInvariant, NextHandlers, PTL DEF Spec

-------------------------------------------------------------------------------
(* _worker_q and _worker_s.  WorkerListOK is not inductive: that a READY   *)
(* lists its worker at a new place rests on the order of the messages of a *)
(* worker (its DONE is the last one) and on what has been handled of them. *)

Dead == Gone \cup {"reaped"}

PoppedHolds == \A r \in Requests : got[r] # None <=> status[r] = "popped"

AnnouncedGone == \A w \in announced : pc[w] \in Dead /\ toClient[w] = <<>> /\ w \notin workerS

DoneIsLast ==
  \A w \in Workers : \A i \in 1 .. Len(toClient[w]) :
    toClient[w][i] = DONE => i = Len(toClient[w]) /\ pc[w] \in Dead

ListInv == WorkerListOK /\ PoppedHolds /\ AnnouncedGone /\ DoneIsLast

(* Initially nothing is listed, held or in transit. *)
LEMMA InitList == Init => ListInv
BY DEF Init, ListInv, WorkerListOK, PoppedHolds, AnnouncedGone, DoneIsLast, Queued, Held

(* The steps of the tasks of the client. *)
LEMMA TaskList ==
  ASSUME TypeInv, ListInv, NEW r \in Requests, Task(r) \/ Timeout(r)
  PROVE  ListInv'
<1>0. /\ status \in [Requests -> Status]
      /\ got \in [Requests -> Workers \cup {None}]
      /\ workerQ \in Seq(Workers)
      /\ workerS \in SUBSET Workers
      /\ announced \in SUBSET Workers
  BY DEF TypeInv, TypeOK
<1>a. UNCHANGED <<toClient, pc, announced>>
  BY DEF Task, Timeout, Submit, PopWorker, Retry, Dispatch, Unreachable, WaitTimeout,
         ReplyTimeout, workerVars, auxVars
<1>b. DoneIsLast'
  BY <1>a DEF ListInv, DoneIsLast
<1>1. CASE PopWorker(r)
  <2> DEFINE h == Head(workerQ)
  <2>0. /\ workerQ # <<>>
        /\ workerQ' = Tail(workerQ)
        /\ got' = [got EXCEPT ![r] = h]
        /\ status' = [status EXCEPT ![r] = "popped"]
        /\ workerS' = workerS
        /\ got[r] = None
        /\ h \in Workers /\ h = workerQ[1]
    BY <1>0, <1>1 DEF PopWorker, ListInv, PoppedHolds
  <2>1. /\ DOMAIN workerQ = 1 .. Len(workerQ)
        /\ DOMAIN workerQ' = 1 .. (Len(workerQ) - 1)
        /\ Len(workerQ) \in Nat \ {0}
        /\ \A i \in DOMAIN workerQ' : i + 1 \in DOMAIN workerQ /\ workerQ'[i] = workerQ[i + 1]
    BY <1>0, <2>0
  <2>2. \A i, j \in DOMAIN workerQ' : workerQ'[i] = workerQ'[j] => i = j
    BY <2>1 DEF ListInv, WorkerListOK
  <2>3. \A i \in DOMAIN workerQ' : workerQ'[i] # h
    BY <2>0, <2>1 DEF ListInv, WorkerListOK
  <2>4. ~ Held(h)
    BY <2>0, <2>1 DEF ListInv, WorkerListOK, Queued
  <2>5. \A w \in Workers : Queued(w)' => Queued(w) /\ w # h
    BY <2>1, <2>3 DEF Queued
  <2>6. \A w \in Workers : Held(w)' <=> Held(w) \/ w = h
    BY <1>0, <2>0 DEF Held
  <2>7. \A w \in Workers : Queued(w) => Queued(w)' \/ w = h
    <3> SUFFICES ASSUME NEW w \in Workers, NEW i \in DOMAIN workerQ, workerQ[i] = w, w # h
                 PROVE  Queued(w)'
      BY DEF Queued
    <3>1. i - 1 \in DOMAIN workerQ' /\ workerQ'[i - 1] = w
      BY <2>0, <2>1
    <3> QED
      BY <3>1 DEF Queued
  <2>8. \A r1, r2 \in Requests : got'[r1] = got'[r2] /\ got'[r1] # None => r1 = r2
    BY <1>0, <2>0, <2>4 DEF ListInv, WorkerListOK, Held
  <2>9. WorkerListOK'
    <3>1. Queued(h)
      BY <2>0, <2>1 DEF Queued
    <3>2. \A w \in Workers : ~ (Queued(w)' /\ Held(w)')
      BY <2>5, <2>6 DEF ListInv, WorkerListOK
    <3>3. \A w \in workerS' : Queued(w)' \/ Held(w)'
      BY <1>0, <2>0, <2>6, <2>7 DEF ListInv, WorkerListOK
    <3>4. \A w \in Workers :
            (Queued(w)' \/ Held(w)') /\ w \notin workerS' => w \in announced'
      BY <1>a, <2>0, <2>5, <2>6, <3>1 DEF ListInv, WorkerListOK
    <3> QED
      BY <2>2, <2>8, <3>2, <3>3, <3>4 DEF WorkerListOK
  <2>10. PoppedHolds'
    BY <1>0, <2>0 DEF ListInv, PoppedHolds
  <2> QED
    BY <2>0, <2>9, <2>10, <1>a, <1>b DEF ListInv, AnnouncedGone
<1>2. CASE Retry(r) \/ Dispatch(r) \/ Unreachable(r)
  <2> DEFINE h == got[r]
  <2>0. /\ status[r] = "popped"
        /\ workerQ' = workerQ
        /\ got' = [got EXCEPT ![r] = None]
        /\ status'[r] # "popped"
        /\ \A q \in Requests \ {r} : status'[q] = status[q]
        /\ workerS' = workerS \ {h}
        /\ h \in Workers
    BY <1>0, <1>2 DEF Retry, Dispatch, Unreachable, ListInv, PoppedHolds
  <2>1. \A w \in Workers : Queued(w)' <=> Queued(w)
    BY <2>0 DEF Queued
  <2>2. \A w \in Workers : Held(w)' <=> Held(w) /\ w # h
    BY <1>0, <2>0 DEF Held, ListInv, WorkerListOK
  <2>3. ~ Queued(h)
    BY <2>0 DEF Held, ListInv, WorkerListOK
  <2>4. WorkerListOK'
    BY <1>0, <1>a, <2>0, <2>1, <2>2, <2>3 DEF ListInv, WorkerListOK
  <2>5. PoppedHolds'
    BY <1>0, <2>0 DEF ListInv, PoppedHolds
  <2> QED
    BY <2>0, <2>4, <2>5, <1>a, <1>b DEF ListInv, AnnouncedGone
<1>3. CASE Submit(r) \/ Timeout(r)
  <2>1. UNCHANGED <<workerQ, workerS, got>>
    BY <1>3 DEF Submit, Timeout, WaitTimeout, ReplyTimeout
  <2>2. PoppedHolds'
    BY <1>0, <1>3, <2>1
       DEF Submit, Timeout, WaitTimeout, ReplyTimeout, ListInv, PoppedHolds
  <2> QED
    BY <1>a, <1>b, <2>1, <2>2 DEF ListInv, WorkerListOK, AnnouncedGone, Queued, Held
<1> QED
  BY <1>1, <1>2, <1>3 DEF Task

(* The steps of the polling task. *)
LEMMA PollList ==
  ASSUME TypeInv, HandlersArePending, ListInv, NEW v \in Workers, Poll(v)
  PROVE  ListInv'
<1>0. /\ workerQ \in Seq(Workers)
      /\ workerS \in SUBSET Workers
      /\ announced \in SUBSET Workers
      /\ toClient \in [Workers -> Seq(Message)]
  BY DEF TypeInv, TypeOK
<1> DEFINE m == Head(toClient[v])
<1>1. /\ toClient[v] # <<>>
      /\ toClient' = [toClient EXCEPT ![v] = Tail(@)]
      /\ UNCHANGED <<got, pc>>
  BY DEF Poll, PollReady, PollDone, PollReply, Incoming, workerVars
<1>2. v \notin announced
  BY <1>1 DEF ListInv, AnnouncedGone
<1>3. /\ Len(toClient[v]) \in Nat \ {0}
      /\ m = toClient[v][1]
      /\ m \in Message
      /\ Len(toClient'[v]) = Len(toClient[v]) - 1
      /\ \A i \in 1 .. Len(toClient'[v]) :
           i + 1 \in 1 .. Len(toClient[v]) /\ toClient'[v][i] = toClient[v][i + 1]
      /\ \A w \in Workers \ {v} : toClient'[w] = toClient[w]
  BY <1>0, <1>1
<1>4. DoneIsLast'
  BY <1>1, <1>3 DEF ListInv, DoneIsLast
<1>5. CASE PollReady(v)
  <2>1. UNCHANGED <<announced, status>>
    BY <1>5 DEF PollReady, auxVars
  <2>2. PoppedHolds'
    BY <1>1, <2>1 DEF ListInv, PoppedHolds
  <2>3. \A w \in Workers : Held(w)' <=> Held(w)
    BY <1>1 DEF Held
  <2>4. CASE v \in workerS
    <3>1. UNCHANGED <<workerQ, workerS>>
      BY <1>5, <2>4 DEF PollReady, PutWorker
    <3> QED
      BY <1>1, <1>2, <1>3, <1>4, <2>1, <2>2, <3>1
         DEF ListInv, WorkerListOK, AnnouncedGone, Queued, Held
  <2>5. CASE v \notin workerS
    <3>1. workerQ' = Append(workerQ, v) /\ workerS' = workerS \cup {v}
      BY <1>5, <2>5 DEF PollReady, PutWorker
    <3>2. ~ Queued(v) /\ ~ Held(v)
      BY <1>2, <2>5 DEF ListInv, WorkerListOK
    <3>3. /\ DOMAIN workerQ = 1 .. Len(workerQ)
          /\ DOMAIN workerQ' = 1 .. (Len(workerQ) + 1)
          /\ Len(workerQ) \in Nat
          /\ \A i \in DOMAIN workerQ : workerQ'[i] = workerQ[i]
          /\ workerQ'[Len(workerQ) + 1] = v
      BY <1>0, <3>1
    <3>4. \A w \in Workers : Queued(w)' <=> Queued(w) \/ w = v
      BY <3>3 DEF Queued
    <3>5. \A i, j \in DOMAIN workerQ' : workerQ'[i] = workerQ'[j] => i = j
      BY <3>2, <3>3 DEF ListInv, WorkerListOK, Queued
    <3>6. WorkerListOK'
      <4>1. \A w \in Workers :
              (Queued(w)' \/ Held(w)') /\ w \notin workerS' => w \in announced'
        BY <2>1, <2>3, <3>1, <3>4 DEF ListInv, WorkerListOK
      <4>2. /\ \A w \in workerS' : Queued(w)' \/ Held(w)'
            /\ \A w \in Workers : ~ (Queued(w)' /\ Held(w)')
        BY <1>0, <2>3, <3>1, <3>2, <3>4 DEF ListInv, WorkerListOK
      <4>3. \A r1, r2 \in Requests : got'[r1] = got'[r2] /\ got'[r1] # None => r1 = r2
        BY <1>1 DEF ListInv, WorkerListOK
      <4> QED
        BY <3>5, <4>1, <4>2, <4>3 DEF WorkerListOK
    <3>7. AnnouncedGone'
      BY <1>1, <1>2, <1>3, <2>1, <3>1, <1>0 DEF ListInv, AnnouncedGone
    <3> QED
      BY <1>4, <2>2, <3>6, <3>7 DEF ListInv
  <2> QED
    BY <2>4, <2>5
<1>6. CASE PollDone(v)
  <2>1. /\ m.kind = "DONE"
        /\ workerS' = workerS \ {v}
        /\ announced' = announced \cup {v}
        /\ UNCHANGED <<workerQ, status>>
    BY <1>6 DEF PollDone, Incoming, RemoveWorker
  <2>2. m = DONE
    BY <1>3, <2>1, MessageFields
  <2>3. Len(toClient[v]) = 1 /\ pc[v] \in Dead
    <3>1. 1 \in 1 .. Len(toClient[v]) /\ toClient[v][1] = DONE
      BY <1>3, <2>2
    <3> QED
      BY <3>1 DEF ListInv, DoneIsLast
  <2>4. toClient'[v] = <<>>
    BY <1>0, <1>1, <2>3
  <2>5. AnnouncedGone'
    BY <1>0, <1>1, <1>3, <2>1, <2>3, <2>4 DEF ListInv, AnnouncedGone
  <2>6. PoppedHolds'
    BY <1>1, <2>1 DEF ListInv, PoppedHolds
  <2>7. \A w \in Workers : (Held(w)' <=> Held(w)) /\ (Queued(w)' <=> Queued(w))
    BY <1>1, <2>1 DEF Held, Queued
  <2>8. WorkerListOK'
    <3>1. /\ \A w \in Workers : (Queued(w) \/ Held(w)) /\ w \notin workerS => w \in announced
          /\ \A w \in workerS : Queued(w) \/ Held(w)
          /\ \A w \in Workers : ~ (Queued(w) /\ Held(w))
      BY DEF ListInv, WorkerListOK
    <3>2. \A w \in Workers :
            (Queued(w)' \/ Held(w)') /\ w \notin workerS' => w \in announced'
      BY <2>1, <2>7, <3>1
    <3>3. /\ \A w \in workerS' : Queued(w)' \/ Held(w)'
          /\ \A w \in Workers : ~ (Queued(w)' /\ Held(w)')
      BY <1>0, <2>1, <2>7, <3>1
    <3>4. /\ \A i, j \in DOMAIN workerQ' : workerQ'[i] = workerQ'[j] => i = j
          /\ \A r1, r2 \in Requests : got'[r1] = got'[r2] /\ got'[r1] # None => r1 = r2
      BY <1>1, <2>1 DEF ListInv, WorkerListOK
    <3> QED
      BY <3>2, <3>3, <3>4 DEF WorkerListOK
  <2> QED
    BY <1>4, <2>5, <2>6, <2>8 DEF ListInv
<1>7. CASE PollReply(v)
  <2>1. UNCHANGED <<workerQ, workerS, announced>>
    BY <1>7 DEF PollReply, auxVars
  <2>2. PoppedHolds'
    <3>1. \A q \in Requests : status'[q] # status[q] => status[q] = "sent" /\ status'[q] # "popped"
      BY <1>7 DEF PollReply, Resolve, HandlersArePending, TypeInv, TypeOK
    <3> QED
      BY <1>1, <3>1 DEF ListInv, PoppedHolds
  <2> QED
    BY <1>1, <1>2, <1>3, <1>4, <2>1, <2>2
       DEF ListInv, WorkerListOK, AnnouncedGone, Queued, Held
<1> QED
  BY <1>5, <1>6, <1>7 DEF Poll

(* The steps that leave the client's variables alone: those of the         *)
(* workers, of the pool and of the server.                                 *)
LEMMA OtherList ==
  ASSUME TypeInv, ListInv,
         \/ \E w \in Workers : PeerGone(w) \/ Work(w) \/ Crash(w)
         \/ MaintainPool \/ Restart \/ Close \/ UNCHANGED vars
  PROVE  ListInv'
<1>0. /\ toClient \in [Workers -> Seq(Message)]
      /\ pc \in [Workers -> States]
      /\ announced \in SUBSET Workers
  BY DEF TypeInv, TypeOK
<1>1. UNCHANGED <<status, got, workerQ, workerS, announced>>
  BY DEF PeerGone, Work, SendReady, EndOfLife, Receive, Heartbeat, Finish, SeeRestart, Crash,
         MaintainPool, Restart, Close, vars, clientVars, auxVars
<1>2. WorkerListOK' /\ PoppedHolds'
  BY <1>1 DEF ListInv, WorkerListOK, PoppedHolds, Queued, Held
<1>3. Alive \cap Dead = {} /\ "unborn" \notin Dead /\ Gone \subseteq Dead
  BY DEF Alive, Gone, Dead
<1>4. CASE UNCHANGED <<toClient, pc>>
  BY <1>1, <1>2, <1>4 DEF ListInv, AnnouncedGone, DoneIsLast
<1>5. ASSUME NEW w \in Workers, pc[w] \in Alive,
             toClient' = toClient,
             \E l \in States : pc' = [pc EXCEPT ![w] = l]
      PROVE  ListInv'
  BY <1>0, <1>1, <1>2, <1>3, <1>5 DEF ListInv, AnnouncedGone, DoneIsLast
<1>6. ASSUME NEW w \in Workers, pc[w] \in Alive, NEW m \in Message, NEW l \in States,
             toClient' = [toClient EXCEPT ![w] = Append(@, m)],
             pc' = [pc EXCEPT ![w] = l],
             m = DONE => l \in Dead
      PROVE  ListInv'
  <2>1. w \notin announced
    BY <1>3, <1>6 DEF ListInv, AnnouncedGone
  <2>2. AnnouncedGone'
    BY <1>0, <1>1, <1>6, <2>1 DEF ListInv, AnnouncedGone
  <2>3. /\ Len(toClient[w]) \in Nat
        /\ Len(toClient'[w]) = Len(toClient[w]) + 1
        /\ \A i \in 1 .. Len(toClient[w]) : toClient'[w][i] = toClient[w][i]
        /\ toClient'[w][Len(toClient[w]) + 1] = m
        /\ \A v \in Workers \ {w} : toClient'[v] = toClient[v] /\ pc'[v] = pc[v]
        /\ pc'[w] = l
    BY <1>0, <1>6
  <2>4. \A i \in 1 .. Len(toClient[w]) : toClient[w][i] # DONE
    BY <1>3, <1>6 DEF ListInv, DoneIsLast
  <2>5. DoneIsLast'
    BY <1>6, <2>3, <2>4 DEF ListInv, DoneIsLast
  <2> QED
    BY <1>2, <2>2, <2>5 DEF ListInv
<1>7. ASSUME NEW w \in Workers, PeerGone(w) PROVE ListInv'
  BY <1>4, <1>7 DEF PeerGone, workerVars
<1>8. ASSUME NEW w \in Workers, EndOfLife(w) \/ Receive(w) \/ Heartbeat(w) PROVE ListInv'
  BY <1>0, <1>5, <1>8 DEF EndOfLife, Receive, Heartbeat, Goto, Alive, States, Gone
<1>9. ASSUME NEW w \in Workers, SendReady(w) PROVE ListInv'
  BY <1>6, <1>9, MessageType DEF SendReady, Send, Goto, Alive, States, READY, DONE
<1>10. ASSUME NEW w \in Workers, Finish(w) PROVE ListInv'
  <2>1. job[w] \in Requests
    BY <1>10 DEF Finish, TypeInv, TypeOK, BusyHasJob
  <2>2. \A ok \in BOOLEAN : Reply(job[w], ok) \in Message /\ Reply(job[w], ok) # DONE
    BY <2>1, MessageType DEF Reply, DONE
  <2> QED
    BY <1>6, <1>10, <2>2 DEF Finish, Send, Goto, Alive, States
<1>11. ASSUME NEW w \in Workers, SeeRestart(w) PROVE ListInv'
  BY <1>6, <1>11, MessageType DEF SeeRestart, Send, Goto, Alive, States, Gone, Dead
<1>12. ASSUME NEW w \in Workers, Crash(w) PROVE ListInv'
  <2>1. pc[w] \in Alive /\ pc' = [pc EXCEPT ![w] = "failed"] /\ "failed" \in Dead
    BY <1>12 DEF Crash, Goto, Dead, Gone
  <2>2. PICK k \in 0 .. Len(toClient[w]) :
               toClient' = [toClient EXCEPT ![w] = SubSeq(@, 1, k)]
    BY <1>12 DEF Crash
  <2>3. /\ Len(toClient'[w]) = k
        /\ \A i \in 1 .. k : i \in 1 .. Len(toClient[w]) /\ toClient'[w][i] = toClient[w][i]
        /\ \A v \in Workers \ {w} : toClient'[v] = toClient[v] /\ pc'[v] = pc[v]
    BY <1>0, <2>1, <2>2
  <2>4. w \notin announced
    BY <1>3, <2>1 DEF ListInv, AnnouncedGone
  <2>5. AnnouncedGone'
    BY <1>0, <1>1, <2>3, <2>4 DEF ListInv, AnnouncedGone
  <2>6. \A i \in 1 .. Len(toClient[w]) : toClient[w][i] # DONE
    BY <1>3, <2>1 DEF ListInv, DoneIsLast
  <2>7. DoneIsLast'
    BY <2>3, <2>6 DEF ListInv, DoneIsLast
  <2> QED
    BY <1>2, <2>5, <2>7 DEF ListInv
<1>13. CASE MaintainPool
  <2>1. toClient' = toClient /\ \A w \in Workers : pc[w] \in Dead => pc'[w] \in Dead
    BY <1>0, <1>13, <1>3 DEF MaintainPool, InState, Dead, Gone
  <2> QED
    BY <1>0, <1>1, <1>2, <2>1 DEF ListInv, AnnouncedGone, DoneIsLast
<1>14. CASE Restart \/ Close \/ UNCHANGED vars
  BY <1>4, <1>14 DEF Restart, Close, vars, workerVars
<1> QED
  BY <1>7, <1>8, <1>9, <1>10, <1>11, <1>12, <1>13, <1>14 DEF Work

(* The lists of workers agree, with what this rests on. *)
LEMMA ListInvariant == Spec => []ListInv
<1>1. TypeInv /\ HandlersArePending /\ ListInv /\ [Next]_vars => ListInv'
  BY TaskList, PollList, OtherList DEF Next
<1> QED
  BY <1>1, InitList, TypeInvariant, HandlersCorrect, PTL DEF Spec

(* _worker_q and _worker_s agree: no worker is at two places, or listed    *)
(* and out of reach of _get_worker (client.py, _put_worker, _remove_worker *)
(* and _get_worker).                                                       *)
THEOREM WorkerListCorrect == Spec => []WorkerListOK
<1>1. ListInv => WorkerListOK
  BY DEF ListInv
<1> QED
  BY <1>1, ListInvariant, PTL

(* No worker is listed again once its WORKER_DONE was handled.             *)
THEOREM AnnouncedCorrect == Spec => []AnnouncedNeverListed
<1>1. ListInv => AnnouncedNeverListed
  BY DEF ListInv, AnnouncedGone, AnnouncedNeverListed
<1> QED
  BY <1>1, ListInvariant, PTL

-------------------------------------------------------------------------------
(* Where a request is.  A request enters an inbox when it is sent, leaves  *)
(* it when its job is started, and its only answer is built when the job   *)
(* ends: it is never at two places, and `started` tells them apart.        *)

InboxDistinct ==
  \A w1, w2 \in Workers : \A i \in 1 .. Len(toWorker[w1]), j \in 1 .. Len(toWorker[w2]) :
    toWorker[w1][i] = toWorker[w2][j] => w1 = w2 /\ i = j

ReplyDistinct ==
  \A w1, w2 \in Workers : \A i \in 1 .. Len(toClient[w1]), j \in 1 .. Len(toClient[w2]) :
    /\ toClient[w1][i].kind = "REPLY" /\ toClient[w2][j].kind = "REPLY"
    /\ toClient[w1][i].req = toClient[w2][j].req
    => w1 = w2 /\ i = j

JobDistinct == \A w1, w2 \in Workers : job[w1] = job[w2] /\ job[w1] # None => w1 = w2

Sent == {"sent", "timeout"}

Placed ==
  \A r \in Requests, w \in Workers :
    /\ InInbox(r, w) => r \notin started /\ status[r] \in Sent
    /\ job[w] = r => r \in started /\ status[r] \in Sent
    /\ InReply(r, w) => r \in started /\ status[r] \in Sent
    /\ InReply(r, w) => \A v \in Workers : job[v] # r

StartedSent == \A r \in started : status[r] \in Sent \cup Answers

PlaceInv == InboxDistinct /\ ReplyDistinct /\ JobDistinct /\ Placed /\ StartedSent

(* The places of an instance of the invariant say what OnePlace says. *)
LEMMA PlaceImpliesOne == TypeInv /\ PlaceInv => OnePlace
<1> SUFFICES ASSUME TypeInv, PlaceInv, NEW r \in Requests
             PROVE  /\ \A w1, w2 \in Workers :
                         /\ InInbox(r, w1) => job[w2] # r /\ ~InReply(r, w2)
                         /\ job[w1] = r => ~InReply(r, w2)
                         /\ w1 # w2 => ~ \/ InInbox(r, w1) /\ InInbox(r, w2)
                                         \/ job[w1] = r /\ job[w2] = r
                                         \/ InReply(r, w1) /\ InReply(r, w2)
                    /\ \A w \in Workers :
                         InInbox(r, w) \/ job[w] = r \/ InReply(r, w) => status[r] \in Sent
  BY DEF OnePlace, Sent
<1>1. \A w \in Workers :
        /\ InInbox(r, w) => r \notin started /\ status[r] \in Sent
        /\ job[w] = r => r \in started /\ status[r] \in Sent
        /\ InReply(r, w) => r \in started /\ status[r] \in Sent
        /\ InReply(r, w) => \A v \in Workers : job[v] # r
  BY DEF PlaceInv, Placed
<1>0. \A w \in Workers : /\ DOMAIN toWorker[w] = 1 .. Len(toWorker[w])
                         /\ DOMAIN toClient[w] = 1 .. Len(toClient[w])
  BY DEF TypeInv, TypeOK
<1>2. \A w1, w2 \in Workers : InInbox(r, w1) /\ InInbox(r, w2) => w1 = w2
  BY <1>0 DEF PlaceInv, InboxDistinct, InInbox
<1>3. \A w1, w2 \in Workers : InReply(r, w1) /\ InReply(r, w2) => w1 = w2
  BY <1>0 DEF PlaceInv, ReplyDistinct, InReply
<1>4. \A w1, w2 \in Workers : job[w1] = r /\ job[w2] = r => w1 = w2
  BY DEF PlaceInv, JobDistinct
<1> QED
  BY <1>1, <1>2, <1>3, <1>4

(* Initially a request is nowhere. *)
LEMMA InitPlace == Init => PlaceInv
BY DEF Init, PlaceInv, InboxDistinct, ReplyDistinct, JobDistinct, Placed, StartedSent,
       InInbox, InReply

(* Sending a message adds at most one answer. *)
LEMMA SendPlaces ==
  ASSUME TypeInv, NEW w \in Workers, NEW m \in Message,
         toClient' = [toClient EXCEPT ![w] = Append(@, m)]
  PROVE  /\ \A r \in Requests, v \in Workers :
              InReply(r, v)' <=> \/ InReply(r, v)
                                 \/ v = w /\ m.kind = "REPLY" /\ m.req = r
         /\ /\ ReplyDistinct
            /\ m.kind = "REPLY" => \A v \in Workers : ~InReply(m.req, v)
            => ReplyDistinct'
<1>1. /\ Len(toClient[w]) \in Nat
      /\ Len(toClient'[w]) = Len(toClient[w]) + 1
      /\ DOMAIN toClient[w] = 1 .. Len(toClient[w])
      /\ DOMAIN toClient'[w] = 1 .. Len(toClient'[w])
      /\ \A i \in 1 .. Len(toClient[w]) : toClient'[w][i] = toClient[w][i]
      /\ toClient'[w][Len(toClient[w]) + 1] = m
      /\ \A v \in Workers \ {w} : toClient'[v] = toClient[v]
      /\ \A v \in Workers : DOMAIN toClient[v] = 1 .. Len(toClient[v]) /\ Len(toClient[v]) \in Nat
  BY DEF TypeInv, TypeOK
<1>2. ASSUME NEW r \in Requests, NEW v \in Workers
      PROVE  InReply(r, v)' <=> \/ InReply(r, v)
                                \/ v = w /\ m.kind = "REPLY" /\ m.req = r
  <2>1. CASE v = w
    BY <1>1, <2>1 DEF InReply
  <2>2. CASE v # w
    BY <1>1, <2>2 DEF InReply
  <2> QED
    BY <2>1, <2>2
<1>3. ASSUME ReplyDistinct, m.kind = "REPLY" => \A v \in Workers : ~InReply(m.req, v)
      PROVE  ReplyDistinct'
  <2> SUFFICES ASSUME NEW w1 \in Workers, NEW w2 \in Workers,
                      NEW i \in 1 .. Len(toClient'[w1]), NEW j \in 1 .. Len(toClient'[w2]),
                      toClient'[w1][i].kind = "REPLY", toClient'[w2][j].kind = "REPLY",
                      toClient'[w1][i].req = toClient'[w2][j].req
               PROVE  w1 = w2 /\ i = j
    BY DEF ReplyDistinct
  <2>1. \A v \in Workers : \A k \in 1 .. Len(toClient'[v]) :
          \/ k \in 1 .. Len(toClient[v]) /\ toClient'[v][k] = toClient[v][k]
          \/ v = w /\ k = Len(toClient[w]) + 1 /\ toClient'[v][k] = m
    BY <1>1
  <2>2. m.kind = "REPLY" => \A v \in Workers : \A k \in 1 .. Len(toClient[v]) :
          toClient[v][k].kind = "REPLY" => toClient[v][k].req # m.req
    BY <1>1, <1>3 DEF InReply
  <2>3. CASE i \in 1 .. Len(toClient[w1]) /\ toClient'[w1][i] = toClient[w1][i]
    <3>1. CASE j \in 1 .. Len(toClient[w2]) /\ toClient'[w2][j] = toClient[w2][j]
      BY <1>3, <2>3, <3>1 DEF ReplyDistinct
    <3>2. CASE toClient'[w2][j] = m
      BY <2>2, <2>3, <3>2
    <3> QED
      BY <2>1, <3>1, <3>2
  <2>4. CASE w1 = w /\ i = Len(toClient[w]) + 1 /\ toClient'[w1][i] = m
    <3>1. CASE j \in 1 .. Len(toClient[w2]) /\ toClient'[w2][j] = toClient[w2][j]
      BY <2>2, <2>4, <3>1
    <3>2. CASE w2 = w /\ j = Len(toClient[w]) + 1
      BY <2>4, <3>2
    <3> QED
      BY <2>1, <3>1, <3>2
  <2> QED
    BY <2>1, <2>3, <2>4
<1> QED
  BY <1>2, <1>3

(* Receiving the first message of a worker takes its answer away, if it is *)
(* one, and no other.                                                      *)
LEMMA PollPlaces ==
  ASSUME TypeInv, ReplyDistinct, NEW w \in Workers, toClient[w] # <<>>,
         toClient' = [toClient EXCEPT ![w] = Tail(@)]
  PROVE  /\ ReplyDistinct'
         /\ \A r \in Requests, v \in Workers :
              InReply(r, v)' => /\ InReply(r, v)
                                /\ Head(toClient[w]).kind = "REPLY"
                                     => r # Head(toClient[w]).req
         /\ Head(toClient[w]).kind = "REPLY" => InReply(Head(toClient[w]).req, w)
<1>1. /\ Len(toClient[w]) \in Nat \ {0}
      /\ Len(toClient'[w]) = Len(toClient[w]) - 1
      /\ \A i \in 1 .. Len(toClient'[w]) :
           i + 1 \in 1 .. Len(toClient[w]) /\ toClient'[w][i] = toClient[w][i + 1]
      /\ \A v \in Workers \ {w} : toClient'[v] = toClient[v]
      /\ \A v \in Workers : DOMAIN toClient[v] = 1 .. Len(toClient[v]) /\ Len(toClient[v]) \in Nat
      /\ \A v \in Workers : DOMAIN toClient'[v] = 1 .. Len(toClient'[v])
      /\ Head(toClient[w]) = toClient[w][1]
      /\ 1 \in 1 .. Len(toClient[w])
  BY DEF TypeInv, TypeOK
<1>2. \A v \in Workers : \A i \in 1 .. Len(toClient'[v]) :
        \E k \in 1 .. Len(toClient[v]) :
          /\ toClient'[v][i] = toClient[v][k]
          /\ k = IF v = w THEN i + 1 ELSE i
  BY <1>1
<1>3. ReplyDistinct'
  <2> SUFFICES ASSUME NEW w1 \in Workers, NEW w2 \in Workers,
                      NEW i \in 1 .. Len(toClient'[w1]), NEW j \in 1 .. Len(toClient'[w2]),
                      toClient'[w1][i].kind = "REPLY", toClient'[w2][j].kind = "REPLY",
                      toClient'[w1][i].req = toClient'[w2][j].req
               PROVE  w1 = w2 /\ i = j
    BY DEF ReplyDistinct
  <2>1. PICK k1 \in 1 .. Len(toClient[w1]) : /\ toClient'[w1][i] = toClient[w1][k1]
                                             /\ k1 = IF w1 = w THEN i + 1 ELSE i
    BY <1>2
  <2>2. PICK k2 \in 1 .. Len(toClient[w2]) : /\ toClient'[w2][j] = toClient[w2][k2]
                                             /\ k2 = IF w2 = w THEN j + 1 ELSE j
    BY <1>2
  <2>3. w1 = w2 /\ k1 = k2
    BY <2>1, <2>2 DEF ReplyDistinct
  <2>4. i \in Nat /\ j \in Nat
    BY <1>1
  <2> QED
    BY <2>1, <2>2, <2>3, <2>4
<1>4. ASSUME NEW r \in Requests, NEW v \in Workers, InReply(r, v)'
      PROVE  InReply(r, v) /\ (Head(toClient[w]).kind = "REPLY" => r # Head(toClient[w]).req)
  <2>1. PICK i \in 1 .. Len(toClient'[v]) :
          toClient'[v][i].kind = "REPLY" /\ toClient'[v][i].req = r
    BY <1>1, <1>4 DEF InReply
  <2>2. PICK k \in 1 .. Len(toClient[v]) : /\ toClient'[v][i] = toClient[v][k]
                                           /\ k = IF v = w THEN i + 1 ELSE i
    BY <1>2
  <2>3. InReply(r, v)
    BY <1>1, <2>1, <2>2 DEF InReply
  <2>4. ~ (v = w /\ k = 1)
    BY <1>1, <2>2
  <2>5. Head(toClient[w]).kind = "REPLY" => r # Head(toClient[w]).req
    BY <1>1, <2>1, <2>2, <2>4 DEF ReplyDistinct
  <2> QED
    BY <2>3, <2>5
<1> QED
  BY <1>1, <1>3, <1>4 DEF InReply

(* A process that dies may lose its last messages: no answer is added. *)
LEMMA CrashPlaces ==
  ASSUME TypeInv, ReplyDistinct, NEW w \in Workers, NEW k \in 0 .. Len(toClient[w]),
         toClient' = [toClient EXCEPT ![w] = SubSeq(@, 1, k)]
  PROVE  /\ ReplyDistinct'
         /\ \A r \in Requests, v \in Workers : InReply(r, v)' => InReply(r, v)
<1>1. /\ Len(toClient[w]) \in Nat
      /\ Len(toClient'[w]) = k
      /\ \A v \in Workers \ {w} : toClient'[v] = toClient[v]
      /\ \A v \in Workers : DOMAIN toClient[v] = 1 .. Len(toClient[v])
      /\ \A v \in Workers : DOMAIN toClient'[v] = 1 .. Len(toClient'[v])
      /\ \A i \in 1 .. k : i \in 1 .. Len(toClient[w]) /\ toClient'[w][i] = toClient[w][i]
  BY DEF TypeInv, TypeOK
<1>2. \A v \in Workers : \A i \in 1 .. Len(toClient'[v]) :
        i \in 1 .. Len(toClient[v]) /\ toClient'[v][i] = toClient[v][i]
  BY <1>1
<1>3. ReplyDistinct'
  BY <1>2 DEF ReplyDistinct
<1> QED
  BY <1>1, <1>2, <1>3 DEF InReply

(* The steps of the tasks of the client. *)
LEMMA TaskPlace ==
  ASSUME TypeInv, PlaceInv, NEW r \in Requests, Task(r) \/ Timeout(r)
  PROVE  PlaceInv'
<1>0. /\ status \in [Requests -> Status]
      /\ got \in [Requests -> Workers \cup {None}]
      /\ toWorker \in [Workers -> Seq(Requests)]
      /\ started \in SUBSET Requests
  BY DEF TypeInv, TypeOK
<1>a. UNCHANGED <<toClient, job, started>>
  BY DEF Task, Timeout, Submit, PopWorker, Retry, Dispatch, Unreachable, WaitTimeout,
         ReplyTimeout, workerVars
<1>b. ReplyDistinct' /\ JobDistinct'
  BY <1>a DEF PlaceInv, ReplyDistinct, JobDistinct
<1>c. \A q \in Requests, w \in Workers : InReply(q, w)' <=> InReply(q, w)
  BY <1>a DEF InReply
<1>1. CASE Submit(r) \/ PopWorker(r) \/ Retry(r) \/ Unreachable(r) \/ Timeout(r)
  <2>1. /\ toWorker' = toWorker
        /\ \A q \in Requests \ {r} : status'[q] = status[q]
        /\ status[r] \notin Sent \cup Answers \/ status'[r] \in Sent
    BY <1>0, <1>1 DEF Submit, PopWorker, Retry, Unreachable, Timeout, WaitTimeout,
                      ReplyTimeout, Sent, Answers
  <2>2. \A q \in Requests, w \in Workers : InInbox(q, w)' <=> InInbox(q, w)
    BY <2>1 DEF InInbox
  <2>3. InboxDistinct'
    BY <2>1 DEF PlaceInv, InboxDistinct
  <2>4. Placed'
    BY <1>a, <1>c, <2>1, <2>2 DEF PlaceInv, Placed
  <2>5. StartedSent'
    BY <1>0, <1>a, <2>1 DEF PlaceInv, StartedSent
  <2> QED
    BY <1>b, <2>3, <2>4, <2>5 DEF PlaceInv
<1>2. CASE Dispatch(r)
  <2> DEFINE h == got[r]
  <2>0. h # None
    BY <1>2, NoneAssumption DEF Dispatch, TypeInv, TypeOK
  <2>1. /\ h \in Workers
        /\ toWorker' = [toWorker EXCEPT ![h] = Append(@, r)]
        /\ \A q \in Requests \ {r} : status'[q] = status[q]
        /\ status[r] = "popped" /\ status'[r] = "sent"
    BY <1>0, <1>2, <2>0 DEF Dispatch
  <2>2. r \notin started /\ \A w \in Workers : ~InInbox(r, w) /\ job[w] # r /\ ~InReply(r, w)
    BY <2>1 DEF PlaceInv, Placed, StartedSent, Sent, Answers
  <2>3. /\ Len(toWorker[h]) \in Nat
        /\ Len(toWorker'[h]) = Len(toWorker[h]) + 1
        /\ \A i \in 1 .. Len(toWorker[h]) : toWorker'[h][i] = toWorker[h][i]
        /\ toWorker'[h][Len(toWorker[h]) + 1] = r
        /\ \A v \in Workers \ {h} : toWorker'[v] = toWorker[v]
        /\ \A v \in Workers : DOMAIN toWorker[v] = 1 .. Len(toWorker[v]) /\ Len(toWorker[v]) \in Nat
        /\ \A v \in Workers : DOMAIN toWorker'[v] = 1 .. Len(toWorker'[v])
    BY <1>0, <2>1
  <2>4. \A v \in Workers : \A k \in 1 .. Len(toWorker'[v]) :
          \/ k \in 1 .. Len(toWorker[v]) /\ toWorker'[v][k] = toWorker[v][k]
          \/ v = h /\ k = Len(toWorker[h]) + 1 /\ toWorker'[v][k] = r
    BY <2>3
  <2>5. \A v \in Workers : \A k \in 1 .. Len(toWorker[v]) : toWorker[v][k] # r
    BY <2>2, <2>3 DEF InInbox
  <2>6. InboxDistinct'
    <3> SUFFICES ASSUME NEW w1 \in Workers, NEW w2 \in Workers,
                        NEW i \in 1 .. Len(toWorker'[w1]), NEW j \in 1 .. Len(toWorker'[w2]),
                        toWorker'[w1][i] = toWorker'[w2][j]
                 PROVE  w1 = w2 /\ i = j
      BY DEF InboxDistinct
    <3>1. CASE i \in 1 .. Len(toWorker[w1]) /\ toWorker'[w1][i] = toWorker[w1][i]
      <4>1. CASE j \in 1 .. Len(toWorker[w2]) /\ toWorker'[w2][j] = toWorker[w2][j]
        <5>1. InboxDistinct /\ toWorker[w1][i] = toWorker[w2][j]
          BY <3>1, <4>1 DEF PlaceInv
        <5> QED
          BY <3>1, <4>1, <5>1 DEF InboxDistinct
      <4>2. CASE toWorker'[w2][j] = r
        BY <2>5, <3>1, <4>2
      <4> QED
        BY <2>4, <4>1, <4>2
    <3>2. CASE w1 = h /\ i = Len(toWorker[h]) + 1 /\ toWorker'[w1][i] = r
      <4>1. CASE j \in 1 .. Len(toWorker[w2]) /\ toWorker'[w2][j] = toWorker[w2][j]
        BY <2>5, <3>2, <4>1
      <4>2. CASE w2 = h /\ j = Len(toWorker[h]) + 1
        BY <3>2, <4>2
      <4> QED
        BY <2>4, <4>1, <4>2
    <3> QED
      BY <2>4, <3>1, <3>2
  <2>7. \A q \in Requests, w \in Workers : InInbox(q, w)' => InInbox(q, w) \/ q = r
    BY <2>3, <2>4 DEF InInbox
  <2>8. Placed'
    BY <1>a, <1>c, <2>1, <2>2, <2>7 DEF PlaceInv, Placed, Sent
  <2>9. StartedSent'
    BY <1>0, <1>a, <2>1, <2>2 DEF PlaceInv, StartedSent
  <2> QED
    BY <1>b, <2>6, <2>8, <2>9 DEF PlaceInv
<1> QED
  BY <1>1, <1>2 DEF Task

(* The steps of the polling task. *)
LEMMA PollPlace ==
  ASSUME TypeInv, HandlersArePending, PlaceInv, NEW v \in Workers, Poll(v)
  PROVE  PlaceInv'
<1>0. /\ status \in [Requests -> Status]
      /\ started \in SUBSET Requests
      /\ toClient \in [Workers -> Seq(Message)]
  BY DEF TypeInv, TypeOK
<1> DEFINE m == Head(toClient[v])
<1>1. /\ toClient[v] # <<>>
      /\ toClient' = [toClient EXCEPT ![v] = Tail(@)]
      /\ UNCHANGED <<toWorker, job, started>>
  BY DEF Poll, PollReady, PollDone, PollReply, Incoming, workerVars
<1>2. /\ ReplyDistinct'
      /\ \A r \in Requests, w \in Workers :
           InReply(r, w)' => InReply(r, w) /\ (m.kind = "REPLY" => r # m.req)
      /\ m.kind = "REPLY" => InReply(m.req, v)
  BY <1>1, PollPlaces DEF PlaceInv
<1>3. InboxDistinct' /\ JobDistinct'
  BY <1>1 DEF PlaceInv, InboxDistinct, JobDistinct
<1>4. \A r \in Requests, w \in Workers : InInbox(r, w)' <=> InInbox(r, w)
  BY <1>1 DEF InInbox
<1>5. CASE status' = status
  <2>1. Placed'
    BY <1>1, <1>2, <1>4, <1>5 DEF PlaceInv, Placed
  <2>2. StartedSent'
    BY <1>1, <1>5 DEF PlaceInv, StartedSent
  <2> QED
    BY <1>2, <1>3, <2>1, <2>2 DEF PlaceInv
<1>6. ASSUME m.kind = "REPLY", Resolve(m.req, m.ok) PROVE PlaceInv'
  <2>1. /\ m.req \in Requests
        /\ status[m.req] = "sent"
        /\ status'[m.req] \in Answers
        /\ \A q \in Requests \ {m.req} : status'[q] = status[q]
    BY <1>0, <1>6 DEF Resolve, HandlersArePending, Answers
  <2>2. m.req \in started /\ \A w \in Workers : ~InInbox(m.req, w) /\ job[w] # m.req
    BY <1>2, <1>6, <2>1 DEF PlaceInv, Placed
  <2>3. Placed'
    BY <1>1, <1>2, <1>4, <1>6, <2>1, <2>2 DEF PlaceInv, Placed
  <2>4. StartedSent'
    BY <1>0, <1>1, <2>1 DEF PlaceInv, StartedSent
  <2> QED
    BY <1>2, <1>3, <2>3, <2>4 DEF PlaceInv
<1> QED
  BY <1>5, <1>6 DEF Poll, PollReady, PollDone, PollReply, Incoming

(* A worker takes the first request of its inbox and starts its job. *)
LEMMA ReceivePlace ==
  ASSUME TypeInv, PlaceInv, NEW w \in Workers, Receive(w)
  PROVE  PlaceInv'
<1> DEFINE h == Head(toWorker[w])
<1>0. /\ toWorker \in [Workers -> Seq(Requests)]
      /\ job \in [Workers -> Requests \cup {None}]
      /\ started \in SUBSET Requests
  BY DEF TypeInv, TypeOK
<1>1. /\ toWorker[w] # <<>>
      /\ toWorker' = [toWorker EXCEPT ![w] = Tail(@)]
      /\ job' = [job EXCEPT ![w] = h]
      /\ started' = started \cup {h}
      /\ UNCHANGED <<status, toClient>>
  BY DEF Receive, clientVars
<1>2. /\ Len(toWorker[w]) \in Nat \ {0}
      /\ Len(toWorker'[w]) = Len(toWorker[w]) - 1
      /\ \A i \in 1 .. Len(toWorker'[w]) :
           i + 1 \in 1 .. Len(toWorker[w]) /\ toWorker'[w][i] = toWorker[w][i + 1]
      /\ \A v \in Workers \ {w} : toWorker'[v] = toWorker[v]
      /\ \A v \in Workers : DOMAIN toWorker[v] = 1 .. Len(toWorker[v]) /\ Len(toWorker[v]) \in Nat
      /\ \A v \in Workers : DOMAIN toWorker'[v] = 1 .. Len(toWorker'[v])
      /\ h = toWorker[w][1] /\ 1 \in 1 .. Len(toWorker[w]) /\ h \in Requests
  BY <1>0, <1>1
<1>3. \A v \in Workers : \A i \in 1 .. Len(toWorker'[v]) :
        \E k \in 1 .. Len(toWorker[v]) :
          /\ toWorker'[v][i] = toWorker[v][k]
          /\ k = IF v = w THEN i + 1 ELSE i
  BY <1>2
<1>4. InInbox(h, w)
  BY <1>2 DEF InInbox
<1>5. /\ h \notin started /\ status[h] \in Sent
      /\ \A v \in Workers : job[v] # h /\ ~InReply(h, v)
  BY <1>2, <1>4 DEF PlaceInv, Placed
<1>6. InboxDistinct'
  <2> SUFFICES ASSUME NEW w1 \in Workers, NEW w2 \in Workers,
                      NEW i \in 1 .. Len(toWorker'[w1]), NEW j \in 1 .. Len(toWorker'[w2]),
                      toWorker'[w1][i] = toWorker'[w2][j]
               PROVE  w1 = w2 /\ i = j
    BY DEF InboxDistinct
  <2>1. PICK k1 \in 1 .. Len(toWorker[w1]) : /\ toWorker'[w1][i] = toWorker[w1][k1]
                                             /\ k1 = IF w1 = w THEN i + 1 ELSE i
    BY <1>3
  <2>2. PICK k2 \in 1 .. Len(toWorker[w2]) : /\ toWorker'[w2][j] = toWorker[w2][k2]
                                             /\ k2 = IF w2 = w THEN j + 1 ELSE j
    BY <1>3
  <2>3. w1 = w2 /\ k1 = k2
    <3>1. InboxDistinct /\ toWorker[w1][k1] = toWorker[w2][k2]
      BY <2>1, <2>2 DEF PlaceInv
    <3> QED
      BY <3>1 DEF InboxDistinct
  <2>4. i \in Nat /\ j \in Nat
    BY <1>2
  <2> QED
    BY <2>1, <2>2, <2>3, <2>4
<1>7. ASSUME NEW r \in Requests, NEW v \in Workers, InInbox(r, v)'
      PROVE  InInbox(r, v) /\ r # h
  <2>1. PICK i \in 1 .. Len(toWorker'[v]) : toWorker'[v][i] = r
    BY <1>2, <1>7 DEF InInbox
  <2>2. PICK k \in 1 .. Len(toWorker[v]) : /\ toWorker'[v][i] = toWorker[v][k]
                                           /\ k = IF v = w THEN i + 1 ELSE i
    BY <1>3
  <2>3. ~ (v = w /\ k = 1)
    BY <1>2, <2>2
  <2>4. r # h
    BY <1>2, <2>1, <2>2, <2>3 DEF PlaceInv, InboxDistinct
  <2>5. InInbox(r, v)
    BY <1>2, <2>1, <2>2 DEF InInbox
  <2> QED
    BY <2>4, <2>5
<1>8. ReplyDistinct' /\ \A r \in Requests, v \in Workers : InReply(r, v)' <=> InReply(r, v)
  BY <1>1 DEF PlaceInv, ReplyDistinct, InReply
<1>9. JobDistinct'
  BY <1>0, <1>1, <1>5 DEF PlaceInv, JobDistinct
<1>10. Placed'
  <2>1. \A v \in Workers : job'[v] = IF v = w THEN h ELSE job[v]
    BY <1>0, <1>1
  <2> QED
    BY <1>1, <1>5, <1>7, <1>8, <2>1 DEF PlaceInv, Placed
<1>11. StartedSent'
  BY <1>0, <1>1, <1>5 DEF PlaceInv, StartedSent
<1> QED
  BY <1>6, <1>8, <1>9, <1>10, <1>11 DEF PlaceInv

(* A worker answers the request of its job. *)
LEMMA FinishPlace ==
  ASSUME TypeInv, PlaceInv, NEW w \in Workers, Finish(w)
  PROVE  PlaceInv'
<1> DEFINE r == job[w]
<1>0. job \in [Workers -> Requests \cup {None}] /\ started \in SUBSET Requests
  BY DEF TypeInv, TypeOK
<1>1. r \in Requests
  BY DEF Finish, TypeInv, TypeOK, BusyHasJob
<1>2. /\ job' = [job EXCEPT ![w] = None]
      /\ UNCHANGED <<status, toWorker, started>>
  BY DEF Finish, clientVars
<1>3. PICK ok \in BOOLEAN : toClient' = [toClient EXCEPT ![w] = Append(@, Reply(r, ok))]
  BY DEF Finish, Send
<1>4. /\ Reply(r, ok) \in Message
      /\ Reply(r, ok).kind = "REPLY" /\ Reply(r, ok).req = r
  BY <1>1, MessageType DEF Reply
<1>5. r \in started /\ status[r] \in Sent /\ \A v \in Workers : ~InReply(r, v) /\ ~InInbox(r, v)
  BY <1>1 DEF PlaceInv, Placed
<1>6. /\ ReplyDistinct'
      /\ \A q \in Requests, v \in Workers : InReply(q, v)' <=> InReply(q, v) \/ (v = w /\ q = r)
  <2>1. ReplyDistinct
    BY DEF PlaceInv
  <2> DEFINE m == Reply(r, ok)
  <2>2. /\ m \in Message /\ m.kind = "REPLY" /\ m.req = r
        /\ toClient' = [toClient EXCEPT ![w] = Append(@, m)]
    BY <1>3, <1>4
  <2> HIDE DEF m
  <2>3. \A v \in Workers : ~InReply(m.req, v)
    BY <1>5, <2>2
  <2>4. /\ \A q \in Requests, v \in Workers :
             InReply(q, v)' <=> InReply(q, v) \/ (v = w /\ m.kind = "REPLY" /\ m.req = q)
        /\ ReplyDistinct'
    BY <2>1, <2>2, <2>3, SendPlaces
  <2> QED
    BY <2>2, <2>4
<1>7. /\ \A v \in Workers : job'[v] = IF v = w THEN None ELSE job[v]
      /\ \A v \in Workers \ {w} : job[v] # r
  BY <1>0, <1>1, <1>2, NoneAssumption DEF PlaceInv, JobDistinct
<1>8. InboxDistinct' /\ StartedSent' /\ \A q \in Requests, v \in Workers : InInbox(q, v)' <=> InInbox(q, v)
  BY <1>2 DEF PlaceInv, InboxDistinct, StartedSent, InInbox
<1>9. JobDistinct'
  BY <1>7 DEF PlaceInv, JobDistinct
<1>10. Placed'
  BY <1>1, <1>2, <1>5, <1>6, <1>7, <1>8, NoneAssumption DEF PlaceInv, Placed
<1> QED
  BY <1>6, <1>8, <1>9, <1>10 DEF PlaceInv

(* The other steps move no request. *)
LEMMA OtherPlace ==
  ASSUME TypeInv, PlaceInv,
         \/ \E w \in Workers : \/ PeerGone(w) \/ SendReady(w) \/ EndOfLife(w)
                               \/ Heartbeat(w) \/ SeeRestart(w) \/ Crash(w)
         \/ MaintainPool \/ Restart \/ Close \/ UNCHANGED vars
  PROVE  PlaceInv'
<1>0. job \in [Workers -> Requests \cup {None}] /\ started \in SUBSET Requests
  BY DEF TypeInv, TypeOK
<1>1. /\ UNCHANGED <<status, toWorker, started>>
      /\ \A v \in Workers : job'[v] = job[v] \/ job'[v] = None
  BY <1>0 DEF PeerGone, SendReady, EndOfLife, Heartbeat, SeeRestart, Crash, MaintainPool,
              Restart, Close, vars, clientVars, workerVars
<1>2. ReplyDistinct' /\ \A r \in Requests, v \in Workers : InReply(r, v)' => InReply(r, v)
  <2>1. CASE toClient' = toClient
    BY <2>1 DEF PlaceInv, ReplyDistinct, InReply
  <2>2. ASSUME NEW w \in Workers, NEW m \in {READY, DONE},
               toClient' = [toClient EXCEPT ![w] = Append(@, m)]
        PROVE  ReplyDistinct' /\ \A r \in Requests, v \in Workers : InReply(r, v)' => InReply(r, v)
    <3>1. m \in Message
      BY MessageType
    <3>2. READY.kind # "REPLY" /\ DONE.kind # "REPLY"
      BY DEF READY, DONE
    <3>3. m.kind # "REPLY"
      BY <3>2
    <3>4. ReplyDistinct
      BY DEF PlaceInv
    <3> QED
      BY <2>2, <3>1, <3>3, <3>4, SendPlaces
  <2>3. ASSUME NEW w \in Workers, Crash(w)
        PROVE  ReplyDistinct' /\ \A r \in Requests, v \in Workers : InReply(r, v)' => InReply(r, v)
    BY <2>3, CrashPlaces DEF Crash, PlaceInv
  <2> QED
    BY <2>1, <2>2, <2>3 DEF PeerGone, SendReady, EndOfLife, Heartbeat, SeeRestart, Send,
                            MaintainPool, Restart, Close, vars, workerVars
<1>3. InboxDistinct' /\ StartedSent' /\ \A q \in Requests, v \in Workers : InInbox(q, v)' <=> InInbox(q, v)
  BY <1>1 DEF PlaceInv, InboxDistinct, StartedSent, InInbox
<1>4. JobDistinct'
  BY <1>0, <1>1 DEF PlaceInv, JobDistinct
<1>5. Placed'
  BY <1>1, <1>2, <1>3, NoneAssumption DEF PlaceInv, Placed
<1> QED
  BY <1>2, <1>3, <1>4, <1>5 DEF PlaceInv

(* The places of requests are invariant. *)
LEMMA PlaceInvariant == Spec => []PlaceInv
<1>1. TypeInv /\ HandlersArePending /\ PlaceInv /\ [Next]_vars => PlaceInv'
  BY TaskPlace, PollPlace, ReceivePlace, FinishPlace, OtherPlace DEF Next, Work
<1> QED
  BY <1>1, InitPlace, TypeInvariant, HandlersCorrect, PTL DEF Spec

(* A request is at one place at most: it is never given to two workers,    *)
(* although _apply_async may retry, workers may be listed while they are   *)
(* busy, and the pool replaces the workers that exit.                      *)
THEOREM OnePlaceCorrect == Spec => []OnePlace
<1> QED
  BY PlaceImpliesOne, TypeInvariant, PlaceInvariant, PTL

-------------------------------------------------------------------------------
(* The pool implements RequestService.                                     *)

(* What a step that changes the status of one request does to its outcome. *)
LEMMA OutcomeStep ==
  ASSUME TypeInv, NEW r \in Requests, NEW s \in Status,
         status' = [status EXCEPT ![r] = s]
  PROVE  /\ s \in Finished => Outcome' = [Outcome EXCEPT ![r] = s]
         /\ s \notin Finished /\ status[r] \notin Finished => Outcome' = Outcome
         /\ status[r] \notin Finished => Outcome[r] = "none"
BY DEF TypeInv, TypeOK, Outcome

(* A step of the pool is a step of the service or none. *)
LEMMA ServiceStep ==
  TypeInv /\ HandlersArePending /\ PlaceInv /\ [Next]_vars => [Service!Next]_(Service!vars)
<1> SUFFICES ASSUME TypeInv, HandlersArePending, PlaceInv, [Next]_vars
             PROVE  Service!Next \/ UNCHANGED <<Outcome, started>>
  BY DEF Service!vars
<1>0. /\ status \in [Requests -> Status]
      /\ \A r \in Requests : status[r] \in Finished \/ Outcome[r] = "none"
  BY DEF TypeInv, TypeOK, Outcome
<1>1. ASSUME UNCHANGED <<status, started>> PROVE UNCHANGED <<Outcome, started>>
  BY <1>1 DEF Outcome
<1>2. ASSUME NEW r \in Requests, Submit(r) \/ Unreachable(r)
      PROVE  Service!Next \/ UNCHANGED <<Outcome, started>>
  <2>1. started' = started /\ r \notin started /\ status[r] \notin Finished
    BY <1>2 DEF Submit, Unreachable, workerVars, PlaceInv, StartedSent, Sent, Answers, Finished
  <2>2. PICK s \in {"rejected", "gateway", "waiting"} : status' = [status EXCEPT ![r] = s]
    BY <1>2 DEF Submit, Unreachable
  <2>3. CASE s = "waiting"
    BY <2>1, <2>2, <2>3, OutcomeStep DEF Status, Finished, Answers
  <2>4. CASE s # "waiting"
    <3>1. s \in Finished /\ s \in Status /\ s \in Service!Refusals
      BY <2>4 DEF Finished, Status, Service!Refusals
    <3>2. Outcome' = [Outcome EXCEPT ![r] = s] /\ Outcome[r] = "none"
      BY <1>0, <2>1, <2>2, <3>1, OutcomeStep
    <3>3. Service!Refuse(r)
      BY <2>1, <3>1, <3>2 DEF Service!Refuse
    <3> QED
      BY <3>3 DEF Service!Next
  <2> QED
    BY <2>3, <2>4
<1>3. ASSUME NEW r \in Requests, PopWorker(r) \/ Retry(r) \/ Dispatch(r)
      PROVE  UNCHANGED <<Outcome, started>>
  <2>1. started' = started /\ status[r] \notin Finished
    BY <1>3 DEF PopWorker, Retry, Dispatch, workerVars, Finished, Answers
  <2>2. PICK s \in {"popped", "waiting", "sent"} : status' = [status EXCEPT ![r] = s]
    BY <1>3 DEF PopWorker, Retry, Dispatch
  <2> QED
    BY <2>1, <2>2, OutcomeStep DEF Status, Finished, Answers
<1>4. ASSUME NEW r \in Requests, Timeout(r) PROVE Service!Next
  <2>1. /\ started' = started /\ status[r] \notin Finished
        /\ status' = [status EXCEPT ![r] = "timeout"]
    BY <1>4 DEF Timeout, WaitTimeout, ReplyTimeout, workerVars, Finished, Answers
  <2>2. Outcome' = [Outcome EXCEPT ![r] = "timeout"] /\ Outcome[r] = "none"
    BY <1>0, <2>1, OutcomeStep DEF Status, Finished
  <2> QED
    BY <2>1, <2>2 DEF Service!Next, Service!GiveUp
<1>5. ASSUME NEW w \in Workers, PollReply(w)
      PROVE  Service!Next \/ UNCHANGED <<Outcome, started>>
  <2> DEFINE m == Head(toClient[w])
  <2>1. started' = started /\ m.kind = "REPLY"
    BY <1>5 DEF PollReply, Incoming, workerVars
  <2>2. CASE status' = status
    BY <1>1, <2>1, <2>2
  <2>3. CASE Resolve(m.req, m.ok)
    <3>1. /\ m.req \in Requests /\ status[m.req] = "sent"
          /\ status[m.req] \notin Finished
      BY <2>3 DEF Resolve, HandlersArePending, Finished, Answers
    <3>2. PICK s \in Answers : status' = [status EXCEPT ![m.req] = s]
      BY <2>3 DEF Resolve, Answers
    <3>3. InReply(m.req, w)
      BY <1>5, <2>1, PollPlaces DEF PollReply, Incoming, PlaceInv
    <3>4. m.req \in started
      BY <3>1, <3>3 DEF PlaceInv, Placed
    <3>5. Outcome' = [Outcome EXCEPT ![m.req] = s] /\ Outcome[m.req] = "none"
      BY <1>0, <3>1, <3>2, OutcomeStep DEF Status, Finished
    <3> QED
      BY <2>1, <3>1, <3>2, <3>4, <3>5 DEF Service!Next, Service!Answer, Service!Answers, Answers
  <2> QED
    BY <1>5, <2>2, <2>3 DEF PollReply
<1>6. ASSUME NEW w \in Workers, Receive(w) PROVE Service!Next
  <2> DEFINE h == Head(toWorker[w])
  <2>1. /\ toWorker[w] # <<>> /\ toWorker[w] \in Seq(Requests)
        /\ status' = status /\ started' = started \cup {h}
    BY <1>6 DEF Receive, clientVars, TypeInv, TypeOK
  <2>2. h \in Requests /\ InInbox(h, w)
    BY <2>1 DEF InInbox
  <2>3. h \notin started /\ status[h] \in Sent
    BY <2>2 DEF PlaceInv, Placed
  <2>4. Outcome' = Outcome /\ Outcome[h] \in {"none", "timeout"}
    BY <2>1, <2>2, <2>3 DEF Outcome, Sent, Finished, Answers
  <2> QED
    BY <2>1, <2>2, <2>3, <2>4 DEF Service!Next, Service!Run
<1>7. ASSUME \/ \E w \in Workers : \/ PollReady(w) \/ PollDone(w) \/ PeerGone(w) \/ SendReady(w)
                                   \/ EndOfLife(w) \/ Heartbeat(w) \/ Finish(w)
                                   \/ SeeRestart(w) \/ Crash(w)
             \/ MaintainPool \/ Restart \/ Close \/ UNCHANGED vars
      PROVE  UNCHANGED <<status, started>>
  BY <1>7 DEF PollReady, PollDone, PeerGone, SendReady, EndOfLife, Heartbeat, Finish, SeeRestart,
              Crash, MaintainPool, Restart, Close, vars, clientVars, workerVars
<1> QED
  BY <1>1, <1>2, <1>3, <1>4, <1>5, <1>6, <1>7 DEF Next, Task, Poll, Work

(* The pool keeps its promise to the callers of apply_async: one outcome,  *)
(* a job started at most once, and an answer only from a job that was      *)
(* started.                                                                *)
THEOREM Implementation == Spec => Promise
<1>1. Init => Service!Init
  BY DEF Init, Service!Init, Outcome, Finished, Answers
<1> QED
  BY <1>1, ServiceStep, TypeInvariant, HandlersCorrect, PlaceInvariant, PTL
     DEF Spec, Promise, Service!Spec
===============================================================================
