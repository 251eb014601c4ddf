------------------------------ MODULE HttpService ------------------------------
(***************************************************************************)
(* The handlers of the HTTP server (handlers/, runtime.py), one request    *)
(* after the other, with what they share: the arguments of the routes,     *)
(* the rules of the filters, the job records and documents in the store,   *)
(* the working directories and the download tokens.                        *)
(*                                                                         *)
(* A handler runs to its end in one step, except those of synchronous      *)
(* executions, which wait for their job while other requests are served.   *)
(* Inputs are valid, refused or fatal here: Execution has their            *)
(* validation.  The steps of a job are those of JobRecord, seen from the   *)
(* store.                                                                  *)
(***************************************************************************)
EXTENDS RequestParsing

CONSTANTS
  Jobs,          \* job uuids; also the realm tokens made for them
  Gone,          \* the record of a job that was deleted
  RuleSets,      \* contents of the file of the Lizmap rules
  FirstRules,    \* the one it has at the start
  Requests,      \* what clients send: of kind "ows" to /ows/, "processes",
                 \* or "jobs" to /jobs, /dnl and /status
  Files          \* names of the files of a working directory

ASSUME RulesAssumption ==
  FirstRules \in RuleSets /\ \A R \in RuleSets : \A rule \in R : Definition(rule)
ASSUME FilesAssumption == {"log", "out"} \subseteq Files

(* What the routes and the parsers of parameters let through.              *)
ASSUME RequestsAssumption ==
  \A r \in Requests :
    /\ r.kind \in {"ows", "processes", "jobs"}
    /\ r.kind \in {"ows", "processes"} =>
         /\ r.idents \in Seq(Identifiers) /\ r.async \in BOOLEAN
         /\ {r.timeout, r.expire} \subseteq Int \cup {Absent, Junk}
    /\ r.kind = "processes" =>
         /\ r.operation \in {"list", "describe", "execute"}
         /\ r.operation = "execute" => r.idents # <<>>
    /\ r.kind = "jobs" =>
         /\ r.operation \in {"joblist", "status", "inputs", "results", "dismiss", "ls", "file",
                             "log", "geturl", "dnl", "old", "delete"}
         /\ r.job \in Jobs /\ (r.operation = "geturl" => r.file \in Files)

VARIABLES
  rules,    \* the rules of the Lizmap filter
  kwargs,   \* kwargs[path]: the policy in the arguments of the route
  jobs,     \* jobs[j]: the record of the job
  docs,     \* docs[j]: its response document, and with it its request
  dirs,     \* dirs[j]: the files of its working directory
  waiting,  \* waiting[j]: the record that a synchronous request made of it
  replies,  \* replies[j]: the final status in the reply of the worker
  tokens,   \* download tokens that have not expired
  answer    \* what the last request got (history)

stores == <<jobs, docs, dirs>>
sync == <<waiting, replies>>
vars == <<rules, kwargs, stores, sync, tokens, answer>>

Routes == {"ows", "ogcapi"}
Exists(j) == jobs[j] \notin {Absent, Gone}
NoAnswer == [op |-> "none", status |-> 0, shows |-> {}]

(* The timeout of a job never exceeds that of the server, and its          *)
(* durations are not null, in both protocols.                              *)
LimitsKept ==
  \A j \in Jobs : Exists(j) => jobs[j].timeout \in 1 .. ServerTimeout /\ jobs[j].expiration >= 1

(* Type correctness; the rights of a route are sets of identifiers.        *)
TypeOK ==
  /\ LimitsKept
  /\ rules \in RuleSets
  /\ \A p \in Routes : kwargs[p].allow \subseteq Identifiers /\ kwargs[p].deny \subseteq Identifiers
  /\ DOMAIN kwargs = Routes
  /\ \A j \in Jobs :
       /\ Exists(j) => /\ jobs[j].process \in Processes /\ jobs[j].api \in Routes
                       /\ jobs[j].status \in {"ACCEPTED", "STARTED", "DONE", "ERROR"}
                       /\ jobs[j].files \subseteq Files
       /\ docs[j] \in {"none", "status", "json", "xml"}
       /\ dirs[j] \in (SUBSET Files) \cup {Absent}
       /\ waiting[j] # Absent => waiting[j].process \in Processes
       /\ replies[j] \in {"none", "DONE", "ERROR"}
  /\ tokens \subseteq Jobs \X Files

Init ==
  /\ rules = FirstRules
  /\ kwargs = [p \in Routes |-> NoRules]
  /\ jobs = [j \in Jobs |-> Absent]
  /\ docs = [j \in Jobs |-> "none"]
  /\ dirs = [j \in Jobs |-> Absent]
  /\ waiting = [j \in Jobs |-> Absent]
  /\ replies = [j \in Jobs |-> "none"]
  /\ tokens = {}
  /\ answer = NoAnswer

-------------------------------------------------------------------------------
(* Every request goes through the middleware                               *)

(* Definitions that cannot be added make find_handler raise, and the       *)
(* connection is closed without an answer.                                 *)
Closed == 499
Refusal(f) ==
  CASE f.status # 0 -> f.status
    [] f.path \in Routes /\ \E d \in f.defs : ~Addable(d) -> Closed
    [] OTHER -> 0

(* The answer: what it shows, the realm it was asked for, and the          *)
(* definitions of the rules that concerned the request when it was decided. *)
Decided == {"list", "execute", "busy", "wait"}
OfRealm == {"job", "dismiss", "files", "log", "geturl"}
Reply(r, op, status, shows) ==
  answer' = [op |-> op, status |-> status,
             shows |-> IF op \in Decided \cup OfRealm THEN shows ELSE {},
             realm |-> IF op \in OfRealm THEN r.realm ELSE Absent,
             concerned |-> IF op \in Decided THEN LizmapDefs(rules, r) ELSE {}]

ReplyLater(status) ==
  answer' = [op |-> "sync", status |-> status, shows |-> {}, realm |-> Absent, concerned |-> {}]

(* Answered by the middleware: ErrorHandler. *)
RefuseAtFilter(r, f) ==
  /\ Reply(r, "refused", Refusal(f), {})
  /\ UNCHANGED <<kwargs, stores, sync, tokens>>

Visible(path) == {p \in Processes : Allows(kwargs'[path], p)}

-------------------------------------------------------------------------------
(* Executions: from Service.execute_process to the pool                    *)

Realm(r, j) == IF r.realm = Absent THEN j ELSE r.realm

NewRecord(r, j, ident, api, timeout, expire) ==
  [process |-> ident, realm |-> Realm(r, j), api |-> api, status |-> "ACCEPTED",
   timeout |-> EffectiveTimeout(timeout), expiration |-> EffectiveExpiration(expire),
   files |-> {}]

(* The inputs are validated, then the directory is made, the request       *)
(* logged and the job given to the pool, which may refuse it.  A refusal   *)
(* is an error of the job if it is asynchronous; otherwise it is only an   *)
(* answer, and the record stays.                                           *)
StartJob(r, j, record, async) ==
  /\ jobs[j] = Absent
  /\ dirs' = [dirs EXCEPT ![j] = {}]
  /\ docs' = [docs EXCEPT ![j] = "status"]
  /\ UNCHANGED replies
  /\ \/ /\ async
        /\ \E status \in {"ACCEPTED", "ERROR"} :
             jobs' = [jobs EXCEPT ![j] = [record EXCEPT !.status = status]]
        /\ Reply(r, "execute", IF record.api = "ows" THEN 200 ELSE 201, {record.process})
        /\ UNCHANGED waiting
     \/ /\ ~async
        /\ jobs' = [jobs EXCEPT ![j] = record]
        /\ \/ Reply(r, "busy", 509, {record.process}) /\ UNCHANGED waiting
           \/ /\ waiting' = [waiting EXCEPT ![j] = record]
              /\ Reply(r, "wait", 0, {record.process})

(* Mutant: the directory is made before the inputs are looked at. *)
ExecuteDirFirst(r, j, error, record, async) ==
  IF error # 0
  THEN /\ Reply(r, "execute", error, {})
       /\ dirs' = IF r.inputs # "valid" THEN [dirs EXCEPT ![j] = {}] ELSE dirs
       /\ UNCHANGED <<jobs, docs, sync>>
  ELSE StartJob(r, j, record, async)

Execute(r, j, error, record, async) ==
  IF error # 0
  THEN Reply(r, "execute", error, {}) /\ UNCHANGED <<stores, sync>>
  ELSE StartJob(r, j, record, async)

InputError(r) == Check(r.inputs = "refused", 400) ?? Check(r.inputs = "fatal", 500)
Forbidden(path, idents) == \E p \in ToSet(idents) : ~Allows(kwargs'[path], p)

(* A description or a list: what it shows, or an error. *)
Show(r, op, error, shows) ==
  /\ IF error = 0 THEN Reply(r, op, 200, shows) ELSE Reply(r, op, error, {})
  /\ UNCHANGED <<stores, sync>>

-------------------------------------------------------------------------------
(* /ows/: OWSHandler.handle_wps_request, after the parser                  *)

(* Capabilities: the processes that the policy shows. *)
GetCapabilities(r) == Show(r, "list", CapabilitiesError, Visible("ows"))

DescribeProcess(r) ==
  Show(r, "describe",
       Check(Forbidden("ows", r.idents), 403) ?? Check(r.idents = <<>>, 400)
         ?? ProcessError(Described(r.idents), r.map, 400),
       Described(r.idents))

(* GetResults: whatever document the job has, in any api and state.        *)
GetResults(r) ==
  /\ IF docs[r.job] # "none"
     THEN Reply(r, "results", 200, {r.job}) ELSE Reply(r, "results", 404, {})
  /\ UNCHANGED <<stores, sync>>

OwsExecute(r, j) ==
  Execute(r, j, Check(Forbidden("ows", r.idents), 403)
                  ?? ProcessError({r.idents[1]}, r.map, 400) ?? InputError(r),
          NewRecord(r, j, r.idents[1], "ows", TimeoutOf(r), ExpireOf(r)), AsyncOf(r))

Ows(r, j) ==
  /\ IF ParseOws(r) # 0
     THEN Reply(r, "ows", ParseOws(r), {}) /\ UNCHANGED <<stores, sync>>
     ELSE CASE r.operation = "getresults" -> GetResults(r)
            [] r.operation = "getcapabilities" -> GetCapabilities(r)
            [] r.operation = "describeprocess" -> DescribeProcess(r)
            [] r.operation = "execute" -> OwsExecute(r, j)
  /\ UNCHANGED tokens

-------------------------------------------------------------------------------
(* /processes: ProcessHandler and ExecuteHandler                           *)

ApiList(r) == Show(r, "list", 0, Visible("ogcapi"))

ApiDescribe(r) ==
  Show(r, "describe",
       Check(Forbidden("ogcapi", r.idents), 401) ?? ProcessError(ToSet(r.idents), r.map, 404),
       ToSet(r.idents))

(* The body is parsed after the policy, the preferences after the body,    *)
(* and their values are looked at once the process is known.               *)
ApiExecute(r, j) ==
  Execute(r, j, Check(Forbidden("ogcapi", r.idents), 401) ?? Check(r.body = Junk, 400)
                  ?? PreferenceError(r) ?? ProcessError(ToSet(r.idents), r.map, 404)
                  ?? LimitError(r) ?? InputError(r),
          NewRecord(r, j, r.idents[1], "ogcapi", r.timeout, r.expire), r.async)

Api(r, j) ==
  /\ CASE r.operation = "list" -> ApiList(r)
       [] r.operation = "describe" -> ApiDescribe(r)
       [] r.operation = "execute" -> ApiExecute(r, j)
  /\ UNCHANGED tokens

-------------------------------------------------------------------------------
(* The life of a job, seen from the store                                  *)

JobStarts(j) ==
  /\ Exists(j) /\ jobs[j].status = "ACCEPTED"
  /\ jobs' = [jobs EXCEPT ![j].status = "STARTED"]
  /\ dirs' = [dirs EXCEPT ![j] = {"log"}]
  /\ answer' = NoAnswer
  /\ UNCHANGED <<rules, kwargs, docs, sync, tokens>>

FinalDoc(record) == IF record.api = "ows" THEN "xml" ELSE "json"

(* update_status with a final status: the document, then the record with   *)
(* the output files of the results that are references.                    *)
JobEnds(j, status) ==
  /\ Exists(j) /\ jobs[j].status = "STARTED"
  /\ jobs' = [jobs EXCEPT ![j].status = status,
                          ![j].files = IF status = "DONE" THEN {"out"} ELSE {}]
  /\ docs' = [docs EXCEPT ![j] = FinalDoc(jobs[j])]
  /\ dirs' = [dirs EXCEPT ![j] = @ \cup IF status = "DONE" THEN Files ELSE {}]
  /\ replies' = [replies EXCEPT ![j] = IF waiting[j] = Absent THEN "none" ELSE status]
  /\ answer' = NoAnswer
  /\ UNCHANGED <<rules, kwargs, waiting, tokens>>

(* The synchronous request is answered with the document, or an error.     *)
AnswerSync(j) ==
  /\ replies[j] # "none"
  /\ ReplyLater(IF replies[j] = "DONE" THEN 200 ELSE 500)
  /\ waiting' = [waiting EXCEPT ![j] = Absent]
  /\ replies' = [replies EXCEPT ![j] = "none"]
  /\ UNCHANGED <<rules, kwargs, stores, tokens>>

(* Or the timeout is over, and the record is updated, or made again.       *)
SyncTimeout(j) ==
  /\ waiting[j] # Absent
  /\ ReplyLater(504)
  /\ jobs' = [jobs EXCEPT ![j] = [waiting[j] EXCEPT !.status = "ERROR"]]
  /\ docs' = [docs EXCEPT ![j] = FinalDoc(waiting[j])]
  /\ waiting' = [waiting EXCEPT ![j] = Absent]
  /\ replies' = [replies EXCEPT ![j] = "none"]
  /\ UNCHANGED <<rules, kwargs, dirs, tokens>>

-------------------------------------------------------------------------------
(* /jobs: JobHandler, ResultHandler, StoreHandler, LogsHandler             *)

JobDoc(j) == [job |-> j, realm |-> jobs[j].realm]

(* The realm of the request has to be that of the job.                     *)
WrongRealm(r, j) == MustCheckRealm(r.realm) /\ r.realm # jobs[j].realm

(* Mutant: the list is not filtered. *)
JobListAll(r) ==
  /\ Reply(r, "job", 200, {JobDoc(j) : j \in {x \in Jobs : Exists(x)}})
  /\ UNCHANGED <<stores, sync, tokens>>

JobList(r) ==
  /\ Reply(r, "job", 200, {JobDoc(j) : j \in {x \in Jobs : Exists(x) /\ ~WrongRealm(r, x)}})
  /\ UNCHANGED <<stores, sync, tokens>>

JobStatus(r) ==
  /\ CASE ~Exists(r.job) -> Reply(r, "job", 404, {})
       [] Exists(r.job) /\ WrongRealm(r, r.job) -> Reply(r, "job", 401, {})
       [] OTHER -> Reply(r, "job", 200, {JobDoc(r.job)})
  /\ UNCHANGED <<stores, sync, tokens>>

(* key=inputs and /results look at no realm, and /results gives any        *)
(* document of this api, that of a job that runs included.                 *)
JobInputs(r) ==
  /\ Reply(r, "inputs", IF docs[r.job] = "none" THEN 404 ELSE 200, {})
  /\ UNCHANGED <<stores, sync, tokens>>

ApiOwns(j) == docs[j] = "json" \/ (docs[j] = "status" /\ Exists(j) /\ jobs[j].api = "ogcapi")
JobResults(r) ==
  /\ Reply(r, "results", IF ApiOwns(r.job) THEN 200 ELSE 404, {})
  /\ UNCHANGED <<stores, sync, tokens>>

(* delete_results: the directory, the document, the request, the record.   *)
Delete(j) ==
  /\ dirs' = [dirs EXCEPT ![j] = Absent]
  /\ docs' = [docs EXCEPT ![j] = "none"]
  /\ jobs' = [jobs EXCEPT ![j] = IF Exists(j) THEN Gone ELSE @]
  /\ UNCHANGED <<sync, tokens>>

JobDismiss(r) ==
  IF Exists(r.job) /\ ~WrongRealm(r, r.job)
  THEN Reply(r, "dismiss", 200, {JobDoc(r.job)}) /\ Delete(r.job)
  ELSE /\ Reply(r, "dismiss", IF Exists(r.job) THEN 401 ELSE 404, {})
       /\ UNCHANGED <<stores, sync, tokens>>

(* check_resource_acl and ls: with a realm to check, only the output files *)
(* of the record count, whoever's job it is.                               *)
AclStatus(r, file) ==
  CASE ~MustCheckRealm(r.realm) -> 0
    [] MustCheckRealm(r.realm) /\ ~Exists(r.job) -> 404
    [] MustCheckRealm(r.realm) /\ Exists(r.job) /\ file \notin jobs[r.job].files -> 401
    [] OTHER -> 0

InDir(j) == IF dirs[j] = Absent THEN {} ELSE dirs[j]

ListFiles(r) ==
  /\ CASE dirs[r.job] = Absent \/ (MustCheckRealm(r.realm) /\ ~Exists(r.job)) ->
            Reply(r, "files", 404, {})
       [] OTHER -> Reply(r, "files", 200,
            InDir(r.job) \cap IF MustCheckRealm(r.realm) THEN jobs[r.job].files ELSE Files)
  /\ UNCHANGED <<stores, sync, tokens>>

(* download: the file, if it is there. *)
DownloadFile(r, op, file) ==
  IF file \in InDir(r.job) THEN Reply(r, op, 200, {file}) ELSE Reply(r, op, 404, {})

GetFile(r) ==
  /\ IF AclStatus(r, r.file) # 0 THEN Reply(r, "files", AclStatus(r, r.file), {})
     ELSE DownloadFile(r, "files", r.file)
  /\ UNCHANGED <<stores, sync, tokens>>

(* LogsHandler: for nobody whose realm is checked.                         *)
GetLog(r) ==
  /\ IF MustCheckRealm(r.realm) THEN Reply(r, "log", 403, {})
     ELSE DownloadFile(r, "log", "log")
  /\ UNCHANGED <<stores, sync, tokens>>

(* StoreHandler.put with the command geturl: the rights are checked, the   *)
(* existence of the file is not.                                           *)
PutUrl(r) ==
  /\ UNCHANGED <<stores, sync>>
  /\ IF AclStatus(r, r.file) # 0
     THEN Reply(r, "geturl", AclStatus(r, r.file), {}) /\ UNCHANGED tokens
     ELSE Reply(r, "geturl", 200, {r.file}) /\ tokens' = tokens \cup {<<r.job, r.file>>}

-------------------------------------------------------------------------------
(* /dnl and /status: DownloadHandler and StatusHandler                     *)

(* get_dnl_params reads a key that create_dnl_url did not write.           *)
GetToken(r) ==
  /\ Reply(r, "dnl", IF <<r.job, r.file>> \in tokens THEN 500 ELSE 403, {})
  /\ UNCHANGED <<stores, sync, tokens>>

(* The old status API looks at no realm. *)
OldStatus(r) ==
  /\ IF Exists(r.job) THEN Reply(r, "status", 200, {r.job}) ELSE Reply(r, "status", 404, {})
  /\ UNCHANGED <<stores, sync, tokens>>

OldDelete(r) ==
  IF Exists(r.job) /\ jobs[r.job].status \in {"DONE", "ERROR"}
  THEN Reply(r, "delete", 200, {r.job}) /\ Delete(r.job)
  ELSE /\ Reply(r, "delete", IF Exists(r.job) THEN 409 ELSE 404, {})
       /\ UNCHANGED <<stores, sync, tokens>>

Other(r) ==
     CASE r.operation = "joblist" -> JobList(r)
       [] r.operation = "status"  -> JobStatus(r)
       [] r.operation = "inputs"  -> JobInputs(r)
       [] r.operation = "results" -> JobResults(r)
       [] r.operation = "dismiss" -> JobDismiss(r)
       [] r.operation = "ls"      -> ListFiles(r)
       [] r.operation = "file"    -> GetFile(r)
       [] r.operation = "log"     -> GetLog(r)
       [] r.operation = "geturl"  -> PutUrl(r)
       [] r.operation = "dnl"     -> GetToken(r)
       [] r.operation = "old"     -> OldStatus(r)
       [] r.operation = "delete"  -> OldDelete(r)

-------------------------------------------------------------------------------

(* A token expires after download_ttl seconds. *)
TokenExpires(t) ==
  /\ tokens' = tokens \ {t}
  /\ answer' = NoAnswer
  /\ UNCHANGED <<rules, kwargs, stores, sync>>

(* autoreload: the file of the rules was changed and is read again.        *)
ReloadRules(new) ==
  /\ new # rules
  /\ rules' = new
  /\ answer' = NoAnswer
  /\ UNCHANGED <<kwargs, stores, sync, tokens>>

(* A request: the filters, then the handler of the route with its policy.  *)
Request(r, j) ==
  LET f == Filtered(rules, r)
  IN  /\ UNCHANGED rules
      /\ IF Refusal(f) # 0 THEN RefuseAtFilter(r, f)
         ELSE /\ kwargs' = Install(kwargs, f.path, f.defs)
              /\ CASE r.kind = "ows" -> Ows(r, j)
                   [] r.kind = "processes" -> Api(r, j)
                   [] r.kind = "jobs" -> Other(r)

(* The kind of a request is that of the handler at the path that is left.  *)
ASSUME RoutingAssumption ==
  \A R \in RuleSets, r \in Requests :
    Filtered(R, r).status = 0 =>
      /\ r.kind = "ows" => Filtered(R, r).path = "ows"
      /\ r.kind = "processes" => Filtered(R, r).path = "ogcapi"

Next ==
  \/ \E r \in Requests, j \in Jobs : Request(r, j)
  \/ \E j \in Jobs :
       \/ JobStarts(j) \/ AnswerSync(j) \/ SyncTimeout(j)
       \/ \E status \in {"DONE", "ERROR"} : JobEnds(j, status)
  \/ \E t \in tokens : TokenExpires(t)
  \/ \E new \in RuleSets : ReloadRules(new)

Spec == Init /\ [][Next]_vars

-------------------------------------------------------------------------------
(* Properties                                                              *)

(* The filter of Lizmap is for every path, and nothing was registered with *)
(* a priority below its own (filters.py:207-232): no result replaces its.  *)
LizmapLast ==
  \E i \in DOMAIN Registered :
    /\ \A k \in DOMAIN Registered \ {i} : Before(k, i)
    /\ LET filters == Registered[i].filters
       IN  Len(filters) = 1 /\ filters[1].kind = "lizmap" /\ Routes \subseteq filters[1].match

(* What a request lists or executes is allowed by the rules that concern   *)
(* it, if there are any, allow before deny: neither the policy of another  *)
(* request, nor that of the other route, nor a reload of the rules can be  *)
(* used in its place (middleware.py:89-100, accesspolicy.py:84-91).        *)
Permits(defs, p) ==
  \/ p \in DefaultAllow \/ \E d \in defs : d.allow # Absent /\ p \in d.allow
  \/ p \notin DefaultDeny /\ (\A d \in defs : d.deny = Absent \/ p \notin d.deny)
OwnRulesDecide ==
  answer.op \in Decided /\ answer.concerned # {} =>
    \A p \in answer.shows : Permits(answer.concerned, p)

(* "If none match then full access is granted" (README.md of lizmapacl):   *)
(* a request that no rule concerns sees what the default policy allows.    *)
FullAccessWithoutRules ==
  answer.op = "list" /\ answer.status = 200 /\ answer.concerned = {} =>
    answer.shows = {p \in Processes : Allows(NoRules, p)}

(* The list of jobs, the status of one and its dismissal, the operations   *)
(* that look at the realm of a job, are for the jobs of the realm of the   *)
(* request, unless it is that of the administrator, or realms are not      *)
(* enabled and none is given (ogc/api/request.py:272-324).  The others     *)
(* look at none: results, in both protocols, key=inputs, and the old       *)
(* /status, its deletion included.                                         *)
JobsStayInRealm ==
  answer.op \in {"job", "dismiss"} =>
    \/ ~EnableJobRealm /\ answer.realm = Absent
    \/ EnableJobRealm /\ AdminRealm # Absent /\ answer.realm = AdminRealm
    \/ \A d \in answer.shows : d.realm = answer.realm

(* Who has a realm to check gets no other file than outputs, though of any *)
(* job: not the log, not the inputs, not what a failed or unfinished job   *)
(* left (handlers/storehandler.py:50-137, which asks for the record of the *)
(* job and not for its realm).                                             *)
FilesAreOutputs ==
  /\ answer.op \in {"files", "log", "geturl"}
  /\ EnableJobRealm /\ answer.realm # AdminRealm
  => answer.shows \subseteq {"out"}

(* What realms are used for, through creation, lists, status, dismissal    *)
(* and files, whatever requests come between.  It is less than what        *)
(* doc/accesscontrol.rst:8-10 says, that results need the token too.       *)
CheckedRealmsKept == JobsStayInRealm /\ FilesAreOutputs

(* A request that is refused leaves nothing: no record, no directory, no   *)
(* token.  (A synchronous job that the pool refuses does.)                 *)
RefusedLeavesNothing ==
  [][answer'.status >= 400 /\ answer'.op \notin {"sync", "busy"} =>
       UNCHANGED <<stores, waiting, tokens>>]_vars
===============================================================================
