----------------------------- MODULE Execution -----------------------------
(* A request from its MAP and its inputs to the parameters that QGIS gets and  *)
(* the document of the job: the server that keeps descriptions, the process    *)
(* that loads them, the workers that run jobs, each with its own cache of      *)
(* projects, and the project files that change under them.                     *)
EXTENDS AlgorithmRun, ProjectCache

CONSTANTS
  Slots,             \* requests in flight
  Workers,           \* processes of the pool
  Algorithms,        \* identifier -> [params, outputs, model]
  Requests,          \* what clients send
  DescriptionsKept,  \* size of _context_processes
  InitialFiles,      \* place -> [exists, ver, mtime, bad]
  Revisions,         \* bound: version -> the later versions a file may get
  MaxTime            \* bound: of the times of the files

(* A service that came up could describe all its algorithms. QGIS refuses a       *)
(* parameter or an output under a name that is taken, and gives every number the   *)
(* bounds of its type if it has no other.                                         *)
Distinct(list) == \A i, j \in DOMAIN list : list[i].name = list[j].name => i = j
Bounded(param) ==
  /\ {param.min, param.max} \subseteq Int \cup {None} /\ param.minimum \in Nat
  /\ param.type \in {"number", "distance", "scale", "duration"} => {param.min, param.max} \subseteq Int
  /\ param.sub \in {"date", "time", "dateTime"}
ASSUME AlgorithmsAssumption ==
  \A id \in DOMAIN Algorithms : LET alg == Algorithms[id] IN
    /\ Describable(alg) /\ Distinct(alg.params) /\ Distinct(alg.outputs)
    /\ alg.params \in Seq(ToSet(alg.params)) /\ \A p \in ToSet(alg.params) : Bounded(p)

(* A request names a process at least; only XML has references, in elements of     *)
(* their own.                                                                     *)
Datum(d) ==
  /\ d.t = "word" => d = Word(d.w)
  /\ d.t = "num" => d = [t |-> "num", n |-> d.n] /\ d.n \in Int
ASSUME RequestsAssumption ==
  \A r \in Requests :
    /\ r.idents \in Seq(ToSet(r.idents)) /\ r.idents # <<>>
    /\ r.items \in Seq(ToSet(r.items))
    /\ \A item \in ToSet(r.items) :
          Datum(item.data) /\ (item.form = "reference" => r.enc = "xml")
ASSUME KeptAssumption == DescriptionsKept \in Nat \ {0}

(* What a place holds, and the versions, of which the empty project is the first. *)
FileState == [exists : BOOLEAN, ver : DOMAIN Revisions, mtime : Nat, bad : BOOLEAN]
ASSUME VersionsAssumption ==
  /\ DOMAIN Versions \subseteq Nat /\ 0 \in DOMAIN Versions
  /\ \A v \in DOMAIN Versions : Versions[v].bad \in BOOLEAN
ASSUME RevisionsAssumption ==
  /\ DOMAIN Revisions \subseteq DOMAIN Versions \ {0}
  /\ \A v \in DOMAIN Revisions : \A x \in Revisions[v] : x \in DOMAIN Revisions /\ x > v
ASSUME FilesAssumption == MaxTime \in Nat /\ InitialFiles \in [DOMAIN InitialFiles -> FileState]

VARIABLES
  file,     \* place -> [exists, ver, mtime, bad]
  ctx,      \* server: descriptions by <<map, identifier>>, least recently used first
  asked,    \* server: the request that waits for the loader, and how far it is
  loader,   \* loader: cache of projects
  worker,   \* worker -> its cache of projects
  job,      \* slot -> the request and its progress
  seen      \* history: place -> [peak, fresh]

vars == <<file, ctx, asked, loader, worker, job, seen>>

Places == DOMAIN InitialFiles
Idle == [pc |-> "idle"]
NoSelections == [l \in UNION {DOMAIN Versions[v].layers : v \in DOMAIN Versions} |-> NoSelection]

(* The history of a file: its highest time so far, and whether its content has  *)
(* a time above every earlier one.                                              *)
Init ==
  /\ file = InitialFiles
  /\ ctx = <<>> /\ asked = Absent /\ loader = <<>>
  /\ worker = [w \in Workers |-> <<>>]
  /\ job = [s \in Slots |-> Idle]
  /\ seen = [p \in Places |-> [peak |-> InitialFiles[p].mtime, fresh |-> TRUE]]

(* --- the files: external ------------------------------------------------------ *)
(* A new content comes with any time: a copy may keep the time of its original.  *)
Save(p, v, t) ==
  /\ file' = [file EXCEPT ![p] = [exists |-> TRUE, ver |-> v, mtime |-> t, bad |-> Versions[v].bad]]
  /\ seen' = [seen EXCEPT ![p].fresh = t > seen[p].peak, ![p].peak = IF t > @ THEN t ELSE @]
  /\ UNCHANGED <<ctx, asked, loader, worker, job>>

Vanish(p) ==
  /\ file[p].exists
  /\ file' = [file EXCEPT ![p].exists = FALSE]
  /\ UNCHANGED <<ctx, asked, loader, worker, job, seen>>

(* --- the server ----------------------------------------------------------------- *)
(* Without MAP the descriptions of the start are used, else those of the project. *)
Params(id) == Algorithms[id].params
StartVers(id) == [i \in DOMAIN Params(id) |-> None]
CtxKeys(r) == {<<r.map, r.idents[i]>> : i \in DOMAIN r.idents}
InCtx(r) == \A k \in CtxKeys(r) : At(ctx, k) # {}

(* Several identifiers move to the end of the cache in their order. *)
UsedCtx(r) ==
  LET after[n \in 0 .. Len(r.idents)] ==
        IF n = 0 THEN ctx ELSE Touched(after[n - 1], <<r.map, r.idents[n]>>)
  IN after[Len(r.idents)]
Description(r, found, n) == [key |-> <<r.map, r.idents[n]>>, vers |-> found[r.idents[n]]]
PutCtx(r, found) ==
  LET after[n \in 0 .. Len(r.idents)] ==
        IF n = 0 THEN ctx ELSE Put(after[n - 1], Description(r, found, n), DescriptionsKept)
  IN after[Len(r.idents)]

(* What the descriptions lead to: a document, an error, or a job. *)
Inputs(r, vers) == Validate(r.enc, r.items, InputsOf(Params(r.idents[1]), vers))
Answered(r, found) ==
  LET vers == found[r.idents[1]]
      v == Inputs(r, vers)
  IN IF r.kind = "describe" THEN [pc |-> "described"]
     ELSE IF IsOk(v) THEN [pc |-> "accepted", req |-> r, vers |-> vers]
     ELSE [pc |-> IF v.status = Invalid THEN "refused" ELSE "crashed", req |-> r, vers |-> vers]

Known(r) == ToSet(r.idents) \subseteq DOMAIN Algorithms

(* The request that needs descriptions keeps the server, which does nothing else *)
(* until the loader answers. It looks the project up once for each parameter that *)
(* depends on it: todo has the places of these, identifiers first.               *)
Lookups(r) ==
  UNION {{<<j, i>> : i \in {i \in DOMAIN Params(r.idents[j]) : NeedsProject(Params(r.idents[j])[i])}} :
           j \in DOMAIN r.idents}
NotAfter(l, m) == l[1] < m[1] \/ (l[1] = m[1] /\ l[2] <= m[2])

Question ==
  [slot : Slots, todo : SUBSET (Nat \X Nat), stat : {Absent} \cup FileState,
   found : UNION {[ids -> Seq({None} \cup DOMAIN Versions)] : ids \in SUBSET DOMAIN Algorithms}]
ASSUME AbsentAssumption == Absent \notin Question

Receive(s, r) ==
  /\ asked = Absent /\ job[s] = Idle
  /\ CASE ~Known(r) ->
            /\ job' = [job EXCEPT ![s] = [pc |-> "refused"]]
            /\ UNCHANGED <<ctx, asked>>
       [] Known(r) /\ r.map = Absent ->
            /\ job' = [job EXCEPT ![s] = Answered(r, [id \in DOMAIN Algorithms |-> StartVers(id)])]
            /\ UNCHANGED <<ctx, asked>>
       [] Known(r) /\ r.map # Absent /\ InCtx(r) ->
            /\ ctx' = UsedCtx(r)
            /\ job' = [job EXCEPT ![s] = Answered(r, [id \in ToSet(r.idents) |-> Peek(ctx, <<r.map, id>>).vers])]
            /\ UNCHANGED asked
       [] OTHER ->
            /\ job' = [job EXCEPT ![s] = [pc |-> "waiting", req |-> r]]
            /\ asked' = [slot |-> s, todo |-> Lookups(r), stat |-> Absent,
                         found |-> [id \in ToSet(r.idents) |-> StartVers(id)]]
            /\ UNCHANGED ctx
  /\ UNCHANGED <<file, loader, worker, seen>>

(* The client has its answer, or the job is over. *)
Over == {"described", "refused", "crashed", "failed", "done"}
Close(s) ==
  /\ job[s].pc \in Over
  /\ job' = [job EXCEPT ![s] = Idle]
  /\ UNCHANGED <<file, ctx, asked, loader, worker, seen>>

(* --- the loader ----------------------------------------------------------------- *)
(* A failure puts an empty list: a description of nothing, or an IndexError.      *)
LoaderGivesUp ==
  LET s == asked.slot IN
  /\ job' = [job EXCEPT ![s] = [pc |-> IF job[s].req.kind = "describe" THEN "described" ELSE "crashed"]]
  /\ asked' = Absent

Key(r) == r.map
PlaceOf(r) == ResolveAlias(r.map)
Recorded(v) ==
  LET l == CHOOSE l \in asked.todo : \A m \in asked.todo : NotAfter(l, m)
      id == job[asked.slot].req.idents[l[1]]
  IN [slot |-> asked.slot, todo |-> asked.todo \ {l}, stat |-> Absent,
      found |-> [asked.found EXCEPT ![id][l[2]] = v]]

(* Each lookup first asks for the time of the file, then reads it if it must. *)
LoaderStats ==
  /\ asked # Absent /\ asked.todo # {} /\ asked.stat = Absent
  /\ LET r == job[asked.slot].req IN
     IF LookupError(r.map, file) # Absent
     THEN LoaderGivesUp /\ UNCHANGED loader
     ELSE LET f == file[PlaceOf(r)] IN
          IF Outdated(loader, Key(r), f.mtime)
          THEN asked' = [asked EXCEPT !.stat = f] /\ UNCHANGED <<job, loader>>
          ELSE /\ loader' = Put(loader, Peek(loader, Key(r)), Capacity)
               /\ asked' = Recorded(Peek(loader, Key(r)).ver)
               /\ UNCHANGED job
  /\ UNCHANGED <<file, ctx, worker, seen>>

LoaderReads ==
  /\ asked # Absent /\ asked.stat # Absent
  /\ LET r == job[asked.slot].req
         f == file[PlaceOf(r)]
         e == Entry(Key(r), asked.stat, f, NoSelections)
     IN IF BadLayersRefused(f)
        THEN LoaderGivesUp /\ UNCHANGED loader
        ELSE loader' = Put(loader, e, Capacity) /\ asked' = Recorded(e.ver) /\ UNCHANGED job
  /\ UNCHANGED <<file, ctx, worker, seen>>

(* The descriptions come back: the server keeps them and goes on. *)
LoaderAnswers ==
  /\ asked # Absent /\ asked.todo = {}
  /\ LET s == asked.slot IN
     /\ ctx' = PutCtx(job[s].req, asked.found)
     /\ job' = [job EXCEPT ![s] = Answered(job[s].req, asked.found)]
  /\ asked' = Absent
  /\ UNCHANGED <<file, loader, worker, seen>>

(* --- reload and restart ------------------------------------------------------------ *)
(* The loader starts again; the descriptions are dropped when it comes up. *)
Reload(ok) ==
  /\ asked = Absent
  /\ loader' = <<>>
  /\ ctx' = IF ok THEN <<>> ELSE ctx
  /\ UNCHANGED <<file, asked, worker, job, seen>>

Busy == {"reading", "ready", "converted", "ran"}
Running(w) == \E s \in Slots : job[s].pc \in Busy /\ job[s].worker = w

(* Another process takes the place of a worker: it exits after maxcycles jobs, or *)
(* is restarted with the pool.                                                    *)
WorkerRestarts(w) ==
  /\ ~Running(w) /\ worker[w] # <<>>
  /\ worker' = [worker EXCEPT ![w] = <<>>]
  /\ UNCHANGED <<file, ctx, asked, loader, job, seen>>

(* --- a worker runs the job ------------------------------------------------------- *)
Fails(s) == job' = [job EXCEPT ![s] = [pc |-> "failed"]]

(* The project of the context: the empty context without MAP. History: floor is   *)
(* the version that the file had when the worker asked for its time, if that time  *)
(* told it from the earlier ones.                                                  *)
FloorOf(r) == IF seen[PlaceOf(r)].fresh THEN file[PlaceOf(r)].ver ELSE 0
Ready(s, w, ver, floor) ==
  job' = [job EXCEPT ![s] = [pc |-> "ready", req |-> @.req, vers |-> @.vers, worker |-> w, ver |-> ver, floor |-> floor]]

StartJob(s, w) ==
  /\ job[s].pc = "accepted" /\ ~Running(w)
  /\ LET r == job[s].req IN
     CASE r.map = Absent -> Ready(s, w, None, 0) /\ UNCHANGED worker
       [] r.map # Absent /\ LookupError(r.map, file) # Absent -> Fails(s) /\ UNCHANGED worker
       [] OTHER ->
            LET f == file[PlaceOf(r)] IN
            IF Outdated(worker[w], Key(r), f.mtime)
            THEN /\ job' = [job EXCEPT ![s] = [pc |-> "reading", req |-> r, vers |-> @.vers, worker |-> w,
                               stat |-> f, floor |-> FloorOf(r)]]
                 /\ UNCHANGED worker
            ELSE /\ Ready(s, w, Peek(worker[w], Key(r)).ver, FloorOf(r))
                 /\ worker' = [worker EXCEPT ![w] = Put(@, Peek(@, Key(r)), Capacity)]
  /\ UNCHANGED <<file, ctx, asked, loader, seen>>

ReadProject(s) ==
  /\ job[s].pc = "reading"
  /\ LET r == job[s].req
         w == job[s].worker
         f == file[PlaceOf(r)]
         e == Entry(Key(r), job[s].stat, f, NoSelections)
     IN IF BadLayersRefused(f)
        THEN Fails(s) /\ UNCHANGED worker
        ELSE Ready(s, w, e.ver, job[s].floor) /\ worker' = [worker EXCEPT ![w] = Put(@, e, Capacity)]
  /\ UNCHANGED <<file, ctx, asked, loader, seen>>

(* A project without a valid CRS is not set in the context: no layer is found.   *)
View(ver) == IF ver = None \/ Versions[ver].crs = None THEN None ELSE ver
CachedSelection(s) ==
  IF job[s].ver = None THEN NoSelections ELSE Peek(worker[job[s].worker], Key(job[s].req)).sel
Given(s) == Inputs(job[s].req, job[s].vers).value
AlgOf(s) == Algorithms[job[s].req.idents[1]]

(* The selections are made in the project of the cache, where the next job that   *)
(* uses it finds them.                                                            *)
ConvertInputs(s) ==
  /\ job[s].pc = "ready"
  /\ LET w == job[s].worker
         c == ConvertAll(AlgOf(s).params, Given(s), View(job[s].ver), CachedSelection(s))
     IN /\ worker' = IF job[s].ver = None THEN worker
                     ELSE [worker EXCEPT ![w] = [@ EXCEPT ![Len(worker[w])].sel = c.sel]]
        /\ IF c.status = Failed THEN Fails(s)
           ELSE job' = [job EXCEPT ![s] = [pc |-> "converted", req |-> @.req, vers |-> @.vers, worker |-> w,
                          ver |-> @.ver, floor |-> @.floor, values |-> c.values, sel |-> c.sel]]
  /\ UNCHANGED <<file, ctx, asked, loader, seen>>

(* The algorithm is external: it refuses its parameters, raises, or gives a file  *)
(* for each output and layers that will load or not.                              *)
LayerNames(s) == {AlgOf(s).outputs[i].name : i \in {i \in DOMAIN AlgOf(s).outputs : IsLayer(AlgOf(s).outputs[i])}}
RunAlgorithm(s) ==
  /\ job[s].pc = "converted"
  /\ \/ Fails(s)
     \/ \E load \in [LayerNames(s) -> LoadOutcomes], mime \in ToSet(AlgOf(s).mimes) :
          IF CollectionFails(AlgOf(s), job[s].values, mime) THEN Fails(s)
          ELSE job' = [job EXCEPT ![s] = [pc |-> "ran", req |-> @.req, vers |-> @.vers, worker |-> @.worker,
                         values |-> @.values, load |-> load]]
  /\ UNCHANGED <<file, ctx, asked, loader, worker, seen>>

(* The destination project is written and the job is done, unless its document   *)
(* cannot be made.                                                               *)
Finish(s, written) ==
  /\ job[s].pc = "ran"
  /\ LET r == job[s].req
         defs == InputsOf(AlgOf(s).params, job[s].vers)
     IN IF ~written \/ DocumentFails(AlgOf(s), defs, r.enc, r.lineage, Given(s)) THEN Fails(s)
        ELSE job' = [job EXCEPT ![s] = [pc |-> "done", req |-> r, vers |-> @.vers, values |-> @.values, load |-> @.load,
                       document |-> OutputDocument(AlgOf(s), @.values, @.load),
                       published |-> PublishedLayers(AlgOf(s), @.values, @.load)]]
  /\ UNCHANGED <<file, ctx, asked, loader, worker, seen>>

Next ==
  \/ \E p \in Places : Vanish(p) \/ \E v \in Revisions[file[p].ver], t \in 1 .. MaxTime : Save(p, v, t)
  \/ \E s \in Slots, r \in Requests : Receive(s, r)
  \/ LoaderStats \/ LoaderReads \/ LoaderAnswers
  \/ \E ok \in BOOLEAN : Reload(ok)
  \/ \E w \in Workers : WorkerRestarts(w) \/ \E s \in Slots : StartJob(s, w)
  \/ \E s \in Slots : ReadProject(s) \/ ConvertInputs(s) \/ RunAlgorithm(s) \/ Close(s)
  \/ \E s \in Slots, written \in BOOLEAN : Finish(s, written)

Spec == Init /\ [][Next]_vars

-----------------------------------------------------------------------------
(* The caches keep their size and one entry for each key, and the server waits   *)
(* for at most one answer of the loader.                                         *)
TypeOK ==
  /\ CacheOK(ctx, DescriptionsKept) /\ CacheOK(loader, Capacity)
  /\ \A w \in Workers : CacheOK(worker[w], Capacity)
  /\ \A s \in Slots : job[s].pc = "waiting" <=> asked # Absent /\ asked.slot = s
  /\ \A s, t \in Slots : job[s].pc \in Busy /\ job[t].pc \in Busy /\ job[s].worker = job[t].worker => s = t

(* Cached projects and edited files (file_handler): a job runs with the version    *)
(* that its file had when the worker looked at it, or a later one, or with the     *)
(* empty project of a file that vanished under its eyes, provided that the time of *)
(* the file told that version from the ones before.                                *)
JobsUseCurrentProject ==
  \A s \in Slots : job[s].pc = "ready" /\ job[s].ver \notin {None, 0} => job[s].ver >= job[s].floor

(* Selections stay in the cached project from one job to the next (parse_layer_spec): *)
(* still, a source that asks for the selected features of a layer reads a selection    *)
(* that a source of its own request made on that layer; what a plain layer parameter   *)
(* says of features selects none.                                                      *)
Sources(r) == {p.name : p \in {p \in ToSet(Params(r.idents[1])) : p.type = "source"}}
AskedBy(r, layer) ==
  UNION {Expressions(r.items[i].data) : i \in {i \in DOMAIN r.items :
           r.items[i].id \in Sources(r) /\ r.items[i].data.t = "layer" /\ r.items[i].data.name = layer}}
SelectionIsOwn ==
  \A s \in Slots : job[s].pc = "converted" =>
    \A p \in DOMAIN job[s].values :
      LET v == job[s].values[p] IN
      v.t = "source" /\ v.selected /\ IsVector(job[s].ver, v.layer) =>
        job[s].sel[v.layer] \in AskedBy(job[s].req, v.layer)

(* What the client sent through text, XML or JSON and two validations reaches QGIS   *)
(* within the definition of its parameter: numbers within the bounds and whole where  *)
(* they must be, enumerations by the index of a value that was asked for.             *)
Said(item) == IF item.form = "reference" THEN Null ELSE item.data
Conforms(param, v, r) ==
  CASE v.t = "num" /\ param.type \in {"number", "distance", "scale"} ->
         /\ param.min # None => param.min <= v.n
         /\ param.max # None => v.n <= param.max
         /\ param.type = "number" /\ param.integer => v.n % 2 = 0
    [] v.t = "num" /\ param.type = "band" -> v.n >= 0 /\ v.n % 2 = 0
    [] v.t = "index" -> \A j \in DOMAIN v.at : \E i \in DOMAIN r.items :
         r.items[i].id = param.name /\ Text(Said(r.items[i])) = Word(param.options[v.at[j]])
    [] OTHER -> TRUE
ParametersConform ==
  \A s \in Slots : job[s].pc = "converted" =>
    \A p \in DOMAIN job[s].values : Conforms(ParamNamed(AlgOf(s).params, p), job[s].values[p], job[s].req)

(* The schema that the OGC API publishes and the validation of a request are written *)
(* twice (AllowedValues.ogcapi_schema, literalvalidator): a document with literals    *)
(* within the schema of the same descriptions is not refused.                         *)
DescribedIsAccepted ==
  \A s \in Slots : job[s].pc \in {"refused", "crashed"} /\ "req" \in DOMAIN job[s] /\ job[s].req.enc = "json" =>
    ~AsDescribed(job[s].req.items, InputsOf(Params(job[s].req.idents[1]), job[s].vers))

(* A job that is done announces each destination under the name that was asked for,   *)
(* for models too, and the project it leaves has that layer unless it did not load;   *)
(* it has no layer that nothing announces.                                            *)
LayersNamedAsAsked ==
  \A s \in Slots : job[s].pc = "done" =>
    LET outs == OutputsOf(AlgOf(s).outputs)
        layers == {i \in DOMAIN outs : IsLayer(outs[i])}
        announced == UNION {job[s].document[outs[i].name].layers : i \in layers}
        lost == {i \in layers : job[s].load[outs[i].name] # "ok"}
    IN /\ \A i \in layers : outs[i].name \in Sinks(job[s].values) =>
            \E k \in DOMAIN job[s].req.items :
              /\ job[s].req.items[k].id = outs[i].name
              /\ job[s].document[outs[i].name].layers = {Text(Said(job[s].req.items[k])).w}
       /\ job[s].published \subseteq announced
       /\ announced \subseteq job[s].published \cup UNION {job[s].document[outs[i].name].layers : i \in lost}
=============================================================================
