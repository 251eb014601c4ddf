---------------------------- MODULE AlgorithmRun ----------------------------
(* What a worker does with the inputs of a job once it has the project: the     *)
(* parameters it hands to QGIS, the outputs it makes of the results, and the    *)
(* document of the job. A step that raises makes the job fail.                  *)
EXTENDS QgsBinding

CONSTANTS
  LoadOutcomes,    \* of a result layer: "ok", "none" (no such layer) or "error"
  NoSelection      \* nothing was ever selected on a layer

Failed == "failed"
Failure == [status |-> Failed]

(* --- layersio.get_processing_value ------------------------------------------ *)
(* ver is the project of the context, None when its CRS is not valid; sel is    *)
(* the selection that each layer of the cached project carries.                 *)
HasLayer(ver, name) == ver # None /\ name \in DOMAIN Versions[ver].layers
IsVector(ver, name) == Versions[ver].layers[name] \in {"point", "line", "polygon"}

LayerValue(name, selected) == [t |-> "source", layer |-> name, selected |-> selected]
AsksSelection(d) == d.t = "layer" /\ d.prefixed /\ d.select # {}
Expressions(d) == d.select \ {"rect"}

(* A rectangle is handed over as a list of words, which QgsRectangle refuses; a *)
(* layer of another kind keeps the selection it has not. Mutant: a layer keeps   *)
(* the selection it has from an earlier job.                                     *)
SelectedOnce(sel, d) == IF sel[d.name] # NoSelection THEN sel ELSE [sel EXCEPT ![d.name] = CHOOSE e \in Expressions(d) : TRUE]
SelectedBy(sel, d) == [sel EXCEPT ![d.name] = CHOOSE e \in Expressions(d) : TRUE]
ParseLayerSpec(d, ver, sel) ==
  IF ~AsksSelection(d) THEN [status |-> Ok, value |-> LayerValue(LayerName(d), FALSE), sel |-> sel]
  ELSE IF ~HasLayer(ver, d.name) \/ (IsVector(ver, d.name) /\ "rect" \in d.select) THEN Failure
  ELSE [status |-> Ok, value |-> LayerValue(d.name, TRUE),
        sel |-> IF IsVector(ver, d.name) THEN SelectedBy(sel, d) ELSE sel]

(* By default the file has the name of the parameter and the client only names  *)
(* the layer.                                                                   *)
SinkValue(param, d) ==
  [t |-> "sink", file |-> IF RawDestination THEN d.w ELSE param.name, name |-> d.w]

(* --- the other kinds ----------------------------------------------------------- *)
IndexOf(options, d) == CHOOSE i \in DOMAIN options : options[i] = d.w
EnumValue(param, values) ==
  LET read == IF param.multiple THEN DOMAIN values ELSE {Lowest(DOMAIN values)} IN
  [t |-> "index", at |-> [k \in read |-> IndexOf(param.options, values[k])]]

(* openurl lets no byte through: max_bytes is 0 and nobody gives another.       *)
Refused(d) == d.ref # None /\ d.ref # "empty"
BadGeometry(d) == d.ref # None \/ d.data = Word("garbled")

Several(values) == Cardinality(DOMAIN values) > 1
ValueOf(param, values) ==
  LET first == FirstOf(values) IN
  CASE param.type \in LayerTypes /\ Several(values) -> [t |-> "layers", layers |-> {LayerName(values[k]) : k \in DOMAIN values}]
    [] param.type \in LayerTypes /\ ~Several(values) -> LayerValue(LayerName(first), FALSE)
    [] param.type \in DestinationTypes -> SinkValue(param, first)
    [] param.type \in {"fileDestination", "folderDestination"} -> [t |-> "file", file |-> first.w]
    [] param.type = "file" -> [t |-> "file", file |-> param.name]
    [] param.type = "enum" -> EnumValue(param, values)
    [] OTHER -> first

(* What raises: a value that is asked for and is not there, a reference with a  *)
(* content, a file without any (None is not written), a folder (a literal has    *)
(* no download_ref), a geometry that does not parse, a box of less than four     *)
(* numbers, any CRS (its value is compared, not assigned).                       *)
Raises(param, values) ==
  \/ DOMAIN values = {} /\ param.type \notin LiteralTypes \ {"enum"}
  \/ DOMAIN values # {} /\ LET first == FirstOf(values) IN
       \/ param.type = "file" /\ (param.folder \/ Refused(first) \/ first.data = Null)
       \/ param.type \in GeometryTypes /\ BadGeometry(first)
       \/ param.type = "extent" /\ first.n < 4
       \/ param.type = "crs"

(* input_to_processing of one input. Only a feature source takes a selection:   *)
(* any other layer parameter reads the name and drops what follows it.          *)
Converted(param, values, ver, sel) ==
  IF Raises(param, values) THEN Failure
  ELSE IF DOMAIN values # {} /\ param.type = "source" THEN ParseLayerSpec(FirstOf(values), ver, sel)
  ELSE [status |-> Ok, value |-> IF DOMAIN values = {} THEN Null ELSE ValueOf(param, values), sel |-> sel]

(* The inputs are converted in the order of the definitions until one raises;   *)
(* the selections that were made stay made.                                     *)
ParamNamed(params, id) == params[CHOOSE i \in DOMAIN params : params[i].name = id]
With(values, name, v) == [p \in DOMAIN values \cup {name} |-> IF p = name THEN v ELSE values[p]]
ConvertNext(param, inputs, ver, acc) ==
  LET c == Converted(param, inputs[param.name], ver, acc.sel) IN
  IF acc.status = Failed \/ param.name \notin DOMAIN inputs THEN acc
  ELSE IF c.status = Failed THEN [status |-> Failed, values |-> acc.values, sel |-> acc.sel]
  ELSE [status |-> Ok, values |-> With(acc.values, param.name, c.value), sel |-> c.sel]
ConvertAll(params, inputs, ver, sel) ==
  LET after[n \in 0 .. Len(params)] ==
        IF n = 0 THEN [status |-> Ok, values |-> <<>>, sel |-> sel]
        ELSE ConvertNext(params[n], inputs, ver, after[n - 1])
  IN after[Len(params)]

(* --- results -> outputs ------------------------------------------------------ *)
(* A result is what QGIS made for an output: its file and, for a layer, its own  *)
(* name and how it loads. A destination that was not asked for has none, and     *)
(* the outputs are then collected with results[outputName].                      *)
Sinks(values) == {p \in DOMAIN values : values[p].t = "sink"}
HasResult(alg, values, out) ==
  out.name \in {alg.params[i].name : i \in {i \in DOMAIN alg.params : alg.params[i].type \in DestinationTypes}}
    => out.name \in DOMAIN values

(* The name that the layer of a destination gets: a model would name it after    *)
(* its output, so the name that was asked for is put back. Mutant: it is not.     *)
CompletionNameOfModel(alg, values, out) == IF alg.model THEN out.name ELSE values[out.name].name
CompletionName(alg, values, out) == values[out.name].name

(* The layers of an output: destinations are on the list of the layers to load   *)
(* and announced unseen; any other layer is listed once it was loaded.           *)
Listed(values, out, load) == out.name \in Sinks(values) \/ load[out.name] = "ok"
Announced(alg, values, out, load) ==
  IF out.name \in Sinks(values) THEN {CompletionName(alg, values, out)}
  ELSE IF load[out.name] = "ok" THEN {out.name} ELSE {}
(* handle_layer_outputs goes on after a layer that does not load. *)
Published(alg, values, out, load) ==
  IF Listed(values, out, load) /\ load[out.name] = "ok" THEN Announced(alg, values, out, load) ELSE {}

IsLayer(out) == out.type \in LayerOutputs
BadMime(out, mime) == out.type = "outputFile" /\ ~Contains(FormatsOf(out), mime)

CollectionFails(alg, values, mime) ==
  LET outs == OutputsOf(alg.outputs) IN
  \E i \in DOMAIN outs : ~HasResult(alg, values, outs[i]) \/ BadMime(outs[i], mime)

(* --- the document of a job that is done --------------------------------------- *)
(* JSON reads self.schema of a file given by value, which no output has; XML with *)
(* lineage sets an attribute to a unit, and takes the first of no value.          *)
ByValue(out) == out.type \in FileOutputs /\ ~ReferenceOf(out)
DocumentFails(alg, defs, enc, lineage, inputs) ==
  \/ enc = "json" /\ \E i \in DOMAIN alg.outputs : ByValue(alg.outputs[i])
  \/ enc # "json" /\ lineage /\ \E i \in DOMAIN defs :
       defs[i].id \in DOMAIN inputs /\ (DOMAIN inputs[defs[i].id] = {} \/ defs[i].uoms # <<>>)

(* What the document says of each output. *)
OutputDocument(alg, values, load) ==
  LET outs == OutputsOf(alg.outputs) IN
  [name \in {outs[i].name : i \in DOMAIN outs} |->
     LET out == outs[CHOOSE i \in DOMAIN outs : outs[i].name = name] IN
     CASE IsLayer(out) -> [as |-> "map", layers |-> Announced(alg, values, out, load)]
       [] out.type \in FileOutputs -> [as |-> IF ByValue(out) THEN "content" ELSE "store", layers |-> {}]
       [] OTHER -> [as |-> "literal", layers |-> {}]]
PublishedLayers(alg, values, load) ==
  LET outs == OutputsOf(alg.outputs) IN
  UNION {Published(alg, values, outs[i], load) : i \in {i \in DOMAIN outs : IsLayer(outs[i])}}
=============================================================================
