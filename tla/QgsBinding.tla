----------------------------- MODULE QgsBinding -----------------------------
(* QGIS processing and WPS: the inputs and outputs that describe an algorithm, *)
(* the parameters that the inputs of a request become, the outputs that its    *)
(* results become. Parameters and output definitions are data of QGIS: records *)
(* with a name and a type.                                                     *)
EXTENDS InputValidation

CONSTANTS
  Versions,       \* of a project: the layers (name |-> kind) and whether its CRS is valid
  AsReference,    \* server:outputfile_as_reference
  RawDestination  \* processing:unsafe.raw_destination_input_sink

VectorTypes == {"vector", "source"}
LayerTypes == VectorTypes \cup {"raster", "mesh", "multilayer", "layer"}
DestinationTypes == {"sink", "vectorDestination", "rasterDestination"}
GeometryTypes == {"geometry", "point"}

(* --- QgsProcessingParameterDefinition -> WPSInput --------------------------- *)
(* Defaults of the definition: an optional parameter occurs from zero times.     *)
Input(param, class, type) ==
  [id |-> param.name, class |-> class, type |-> type, allowed |-> AnyValue, uoms |-> <<>>,
   formats |-> <<>>, crs |-> None, min |-> IF param.optional THEN 0 ELSE 1, max |-> 1]
Literal(param, type, allowed) == [Input(param, "literal", type) EXCEPT !.allowed = allowed]

(* A default out of range is replaced by the first option; one that is not an    *)
(* index makes the definition fail.                                             *)
BadDefault(param) == param.type = "enum" /\ param.default = "text"

NumberInput(param) ==
  CASE param.type = "number" -> Literal(param, IF param.integer THEN "integer" ELSE "float", Between("num", param.min, param.max))
    [] param.type = "distance" -> [Literal(param, "length", Between("num", param.min, param.max)) EXCEPT !.uoms = param.uoms]
    [] param.type = "scale" -> Literal(param, "scale", Between("num", param.min, param.max))
    [] param.type = "duration" -> Literal(param, "time", Between("num", param.min, param.max))
    [] OTHER -> Literal(param, "integer", Between("num", 0, None))       \* band

LiteralTypes == {"string", "boolean", "enum", "number", "distance", "scale", "duration", "field", "band"}
LiteralInput(param) ==
  CASE param.type \in {"string", "field"} -> Input(param, "literal", "string")
    [] param.type = "boolean" -> Input(param, "literal", "boolean")
    [] param.type = "enum" -> [Literal(param, "string", OneOf(ToSet(param.options))) EXCEPT
                                 !.max = IF param.multiple THEN Len(param.options) ELSE 1]
    [] OTHER -> NumberInput(param)

(* Without data types of its own a parameter takes those of its class. *)
DataTypes(param) ==
  CASE param.types # {} -> param.types
    [] param.type \in VectorTypes -> {"vector"}
    [] param.type \in {"raster", "mesh"} -> {param.type}
    [] OTHER -> {"layer"}

IsAllowedLayer(kind, types) ==
  CASE kind \in {"point", "line", "polygon"} -> types \cap {kind, "anyvector", "vector", "layer"} # {}
    [] kind \in {"raster", "mesh"} -> types \cap {kind, "layer"} # {}
    [] OTHER -> FALSE
LayersFor(param, ver) ==
  LET layers == Versions[ver].layers IN
  {l \in DOMAIN layers : IsAllowedLayer(layers[l], DataTypes(param))}

(* ver is the version of the project that the context shows, None without one.    *)
LayerInput(param, ver) ==
  LET base == Literal(param, "string", IF ver = None THEN AnyValue ELSE LayerIn(LayersFor(param, ver))) IN
  IF param.type # "multilayer" THEN base
  ELSE [base EXCEPT !.min = param.minimum,
                    !.max = IF ver = None THEN param.minimum ELSE Cardinality(LayersFor(param, ver))]

CrsOf(ver) == IF ver # None /\ Versions[ver].crs # None THEN Versions[ver].crs ELSE "EPSG:4326"
GeometryInput(param, ver) ==
  CASE param.type = "crs" -> Input(param, "literal", "string")
    [] param.type = "extent" -> [Input(param, "bbox", None) EXCEPT !.crs = CrsOf(ver)]
    [] OTHER -> [Input(param, "complex", None) EXCEPT !.formats = <<"geojson", "gml", "wkt">>]

(* A file with an extension of no known type has no format at all. *)
FileInput(param) ==
  IF param.type = "file" /\ ~param.folder
  THEN [Input(param, "complex", None) EXCEPT !.formats = IF param.mime = None THEN <<>> ELSE <<param.mime>>]
  ELSE Input(param, "literal", "string")

FileKinds == {"file", "fileDestination", "folderDestination"}
InputOf(param, ver) ==
  CASE param.type \in LiteralTypes -> LiteralInput(param)
    [] param.type \in LayerTypes -> LayerInput(param, ver)
    [] param.type \in DestinationTypes -> Input(param, "literal", "string")
    [] param.type \in {"crs", "extent"} \cup GeometryTypes -> GeometryInput(param, ver)
    [] param.type \in FileKinds -> FileInput(param)
    [] OTHER -> Literal(param, param.sub, Between("moment", param.min, param.max))     \* datetime

(* A type that is not supported is left out. vers: the project is looked up once   *)
(* for each parameter that depends on it, so that each may show another version.    *)
Described(param) ==
  ~param.hidden /\ param.type \in LiteralTypes \cup LayerTypes \cup DestinationTypes \cup GeometryTypes
                                    \cup FileKinds \cup {"crs", "extent", "datetime"}
InputsOf(params, vers) == [i \in {i \in DOMAIN params : Described(params[i])} |-> InputOf(params[i], vers[i])]
NeedsProject(param) == ~param.hidden /\ param.type \in LayerTypes \cup {"extent"}

(* --- QgsProcessingOutputDefinition -> WPSOutput ------------------------------- *)
LayerOutputs == {"outputVector", "outputRaster", "outputLayer", "outputMultilayers"}
FileOutputs == {"outputHtml", "outputFile"}
LiteralOutputs == {"outputString", "outputNumber", "outputBoolean"}

(* The formats of a file are those of the filters of its destination; pop() with a *)
(* format instead of an index fails when the default one is not the first.         *)
BadFormats(out) == out.type = "outputFile" /\ out.default > 1
FormatsOf(out) == IF out.formats = <<>> THEN <<"octet-stream">> ELSE out.formats
ReferenceOf(out) == IF out.type = "outputFile" /\ out.reference # None THEN out.reference ELSE AsReference
OutputsOf(outs) ==
  [i \in {i \in DOMAIN outs : outs[i].type \in LayerOutputs \cup FileOutputs \cup LiteralOutputs} |-> outs[i]]

(* One parameter that cannot be described stops the description of the algorithm,  *)
(* and of every algorithm loaded with it.                                          *)
Describable(alg) ==
  /\ \A i \in DOMAIN alg.params : ~BadDefault(alg.params[i])
  /\ \A i \in DOMAIN alg.outputs : ~BadFormats(alg.outputs[i])
=============================================================================
