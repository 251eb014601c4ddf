----------------------- MODULE ExecutionValues_proofs -----------------------
(* Proofs about what becomes of the inputs of a request, for any algorithms,    *)
(* requests and projects: their validation, their conversion for QGIS, and the  *)
(* document of the job.                                                        *)
EXTENDS Execution_proofs, FiniteSetTheorems

-----------------------------------------------------------------------------
(* Lists and verdicts *)

(* Places are numbers: there is a lowest one.                                    *)
LEMMA LowestPlace ==
  ASSUME NEW S \in SUBSET Nat, S # {}
  PROVE  Lowest(S) \in S /\ \A j \in S : Lowest(S) <= j
BY LeastOf DEF Lowest

(* No verdict is bad if the first bad one is none.                               *)
LEMMA AllOk ==
  ASSUME NEW vs, DOMAIN vs \subseteq Nat
  PROVE  FirstBad(vs) = Ok <=> \A i \in DOMAIN vs : vs[i].status = Ok
<1> DEFINE bad == {i \in DOMAIN vs : ~IsOk(vs[i])}
<1>1. CASE bad = {}
  BY <1>1 DEF FirstBad, IsOk
<1>2. CASE bad # {}
  <2>1. bad \in SUBSET Nat
    OBVIOUS
  <2>2. Lowest(bad) \in bad
    <3> HIDE DEF bad
    <3> QED BY <1>2, <2>1, LowestPlace
  <2>3. FirstBad(vs) = vs[Lowest(bad)].status
    BY <1>2 DEF FirstBad
  <2> QED BY <1>2, <2>2, <2>3 DEF IsOk
<1> QED BY <1>1, <1>2

(* What a datum is read as, where a text is wanted.                              *)
LEMMA TextIs ==
  ASSUME NEW d, Datum(d)
  PROVE  /\ Text(d).t \in {"word", "layer"} /\ Datum(Text(d)) /\ Text(Text(d)) = Text(d)
         /\ d.t \in {"word", "layer"} => Text(d) = d
         /\ Text(d).t = "layer" => Text(d) = d
<1>1. \A x : x.t \in {"word", "layer"} => Text(x) = x
  BY Zenon DEF Text
<1>2. \A w : Word(w).t = "word" /\ Datum(Word(w)) /\ Text(Word(w)) = Word(w)
  BY <1>1 DEF Datum, Word
<1>3. CASE d.t \in {"word", "layer"}
  BY <1>1, <1>3
<1>4. CASE d.t \notin {"word", "layer"}
  <2>1. CASE d.t \in {"num", "moment", "zoned"}
    <3>1. Text(d) = Word(Written(d.n))
      BY <2>1 DEF Text
    <3> QED BY <1>2, <1>4, <3>1
  <2>2. CASE d.t = "null"
    <3>1. Text(d) = Word("None")
      BY <2>2 DEF Text
    <3> QED BY <1>2, <1>4, <3>1
  <2>3. CASE d.t \notin {"num", "moment", "zoned", "null"}
    <3>1. Text(d) = Word(d.t)
      BY <1>4, <2>3, Zenon DEF Text
    <3> QED BY <1>2, <1>4, <3>1
  <2> QED BY <2>1, <2>2, <2>3
<1> QED BY <1>3, <1>4

-----------------------------------------------------------------------------
(* Definitions *)

(* What a literal input is compared with.                                        *)
NumberIn(param) == Between("num", param.min, param.max)
LiteralShape(def) ==
  \/ def.type = "string" /\ def.allowed.kind \in {"any", "value", "layer"}
  \/ def.type = "boolean" /\ def.allowed.kind = "any"
  \/ /\ def.type \in {"integer", "float", "length", "scale"}
     /\ \E min, max \in Int \cup {None} : def.allowed = Between("num", min, max)
  \/ def.type \in {"date", "time", "dateTime"}

(* The input of a literal parameter has its bounds, or its options.               *)
LEMMA LiteralInputIs ==
  ASSUME NEW param, Bounded(param), param.type \in LiteralTypes
  PROVE  LET def == LiteralInput(param) IN
         /\ def.id = param.name /\ def.class = "literal" /\ def.min \in {0, 1} /\ LiteralShape(def)
         /\ param.type \in {"number", "distance", "scale"} =>
              def.type \in {"integer", "float", "length", "scale"} /\ def.allowed = NumberIn(param)
         /\ param.type = "number" /\ param.integer => def.type = "integer"
         /\ param.type = "band" => def.type = "integer" /\ def.allowed = Between("num", 0, None)
         /\ param.type = "enum" => def.type = "string" /\ def.allowed = OneOf(ToSet(param.options))
<1> USE DEF LiteralInput, NumberInput, Literal, Input, Between, NumberIn, LiteralShape, AnyValue, OneOf, Bounded
<1>1. CASE param.type \in {"string", "field"}
  BY <1>1
<1>2. CASE param.type = "boolean"
  BY <1>2
<1>3. CASE param.type = "enum"
  BY <1>3
<1>4. CASE param.type = "number"
  BY <1>4
<1>5. CASE param.type = "distance"
  BY <1>5
<1>6. CASE param.type = "scale"
  BY <1>6
<1>7. CASE param.type = "duration"
  BY <1>7
<1>8. CASE param.type = "band"
  <2>1. LiteralInput(param) = Literal(param, "integer", Between("num", 0, None))
    BY <1>8
  <2>2. Between("num", 0, None) = Between("num", 0, None) /\ 0 \in Int
    OBVIOUS
  <2> QED BY <1>8, <2>1, <2>2
<1> QED BY <1>1, <1>2, <1>3, <1>4, <1>5, <1>6, <1>7, <1>8 DEF LiteralTypes

(* The kinds of parameters have no type in common.                               *)
LEMMA KindsApart ==
  ASSUME NEW type
  PROVE  /\ type \in LiteralTypes => type \notin LayerTypes
         /\ type \in LiteralTypes \cup LayerTypes => type \notin DestinationTypes
         /\ type \in LiteralTypes \cup LayerTypes \cup DestinationTypes => type \notin {"crs", "extent"} \cup GeometryTypes
         /\ type \in LiteralTypes \cup LayerTypes \cup DestinationTypes \cup ({"crs", "extent"} \cup GeometryTypes)
              => type \notin FileKinds
         /\ type \in LiteralTypes \cup LayerTypes \cup DestinationTypes \cup ({"crs", "extent"} \cup GeometryTypes)
                     \cup FileKinds => type # "datetime"
BY DEF LiteralTypes, LayerTypes, VectorTypes, DestinationTypes, GeometryTypes, FileKinds

(* The arms of InputOf, by the type of the parameter.                             *)
LEMMA InputKinds ==
  ASSUME NEW param, NEW ver
  PROVE  LET type == param.type
             def == InputOf(param, ver) IN
         /\ type \in LiteralTypes => def = LiteralInput(param)
         /\ type \in LayerTypes => def = LayerInput(param, ver)
         /\ type \in DestinationTypes => def = Input(param, "literal", "string")
         /\ type \in {"crs", "extent"} \cup GeometryTypes => def = GeometryInput(param, ver)
         /\ type \in FileKinds => def = FileInput(param)
         /\ type = "datetime" => def = Literal(param, param.sub, Between("moment", param.min, param.max))
BY KindsApart, Zenon DEF InputOf

(* Other inputs: of which class and with what type.                              *)
LEMMA InputIs ==
  ASSUME NEW param, Bounded(param), Described(param), NEW ver
  PROVE  LET def == InputOf(param, ver) IN
         /\ def.id = param.name /\ def.class \in {"literal", "complex", "bbox"} /\ def.min \in Nat
         /\ def.class = "literal" => LiteralShape(def)
         /\ param.type \in LiteralTypes => def = LiteralInput(param)
         /\ param.type \in LayerTypes \cup DestinationTypes \cup LiteralTypes => def.class = "literal"
         /\ param.type \in LayerTypes \cup DestinationTypes => def.type = "string"
<1> DEFINE def == InputOf(param, ver)
<1> USE DEF Literal, Input, LiteralShape, AnyValue, Bounded
<1>1. CASE param.type \in LiteralTypes
  <2>1. def = LiteralInput(param)
    BY <1>1, InputKinds, Zenon
  <2>2. param.type \notin LayerTypes \cup DestinationTypes
    BY <1>1 DEF LiteralTypes, LayerTypes, VectorTypes, DestinationTypes
  <2>3. 0 \in Nat /\ 1 \in Nat
    OBVIOUS
  <2> HIDE DEF LiteralShape, Literal, Input
  <2> QED BY <1>1, <2>1, <2>2, <2>3, LiteralInputIs
<1>2. CASE param.type \in LayerTypes
  <2>1. def = LayerInput(param, ver)
    BY <1>2, InputKinds, Zenon
  <2>2. CASE param.type = "multilayer"
    <3> DEFINE allowed == IF ver = None THEN AnyValue ELSE LayerIn(LayersFor(param, ver))
               most == IF ver = None THEN param.minimum ELSE Cardinality(LayersFor(param, ver))
    <3>1. allowed.kind \in {"any", "layer"}
      BY DEF LayerIn
    <3>2. def = [Literal(param, "string", allowed) EXCEPT !.min = param.minimum, !.max = most]
      <4> HIDE DEF def, Literal, AnyValue
      <4> QED BY <2>1, <2>2 DEF LayerInput
    <3> HIDE DEF def, allowed, most
    <3>3. /\ def.id = param.name /\ def.class = "literal" /\ def.type = "string" /\ def.allowed = allowed
          /\ def.min = param.minimum
      BY <3>2
    <3>4. param.type \notin LiteralTypes
      BY <2>2 DEF LiteralTypes
    <3> QED BY <2>2, <3>1, <3>3, <3>4 DEF def
  <2>3. CASE param.type # "multilayer"
    <3>1. def = Literal(param, "string", IF ver = None THEN AnyValue ELSE LayerIn(LayersFor(param, ver)))
      BY <2>1, <2>3 DEF LayerInput
    <3> QED BY <1>2, <3>1 DEF LayerIn, LayerTypes, VectorTypes, LiteralTypes, DestinationTypes
  <2> QED BY <2>2, <2>3
<1>3. CASE param.type \in DestinationTypes
  <2>1. def = Input(param, "literal", "string")
    BY <1>3, InputKinds, Zenon
  <2> QED BY <1>3, <2>1 DEF DestinationTypes, LiteralTypes
<1>4. CASE param.type \in {"crs", "extent"} \cup GeometryTypes
  <2>1. def = GeometryInput(param, ver)
    BY <1>4, InputKinds, Zenon
  <2>2. param.type \notin LiteralTypes \cup LayerTypes \cup DestinationTypes
    BY <1>4 DEF GeometryTypes, DestinationTypes, LiteralTypes, LayerTypes, VectorTypes
  <2>3. /\ def.id = param.name /\ def.class \in {"literal", "complex", "bbox"} /\ def.min \in Nat
        /\ def.class = "literal" => LiteralShape(def)
    <3>1. CASE param.type = "crs"
      BY <2>1, <3>1 DEF GeometryInput
    <3>2. CASE param.type = "extent"
      BY <2>1, <3>2 DEF GeometryInput
    <3>3. CASE param.type \notin {"crs", "extent"}
      BY <2>1, <3>3 DEF GeometryInput
    <3> QED BY <3>1, <3>2, <3>3
  <2> QED BY <2>2, <2>3
<1>5. CASE param.type \in FileKinds
  <2>1. def = FileInput(param)
    BY <1>5, InputKinds, Zenon
  <2>2. param.type \notin LiteralTypes \cup LayerTypes \cup DestinationTypes
    BY <1>5 DEF FileKinds, DestinationTypes, LiteralTypes, LayerTypes, VectorTypes
  <2>3. /\ def.id = param.name /\ def.class \in {"literal", "complex", "bbox"} /\ def.min \in Nat
        /\ def.class = "literal" => LiteralShape(def)
    <3>1. CASE param.type = "file" /\ ~param.folder
      BY <2>1, <3>1 DEF FileInput
    <3>2. CASE ~(param.type = "file" /\ ~param.folder)
      BY <2>1, <3>2 DEF FileInput
    <3> QED BY <3>1, <3>2
  <2> QED BY <2>2, <2>3
<1>6. CASE param.type = "datetime"
  <2>1. def = Literal(param, param.sub, Between("moment", param.min, param.max))
    BY <1>6, InputKinds, Zenon
  <2>2. param.type \notin LiteralTypes \cup LayerTypes \cup DestinationTypes
    BY <1>6 DEF DestinationTypes, LiteralTypes, LayerTypes, VectorTypes
  <2> QED BY <2>1, <2>2
<1> QED BY <1>1, <1>2, <1>3, <1>4, <1>5, <1>6 DEF Described
-----------------------------------------------------------------------------
(* Literals *)

(* The types whose values may have a fraction.                                   *)
NumberTypes == {"float", "length", "scale"}
(* What the conversion of a datum gives, by the type that is wanted.            *)
LEMMA ConvertArms ==
  ASSUME NEW type, NEW d
  PROVE  /\ type = "string" => Convert(type, d) = Verdict(Ok, Text(d))
         /\ type = "boolean" => Convert(type, d) = Verdict(Ok, [t |-> "bool", b |-> ~IsFalse(d)])
         /\ type \in NumberTypes \cup {"integer"} /\ d.t \in {"null", "coords"} => Convert(type, d) = Verdict(Fatal, None)
         /\ type \in NumberTypes /\ d.t \in {"num", "bool", "inf", "nan"} => Convert(type, d) = Verdict(Ok, AsNumber(d))
         /\ type = "integer" /\ d.t \in {"num", "bool"} => Convert(type, d) = Verdict(Ok, [AsNumber(d) EXCEPT !.n = Whole(@)])
         /\ type = "integer" /\ d.t = "inf" => Convert(type, d) = Verdict(Fatal, None)
         /\ type = "dateTime" /\ d.t = "zoned" => Convert(type, d) = Verdict(Ok, d)
         /\ type \in {"date", "time", "dateTime"} /\ d.t \in {"moment", "num", "zoned"} /\ ~(type = "dateTime" /\ d.t = "zoned") =>
              Convert(type, d) = Verdict(Ok, [t |-> "moment", n |-> d.n])
<1>1. CASE type = "string"
  BY <1>1, Zenon DEF Convert, NumberTypes
<1>2. CASE type = "boolean"
  BY <1>2, Zenon DEF Convert, NumberTypes
<1>3. CASE type \in NumberTypes
  <2>1. CASE d.t \in {"null", "coords"}
    BY <1>3, <2>1, Zenon DEF Convert, NumberTypes
  <2>2. CASE d.t \in {"num", "bool", "inf", "nan"}
    BY <1>3, <2>2, Zenon DEF Convert, NumberTypes
  <2> QED BY <1>3, <2>1, <2>2 DEF NumberTypes
<1>4. CASE type = "integer"
  <2>1. CASE d.t \in {"null", "coords"}
    BY <1>4, <2>1, Zenon DEF Convert, NumberTypes
  <2>2. CASE d.t \in {"num", "bool"}
    BY <1>4, <2>2, Zenon DEF Convert, NumberTypes
  <2>3. CASE d.t = "inf"
    BY <1>4, <2>3, Zenon DEF Convert, NumberTypes
  <2> QED BY <1>4, <2>1, <2>2, <2>3 DEF NumberTypes
<1>5. CASE type \in {"date", "time", "dateTime"}
  <2>1. CASE type = "dateTime" /\ d.t = "zoned"
    <3>1. Convert(type, d) = Verdict(Ok, d)
      BY <2>1, Zenon DEF Convert
    <3>2. type \notin NumberTypes \cup {"string", "boolean", "integer"}
      BY <2>1 DEF NumberTypes
    <3> QED BY <2>1, <3>1, <3>2, Zenon
  <2>2. CASE ~(type = "dateTime" /\ d.t = "zoned") /\ d.t \in {"moment", "num", "zoned"}
    BY <1>5, <2>2, Zenon DEF Convert, NumberTypes
  <2>3. CASE d.t \notin {"moment", "num", "zoned"}
    BY <1>5, <2>3 DEF NumberTypes
  <2> QED BY <1>5, <2>1, <2>2, <2>3 DEF NumberTypes
<1> QED BY <1>1, <1>2, <1>3, <1>4, <1>5

(* What it refuses.                                                              *)
LEMMA ConvertRefuses ==
  ASSUME NEW type, NEW d
  PROVE  /\ type \in NumberTypes /\ d.t \notin {"null", "coords", "num", "bool", "inf", "nan"} => ~IsOk(Convert(type, d))
         /\ type = "integer" /\ d.t \notin {"null", "coords", "num", "bool", "inf"} => ~IsOk(Convert(type, d))
         /\ type \in {"date", "time", "dateTime"} /\ d.t \notin {"moment", "num", "zoned"} => ~IsOk(Convert(type, d))
<1>0. ~IsOk(Verdict(Invalid, None))
  BY DEF IsOk, Verdict, Ok, Invalid
<1>1. CASE type \in NumberTypes /\ d.t \notin {"null", "coords", "num", "bool", "inf", "nan"}
  <2>1. Convert(type, d) = Verdict(Invalid, None)
    BY <1>1, Zenon DEF Convert, NumberTypes
  <2> QED BY <1>0, <1>1, <2>1 DEF NumberTypes
<1>2. CASE type = "integer" /\ d.t \notin {"null", "coords", "num", "bool", "inf"}
  <2>1. Convert(type, d) = Verdict(Invalid, None)
    BY <1>2, Zenon DEF Convert, NumberTypes
  <2> QED BY <1>0, <1>2, <2>1 DEF NumberTypes
<1>3. CASE type \in {"date", "time", "dateTime"} /\ d.t \notin {"moment", "num", "zoned"}
  <2>1. Convert(type, d) = Verdict(Invalid, None)
    BY <1>3, Zenon DEF Convert, NumberTypes
  <2> QED BY <1>0, <1>3, <2>1 DEF NumberTypes
<1> QED BY <1>1, <1>2, <1>3

(* A number is compared with both bounds; there is no grid.                      *)
LEMMA RangeArms ==
  ASSUME NEW min, NEW max, NEW v, v.t = "num"
  PROVE  RangeVerdict(Between("num", min, max), v) =
           Passes((min # None => min <= v.n) /\ (max # None => v.n <= max))
<1> DEFINE r == Between("num", min, max)
<1>1. RangeVerdict(r, v) = Passes(InMin(r, v.n) /\ InMax(r, v.n) /\ OnGrid(r, v.n))
  BY Zenon DEF RangeVerdict
<1>2. r.min = min /\ r.max = max /\ r.closure = "closed" /\ r.spacing = None
  BY DEF Between
<1> HIDE DEF r
<1>3. /\ InMin(r, v.n) <=> (min # None => min <= v.n)
      /\ InMax(r, v.n) <=> (max # None => v.n <= max)
      /\ OnGrid(r, v.n)
  BY <1>2 DEF InMin, InMax, OnGrid
<1> QED BY <1>1, <1>3 DEF Passes, r

(* What an allowed value is, by its kind.                                        *)
LEMMA AllowedArms ==
  ASSUME NEW a, NEW v
  PROVE  /\ a.kind = "any" => Allowed(a, v) = Ok
         /\ a.kind = "value" => Allowed(a, v) = Passes(v.t = "word" /\ v.w \in a.values)
         /\ a.kind = "layer" => Allowed(a, v) = Passes(LayerName(v) \in a.values)
         /\ a.kind = "range" => Allowed(a, v) = RangeVerdict(a, v)
BY Zenon DEF Allowed

(* A check that passes.                                                         *)
LEMMA PassesIs == \A ok \in BOOLEAN : (Passes(ok) = Ok) <=> ok
BY DEF Passes, Ok, Invalid

(* The validation of each class.                                                *)
LEMMA ClassArms ==
  ASSUME NEW def, NEW p
  PROVE  /\ def.class = "literal" => ValidateInput(def, p) = ValidLiteral(def, p)
         /\ def.class = "complex" => ValidateInput(def, p) = ValidComplex(def, p)
         /\ def.class = "bbox" => ValidateInput(def, p) = ValidBBox(def, p)
BY Zenon DEF ValidateInput

(* A literal that is accepted was converted and is allowed.                     *)
LEMMA ValidLiteralIs ==
  ASSUME NEW def, NEW p, IsOk(ValidLiteral(def, p))
  PROVE  LET c == Convert(def.type, p.data) IN
         IsOk(c) /\ Allowed(def.allowed, c.value) = Ok /\ ValidLiteral(def, p).value = c.value
<1> DEFINE c == Convert(def.type, p.data)
           u == UomVerdict(def, p.uom)
<1>1. CASE u # Ok
  <2>1. ValidLiteral(def, p) = Verdict(u, None)
    BY <1>1, Zenon DEF ValidLiteral
  <2> QED BY <1>1, <2>1 DEF Verdict, IsOk
<1>2. CASE u = Ok /\ ~IsOk(c)
  <2>1. ValidLiteral(def, p) = c
    BY <1>2, Zenon DEF ValidLiteral
  <2> QED BY <1>2, <2>1
<1>3. CASE u = Ok /\ IsOk(c)
  <2>1. ValidLiteral(def, p) = Verdict(Allowed(def.allowed, c.value), c.value)
    BY <1>3, Zenon DEF ValidLiteral
  <2> QED BY <1>3, <2>1 DEF Verdict, IsOk
<1> QED BY <1>1, <1>2, <1>3

(* What a literal becomes, by the type of its definition.                         *)
LiteralOf(def, d, v) ==
  /\ def.type = "string" => v = Text(d)
  /\ def.type \in NumberTypes \cup {"integer"} => v.t \in {"num", "inf", "nan"} /\ (v.t = "num" => v.n \in Int)
  /\ def.type = "integer" => v.t = "num" /\ v.n % 2 = 0
  /\ def.type = "boolean" => v.t = "bool"
  /\ def.type \in {"date", "time", "dateTime"} => v.t \in {"moment", "zoned"}
  /\ def.allowed.kind = "value" => v.t = "word" /\ v.w \in def.allowed.values
InRange(def, v) ==
  \A min, max : def.allowed = Between("num", min, max) /\ v.t = "num" =>
    (min # None => min <= v.n) /\ (max # None => v.n <= max)

(* A literal that is accepted has a value of its type, within its bounds or among *)
(* its options.                                                                  *)
LEMMA LiteralConverted ==
  ASSUME NEW def, LiteralShape(def), NEW p, Datum(p.data), IsOk(ValidLiteral(def, p))
  PROVE  LiteralOf(def, p.data, ValidLiteral(def, p).value) /\ InRange(def, ValidLiteral(def, p).value)
<1> DEFINE d == p.data
           c == Convert(def.type, d)
           v == c.value
<1>1. IsOk(c) /\ Allowed(def.allowed, v) = Ok /\ ValidLiteral(def, p).value = v
  BY ValidLiteralIs
<1> HIDE DEF d, c, v
<1>2. \A x : Verdict(Ok, x).value = x /\ Verdict(Ok, x).status = Ok
  BY DEF Verdict
<1>3. ~IsOk(Verdict(Fatal, None))
  BY DEF Verdict, IsOk, Fatal, Ok
<1>4. Datum(d)
  BY DEF d
<1>5. def.allowed.kind = "value" => v.t = "word" /\ v.w \in def.allowed.values
  BY <1>1, AllowedArms, PassesIs
<1>6. InRange(def, v)
  <2> SUFFICES ASSUME NEW min, NEW max, def.allowed = Between("num", min, max), v.t = "num"
               PROVE  (min # None => min <= v.n) /\ (max # None => v.n <= max)
    BY DEF InRange
  <2>1. Allowed(def.allowed, v) = RangeVerdict(Between("num", min, max), v)
    <3>1. def.allowed.kind = "range"
      BY DEF Between
    <3> QED BY <3>1, AllowedArms
  <2>2. RangeVerdict(Between("num", min, max), v) = Passes((min # None => min <= v.n) /\ (max # None => v.n <= max))
    BY RangeArms
  <2> QED BY <1>1, <2>1, <2>2, PassesIs
<1>7. CASE def.type = "string"
  <2>1. c = Verdict(Ok, Text(d))
    BY <1>7, ConvertArms DEF c
  <2>2. v = Text(d)
    BY <1>2, <2>1 DEF v
  <2> QED BY <1>1, <1>5, <1>6, <1>7, <2>2 DEF NumberTypes, LiteralOf, d
<1>8. CASE def.type = "boolean"
  <2>1. c = Verdict(Ok, [t |-> "bool", b |-> ~IsFalse(d)])
    BY <1>8, ConvertArms DEF c
  <2>2. v.t = "bool"
    BY <1>2, <2>1 DEF v
  <2> QED BY <1>1, <1>5, <1>6, <1>8, <2>2 DEF NumberTypes, LiteralOf, d
<1>9. CASE def.type \in NumberTypes
  <2>1. d.t \in {"num", "bool", "inf", "nan"}
    <3>1. d.t \in {"null", "coords", "num", "bool", "inf", "nan"}
      BY <1>1, <1>9, ConvertRefuses, Zenon DEF c
    <3>2. d.t \notin {"null", "coords"}
      BY <1>1, <1>3, <1>9, ConvertArms, Zenon DEF c
    <3> QED BY <3>1, <3>2
  <2>0. c = Verdict(Ok, AsNumber(d))
    BY <1>9, <2>1, ConvertArms, Zenon DEF c
  <2>2. v = AsNumber(d)
    BY <1>2, <2>0 DEF v
  <2>3. v.t \in {"num", "inf", "nan"} /\ (v.t = "num" => v.n \in Int)
    BY <1>4, <2>1, <2>2 DEF AsNumber, Num, Datum
  <2> QED BY <1>1, <1>5, <1>6, <1>9, <2>3 DEF NumberTypes, LiteralOf, d
<1>10. CASE def.type = "integer"
  <2>1. d.t \in {"num", "bool"}
    <3>1. d.t \in {"null", "coords", "num", "bool", "inf"}
      BY <1>1, <1>10, ConvertRefuses, Zenon DEF c
    <3>2. d.t \notin {"null", "coords", "inf"}
      BY <1>1, <1>3, <1>10, ConvertArms, Zenon DEF c
    <3> QED BY <3>1, <3>2
  <2>0. c = Verdict(Ok, [AsNumber(d) EXCEPT !.n = Whole(@)])
    BY <1>10, <2>1, ConvertArms, Zenon DEF c
  <2>2. v = [AsNumber(d) EXCEPT !.n = Whole(@)]
    BY <1>2, <2>0 DEF v
  <2> DEFINE x == AsNumber(d)
  <2>3. x = [t |-> "num", n |-> x.n] /\ x.n \in Int
    <3>1. CASE d.t = "num"
      <4>1. x = d
        BY <3>1 DEF AsNumber
      <4>2. d = [t |-> "num", n |-> d.n] /\ d.n \in Int
        BY <1>4, <3>1 DEF Datum
      <4> QED BY <4>1, <4>2
    <3>2. CASE d.t = "bool"
      BY <3>2 DEF AsNumber, Num
    <3> QED BY <2>1, <3>1, <3>2
  <2> HIDE DEF x
  <2>4. v.t = "num" /\ v.n = Whole(x.n)
    <3>1. v = [x EXCEPT !.n = Whole(x.n)]
      BY <2>2 DEF x
    <3> QED BY <2>3, <3>1
  <2>5. Whole(x.n) \in Int /\ Whole(x.n) % 2 = 0
    BY <2>3 DEF Whole
  <2> QED BY <1>1, <1>5, <1>6, <1>10, <2>4, <2>5 DEF NumberTypes, LiteralOf, d
<1>11. CASE def.type \in {"date", "time", "dateTime"}
  <2>1. d.t \in {"moment", "num", "zoned"}
    BY <1>1, <1>11, ConvertRefuses, Zenon DEF c
  <2>2. v.t \in {"moment", "zoned"}
    <3>1. CASE def.type = "dateTime" /\ d.t = "zoned"
      <4>1. c = Verdict(Ok, d)
        BY <3>1, ConvertArms, Zenon DEF c
      <4> QED BY <1>2, <3>1, <4>1 DEF v
    <3>2. CASE ~(def.type = "dateTime" /\ d.t = "zoned")
      <4>1. c = Verdict(Ok, [t |-> "moment", n |-> d.n])
        BY <1>11, <2>1, <3>2, ConvertArms, Zenon DEF c
      <4> QED BY <1>2, <4>1 DEF v
    <3> QED BY <3>1, <3>2
  <2> QED BY <1>1, <1>5, <1>6, <1>11, <2>2 DEF NumberTypes, LiteralOf, d
<1> QED BY <1>7, <1>8, <1>9, <1>10, <1>11 DEF LiteralShape, NumberTypes

(* The value of an accepted input of the other classes is marked as such.        *)
LEMMA OtherConverted ==
  ASSUME NEW def, def.class \in {"complex", "bbox"}, NEW p, IsOk(ValidateInput(def, p))
  PROVE  ValidateInput(def, p).value.t = def.class
<1>1. CASE def.class = "complex"
  <2> DEFINE v == [t |-> "complex", mime |-> IF p.mime = None THEN def.formats[1] ELSE p.mime,
                             ref |-> p.href, data |-> p.data]
  <2>1. ValidComplex(def, p) \in {Verdict(Fatal, None), Verdict(Invalid, None), Verdict(Ok, v)}
    BY Zenon DEF ValidComplex
  <2>2. ValidateInput(def, p) = ValidComplex(def, p)
    BY <1>1, ClassArms, Zenon
  <2>3. v.t = "complex"
    OBVIOUS
  <2> HIDE DEF v
  <2> QED BY <1>1, <2>1, <2>2, <2>3 DEF Verdict, IsOk, Ok, Fatal, Invalid
<1>2. CASE def.class = "bbox"
  <2> DEFINE v == [t |-> "bbox", n |-> IF p.data.text /\ p.data.n > 4 THEN 4 ELSE p.data.n, crs |-> def.crs]
  <2>1. ValidBBox(def, p) \in {Verdict(Fatal, None), Verdict(Invalid, None), Verdict(Ok, v)}
    BY Zenon DEF ValidBBox
  <2>2. ValidateInput(def, p) = ValidBBox(def, p)
    BY <1>2, ClassArms, Zenon
  <2>3. v.t = "bbox"
    OBVIOUS
  <2> HIDE DEF v
  <2> QED BY <1>2, <2>1, <2>2, <2>3 DEF Verdict, IsOk, Ok, Fatal, Invalid
<1> QED BY <1>1, <1>2

-----------------------------------------------------------------------------
(* The inputs of a request *)

(* A datum as it was said, or as the text of it; nothing where the pair could not *)
(* be read.                                                                      *)
ReadFrom(d, item) == d \in {Unread, Said(item), Text(Said(item))}
ItemOK(item, enc) == Datum(item.data) /\ (item.form = "reference" => enc = "xml")

(* What each encoding reads of an item: its data, a text for it, or nothing.      *)
LEMMA FormArms ==
  ASSUME NEW item, NEW class
  PROVE  /\ FromKvp(item).data \in {Unread, item.data}
         /\ FromXml(item).data \in {Text(Said(item)), Said(item)}
         /\ IsOk(FromJson(class, item)) => FromJson(class, item).value.data = item.data
<1>0. \A a, b, c, d, e : Parsed(a, b, c, d, e).data = a
  BY DEF Parsed
<1>1. FromKvp(item).data \in {Unread, item.data}
  BY <1>0 DEF FromKvp
<1>2. FromXml(item).data \in {Text(Said(item)), Said(item)}
  <2>1. CASE item.form = "literal"
    <3> DEFINE x == IF item.data = Null THEN Word("None") ELSE item.data
    <3>1. FromXml(item) = Parsed(x, item.uom, None, None, None)
      BY <2>1, Zenon DEF FromXml
    <3>2. FromXml(item).data = x
      <4> HIDE DEF x
      <4> QED BY <1>0, <3>1
    <3>3. Said(item) = item.data
      BY <2>1 DEF Said
    <3>4. Text(Null) = Word("None")
      BY DEF Text, Null
    <3> QED BY <3>2, <3>3, <3>4
  <2>2. CASE item.form = "complex"
    <3>1. FromXml(item) = Parsed(item.data, None, item.mime, None, None)
      BY <2>2, Zenon DEF FromXml
    <3> QED BY <1>0, <2>2, <3>1 DEF Said
  <2>3. CASE item.form = "reference"
    <3>1. FromXml(item) = Parsed(Null, None, item.mime, item.href, None)
      BY <2>3, Zenon DEF FromXml
    <3> QED BY <1>0, <2>3, <3>1 DEF Said
  <2>4. CASE item.form \notin {"literal", "complex", "reference"}
    <3>1. FromXml(item) = Parsed(item.data, None, None, None, item.crs)
      BY <2>4, Zenon DEF FromXml
    <3> QED BY <1>0, <2>4, <3>1 DEF Said
  <2> QED BY <2>1, <2>2, <2>3, <2>4
<1>3. ASSUME IsOk(FromJson(class, item))
      PROVE  FromJson(class, item).value.data = item.data
  <2>1. \E b, c, d, e : FromJson(class, item) = Verdict(Ok, Parsed(item.data, b, c, d, e))
    <3>0. ~IsOk(Verdict(Fatal, None)) /\ ~IsOk(Verdict(Invalid, None))
      BY DEF Verdict, IsOk, Fatal, Invalid, Ok
    <3>1. CASE class = "literal"
      BY <1>3, <3>0, <3>1, Zenon DEF FromJson
    <3>2. CASE class = "complex"
      BY <1>3, <3>0, <3>2, Zenon DEF FromJson
    <3>3. CASE class \notin {"literal", "complex"}
      BY <1>3, <3>0, <3>3, Zenon DEF FromJson
    <3> QED BY <3>1, <3>2, <3>3
  <2> QED BY <1>0, <2>1 DEF Verdict
<1> QED BY <1>1, <1>2, <1>3

(* What the inputs of a request are made of: the items of their identifier.      *)
LEMMA InputItems ==
  ASSUME NEW enc, NEW items, DOMAIN items \subseteq Nat, \A k \in DOMAIN items : ItemOK(items[k], enc),
         NEW defs, IsOk(RequestInputs(enc, items, defs))
  PROVE  LET inputs == RequestInputs(enc, items, defs).value IN
         \A id \in DOMAIN inputs :
           /\ DOMAIN inputs[id] = ItemsOf(items, id) \cap Filled(items)
           /\ \A k \in DOMAIN inputs[id] : ReadFrom(inputs[id][k].data, items[k])
<1> DEFINE declared == {k \in DOMAIN items : Declared(defs, items[k].id)}
           json == [k \in declared |-> FromJson(ClassOf(defs, items[k].id), items[k])]
           Own(id) == ItemsOf(items, id) \cap Filled(items)
           Kvp == [id \in Ids(items, Filled(items)) |-> [k \in Own(id) |-> FromKvp(items[k])]]
           Xml == [id \in Ids(items, DOMAIN items) |-> [k \in Own(id) |-> FromXml(items[k])]]
           Json == [id \in Ids(items, declared) |-> [k \in Own(id) |-> json[k].value]]
           v == RequestInputs(enc, items, defs)
           Good(f) == \A id \in DOMAIN f :
             /\ DOMAIN f[id] = Own(id)
             /\ \A k \in DOMAIN f[id] : ReadFrom(f[id][k].data, items[k])
<1>0. \A x : Verdict(Ok, x).value = x
  BY DEF Verdict
<1>1. \A id : \A k \in Own(id) : k \in DOMAIN items /\ items[k].id = id
  BY DEF ItemsOf
<1>2. \A k \in DOMAIN items : enc # "xml" => Said(items[k]) = items[k].data
  BY DEF ItemOK, Said
<1>3. CASE enc = "kvp"
  <2>1. v = Verdict(Ok, Kvp)
    BY <1>3, Zenon DEF RequestInputs
  <2>2. Good(Kvp)
    <3> HIDE DEF Own
    <3> QED BY <1>1, <1>2, <1>3, FormArms DEF ReadFrom
  <2> HIDE DEF Kvp
  <2> QED BY <1>0, <2>1, <2>2
<1>4. CASE enc = "xml"
  <2>1. v = Verdict(Ok, Xml)
    BY <1>4, Zenon DEF RequestInputs
  <2>2. Good(Xml)
    <3> HIDE DEF Own
    <3> QED BY <1>1, FormArms DEF ReadFrom
  <2> HIDE DEF Xml
  <2> QED BY <1>0, <2>1, <2>2
<1>5. CASE enc \notin {"kvp", "xml"}
  <2>1. v = IF FirstBad(json) # Ok THEN Verdict(FirstBad(json), None) ELSE Verdict(Ok, Json)
    BY <1>5, Zenon DEF RequestInputs
  <2>2. FirstBad(json) = Ok /\ v = Verdict(Ok, Json)
    <3> HIDE DEF json, Json
    <3> QED BY <2>1 DEF Verdict, IsOk
  <2>3. \A k \in declared : IsOk(json[k])
    <3>1. DOMAIN json = declared /\ declared \subseteq Nat
      OBVIOUS
    <3> HIDE DEF json, declared
    <3> QED BY <2>2, <3>1, AllOk DEF IsOk
  <2>4. \A k \in declared : json[k].value.data = items[k].data
    <3> SUFFICES ASSUME NEW k \in declared PROVE json[k].value.data = items[k].data
      OBVIOUS
    <3>1. json[k] = FromJson(ClassOf(defs, items[k].id), items[k])
      OBVIOUS
    <3>2. IsOk(FromJson(ClassOf(defs, items[k].id), items[k]))
      <4> HIDE DEF json
      <4> QED BY <2>3, <3>1
    <3>3. FromJson(ClassOf(defs, items[k].id), items[k]).value.data = items[k].data
      BY <3>2, FormArms
    <3> HIDE DEF json
    <3> QED BY <3>1, <3>3
  <2>5. Good(Json)
    <3>1. \A id \in Ids(items, declared) : \A k \in Own(id) : k \in declared
      <4> HIDE DEF Own
      <4> QED BY <1>1 DEF Ids
    <3>2. ASSUME NEW id \in Ids(items, declared), NEW k \in Own(id)
          PROVE  ReadFrom(json[k].value.data, items[k])
      <4>1. k \in declared /\ k \in DOMAIN items
        BY <1>1, <3>1
      <4>2. json[k].value.data = items[k].data /\ Said(items[k]) = items[k].data
        BY <1>2, <1>5, <2>4, <4>1
      <4> HIDE DEF json
      <4> QED BY <4>2 DEF ReadFrom
    <3> HIDE DEF Own, declared, json
    <3> QED BY <3>2
  <2> HIDE DEF Json
  <2> QED BY <1>0, <2>2, <2>5
<1> QED BY <1>3, <1>4, <1>5

(* Each definition has its verdict; the values are those of the places of its     *)
(* input.                                                                        *)
DistinctIds(defs) == \A i, j \in DOMAIN defs : defs[i].id = defs[j].id => i = j
LEMMA ValidRequest ==
  ASSUME NEW defs, DOMAIN defs \subseteq Nat, DistinctIds(defs), NEW inputs,
         \A id \in DOMAIN inputs : DOMAIN inputs[id] \subseteq Nat,
         IsOk(ValidateRequest(defs, inputs))
  PROVE  LET values == ValidateRequest(defs, inputs).value IN
         /\ DOMAIN values = {defs[i].id : i \in DOMAIN defs} \cap DOMAIN inputs
         /\ \A i \in DOMAIN defs : LET id == defs[i].id IN id \in DOMAIN inputs =>
              /\ DOMAIN values[id] = DOMAIN inputs[id]
              /\ \A k \in DOMAIN inputs[id] :
                   /\ inputs[id][k].data.t # "unread"
                   /\ IsOk(ValidateInput(defs[i], inputs[id][k]))
                   /\ values[id][k] = ValidateInput(defs[i], inputs[id][k]).value
<1> DEFINE verdicts == [i \in DOMAIN defs |-> Verdict(InputVerdict(defs[i], inputs), None)]
           given == {i \in DOMAIN defs : ~Missing(defs[i], inputs)}
           DefOf(id) == defs[CHOOSE i \in given : defs[i].id = id]
           values == [id \in {defs[i].id : i \in given} |->
                        [k \in DOMAIN inputs[id] |-> ValidateInput(DefOf(id), inputs[id][k]).value]]
           v == ValidateRequest(defs, inputs)
<1>1. v = IF FirstBad(verdicts) # Ok THEN Verdict(FirstBad(verdicts), None) ELSE Verdict(Ok, values)
  BY Zenon DEF ValidateRequest
<1>2. FirstBad(verdicts) = Ok /\ v.value = values
  <2> HIDE DEF verdicts, values
  <2> QED BY <1>1 DEF Verdict, IsOk
<1>3. \A i \in DOMAIN defs : InputVerdict(defs[i], inputs) = Ok
  <2>1. DOMAIN verdicts = DOMAIN defs /\ \A i \in DOMAIN defs : verdicts[i].status = InputVerdict(defs[i], inputs)
    BY DEF Verdict
  <2> HIDE DEF verdicts
  <2> QED BY <1>2, <2>1, AllOk
<1>4. \A i \in given : DefOf(defs[i].id) = defs[i]
  BY DEF DistinctIds
<1>5. \A i \in DOMAIN defs : i \in given <=> defs[i].id \in DOMAIN inputs
  BY DEF Missing
<1>6. DOMAIN values = {defs[i].id : i \in DOMAIN defs} \cap DOMAIN inputs
  <2> HIDE DEF given, DefOf
  <2>1. given \subseteq DOMAIN defs
    BY DEF given
  <2> QED BY <1>5, <2>1
<1>7. ASSUME NEW i \in DOMAIN defs, defs[i].id \in DOMAIN inputs
      PROVE  LET id == defs[i].id IN
             /\ DOMAIN values[id] = DOMAIN inputs[id]
             /\ \A k \in DOMAIN inputs[id] :
                  /\ inputs[id][k].data.t # "unread"
                  /\ IsOk(ValidateInput(defs[i], inputs[id][k]))
                  /\ values[id][k] = ValidateInput(defs[i], inputs[id][k]).value
  <2> DEFINE id == defs[i].id
             list == inputs[id]
             checked == [k \in DOMAIN list |-> ValidateInput(defs[i], list[k])]
  <2>1. i \in given /\ DefOf(id) = defs[i]
    BY <1>4, <1>5, <1>7
  <2>2. values[id] = [k \in DOMAIN list |-> ValidateInput(defs[i], list[k]).value]
    <3>1. id \in {defs[j].id : j \in given}
      BY <2>1
    <3>2. values[id] = [k \in DOMAIN list |-> ValidateInput(DefOf(id), list[k]).value]
      <4> HIDE DEF given, DefOf, id
      <4> QED BY <3>1
    <3> HIDE DEF DefOf, values
    <3> QED BY <2>1, <3>2
  <2>3. ~Malformed(list) /\ FirstBad(checked) = Ok
    <3>1. InputVerdict(defs[i], inputs) = Ok /\ ~Missing(defs[i], inputs)
      BY <1>3, <1>7 DEF Missing
    <3>2. CASE Malformed(list)
      <4>1. InputVerdict(defs[i], inputs) = IF defs[i].min > 2 THEN Invalid ELSE Fatal
        BY <3>1, <3>2, Zenon DEF InputVerdict
      <4> QED BY <3>1, <4>1 DEF Ok, Fatal, Invalid
    <3>3. CASE ~Malformed(list) /\ Cardinality(DOMAIN list) < defs[i].min
      <4>1. InputVerdict(defs[i], inputs) = Invalid
        BY <3>1, <3>3, Zenon DEF InputVerdict
      <4> QED BY <3>1, <4>1 DEF Ok, Invalid
    <3>4. CASE ~Malformed(list) /\ ~(Cardinality(DOMAIN list) < defs[i].min)
      <4>1. InputVerdict(defs[i], inputs) = FirstBad(checked)
        BY <3>1, <3>4, Zenon DEF InputVerdict
      <4> QED BY <3>1, <3>4, <4>1
    <3> QED BY <3>2, <3>3, <3>4
  <2>4. \A k \in DOMAIN list : IsOk(ValidateInput(defs[i], list[k]))
    <3>1. DOMAIN checked = DOMAIN list /\ \A k \in DOMAIN list : checked[k] = ValidateInput(defs[i], list[k])
      OBVIOUS
    <3>2. DOMAIN list \subseteq Nat
      BY <1>7
    <3> HIDE DEF checked, list
    <3> QED BY <2>3, <3>1, <3>2, AllOk DEF IsOk
  <2> HIDE DEF values, list
  <2> QED BY <2>2, <2>3, <2>4 DEF Malformed, list
<1> HIDE DEF values
<1> QED BY <1>2, <1>6, <1>7

(* What a value of a parameter is, that was said as the datum d.                  *)
PlainValues == {"word", "layer", "num", "inf", "nan", "bool", "moment", "zoned", "complex", "bbox"}
GoodValue(param, v, d) ==
  /\ v.t \in PlainValues
  /\ param.type \in {"enum"} \cup LayerTypes \cup DestinationTypes => v = Text(d)
  /\ param.type = "enum" => v.t = "word" /\ v.w \in ToSet(param.options)
  /\ param.type \in {"number", "distance", "scale"} /\ v.t = "num" =>
       (param.min # None => param.min <= v.n) /\ (param.max # None => v.n <= param.max)
  /\ param.type = "number" /\ param.integer => v.t = "num" /\ v.n % 2 = 0
  /\ param.type = "band" => v.t = "num" /\ v.n >= 0 /\ v.n % 2 = 0

(* What a validated value is, for each type of parameter.                         *)
LEMMA GoodValueIs ==
  ASSUME NEW param, Bounded(param), Described(param), NEW ver, NEW d, Datum(d),
         NEW p, p.data \in {d, Text(d)}, IsOk(ValidateInput(InputOf(param, ver), p))
  PROVE  GoodValue(param, ValidateInput(InputOf(param, ver), p).value, d)
<1> DEFINE def == InputOf(param, ver)
           v == ValidateInput(def, p).value
<1>1. /\ def.class \in {"literal", "complex", "bbox"}
      /\ def.class = "literal" => LiteralShape(def)
      /\ param.type \in LiteralTypes => def = LiteralInput(param)
      /\ param.type \in LayerTypes \cup DestinationTypes \cup LiteralTypes => def.class = "literal"
      /\ param.type \in LayerTypes \cup DestinationTypes => def.type = "string"
  BY InputIs
<1>2. Text(d).t \in {"word", "layer"} /\ Datum(Text(d)) /\ Text(Text(d)) = Text(d)
  BY TextIs
<1>3. Datum(p.data) /\ Text(p.data) = Text(d) /\ IsOk(ValidateInput(def, p))
  BY <1>2
<1>4. param.type \in {"enum", "number", "distance", "scale", "band"} => param.type \in LiteralTypes
  BY DEF LiteralTypes
<1> HIDE DEF def
<1>5. CASE def.class = "literal"
  <2>1. v = ValidLiteral(def, p).value /\ IsOk(ValidLiteral(def, p))
    BY <1>3, <1>5, ClassArms
  <2> HIDE DEF v
  <2>2. LiteralOf(def, p.data, v) /\ InRange(def, v) /\ LiteralShape(def)
    BY <1>1, <1>3, <1>5, <2>1, LiteralConverted
  <2>3. v.t \in PlainValues
    BY <1>2, <1>3, <2>2 DEF LiteralOf, LiteralShape, NumberTypes, PlainValues
  <2>4. def.type = "string" => v = Text(d)
    BY <1>3, <2>2 DEF LiteralOf
  <2>5. ASSUME param.type \in LiteralTypes
        PROVE  /\ param.type \in {"number", "distance", "scale"} =>
                    def.type \in NumberTypes \cup {"integer"} /\ def.allowed = Between("num", param.min, param.max)
               /\ param.type = "number" /\ param.integer => def.type = "integer"
               /\ param.type = "band" => def.type = "integer" /\ def.allowed = Between("num", 0, None)
               /\ param.type = "enum" => def.type = "string" /\ def.allowed = OneOf(ToSet(param.options))
    BY <1>1, <2>5, LiteralInputIs DEF NumberIn, NumberTypes
  <2>6. param.type \in {"enum"} \cup LayerTypes \cup DestinationTypes => v = Text(d)
    BY <1>1, <1>4, <2>4, <2>5
  <2>7. param.type = "enum" => v.t = "word" /\ v.w \in ToSet(param.options)
    BY <1>4, <2>2, <2>5 DEF LiteralOf, OneOf
  <2>8. param.type \in {"number", "distance", "scale"} /\ v.t = "num" =>
          (param.min # None => param.min <= v.n) /\ (param.max # None => v.n <= param.max)
    <3> HIDE DEF LiteralTypes
    <3> QED BY <1>4, <2>2, <2>5 DEF InRange
  <2>9. param.type = "number" /\ param.integer => v.t = "num" /\ v.n % 2 = 0
    BY <1>4, <2>2, <2>5 DEF LiteralOf
  <2>10. ASSUME param.type = "band" PROVE v.t = "num" /\ v.n >= 0 /\ v.n % 2 = 0
    <3>1. def.type = "integer" /\ def.allowed = Between("num", 0, None)
      BY <1>4, <2>5, <2>10
    <3>2. v.t = "num" /\ v.n \in Int /\ v.n % 2 = 0
      BY <2>2, <3>1 DEF LiteralOf
    <3>3. 0 # None => 0 <= v.n
      BY <2>2, <3>1, <3>2 DEF InRange
    <3>4. 0 # None
      BY NoneAssumption
    <3> QED BY <3>2, <3>3, <3>4
  <2> QED BY <2>3, <2>6, <2>7, <2>8, <2>9, <2>10 DEF GoodValue, v, def
<1>6. CASE def.class \in {"complex", "bbox"}
  <2>1. v.t = def.class
    BY <1>3, <1>6, OtherConverted
  <2>2. param.type \notin LiteralTypes \cup LayerTypes \cup DestinationTypes
    BY <1>1, <1>6
  <2> HIDE DEF v
  <2>3. GoodValue(param, v, d)
    BY <1>4, <1>6, <2>1, <2>2 DEF GoodValue, PlainValues
  <2> QED BY <2>3 DEF v, def
<1> QED BY <1>1, <1>5, <1>6

(* What the assumptions say of an algorithm and of a request.                    *)
LEMMA KnownParams ==
  ASSUME NEW r \in Requests, Known(r)
  PROVE  /\ r.idents[1] \in DOMAIN Algorithms
         /\ LET params == Params(r.idents[1]) IN
            /\ DOMAIN params = 1 .. Len(params) /\ Len(params) \in Nat /\ Distinct(params)
            /\ \A i \in DOMAIN params : Bounded(params[i])
         /\ Distinct(Algorithms[r.idents[1]].outputs)
         /\ DOMAIN r.items \subseteq Nat /\ \A k \in DOMAIN r.items : ItemOK(r.items[k], r.enc)
<1>1. r.idents[1] \in DOMAIN Algorithms
  <2>1. r.idents \in Seq(ToSet(r.idents)) /\ r.idents # <<>>
    BY RequestsAssumption
  <2>2. 1 \in DOMAIN r.idents
    BY <2>1
  <2>3. r.idents[1] \in ToSet(r.idents)
    BY <2>2 DEF ToSet
  <2> QED BY <2>3 DEF Known
<1>2. r.items \in Seq(ToSet(r.items)) /\ \A item \in ToSet(r.items) : ItemOK(item, r.enc)
  BY RequestsAssumption DEF ItemOK
<1>3. DOMAIN r.items \subseteq Nat /\ \A k \in DOMAIN r.items : r.items[k] \in ToSet(r.items)
  BY <1>2 DEF ToSet
<1> DEFINE params == Params(r.idents[1])
<1>4. /\ Distinct(params) /\ params \in Seq(ToSet(params)) /\ \A p \in ToSet(params) : Bounded(p)
      /\ Distinct(Algorithms[r.idents[1]].outputs)
  BY <1>1, AlgorithmsAssumption DEF Params
<1> HIDE DEF params
<1>5. DOMAIN params = 1 .. Len(params) /\ Len(params) \in Nat /\ \A i \in DOMAIN params : params[i] \in ToSet(params)
  BY <1>4 DEF ToSet
<1>6. \A i \in DOMAIN params : Bounded(params[i])
  BY <1>4, <1>5
<1> QED BY <1>1, <1>2, <1>3, <1>4, <1>5, <1>6 DEF params

(* The values of an input: each was said in an item of its identifier.            *)
GoodList(param, list, r) ==
  \A k \in DOMAIN list :
    /\ k \in DOMAIN r.items /\ r.items[k].id = param.name
    /\ Datum(Said(r.items[k])) /\ GoodValue(param, list[k], Said(r.items[k]))
GoodInputs(r, g) ==
  \A i \in DOMAIN Params(r.idents[1]) :
    LET param == Params(r.idents[1])[i] IN
    param.name \in DOMAIN g => DOMAIN g[param.name] \subseteq Nat /\ GoodList(param, g[param.name], r)

(* Each parameter that is described has its input, at the same place.             *)
LEMMA DefsAre ==
  ASSUME NEW r \in Requests, Known(r), NEW vers
  PROVE  LET params == Params(r.idents[1])
             defs == InputsOf(params, vers)
         IN /\ DOMAIN defs = {i \in DOMAIN params : Described(params[i])}
            /\ DOMAIN defs \subseteq Nat /\ DistinctIds(defs)
            /\ \A i \in DOMAIN defs : defs[i] = InputOf(params[i], vers[i]) /\ defs[i].id = params[i].name
<1> DEFINE params == Params(r.idents[1])
           defs == InputsOf(params, vers)
<1>1. /\ DOMAIN params \subseteq Nat /\ Distinct(params)
      /\ \A i \in DOMAIN params : Bounded(params[i])
  BY KnownParams
<1> HIDE DEF params
<1>2. DOMAIN defs = {i \in DOMAIN params : Described(params[i])} /\ \A i \in DOMAIN defs : defs[i] = InputOf(params[i], vers[i])
  BY DEF InputsOf
<1> HIDE DEF defs
<1>3. \A i \in DOMAIN defs : defs[i].id = params[i].name
  BY <1>1, <1>2, InputIs
<1>4. DistinctIds(defs)
  BY <1>1, <1>2, <1>3 DEF Distinct, DistinctIds
<1> QED BY <1>1, <1>2, <1>3, <1>4 DEF defs, params

(* The inputs of a request that is accepted are good values of its items.         *)
LEMMA GivenValues ==
  ASSUME NEW r \in Requests, Known(r), NEW vers, IsOk(Inputs(r, vers))
  PROVE  GoodInputs(r, Inputs(r, vers).value)
<1> DEFINE params == Params(r.idents[1])
           defs == InputsOf(params, vers)
           read == RequestInputs(r.enc, r.items, defs)
           inputs == read.value
           g == Inputs(r, vers).value
<1>1. IsOk(read) /\ Inputs(r, vers) = ValidateRequest(defs, inputs) /\ IsOk(ValidateRequest(defs, inputs))
  BY DEF Inputs, Validate
<1>2. /\ DOMAIN r.items \subseteq Nat /\ \A k \in DOMAIN r.items : ItemOK(r.items[k], r.enc)
      /\ DOMAIN params \subseteq Nat /\ Distinct(params)
      /\ \A i \in DOMAIN params : Bounded(params[i])
  BY KnownParams
<1>3. /\ DOMAIN defs = {i \in DOMAIN params : Described(params[i])}
      /\ DOMAIN defs \subseteq Nat /\ DistinctIds(defs)
      /\ \A i \in DOMAIN defs : defs[i] = InputOf(params[i], vers[i]) /\ defs[i].id = params[i].name
  BY DefsAre
<1> HIDE DEF params, defs
<1>4. \A id \in DOMAIN inputs :
        /\ DOMAIN inputs[id] = ItemsOf(r.items, id) \cap Filled(r.items)
        /\ \A k \in DOMAIN inputs[id] : ReadFrom(inputs[id][k].data, r.items[k])
  BY <1>1, <1>2, InputItems
<1> HIDE DEF read, inputs
<1>5. \A id \in DOMAIN inputs : \A k \in DOMAIN inputs[id] : k \in DOMAIN r.items /\ r.items[k].id = id
  BY <1>4 DEF ItemsOf
<1>6. \A id \in DOMAIN inputs : DOMAIN inputs[id] \subseteq Nat
  BY <1>2, <1>5
<1>7. /\ DOMAIN g = {defs[i].id : i \in DOMAIN defs} \cap DOMAIN inputs
      /\ \A i \in DOMAIN defs : LET id == defs[i].id IN id \in DOMAIN inputs =>
           /\ DOMAIN g[id] = DOMAIN inputs[id]
           /\ \A k \in DOMAIN inputs[id] :
                /\ inputs[id][k].data.t # "unread"
                /\ IsOk(ValidateInput(defs[i], inputs[id][k]))
                /\ g[id][k] = ValidateInput(defs[i], inputs[id][k]).value
  <2> HIDE DEF g
  <2>1. g = ValidateRequest(defs, inputs).value
    BY <1>1 DEF g
  <2> QED BY <1>1, <1>3, <1>6, <2>1, ValidRequest
<1> HIDE DEF g
<1>8. ASSUME NEW i \in DOMAIN params, params[i].name \in DOMAIN g
      PROVE  DOMAIN g[params[i].name] \subseteq Nat /\ GoodList(params[i], g[params[i].name], r)
  <2> DEFINE param == params[i]
             id == param.name
  <2>1. PICK j \in DOMAIN defs : defs[j].id = id
    BY <1>7, <1>8
  <2>2. j = i
    BY <1>2, <1>3, <2>1 DEF Distinct
  <2>3. i \in DOMAIN defs /\ defs[i].id = id /\ defs[i] = InputOf(param, vers[i]) /\ Described(param) /\ Bounded(param)
    BY <1>2, <1>3, <2>1, <2>2
  <2>4. id \in DOMAIN inputs /\ DOMAIN g[id] = DOMAIN inputs[id]
    BY <1>7, <1>8, <2>3
  <2>5. ASSUME NEW k \in DOMAIN g[id]
        PROVE  /\ k \in DOMAIN r.items /\ r.items[k].id = id
               /\ Datum(Said(r.items[k])) /\ GoodValue(param, g[id][k], Said(r.items[k]))
    <3> DEFINE p == inputs[id][k]
               d == Said(r.items[k])
    <3>1. k \in DOMAIN r.items /\ r.items[k].id = id /\ ReadFrom(p.data, r.items[k])
      BY <1>4, <1>5, <2>4
    <3>2. Datum(d)
      BY <1>2, <3>1 DEF ItemOK, Said, Datum, Null
    <3>3. p.data.t # "unread" /\ IsOk(ValidateInput(defs[i], p)) /\ g[id][k] = ValidateInput(defs[i], p).value
      BY <1>7, <2>3, <2>4
    <3>4. p.data \in {d, Text(d)}
      BY <3>1, <3>3 DEF ReadFrom, Unread
    <3> HIDE DEF p, d, param, id
    <3>5. GoodValue(param, g[id][k], d)
      BY <2>3, <3>2, <3>3, <3>4, GoodValueIs
    <3> QED BY <3>1, <3>2, <3>5 DEF d
  <2>6. DOMAIN g[id] \subseteq Nat
    BY <1>6, <2>4
  <2> QED BY <2>5, <2>6 DEF GoodList
<1> QED BY <1>8 DEF GoodInputs, params, g

-----------------------------------------------------------------------------
(* Conversion *)

(* A selection, or none yet, for every layer of any version.                      *)
AllLayers == UNION {DOMAIN Versions[v].layers : v \in DOMAIN Versions}
Selection(sel) == sel = [l \in AllLayers |-> sel[l]]

(* The value of a parameter, by its type.                                         *)
LEMMA ValueArms ==
  ASSUME NEW param, NEW values
  PROVE  LET first == FirstOf(values)
             v == ValueOf(param, values)
         IN
         /\ param.type \in LayerTypes /\ Several(values) =>
              v = [t |-> "layers", layers |-> {LayerName(values[k]) : k \in DOMAIN values}]
         /\ param.type \in LayerTypes /\ ~Several(values) => v = LayerValue(LayerName(first), FALSE)
         /\ param.type \in DestinationTypes => v = SinkValue(param, first)
         /\ param.type \in {"fileDestination", "folderDestination"} => v = [t |-> "file", file |-> first.w]
         /\ param.type = "file" => v = [t |-> "file", file |-> param.name]
         /\ param.type = "enum" => v = EnumValue(param, values)
         /\ param.type \notin LayerTypes \cup DestinationTypes \cup FileKinds \cup {"enum"} => v = first
<1> DEFINE first == FirstOf(values)
           v == ValueOf(param, values)
<1>1. CASE param.type \in LayerTypes
  <2>1. param.type \notin DestinationTypes \cup {"fileDestination", "folderDestination", "file", "enum"}
    BY <1>1 DEF LayerTypes, VectorTypes, DestinationTypes
  <2>2. CASE Several(values)
    <3>1. v = [t |-> "layers", layers |-> {LayerName(values[k]) : k \in DOMAIN values}]
      BY <1>1, <2>1, <2>2, Zenon DEF ValueOf
    <3> QED BY <1>1, <2>1, <2>2, <3>1
  <2>3. CASE ~Several(values)
    <3>1. v = LayerValue(LayerName(first), FALSE)
      BY <1>1, <2>1, <2>3, Zenon DEF ValueOf
    <3> QED BY <1>1, <2>1, <2>3, <3>1
  <2> QED BY <2>2, <2>3
<1>2. CASE param.type \in DestinationTypes
  <2>1. param.type \notin LayerTypes \cup {"fileDestination", "folderDestination", "file", "enum"}
    BY <1>2 DEF LayerTypes, VectorTypes, DestinationTypes
  <2>2. v = SinkValue(param, first)
    BY <1>2, <2>1, Zenon DEF ValueOf
  <2> QED BY <1>2, <2>1, <2>2, Zenon
<1>3. CASE param.type \in FileKinds \cup {"enum"}
  <2>1. param.type \notin LayerTypes \cup DestinationTypes
    BY <1>3 DEF LayerTypes, VectorTypes, DestinationTypes, FileKinds
  <2>2. CASE param.type \in {"fileDestination", "folderDestination"}
    BY <1>3, <2>1, <2>2, Zenon DEF ValueOf
  <2>3. CASE param.type = "file"
    BY <1>3, <2>1, <2>3, Zenon DEF ValueOf
  <2>4. CASE param.type = "enum"
    BY <1>3, <2>1, <2>4, Zenon DEF ValueOf
  <2> QED BY <1>3, <2>2, <2>3, <2>4, Zenon DEF FileKinds
<1>4. CASE param.type \notin LayerTypes \cup DestinationTypes \cup FileKinds \cup {"enum"}
  <2>1. param.type \notin {"fileDestination", "folderDestination", "file", "enum"}
    BY <1>4 DEF LayerTypes, FileKinds
  <2>2. v = first
    BY <1>4, <2>1, Zenon DEF ValueOf
  <2> QED BY <1>4, <2>1, <2>2, Zenon
<1> QED BY <1>1, <1>2, <1>3, <1>4

(* What conforming means, by the kind of the value.                               *)
LEMMA ConformsArms ==
  ASSUME NEW param, NEW v, NEW r
  PROVE  /\ v.t = "num" /\ param.type \in {"number", "distance", "scale"} =>
              (Conforms(param, v, r) <=>
                 /\ param.min # None => param.min <= v.n
                 /\ param.max # None => v.n <= param.max
                 /\ param.type = "number" /\ param.integer => v.n % 2 = 0)
         /\ v.t = "num" /\ param.type = "band" => (Conforms(param, v, r) <=> v.n >= 0 /\ v.n % 2 = 0)
         /\ v.t = "index" =>
              (Conforms(param, v, r) <=>
                 \A j \in DOMAIN v.at : \E i \in DOMAIN r.items :
                   r.items[i].id = param.name /\ Text(Said(r.items[i])) = Word(param.options[v.at[j]]))
         /\ v.t # "index" /\ ~(v.t = "num" /\ param.type \in {"number", "distance", "scale", "band"}) => Conforms(param, v, r)
<1>1. CASE v.t = "num" /\ param.type \in {"number", "distance", "scale"}
  BY <1>1 DEF Conforms
<1>2. CASE v.t = "num" /\ param.type = "band"
  BY <1>2 DEF Conforms
<1>3. CASE v.t = "index"
  BY <1>3 DEF Conforms
<1>4. CASE v.t # "index" /\ ~(v.t = "num" /\ param.type \in {"number", "distance", "scale", "band"})
  BY <1>4 DEF Conforms
<1> QED BY <1>1, <1>2, <1>3, <1>4

(* The name of a destination is that of an item of its own.                      *)
SinkAsked(p, v, r) ==
  v.t = "sink" => \E k \in DOMAIN r.items : r.items[k].id = p /\ v.name = Text(Said(r.items[k])).w

(* A source of selected features has a layer of the project, with a selection that *)
(* an input of the request asks for.                                              *)
SourceOK(v, ver, sel, r) ==
  v.t = "source" /\ v.selected =>
    /\ ver \in DOMAIN Versions /\ v.layer \in AllLayers
    /\ IsVector(ver, v.layer) => sel[v.layer] \in AskedBy(r, v.layer)

(* Selections change to those that the request asks for.                          *)
Reselected(sel, new, r) == \A l \in AllLayers : new[l] = sel[l] \/ new[l] \in AskedBy(r, l)

(* The index of an option that was asked for.                                     *)
LEMMA EnumConforms ==
  ASSUME NEW r, NEW param, param.type = "enum",
         NEW values, DOMAIN values \subseteq Nat, DOMAIN values # {}, GoodList(param, values, r)
  PROVE  Conforms(param, EnumValue(param, values), r) /\ EnumValue(param, values).t = "index"
<1> DEFINE v == EnumValue(param, values)
           read == IF param.multiple THEN DOMAIN values ELSE {Lowest(DOMAIN values)}
<1>1. read \subseteq DOMAIN values
  BY LowestPlace
<1> HIDE DEF read
<1>2. v = [t |-> "index", at |-> [k \in read |-> IndexOf(param.options, values[k])]]
  BY DEF EnumValue, read
<1> HIDE DEF v
<1>3. v.t = "index" /\ DOMAIN v.at = read /\ \A k \in read : v.at[k] = IndexOf(param.options, values[k])
  BY <1>2
<1>4. ASSUME NEW k \in read
      PROVE  \E i \in DOMAIN r.items :
               r.items[i].id = param.name /\ Text(Said(r.items[i])) = Word(param.options[v.at[k]])
  <2> DEFINE x == values[k]
             d == Said(r.items[k])
  <2>1. k \in DOMAIN r.items /\ r.items[k].id = param.name /\ Datum(d) /\ GoodValue(param, x, d)
    BY <1>1 DEF GoodList
  <2> HIDE DEF x, d
  <2>2. x = Text(d) /\ x.t = "word" /\ x.w \in ToSet(param.options)
    BY <2>1 DEF GoodValue
  <2>3. Datum(Text(d))
    BY <2>1, TextIs
  <2>4. Text(d) = Word(x.w)
    BY <2>2, <2>3 DEF Datum
  <2>5. param.options[IndexOf(param.options, x)] = x.w
    BY <2>2 DEF IndexOf, ToSet
  <2>6. v.at[k] = IndexOf(param.options, x)
    BY <1>3 DEF x
  <2> QED BY <2>1, <2>4, <2>5, <2>6 DEF d
<1>5. Conforms(param, v, r)
  BY <1>3, <1>4, ConformsArms
<1> QED BY <1>3, <1>5 DEF v

(* A layer with a selection, or without.                                          *)
LEMMA LayerSpec ==
  ASSUME NEW r, NEW k \in DOMAIN r.items, r.items[k].id \in Sources(r),
         NEW d, d = Text(Said(r.items[k])), Datum(Said(r.items[k])),
         NEW ver \in {None} \cup DOMAIN Versions, NEW sel, Selection(sel),
         NEW c, c = ParseLayerSpec(d, ver, sel), c.status # Failed
  PROVE  /\ c.value.t = "source" /\ Selection(c.sel) /\ Reselected(sel, c.sel, r)
         /\ SourceOK(c.value, ver, c.sel, r)
<1>1. CASE ~AsksSelection(d)
  <2>1. c.value = LayerValue(LayerName(d), FALSE) /\ c.sel = sel
    BY <1>1 DEF ParseLayerSpec
  <2> QED BY <2>1 DEF LayerValue, Reselected, SourceOK
<1>2. CASE AsksSelection(d)
  <2>1. HasLayer(ver, d.name) /\ ~(IsVector(ver, d.name) /\ "rect" \in d.select)
    BY <1>2 DEF ParseLayerSpec, Failure
  <2>2. c.value = LayerValue(d.name, TRUE) /\ c.sel = IF IsVector(ver, d.name) THEN SelectedBy(sel, d) ELSE sel
    BY <1>2, <2>1 DEF ParseLayerSpec
  <2>3. c.value.t = "source" /\ c.value.layer = d.name
    BY <2>2 DEF LayerValue
  <2>4. ver \in DOMAIN Versions /\ d.name \in AllLayers
    BY <2>1 DEF HasLayer, AllLayers
  <2>5. Expressions(d) \subseteq AskedBy(r, d.name)
    <3>1. d.t = "layer"
      BY <1>2 DEF AsksSelection
    <3>2. d = Said(r.items[k])
      BY <3>1, TextIs
    <3>3. d = r.items[k].data
      BY <3>1, <3>2 DEF Said, Null
    <3> QED BY <3>1, <3>3 DEF AskedBy
  <2>6. CASE ~IsVector(ver, d.name)
    BY <2>2, <2>3, <2>4, <2>6 DEF Reselected, SourceOK
  <2>7. CASE IsVector(ver, d.name)
    <3>1. "rect" \notin d.select /\ d.select # {}
      BY <1>2, <2>1, <2>7 DEF AsksSelection
    <3>2. PICK e : e = CHOOSE y \in Expressions(d) : TRUE
      OBVIOUS
    <3>3. e \in Expressions(d)
      BY <3>1, <3>2 DEF Expressions
    <3>4. c.sel = [sel EXCEPT ![d.name] = e]
      BY <2>2, <2>7, <3>2 DEF SelectedBy
    <3>5. DOMAIN sel = AllLayers /\ sel = [l \in AllLayers |-> sel[l]]
      BY DEF Selection
    <3> HIDE DEF AllLayers
    <3>6. c.sel = [l \in AllLayers |-> IF l = d.name THEN e ELSE sel[l]]
      BY <2>4, <3>4, <3>5
    <3>7. Selection(c.sel)
      BY <3>6 DEF Selection
    <3>8. c.sel[d.name] \in AskedBy(r, d.name)
      BY <2>4, <2>5, <3>3, <3>6
    <3> QED BY <2>3, <2>4, <3>6, <3>7, <3>8 DEF Reselected, SourceOK
  <2> QED BY <2>6, <2>7
<1> QED BY <1>1, <1>2

(* What one input becomes.                                                        *)
LEMMA ConvertedIs ==
  ASSUME NEW r, NEW param \in ToSet(Params(r.idents[1])),
         NEW values, DOMAIN values \subseteq Nat, GoodList(param, values, r),
         NEW ver \in {None} \cup DOMAIN Versions, NEW sel, Selection(sel),
         NEW c, c = Converted(param, values, ver, sel), c.status # Failed
  PROVE  /\ Conforms(param, c.value, r) /\ SinkAsked(param.name, c.value, r)
         /\ Selection(c.sel) /\ Reselected(sel, c.sel, r) /\ SourceOK(c.value, ver, c.sel, r)
<1> DEFINE first == FirstOf(values)
           k == Lowest(DOMAIN values)
           d == Said(r.items[k])
<1>0. ~Raises(param, values)
  BY DEF Converted, Failure
<1>1. CASE DOMAIN values = {}
  <2>1. c.value = Null /\ c.sel = sel
    BY <1>0, <1>1 DEF Converted
  <2>2. c.value.t = "null"
    BY <2>1 DEF Null
  <2> QED BY <2>1, <2>2, ConformsArms DEF SinkAsked, SourceOK, Reselected
<1>2. ASSUME DOMAIN values # {}
      PROVE  first = values[k] /\ k \in DOMAIN r.items /\ r.items[k].id = param.name
             /\ Datum(d) /\ GoodValue(param, first, d)
  <2>1. k \in DOMAIN values
    BY <1>2, LowestPlace
  <2>2. first = values[k]
    BY DEF FirstOf
  <2> HIDE DEF k, first
  <2> QED BY <2>1, <2>2 DEF GoodList
<1> HIDE DEF first, k, d
<1>3. CASE DOMAIN values # {} /\ param.type = "source"
  <2>1. c = ParseLayerSpec(first, ver, sel)
    BY <1>0, <1>3 DEF Converted, first
  <2>2. first = Text(d)
    BY <1>2, <1>3 DEF GoodValue, LayerTypes, VectorTypes
  <2>3. param.name \in Sources(r)
    BY <1>3 DEF Sources
  <2>4. /\ c.value.t = "source" /\ Selection(c.sel) /\ Reselected(sel, c.sel, r)
        /\ SourceOK(c.value, ver, c.sel, r)
    BY <1>2, <1>3, <2>1, <2>2, <2>3, LayerSpec DEF d
  <2> QED BY <2>4, ConformsArms DEF SinkAsked
<1>4. CASE DOMAIN values # {} /\ param.type # "source"
  <2> DEFINE v == ValueOf(param, values)
  <2>1. c.value = v /\ c.sel = sel
    BY <1>0, <1>4 DEF Converted
  <2>2. Selection(c.sel) /\ Reselected(sel, c.sel, r)
    BY <2>1 DEF Reselected
  <2>3. /\ Conforms(param, v, r) /\ SinkAsked(param.name, v, r)
        /\ SourceOK(v, ver, sel, r)
    <3> USE <1>2, <1>4
    <3>1. CASE param.type \in LayerTypes /\ Several(values)
      <4>1. v.t = "layers"
        <5>1. v = [t |-> "layers", layers |-> {LayerName(values[j]) : j \in DOMAIN values}]
          BY <3>1, ValueArms, Zenon
        <5> HIDE DEF v
        <5> QED BY <5>1
      <4> HIDE DEF v
      <4> QED BY <4>1, ConformsArms DEF SinkAsked, SourceOK
    <3>2. CASE param.type \in LayerTypes /\ ~Several(values)
      <4>1. v = LayerValue(LayerName(first), FALSE)
        BY <3>2, ValueArms DEF first
      <4>2. v.t = "source" /\ ~v.selected
        BY <4>1 DEF LayerValue
      <4> HIDE DEF v
      <4> QED BY <4>2, ConformsArms DEF SinkAsked, SourceOK
    <3>3. CASE param.type \in DestinationTypes
      <4>1. v = SinkValue(param, first)
        BY <3>3, ValueArms DEF first
      <4>2. v.t = "sink" /\ v.name = first.w
        BY <4>1 DEF SinkValue
      <4>3. first = Text(d)
        BY <3>3 DEF GoodValue
      <4> HIDE DEF v
      <4> QED BY <4>2, <4>3, ConformsArms DEF SinkAsked, SourceOK, d
    <3>4. CASE param.type \in FileKinds
      <4>1. v.t = "file"
        <5>1. CASE param.type = "file"
          <6>1. v = [t |-> "file", file |-> param.name]
            BY <5>1, ValueArms
          <6> QED BY <6>1
        <5>2. CASE param.type # "file"
          <6>1. v = [t |-> "file", file |-> first.w]
            BY <3>4, <5>2, ValueArms DEF FileKinds, first
          <6> QED BY <6>1
        <5> QED BY <5>1, <5>2
      <4> HIDE DEF v
      <4> QED BY <4>1, ConformsArms DEF SinkAsked, SourceOK
    <3>5. CASE param.type = "enum"
      <4>1. v = EnumValue(param, values)
        BY <3>5, ValueArms
      <4> HIDE DEF v
      <4> QED BY <3>5, <4>1, EnumConforms DEF SinkAsked, SourceOK
    <3>6. CASE param.type \notin LayerTypes \cup DestinationTypes \cup FileKinds \cup {"enum"}
      <4>1. v = first
        BY <3>6, ValueArms, Zenon DEF first
      <4>2. GoodValue(param, v, d)
        BY <4>1
      <4> HIDE DEF v
      <4>3. v.t \notin {"index", "sink", "source"}
        BY <4>2 DEF GoodValue, PlainValues
      <4>4. Conforms(param, v, r)
        BY <4>2, <4>3, ConformsArms DEF GoodValue
      <4> QED BY <4>3, <4>4 DEF SinkAsked, SourceOK
    <3> QED BY <3>1, <3>2, <3>3, <3>4, <3>5, <3>6
  <2> QED BY <2>1, <2>2, <2>3
<1> QED BY <1>1, <1>3, <1>4

(* The conversion goes through the parameters one after the other.                *)
LEMMA ConvertSteps ==
  ASSUME NEW params, Len(params) \in Nat, NEW inputs, NEW ver, NEW sel
  PROVE  \E a : /\ a[0] = [status |-> Ok, values |-> <<>>, sel |-> sel]
                /\ \A n \in 1 .. Len(params) : a[n] = ConvertNext(params[n], inputs, ver, a[n - 1])
                /\ ConvertAll(params, inputs, ver, sel) = a[Len(params)]
<1> DEFINE N == Len(params)
           base == [status |-> Ok, values |-> <<>>, sel |-> sel]
           Step(n, acc) == ConvertNext(params[n], inputs, ver, acc)
           Upto(a, m) == a = [n \in 0 .. m |-> IF n = 0 THEN base ELSE Step(n, a[n - 1])]
           Good == {m \in 0 .. N : \E a : Upto(a, m)}
<1> HIDE DEF base, Step
<1>1. 0 \in Good
  <2> DEFINE a == [n \in 0 .. 0 |-> base]
  <2>1. Upto(a, 0)
    OBVIOUS
  <2> HIDE DEF a, Upto
  <2>2. \E x : Upto(x, 0)
    BY <2>1
  <2> QED BY <2>2
<1>2. ASSUME NEW m \in 1 .. N, m - 1 \in Good
      PROVE  m \in Good
  <2>1. PICK a : Upto(a, m - 1)
    BY <1>2
  <2> DEFINE b == [n \in 0 .. m |-> IF n = m THEN Step(m, a[m - 1]) ELSE a[n]]
  <2>2. \A n \in 0 .. m - 1 : a[n] = IF n = 0 THEN base ELSE Step(n, a[n - 1])
    <3>1. a = [n \in 0 .. m - 1 |-> IF n = 0 THEN base ELSE Step(n, a[n - 1])]
      BY <2>1
    <3> HIDE DEF Upto
    <3> QED BY <3>1
  <2>3. DOMAIN b = 0 .. m /\ \A n \in 0 .. m : b[n] = IF n = m THEN Step(m, a[m - 1]) ELSE a[n]
    OBVIOUS
  <2>4. \A n \in 0 .. m : b[n] = IF n = 0 THEN base ELSE Step(n, b[n - 1])
    <3> SUFFICES ASSUME NEW n \in 0 .. m PROVE b[n] = IF n = 0 THEN base ELSE Step(n, b[n - 1])
      OBVIOUS
    <3> HIDE DEF b, Upto
    <3>1. CASE n = 0
      <4>1. n \in 0 .. m - 1 /\ n # m
        BY <3>1
      <4> QED BY <2>2, <2>3, <3>1, <4>1
    <3>2. CASE n # 0
      <4>1. n - 1 \in 0 .. m /\ n - 1 # m
        BY <3>2
      <4>2. b[n - 1] = a[n - 1]
        BY <2>3, <4>1
      <4>3. CASE n = m
        BY <2>3, <3>2, <4>2, <4>3
      <4>4. CASE n # m
        <5>1. n \in 0 .. m - 1
          BY <4>4
        <5> QED BY <2>2, <2>3, <3>2, <4>2, <4>4, <5>1
      <4> QED BY <4>3, <4>4
    <3> QED BY <3>1, <3>2
  <2>5. Upto(b, m)
    <3>1. b = [n \in 0 .. m |-> b[n]]
      OBVIOUS
    <3> HIDE DEF b
    <3> QED BY <2>4, <3>1
  <2> HIDE DEF b, Upto
  <2>6. \E x : Upto(x, m)
    BY <2>5
  <2> QED BY <2>6
<1> HIDE DEF Good
<1>3. 0 .. N \subseteq Good
  BY <1>1, <1>2, NoLeastFailure
<1>4. N \in Good
  BY <1>3
<1> DEFINE after == CHOOSE a : Upto(a, N)
<1>5. Upto(after, N)
  <2>1. \E a : Upto(a, N)
    BY <1>4 DEF Good
  <2> HIDE DEF Upto
  <2> QED BY <2>1
<1>6. ConvertAll(params, inputs, ver, sel) = after[N]
  BY Zenon DEF ConvertAll, Step, base
<1> HIDE DEF after
<1>7. \A n \in 0 .. N : after[n] = IF n = 0 THEN base ELSE Step(n, after[n - 1])
  <2>1. after = [n \in 0 .. N |-> IF n = 0 THEN base ELSE Step(n, after[n - 1])]
    BY <1>5
  <2> HIDE DEF Upto
  <2> QED BY <2>1
<1>8. after[0] = base /\ \A n \in 1 .. N : after[n] = Step(n, after[n - 1])
  <2>1. 0 \in 0 .. N
    OBVIOUS
  <2> HIDE DEF Upto
  <2> QED BY <1>7, <2>1
<1> QED BY <1>6, <1>8 DEF base, Step

(* The values that a conversion has made so far.                                  *)
GoodValues(r, values) ==
  \A p \in DOMAIN values : \E i \in DOMAIN Params(r.idents[1]) :
    /\ Params(r.idents[1])[i].name = p
    /\ Conforms(Params(r.idents[1])[i], values[p], r)
AllAsked(r, values) == \A p \in DOMAIN values : SinkAsked(p, values[p], r)
SourcesOK(r, values, ver, sel) == \A p \in DOMAIN values : SourceOK(values[p], ver, sel, r)

(* A whole conversion: good values, and selections that the request asked for.    *)
LEMMA ConvertAllIs ==
  ASSUME NEW r \in Requests, Known(r), NEW inputs, GoodInputs(r, inputs),
         NEW ver \in {None} \cup DOMAIN Versions, NEW sel, Selection(sel)
  PROVE  LET c == ConvertAll(Params(r.idents[1]), inputs, ver, sel) IN
         /\ Selection(c.sel)
         /\ c.status # Failed => GoodValues(r, c.values) /\ AllAsked(r, c.values) /\ SourcesOK(r, c.values, ver, c.sel)
<1> DEFINE params == Params(r.idents[1])
           Good(x) ==
             /\ Selection(x.sel)
             /\ x.status # Failed => GoodValues(r, x.values) /\ AllAsked(r, x.values) /\ SourcesOK(r, x.values, ver, x.sel)
<1>1. DOMAIN params = 1 .. Len(params) /\ Len(params) \in Nat
  BY KnownParams
<1>2. PICK a : /\ a[0] = [status |-> Ok, values |-> <<>>, sel |-> sel]
               /\ \A n \in 1 .. Len(params) : a[n] = ConvertNext(params[n], inputs, ver, a[n - 1])
               /\ ConvertAll(params, inputs, ver, sel) = a[Len(params)]
  <2> HIDE DEF params
  <2> QED BY <1>1, ConvertSteps
<1>3. Good(a[0])
  <2>1. a[0].sel = sel /\ DOMAIN a[0].values = {}
    BY <1>2
  <2> QED BY <2>1 DEF GoodValues, AllAsked, SourcesOK
<1>4. ASSUME NEW n \in 1 .. Len(params), Good(a[n - 1])
      PROVE  Good(a[n])
  <2> DEFINE acc == a[n - 1]
             param == params[n]
             c == Converted(param, inputs[param.name], ver, acc.sel)
             next == [status |-> Ok, values |-> With(acc.values, param.name, c.value), sel |-> c.sel]
  <2>0. n \in DOMAIN params /\ Good(acc)
    BY <1>1, <1>4
  <2>1. a[n] = ConvertNext(param, inputs, ver, acc)
    BY <1>2
  <2>2. CASE acc.status = Failed \/ param.name \notin DOMAIN inputs
    <3>1. a[n] = acc
      <4> HIDE DEF acc, param
      <4> QED BY <2>1, <2>2 DEF ConvertNext
    <3> QED BY <1>4, <3>1
  <2>3. CASE ~(acc.status = Failed \/ param.name \notin DOMAIN inputs) /\ c.status = Failed
    <3>1. a[n] = [status |-> Failed, values |-> acc.values, sel |-> acc.sel]
      <4> HIDE DEF acc, param
      <4> QED BY <2>1, <2>3 DEF ConvertNext
    <3>2. a[n].status = Failed /\ a[n].sel = acc.sel
      BY <3>1
    <3> QED BY <1>4, <3>2
  <2>4. CASE ~(acc.status = Failed \/ param.name \notin DOMAIN inputs) /\ c.status # Failed
    <3>1. a[n] = next
      <4> HIDE DEF acc, param
      <4> QED BY <2>1, <2>4 DEF ConvertNext
    <3>2. DOMAIN inputs[param.name] \subseteq Nat /\ GoodList(param, inputs[param.name], r)
      BY <2>0, <2>4 DEF GoodInputs
    <3>3. Selection(acc.sel) /\ GoodValues(r, acc.values) /\ AllAsked(r, acc.values) /\ SourcesOK(r, acc.values, ver, acc.sel)
      BY <2>0, <2>4
    <3>4. /\ Conforms(param, c.value, r) /\ SinkAsked(param.name, c.value, r)
          /\ Selection(c.sel) /\ Reselected(acc.sel, c.sel, r) /\ SourceOK(c.value, ver, c.sel, r)
      <4>1. param \in ToSet(Params(r.idents[1]))
        BY <2>0 DEF ToSet
      <4> HIDE DEF acc, param
      <4> QED BY <2>4, <3>2, <3>3, <4>1, ConvertedIs
    <3> DEFINE values == With(acc.values, param.name, c.value)
    <3>5. a[n].values = values /\ a[n].sel = c.sel
      <4> HIDE DEF acc, param, c, values
      <4> QED BY <3>1 DEF values
    <3>6. /\ DOMAIN values = DOMAIN acc.values \cup {param.name}
          /\ values[param.name] = c.value
          /\ \A p \in DOMAIN acc.values : p # param.name => values[p] = acc.values[p]
      <4> HIDE DEF acc, param, c
      <4> QED BY DEF With
    <3>7. params[n].name = param.name
      OBVIOUS
    <3>8. param = Params(r.idents[1])[n] /\ n \in DOMAIN Params(r.idents[1])
      BY <2>0
    <3> HIDE DEF acc, param, c, values, params
    <3>9. GoodValues(r, values)
      BY <3>3, <3>4, <3>6, <3>8 DEF GoodValues
    <3>10. AllAsked(r, values)
      BY <3>3, <3>4, <3>6 DEF AllAsked
    <3>11. \A x : SourceOK(x, ver, acc.sel, r) => SourceOK(x, ver, c.sel, r)
      BY <3>4 DEF SourceOK, Reselected
    <3>12. SourcesOK(r, values, ver, c.sel)
      BY <3>3, <3>4, <3>6, <3>11 DEF SourcesOK
    <3> QED BY <3>4, <3>5, <3>9, <3>10, <3>12
  <2> HIDE DEF acc, param, c
  <2> QED BY <2>2, <2>3, <2>4
<1> DEFINE Holds == {n \in 0 .. Len(params) : Good(a[n])}
<1>5. 0 \in Holds /\ \A n \in 1 .. Len(params) : n - 1 \in Holds => n \in Holds
  <2> HIDE DEF Good, params
  <2> QED BY <1>1, <1>3, <1>4
<1> HIDE DEF Holds, params, Good
<1>6. 0 .. Len(params) \subseteq Holds
  BY <1>1, <1>5, NoLeastFailure
<1>7. Good(a[Len(params)])
  BY <1>1, <1>6 DEF Holds
<1> QED BY <1>2, <1>7 DEF Good, params

-----------------------------------------------------------------------------
(* The document of a job *)

(* The entry of an output in the document is found by its name.                   *)
LEMMA DocumentOf ==
  ASSUME NEW alg, Distinct(alg.outputs), NEW values, NEW load,
         NEW i \in DOMAIN OutputsOf(alg.outputs), IsLayer(OutputsOf(alg.outputs)[i])
  PROVE  LET out == OutputsOf(alg.outputs)[i] IN
         OutputDocument(alg, values, load)[out.name].layers = Announced(alg, values, out, load)
<1> DEFINE outs == OutputsOf(alg.outputs)
           out == outs[i]
           Doc(o) == CASE IsLayer(o) -> [as |-> "map", layers |-> Announced(alg, values, o, load)]
                       [] o.type \in FileOutputs -> [as |-> IF ByValue(o) THEN "content" ELSE "store", layers |-> {}]
                       [] OTHER -> [as |-> "literal", layers |-> {}]
<1>1. \A j \in DOMAIN outs : j \in DOMAIN alg.outputs /\ outs[j] = alg.outputs[j]
  BY DEF OutputsOf
<1>2. \A j \in DOMAIN outs : outs[j].name = out.name => j = i
  BY <1>1 DEF Distinct
<1>3. outs[CHOOSE j \in DOMAIN outs : outs[j].name = out.name] = out
  BY <1>2
<1>4. OutputDocument(alg, values, load) =
        [name \in {outs[j].name : j \in DOMAIN outs} |-> Doc(outs[CHOOSE j \in DOMAIN outs : outs[j].name = name])]
  BY Zenon DEF OutputDocument
<1>5. OutputDocument(alg, values, load)[out.name] = Doc(out)
  <2>1. out.name \in {outs[j].name : j \in DOMAIN outs}
    OBVIOUS
  <2> HIDE DEF outs, Doc, out
  <2> QED BY <1>3, <1>4, <2>1
<1>6. Doc(out) = [as |-> "map", layers |-> Announced(alg, values, out, load)]
  <2>1. out.type \notin FileOutputs
    BY DEF IsLayer, LayerOutputs, FileOutputs
  <2>2. IsLayer(out)
    OBVIOUS
  <2> HIDE DEF out
  <2> QED BY <2>1, <2>2, Zenon
<1> HIDE DEF Doc, outs, out
<1> QED BY <1>5, <1>6 DEF out, outs

(* What LayersNamedAsAsked says of a job that is done.                             *)
WellNamed(r, alg, values, load, document, published) ==
  LET outs == OutputsOf(alg.outputs)
      layers == {i \in DOMAIN outs : IsLayer(outs[i])}
      announced == UNION {document[outs[i].name].layers : i \in layers}
      lost == {i \in layers : load[outs[i].name] # "ok"}
  IN /\ \A i \in layers : outs[i].name \in Sinks(values) =>
          \E k \in DOMAIN r.items :
            /\ r.items[k].id = outs[i].name
            /\ document[outs[i].name].layers = {Text(Said(r.items[k])).w}
     /\ published \subseteq announced
     /\ announced \subseteq published \cup UNION {document[outs[i].name].layers : i \in lost}

(* What is announced and what is published.                                       *)
LEMMA NamedAsAsked ==
  ASSUME NEW r, NEW alg, Distinct(alg.outputs), NEW values, AllAsked(r, values), NEW load
  PROVE  WellNamed(r, alg, values, load, OutputDocument(alg, values, load), PublishedLayers(alg, values, load))
<1> DEFINE outs == OutputsOf(alg.outputs)
           layers == {i \in DOMAIN outs : IsLayer(outs[i])}
           document == OutputDocument(alg, values, load)
           published == PublishedLayers(alg, values, load)
           names(i) == document[outs[i].name].layers
           given(i) == Published(alg, values, outs[i], load)
<1>1. \A i \in layers : names(i) = Announced(alg, values, outs[i], load)
  BY DocumentOf
<1>2. published = UNION {given(i) : i \in layers}
  BY DEF PublishedLayers
<1> HIDE DEF layers, document, published, outs
<1>3. ASSUME NEW i \in layers, outs[i].name \in Sinks(values)
      PROVE  \E k \in DOMAIN r.items : r.items[k].id = outs[i].name /\ names(i) = {Text(Said(r.items[k])).w}
  <2>1. names(i) = {values[outs[i].name].name}
    BY <1>1, <1>3 DEF Announced, CompletionName
  <2>2. outs[i].name \in DOMAIN values /\ values[outs[i].name].t = "sink"
    BY <1>3 DEF Sinks
  <2> QED BY <2>1, <2>2 DEF AllAsked, SinkAsked
<1>4. \A i \in layers : given(i) \subseteq names(i)
  BY <1>1 DEF Published
<1>5. \A i \in layers : load[outs[i].name] = "ok" => given(i) = names(i)
  BY <1>1 DEF Published, Listed
<1> HIDE DEF names, given
<1>6. published \subseteq UNION {names(i) : i \in layers}
  BY <1>2, <1>4
<1>7. UNION {names(i) : i \in layers} \subseteq
        published \cup UNION {names(i) : i \in {i \in layers : load[outs[i].name] # "ok"}}
  BY <1>2, <1>5
<1> QED BY <1>3, <1>6, <1>7 DEF WellNamed, names, layers, document, published, outs

-----------------------------------------------------------------------------
(* What the schema of an input allows is accepted *)

(* A literal within its schema passes the validation of its input.                *)
LEMMA LiteralAccepted ==
  ASSUME NEW def, def.class = "literal", LiteralShape(def),
         NEW p, p.uom = None, Datum(p.data), InSchema(def, p.data)
  PROVE  IsOk(ValidateInput(def, p)) /\ p.data.t # "unread"
<1> DEFINE d == p.data
           c == Convert(def.type, d)
<1>0. \A s, x : Verdict(s, x).value = x /\ Verdict(s, x).status = s
  BY DEF Verdict
<1>1. JsonType(def.type, d)
  BY DEF InSchema
<1>2. /\ def.allowed.kind = "any" => TRUE
      /\ def.allowed.kind = "range" => SchemaBounds(def.allowed, d.n)
      /\ def.allowed.kind \in {"value", "layer"} => d.t = "word" /\ d.w \in def.allowed.values
  BY DEF InSchema
<1>3. d.t # "unread" /\ c = Verdict(Ok, c.value) /\ (def.type = "boolean" \/ c.value = d)
      /\ (def.type \in NumberTypes \cup {"integer"} => d.t = "num" /\ d.n \in Int)
      /\ def.type \in NumberTypes \cup {"integer", "string", "boolean"}
  <2>1. CASE def.type = "string"
    <3>1. d.t \in {"word", "layer"}
      BY <1>1, <2>1, Zenon DEF JsonType
    <3>2. c = Verdict(Ok, Text(d)) /\ Text(d) = d
      BY <2>1, <3>1, ConvertArms, TextIs
    <3> HIDE DEF c, d
    <3> QED BY <1>0, <2>1, <3>1, <3>2 DEF NumberTypes
  <2>2. CASE def.type = "boolean"
    <3>1. d.t = "bool"
      BY <1>1, <2>2, Zenon DEF JsonType
    <3>2. c = Verdict(Ok, [t |-> "bool", b |-> ~IsFalse(d)])
      BY <2>2, ConvertArms, Zenon
    <3> HIDE DEF c, d
    <3> QED BY <1>0, <2>2, <3>1, <3>2 DEF NumberTypes
  <2>3. CASE def.type = "integer"
    <3>1. d.t = "num" /\ d.n % 2 = 0
      BY <1>1, <2>3, Zenon DEF JsonType
    <3>2. d = [t |-> "num", n |-> d.n] /\ d.n \in Int
      BY <3>1 DEF Datum
    <3>3. c = Verdict(Ok, [AsNumber(d) EXCEPT !.n = Whole(@)])
      BY <2>3, <3>1, ConvertArms, Zenon
    <3> HIDE DEF c, d
    <3>4. AsNumber(d) = d /\ Whole(d.n) = d.n
      BY <3>1, <3>2 DEF AsNumber, Whole
    <3>5. [d EXCEPT !.n = Whole(d.n)] = d
      BY <3>2, <3>4
    <3>6. c = Verdict(Ok, d)
      BY <3>3, <3>4, <3>5
    <3> QED BY <1>0, <2>3, <3>1, <3>2, <3>6 DEF NumberTypes
  <2>4. CASE def.type \notin {"string", "boolean", "integer"}
    <3>1. def.type \in NumberTypes /\ d.t = "num"
      BY <1>1, <2>4, Zenon DEF JsonType, NumberTypes
    <3>2. d.n \in Int
      BY <3>1 DEF Datum
    <3>3. c = Verdict(Ok, AsNumber(d))
      BY <3>1, ConvertArms
    <3> HIDE DEF c, d
    <3>4. c = Verdict(Ok, d)
      BY <3>1, <3>3 DEF AsNumber
    <3> QED BY <1>0, <3>1, <3>2, <3>4
  <2> QED BY <2>1, <2>2, <2>3, <2>4
<1>4. Allowed(def.allowed, c.value) = Ok
  <2>1. CASE def.type = "boolean"
    <3>1. def.allowed.kind = "any"
      BY <2>1 DEF LiteralShape
    <3> QED BY <3>1, AllowedArms
  <2>2. CASE def.type = "string"
    <3>1. def.allowed.kind \in {"any", "value", "layer"} /\ c.value = d
      BY <1>3, <2>2 DEF LiteralShape
    <3> HIDE DEF c, d
    <3>2. d.t = "word" => LayerName(d) = d.w
      BY DEF LayerName
    <3>3. CASE def.allowed.kind = "any"
      BY <3>3, AllowedArms
    <3>4. CASE def.allowed.kind = "value"
      <4>1. d.t = "word" /\ d.w \in def.allowed.values
        BY <1>2, <3>4
      <4> QED BY <3>1, <3>4, <4>1, AllowedArms, PassesIs
    <3>5. CASE def.allowed.kind = "layer"
      <4>1. d.t = "word" /\ d.w \in def.allowed.values
        BY <1>2, <3>5
      <4>2. Allowed(def.allowed, d) = Passes(LayerName(d) \in def.allowed.values)
        BY <3>5, AllowedArms
      <4> QED BY <3>1, <3>2, <4>1, <4>2 DEF Passes
    <3> QED BY <3>1, <3>3, <3>4, <3>5
  <2>3. CASE def.type \in NumberTypes \cup {"integer"}
    <3>1. PICK min, max \in Int \cup {None} : def.allowed = Between("num", min, max)
      BY <2>3 DEF LiteralShape, NumberTypes
    <3>2. d.t = "num" /\ d.n \in Int /\ c.value = d
      BY <1>3, <2>3 DEF NumberTypes
    <3>3. SchemaBounds(def.allowed, d.n)
      BY <1>2, <3>1 DEF Between
    <3> HIDE DEF c, d
    <3>4. (min # None => min <= d.n) /\ (max # None => d.n <= max)
      BY <3>1, <3>2, <3>3 DEF SchemaBounds, Between
    <3>5. RangeVerdict(def.allowed, d) = Ok
      <4>1. RangeVerdict(def.allowed, d) = Passes((min # None => min <= d.n) /\ (max # None => d.n <= max))
        BY <3>1, <3>2, RangeArms
      <4> QED BY <3>4, <4>1 DEF Passes
    <3>6. def.allowed.kind = "range"
      BY <3>1 DEF Between
    <3> QED BY <3>2, <3>5, <3>6, AllowedArms
  <2> QED BY <1>3, <2>1, <2>2, <2>3
<1>5. ValidLiteral(def, p) = Verdict(Allowed(def.allowed, c.value), c.value)
  <2>1. UomVerdict(def, p.uom) = Ok
    BY DEF UomVerdict
  <2>2. IsOk(c)
    <3> HIDE DEF c
    <3> QED BY <1>0, <1>3 DEF IsOk
  <2> QED BY <2>1, <2>2, Zenon DEF ValidLiteral
<1>6. IsOk(ValidLiteral(def, p))
  <2> HIDE DEF c
  <2> QED BY <1>0, <1>4, <1>5 DEF IsOk
<1> QED BY <1>3, <1>6, ClassArms

(* A document within the schemas is read, and its literals are accepted.          *)
LEMMA DescribedIsValid ==
  ASSUME NEW r \in Requests, Known(r), r.enc = "json", NEW vers,
         AsDescribed(r.items, InputsOf(Params(r.idents[1]), vers))
  PROVE  IsOk(Inputs(r, vers))
<1> DEFINE params == Params(r.idents[1])
           defs == InputsOf(params, vers)
           items == r.items
           own(id) == ItemsOf(items, id)
           declared == {k \in DOMAIN items : Declared(defs, items[k].id)}
           json == [k \in declared |-> FromJson(ClassOf(defs, items[k].id), items[k])]
           Own(id) == own(id) \cap Filled(items)
           inputs == [id \in Ids(items, declared) |-> [k \in Own(id) |-> json[k].value]]
           P(k) == Parsed(items[k].data, items[k].uom, None, None, None)
<1>0. \A x : Verdict(Ok, x).status = Ok /\ Verdict(Ok, x).value = x
  BY DEF Verdict
<1>1. DOMAIN items \subseteq Nat /\ \A k \in DOMAIN items : Datum(items[k].data)
  BY KnownParams DEF ItemOK
<1>2. /\ DOMAIN defs \subseteq Nat /\ DistinctIds(defs)
      /\ \A i \in DOMAIN defs : defs[i].min \in Nat /\ (defs[i].class = "literal" => LiteralShape(defs[i]))
  <2>1. /\ DOMAIN defs = {i \in DOMAIN params : Described(params[i])}
        /\ DOMAIN defs \subseteq Nat /\ DistinctIds(defs)
        /\ \A i \in DOMAIN defs : defs[i] = InputOf(params[i], vers[i])
    BY DefsAre
  <2>2. \A i \in DOMAIN params : Bounded(params[i])
    BY KnownParams
  <2> HIDE DEF defs, params
  <2> QED BY <2>1, <2>2, InputIs
<1>3. \A i \in DOMAIN defs :
        /\ Cardinality(own(defs[i].id)) \in defs[i].min .. defs[i].max
        /\ own(defs[i].id) # {} => defs[i].class = "literal"
        /\ \A k \in own(defs[i].id) : items[k].form = "raw" /\ items[k].uom = None /\ InSchema(defs[i], items[k].data)
  BY Zenon DEF AsDescribed
<1> HIDE DEF defs
<1>4. \A id : \A k : k \in own(id) <=> k \in DOMAIN items /\ items[k].id = id
  BY DEF ItemsOf
<1>5. \A k \in declared : \E i \in DOMAIN defs :
        /\ defs[i].id = items[k].id /\ k \in own(defs[i].id)
        /\ ClassOf(defs, items[k].id) = "literal" /\ items[k].form = "raw"
  <2> SUFFICES ASSUME NEW k \in declared
               PROVE  \E i \in DOMAIN defs :
                        /\ defs[i].id = items[k].id /\ k \in own(defs[i].id)
                        /\ ClassOf(defs, items[k].id) = "literal" /\ items[k].form = "raw"
    OBVIOUS
  <2>1. PICK i \in DOMAIN defs : defs[i].id = items[k].id
    BY DEF Declared
  <2>2. k \in own(defs[i].id) /\ k \in DOMAIN items
    BY <1>4, <2>1
  <2>3. (CHOOSE j \in DOMAIN defs : defs[j].id = items[k].id) = i
    BY <1>2, <2>1 DEF DistinctIds
  <2>4. ClassOf(defs, items[k].id) = defs[i].class
    BY <2>3, Zenon DEF ClassOf
  <2> HIDE DEF own
  <2> QED BY <1>3, <2>1, <2>2, <2>4
<1>6. \A k \in declared : json[k] = Verdict(Ok, P(k))
  <2> SUFFICES ASSUME NEW k \in declared PROVE json[k] = Verdict(Ok, P(k))
    OBVIOUS
  <2>1. ClassOf(defs, items[k].id) = "literal" /\ items[k].form = "raw"
    <3> HIDE DEF declared, own
    <3> QED BY <1>5
  <2>2. FromJson(ClassOf(defs, items[k].id), items[k]) = Verdict(Ok, P(k))
    BY <2>1, Zenon DEF FromJson
  <2> QED BY <2>2
<1>7. FirstBad(json) = Ok
  <2>1. DOMAIN json = declared /\ declared \subseteq Nat
    BY <1>1
  <2>2. \A k \in declared : json[k].status = Ok
    <3> HIDE DEF json, declared, P
    <3> QED BY <1>0, <1>6, Zenon
  <2> HIDE DEF json, declared
  <2> QED BY <2>1, <2>2, AllOk
<1>8. Inputs(r, vers) = ValidateRequest(defs, inputs)
  <2>1. RequestInputs(r.enc, r.items, defs) = Verdict(Ok, inputs)
    BY <1>7, Zenon DEF RequestInputs
  <2>2. IsOk(RequestInputs(r.enc, r.items, defs)) /\ RequestInputs(r.enc, r.items, defs).value = inputs
    <3> HIDE DEF inputs
    <3> QED BY <2>1 DEF Verdict, IsOk
  <2> HIDE DEF inputs
  <2>3. Inputs(r, vers) = Validate(r.enc, r.items, defs)
    BY DEF Inputs, defs
  <2> QED BY <2>2, <2>3, Zenon DEF Validate
<1>9. \A k \in declared : json[k].value = P(k) /\ P(k).data = items[k].data /\ P(k).uom = items[k].uom
  <2>1. \A k : P(k).data = items[k].data /\ P(k).uom = items[k].uom
    BY DEF Parsed
  <2> HIDE DEF json, declared, P
  <2> QED BY <1>0, <1>6, <2>1, Zenon
<1>10. ASSUME NEW i \in DOMAIN defs
       PROVE  InputVerdict(defs[i], inputs) = Ok
  <2> DEFINE def == defs[i]
             id == def.id
             list == inputs[id]
  <2>1. \A k \in own(id) : k \in declared
    BY <1>4 DEF Declared
  <2>2. id \in DOMAIN inputs <=> own(id) # {}
    <3>1. \A k \in declared : k \in DOMAIN items
      OBVIOUS
    <3>2. DOMAIN inputs = Ids(items, declared)
      OBVIOUS
    <3> HIDE DEF own, declared, inputs
    <3> QED BY <1>4, <2>1, <3>1, <3>2 DEF Ids
  <2>3. CASE own(id) = {}
    <3>1. 0 \in def.min .. def.max /\ def.min \in Nat
      BY <1>2, <1>3, <2>3, FS_EmptySet
    <3>2. def.min = 0
      BY <3>1
    <3>3. Missing(def, inputs)
      BY <2>2, <2>3 DEF Missing
    <3> HIDE DEF inputs
    <3> QED BY <3>2, <3>3 DEF InputVerdict, Passes
  <2>4. CASE own(id) # {}
    <3>1. Own(id) = own(id)
      <4>1. \A k \in own(id) : items[k].form = "raw"
        BY <1>3
      <4> HIDE DEF own
      <4> QED BY <1>4, <4>1 DEF Filled
    <3>2. list = [k \in own(id) |-> json[k].value]
      <4>1. id \in Ids(items, declared)
        BY <2>2, <2>4
      <4>2. list = [k \in Own(id) |-> json[k].value]
        <5> HIDE DEF Own, json, declared, id
        <5> QED BY <4>1
      <4> QED BY <3>1, <4>2, Zenon
    <3>3. DOMAIN list = own(id) /\ \A k \in own(id) : list[k] = P(k) /\ k \in DOMAIN items
      <4> HIDE DEF json, inputs, own, P, declared
      <4> QED BY <1>4, <1>9, <2>1, <3>2
    <3>4. \A k \in own(id) : IsOk(ValidateInput(def, P(k))) /\ P(k).data.t # "unread"
      <4> SUFFICES ASSUME NEW k \in own(id)
                   PROVE  IsOk(ValidateInput(def, P(k))) /\ P(k).data.t # "unread"
        OBVIOUS
      <4>1. k \in declared /\ k \in DOMAIN items
        BY <2>1, <3>3
      <4>2. P(k).uom = None /\ InSchema(def, P(k).data) /\ Datum(P(k).data)
        <5>1. items[k].uom = None /\ InSchema(def, items[k].data)
          BY <1>3
        <5> HIDE DEF P, declared, own
        <5> QED BY <1>1, <1>9, <4>1, <5>1
      <4>3. def.class = "literal" /\ LiteralShape(def)
        BY <1>2, <1>3, <2>4
      <4> HIDE DEF P, def
      <4> QED BY <4>2, <4>3, LiteralAccepted
    <3>5. ~Malformed(list)
      <4> HIDE DEF list, P, own
      <4> QED BY <3>3, <3>4 DEF Malformed
    <3>6. ~(Cardinality(DOMAIN list) < def.min)
      <4>1. Cardinality(own(id)) \in def.min .. def.max /\ def.min \in Nat
        BY <1>2, <1>3
      <4> HIDE DEF list, own
      <4> QED BY <3>3, <4>1
    <3>7. FirstBad([k \in DOMAIN list |-> ValidateInput(def, list[k])]) = Ok
      <4> DEFINE checked == [k \in DOMAIN list |-> ValidateInput(def, list[k])]
      <4>1. DOMAIN checked = own(id) /\ \A k \in own(id) : checked[k] = ValidateInput(def, P(k))
        <5> HIDE DEF list, P, own
        <5> QED BY <3>3
      <4>2. own(id) \subseteq Nat
        BY <1>1, <1>4
      <4> HIDE DEF checked, list, P, own
      <4>3. FirstBad(checked) = Ok
        BY <3>4, <4>1, <4>2, AllOk DEF IsOk
      <4> QED BY <4>3 DEF checked
    <3>8. ~Missing(def, inputs)
      BY <2>2, <2>4 DEF Missing
    <3>9. InputVerdict(def, inputs) = FirstBad([k \in DOMAIN list |-> ValidateInput(def, list[k])])
      <4> HIDE DEF def, inputs
      <4> QED BY <3>5, <3>6, <3>8, Zenon DEF InputVerdict
    <3> QED BY <3>7, <3>9
  <2> QED BY <2>3, <2>4
<1>11. ValidateRequest(defs, inputs).status = Ok
  <2> DEFINE verdicts == [i \in DOMAIN defs |-> Verdict(InputVerdict(defs[i], inputs), None)]
  <2>1. FirstBad(verdicts) = Ok
    <3>1. DOMAIN verdicts = DOMAIN defs /\ \A i \in DOMAIN defs : verdicts[i].status = InputVerdict(defs[i], inputs)
      BY DEF Verdict
    <3> HIDE DEF verdicts, inputs
    <3> QED BY <1>2, <1>10, <3>1, AllOk
  <2>2. \E values : ValidateRequest(defs, inputs) = Verdict(Ok, values)
    <3> HIDE DEF inputs
    <3> QED BY <2>1, Zenon DEF ValidateRequest
  <2> QED BY <2>2 DEF Verdict
<1> QED BY <1>8, <1>11 DEF IsOk

-----------------------------------------------------------------------------
(* The invariant *)

(* What a request was read as, what its inputs became, and the document made of   *)
(* them; a request that is refused has inputs that are not accepted.              *)
GoodRun(j) ==
  /\ j.pc \in {"accepted", "reading", "ready", "converted", "ran", "done"} => j.req \in Requests /\ Known(j.req)
  /\ j.pc \in {"accepted", "reading", "ready"} => IsOk(Inputs(j.req, j.vers))
  /\ j.pc = "ready" => j.ver \in {None} \cup DOMAIN Versions
  /\ j.pc = "converted" => GoodValues(j.req, j.values) /\ SourcesOK(j.req, j.values, View(j.ver), j.sel)
  /\ j.pc \in {"converted", "ran", "done"} => AllAsked(j.req, j.values)
  /\ j.pc = "done" =>
       /\ j.document = OutputDocument(Algorithms[j.req.idents[1]], j.values, j.load)
       /\ j.published = PublishedLayers(Algorithms[j.req.idents[1]], j.values, j.load)
  /\ j.pc \in {"refused", "crashed"} /\ "req" \in DOMAIN j =>
       j.req \in Requests /\ Known(j.req) /\ ~IsOk(Inputs(j.req, j.vers))
JobRuns == \A s \in Slots : GoodRun(job[s])

(* The cache of a worker has a selection for each layer, and the project of the   *)
(* job that is about to make its own.                                             *)
SelKept == \A w \in Workers : \A e \in ToSet(worker[w]) : Selection(e.sel)
Kept(j, c) == j.ver # None => \E e \in ToSet(c) : e.key = Key(j.req)
KeyKept == \A s \in Slots : job[s].pc = "ready" => Kept(job[s], worker[job[s].worker])

(* The inductive invariant of the four properties below.                          *)
ValueInv == JobRuns /\ SelKept /\ KeyKept

(* A job in any of these states is bound by nothing.                              *)
LEMMA Refusal ==
  ASSUME NEW x, x.pc \in {"refused", "crashed", "described", "failed", "waiting", "idle"},
         x.pc \in {"refused", "crashed"} => "req" \notin DOMAIN x
  PROVE  GoodRun(x)
BY DEF GoodRun

(* The descriptions lead to a good run, which has no project yet.                 *)
LEMMA AnswerRun ==
  ASSUME NEW r \in Requests, Known(r), NEW found
  PROVE  GoodRun(Answered(r, found)) /\ Answered(r, found).pc # "ready"
<1> DEFINE vers == found[r.idents[1]]
           v == Inputs(r, vers)
           a == Answered(r, found)
<1>1. CASE r.kind = "describe"
  <2>1. a = [pc |-> "described"]
    BY <1>1 DEF Answered
  <2> HIDE DEF a
  <2> QED BY <2>1 DEF GoodRun, a
<1>2. CASE r.kind # "describe" /\ IsOk(v)
  <2>1. a = [pc |-> "accepted", req |-> r, vers |-> vers]
    BY <1>2 DEF Answered
  <2>2. a.pc = "accepted" /\ a.req = r /\ a.vers = vers
    BY <2>1
  <2> HIDE DEF a, vers
  <2> QED BY <1>2, <2>2 DEF GoodRun, a
<1>3. CASE r.kind # "describe" /\ ~IsOk(v)
  <2>1. a = [pc |-> IF v.status = Invalid THEN "refused" ELSE "crashed", req |-> r, vers |-> vers]
    BY <1>3 DEF Answered
  <2>2. a.pc \in {"refused", "crashed"} /\ a.req = r /\ a.vers = vers
    <3> HIDE DEF v
    <3> QED BY <2>1
  <2> HIDE DEF a, vers
  <2> QED BY <1>3, <2>2 DEF GoodRun, a
<1> QED BY <1>1, <1>2, <1>3

(* One job changes, and perhaps the cache of the worker that runs it.             *)
LEMMA ValueChange ==
  ASSUME NEW s \in Slots, NEW x, NEW w \in Workers, NEW c, TypeInv, ValueInv,
         job' = [job EXCEPT ![s] = x], GoodRun(x),
         worker' = [worker EXCEPT ![w] = c],
         \A e \in ToSet(c) : Selection(e.sel),
         \A t \in Slots \ {s} : job[t].pc = "ready" => job[t].worker # w,
         x.pc = "ready" => x.worker = w /\ Kept(x, c)
  PROVE  ValueInv'
<1>1. job' = [t \in Slots |-> IF t = s THEN x ELSE job[t]]
  BY DEF TypeInv, JobTypes
<1>2. worker' = [u \in Workers |-> IF u = w THEN c ELSE worker[u]]
  BY DEF TypeInv, CacheTypes
<1>3. JobRuns'
  <2>1. ASSUME NEW t \in Slots PROVE GoodRun(job'[t])
    <3>1. job'[t] = x \/ job'[t] = job[t]
      BY <1>1
    <3> QED BY <3>1 DEF ValueInv, JobRuns
  <2> QED BY <2>1 DEF JobRuns, GoodRun
<1>4. SelKept'
  <2>1. ASSUME NEW u \in Workers, NEW e \in ToSet(worker'[u]) PROVE Selection(e.sel)
    BY <1>2 DEF ValueInv, SelKept
  <2> QED BY <2>1 DEF SelKept
<1>5. KeyKept'
  <2>1. ASSUME NEW t \in Slots, job'[t].pc = "ready" PROVE Kept(job'[t], worker'[job'[t].worker])
    <3>1. CASE t = s
      BY <1>1, <1>2, <2>1, <3>1
    <3>2. CASE t # s
      <4>1. job'[t] = job[t] /\ job[t].pc = "ready" /\ job[t].worker # w
        BY <1>1, <2>1, <3>2
      <4>2. job[t].worker \in Workers
        BY <4>1 DEF TypeInv, JobTypes, GoodJob, Busy
      <4>3. worker'[job[t].worker] = worker[job[t].worker]
        BY <1>2, <4>1, <4>2
      <4> QED BY <4>1, <4>3 DEF ValueInv, KeyKept
    <3> QED BY <3>1, <3>2
  <2> QED BY <2>1 DEF KeyKept, Kept
<1> QED BY <1>3, <1>4, <1>5 DEF ValueInv

(* One job changes and the caches stay.                                           *)
LEMMA RunChange ==
  ASSUME TypeInv, ValueInv, NEW s \in Slots, NEW x, job' = [job EXCEPT ![s] = x], GoodRun(x),
         UNCHANGED worker,
         x.pc = "ready" => Kept(x, worker[x.worker])
  PROVE  ValueInv'
<1>1. job' = [t \in Slots |-> IF t = s THEN x ELSE job[t]]
  BY DEF TypeInv, JobTypes
<1>2. JobRuns'
  <2>1. ASSUME NEW t \in Slots PROVE GoodRun(job'[t])
    <3>1. job'[t] = x \/ job'[t] = job[t]
      BY <1>1
    <3> QED BY <3>1 DEF ValueInv, JobRuns
  <2> QED BY <2>1 DEF JobRuns, GoodRun
<1>3. SelKept'
  BY DEF ValueInv, SelKept
<1>4. KeyKept'
  <2>1. ASSUME NEW t \in Slots, job'[t].pc = "ready" PROVE Kept(job'[t], worker[job'[t].worker])
    <3>1. job'[t] = x \/ job'[t] = job[t]
      BY <1>1
    <3> QED BY <2>1, <3>1 DEF ValueInv, KeyKept
  <2> QED BY <2>1 DEF KeyKept, Kept
<1> QED BY <1>2, <1>3, <1>4 DEF ValueInv

(* What is put into a cache is in it.                                             *)
LEMMA PutHas ==
  ASSUME NEW c, Projects(c), NEW e, Project(e)
  PROVE  e \in ToSet(Put(c, e, Capacity))
<1> DEFINE E == ToSet(c) \cup {e}
           d == Without(c, e.key)
           f == Fitted(d, Capacity)
<1>1. c \in Seq(E) /\ OneEach(c)
  <2>1. c \in Seq(ToSet(c))
    BY DEF Projects
  <2> QED BY <2>1 DEF Projects, CacheOK, OneEach
<1> HIDE DEF E
<1>2. d \in Seq(E) /\ OneEach(d)
  BY <1>1, WithoutKey
<1> HIDE DEF d
<1>3. f \in Seq(E)
  BY <1>2, FittedCache, CapacityAssumption
<1> HIDE DEF f
<1>4. Append(f, e)[Len(f) + 1] = e /\ Len(f) + 1 \in DOMAIN Append(f, e)
  BY <1>3
<1>5. e \in ToSet(Append(f, e))
  BY <1>4 DEF ToSet
<1> QED BY <1>5 DEF Put, d, f

(* A project that was just read has no selection yet.                             *)
LEMMA NothingSelected == Selection(NoSelections)
BY DEF Selection, NoSelections, AllLayers

LEMMA ValueInit == Init => ValueInv
<1> SUFFICES ASSUME Init PROVE ValueInv
  OBVIOUS
<1>1. \A s \in Slots : job[s].pc = "idle"
  BY DEF Init, Idle
<1>2. \A w \in Workers : ToSet(worker[w]) = {}
  BY DEF Init, ToSet
<1>3. JobRuns
  BY <1>1, Refusal DEF JobRuns
<1>4. SelKept /\ KeyKept
  BY <1>1, <1>2 DEF SelKept, KeyKept
<1> QED BY <1>3, <1>4 DEF ValueInv

(* Nothing that the invariant is about changes.                                   *)
LEMMA SameJobs ==
  ASSUME ValueInv, UNCHANGED <<job, worker>>
  PROVE  ValueInv'
BY DEF ValueInv, JobRuns, SelKept, KeyKept, Kept, GoodRun

(* A request is refused, answered, or waits for the loader.                       *)
LEMMA ReceiveValues ==
  ASSUME TypeInv, ValueInv, NEW s \in Slots, NEW r \in Requests, Receive(s, r)
  PROVE  ValueInv'
<1>1. UNCHANGED worker
  BY Received
<1>2. ASSUME NEW x, job' = [job EXCEPT ![s] = x], GoodRun(x), x.pc # "ready"
      PROVE  ValueInv'
  BY <1>1, <1>2, RunChange
<1>3. CASE job' = [job EXCEPT ![s] = [pc |-> "refused"]]
  <2>1. GoodRun([pc |-> "refused"])
    BY Refusal
  <2> QED BY <1>2, <1>3, <2>1
<1>4. ASSUME Known(r), NEW found, job' = [job EXCEPT ![s] = Answered(r, found)]
      PROVE  ValueInv'
  BY <1>2, <1>4, AnswerRun
<1>5. CASE job' = [job EXCEPT ![s] = [pc |-> "waiting", req |-> r]]
  <2>1. GoodRun([pc |-> "waiting", req |-> r])
    BY Refusal
  <2> QED BY <1>2, <1>5, <2>1
<1> QED BY <1>3, <1>4, <1>5, Received

(* The loader gives up, goes on, or has the descriptions.                         *)
LEMMA LoaderValues ==
  ASSUME TypeInv, ValueInv, LoaderStats \/ LoaderReads \/ LoaderAnswers
  PROVE  ValueInv'
<1>1. UNCHANGED worker /\ asked # Absent
  BY DEF LoaderStats, LoaderReads, LoaderAnswers
<1>2. PICK s : s = asked.slot
  OBVIOUS
<1>3. s \in Slots /\ job[s].req \in Requests /\ Known(job[s].req)
  <2>1. s \in Slots
    BY <1>1, <1>2 DEF TypeInv, AskedTypes, Question
  <2>2. job[s].pc = "waiting"
    BY <1>1, <1>2, <2>1 DEF TypeInv, OneQuestion
  <2> QED BY <2>1, <2>2 DEF TypeInv, JobTypes, GoodJob
<1>4. CASE UNCHANGED job
  BY <1>1, <1>4, SameJobs
<1>5. CASE LoaderGivesUp
  <2> DEFINE x == [pc |-> IF job[s].req.kind = "describe" THEN "described" ELSE "crashed"]
  <2>1. job' = [job EXCEPT ![s] = x]
    BY <1>2, <1>5 DEF LoaderGivesUp
  <2>2. x.pc \in {"described", "crashed"} /\ "req" \notin DOMAIN x
    OBVIOUS
  <2> HIDE DEF x
  <2>3. GoodRun(x)
    BY <2>2, Refusal
  <2> QED BY <1>1, <1>3, <2>1, <2>2, <2>3, RunChange
<1>6. CASE LoaderAnswers
  <2>1. job' = [job EXCEPT ![s] = Answered(job[s].req, asked.found)]
    BY <1>2, <1>6 DEF LoaderAnswers
  <2>2. GoodRun(Answered(job[s].req, asked.found)) /\ Answered(job[s].req, asked.found).pc # "ready"
    BY <1>3, AnswerRun
  <2>3. PICK x : x = Answered(job[s].req, asked.found)
    OBVIOUS
  <2> QED BY <1>1, <1>3, <2>1, <2>2, <2>3, RunChange
<1>7. LoaderStats \/ LoaderReads => LoaderGivesUp \/ UNCHANGED job
  BY DEF LoaderStats, LoaderReads
<1> QED BY <1>4, <1>5, <1>6, <1>7

(* A job gets its project: the one that is in the cache of its worker.            *)
LEMMA StartJobValues ==
  ASSUME TypeInv, ValueInv, NEW s \in Slots, NEW w \in Workers, StartJob(s, w)
  PROVE  ValueInv'
<1> DEFINE r == job[s].req
           p == PlaceOf(r)
<1>1. job[s].pc = "accepted" /\ ~Running(w)
  BY Started
<1>2. PICK x :
        /\ job' = [job EXCEPT ![s] = x]
        /\ \/ UNCHANGED worker /\ x.pc = "failed"
           \/ UNCHANGED worker /\ x.pc = "ready" /\ x.req = r /\ x.vers = job[s].vers /\ x.worker = w /\ x.ver = None
           \/ /\ UNCHANGED worker
              /\ p \in Places /\ file[p] \in FileState
              /\ x.pc = "reading" /\ x.req = r /\ x.vers = job[s].vers /\ x.worker = w
              /\ x.stat = file[p] /\ x.floor = FloorOf(r)
           \/ \E e \in ToSet(worker[w]) :
                /\ p \in Places /\ file[p] \in FileState
                /\ Project(e) /\ e.key = Key(r) /\ ~(e.ts < file[p].mtime)
                /\ worker' = [worker EXCEPT ![w] = Put(worker[w], e, Capacity)]
                /\ x.pc = "ready" /\ x.req = r /\ x.vers = job[s].vers /\ x.worker = w
                /\ x.ver = e.ver /\ x.floor = FloorOf(r)
  BY Started
<1>3. r \in Requests /\ Known(r) /\ IsOk(Inputs(r, job[s].vers))
  BY <1>1 DEF ValueInv, JobRuns, GoodRun
<1>4. ASSUME x.pc \in {"reading", "ready"}, x.req = r, x.vers = job[s].vers,
             x.pc = "ready" => x.ver \in {None} \cup DOMAIN Versions
      PROVE  GoodRun(x)
  <2>1. x.req \in Requests /\ Known(x.req) /\ IsOk(Inputs(x.req, x.vers))
    BY <1>3, <1>4
  <2> QED BY <1>4, <2>1 DEF GoodRun
<1>5. CASE UNCHANGED worker /\ x.pc = "failed"
  <2>1. GoodRun(x)
    BY <1>5, Refusal
  <2>2. x.pc # "ready" /\ job' = [job EXCEPT ![s] = x]
    BY <1>2, <1>5
  <2> QED BY <1>5, <2>1, <2>2, RunChange
<1>6. CASE UNCHANGED worker /\ x.pc = "ready" /\ x.req = r /\ x.vers = job[s].vers /\ x.ver = None
  <2>1. Kept(x, worker[x.worker])
    BY <1>6 DEF Kept
  <2> QED BY <1>2, <1>4, <1>6, <2>1, RunChange
<1>7. CASE UNCHANGED worker /\ x.pc = "reading" /\ x.req = r /\ x.vers = job[s].vers
  BY <1>2, <1>4, <1>7, RunChange
<1>8. ASSUME NEW e \in ToSet(worker[w]), Project(e), e.key = Key(r),
             worker' = [worker EXCEPT ![w] = Put(worker[w], e, Capacity)],
             x.pc = "ready", x.req = r, x.vers = job[s].vers, x.worker = w, x.ver = e.ver
      PROVE  ValueInv'
  <2>1. PICK c : c = Put(worker[w], e, Capacity)
    OBVIOUS
  <2>2. Projects(worker[w])
    BY DEF TypeInv, CacheTypes
  <2>3. e \in ToSet(c) /\ ToSet(c) \subseteq ToSet(worker[w]) \cup {e}
    BY <1>8, <2>1, <2>2, PutHas, PutProject
  <2>4. \A y \in ToSet(c) : Selection(y.sel)
    BY <2>3 DEF ValueInv, SelKept
  <2>5. Kept(x, c)
    BY <1>8, <2>3 DEF Kept
  <2>6. GoodRun(x)
    <3>1. e.ver \in DOMAIN Versions
      BY <1>8 DEF Project
    <3> QED BY <1>4, <1>8, <3>1
  <2>7. \A t \in Slots \ {s} : job[t].pc = "ready" => job[t].worker # w
    BY <1>1 DEF Running, Busy
  <2>8. worker' = [worker EXCEPT ![w] = c]
    BY <1>8, <2>1
  <2>9. job' = [job EXCEPT ![s] = x]
    BY <1>2
  <2>10. x.pc = "ready" => x.worker = w /\ Kept(x, c)
    BY <1>8, <2>5
  <2> HIDE DEF r
  <2> QED BY <1>1, <2>4, <2>6, <2>7, <2>8, <2>9, <2>10, ValueChange, Zenon
<1> QED BY <1>2, <1>5, <1>6, <1>7, <1>8

(* A worker reads a project: no selection is made in it yet.                      *)
LEMMA ReadProjectValues ==
  ASSUME TypeInv, ValueInv, NEW s \in Slots, ReadProject(s)
  PROVE  ValueInv'
<1> DEFINE r == job[s].req
           w == job[s].worker
           f == file[PlaceOf(r)]
<1>1. job[s].pc = "reading" /\ w \in Workers
  BY ReadDone
<1>2. PICK x :
        /\ job' = [job EXCEPT ![s] = x]
        /\ \/ UNCHANGED worker /\ x.pc = "failed"
           \/ \E e :
                /\ Project(e) /\ e.key = Key(r) /\ e.ts = job[s].stat.mtime /\ e.sel = NoSelections
                /\ e.ver = IF f.exists THEN f.ver ELSE 0
                /\ worker' = [worker EXCEPT ![w] = Put(worker[w], e, Capacity)]
                /\ x.pc = "ready" /\ x.req = r /\ x.vers = job[s].vers /\ x.worker = w
                /\ x.ver = e.ver /\ x.floor = job[s].floor
  BY ReadDone
<1>3. r \in Requests /\ Known(r) /\ IsOk(Inputs(r, job[s].vers))
  BY <1>1 DEF ValueInv, JobRuns, GoodRun
<1>4. CASE UNCHANGED worker /\ x.pc = "failed"
  <2>1. GoodRun(x)
    BY <1>4, Refusal
  <2>2. x.pc # "ready" /\ job' = [job EXCEPT ![s] = x]
    BY <1>2, <1>4
  <2> QED BY <1>4, <2>1, <2>2, RunChange
<1>5. ASSUME NEW e, Project(e), e.key = Key(r), e.sel = NoSelections,
             worker' = [worker EXCEPT ![w] = Put(worker[w], e, Capacity)],
             x.pc = "ready", x.req = r, x.vers = job[s].vers, x.worker = w, x.ver = e.ver
      PROVE  ValueInv'
  <2>1. PICK c : c = Put(worker[w], e, Capacity)
    OBVIOUS
  <2>2. Projects(worker[w])
    BY <1>1 DEF TypeInv, CacheTypes
  <2>3. e \in ToSet(c) /\ ToSet(c) \subseteq ToSet(worker[w]) \cup {e}
    BY <1>5, <2>1, <2>2, PutHas, PutProject
  <2>4. \A y \in ToSet(c) : Selection(y.sel)
    BY <1>1, <1>5, <2>3, NothingSelected DEF ValueInv, SelKept
  <2>5. Kept(x, c)
    BY <1>5, <2>3 DEF Kept
  <2>6. GoodRun(x)
    <3>1. e.ver \in DOMAIN Versions
      BY <1>5 DEF Project
    <3>2. x.req \in Requests /\ Known(x.req) /\ IsOk(Inputs(x.req, x.vers))
      BY <1>3, <1>5
    <3> QED BY <1>5, <3>1, <3>2 DEF GoodRun
  <2>7. \A t \in Slots \ {s} : job[t].pc = "ready" => job[t].worker # w
    BY <1>1 DEF TypeInv, OneJob, Busy
  <2>8. worker' = [worker EXCEPT ![w] = c]
    BY <1>5, <2>1
  <2>9. job' = [job EXCEPT ![s] = x]
    BY <1>2
  <2>10. x.pc = "ready" => x.worker = w /\ Kept(x, c)
    BY <1>1, <1>5, <2>5
  <2>11. PICK u : u = w
    OBVIOUS
  <2>12. /\ u \in Workers /\ worker' = [worker EXCEPT ![u] = c]
         /\ x.pc = "ready" => x.worker = u /\ Kept(x, c)
         /\ \A t \in Slots \ {s} : job[t].pc = "ready" => job[t].worker # u
    BY <1>1, <2>7, <2>8, <2>10, <2>11
  <2> HIDE DEF r, w
  <2> QED BY <2>4, <2>6, <2>9, <2>12, ValueChange, Zenon
<1> QED BY <1>2, <1>4, <1>5

(* Selections made in a project, and a worker that starts again.                  *)
LEMMA SelectedHas ==
  ASSUME NEW c, Projects(c), NEW sel, \A e \in ToSet(c) : Selection(e.sel), Selection(sel)
  PROVE  \A e \in ToSet(Selected(c, sel)) : Selection(e.sel)
<1> DEFINE d == Selected(c, sel)
           n == Len(c)
<1>1. c \in Seq(ToSet(c)) /\ DOMAIN c = 1 .. n
  BY DEF Projects
<1>2. DOMAIN d = DOMAIN c /\ \A i \in DOMAIN c : d[i] = IF i = n THEN [c[n] EXCEPT !.sel = sel] ELSE c[i]
  BY <1>1 DEF Selected
<1> HIDE DEF d
<1>3. ASSUME NEW i \in DOMAIN c PROVE Selection(d[i].sel)
  <2>1. c[i] \in ToSet(c)
    BY DEF ToSet
  <2>2. CASE i = n
    <3>1. c[n] = [key |-> c[n].key, ver |-> c[n].ver, ts |-> c[n].ts, sel |-> c[n].sel]
      BY <2>1, <2>2 DEF Projects, Project
    <3>2. d[i] = [c[n] EXCEPT !.sel = sel]
      BY <1>2, <2>2
    <3>3. d[i].sel = sel
      BY <3>1, <3>2
    <3> QED BY <3>3
  <2>3. CASE i # n
    BY <1>2, <2>1, <2>3
  <2> QED BY <2>2, <2>3
<1> QED BY <1>2, <1>3 DEF ToSet, d

(* A worker that starts again has no project, and no job.                         *)
LEMMA WorkerRestartsValues ==
  ASSUME TypeInv, ValueInv, NEW w \in Workers, WorkerRestarts(w)
  PROVE  ValueInv'
<1>1. UNCHANGED job /\ worker' = [worker EXCEPT ![w] = <<>>] /\ ~Running(w)
  BY DEF WorkerRestarts
<1>2. worker' = [u \in Workers |-> IF u = w THEN <<>> ELSE worker[u]] /\ ToSet(<<>>) = {}
  BY <1>1 DEF TypeInv, CacheTypes, ToSet
<1>3. JobRuns'
  BY <1>1 DEF ValueInv, JobRuns, GoodRun
<1>4. SelKept'
  BY <1>2 DEF ValueInv, SelKept
<1>5. KeyKept'
  <2>1. ASSUME NEW t \in Slots, job[t].pc = "ready"
        PROVE  Kept(job[t], worker'[job[t].worker])
    <3>1. job[t].worker \in Workers /\ job[t].worker # w
      BY <1>1, <2>1 DEF Running, Busy, TypeInv, JobTypes, GoodJob
    <3>2. worker'[job[t].worker] = worker[job[t].worker]
      BY <1>2, <3>1
    <3> QED BY <2>1, <3>2 DEF ValueInv, KeyKept
  <2> QED BY <1>1, <2>1 DEF KeyKept, Kept
<1> QED BY <1>3, <1>4, <1>5 DEF ValueInv

(* What a job that is ready converts: inputs that were accepted, in the project   *)
(* of its worker.                                                                 *)
LEMMA ReadyToConvert ==
  ASSUME TypeInv, ValueInv, NEW s \in Slots, job[s].pc = "ready"
  PROVE  /\ job[s].req \in Requests /\ Known(job[s].req)
         /\ GoodInputs(job[s].req, Given(s))
         /\ View(job[s].ver) \in {None} \cup DOMAIN Versions
         /\ Selection(CachedSelection(s))
<1> DEFINE r == job[s].req
           w == job[s].worker
<1>1. GoodRun(job[s]) /\ Kept(job[s], worker[w]) /\ w \in Workers
  BY DEF ValueInv, JobRuns, KeyKept, TypeInv, JobTypes, GoodJob, Busy
<1>2. r \in Requests /\ Known(r) /\ IsOk(Inputs(r, job[s].vers)) /\ job[s].ver \in {None} \cup DOMAIN Versions
  BY <1>1 DEF GoodRun
<1>3. GoodInputs(r, Given(s))
  BY <1>2, GivenValues DEF Given
<1>4. View(job[s].ver) \in {None} \cup DOMAIN Versions
  BY <1>2 DEF View
<1>5. Selection(CachedSelection(s))
  <2>1. CASE job[s].ver = None
    BY <2>1, NothingSelected DEF CachedSelection
  <2>2. CASE job[s].ver # None
    <3>1. PICK e \in ToSet(worker[w]) : e.key = Key(r)
      BY <1>1, <2>2 DEF Kept
    <3>2. At(worker[w], Key(r)) # {}
      BY <3>1 DEF At, ToSet
    <3>3. Peek(worker[w], Key(r)) \in ToSet(worker[w])
      BY <3>2, PeekCache
    <3>4. CachedSelection(s) = Peek(worker[w], Key(r)).sel
      BY <2>2 DEF CachedSelection
    <3> QED BY <1>1, <3>3, <3>4 DEF ValueInv, SelKept
  <2> QED BY <2>1, <2>2
<1> QED BY <1>2, <1>3, <1>4, <1>5

(* What the inputs become, and the selections that stay in the project.           *)
LEMMA ConvertInputsValues ==
  ASSUME TypeInv, ValueInv, NEW s \in Slots, ConvertInputs(s)
  PROVE  ValueInv'
<1>1. job[s].pc = "ready"
  BY DEF ConvertInputs
<1>2. PICK r, w, ver, c :
        /\ r = job[s].req /\ w = job[s].worker /\ ver = View(job[s].ver)
        /\ c = ConvertAll(AlgOf(s).params, Given(s), ver, CachedSelection(s))
  OBVIOUS
<1>3. w \in Workers
  BY <1>1, <1>2 DEF TypeInv, JobTypes, GoodJob, Busy
<1>4. /\ worker' = IF job[s].ver = None THEN worker
                   ELSE [worker EXCEPT ![w] = [@ EXCEPT ![Len(worker[w])].sel = c.sel]]
      /\ IF c.status = Failed THEN Fails(s)
         ELSE job' = [job EXCEPT ![s] = [pc |-> "converted", req |-> @.req, vers |-> @.vers, worker |-> w,
                        ver |-> @.ver, floor |-> @.floor, values |-> c.values, sel |-> c.sel]]
  BY <1>2 DEF ConvertInputs
<1>5. r \in Requests /\ Known(r) /\ GoodInputs(r, Given(s)) /\ ver \in {None} \cup DOMAIN Versions
        /\ Selection(CachedSelection(s))
  BY <1>1, <1>2, ReadyToConvert
<1>6. /\ Selection(c.sel)
      /\ c.status # Failed => GoodValues(r, c.values) /\ AllAsked(r, c.values) /\ SourcesOK(r, c.values, ver, c.sel)
  <2>1. PICK inputs, sel : inputs = Given(s) /\ sel = CachedSelection(s)
    OBVIOUS
  <2>2. c = ConvertAll(Params(r.idents[1]), inputs, ver, sel)
    BY <1>2, <2>1 DEF AlgOf, Params
  <2> QED BY <1>5, <2>1, <2>2, ConvertAllIs
<1>7. PICK x : job' = [job EXCEPT ![s] = x] /\ GoodRun(x) /\ x.pc # "ready"
  <2>1. CASE c.status = Failed
    <3>1. PICK x : x = [pc |-> "failed"]
      OBVIOUS
    <3>2. job' = [job EXCEPT ![s] = x] /\ x.pc = "failed"
      BY <1>4, <2>1, <3>1 DEF Fails
    <3>3. GoodRun(x)
      BY <3>2, Refusal
    <3> QED BY <3>2, <3>3
  <2>2. CASE c.status # Failed
    <3> DEFINE x == [pc |-> "converted", req |-> r, vers |-> job[s].vers, worker |-> w,
                     ver |-> job[s].ver, floor |-> job[s].floor, values |-> c.values, sel |-> c.sel]
    <3>1. job' = [job EXCEPT ![s] = x]
      <4>1. job' = [job EXCEPT ![s] = [pc |-> "converted", req |-> job[s].req, vers |-> job[s].vers, worker |-> w,
                     ver |-> job[s].ver, floor |-> job[s].floor, values |-> c.values, sel |-> c.sel]]
        BY <1>4, <2>2, Zenon
      <4> QED BY <1>2, <4>1
    <3>2. x.pc = "converted" /\ x.req = r /\ x.values = c.values /\ x.ver = job[s].ver /\ x.sel = c.sel
      OBVIOUS
    <3> HIDE DEF x
    <3>3. GoodRun(x)
      <4>1. GoodValues(x.req, x.values) /\ SourcesOK(x.req, x.values, View(x.ver), x.sel) /\ AllAsked(x.req, x.values)
        BY <1>2, <1>6, <2>2, <3>2
      <4> QED BY <1>5, <3>2, <4>1 DEF GoodRun
    <3> QED BY <3>1, <3>2, <3>3
  <2> QED BY <2>1, <2>2
<1>8. CASE job[s].ver = None
  BY <1>4, <1>7, <1>8, RunChange
<1>9. CASE job[s].ver # None
  <2>1. PICK old : old = worker[w] /\ Projects(old)
    BY <1>3 DEF TypeInv, CacheTypes
  <2>2. PICK d : d = [old EXCEPT ![Len(old)].sel = c.sel]
    OBVIOUS
  <2>3. worker' = [worker EXCEPT ![w] = d]
    BY <1>4, <1>9, <2>1, <2>2
  <2>4. \A e \in ToSet(d) : Selection(e.sel)
    <3>1. \A e \in ToSet(old) : Selection(e.sel)
      BY <1>3, <2>1 DEF ValueInv, SelKept
    <3>2. d = Selected(old, c.sel)
      BY <2>2 DEF Selected
    <3> QED BY <1>6, <2>1, <3>1, <3>2, SelectedHas
  <2>5. \A t \in Slots \ {s} : job[t].pc = "ready" => job[t].worker # w
    BY <1>1, <1>2 DEF TypeInv, OneJob, Busy
  <2>6. x.pc = "ready" => x.worker = w /\ Kept(x, d)
    BY <1>7
  <2> QED BY <1>3, <1>7, <2>3, <2>4, <2>5, <2>6, ValueChange
<1> QED BY <1>8, <1>9

(* The algorithm keeps the values, and the document is made of them.              *)
LEMMA RunAlgorithmValues ==
  ASSUME TypeInv, ValueInv, NEW s \in Slots, RunAlgorithm(s)
  PROVE  ValueInv'
<1>1. job[s].pc = "converted" /\ UNCHANGED worker
  BY DEF RunAlgorithm
<1>2. GoodRun(job[s])
  BY DEF ValueInv, JobRuns
<1>3. CASE Fails(s)
  <2>1. GoodRun([pc |-> "failed"])
    BY Refusal
  <2> QED BY <1>1, <1>3, <2>1, RunChange DEF Fails
<1>4. ASSUME NEW load, job' = [job EXCEPT ![s] = [pc |-> "ran", req |-> @.req, vers |-> @.vers, worker |-> @.worker,
                                 values |-> @.values, load |-> load]]
      PROVE  ValueInv'
  <2>1. PICK x : x = [pc |-> "ran", req |-> job[s].req, vers |-> job[s].vers, worker |-> job[s].worker,
                      values |-> job[s].values, load |-> load]
    OBVIOUS
  <2>2. x.pc = "ran" /\ x.req = job[s].req /\ x.values = job[s].values
    BY <2>1
  <2>3. job' = [job EXCEPT ![s] = x]
    BY <1>4, <2>1
  <2>4. GoodRun(x)
    <3>1. x.req \in Requests /\ Known(x.req) /\ AllAsked(x.req, x.values)
      BY <1>1, <1>2, <2>2 DEF GoodRun
    <3> QED BY <2>2, <3>1 DEF GoodRun
  <2> QED BY <1>1, <2>2, <2>3, <2>4, RunChange
<1> QED BY <1>3, <1>4 DEF RunAlgorithm

(* The document and the project of a job are made of its values.                  *)
LEMMA FinishValues ==
  ASSUME TypeInv, ValueInv, NEW s \in Slots, NEW written, Finish(s, written)
  PROVE  ValueInv'
<1>1. job[s].pc = "ran" /\ UNCHANGED worker
  BY DEF Finish
<1>2. GoodRun(job[s])
  BY DEF ValueInv, JobRuns
<1>3. CASE Fails(s)
  <2>1. GoodRun([pc |-> "failed"])
    BY Refusal
  <2> QED BY <1>1, <1>3, <2>1, RunChange DEF Fails
<1>4. CASE ~Fails(s)
  <2>1. PICK alg, document, published :
          /\ alg = Algorithms[job[s].req.idents[1]]
          /\ document = OutputDocument(alg, job[s].values, job[s].load)
          /\ published = PublishedLayers(alg, job[s].values, job[s].load)
    OBVIOUS
  <2>2. PICK x : x = [pc |-> "done", req |-> job[s].req, vers |-> job[s].vers, values |-> job[s].values,
                      load |-> job[s].load, document |-> document, published |-> published]
    OBVIOUS
  <2>3. job' = [job EXCEPT ![s] = x]
    BY <1>4, <2>1, <2>2, Zenon DEF Finish, AlgOf
  <2>4. /\ x.pc = "done" /\ x.req = job[s].req /\ x.values = job[s].values /\ x.load = job[s].load
        /\ x.document = document /\ x.published = published
    BY <2>2
  <2>5. GoodRun(x)
    <3>1. x.req \in Requests /\ Known(x.req) /\ AllAsked(x.req, x.values)
      BY <1>1, <1>2, <2>4 DEF GoodRun
    <3>2. /\ x.document = OutputDocument(Algorithms[x.req.idents[1]], x.values, x.load)
          /\ x.published = PublishedLayers(Algorithms[x.req.idents[1]], x.values, x.load)
      BY <2>1, <2>4
    <3> QED BY <2>4, <3>1, <3>2 DEF GoodRun
  <2> QED BY <1>1, <2>3, <2>4, <2>5, RunChange
<1> QED BY <1>3, <1>4

LEMMA ValueStep == TypeInv /\ ValueInv /\ [Next]_vars => ValueInv'
<1> SUFFICES ASSUME TypeInv, ValueInv, [Next]_vars PROVE ValueInv'
  OBVIOUS
<1>1. CASE UNCHANGED <<job, worker>>
  BY <1>1, SameJobs
<1>2. ASSUME NEW p \in Places, Vanish(p) \/ \E v \in Revisions[file[p].ver], t \in 1 .. MaxTime : Save(p, v, t)
      PROVE  ValueInv'
  BY <1>1, <1>2 DEF Vanish, Save
<1>3. ASSUME NEW s \in Slots, NEW r \in Requests, Receive(s, r)
      PROVE  ValueInv'
  BY <1>3, ReceiveValues
<1>4. CASE LoaderStats \/ LoaderReads \/ LoaderAnswers
  BY <1>4, LoaderValues
<1>5. ASSUME NEW ok, Reload(ok)
      PROVE  ValueInv'
  BY <1>1, <1>5 DEF Reload
<1>6. ASSUME NEW w \in Workers, WorkerRestarts(w)
      PROVE  ValueInv'
  BY <1>6, WorkerRestartsValues
<1>7. ASSUME NEW w \in Workers, NEW s \in Slots, StartJob(s, w)
      PROVE  ValueInv'
  BY <1>7, StartJobValues
<1>8. ASSUME NEW s \in Slots, ReadProject(s) \/ ConvertInputs(s) \/ RunAlgorithm(s)
      PROVE  ValueInv'
  BY <1>8, ReadProjectValues, ConvertInputsValues, RunAlgorithmValues
<1>9. ASSUME NEW s \in Slots, Close(s)
      PROVE  ValueInv'
  <2>1. UNCHANGED worker /\ job' = [job EXCEPT ![s] = Idle] /\ Idle.pc = "idle"
    BY <1>9 DEF Close, Idle
  <2>2. GoodRun(Idle)
    BY <2>1, Refusal
  <2> QED BY <2>1, <2>2, RunChange
<1>10. ASSUME NEW s \in Slots, NEW written \in BOOLEAN, Finish(s, written)
       PROVE  ValueInv'
  BY <1>10, FinishValues
<1>11. CASE UNCHANGED vars
  BY <1>1, <1>11 DEF vars
<1> QED BY <1>2, <1>3, <1>4, <1>5, <1>6, <1>7, <1>8, <1>9, <1>10, <1>11 DEF Next

LEMMA ValuesHold == Spec => []ValueInv
<1>1. Init => ValueInv
  BY ValueInit
<1>2. TypeInv /\ TypeInv' /\ ValueInv /\ [Next]_vars => ValueInv'
  BY ValueStep
<1> QED BY <1>1, <1>2, TypesHold, PTL DEF Spec

-----------------------------------------------------------------------------
(* What a run gives the algorithm and the client *)

(* The workers keep their projects from one job to the next, with the selections   *)
(* made in them: a source of selected features of a vector layer still has a        *)
(* selection that a source parameter of its own request made on that layer.        *)
THEOREM SelectionCorrect == Spec => []SelectionIsOwn
<1>1. ValueInv => SelectionIsOwn
  <2> SUFFICES ASSUME ValueInv, NEW s \in Slots, job[s].pc = "converted", NEW p \in DOMAIN job[s].values,
                      job[s].values[p].t = "source", job[s].values[p].selected,
                      IsVector(job[s].ver, job[s].values[p].layer)
               PROVE  job[s].sel[job[s].values[p].layer] \in AskedBy(job[s].req, job[s].values[p].layer)
    BY DEF SelectionIsOwn
  <2> DEFINE v == job[s].values[p]
  <2>1. SourceOK(v, View(job[s].ver), job[s].sel, job[s].req)
    BY DEF ValueInv, JobRuns, GoodRun, SourcesOK
  <2>2. View(job[s].ver) \in DOMAIN Versions
    BY <2>1 DEF SourceOK
  <2>3. View(job[s].ver) = job[s].ver
    BY <2>2, NoneAssumption, VersionsAssumption DEF View
  <2> QED BY <2>1, <2>3 DEF SourceOK
<1> QED BY <1>1, ValuesHold, PTL

(* Every value that QGIS gets is within the definition of its parameter, whatever   *)
(* form the client gave it and whatever the encoding: within the bounds, whole where *)
(* it must be, an option that was asked for.                                       *)
THEOREM ConformCorrect == Spec => []ParametersConform
<1>1. ValueInv => ParametersConform
  <2> SUFFICES ASSUME ValueInv, NEW s \in Slots, job[s].pc = "converted", NEW p \in DOMAIN job[s].values
               PROVE  Conforms(ParamNamed(AlgOf(s).params, p), job[s].values[p], job[s].req)
    BY DEF ParametersConform
  <2> DEFINE r == job[s].req
             params == Params(r.idents[1])
  <2>1. r \in Requests /\ Known(r) /\ GoodValues(r, job[s].values)
    BY DEF ValueInv, JobRuns, GoodRun
  <2>2. PICK i \in DOMAIN params : params[i].name = p /\ Conforms(params[i], job[s].values[p], r)
    BY <2>1 DEF GoodValues
  <2>3. Distinct(params)
    BY <2>1, KnownParams
  <2>4. AlgOf(s).params = params
    BY DEF AlgOf, Params
  <2> HIDE DEF params
  <2>5. ParamNamed(params, p) = params[i]
    BY <2>2, <2>3 DEF ParamNamed, Distinct
  <2> QED BY <2>2, <2>4, <2>5
<1> QED BY <1>1, ValuesHold, PTL

(* A JSON request whose literals are within the published schema of its process is  *)
(* neither refused nor makes the server fail: the two descriptions of an input agree. *)
THEOREM DescribedCorrect == Spec => []DescribedIsAccepted
<1>1. ValueInv => DescribedIsAccepted
  <2> SUFFICES ASSUME ValueInv, NEW s \in Slots, job[s].pc \in {"refused", "crashed"},
                      "req" \in DOMAIN job[s], job[s].req.enc = "json",
                      AsDescribed(job[s].req.items, InputsOf(Params(job[s].req.idents[1]), job[s].vers))
               PROVE  FALSE
    BY DEF DescribedIsAccepted
  <2>1. job[s].req \in Requests /\ Known(job[s].req) /\ ~IsOk(Inputs(job[s].req, job[s].vers))
    BY DEF ValueInv, JobRuns, GoodRun
  <2> QED BY <2>1, DescribedIsValid
<1> QED BY <1>1, ValuesHold, PTL

(* A job that is done announces each destination under the name that was asked for, *)
(* and what it announces and what it publishes differ only by the layers that did   *)
(* not load.                                                                       *)
THEOREM NamedCorrect == Spec => []LayersNamedAsAsked
<1>1. ValueInv => LayersNamedAsAsked
  <2>1. ASSUME ValueInv, NEW s \in Slots, job[s].pc = "done"
        PROVE  LET outs == OutputsOf(AlgOf(s).outputs)
                   layers == {i \in DOMAIN outs : IsLayer(outs[i])}
                   announced == UNION {job[s].document[outs[i].name].layers : i \in layers}
                   lost == {i \in layers : job[s].load[outs[i].name] # "ok"}
               IN /\ \A i \in layers : outs[i].name \in Sinks(job[s].values) =>
                       \E k \in DOMAIN job[s].req.items :
                         /\ job[s].req.items[k].id = outs[i].name
                         /\ job[s].document[outs[i].name].layers = {Text(Said(job[s].req.items[k])).w}
                  /\ job[s].published \subseteq announced
                  /\ announced \subseteq job[s].published \cup UNION {job[s].document[outs[i].name].layers : i \in lost}
    <3>1. PICK r, alg : r = job[s].req /\ alg = AlgOf(s)
      OBVIOUS
    <3>2. GoodRun(job[s])
      BY <2>1 DEF ValueInv, JobRuns
    <3>3. /\ r \in Requests /\ Known(r) /\ AllAsked(r, job[s].values)
          /\ job[s].document = OutputDocument(alg, job[s].values, job[s].load)
          /\ job[s].published = PublishedLayers(alg, job[s].values, job[s].load)
      BY <2>1, <3>1, <3>2 DEF GoodRun, AlgOf
    <3>4. Distinct(alg.outputs)
      BY <3>1, <3>3, KnownParams DEF AlgOf
    <3>5. WellNamed(r, alg, job[s].values, job[s].load, job[s].document, job[s].published)
      <4>1. PICK values, load : values = job[s].values /\ load = job[s].load
        OBVIOUS
      <4>2. WellNamed(r, alg, values, load, OutputDocument(alg, values, load), PublishedLayers(alg, values, load))
        BY <3>3, <3>4, <4>1, NamedAsAsked, Zenon
      <4> QED BY <3>3, <4>1, <4>2
    <3>6. WellNamed(job[s].req, AlgOf(s), job[s].values, job[s].load, job[s].document, job[s].published)
      BY <3>1, <3>5
    <3> QED BY <3>6, Zenon DEF WellNamed
  <2> QED BY <2>1, Zenon DEF LayersNamedAsAsked
<1> QED BY <1>1, ValuesHold, PTL
=============================================================================
