--------------------------- MODULE InputValidation ---------------------------
(* From the inputs a client writes (key-value pairs, XML or JSON) to the       *)
(* values a job starts with. An input definition is a record with its class    *)
(* ("literal", "complex" or "bbox"); a datum is a record with its type t.      *)
EXTENDS Integers, Sequences, SequencesExt, FiniteSets, TLC

CONSTANT None

ASSUME NoneAssumption == None \notin Int

Ok == "ok"
Invalid == "invalid"    \* answered 400
Fatal == "fatal"        \* an exception nobody expected: answered 500
Verdict(status, value) == [status |-> status, value |-> value]
IsOk(v) == v.status = Ok

(* What is in order has places, numbers; a list without some of its elements is a *)
(* function of the places of the others.                                         *)
Lowest(places) == CHOOSE i \in places : \A j \in places : i <= j
FirstOf(list) == list[Lowest(DOMAIN list)]
FirstBad(vs) ==
  LET bad == {i \in DOMAIN vs : ~IsOk(vs[i])} IN IF bad = {} THEN Ok ELSE vs[Lowest(bad)].status

Word(w) == [t |-> "word", w |-> w]
(* Numbers count halves, so that some have a fraction. *)
Num(n) == [t |-> "num", n |-> 2 * n]
Half(n) == [t |-> "num", n |-> 2 * n + 1]
Whole(n) == IF n >= 0 THEN n - (n % 2) ELSE n + ((-n) % 2)
Null == [t |-> "null"]

(* --- literaltypes: one conversion per data type --------------------------- *)
Written(n) == ToString(n)
Text(d) ==
  CASE d.t \in {"word", "layer"} -> d
    [] d.t \in {"num", "moment", "zoned"} -> Word(Written(d.n))
    [] d.t = "null" -> Word("None")
    [] OTHER -> Word(d.t)

AsNumber(d) == IF d.t = "bool" THEN Num(IF d.b THEN 1 ELSE 0) ELSE d
(* int() drops the fraction of a number, but refuses a text with one, which is true. *)
IsFalse(d) == d \in {Word("false"), Word("f")} \/ (d.t = "bool" /\ ~d.b) \/ (d.t = "num" /\ d.n \in -1 .. 1)

(* float(None) and int(float("inf")) are not ValueErrors. A moment may have a time *)
(* zone ("zoned"), which a date or a time does not keep.                           *)
Convert(type, d) ==
  CASE type = "string" -> Verdict(Ok, Text(d))
    [] type = "boolean" -> Verdict(Ok, [t |-> "bool", b |-> ~IsFalse(d)])
    [] type \in {"float", "length", "scale", "integer"} /\ d.t \in {"null", "coords"} -> Verdict(Fatal, None)
    [] type \in {"float", "length", "scale"} /\ d.t \in {"num", "bool", "inf", "nan"} -> Verdict(Ok, AsNumber(d))
    [] type = "integer" /\ d.t \in {"num", "bool"} -> Verdict(Ok, [AsNumber(d) EXCEPT !.n = Whole(@)])
    [] type = "integer" /\ d.t = "inf" -> Verdict(Fatal, None)
    [] type = "dateTime" /\ d.t = "zoned" -> Verdict(Ok, d)
    [] type \in {"date", "time"} /\ d.t = "zoned" -> Verdict(Ok, [t |-> "moment", n |-> d.n])
    [] type \in {"date", "time", "dateTime"} /\ d.t \in {"moment", "num"} -> Verdict(Ok, [t |-> "moment", n |-> d.n])
    [] OTHER -> Verdict(Invalid, None)

(* --- literalvalidator ----------------------------------------------------- *)
AnyValue == [kind |-> "any"]
OneOf(values) == [kind |-> "value", values |-> values]
LayerIn(values) == [kind |-> "layer", values |-> values]
Between(of, min, max) == [kind |-> "range", of |-> of, min |-> min, max |-> max, closure |-> "closed", spacing |-> None]

InMin(r, n) == r.min # None => IF r.closure \in {"closed", "closedopen"} THEN r.min <= n ELSE r.min < n
(* Mutants: a maximum that is excluded, and one that is forgotten. *)
InMaxOpen(r, n) == r.max # None => n < r.max
InMaxIgnored(r, n) == TRUE
InMax(r, n) == r.max # None => IF r.closure \in {"closed", "openclosed"} THEN n <= r.max ELSE n < r.max
OnGrid(r, n) == (r.min # None /\ r.spacing # None) => (n - r.min) % r.spacing = 0

Passes(ok) == IF ok THEN Ok ELSE Invalid
(* Not a number is within no bound. The bounds of a dateTime, always there, have no *)
(* time zone and are not compared with one that has, nor numbers with times.       *)
RangeVerdict(r, v) ==
  CASE v.t = "nan" -> Passes(r.min = None /\ r.max = None)
    [] v.t = "inf" -> Passes(r.max = None)
    [] v.t = "zoned" \/ (v.t = "moment" /\ r.of # "moment") -> Fatal
    [] OTHER -> Passes(InMin(r, v.n) /\ InMax(r, v.n) /\ OnGrid(r, v.n))

(* "layer:name?..." counts by its name, any other text by itself. *)
LayerName(v) ==
  IF v.t = "word" THEN v.w ELSE IF v.prefixed \/ v.select = {} THEN v.name ELSE None

Allowed(a, v) ==
  CASE a.kind = "any" -> Ok
    [] a.kind = "value" -> Passes(v.t = "word" /\ v.w \in a.values)
    [] a.kind = "layer" -> Passes(LayerName(v) \in a.values)
    [] OTHER -> RangeVerdict(a, v)

(* --- validate_input of each class ------------------------------------------ *)
(* A unit other than the first supported one meets uom.ref(), a property that   *)
(* is not a function.                                                          *)
UomVerdict(def, code) ==
  IF code = None \/ (def.uoms # <<>> /\ code = def.uoms[1]) THEN Ok
  ELSE IF def.uoms = <<>> THEN Invalid ELSE Fatal

ValidLiteral(def, p) ==
  LET c == Convert(def.type, p.data) IN
  IF UomVerdict(def, p.uom) # Ok THEN Verdict(UomVerdict(def, p.uom), None)
  ELSE IF IsOk(c) THEN Verdict(Allowed(def.allowed, c.value), c.value) ELSE c

(* Without formats and mime type the variable of the format is never set. *)
ValidComplex(def, p) ==
  CASE p.mime = None /\ def.formats = <<>> -> Verdict(Fatal, None)
    [] p.mime # None /\ ~Contains(def.formats, p.mime) -> Verdict(Invalid, None)
    [] OTHER -> Verdict(Ok, [t |-> "complex", mime |-> IF p.mime = None THEN def.formats[1] ELSE p.mime,
                             ref |-> p.href, data |-> p.data])

(* Text gives four numbers at most; two are enough for a box in two dimensions. *)
ValidBBox(def, p) ==
  IF p.data.t = "word" THEN Verdict(Fatal, None)
  ELSE IF p.data.t # "coords" \/ p.data.n < 2 \/ (p.crs # None /\ p.crs # def.crs) THEN Verdict(Invalid, None)
  ELSE Verdict(Ok, [t |-> "bbox", n |-> IF p.data.text /\ p.data.n > 4 THEN 4 ELSE p.data.n, crs |-> def.crs])

ValidateInput(def, p) ==
  CASE def.class = "literal" -> ValidLiteral(def, p)
    [] def.class = "complex" -> ValidComplex(def, p)
    [] OTHER -> ValidBBox(def, p)

(* --- Service.validate_request_inputs ---------------------------------------- *)
(* Inputs that no definition names are dropped; nothing looks at max_occurs.    *)
(* A malformed pair leaves a dictionary of two where a list should be. The check *)
(* of the outputs that are asked for (validate_output) refuses none.             *)
Unread == [t |-> "unread"]
Malformed(values) == \E k \in DOMAIN values : values[k].data.t = "unread"
Missing(def, inputs) == def.id \notin DOMAIN inputs
InputVerdict(def, inputs) ==
  IF Missing(def, inputs) THEN Passes(def.min = 0)
  ELSE CASE Malformed(inputs[def.id]) -> IF def.min > 2 THEN Invalid ELSE Fatal
         [] ~Malformed(inputs[def.id]) /\ Cardinality(DOMAIN inputs[def.id]) < def.min -> Invalid
         [] OTHER -> FirstBad([k \in DOMAIN inputs[def.id] |-> ValidateInput(def, inputs[def.id][k])])

ValidateRequest(defs, inputs) ==
  LET status == FirstBad([i \in DOMAIN defs |-> Verdict(InputVerdict(defs[i], inputs), None)])
      given == {i \in DOMAIN defs : ~Missing(defs[i], inputs)}
  IN IF status # Ok THEN Verdict(status, None)
     ELSE Verdict(Ok, [id \in {defs[i].id : i \in given} |->
            LET def == defs[CHOOSE i \in given : defs[i].id = id] IN
            [k \in DOMAIN inputs[id] |-> ValidateInput(def, inputs[id][k]).value]])

(* --- what the client wrote --------------------------------------------------- *)
(* An item has the identifier, the form it is written in and its content.        *)
Parsed(data, uom, mime, href, crs) == [data |-> data, uom |-> uom, mime |-> mime, href |-> href, crs |-> crs]

(* get_data_from_kvp: all but the value is an attribute. A pair with a second "=" *)
(* ("split") is kept under its whole text, which names no input; a name alone     *)
(* ("broken") takes the place of the list of its input.                           *)
FromKvp(item) ==
  Parsed(IF item.form = "broken" THEN Unread ELSE item.data, item.uom, item.mime, item.href, item.crs)

(* get_inputs_from_xml: the form is the element that was found; str() of none. *)
FromXml(item) ==
  CASE item.form = "literal" -> Parsed(IF item.data = Null THEN Word("None") ELSE item.data, item.uom, None, None, None)
    [] item.form = "complex" -> Parsed(item.data, None, item.mime, None, None)
    [] item.form = "reference" -> Parsed(Null, None, item.mime, item.href, None)
    [] OTHER -> Parsed(item.data, None, None, None, item.crs)

(* get_inputs_from_document: the form is what the class of the input expects.     *)
FromJson(class, item) ==
  IF item.form = "incomplete" THEN Verdict(Invalid, None)       \* KeyError
  ELSE IF class # "literal" /\ item.form = "raw" THEN Verdict(Fatal, None)
  ELSE Verdict(Ok, CASE class = "literal" -> Parsed(item.data, item.uom, None, None, None)
                     [] class = "complex" -> Parsed(item.data, None, item.mime, item.href, None)
                     [] OTHER -> Parsed(item.data, None, None, None, item.crs))

Declared(defs, id) == \E i \in DOMAIN defs : defs[i].id = id
ClassOf(defs, id) == defs[CHOOSE i \in DOMAIN defs : defs[i].id = id].class

ItemsOf(items, id) == {k \in DOMAIN items : items[k].id = id}
Filled(items) == {k \in DOMAIN items : items[k].form \notin {"empty", "split"}}
Ids(items, places) == {items[k].id : k \in places}

(* RequestInputs: the inputs by identifier, or the status that refuses them.      *)
RequestInputs(enc, items, defs) ==
  LET declared == {k \in DOMAIN items : Declared(defs, items[k].id)}
      json == [k \in declared |-> FromJson(ClassOf(defs, items[k].id), items[k])]
      Own(id) == ItemsOf(items, id) \cap Filled(items)
  IN CASE enc = "kvp" -> Verdict(Ok, [id \in Ids(items, Filled(items)) |-> [k \in Own(id) |-> FromKvp(items[k])]])
       [] enc = "xml" -> Verdict(Ok, [id \in Ids(items, DOMAIN items) |-> [k \in Own(id) |-> FromXml(items[k])]])
       [] OTHER -> IF FirstBad(json) # Ok THEN Verdict(FirstBad(json), None)
                   ELSE Verdict(Ok, [id \in Ids(items, declared) |-> [k \in Own(id) |-> json[k].value]])

Validate(enc, items, defs) ==
  LET inputs == RequestInputs(enc, items, defs) IN
  IF IsOk(inputs) THEN ValidateRequest(defs, inputs.value) ELSE inputs

(* --- the schema that the OGC API publishes for a literal input ------------------ *)
(* A value may be checked with it before it is sent. Times are left out: a schema    *)
(* compares no text with its bounds.                                                *)
JsonType(type, d) ==
  CASE type = "string" -> d.t \in {"word", "layer"}
    [] type = "boolean" -> d.t = "bool"
    [] type = "integer" -> d.t = "num" /\ d.n % 2 = 0
    [] OTHER -> type \in {"float", "length", "scale"} /\ d.t = "num"

SchemaBounds(r, n) ==
  /\ r.min # None => r.min < n \/ (r.min = n /\ r.closure \in {"closed", "closedopen"})
  /\ r.max # None => n < r.max \/ (r.max = n /\ r.closure \in {"closed", "openclosed"})
  /\ r.spacing # None => n % r.spacing = 0

InSchema(def, d) ==
  /\ JsonType(def.type, d)
  /\ CASE def.allowed.kind = "any" -> TRUE
       [] def.allowed.kind = "range" -> SchemaBounds(def.allowed, d.n)
       [] OTHER -> d.t = "word" /\ d.w \in def.allowed.values

(* A document that the descriptions allow: declared literals in their schema, as   *)
(* many as announced, without a unit. A text with a prefix or a selection is none   *)
(* of the names in an enumeration.                                                *)
AsDescribed(items, defs) ==
  \A i \in DOMAIN defs : LET own == ItemsOf(items, defs[i].id) IN
    /\ Cardinality(own) \in defs[i].min .. defs[i].max
    /\ own # {} => defs[i].class = "literal"
    /\ \A k \in own : items[k].form = "raw" /\ items[k].uom = None /\ InSchema(defs[i], items[k].data)
=============================================================================
