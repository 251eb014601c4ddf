----------------------------- MODULE MCExecution -----------------------------
(* A project file behind two MAPs, algorithms with a parameter of each kind,    *)
(* and requests in the three encodings, valid and not.                          *)
EXTENDS Execution

MCPlace == [scheme |-> "file", dir |-> "root", path |-> "town"]
MCFiles == MCPlace :> [exists |-> TRUE, ver |-> 1, mtime |-> 1, bad |-> FALSE]
MCAliases == [n \in {"file", "city"} |-> [scheme |-> "file", dir |-> "root"]]
MCSchemes == {"file"}
Town == [scheme |-> Absent, path |-> "town"]
CityTown == [scheme |-> "city", path |-> "town"]
Nowhere == [scheme |-> Absent, path |-> "nowhere"]
Ftp == [scheme |-> "ftp", path |-> "town"]

MCVersions ==
  0 :> [layers |-> <<>>, crs |-> None, bad |-> FALSE] @@
  1 :> [layers |-> "roads" :> "line" @@ "relief" :> "raster", crs |-> "EPSG:2154", bad |-> FALSE] @@
  2 :> [layers |-> "roads" :> "line" @@ "trees" :> "point", crs |-> None, bad |-> FALSE] @@
  3 :> [layers |-> "roads" :> "line", crs |-> "EPSG:2154", bad |-> TRUE]

MCRevisions == 1 :> {2, 3} @@ 2 :> {} @@ 3 :> {}

(* --- algorithms ---------------------------------------------------------- *)
Param(name, type) ==
  [name |-> name, type |-> type, optional |-> FALSE, hidden |-> FALSE, integer |-> FALSE,
   min |-> None, max |-> None, uoms |-> <<>>, options |-> <<>>, multiple |-> FALSE, types |-> {},
   minimum |-> 0, mime |-> None, folder |-> FALSE, sub |-> "dateTime", default |-> None]
Low == -1000     \* the bounds of a number that has no other
High == 1000
Optional(p) == [p EXCEPT !.optional = TRUE]
Output(name, type) == [name |-> name, type |-> type, formats |-> <<>>, default |-> 1, reference |-> None]
Algorithm(params, outputs) == [params |-> params, outputs |-> outputs, model |-> FALSE, mimes |-> <<"octet-stream">>]

MCProjectAlgorithms ==
  "buffer" :> [Algorithm(<<Param("in", "source"), Optional(Param("over", "vector")), Param("out", "sink")>>,
                         <<Output("out", "outputVector")>>) EXCEPT !.model = TRUE] @@
  "merge" :> Algorithm(<<[Param("layers", "multilayer") EXCEPT !.minimum = 1], Optional(Param("area", "extent")),
                         Optional(Param("out", "sink"))>>,
                       <<Output("out", "outputVector"), Output("made", "outputLayer")>>)

MCValueAlgorithms ==
  "values" :> Algorithm(<<[Param("n", "number") EXCEPT !.integer = TRUE, !.min = 0, !.max = 4, !.optional = TRUE],
                          [Optional(Param("x", "number")) EXCEPT !.min = Low, !.max = 3],
                          [Optional(Param("d", "distance")) EXCEPT !.min = 0, !.max = High, !.uoms = <<"m">>],
                          [Optional(Param("e", "enum")) EXCEPT !.options = <<"a", "b">>, !.multiple = TRUE],
                          Optional(Param("b", "boolean")), Optional(Param("k", "band")),
                          [Optional(Param("u", "duration")) EXCEPT !.min = 0, !.max = High],
                          [Param("h", "string") EXCEPT !.hidden = TRUE]>>,
                        <<Output("text", "outputString")>>) @@
  "files" :> [Algorithm(<<Optional(Param("c", "crs")), Optional(Param("g", "geometry")), Optional(Param("w", "datetime")),
                          [Optional(Param("f", "file")) EXCEPT !.mime = "csv"],
                          [Optional(Param("dir", "file")) EXCEPT !.folder = TRUE],
                          Optional(Param("to", "fileDestination")), Optional(Param("z", "matrix"))>>,
                        <<[Output("to", "outputFile") EXCEPT !.formats = <<"csv">>, !.reference = TRUE]>>)
              EXCEPT !.mimes = <<"csv", "octet-stream">>] @@
  "report" :> Algorithm(<<>>, <<Output("html", "outputHtml")>>)
MCAlgorithms == MCProjectAlgorithms @@ MCValueAlgorithms

(* --- requests --------------------------------------------------------------- *)
Item(id, form, data) == [id |-> id, form |-> form, data |-> data, uom |-> None, mime |-> None, href |-> None, crs |-> None]
Layer(name, select) == [t |-> "layer", prefixed |-> TRUE, name |-> name, select |-> select]
Coords(n, text) == [t |-> "coords", n |-> n, text |-> text]
Lit(id, data) == Item(id, "raw", data)
Execute(alg, map, enc, items) ==
  [kind |-> "execute", idents |-> <<alg>>, map |-> map, enc |-> enc, items |-> items, lineage |-> FALSE]
Describe(ids, map) ==
  [kind |-> "describe", idents |-> ids, map |-> map, enc |-> "kvp", items |-> <<>>, lineage |-> FALSE]

Buffer(map, enc, data, rest) == Execute("buffer", map, enc, <<Lit("in", data), Lit("out", Word("result"))>> \o rest)
MCProjectRequests == {
  Buffer(Town, "json", Word("roads"), <<>>),
  Buffer(Town, "kvp", Layer("roads", {"wide"}), <<>>),
  Buffer(Town, "kvp", Layer("roads", {"long"}), <<>>),
  Buffer(Town, "json", Word("trees"), <<>>),
  Buffer(Town, "kvp", Layer("roads", {"rect", "wide"}), <<>>),
  Buffer(CityTown, "kvp", Layer("roads", {"wide"}), <<Lit("over", Layer("roads", {"long"}))>>),
  Buffer(Absent, "kvp", Layer("roads", {"wide"}), <<>>),
  Execute("merge", Town, "kvp", <<Lit("layers", Word("roads")), Lit("layers", Word("relief"))>>),
  Execute("merge", Town, "json", <<Lit("layers", Word("roads")), Lit("out", Word("all")),
                                       Item("area", "bbox", Coords(4, FALSE))>>),
  Describe(<<"buffer", "merge">>, Town), Describe(<<"merge">>, Nowhere), Describe(<<"merge">>, Ftp)}

Values(enc, items) == Execute("values", Absent, enc, items)
Files(enc, items) == Execute("files", Absent, enc, items)
MCValueRequests ==
  {Values("json", <<Lit("n", d)>>) : d \in {Num(-1), Num(2), Half(1), Word("two"), Null}} \cup
  {Values("kvp", <<Lit("n", d), Lit("x", e)>>) : d \in {Num(1), Half(2)}, e \in {Half(1), Num(2), [t |-> "inf"], [t |-> "nan"]}} \cup
  {Values("xml", <<[Item("d", "literal", Num(1)) EXCEPT !.uom = u]>>) : u \in {None, "m", "ft"}} \cup
  {Values(enc, <<Lit("e", Word("a")), Lit("e", Word(w))>>) : enc \in {"kvp", "json"}, w \in {"b", "c"}} \cup
  {Values("json", <<Lit("b", [t |-> "bool", b |-> TRUE]), Lit("k", Num(-1))>>),
   Values("json", <<Lit("x", Half(1)), Lit("k", Num(1)), Lit("unknown", Null)>>),
   Values("json", <<Lit("b", Half(0))>>), Values("xml", <<Item("e", "literal", Null)>>),
   Values("kvp", <<Item("b", "broken", Null), Item("n", "split", Null)>>),
   Values("json", <<Item("n", "empty", Null)>>),
   Values("json", <<Lit("u", Num(1))>>), Values("kvp", <<Lit("u", [t |-> "moment", n |-> 2])>>),
   [Values("xml", <<Item("d", "literal", Num(1))>>) EXCEPT !.lineage = TRUE],
   Execute("report", Absent, "json", <<>>), Execute("report", Absent, "kvp", <<>>),
   Execute("report", Nowhere, "kvp", <<>>), Execute("none", Absent, "kvp", <<>>),
   Files("kvp", <<Lit("c", Word("EPSG:4326"))>>),
   Files("kvp", <<Lit("w", [t |-> "moment", n |-> 2])>>),
   Files("kvp", <<Lit("w", [t |-> "zoned", n |-> 2])>>), Files("xml", <<Item("f", "complex", Word("table"))>>),
   Files("xml", <<Item("g", "complex", Word("shape"))>>), Files("xml", <<Item("g", "complex", Word("garbled"))>>),
   Files("json", <<Lit("g", Word("shape"))>>), Files("json", <<Item("g", "incomplete", Null)>>),
   Files("xml", <<[Item("g", "complex", Word("shape")) EXCEPT !.mime = "png"]>>),
   Files("xml", <<[Item("f", "reference", Null) EXCEPT !.href = "full"]>>),
   Files("xml", <<[Item("f", "reference", Null) EXCEPT !.href = "empty"]>>),
   Files("kvp", <<Lit("dir", Word("data")), Lit("to", Word("out.csv"))>>),
   Files("kvp", <<Lit("to", Word("out.csv")), Lit("z", Word("matrix"))>>)}
MCRequests == MCProjectRequests \cup MCValueRequests
=============================================================================
