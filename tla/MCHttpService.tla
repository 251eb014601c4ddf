---------------------------- MODULE MCHttpService ----------------------------
(* Clients, rules and requests for HttpService.                              *)
EXTENDS HttpService

Client(user, groups, realm) == [user |-> user, groups |-> groups, realm |-> realm]
Ann     == Client("ann", {}, "r1")
Helen   == Client("helen", {"staff"}, Absent)
Nobody  == Client(Absent, {}, "r1")
Admin   == Client(Absent, {"all"}, "admin")

Rule(allow, deny, users, groups, maps) ==
  [allow |-> allow, deny |-> deny,
   users |-> [list |-> FALSE, names |-> users], groups |-> [list |-> TRUE, names |-> groups],
   maps |-> maps]

MCRuleSets == {
  {Rule({"p1"}, {"p1", "p2"}, <<"ann">>, <<>>, {}),
   Rule(Absent, {"p2"}, <<>>, <<"staff">>, {"m1"})},
  {Rule({"p2"}, Identifiers, <<"ann", "helen">>, <<"all">>, {}),
   Rule(Absent, Invalid, <<>>, <<"staff">>, {"m2"})}}
MCFirstRules == CHOOSE R \in MCRuleSets : \E r \in R : r.maps = {"m1"}

(* A static policy with an alias of /ows/ and a closed path goes first. *)
MCRegistered ==
  << [pri |-> 0, filters |-> <<[match |-> {"ows", "ogcapi", "store"}, repl |-> Absent, kind |-> "lizmap"]>>],
     [pri |-> 5, filters |->
        <<[match |-> {"closed"}, repl |-> Absent, kind |-> "raise", status |-> 403],
          [match |-> {"alias", "closed"}, repl |-> "ows", kind |-> "defs",
           defs |-> {[allow |-> Absent, deny |-> {"p1"}]}]>>] >>

From(c, path) ==
  [path |-> path, user |-> c.user, groups |-> c.groups, realm |-> c.realm,
   map |-> Absent, upper |-> TRUE]

Ows1(c, path) == From(c, path) @@
  [kind |-> "ows", post |-> FALSE, service |-> "wps", operation |-> "getcapabilities", version |-> "1.0.0",
   versions |-> <<>>, language |-> Absent, idents |-> <<"p1">>, job |-> Absent, body |-> "none",
   timeout |-> Absent, expire |-> Absent, async |-> FALSE, inputs |-> "valid"]
OwsBase == Ows1(Ann, "ows")
OwsExec == [OwsBase EXCEPT !.operation = "execute"]

OwsRequests ==
  {Ows1(c, p) : c \in {Ann, Helen, Nobody}, p \in {"ows", "alias"}} \cup
  { Ows1(Nobody, "closed"),
    [Ows1(Helen, "ows") EXCEPT !.map = "m1"],
    [Ows1(Helen, "ows") EXCEPT !.map = "m1", !.upper = FALSE],
    [Ows1(Helen, "ows") EXCEPT !.map = "m2"],
    [OwsBase EXCEPT !.service = "wms"],
    [OwsBase EXCEPT !.operation = "other"],
    [OwsBase EXCEPT !.versions = <<"2.0.0">>],
    [OwsBase EXCEPT !.operation = "getresults", !.job = "j1"],
    [OwsBase EXCEPT !.operation = "getresults"],
    [OwsBase EXCEPT !.operation = "describeprocess"],
    [OwsBase EXCEPT !.operation = "describeprocess", !.idents = <<All>>],
    [OwsBase EXCEPT !.operation = "describeprocess", !.idents = <<>>, !.post = TRUE],
    [OwsExec EXCEPT !.idents = <<Unknown>>],
    [OwsExec EXCEPT !.language = "fr"],
    [OwsExec EXCEPT !.timeout = Junk],
    [OwsExec EXCEPT !.expire = 0],
    [OwsExec EXCEPT !.inputs = "refused"],
    [OwsExec EXCEPT !.timeout = 9],
    [OwsExec EXCEPT !.map = "m2"],
    [OwsExec EXCEPT !.post = TRUE, !.body = Junk],
    [OwsExec EXCEPT !.post = TRUE, !.body = "bare", !.async = TRUE, !.timeout = Junk],
    [OwsExec EXCEPT !.post = TRUE, !.body = "response", !.async = TRUE, !.timeout = 1] }

Api1(c, op) == From(c, "ogcapi") @@
  [kind |-> "processes", operation |-> op, idents |-> <<"p1">>, body |-> "json", timeout |-> Absent,
   expire |-> Absent, async |-> FALSE, inputs |-> "valid"]
ApiExec == Api1(Helen, "execute")

ApiRequests ==
  {Api1(c, op) : c \in {Ann, Helen}, op \in {"list", "describe"}} \cup
  { [Api1(Helen, "list") EXCEPT !.map = "m1"],
    [ApiExec EXCEPT !.idents = <<"p2">>, !.map = "m1"],
    [ApiExec EXCEPT !.body = Junk],
    [ApiExec EXCEPT !.timeout = 0],
    [ApiExec EXCEPT !.timeout = Junk],
    [ApiExec EXCEPT !.inputs = "fatal"],
    [ApiExec EXCEPT !.timeout = 9, !.async = TRUE, !.expire = 1] }

Job1(c, path, op, file) == From(c, path) @@
  [kind |-> "jobs", operation |-> op, job |-> "j1", file |-> file]
Fresh1 == Client(Absent, {}, "j1")

JobRequests ==
  {Job1(c, "ogcapi", op, Absent) :
     c \in {Ann, Helen, Admin, Fresh1}, op \in {"joblist", "status", "dismiss"}} \cup
  {Job1(Ann, "ogcapi", op, Absent) : op \in {"inputs", "results"}} \cup
  {Job1(Ann, "ogcapi", op, Absent) : op \in {"old", "delete"}} \cup
  {Job1(c, "store", "file", f) : c \in {Ann, Admin}, f \in Files} \cup
  {Job1(Ann, "store", "geturl", "log"), Job1(Admin, "store", "geturl", "out")} \cup
  {Job1(c, "store", op, Absent) : c \in {Ann, Admin}, op \in {"ls", "log"}} \cup
  {Job1(Ann, "store", "dnl", "out")}

MCRequests == OwsRequests \cup ApiRequests \cup JobRequests

ASSUME LizmapIsLast == LizmapLast
===============================================================================
