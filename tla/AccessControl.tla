---------------------------- MODULE AccessControl ----------------------------
(***************************************************************************)
(* Who may use which process: the policies of pyqgiswps/accesspolicy.py,   *)
(* the filters that middleware.py runs in front of the handlers, and the   *)
(* rules of pyqgisservercontrib/lizmapacl.                                 *)
(*                                                                         *)
(* A rule of the code is a glob pattern; here a list of patterns is the    *)
(* set of the identifiers that one of them matches.                        *)
(***************************************************************************)
EXTENDS Integers, FiniteSets, SequencesExt

CONSTANTS
  Processes,     \* the identifiers of the published processes
  All,           \* the identifier 'all', that DescribeProcess expands
  Unknown,       \* an identifier that is not published
  Absent,        \* no value: an argument or a header that is not given
  Invalid,       \* a value that is neither a string nor a list of strings
  DefaultAllow,  \* the file of the option accesspolicy
  DefaultDeny,
  Registered     \* what the entry points gave to add_filters, in that order

Identifiers == Processes \cup {All, Unknown}

ASSUME IdentifiersAssumption ==
  /\ All \notin Processes /\ Unknown \notin Processes
  /\ DefaultAllow \subseteq Identifiers /\ DefaultDeny \subseteq Identifiers

(* What add_policy is given: lists of identifiers, None or something else. *)
Rights == (SUBSET Identifiers) \cup {Absent, Invalid}
Definition(def) == def.allow \in Rights /\ def.deny \in Rights

(* A policy that was registered is a list of filters, with a priority.     *)
ASSUME RegisteredAssumption ==
  /\ Registered \in Seq(ToSet(Registered))
  /\ \A p \in ToSet(Registered) :
       /\ p.pri \in Int /\ p.filters \in Seq(ToSet(p.filters))
       /\ \A f \in ToSet(p.filters) :
            /\ f.kind \in {"lizmap", "defs", "raise"}
            /\ f.kind = "defs" => \A d \in f.defs : Definition(d)

-------------------------------------------------------------------------------
(* AccessPolicy                                                            *)

NoRules == [allow |-> {}, deny |-> {}]

(* add_policy, for each of a set of definitions: None adds nothing, and    *)
(* _validate_policy refuses what is not a list of strings.  The order in   *)
(* which they are added is of no consequence.                              *)
Addable(def) == def.allow # Invalid /\ def.deny # Invalid
AddPolicies(policy, defs) ==
  [allow |-> policy.allow \cup UNION {d.allow : d \in {x \in defs : x.allow # Absent}},
   deny  |-> policy.deny  \cup UNION {d.deny : d \in {x \in defs : x.deny # Absent}}]

(* DefaultPolicy.allow, with the policy of the handler as the child.       *)
Allows(policy, ident) ==
  \/ ident \in DefaultAllow \cup policy.allow
  \/ ident \notin DefaultDeny \cup policy.deny

-------------------------------------------------------------------------------
(* The rules of Lizmap                                                     *)

(* _to_list: a list as it is, a string cut at its commas.  What follows a  *)
(* comma and a space keeps the space.                                      *)
Spaced(name) == " " \o name
ToList(arg) ==
  IF arg.list THEN ToSet(arg.names)
  ELSE {IF i = 1 THEN arg.names[i] ELSE Spaced(arg.names[i]) : i \in DOMAIN arg.names}

(* parse_policy: the chains of the users, of the groups, and of everyone,  *)
(* which is also that of a group named 'all'.                              *)
ForEveryone(rule) ==
  (ToList(rule.users) = {} /\ ToList(rule.groups) = {}) \/ "all" \in ToList(rule.groups)

Concerns(rule, request) ==
  \/ request.user # Absent /\ request.user \in ToList(rule.users)
  \/ \E g \in request.groups : g \in ToList(rule.groups)
  \/ ForEveryone(rule)

(* add_policy_for: a rule with maps needs the argument MAP.  The filters   *)
(* run before `prepare` puts the names of the arguments in upper case.     *)
FilterMap(request) == IF request.upper THEN request.map ELSE Absent
OnMap(rule, request) ==
  rule.maps = {} \/ (FilterMap(request) # Absent /\ FilterMap(request) \in rule.maps)

(* PolicyManager.add_policy: the definitions that apply.                   *)
LizmapDefs(rules, request) ==
  {[allow |-> r.allow, deny |-> r.deny] :
     r \in {x \in rules : Concerns(x, request) /\ OnMap(x, request)}}

-------------------------------------------------------------------------------
(* The middleware                                                          *)

(* load_policies, and the sort by decreasing priority, which is stable:    *)
(* the policy at n has n - 1 policies before it.                           *)
Before(i, j) ==
  \/ Registered[i].pri > Registered[j].pri
  \/ Registered[i].pri = Registered[j].pri /\ i < j
Ahead(i) == {j \in DOMAIN Registered : Before(j, i)}
Policies ==
  [n \in DOMAIN Registered |->
     Registered[CHOOSE i \in DOMAIN Registered : Cardinality(Ahead(i)) = n - 1].filters]

(* _FilterBase.match: the path is in the pattern, and may be replaced.     *)
Matching(filters, path) == {i \in DOMAIN filters : path \in filters[i].match}
Rewritten(filter, path) == IF filter.repl = Absent THEN path ELSE filter.repl

(* apply: the definitions of the filter, the status of the HTTPError that  *)
(* it raised, or 500 for any other exception.                              *)
Applied(filter, rules, request) ==
  CASE filter.kind = "lizmap" -> [status |-> 0, defs |-> LizmapDefs(rules, request)]
    [] filter.kind = "defs"   -> [status |-> 0, defs |-> filter.defs]
    [] filter.kind = "raise"  -> [status |-> filter.status, defs |-> {}]

(* One policy: its first filter that matches is applied, and its result    *)
(* replaces that of the policies before it.                                *)
ApplyPolicy(acc, filters, rules, request) ==
  IF acc.status # 0 \/ Matching(filters, acc.path) = {} THEN acc
  ELSE LET f == filters[Min(Matching(filters, acc.path))]
           result == Applied(f, rules, request)
       IN  [path |-> Rewritten(f, acc.path), status |-> result.status, defs |-> result.defs]

(* find_handler, up to the choice of the handler by the application:       *)
(* through[n] is what the first n policies leave.                          *)
Filtered(rules, request) ==
  LET through[n \in 0 .. Len(Registered)] ==
        IF n = 0 THEN [path |-> request.path, status |-> 0, defs |-> {}]
        ELSE ApplyPolicy(through[n - 1], Policies[n], rules, request)
  IN  through[Len(Registered)]

(* Mutant: the definitions are added to the policy that is there. *)
InstallAdds(kwargs, path, defs) ==
  IF defs = {} \/ path \notin DOMAIN kwargs THEN kwargs
  ELSE [kwargs EXCEPT ![path] = AddPolicies(kwargs[path], defs)]

(* The end of find_handler.  The arguments of the handler are the          *)
(* dictionary of its route, and are updated in place: without definitions  *)
(* the handler gets the policy of an earlier request.                      *)
Install(kwargs, path, defs) ==
  IF defs = {} \/ path \notin DOMAIN kwargs THEN kwargs
  ELSE [kwargs EXCEPT ![path] = AddPolicies(NoRules, defs)]
===============================================================================
