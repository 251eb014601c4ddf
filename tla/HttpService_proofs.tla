-------------------------- MODULE HttpService_proofs --------------------------
(***************************************************************************)
(* Proofs about HttpService, for any clients, requests, rules and filters. *)
(*                                                                         *)
(* First the filters, which are a fold: what it computes is followed with  *)
(* the least element of a set of numbers, since a step of a fold is not a  *)
(* step of the specification.  Then what each handler does to the stores   *)
(* (Effects), from which the types and the refusals follow; and what it    *)
(* answers (DecidedBy), from which the rules and the realms do.            *)
(***************************************************************************)
EXTENDS HttpService, FoldLemmas, FiniteSetTheorems, TLAPS

-------------------------------------------------------------------------------
(* Numbers *)

(* Min of the community modules is the least element.                        *)
LEMMA MinIsLeast ==
  ASSUME NEW T \in SUBSET Nat, T # {}
  PROVE  Min(T) \in T /\ \A m \in T : Min(T) <= m
BY LeastOf DEF Min

-------------------------------------------------------------------------------
(* The filters *)

LEMMA RegisteredTypes ==
  /\ Len(Registered) \in Nat /\ DOMAIN Registered = 1 .. Len(Registered)
  /\ \A i \in DOMAIN Registered :
       /\ Registered[i].pri \in Int
       /\ Len(Registered[i].filters) \in Nat
       /\ DOMAIN Registered[i].filters = 1 .. Len(Registered[i].filters)
       /\ \A k \in DOMAIN Registered[i].filters :
            LET f == Registered[i].filters[k]
            IN  /\ f.kind \in {"lizmap", "defs", "raise"}
                /\ f.kind = "defs" => \A d \in f.defs : Definition(d)
<1>1. Registered \in Seq(ToSet(Registered))
  BY RegisteredAssumption
<1>2. Len(Registered) \in Nat /\ DOMAIN Registered = 1 .. Len(Registered)
  BY <1>1
<1>3. ASSUME NEW i \in DOMAIN Registered
      PROVE  /\ Registered[i].pri \in Int
             /\ Len(Registered[i].filters) \in Nat
             /\ DOMAIN Registered[i].filters = 1 .. Len(Registered[i].filters)
             /\ \A k \in DOMAIN Registered[i].filters :
                  LET f == Registered[i].filters[k]
                  IN  /\ f.kind \in {"lizmap", "defs", "raise"}
                      /\ f.kind = "defs" => \A d \in f.defs : Definition(d)
  <2> DEFINE p == Registered[i]
             fs == p.filters
  <2>1. p \in ToSet(Registered)
    BY DEF ToSet
  <2>2. /\ p.pri \in Int /\ fs \in Seq(ToSet(fs))
        /\ \A f \in ToSet(fs) :
             /\ f.kind \in {"lizmap", "defs", "raise"}
             /\ f.kind = "defs" => \A d \in f.defs : Definition(d)
    BY <2>1, RegisteredAssumption
  <2> HIDE DEF fs
  <2>3. Len(fs) \in Nat /\ DOMAIN fs = 1 .. Len(fs)
    BY <2>2
  <2>4. \A k \in DOMAIN fs : fs[k] \in ToSet(fs)
    BY DEF ToSet
  <2>5. \A k \in DOMAIN fs :
          /\ fs[k].kind \in {"lizmap", "defs", "raise"}
          /\ fs[k].kind = "defs" => \A d \in fs[k].defs : Definition(d)
    BY <2>2, <2>4
  <2> QED BY <2>2, <2>3, <2>5 DEF fs
<1> QED BY <1>2, <1>3

(* Priorities and places order the policies totally, so that each has a    *)
(* place of its own in the sorted list, and each place a policy.           *)
LEMMA PlacesOfPolicies ==
  /\ \A i, k \in DOMAIN Registered :
       i # k => Cardinality(Ahead(i)) # Cardinality(Ahead(k))
  /\ \A n \in DOMAIN Registered :
       \E i \in DOMAIN Registered : Cardinality(Ahead(i)) = n - 1
<1> DEFINE D == DOMAIN Registered
           N == Len(Registered)
           Rank == [i \in D |-> Cardinality(Ahead(i)) + 1]
<1>1. N \in Nat /\ D = 1 .. N /\ (\A i \in D : Registered[i].pri \in Int)
  BY RegisteredTypes
<1>2. IsFiniteSet(D) /\ Cardinality(D) = N
  BY <1>1, FS_Interval
<1>3. ASSUME NEW i \in D
      PROVE  /\ IsFiniteSet(Ahead(i)) /\ Cardinality(Ahead(i)) \in Nat
             /\ Cardinality(Ahead(i)) < N
  <2>1. Ahead(i) \in SUBSET D /\ i \notin Ahead(i)
    BY <1>1 DEF Ahead, Before
  <2>2. /\ IsFiniteSet(Ahead(i)) /\ Cardinality(Ahead(i)) <= Cardinality(D)
        /\ Cardinality(D) = Cardinality(Ahead(i)) => D = Ahead(i)
    BY <2>1, <1>2, FS_Subset
  <2>3. Cardinality(Ahead(i)) \in Nat
    BY <2>2, FS_CardinalityType
  <2> QED BY <1>1, <1>2, <2>1, <2>2, <2>3
<1>4. ASSUME NEW i \in D, NEW k \in D, Before(i, k)
      PROVE  Cardinality(Ahead(i)) < Cardinality(Ahead(k))
  <2>1. i \in Ahead(k) /\ i \notin Ahead(i)
    BY <1>1, <1>4 DEF Ahead, Before
  <2>2. Ahead(i) \in SUBSET Ahead(k)
    BY <1>1, <1>4 DEF Ahead, Before
  <2>3. /\ Cardinality(Ahead(i)) <= Cardinality(Ahead(k))
        /\ Cardinality(Ahead(k)) = Cardinality(Ahead(i)) => Ahead(k) = Ahead(i)
    BY <2>2, <1>3, FS_Subset
  <2> QED BY <2>1, <2>3, <1>3
<1>5. \A i, k \in D : i # k => Before(i, k) \/ Before(k, i)
  BY <1>1 DEF Before
<1>6. \A i, k \in D : i # k => Cardinality(Ahead(i)) # Cardinality(Ahead(k))
  BY <1>3, <1>4, <1>5
<1>7. Rank \in Injection(D, D)
  <2>1. Rank \in [D -> D]
    BY <1>1, <1>3
  <2>2. \A i, k \in D : Rank[i] = Rank[k] => i = k
    BY <1>3, <1>6
  <2> QED BY <2>1, <2>2 DEF Injection, IsInjective
<1>8. Rank \in Surjection(D, D)
  BY <1>7, <1>2, FS_Injection
<1>9. \A n \in D : \E i \in D : Rank[i] = n
  BY <1>8 DEF Surjection
<1>10. \A n \in D : \E i \in D : Cardinality(Ahead(i)) = n - 1
  BY <1>1, <1>3, <1>9
<1> QED BY <1>6, <1>10

(* Each place of the sorted list has one of the policies that were          *)
(* registered.                                                              *)
LEMMA PolicyTypes ==
  ASSUME NEW n \in DOMAIN Registered
  PROVE  \E i \in DOMAIN Registered :
           Cardinality(Ahead(i)) = n - 1 /\ Policies[n] = Registered[i].filters
<1> DEFINE i == CHOOSE x \in DOMAIN Registered : Cardinality(Ahead(x)) = n - 1
<1>1. i \in DOMAIN Registered /\ Cardinality(Ahead(i)) = n - 1
  BY PlacesOfPolicies
<1>2. Policies[n] = Registered[i].filters
  BY DEF Policies
<1> QED BY <1>1, <1>2
(* What Filtered folds: a record for each number of policies.              *)
Through(a, rules_, r) ==
  /\ a[0] = [path |-> r.path, status |-> 0, defs |-> {}]
  /\ \A n \in 1 .. Len(Registered) : a[n] = ApplyPolicy(a[n - 1], Policies[n], rules_, r)
  /\ Filtered(rules_, r) = a[Len(Registered)]

(* The recursive function that defines Filtered exists.                     *)
LEMMA FilteredFolds ==
  ASSUME NEW R, NEW r
  PROVE  \E a : Through(a, R, r)
<1> DEFINE N == Len(Registered)
           First == [path |-> r.path, status |-> 0, defs |-> {}]
           Step(a, n) == IF n = 0 THEN First ELSE ApplyPolicy(a[n - 1], Policies[n], R, r)
           UpTo(a, m) == a = [n \in 0 .. m |-> Step(a, n)]
           Good == {m \in 0 .. N : \E a : UpTo(a, m)}
<1>1. N \in Nat
  BY RegisteredTypes
<1>2. \A a, m : UpTo(a, m) => \A n \in 0 .. m : a[n] = Step(a, n)
  <2> HIDE DEF Step
  <2> QED OBVIOUS
<1>3. \E a : UpTo(a, 0)
  <2> DEFINE a == [n \in 0 .. 0 |-> First]
  <2>1. UpTo(a, 0)
    OBVIOUS
  <2> QED BY <2>1
<1>4. ASSUME NEW m \in 1 .. N, \E a : UpTo(a, m - 1)
      PROVE  \E b : UpTo(b, m)
  <2>1. PICK a : UpTo(a, m - 1)
    BY <1>4
  <2> DEFINE b == [n \in 0 .. m |-> IF n = m THEN Step(a, m) ELSE a[n]]
  <2>2. b[m] = Step(a, m) /\ \A n \in 0 .. m - 1 : b[n] = a[n]
    <3> HIDE DEF Step
    <3> QED BY <1>1
  <2>3. \A n \in 0 .. m : b[n] = Step(b, n)
    <3> SUFFICES ASSUME NEW n \in 0 .. m PROVE b[n] = Step(b, n)
      OBVIOUS
    <3>1. Step(b, n) = Step(a, n)
      <4>1. CASE n = 0
        BY <4>1
      <4>2. CASE n # 0
        <5>1. n - 1 \in 0 .. m - 1
          BY <4>2, <1>1
        <5>2. b[n - 1] = a[n - 1]
          BY <5>1, <2>2
        <5> HIDE DEF b
        <5> QED BY <5>2
      <4> QED BY <4>1, <4>2
    <3>2. n \in 0 .. m - 1 => a[n] = Step(a, n)
      BY <2>1, <1>2
    <3> HIDE DEF Step, b
    <3> QED BY <3>1, <3>2, <2>2, <1>1
  <2>4. b = [n \in 0 .. m |-> b[n]]
    OBVIOUS
  <2> HIDE DEF b, Step
  <2>5. UpTo(b, m)
    BY <2>3, <2>4
  <2> QED BY <2>5
<1>5. \E a : UpTo(a, N)
  <2> HIDE DEF UpTo
  <2>1. 0 \in Good /\ \A m \in 1 .. N : m - 1 \in Good => m \in Good
    BY <1>1, <1>3, <1>4
  <2>2. 0 .. N \subseteq Good
    <3> HIDE DEF Good
    <3> QED BY <1>1, <2>1, NoLeastFailure
  <2> QED BY <1>1, <2>2
<1>6. PICK a : UpTo(a, N) /\ Filtered(R, r) = a[N]
  <2> DEFINE b == CHOOSE b : UpTo(b, N)
  <2>1. UpTo(b, N)
    <3> HIDE DEF UpTo
    <3> QED BY <1>5
  <2>2. Filtered(R, r) = b[N]
    BY DEF Filtered
  <2> HIDE DEF b, UpTo
  <2> QED BY <2>1, <2>2
<1>7. \A n \in 0 .. N : a[n] = Step(a, n)
  BY <1>6, <1>2
<1>8. a[0] = First /\ \A n \in 1 .. N : a[n] = Step(a, n)
  <2>1. Step(a, 0) = First
    OBVIOUS
  <2> HIDE DEF Step, N, First
  <2> QED BY <2>1, <1>7, <1>1
<1>9. \A n \in 1 .. N : a[n] = ApplyPolicy(a[n - 1], Policies[n], R, r)
  <2>1. \A n : n # 0 => Step(a, n) = ApplyPolicy(a[n - 1], Policies[n], R, r)
    OBVIOUS
  <2>2. \A n \in 1 .. N : n # 0
    BY <1>1
  <2> HIDE DEF Step, N
  <2> QED BY <2>1, <2>2, <1>8
<1> QED BY <1>6, <1>8, <1>9 DEF Through

(* The rules that are read from the file give well formed definitions.      *)
LEMMA LizmapDefsTypes ==
  ASSUME NEW R \in RuleSets, NEW r
  PROVE  \A d \in LizmapDefs(R, r) : Definition(d)
BY RulesAssumption DEF LizmapDefs, Definition

(* Whatever the filters give has the form of a definition.                 *)
LEMMA DefsOfFilters ==
  ASSUME NEW R \in RuleSets, NEW r
  PROVE  \A d \in Filtered(R, r).defs : Definition(d)
<1> DEFINE N == Len(Registered)
           WellFormed(acc) == \A d \in acc.defs : Definition(d)
<1>1. N \in Nat /\ DOMAIN Registered = 1 .. N
  BY RegisteredTypes
<1>2. PICK a : Through(a, R, r)
  BY FilteredFolds
<1> DEFINE Good == {n \in 0 .. N : WellFormed(a[n])}
<1>3. 0 \in Good
  BY <1>1, <1>2 DEF Through
<1>4. ASSUME NEW n \in 1 .. N, n - 1 \in Good
      PROVE  n \in Good
  <2>1. WellFormed(a[n - 1]) /\ a[n] = ApplyPolicy(a[n - 1], Policies[n], R, r)
    BY <1>4, <1>2 DEF Through
  <2>2. PICK i \in DOMAIN Registered : Policies[n] = Registered[i].filters
    BY <1>1, PolicyTypes
  <2> DEFINE fs == Policies[n]
             acc == a[n - 1]
             M == Matching(fs, acc.path)
             f == fs[Min(M)]
  <2>3. CASE acc.status # 0 \/ M = {}
    <3>1. a[n] = acc
      BY <2>1, <2>3 DEF ApplyPolicy
    <3> QED BY <3>1, <2>1
  <2>4. CASE acc.status = 0 /\ M # {}
    <3>1. M \subseteq DOMAIN fs /\ M \in SUBSET Nat
      BY <2>2, RegisteredTypes DEF Matching
    <3>2. Min(M) \in DOMAIN fs
      BY <3>1, <2>4, MinIsLeast
    <3>3. /\ f.kind \in {"lizmap", "defs", "raise"}
          /\ f.kind = "defs" => \A d \in f.defs : Definition(d)
      BY <3>2, <2>2, RegisteredTypes
    <3>4. WellFormed(Applied(f, R, r))
      BY <3>3, LizmapDefsTypes DEF Applied
    <3>5. a[n].defs = Applied(f, R, r).defs
      BY <2>1, <2>4 DEF ApplyPolicy
    <3> QED BY <3>4, <3>5
  <2> QED BY <2>3, <2>4
<1>5. 0 .. N \subseteq Good
  <2> HIDE DEF Good
  <2> QED BY <1>1, <1>3, <1>4, NoLeastFailure
<1> QED BY <1>1, <1>2, <1>5 DEF Through

(* If Lizmap is asked last, what it says is all that is left for a route.  *)
LEMMA LizmapHasTheLastWord ==
  ASSUME LizmapLast, NEW R, NEW r,
         Filtered(R, r).status = 0, Filtered(R, r).path \in Routes
  PROVE  Filtered(R, r).defs = LizmapDefs(R, r)
<1> DEFINE N == Len(Registered)
<1>1. /\ N \in Nat /\ DOMAIN Registered = 1 .. N
      /\ \A i \in DOMAIN Registered :
           /\ Registered[i].pri \in Int
           /\ DOMAIN Registered[i].filters = 1 .. Len(Registered[i].filters)
  BY RegisteredTypes
<1>2. PICK i \in DOMAIN Registered :
        /\ \A k \in DOMAIN Registered \ {i} : Before(k, i)
        /\ Len(Registered[i].filters) = 1
        /\ Registered[i].filters[1].kind = "lizmap"
        /\ Routes \subseteq Registered[i].filters[1].match
  BY DEF LizmapLast
<1>3. Cardinality(Ahead(i)) = N - 1
  <2>1. Ahead(i) = DOMAIN Registered \ {i}
    BY <1>1, <1>2 DEF Ahead, Before
  <2>2. IsFiniteSet(DOMAIN Registered) /\ Cardinality(DOMAIN Registered) = N
    <3>1. IsFiniteSet(1 .. N) /\ Cardinality(1 .. N) = N
      <4> HIDE DEF N
      <4> QED BY <1>1, FS_Interval
    <3> QED BY <3>1, <1>1
  <2> QED BY <2>1, <2>2, FS_RemoveElement
<1>4. Policies[N] = Registered[i].filters
  <2>1. N \in DOMAIN Registered
    BY <1>1
  <2>2. PICK k \in DOMAIN Registered :
          Cardinality(Ahead(k)) = N - 1 /\ Policies[N] = Registered[k].filters
    BY <2>1, PolicyTypes
  <2>3. k = i
    BY <1>3, <2>2, PlacesOfPolicies
  <2> QED BY <2>2, <2>3
<1>5. PICK a : Through(a, R, r)
  BY FilteredFolds
<1> DEFINE acc == a[N - 1]
           fs == Policies[N]
           M == Matching(fs, acc.path)
<1>6. Filtered(R, r) = ApplyPolicy(acc, fs, R, r)
  BY <1>1, <1>5 DEF Through
<1>7. acc.status = 0
  BY <1>6 DEF ApplyPolicy
<1>8. M \subseteq {1}
  BY <1>1, <1>2, <1>4 DEF Matching
<1>9. M # {}
  <2> SUFFICES ASSUME M = {} PROVE FALSE
    OBVIOUS
  <2>1. acc.path \in Routes
    BY <1>6 DEF ApplyPolicy
  <2>2. 1 \in M
    BY <2>1, <1>1, <1>2, <1>4 DEF Matching
  <2> QED BY <2>2
<1>10. Min(M) = 1
  BY <1>8, <1>9, MinIsLeast
<1>11. Filtered(R, r).defs = Applied(fs[1], R, r).defs
  BY <1>6, <1>7, <1>9, <1>10 DEF ApplyPolicy
<1> QED BY <1>11, <1>2, <1>4 DEF Applied

-------------------------------------------------------------------------------
(* What the checks of a request leave *)

Realms == Jobs \cup {r.realm : r \in Requests}
Policy == [allow : SUBSET Identifiers, deny : SUBSET Identifiers]
Record == [process : Processes, realm : Realms, api : Routes,
           status : {"ACCEPTED", "STARTED", "DONE", "ERROR"},
           timeout : 1 .. ServerTimeout, expiration : Nat \ {0}, files : SUBSET {"out"}]

(* Checks in their order raise no error if none of them does.               *)
LEMMA FirstError ==
  ASSUME NEW a, NEW b
  PROVE  (a ?? b) = 0 <=> a = 0 /\ b = 0
BY DEF ??

(* A duration that passes the checks is absent or positive, and what it    *)
(* becomes is within the limits.                                           *)
Duration(d) == d = Absent \/ d \in Nat \ {0}

(* It gives a timeout that is at most that of the server, and an expiration *)
(* that is not null.                                                        *)
LEMMA LimitsOfDurations ==
  ASSUME NEW d, Duration(d)
  PROVE  EffectiveTimeout(d) \in 1 .. ServerTimeout /\ EffectiveExpiration(d) \in Nat \ {0}
<1>1. CASE d = Absent
  BY <1>1, TimeoutAssumption DEF EffectiveTimeout, EffectiveExpiration
<1>2. CASE d # Absent
  <2>1. d \in Nat \ {0}
    BY <1>2 DEF Duration
  <2>2. {ServerTimeout, d} \in SUBSET Nat
    BY <2>1, TimeoutAssumption
  <2>3. Min({ServerTimeout, d}) \in {ServerTimeout, d} /\ Min({ServerTimeout, d}) <= ServerTimeout
    BY <2>2, MinIsLeast
  <2>4. Min({ServerTimeout, d}) \in 1 .. ServerTimeout
    BY <2>1, <2>3, TimeoutAssumption
  <2> QED BY <1>2, <2>1, <2>4 DEF EffectiveTimeout, EffectiveExpiration
<1> QED BY <1>1, <1>2

(* The record of a request whose process and durations were checked.        *)
LEMMA NewRecordType ==
  ASSUME NEW r \in Requests, NEW j \in Jobs, NEW ident \in Processes, NEW api \in Routes,
         NEW t, NEW e, Duration(t), Duration(e)
  PROVE  /\ NewRecord(r, j, ident, api, t, e) \in Record
         /\ NewRecord(r, j, ident, api, t, e).process = ident
<1>1. EffectiveTimeout(t) \in 1 .. ServerTimeout /\ EffectiveExpiration(e) \in Nat \ {0}
  BY LimitsOfDurations
<1>2. Realm(r, j) \in Realms
  BY DEF Realm, Realms
<1> QED BY <1>1, <1>2 DEF NewRecord, Record

(* The check of the OWS parser.                                             *)
LEMMA DurationChecked ==
  ASSUME NEW d \in Int \cup {Absent, Junk}, DurationError(d) = 0
  PROVE  Duration(d)
<1>1. Check(d = Junk, 500) = 0 /\ Check(NotPositive(d), 400) = 0
  BY FirstError DEF DurationError
<1>2. d # Junk /\ ~NotPositive(d)
  BY <1>1 DEF Check
<1> QED BY <1>2 DEF Duration, NotPositive

(* The parameters that requests of both protocols have.                     *)
LEMMA RequestTypes ==
  ASSUME NEW r \in Requests, r.kind \in {"ows", "processes"}
  PROVE  /\ r.idents \in Seq(Identifiers) /\ r.async \in BOOLEAN
         /\ r.timeout \in Int \cup {Absent, Junk} /\ r.expire \in Int \cup {Absent, Junk}
BY RequestsAssumption

(* What parsing an OWS request ensures, by GET or by POST.                  *)
LEMMA OwsParsed ==
  ASSUME NEW r \in Requests, r.kind = "ows", ParseOws(r) = 0
  PROVE  /\ r.operation \in {"getresults", "getcapabilities", "describeprocess", "execute"}
         /\ r.operation = "execute" =>
              r.idents # <<>> /\ Duration(TimeoutOf(r)) /\ Duration(ExpireOf(r))
<1>1. /\ r.timeout \in Int \cup {Absent, Junk} /\ r.expire \in Int \cup {Absent, Junk}
  BY RequestTypes
<1>2. CASE r.post
  <2>1. ParsePost(r) = 0
    BY <1>2 DEF ParseOws
  <2>2. r.operation \in {"getcapabilities", "describeprocess", "execute"}
    BY <2>1 DEF ParsePost, ??
  <2>3. ASSUME r.operation = "execute"
        PROVE  /\ IdentError(r) = 0
               /\ ~Silent(r) => DurationError(r.timeout) = 0 /\ DurationError(r.expire) = 0
    BY <2>1, <2>3 DEF ParsePost, ??
  <2>4. ASSUME r.operation = "execute"
        PROVE  r.idents # <<>> /\ Duration(TimeoutOf(r)) /\ Duration(ExpireOf(r))
    <3>1. r.idents # <<>>
      BY <2>3, <2>4 DEF IdentError, Check
    <3>2. CASE Silent(r)
      BY <3>1, <3>2 DEF TimeoutOf, ExpireOf, Duration
    <3>3. CASE ~Silent(r)
      BY <1>1, <2>3, <2>4, <3>1, <3>3, DurationChecked DEF TimeoutOf, ExpireOf
    <3> QED BY <3>2, <3>3
  <2> QED BY <2>2, <2>4
<1>3. CASE ~r.post
  <2>1. ParseGet(r) = 0 /\ ~Silent(r)
    BY <1>3 DEF ParseOws, Silent
  <2>2. r.operation \in {"getresults", "getcapabilities", "describeprocess", "execute"}
    BY <2>1 DEF ParseGet, ??
  <2>3. ASSUME r.operation = "execute"
        PROVE  /\ IdentError(r) = 0
               /\ DurationError(r.timeout) = 0 /\ DurationError(r.expire) = 0
    BY <2>1, <2>3 DEF ParseGet, ??
  <2>4. ASSUME r.operation = "execute"
        PROVE  r.idents # <<>> /\ Duration(TimeoutOf(r)) /\ Duration(ExpireOf(r))
    <3>1. r.idents # <<>>
      BY <2>3, <2>4 DEF IdentError, Check
    <3> QED BY <1>1, <2>1, <2>3, <2>4, <3>1, DurationChecked DEF TimeoutOf, ExpireOf
  <2> QED BY <2>2, <2>4
<1> QED BY <1>2, <1>3

-------------------------------------------------------------------------------
(* What a request does to what is shared *)

(* A request that goes on has been refused by no filter, and its            *)
(* definitions can be added.                                                *)
LEMMA NotRefused ==
  ASSUME NEW f, Refusal(f) = 0
  PROVE  f.status = 0 /\ (f.path \in Routes => \A d \in f.defs : Addable(d))
<1>1. Closed # 0
  BY DEF Closed
<1>2. f.status = 0
  BY <1>1 DEF Refusal
<1>3. ASSUME f.path \in Routes, NEW d \in f.defs, ~Addable(d)
      PROVE  FALSE
  <2>1. Refusal(f) = Closed
    BY <1>2, <1>3, Zenon DEF Refusal
  <2> QED BY <1>1, <2>1
<1> QED BY <1>2, <1>3

(* The arguments of the routes stay policies made of identifiers.           *)
LEMMA Installed ==
  ASSUME rules \in RuleSets, NEW r, Refusal(Filtered(rules, r)) = 0,
         kwargs \in [Routes -> Policy]
  PROVE  Install(kwargs, Filtered(rules, r).path, Filtered(rules, r).defs) \in [Routes -> Policy]
<1> DEFINE f == Filtered(rules, r)
<1>1. \A d \in f.defs : Definition(d)
  BY DefsOfFilters
<1>2. f.path \in Routes => \A d \in f.defs : Addable(d)
  BY NotRefused
<1> HIDE DEF f
<1>3. ASSUME f.path \in Routes
      PROVE  AddPolicies(NoRules, f.defs) \in Policy
  <2>1. \A d \in f.defs : Definition(d) /\ Addable(d)
    BY <1>1, <1>2, <1>3
  <2>a. \A d \in f.defs : d.allow # Absent => d.allow \in SUBSET Identifiers
    BY <2>1 DEF Definition, Rights, Addable
  <2>b. \A d \in f.defs : d.deny # Absent => d.deny \in SUBSET Identifiers
    BY <2>1 DEF Definition, Rights, Addable
  <2>2. UNION {d.allow : d \in {x \in f.defs : x.allow # Absent}} \subseteq Identifiers
    BY <2>a
  <2>3. UNION {d.deny : d \in {x \in f.defs : x.deny # Absent}} \subseteq Identifiers
    BY <2>b
  <2> QED BY <2>2, <2>3 DEF AddPolicies, NoRules, Policy
<1>4. Install(kwargs, f.path, f.defs) \in [Routes -> Policy]
  BY <1>3 DEF Install
<1> QED BY <1>4 DEF f

(* A request does nothing to the stores, starts a job with a well formed   *)
(* record, deletes a job or makes a token; and only without an error, that *)
(* of a pool that is busy excepted.                                        *)
Nothing == UNCHANGED <<stores, sync, tokens>>

Starts(j, record) ==
  /\ jobs[j] = Absent
  /\ \E status \in {"ACCEPTED", "ERROR"} :
       jobs' = [jobs EXCEPT ![j] = [record EXCEPT !.status = status]]
  /\ docs' = [docs EXCEPT ![j] = "status"]
  /\ dirs' = [dirs EXCEPT ![j] = {}]
  /\ replies' = replies /\ tokens' = tokens
  /\ waiting' = waiting \/ waiting' = [waiting EXCEPT ![j] = record]
  /\ answer'.op = "busy" \/ answer'.status \in {0, 200, 201}

Effects(r, j) ==
  \/ Nothing
  \/ \E record \in Record : Starts(j, record)
  \/ r.job \in Jobs /\ Delete(r.job) /\ answer'.status = 200
  \/ /\ UNCHANGED <<stores, sync>> /\ answer'.status = 200
     /\ \E t \in Jobs \X Files : tokens' = tokens \cup {t}

(* The record of a new job is the one with the status ACCEPTED.             *)
LEMMA NewRecordStatus ==
  ASSUME NEW r, NEW j, NEW ident, NEW api, NEW t, NEW e
  PROVE  LET record == NewRecord(r, j, ident, api, t, e)
         IN  record = [record EXCEPT !.status = "ACCEPTED"]
BY DEF NewRecord

(* An execution that is refused does nothing, any other starts a job.       *)
LEMMA ExecuteEffects ==
  ASSUME NEW r, NEW j \in Jobs, NEW error, NEW record, NEW async \in BOOLEAN,
         record = [record EXCEPT !.status = "ACCEPTED"],
         error = 0 => record \in Record,
         Execute(r, j, error, record, async), UNCHANGED tokens
  PROVE  Effects(r, j)
<1>1. CASE error # 0
  BY <1>1 DEF Execute, Effects, Nothing
<1>2. CASE error = 0
  <2>1. StartJob(r, j, record, async)
    BY <1>2 DEF Execute
  <2>2. \E status \in {"ACCEPTED", "ERROR"} :
          jobs' = [jobs EXCEPT ![j] = [record EXCEPT !.status = status]]
    BY <2>1 DEF StartJob
  <2>3. waiting' = waiting \/ waiting' = [waiting EXCEPT ![j] = record]
    BY <2>1 DEF StartJob
  <2>4. answer'.op = "busy" \/ answer'.status \in {0, 200, 201}
    BY <2>1 DEF StartJob, Reply
  <2>5. Starts(j, record)
    BY <2>1, <2>2, <2>3, <2>4 DEF StartJob, Starts
  <2> QED BY <1>2, <2>5 DEF Effects
<1> QED BY <1>1, <1>2

(* The identifier of an execution is the first of the request.              *)
LEMMA FirstIdent ==
  ASSUME NEW r, r.idents \in Seq(Identifiers), r.idents # <<>>
  PROVE  r.idents[1] \in ToSet(r.idents)
BY DEF ToSet

(* Only published processes are made.                                       *)
LEMMA PublishedChecked ==
  ASSUME NEW idents, NEW map, NEW unknown \in Nat \ {0}, ProcessError(idents, map, unknown) = 0
  PROVE  idents \subseteq Processes
BY DEF ProcessError, Check, ??

(* The record of an execution that is not refused.                         *)
OwsRecord(r, j) == NewRecord(r, j, r.idents[1], "ows", TimeoutOf(r), ExpireOf(r))
OwsExecError(r) ==
  Check(Forbidden("ows", r.idents), 403) ?? ProcessError({r.idents[1]}, r.map, 400) ?? InputError(r)

(* An OWS execution without error: its record is well formed and is of a    *)
(* process that the policy allows.                                          *)
LEMMA OwsExecution ==
  ASSUME NEW r \in Requests, NEW j \in Jobs, r.kind = "ows",
         ParseOws(r) = 0, r.operation = "execute", OwsExecError(r) = 0
  PROVE  /\ OwsRecord(r, j) \in Record
         /\ OwsRecord(r, j).process = r.idents[1] /\ r.idents[1] \in ToSet(r.idents)
         /\ ~Forbidden("ows", r.idents)
<1>1. /\ Check(Forbidden("ows", r.idents), 403) = 0
      /\ ProcessError({r.idents[1]}, r.map, 400) = 0
  BY FirstError DEF OwsExecError
<1>2. ~Forbidden("ows", r.idents)
  BY <1>1 DEF Check
<1>3. r.idents[1] \in Processes
  BY <1>1, PublishedChecked
<1>4. r.idents # <<>> /\ Duration(TimeoutOf(r)) /\ Duration(ExpireOf(r))
  BY OwsParsed
<1>5. r.idents[1] \in ToSet(r.idents)
  BY <1>4, RequestTypes, FirstIdent
<1> QED BY <1>2, <1>3, <1>4, <1>5, NewRecordType DEF OwsRecord, Routes

ApiRecord(r, j) == NewRecord(r, j, r.idents[1], "ogcapi", r.timeout, r.expire)
ApiExecError(r) ==
  Check(Forbidden("ogcapi", r.idents), 401) ?? Check(r.body = Junk, 400)
    ?? PreferenceError(r) ?? ProcessError(ToSet(r.idents), r.map, 404)
    ?? LimitError(r) ?? InputError(r)

(* And one of the OGC API.                                                  *)
LEMMA ApiExecution ==
  ASSUME NEW r \in Requests, NEW j \in Jobs, r.kind = "processes",
         r.operation = "execute", ApiExecError(r) = 0
  PROVE  /\ ApiRecord(r, j) \in Record
         /\ ApiRecord(r, j).process = r.idents[1] /\ r.idents[1] \in ToSet(r.idents)
         /\ ~Forbidden("ogcapi", r.idents)
<1>1. /\ Check(Forbidden("ogcapi", r.idents), 401) = 0
      /\ PreferenceError(r) = 0
      /\ ProcessError(ToSet(r.idents), r.map, 404) = 0
      /\ LimitError(r) = 0
  BY FirstError DEF ApiExecError
<1>2. ~Forbidden("ogcapi", r.idents)
  BY <1>1 DEF Check
<1>3. Duration(r.timeout) /\ Duration(r.expire)
  <2>1. r.timeout # Junk /\ r.expire # Junk
    BY <1>1 DEF PreferenceError, Check
  <2>2. ~NotPositive(r.timeout) /\ ~NotPositive(r.expire)
    BY <1>1 DEF LimitError, Check
  <2> QED BY <2>1, <2>2, RequestTypes DEF Duration, NotPositive
<1>4. r.idents # <<>>
  BY RequestsAssumption
<1>5. r.idents[1] \in ToSet(r.idents)
  BY <1>4, RequestTypes, FirstIdent
<1>6. r.idents[1] \in Processes
  BY <1>1, <1>5, PublishedChecked
<1> QED BY <1>2, <1>3, <1>5, <1>6, NewRecordType DEF ApiRecord, Routes

(* Descriptions and lists change nothing.                                   *)
LEMMA ShowEffects ==
  ASSUME NEW r, NEW j, NEW op, NEW error, NEW shows, Show(r, op, error, shows), UNCHANGED tokens
  PROVE  Effects(r, j)
BY DEF Show, Effects, Nothing

(* All operations of /ows/.                                                 *)
LEMMA OwsEffects ==
  ASSUME NEW r \in Requests, NEW j \in Jobs, r.kind = "ows", Ows(r, j)
  PROVE  Effects(r, j)
<1>0. UNCHANGED tokens
  BY DEF Ows
<1>1. CASE ParseOws(r) # 0
  BY <1>0, <1>1 DEF Ows, Effects, Nothing
<1>2. CASE ParseOws(r) = 0
  <2>1. r.operation \in {"getresults", "getcapabilities", "describeprocess", "execute"}
    BY <1>2, OwsParsed
  <2>2. CASE r.operation = "getresults"
    <3>1. GetResults(r)
      BY <1>2, <2>2 DEF Ows
    <3> QED BY <1>0, <3>1 DEF GetResults, Effects, Nothing
  <2>3. CASE r.operation = "getcapabilities"
    <3>1. GetCapabilities(r)
      BY <1>2, <2>3 DEF Ows
    <3> QED BY <1>0, <3>1, ShowEffects DEF GetCapabilities
  <2>4. CASE r.operation = "describeprocess"
    <3>1. DescribeProcess(r)
      BY <1>2, <2>4 DEF Ows
    <3> QED BY <1>0, <3>1, ShowEffects DEF DescribeProcess
  <2>5. CASE r.operation = "execute"
    <3>1. OwsExecute(r, j)
      BY <1>2, <2>5 DEF Ows
    <3>2. Execute(r, j, OwsExecError(r), OwsRecord(r, j), AsyncOf(r))
      BY <3>1 DEF OwsExecute, OwsExecError, OwsRecord
    <3>3. OwsExecError(r) = 0 => OwsRecord(r, j) \in Record
      BY <1>2, <2>5, OwsExecution
    <3>4. AsyncOf(r) \in BOOLEAN
      BY DEF AsyncOf
    <3>5. OwsRecord(r, j) = [OwsRecord(r, j) EXCEPT !.status = "ACCEPTED"]
      BY NewRecordStatus DEF OwsRecord
    <3> QED BY <1>0, <3>2, <3>3, <3>4, <3>5, ExecuteEffects
  <2> QED BY <2>1, <2>2, <2>3, <2>4, <2>5
<1> QED BY <1>1, <1>2

(* All operations of /processes.                                            *)
LEMMA ApiEffects ==
  ASSUME NEW r \in Requests, NEW j \in Jobs, r.kind = "processes", Api(r, j)
  PROVE  Effects(r, j)
<1>0. UNCHANGED tokens
  BY DEF Api
<1>1. r.operation \in {"list", "describe", "execute"} /\ r.async \in BOOLEAN
  BY RequestsAssumption
<1>2. CASE r.operation = "list"
  <2>1. ApiList(r)
    BY <1>2 DEF Api
  <2> QED BY <1>0, <2>1, ShowEffects DEF ApiList
<1>3. CASE r.operation = "describe"
  <2>1. ApiDescribe(r)
    BY <1>3 DEF Api
  <2> QED BY <1>0, <2>1, ShowEffects DEF ApiDescribe
<1>4. CASE r.operation = "execute"
  <2>1. ApiExecute(r, j)
    BY <1>4 DEF Api
  <2>2. Execute(r, j, ApiExecError(r), ApiRecord(r, j), r.async)
    BY <2>1 DEF ApiExecute, ApiExecError, ApiRecord
  <2>3. ApiExecError(r) = 0 => ApiRecord(r, j) \in Record
    BY <1>4, ApiExecution
  <2>4. ApiRecord(r, j) = [ApiRecord(r, j) EXCEPT !.status = "ACCEPTED"]
    BY NewRecordStatus DEF ApiRecord
  <2> QED BY <1>0, <1>1, <2>2, <2>3, <2>4, ExecuteEffects
<1> QED BY <1>1, <1>2, <1>3, <1>4

(* The other handlers, whichever it is.                                    *)
JobHandlers(r) ==
  \/ JobList(r) \/ JobStatus(r) \/ JobInputs(r) \/ JobResults(r) \/ JobDismiss(r) \/ ListFiles(r)
  \/ GetFile(r) \/ GetLog(r) \/ (r.operation = "geturl" /\ PutUrl(r)) \/ GetToken(r)
  \/ OldStatus(r) \/ OldDelete(r)

(* A request of kind jobs goes to one of them.                              *)
LEMMA OtherHandlers ==
  ASSUME NEW r \in Requests, r.kind = "jobs", Other(r)
  PROVE  r.job \in Jobs /\ (r.operation = "geturl" => r.file \in Files) /\ JobHandlers(r)
<1>1. /\ r.operation \in {"joblist", "status", "inputs", "results", "dismiss", "ls", "file",
                          "log", "geturl", "dnl", "old", "delete"}
      /\ r.job \in Jobs /\ (r.operation = "geturl" => r.file \in Files)
  BY RequestsAssumption
<1>2. JobHandlers(r)
  BY <1>1 DEF Other, JobHandlers
<1> QED BY <1>1, <1>2

(* Of those, dismissals and deletions delete, and geturl makes a token.     *)
LEMMA OtherEffects ==
  ASSUME NEW r \in Requests, NEW j \in Jobs, r.kind = "jobs", Other(r)
  PROVE  Effects(r, j)
<1>1. r.job \in Jobs /\ (r.operation = "geturl" => r.file \in Files) /\ JobHandlers(r)
  BY OtherHandlers
<1>2. CASE JobList(r) \/ JobStatus(r) \/ JobInputs(r) \/ JobResults(r)
  BY <1>2 DEF JobList, JobStatus, JobInputs, JobResults, Effects, Nothing
<1>3. CASE ListFiles(r) \/ GetFile(r) \/ GetLog(r) \/ GetToken(r) \/ OldStatus(r)
  BY <1>3 DEF ListFiles, GetFile, GetLog, GetToken, OldStatus, Effects, Nothing
<1>4. CASE JobDismiss(r)
  BY <1>1, <1>4 DEF JobDismiss, Reply, Effects, Nothing
<1>5. CASE OldDelete(r)
  BY <1>1, <1>5 DEF OldDelete, Reply, Effects, Nothing
<1>6. CASE r.operation = "geturl" /\ PutUrl(r)
  <2>1. CASE AclStatus(r, r.file) # 0
    BY <1>6, <2>1 DEF PutUrl, Effects, Nothing
  <2>2. CASE AclStatus(r, r.file) = 0
    <3>1. <<r.job, r.file>> \in Jobs \X Files
      BY <1>1, <1>6
    <3>2. /\ UNCHANGED <<stores, sync>> /\ answer'.status = 200
          /\ tokens' = tokens \cup {<<r.job, r.file>>}
      BY <1>6, <2>2 DEF PutUrl, Reply
    <3> QED BY <3>1, <3>2 DEF Effects
  <2> QED BY <2>1, <2>2
<1> QED BY <1>1, <1>2, <1>3, <1>4, <1>5, <1>6 DEF JobHandlers

(* Whatever the filters decide and whichever handler is called.             *)
LEMMA RequestEffects ==
  ASSUME NEW r \in Requests, NEW j \in Jobs, Request(r, j),
         rules \in RuleSets, kwargs \in [Routes -> Policy]
  PROVE  rules' = rules /\ kwargs' \in [Routes -> Policy] /\ Effects(r, j)
<1> DEFINE f == Filtered(rules, r)
<1>1. rules' = rules
  BY DEF Request
<1>2. CASE Refusal(f) # 0
  <2>1. RefuseAtFilter(r, f)
    BY <1>2 DEF Request
  <2> QED BY <1>1, <2>1 DEF RefuseAtFilter, Effects, Nothing
<1>3. CASE Refusal(f) = 0
  <2>1. kwargs' = Install(kwargs, f.path, f.defs)
    BY <1>3 DEF Request
  <2>2. kwargs' \in [Routes -> Policy]
    BY <1>3, <2>1, Installed
  <2>3. r.kind \in {"ows", "processes", "jobs"}
    BY RequestsAssumption
  <2>4. (r.kind = "ows" /\ Ows(r, j)) \/ (r.kind = "processes" /\ Api(r, j)) \/ (r.kind = "jobs" /\ Other(r))
    BY <1>3, <2>3 DEF Request
  <2> QED BY <1>1, <2>2, <2>4, OwsEffects, ApiEffects, OtherEffects
<1> QED BY <1>2, <1>3

-------------------------------------------------------------------------------
(* Types *)

(* The types, and what JobEnds needs to add files to a directory: a job    *)
(* that has started has one, whatever was deleted since.                   *)
StoreInv ==
  /\ rules \in RuleSets
  /\ kwargs \in [Routes -> Policy]
  /\ jobs \in [Jobs -> Record \cup {Absent, Gone}]
  /\ waiting \in [Jobs -> Record \cup {Absent}]
  /\ docs \in [Jobs -> {"none", "status", "json", "xml"}]
  /\ dirs \in [Jobs -> (SUBSET Files) \cup {Absent}]
  /\ replies \in [Jobs -> {"none", "DONE", "ERROR"}]
  /\ tokens \subseteq Jobs \X Files
  /\ \A j \in Jobs : Exists(j) /\ jobs[j].status = "STARTED" => dirs[j] \in SUBSET Files

(* Nothing is in the stores at the start.                                   *)
LEMMA StoreInit == Init => StoreInv
<1> SUFFICES ASSUME Init PROVE StoreInv
  OBVIOUS
<1>1. NoRules \in Policy
  BY DEF NoRules, Policy
<1>2. kwargs \in [Routes -> Policy]
  BY <1>1 DEF Init
<1>3. \A j \in Jobs : ~Exists(j)
  BY DEF Init, Exists
<1>4. rules \in RuleSets
  BY RulesAssumption DEF Init
<1> QED BY <1>2, <1>3, <1>4 DEF Init, StoreInv

(* A record with another status.                                            *)
LEMMA StatusOfRecord ==
  ASSUME NEW record \in Record, NEW status \in {"ACCEPTED", "STARTED", "DONE", "ERROR"}
  PROVE  /\ [record EXCEPT !.status = status] \in Record
         /\ [record EXCEPT !.status = status].status = status
BY DEF Record

(* StoreInv is kept by each of the effects of a request.                    *)
LEMMA EffectsKeepStores ==
  ASSUME StoreInv, NEW r, NEW j \in Jobs, Effects(r, j),
         rules' \in RuleSets, kwargs' \in [Routes -> Policy]
  PROVE  StoreInv'
<1>1. CASE Nothing
  BY <1>1 DEF Nothing, StoreInv, stores, sync, Exists
<1>2. ASSUME NEW record \in Record, Starts(j, record)
      PROVE  StoreInv'
  <2>1. PICK status \in {"ACCEPTED", "ERROR"} :
          jobs' = [jobs EXCEPT ![j] = [record EXCEPT !.status = status]]
    BY <1>2 DEF Starts
  <2> DEFINE new == [record EXCEPT !.status = status]
  <2>2. new \in Record /\ new.status = status
    BY <1>2, StatusOfRecord
  <2> HIDE DEF new
  <2>3. jobs' = [jobs EXCEPT ![j] = new]
    BY <2>1 DEF new
  <2>4. jobs' \in [Jobs -> Record \cup {Absent, Gone}]
    BY <2>2, <2>3 DEF StoreInv
  <2>5. \A x \in Jobs : Exists(x)' /\ jobs'[x].status = "STARTED" => dirs'[x] \in SUBSET Files
    BY <1>2, <2>2, <2>3 DEF StoreInv, Starts, Exists
  <2>6. waiting' \in [Jobs -> Record \cup {Absent}]
    BY <1>2 DEF StoreInv, Starts
  <2>7. /\ docs' \in [Jobs -> {"none", "status", "json", "xml"}]
        /\ dirs' \in [Jobs -> (SUBSET Files) \cup {Absent}]
        /\ replies' \in [Jobs -> {"none", "DONE", "ERROR"}]
        /\ tokens' \subseteq Jobs \X Files
    BY <1>2 DEF StoreInv, Starts
  <2> QED BY <2>4, <2>5, <2>6, <2>7 DEF StoreInv
<1>3. CASE r.job \in Jobs /\ Delete(r.job)
  <2>1. jobs' \in [Jobs -> Record \cup {Absent, Gone}]
    BY <1>3 DEF StoreInv, Delete
  <2>2. \A x \in Jobs : Exists(x)' /\ jobs'[x].status = "STARTED" => dirs'[x] \in SUBSET Files
    BY <1>3 DEF StoreInv, Delete, Exists
  <2> QED BY <1>3, <2>1, <2>2 DEF StoreInv, Delete, sync
<1>4. ASSUME NEW t \in Jobs \X Files, UNCHANGED <<stores, sync>>, tokens' = tokens \cup {t}
      PROVE  StoreInv'
  BY <1>4 DEF StoreInv, stores, sync, Exists
<1> QED BY <1>1, <1>2, <1>3, <1>4 DEF Effects

(* And each step of a request, of a job or of the store keeps it.           *)
LEMMA StoreStep == StoreInv /\ [Next]_vars => StoreInv'
<1> SUFFICES ASSUME StoreInv, [Next]_vars PROVE StoreInv'
  OBVIOUS
<1>1. ASSUME NEW r \in Requests, NEW j \in Jobs, Request(r, j)
      PROVE  StoreInv'
  <2>1. rules \in RuleSets /\ kwargs \in [Routes -> Policy]
    BY DEF StoreInv
  <2> QED BY <1>1, <2>1, RequestEffects, EffectsKeepStores
<1>2. ASSUME NEW j \in Jobs, JobStarts(j)
      PROVE  StoreInv'
  <2>1. jobs[j] \in Record
    BY <1>2 DEF StoreInv, JobStarts, Exists
  <2>2. jobs' = [jobs EXCEPT ![j] = [jobs[j] EXCEPT !.status = "STARTED"]]
    BY <1>2 DEF JobStarts
  <2>3. jobs' \in [Jobs -> Record \cup {Absent, Gone}]
    BY <2>1, <2>2, StatusOfRecord DEF StoreInv
  <2>4. dirs' = [dirs EXCEPT ![j] = {"log"}] /\ {"log"} \in SUBSET Files
    BY <1>2, FilesAssumption DEF JobStarts
  <2>5. \A x \in Jobs : Exists(x)' /\ jobs'[x].status = "STARTED" => dirs'[x] \in SUBSET Files
    BY <2>2, <2>4 DEF StoreInv, Exists
  <2>6. dirs' \in [Jobs -> (SUBSET Files) \cup {Absent}]
    BY <2>4 DEF StoreInv
  <2> QED BY <1>2, <2>3, <2>5, <2>6 DEF StoreInv, JobStarts, sync
<1>3. ASSUME NEW j \in Jobs, NEW status \in {"DONE", "ERROR"}, JobEnds(j, status)
      PROVE  StoreInv'
  <2>1. jobs[j] \in Record /\ Exists(j) /\ jobs[j].status = "STARTED"
    BY <1>3 DEF StoreInv, JobEnds, Exists
  <2> DEFINE files == IF status = "DONE" THEN {"out"} ELSE {}
             new == [[jobs[j] EXCEPT !.status = status] EXCEPT !.files = files]
  <2>2. new \in Record /\ new.status = status
    BY <2>1 DEF Record
  <2>3. jobs' = [jobs EXCEPT ![j] = new]
    BY <1>3 DEF JobEnds, StoreInv
  <2> HIDE DEF new
  <2>4. jobs' \in [Jobs -> Record \cup {Absent, Gone}]
    BY <2>2, <2>3 DEF StoreInv
  <2>5. dirs[j] \in SUBSET Files
    BY <2>1 DEF StoreInv
  <2>6. dirs' = [dirs EXCEPT ![j] = dirs[j] \cup IF status = "DONE" THEN Files ELSE {}]
    BY <1>3 DEF JobEnds
  <2>7. dirs' \in [Jobs -> (SUBSET Files) \cup {Absent}]
    BY <2>5, <2>6 DEF StoreInv
  <2>8. \A x \in Jobs : Exists(x)' /\ jobs'[x].status = "STARTED" => dirs'[x] \in SUBSET Files
    BY <2>2, <2>3, <2>6 DEF StoreInv, Exists
  <2>9. docs' \in [Jobs -> {"none", "status", "json", "xml"}]
    BY <1>3 DEF StoreInv, JobEnds, FinalDoc
  <2>10. replies' \in [Jobs -> {"none", "DONE", "ERROR"}]
    BY <1>3 DEF StoreInv, JobEnds
  <2> QED BY <1>3, <2>4, <2>7, <2>8, <2>9, <2>10 DEF StoreInv, JobEnds
<1>4. ASSUME NEW j \in Jobs, AnswerSync(j)
      PROVE  StoreInv'
  BY <1>4 DEF StoreInv, AnswerSync, stores, Exists
<1>5. ASSUME NEW j \in Jobs, SyncTimeout(j)
      PROVE  StoreInv'
  <2>1. waiting[j] \in Record
    BY <1>5 DEF StoreInv, SyncTimeout
  <2> DEFINE new == [waiting[j] EXCEPT !.status = "ERROR"]
  <2>2. new \in Record /\ new.status = "ERROR"
    BY <2>1, StatusOfRecord
  <2>3. jobs' = [jobs EXCEPT ![j] = new]
    BY <1>5 DEF SyncTimeout
  <2> HIDE DEF new
  <2>4. jobs' \in [Jobs -> Record \cup {Absent, Gone}]
    BY <2>2, <2>3 DEF StoreInv
  <2>5. \A x \in Jobs : Exists(x)' /\ jobs'[x].status = "STARTED" => dirs'[x] \in SUBSET Files
    BY <1>5, <2>2, <2>3 DEF StoreInv, SyncTimeout, Exists
  <2>6. docs' \in [Jobs -> {"none", "status", "json", "xml"}]
    BY <1>5 DEF StoreInv, SyncTimeout, FinalDoc
  <2> QED BY <1>5, <2>4, <2>5, <2>6 DEF StoreInv, SyncTimeout
<1>6. ASSUME NEW t \in tokens, TokenExpires(t)
      PROVE  StoreInv'
  BY <1>6 DEF StoreInv, TokenExpires, stores, sync, Exists
<1>7. ASSUME NEW new \in RuleSets, ReloadRules(new)
      PROVE  StoreInv'
  BY <1>7 DEF StoreInv, ReloadRules, stores, sync, Exists
<1>8. CASE UNCHANGED vars
  BY <1>8 DEF StoreInv, vars, stores, sync, Exists
<1> QED BY <1>1, <1>2, <1>3, <1>4, <1>5, <1>6, <1>7, <1>8 DEF Next

(* StoreInv is an invariant.                                                *)
LEMMA StoreCorrect == Spec => []StoreInv
BY StoreInit, StoreStep, PTL DEF Spec

(* Types, and limits of the timeouts and expirations of every job: whatever *)
(* a client asks for, in both protocols, a record that is made again after  *)
(* a timeout included (logstore.py, processeshandler.py).                   *)
THEOREM TypeCorrect == Spec => []TypeOK
<1>1. StoreInv => TypeOK
  <2> SUFFICES ASSUME StoreInv PROVE TypeOK
    OBVIOUS
  <2>1. \A j \in Jobs : Exists(j) => jobs[j] \in Record
    BY DEF StoreInv, Exists
  <2>2. \A j \in Jobs : waiting[j] # Absent => waiting[j] \in Record
    BY DEF StoreInv
  <2>3. "out" \in Files
    BY FilesAssumption
  <2>4. LimitsKept
    BY <2>1 DEF LimitsKept, Record
  <2>5. \A j \in Jobs : Exists(j) =>
          /\ jobs[j].process \in Processes /\ jobs[j].api \in Routes
          /\ jobs[j].status \in {"ACCEPTED", "STARTED", "DONE", "ERROR"}
          /\ jobs[j].files \subseteq Files
    BY <2>1, <2>3 DEF Record
  <2>6. \A j \in Jobs : waiting[j] # Absent => waiting[j].process \in Processes
    BY <2>2 DEF Record
  <2>7. /\ \A p \in Routes : kwargs[p].allow \subseteq Identifiers /\ kwargs[p].deny \subseteq Identifiers
        /\ DOMAIN kwargs = Routes
    BY DEF StoreInv, Policy
  <2>8. \A j \in Jobs : /\ docs[j] \in {"none", "status", "json", "xml"}
                       /\ dirs[j] \in (SUBSET Files) \cup {Absent}
                       /\ replies[j] \in {"none", "DONE", "ERROR"}
    BY DEF StoreInv
  <2> QED BY <2>4, <2>5, <2>6, <2>7, <2>8 DEF TypeOK, StoreInv
<1> QED BY <1>1, StoreCorrect, PTL

-------------------------------------------------------------------------------
(* Refusals *)

(* A request that is refused, by a filter, the parser, the policy, the      *)
(* validation or a handler, leaves no record, no directory and no token.    *)
THEOREM RefusedCorrect == Spec => RefusedLeavesNothing
<1> DEFINE Harmless == answer'.status >= 400 /\ answer'.op \notin {"sync", "busy"} =>
                         UNCHANGED <<stores, waiting, tokens>>
<1>1. StoreInv /\ [Next]_vars => [Harmless]_vars
  <2> SUFFICES ASSUME StoreInv, Next,
                      answer'.status >= 400, answer'.op \notin {"sync", "busy"}
               PROVE  UNCHANGED <<stores, waiting, tokens>>
    OBVIOUS
  <2>1. ASSUME NEW r \in Requests, NEW j \in Jobs, Request(r, j)
        PROVE  UNCHANGED <<stores, waiting, tokens>>
    <3>1. Effects(r, j)
      BY <2>1, RequestEffects DEF StoreInv
    <3>2. ~(\E record \in Record : Starts(j, record)) /\ answer'.status # 200
      BY DEF Starts
    <3> QED BY <3>1, <3>2 DEF Effects, Nothing, sync
  <2>2. answer' # NoAnswer
    BY DEF NoAnswer
  <2>3. \A status : ~ReplyLater(status)
    BY DEF ReplyLater
  <2> QED BY <2>1, <2>2, <2>3 DEF Next, JobStarts, JobEnds, AnswerSync, SyncTimeout,
                                  TokenExpires, ReloadRules
<1> QED BY <1>1, StoreCorrect, PTL DEF Spec, RefusedLeavesNothing

-------------------------------------------------------------------------------
(* What the routes of processes answer *)

(* The answers that the rules decide show only what the policy of the      *)
(* route allows, as it is once the filters have run.                       *)
DecidedBy(r, path) ==
  /\ answer'.op \notin OfRealm
  /\ answer'.op \in Decided =>
       /\ answer'.concerned = LizmapDefs(rules, r)
       /\ \A p \in answer'.shows : Allows(kwargs'[path], p)

(* What is recorded of an answer.                                           *)
LEMMA ReplyIs ==
  ASSUME NEW r, NEW op, NEW status, NEW shows, Reply(r, op, status, shows)
  PROVE  /\ answer'.op = op /\ answer'.status = status
         /\ op \in OfRealm => answer'.realm = r.realm
         /\ op \in Decided => answer'.concerned = LizmapDefs(rules, r)
         /\ op \in Decided \cup OfRealm => answer'.shows = shows
BY DEF Reply

(* An execution shows the process that it starts, which has to be allowed.  *)
LEMMA ExecuteDecided ==
  ASSUME NEW r, NEW j, NEW error, NEW record, NEW async \in BOOLEAN, NEW path,
         Execute(r, j, error, record, async),
         error = 0 => Allows(kwargs'[path], record.process)
  PROVE  DecidedBy(r, path)
<1>1. CASE error # 0
  <2>1. Reply(r, "execute", error, {})
    BY <1>1 DEF Execute
  <2> QED BY <2>1, ReplyIs DEF DecidedBy, Decided, OfRealm
<1>2. CASE error = 0
  <2>1. \E op \in {"execute", "busy", "wait"}, status \in {0, 200, 201, 509} :
          Reply(r, op, status, {record.process})
    BY <1>2 DEF Execute, StartJob
  <2>2. PICK op \in {"execute", "busy", "wait"}, status \in {0, 200, 201, 509} :
          Reply(r, op, status, {record.process})
    BY <2>1
  <2>3. /\ answer'.op = op /\ answer'.concerned = LizmapDefs(rules, r)
        /\ answer'.shows = {record.process}
    BY <2>2, ReplyIs DEF Decided
  <2> QED BY <1>2, <2>3 DEF DecidedBy, Decided, OfRealm
<1> QED BY <1>1, <1>2

(* A list shows the allowed processes, a description is not in the scope of *)
(* DecidedBy.                                                               *)
LEMMA ShowDecided ==
  ASSUME NEW r, NEW op \in {"list", "describe"}, NEW error, NEW shows, NEW path,
         Show(r, op, error, shows),
         op = "list" => \A p \in shows : Allows(kwargs'[path], p)
  PROVE  DecidedBy(r, path)
<1>1. PICK status, shown : Reply(r, op, status, shown) /\ (shown = shows \/ shown = {})
  BY DEF Show
<1>2. answer'.op = op /\ (op = "list" => answer'.concerned = LizmapDefs(rules, r) /\ answer'.shows = shown)
  BY <1>1, ReplyIs DEF Decided
<1> QED BY <1>1, <1>2 DEF DecidedBy, Decided, OfRealm

(* All operations of /ows/ answer that way.                                 *)
LEMMA OwsDecided ==
  ASSUME NEW r \in Requests, NEW j \in Jobs, r.kind = "ows", Ows(r, j)
  PROVE  DecidedBy(r, "ows")
<1>1. CASE ParseOws(r) # 0
  <2>1. Reply(r, "ows", ParseOws(r), {})
    BY <1>1 DEF Ows
  <2> QED BY <2>1, ReplyIs DEF DecidedBy, Decided, OfRealm
<1>2. CASE ParseOws(r) = 0
  <2>1. r.operation \in {"getresults", "getcapabilities", "describeprocess", "execute"}
    BY <1>2, OwsParsed
  <2>2. CASE r.operation = "getresults"
    <3>1. \E status, shown : Reply(r, "results", status, shown)
      BY <1>2, <2>2 DEF Ows, GetResults
    <3> QED BY <3>1, ReplyIs DEF DecidedBy, Decided, OfRealm
  <2>3. CASE r.operation = "getcapabilities"
    <3>1. GetCapabilities(r)
      BY <1>2, <2>3 DEF Ows
    <3>2. \A p \in Visible("ows") : Allows(kwargs'["ows"], p)
      BY DEF Visible
    <3> QED BY <3>1, <3>2, ShowDecided DEF GetCapabilities
  <2>4. CASE r.operation = "describeprocess"
    <3>1. DescribeProcess(r)
      BY <1>2, <2>4 DEF Ows
    <3> QED BY <3>1, ShowDecided DEF DescribeProcess
  <2>5. CASE r.operation = "execute"
    <3>1. OwsExecute(r, j)
      BY <1>2, <2>5 DEF Ows
    <3>2. Execute(r, j, OwsExecError(r), OwsRecord(r, j), AsyncOf(r))
      BY <3>1 DEF OwsExecute, OwsExecError, OwsRecord
    <3>3. OwsExecError(r) = 0 => Allows(kwargs'["ows"], OwsRecord(r, j).process)
      BY <1>2, <2>5, OwsExecution DEF Forbidden
    <3>4. AsyncOf(r) \in BOOLEAN
      BY DEF AsyncOf
    <3> QED BY <3>2, <3>3, <3>4, ExecuteDecided
  <2> QED BY <2>1, <2>2, <2>3, <2>4, <2>5
<1> QED BY <1>1, <1>2

(* All operations of /processes do.                                         *)
LEMMA ApiDecided ==
  ASSUME NEW r \in Requests, NEW j \in Jobs, r.kind = "processes", Api(r, j)
  PROVE  DecidedBy(r, "ogcapi")
<1>1. r.operation \in {"list", "describe", "execute"} /\ r.async \in BOOLEAN
  BY RequestsAssumption
<1>2. CASE r.operation = "list"
  <2>1. ApiList(r)
    BY <1>2 DEF Api
  <2>2. \A p \in Visible("ogcapi") : Allows(kwargs'["ogcapi"], p)
    BY DEF Visible
  <2> QED BY <2>1, <2>2, ShowDecided DEF ApiList
<1>3. CASE r.operation = "describe"
  <2>1. ApiDescribe(r)
    BY <1>3 DEF Api
  <2> QED BY <2>1, ShowDecided DEF ApiDescribe
<1>4. CASE r.operation = "execute"
  <2>1. ApiExecute(r, j)
    BY <1>4 DEF Api
  <2>2. Execute(r, j, ApiExecError(r), ApiRecord(r, j), r.async)
    BY <2>1 DEF ApiExecute, ApiExecError, ApiRecord
  <2>3. ApiExecError(r) = 0 => Allows(kwargs'["ogcapi"], ApiRecord(r, j).process)
    BY <1>4, ApiExecution DEF Forbidden
  <2> QED BY <1>1, <2>2, <2>3, ExecuteDecided
<1> QED BY <1>1, <1>2, <1>3, <1>4

-------------------------------------------------------------------------------
(* The rules that decide *)

(* A policy made of the definitions alone allows what they permit.          *)
LEMMA AllowedIsPermitted ==
  ASSUME NEW defs, NEW p, Allows(AddPolicies(NoRules, defs), p)
  PROVE  Permits(defs, p)
BY DEF Allows, AddPolicies, NoRules, Permits

(* If Lizmap has the last word, the policy of the route is made of the      *)
(* rules that concern the request, or none does.                            *)
LEMMA RouteDecides ==
  ASSUME LizmapLast, StoreInv, NEW r \in Requests, NEW path \in Routes,
         Refusal(Filtered(rules, r)) = 0, Filtered(rules, r).path = path,
         kwargs' = Install(kwargs, Filtered(rules, r).path, Filtered(rules, r).defs),
         DecidedBy(r, path)
  PROVE  OwnRulesDecide'
<1> DEFINE f == Filtered(rules, r)
           concerned == LizmapDefs(rules, r)
<1>1. f.status = 0
  BY NotRefused
<1>2. f.defs = concerned
  BY <1>1, LizmapHasTheLastWord
<1>3. concerned # {} => kwargs'[path] = AddPolicies(NoRules, concerned)
  BY <1>2 DEF Install, StoreInv
<1> SUFFICES ASSUME answer'.op \in Decided, answer'.concerned # {}, NEW p \in answer'.shows
             PROVE  Permits(answer'.concerned, p)
  BY DEF OwnRulesDecide, Permits, Decided
<1>4. answer'.concerned = concerned /\ Allows(kwargs'[path], p)
  BY DEF DecidedBy
<1>5. Allows(AddPolicies(NoRules, concerned), p)
  BY <1>3, <1>4
<1> QED BY <1>4, <1>5, AllowedIsPermitted

(* Other answers are not in the scope of OwnRulesDecide.                    *)
LEMMA NotDecided ==
  ASSUME answer'.op \notin Decided PROVE OwnRulesDecide'
BY DEF OwnRulesDecide, Decided

(* Nor are those about jobs and files.                                      *)
LEMMA JobAnswers ==
  ASSUME NEW r, JobHandlers(r)
  PROVE  answer'.op \notin Decided
<1>1. \E op \in {"job", "inputs", "results", "dismiss", "files", "log", "geturl", "dnl", "status", "delete"} :
        \E status, shows : Reply(r, op, status, shows)
  BY DEF JobHandlers, JobList, JobStatus, JobInputs, JobResults, JobDismiss, ListFiles, GetFile,
         DownloadFile, GetLog, PutUrl, GetToken, OldStatus, OldDelete
<1> QED BY <1>1, ReplyIs DEF Decided

(* If the filter of Lizmap is the last, what a request lists or executes is *)
(* permitted by the rules that concern it: whichever filters go before it,  *)
(* rewritten paths, rules that were reloaded and what earlier requests left *)
(* in the arguments of the route included.                                  *)
THEOREM OwnRulesCorrect ==
  ASSUME LizmapLast
  PROVE  Spec => []OwnRulesDecide
<1>1. Init => OwnRulesDecide
  BY DEF Init, NoAnswer, OwnRulesDecide, Decided
<1>2. StoreInv /\ OwnRulesDecide /\ [Next]_vars => OwnRulesDecide'
  <2> SUFFICES ASSUME StoreInv, OwnRulesDecide, [Next]_vars PROVE OwnRulesDecide'
    OBVIOUS
  <2>1. ASSUME NEW r \in Requests, NEW j \in Jobs, Request(r, j)
        PROVE  OwnRulesDecide'
    <3> DEFINE f == Filtered(rules, r)
    <3>1. CASE Refusal(f) # 0
      <4>1. Reply(r, "refused", Refusal(f), {})
        BY <2>1, <3>1 DEF Request, RefuseAtFilter
      <4>2. answer'.op = "refused"
        BY <4>1, ReplyIs
      <4> QED BY <4>2, NotDecided DEF Decided
    <3>2. CASE Refusal(f) = 0
      <4>1. kwargs' = Install(kwargs, f.path, f.defs)
        BY <2>1, <3>2 DEF Request
      <4>2. /\ r.kind \in {"ows", "processes", "jobs"}
            /\ f.status = 0 => /\ r.kind = "ows" => f.path = "ows"
                               /\ r.kind = "processes" => f.path = "ogcapi"
        BY RequestsAssumption, RoutingAssumption DEF StoreInv
      <4>3. f.status = 0
        BY <3>2, NotRefused
      <4>4. CASE r.kind = "ows"
        <5>1. Ows(r, j)
          BY <2>1, <3>2, <4>4 DEF Request
        <5>2. DecidedBy(r, "ows") /\ f.path = "ows" /\ "ows" \in Routes
          BY <4>2, <4>3, <4>4, <5>1, OwsDecided DEF Routes
        <5> QED BY <3>2, <4>1, <5>2, RouteDecides
      <4>5. CASE r.kind = "processes"
        <5>1. Api(r, j)
          BY <2>1, <3>2, <4>5 DEF Request
        <5>2. DecidedBy(r, "ogcapi") /\ f.path = "ogcapi" /\ "ogcapi" \in Routes
          BY <4>2, <4>3, <4>5, <5>1, ApiDecided DEF Routes
        <5> QED BY <3>2, <4>1, <5>2, RouteDecides
      <4>6. CASE r.kind = "jobs"
        <5>1. Other(r)
          BY <2>1, <3>2, <4>6 DEF Request
        <5> QED BY <4>6, <5>1, OtherHandlers, JobAnswers, NotDecided
      <4> QED BY <4>2, <4>4, <4>5, <4>6
    <3> QED BY <3>1, <3>2
  <2>2. ASSUME answer' = NoAnswer PROVE OwnRulesDecide'
    BY <2>2, NotDecided DEF NoAnswer, Decided
  <2>3. ASSUME NEW status, ReplyLater(status) PROVE OwnRulesDecide'
    BY <2>3, NotDecided DEF ReplyLater, Decided
  <2>4. CASE UNCHANGED vars
    BY <2>4 DEF vars, OwnRulesDecide, Permits
  <2> QED BY <2>1, <2>2, <2>3, <2>4 DEF Next, JobStarts, JobEnds, AnswerSync, SyncTimeout,
                                        TokenExpires, ReloadRules
<1> QED BY <1>1, <1>2, StoreCorrect, PTL DEF Spec

-------------------------------------------------------------------------------
(* Realms *)

(* Other answers are not in the scope of CheckedRealmsKept.                 *)
LEMMA OutOfRealms ==
  ASSUME answer'.op \notin OfRealm PROVE CheckedRealmsKept'
BY DEF CheckedRealmsKept, JobsStayInRealm, FilesAreOutputs, OfRealm

(* What is shown of jobs is of the realm of the request, if it is checked. *)
LEMMA JobDocsInRealm ==
  ASSUME NEW r, NEW op \in {"job", "dismiss"}, NEW status, NEW shows,
         Reply(r, op, status, shows),
         MustCheckRealm(r.realm) => \A d \in shows : d.realm = r.realm
  PROVE  CheckedRealmsKept'
<1>1. answer'.op = op /\ answer'.realm = r.realm /\ answer'.shows = shows
  BY ReplyIs DEF OfRealm
<1>2. FilesAreOutputs'
  BY <1>1 DEF FilesAreOutputs
<1>3. ~MustCheckRealm(r.realm) =>
        \/ ~EnableJobRealm /\ r.realm = Absent
        \/ EnableJobRealm /\ AdminRealm # Absent /\ r.realm = AdminRealm
  BY DEF MustCheckRealm
<1>4. JobsStayInRealm'
  BY <1>1, <1>3 DEF JobsStayInRealm
<1> QED BY <1>2, <1>4 DEF CheckedRealmsKept

(* Files that are shown are outputs, if the realm is checked.               *)
LEMMA FilesInRealm ==
  ASSUME NEW r, NEW op \in {"files", "log", "geturl"}, NEW status, NEW shows,
         Reply(r, op, status, shows),
         MustCheckRealm(r.realm) => shows \subseteq {"out"}
  PROVE  CheckedRealmsKept'
<1>1. answer'.op = op /\ answer'.realm = r.realm /\ answer'.shows = shows
  BY ReplyIs DEF OfRealm
<1>2. JobsStayInRealm'
  BY <1>1 DEF JobsStayInRealm
<1>3. EnableJobRealm /\ r.realm # AdminRealm => MustCheckRealm(r.realm)
  BY DEF MustCheckRealm
<1>4. FilesAreOutputs'
  BY <1>1, <1>3 DEF FilesAreOutputs
<1> QED BY <1>2, <1>4 DEF CheckedRealmsKept

(* Output files only are in the records.                                   *)
LEMMA OutputsOfJobs ==
  ASSUME StoreInv, NEW j \in Jobs, Exists(j)
  PROVE  jobs[j].files \subseteq {"out"}
<1>1. jobs[j] \in Record
  BY DEF StoreInv, Exists
<1> QED BY <1>1 DEF Record

(* A file that a realm lets through is one of these.                       *)
LEMMA AclOfRealm ==
  ASSUME StoreInv, NEW r, r.job \in Jobs, NEW file,
         AclStatus(r, file) = 0, MustCheckRealm(r.realm)
  PROVE  file = "out"
<1>1. Exists(r.job) /\ file \in jobs[r.job].files
  BY DEF AclStatus
<1> QED BY <1>1, OutputsOfJobs

(* All operations about jobs and files.                                     *)
LEMMA HandlersKeepRealms ==
  ASSUME StoreInv, NEW r, r.job \in Jobs, JobHandlers(r)
  PROVE  CheckedRealmsKept'
<1>1. CASE JobList(r)
  <2> DEFINE shows == {JobDoc(j) : j \in {x \in Jobs : Exists(x) /\ ~WrongRealm(r, x)}}
  <2>1. Reply(r, "job", 200, shows)
    BY <1>1 DEF JobList
  <2>2. MustCheckRealm(r.realm) => \A d \in shows : d.realm = r.realm
    BY DEF JobDoc, WrongRealm
  <2> HIDE DEF shows
  <2> QED BY <2>1, <2>2, JobDocsInRealm
<1>2. CASE JobStatus(r)
  <2>1. (\E status : Reply(r, "job", status, {})) \/
        (Reply(r, "job", 200, {JobDoc(r.job)}) /\ ~WrongRealm(r, r.job))
    BY <1>2 DEF JobStatus
  <2>2. MustCheckRealm(r.realm) /\ ~WrongRealm(r, r.job) => JobDoc(r.job).realm = r.realm
    BY DEF JobDoc, WrongRealm
  <2> QED BY <2>1, <2>2, JobDocsInRealm
<1>3. CASE JobDismiss(r)
  <2>1. (\E status : Reply(r, "dismiss", status, {})) \/
        (Reply(r, "dismiss", 200, {JobDoc(r.job)}) /\ ~WrongRealm(r, r.job))
    BY <1>3 DEF JobDismiss
  <2>2. MustCheckRealm(r.realm) /\ ~WrongRealm(r, r.job) => JobDoc(r.job).realm = r.realm
    BY DEF JobDoc, WrongRealm
  <2> QED BY <2>1, <2>2, JobDocsInRealm
<1>4. CASE ListFiles(r)
  <2> SUFFICES ASSUME ~Reply(r, "files", 404, {}) PROVE CheckedRealmsKept'
    BY FilesInRealm
  <2>1. PICK shows : /\ Reply(r, "files", 200, shows)
                     /\ MustCheckRealm(r.realm) => Exists(r.job) /\ shows \subseteq jobs[r.job].files
    BY <1>4 DEF ListFiles
  <2>2. MustCheckRealm(r.realm) => shows \subseteq {"out"}
    BY <2>1, OutputsOfJobs
  <2> QED BY <2>1, <2>2, FilesInRealm
<1>5. CASE GetFile(r)
  <2>1. (\E status : Reply(r, "files", status, {})) \/
        (Reply(r, "files", 200, {r.file}) /\ AclStatus(r, r.file) = 0)
    BY <1>5 DEF GetFile, DownloadFile
  <2>2. AclStatus(r, r.file) = 0 /\ MustCheckRealm(r.realm) => r.file = "out"
    BY AclOfRealm
  <2> QED BY <2>1, <2>2, FilesInRealm
<1>6. CASE GetLog(r)
  <2>1. \E status, shows : Reply(r, "log", status, shows) /\ (MustCheckRealm(r.realm) => shows = {})
    BY <1>6 DEF GetLog, DownloadFile
  <2>2. PICK status, shows : Reply(r, "log", status, shows) /\ (MustCheckRealm(r.realm) => shows = {})
    BY <2>1
  <2>3. MustCheckRealm(r.realm) => shows \subseteq {"out"}
    BY <2>2
  <2> QED BY <2>2, <2>3, FilesInRealm
<1>7. CASE PutUrl(r)
  <2>1. (\E status : Reply(r, "geturl", status, {})) \/
        (Reply(r, "geturl", 200, {r.file}) /\ AclStatus(r, r.file) = 0)
    BY <1>7 DEF PutUrl
  <2>2. AclStatus(r, r.file) = 0 /\ MustCheckRealm(r.realm) => r.file = "out"
    BY AclOfRealm
  <2> QED BY <2>1, <2>2, FilesInRealm
<1>8. CASE JobInputs(r) \/ JobResults(r) \/ GetToken(r) \/ OldStatus(r) \/ OldDelete(r)
  <2>1. \E op \in {"inputs", "results", "dnl", "status", "delete"} :
        \E status, shows : Reply(r, op, status, shows)
    BY <1>8 DEF JobInputs, JobResults, GetToken, OldStatus, OldDelete
  <2> QED BY <2>1, ReplyIs, OutOfRealms DEF OfRealm
<1> QED BY <1>1, <1>2, <1>3, <1>4, <1>5, <1>6, <1>7, <1>8 DEF JobHandlers

(* Where a realm must be checked, the jobs that are listed, shown by their  *)
(* status or dismissed are of that realm, and the files that are given or   *)
(* linked are outputs, of whatever job.  The results of a job, its inputs   *)
(* and the old routes of statuses look at no realm and are not concerned.   *)
THEOREM CheckedRealmsCorrect == Spec => []CheckedRealmsKept
<1>1. Init => CheckedRealmsKept
  BY DEF Init, NoAnswer, CheckedRealmsKept, JobsStayInRealm, FilesAreOutputs
<1>2. StoreInv /\ CheckedRealmsKept /\ [Next]_vars => CheckedRealmsKept'
  <2> SUFFICES ASSUME StoreInv, CheckedRealmsKept, [Next]_vars PROVE CheckedRealmsKept'
    OBVIOUS
  <2>1. ASSUME NEW r \in Requests, NEW j \in Jobs, Request(r, j)
        PROVE  CheckedRealmsKept'
    <3> DEFINE f == Filtered(rules, r)
    <3>1. CASE Refusal(f) # 0
      <4>1. Reply(r, "refused", Refusal(f), {})
        BY <2>1, <3>1 DEF Request, RefuseAtFilter
      <4> QED BY <4>1, ReplyIs, OutOfRealms DEF OfRealm
    <3>2. CASE Refusal(f) = 0
      <4>1. r.kind \in {"ows", "processes", "jobs"}
        BY RequestsAssumption
      <4>2. CASE r.kind = "ows"
        <5>1. Ows(r, j)
          BY <2>1, <3>2, <4>2 DEF Request
        <5> QED BY <4>2, <5>1, OwsDecided, OutOfRealms DEF DecidedBy
      <4>3. CASE r.kind = "processes"
        <5>1. Api(r, j)
          BY <2>1, <3>2, <4>3 DEF Request
        <5> QED BY <4>3, <5>1, ApiDecided, OutOfRealms DEF DecidedBy
      <4>4. CASE r.kind = "jobs"
        <5>1. Other(r)
          BY <2>1, <3>2, <4>4 DEF Request
        <5> QED BY <4>4, <5>1, OtherHandlers, HandlersKeepRealms
      <4> QED BY <4>1, <4>2, <4>3, <4>4
    <3> QED BY <3>1, <3>2
  <2>2. ASSUME answer' = NoAnswer PROVE CheckedRealmsKept'
    BY <2>2, OutOfRealms DEF NoAnswer, OfRealm
  <2>3. ASSUME NEW status, ReplyLater(status) PROVE CheckedRealmsKept'
    BY <2>3, OutOfRealms DEF ReplyLater, OfRealm
  <2>4. CASE UNCHANGED vars
    BY <2>4 DEF vars, CheckedRealmsKept, JobsStayInRealm, FilesAreOutputs
  <2> QED BY <2>1, <2>2, <2>3, <2>4 DEF Next, JobStarts, JobEnds, AnswerSync, SyncTimeout,
                                        TokenExpires, ReloadRules
<1> QED BY <1>1, <1>2, StoreCorrect, PTL DEF Spec
===============================================================================
