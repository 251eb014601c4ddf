-------------------------- MODULE Execution_proofs --------------------------
(* Proofs about Execution, for any algorithms, requests, files and workers.     *)
(* First the cache, a sequence in which each key occurs once; then the folds    *)
(* that use several descriptions; then the types and the waiting for the        *)
(* loader; last the version of the project that a job runs with.                *)
EXTENDS Execution, FoldLemmas, SequenceTheorems, TLAPS

-----------------------------------------------------------------------------
(* The cache *)

OneEach(c) == \A i, j \in DOMAIN c : c[i].key = c[j].key => i = j
Keys(c) == {c[i].key : i \in DOMAIN c}

(* Every sequence is one of its own elements, and of any set that has them.      *)
LEMMA OwnElements ==
  ASSUME NEW c, NEW E, c \in Seq(E)
  PROVE  c \in Seq(ToSet(c)) /\ ToSet(c) \subseteq E /\ Len(c) \in Nat /\ DOMAIN c = 1 .. Len(c)
<1>1. Len(c) \in Nat /\ DOMAIN c = 1 .. Len(c) /\ \A i \in 1 .. Len(c) : c[i] \in E
  OBVIOUS
<1>2. c = [i \in 1 .. Len(c) |-> c[i]]
  OBVIOUS
<1>3. \A i \in 1 .. Len(c) : c[i] \in ToSet(c)
  BY <1>1 DEF ToSet
<1>4. c \in [1 .. Len(c) -> ToSet(c)]
  BY <1>2, <1>3
<1>5. c \in Seq(ToSet(c))
  BY <1>1, <1>4
<1> QED BY <1>1, <1>5 DEF ToSet

(* A sequence without one of its elements.                                       *)
LEMMA Removed ==
  ASSUME NEW E, NEW c \in Seq(E), NEW i \in DOMAIN c
  PROVE  /\ RemoveAt(c, i) \in Seq(E)
         /\ Len(RemoveAt(c, i)) = Len(c) - 1
         /\ \A j \in 1 .. Len(c) - 1 : RemoveAt(c, i)[j] = IF j < i THEN c[j] ELSE c[j + 1]
<1> DEFINE front == SubSeq(c, 1, i - 1)
           back == SubSeq(c, i + 1, Len(c))
<1>1. i \in 1 .. Len(c) /\ Len(c) \in Nat
  OBVIOUS
<1>2. front \in Seq(E) /\ Len(front) = i - 1 /\ \A j \in 1 .. i - 1 : front[j] = c[j]
  BY <1>1, SubSeqProperties
<1>3. back \in Seq(E) /\ Len(back) = Len(c) - i /\ \A j \in 1 .. Len(c) - i : back[j] = c[i + j]
  BY <1>1, SubSeqProperties
<1> HIDE DEF front, back
<1>4. /\ front \o back \in Seq(E)
      /\ Len(front \o back) = Len(front) + Len(back)
      /\ \A j \in 1 .. Len(front) + Len(back) :
           (front \o back)[j] = IF j <= Len(front) THEN front[j] ELSE back[j - Len(front)]
  BY <1>2, <1>3, ConcatProperties, Zenon
<1>5. ASSUME NEW j \in 1 .. Len(c) - 1
      PROVE  (front \o back)[j] = IF j < i THEN c[j] ELSE c[j + 1]
  <2>1. CASE j < i
    <3>1. j \in 1 .. Len(front) + Len(back) /\ j <= Len(front) /\ j \in 1 .. i - 1
      BY <2>1, <1>1, <1>2, <1>3
    <3> QED BY <3>1, <2>1, <1>2, <1>4
  <2>2. CASE ~(j < i)
    <3>1. j \in 1 .. Len(front) + Len(back) /\ ~(j <= Len(front)) /\ j - Len(front) = j - (i - 1)
      BY <2>2, <1>1, <1>2, <1>3
    <3>2. (front \o back)[j] = back[j - (i - 1)]
      BY <3>1, <1>4
    <3>3. j - (i - 1) \in 1 .. Len(c) - i /\ i + (j - (i - 1)) = j + 1
      BY <2>2, <1>1
    <3>4. back[j - (i - 1)] = c[j + 1]
      BY <3>3, <1>3
    <3> QED BY <3>2, <3>4, <2>2
  <2> QED BY <2>1, <2>2
<1>6. RemoveAt(c, i) = front \o back
  BY Zenon DEF RemoveAt, front, back
<1>7. Len(front \o back) = Len(c) - 1
  BY <1>1, <1>2, <1>3, <1>4
<1> QED BY <1>4, <1>5, <1>6, <1>7, Zenon

(* What a cache holds without a key: every other entry.                          *)
LEMMA WithoutKey ==
  ASSUME NEW E, NEW c \in Seq(E), OneEach(c), NEW k
  PROVE  /\ Without(c, k) \in Seq(E) /\ OneEach(Without(c, k))
         /\ Keys(Without(c, k)) = Keys(c) \ {k}
         /\ Len(Without(c, k)) <= Len(c)
         /\ k \in Keys(c) => Len(Without(c, k)) = Len(c) - 1
<1> DEFINE d == Without(c, k)
<1>1. CASE At(c, k) = {}
  <2>1. d = c /\ k \notin Keys(c)
    BY <1>1 DEF Without, At, Keys
  <2> QED BY <2>1
<1>2. CASE At(c, k) # {}
  <2> DEFINE i == CHOOSE i \in At(c, k) : TRUE
  <2>1. i \in DOMAIN c /\ c[i].key = k
    BY <1>2 DEF At
  <2>2. d = RemoveAt(c, i)
    BY <1>2 DEF Without
  <2> HIDE DEF i, d
  <2>3. /\ Len(c) \in Nat /\ DOMAIN c = 1 .. Len(c)
        /\ d \in Seq(E) /\ Len(d) = Len(c) - 1 /\ DOMAIN d = 1 .. Len(c) - 1
        /\ \A j \in 1 .. Len(c) - 1 : d[j] = IF j < i THEN c[j] ELSE c[j + 1]
    BY <2>1, <2>2, Removed
  <2> DEFINE at(j) == IF j < i THEN j ELSE j + 1
  <2>4. \A j \in DOMAIN d : at(j) \in DOMAIN c /\ at(j) # i /\ d[j] = c[at(j)]
    BY <2>1, <2>3
  <2>5. \A j, l \in DOMAIN d : at(j) = at(l) => j = l
    BY <2>1, <2>3
  <2>6. \A m \in DOMAIN c : m # i => \E j \in DOMAIN d : at(j) = m
    <3> SUFFICES ASSUME NEW m \in DOMAIN c, m # i PROVE \E j \in DOMAIN d : at(j) = m
      OBVIOUS
    <3>1. CASE m < i
      BY <3>1, <2>1, <2>3
    <3>2. CASE m > i
      <4>1. m - 1 \in DOMAIN d /\ at(m - 1) = m
        BY <3>2, <2>1, <2>3
      <4> QED BY <4>1
    <3> QED BY <3>1, <3>2, <2>1, <2>3
  <2> HIDE DEF at
  <2>7. OneEach(d)
    BY <2>4, <2>5 DEF OneEach
  <2>8. \A m \in DOMAIN c : c[m].key = k => m = i
    BY <2>1 DEF OneEach
  <2>9. Keys(d) = Keys(c) \ {k}
    BY <2>4, <2>6, <2>8, <2>1 DEF Keys
  <2> QED BY <2>3, <2>7, <2>9 DEF d
<1> QED BY <1>1, <1>2

(* Making room keeps the most recent entries.                                    *)
LEMMA FittedCache ==
  ASSUME NEW E, NEW c \in Seq(E), OneEach(c), NEW size \in Nat \ {0}
  PROVE  /\ Fitted(c, size) \in Seq(E) /\ OneEach(Fitted(c, size))
         /\ Keys(Fitted(c, size)) \subseteq Keys(c)
         /\ Len(Fitted(c, size)) < size
<1>1. Len(c) \in Nat /\ DOMAIN c = 1 .. Len(c)
  OBVIOUS
<1>2. CASE Len(c) < size
  BY <1>2 DEF Fitted
<1>3. CASE ~(Len(c) < size)
  <2> DEFINE a == Len(c) - size + 2
             d == SubSeq(c, a, Len(c))
  <2>1. Fitted(c, size) = d
    BY <1>3 DEF Fitted
  <2>2. a \in 1 .. Len(c) + 1 /\ Len(c) - a + 1 = size - 1
    BY <1>1, <1>3
  <2>3. d \in Seq(E) /\ Len(d) = size - 1 /\ \A j \in 1 .. size - 1 : d[j] = c[a + j - 1]
    BY <1>1, <2>2, SubSeqProperties
  <2>4. DOMAIN d = 1 .. size - 1
    BY <2>3
  <2> HIDE DEF d
  <2>5. \A j \in DOMAIN d : a + j - 1 \in DOMAIN c /\ d[j] = c[a + j - 1]
    BY <1>1, <2>2, <2>3, <2>4
  <2>6. OneEach(d)
    <3> SUFFICES ASSUME NEW j \in DOMAIN d, NEW l \in DOMAIN d, d[j].key = d[l].key PROVE j = l
      BY DEF OneEach
    <3>1. a + j - 1 = a + l - 1
      BY <2>5 DEF OneEach
    <3> QED BY <3>1, <2>2, <2>4, <1>1
  <2>7. Keys(d) \subseteq Keys(c)
    BY <2>5 DEF Keys
  <2> QED BY <2>1, <2>3, <2>6, <2>7
<1> QED BY <1>2, <1>3

(* One more entry, under a key that is not there.                                *)
LEMMA AppendedCache ==
  ASSUME NEW E, NEW c \in Seq(E), OneEach(c), NEW e \in E, e.key \notin Keys(c)
  PROVE  /\ Append(c, e) \in Seq(E) /\ OneEach(Append(c, e))
         /\ Keys(Append(c, e)) = Keys(c) \cup {e.key}
         /\ Len(Append(c, e)) = Len(c) + 1
<1> DEFINE d == Append(c, e)
<1>1. /\ Len(c) \in Nat /\ DOMAIN c = 1 .. Len(c)
      /\ d \in Seq(E) /\ Len(d) = Len(c) + 1 /\ DOMAIN d = 1 .. Len(c) + 1
      /\ \A j \in 1 .. Len(c) : d[j] = c[j]
      /\ d[Len(c) + 1] = e
  OBVIOUS
<1> HIDE DEF d
<1>2. \A j \in DOMAIN d : j \in DOMAIN c \/ j = Len(c) + 1
  BY <1>1
<1>3. \A j \in DOMAIN c : j \in DOMAIN d /\ d[j] = c[j] /\ c[j].key # e.key
  BY <1>1 DEF Keys
<1>4. OneEach(d)
  BY <1>1, <1>2, <1>3 DEF OneEach
<1>5. Keys(d) = Keys(c) \cup {e.key}
  BY <1>1, <1>2, <1>3 DEF Keys
<1> QED BY <1>1, <1>4, <1>5 DEF d

(* lrucache.__setitem__: the cache keeps its size, one entry for each key, and    *)
(* has no entries but the old ones and the new one.                              *)
LEMMA PutCache ==
  ASSUME NEW E, NEW c \in Seq(E), NEW size \in Nat \ {0}, CacheOK(c, size), NEW e \in E
  PROVE  Put(c, e, size) \in Seq(E) /\ CacheOK(Put(c, e, size), size)
<1>1. OneEach(c)
  BY DEF CacheOK, OneEach
<1> DEFINE d == Without(c, e.key)
           f == Fitted(d, size)
<1>2. d \in Seq(E) /\ OneEach(d) /\ e.key \notin Keys(d)
  BY <1>1, WithoutKey
<1> HIDE DEF d
<1>3. f \in Seq(E) /\ OneEach(f) /\ e.key \notin Keys(f) /\ Len(f) < size
  BY <1>2, FittedCache
<1> HIDE DEF f
<1>4. Append(f, e) \in Seq(E) /\ OneEach(Append(f, e)) /\ Len(Append(f, e)) = Len(f) + 1
  BY <1>3, AppendedCache
<1>5. Len(Append(f, e)) <= size
  <2>1. Len(f) \in Nat
    BY <1>3
  <2> QED BY <2>1, <1>3, <1>4
<1> QED BY <1>4, <1>5 DEF Put, CacheOK, OneEach, d, f

(* What is under a key that the cache has.                                       *)
LEMMA PeekCache ==
  ASSUME NEW c, NEW k, At(c, k) # {}
  PROVE  Peek(c, k) \in ToSet(c) /\ Peek(c, k).key = k
BY DEF Peek, At, ToSet

(* lrucache.__getitem__: the same entries in another order.                      *)
LEMMA TouchedCache ==
  ASSUME NEW E, NEW c \in Seq(E), NEW size, CacheOK(c, size), NEW k \in Keys(c)
  PROVE  Touched(c, k) \in Seq(E) /\ CacheOK(Touched(c, k), size) /\ Keys(Touched(c, k)) = Keys(c)
<1>1. OneEach(c) /\ ToSet(c) \subseteq E /\ Len(c) \in Nat
  BY OwnElements DEF CacheOK, OneEach
<1> DEFINE d == Without(c, k)
           e == Peek(c, k)
<1>2. d \in Seq(E) /\ OneEach(d) /\ Keys(d) = Keys(c) \ {k} /\ Len(d) = Len(c) - 1
  BY <1>1, WithoutKey
<1>3. e \in E /\ e.key = k
  <2>1. At(c, k) # {}
    BY DEF At, Keys
  <2> QED BY <2>1, <1>1, PeekCache
<1> HIDE DEF d, e
<1>4. /\ Append(d, e) \in Seq(E) /\ OneEach(Append(d, e)) /\ Len(Append(d, e)) = Len(d) + 1
      /\ Keys(Append(d, e)) = (Keys(c) \ {k}) \cup {k}
  BY <1>2, <1>3, AppendedCache
<1> QED BY <1>1, <1>2, <1>4 DEF Touched, CacheOK, OneEach, d, e

-----------------------------------------------------------------------------
(* The descriptions of several identifiers *)

(* The descriptions that come back take a place each, and the cache keeps its    *)
(* size: also when one request brings more of them than it keeps.                *)
LEMMA PutCtxCache ==
  ASSUME NEW r \in Requests, NEW found, ctx \in Seq(ToSet(ctx)), CacheOK(ctx, DescriptionsKept)
  PROVE  /\ PutCtx(r, found) \in Seq(ToSet(PutCtx(r, found)))
         /\ CacheOK(PutCtx(r, found), DescriptionsKept)
<1>0. PICK old : old = ctx
  OBVIOUS
<1> DEFINE N == Len(r.idents)
           D(n) == [key |-> <<r.map, r.idents[n]>>, vers |-> found[r.idents[n]]]
           E == ToSet(old) \cup {D(n) : n \in 1 .. N}
           S == {c \in Seq(E) : CacheOK(c, DescriptionsKept)}
           Step(n, c) == Put(c, D(n), DescriptionsKept)
           F == [n \in 1 .. N |-> [c \in S |-> Step(n, c)]]
           Upto(a) == a = [n \in 0 .. N |-> IF n = 0 THEN old ELSE Step(n, a[n - 1])]
<1>1. N \in Nat
  BY RequestsAssumption
<1>2. old \in S
  <2>1. ToSet(old) \subseteq E
    OBVIOUS
  <2> HIDE DEF E
  <2>2. old \in Seq(E) /\ CacheOK(old, DescriptionsKept)
    BY <2>1, <1>0
  <2> QED BY <2>2
<1>3. ASSUME NEW n \in 1 .. N, NEW c \in S
      PROVE  Step(n, c) \in S
  <2>1. D(n) \in E
    OBVIOUS
  <2> HIDE DEF E, D
  <2> QED BY <2>1, KeptAssumption, PutCache
<1> HIDE DEF S, Step
<1>4. F \in [1 .. N -> [S -> S]] /\ \A n \in 1 .. N : \A c \in S : F[n][c] = Step(n, c)
  BY <1>3
<1> HIDE DEF F
<1>5. PICK a \in [0 .. N -> S] : Folds(a, old, N, F)
  <2> HIDE DEF N
  <2>1. F \in Steps(N, S)
    BY <1>4 DEF Steps
  <2> QED BY <1>1, <1>2, <2>1, FoldExists, Zenon
<1>6. \A n \in 1 .. N : a[n] = Step(n, a[n - 1])
  <2> SUFFICES ASSUME NEW n \in 1 .. N PROVE a[n] = Step(n, a[n - 1])
    OBVIOUS
  <2>1. a[n - 1] \in S
    BY <1>1
  <2>2. a[n] = F[n][a[n - 1]]
    BY <1>5 DEF Folds
  <2> HIDE DEF N
  <2>3. F[n][a[n - 1]] = Step(n, a[n - 1])
    BY <2>1, <1>4
  <2> QED BY <2>2, <2>3, Zenon
<1>7. Upto(a)
  <2>1. \A n \in 0 .. N : a[n] = IF n = 0 THEN old ELSE Step(n, a[n - 1])
    <3>1. \A n \in 0 .. N : n = 0 \/ n \in 1 .. N
      BY <1>1
    <3>2. a[0] = old
      BY <1>5 DEF Folds
    <3> HIDE DEF N
    <3> QED BY <3>1, <3>2, <1>6
  <2> HIDE DEF N
  <2> QED BY <2>1
<1>8. PICK after : Upto(after) /\ PutCtx(r, found) = after[N]
  <2> DEFINE b == CHOOSE b : Upto(b)
  <2>1. Upto(b)
    <3> HIDE DEF Upto
    <3> QED BY <1>7
  <2>2. PutCtx(r, found) = b[N]
    BY <1>0 DEF PutCtx, Description, Step
  <2> HIDE DEF b, Upto
  <2> QED BY <2>1, <2>2
<1>9. after[0] = old /\ \A n \in 1 .. N : after[n] = Step(n, after[n - 1])
  <2>1. \A n \in 0 .. N : after[n] = IF n = 0 THEN old ELSE Step(n, after[n - 1])
    <3> HIDE DEF N
    <3> QED BY <1>8
  <2> QED BY <2>1, <1>1
<1> DEFINE Good == {n \in 0 .. N : after[n] \in S}
<1>10. 0 \in Good
  BY <1>1, <1>2, <1>9
<1>11. ASSUME NEW n \in 1 .. N, n - 1 \in Good
       PROVE  n \in Good
  BY <1>3, <1>9, <1>11
<1> HIDE DEF Good
<1>12. 0 .. N \subseteq Good
  BY <1>1, <1>10, <1>11, NoLeastFailure
<1>13. after[N] \in S
  BY <1>1, <1>12 DEF Good
<1> HIDE DEF N
<1> QED BY <1>8, <1>13, OwnElements DEF S

(* The descriptions that are there stay, and only their order changes.           *)
LEMMA UsedCtxCache ==
  ASSUME NEW r \in Requests, InCtx(r), ctx \in Seq(ToSet(ctx)), CacheOK(ctx, DescriptionsKept)
  PROVE  /\ UsedCtx(r) \in Seq(ToSet(UsedCtx(r)))
         /\ CacheOK(UsedCtx(r), DescriptionsKept)
<1>0. PICK old : old = ctx
  OBVIOUS
<1> DEFINE N == Len(r.idents)
           S == {c \in Seq(ToSet(old)) : CacheOK(c, DescriptionsKept) /\ Keys(c) = Keys(old)}
           Step(n, c) == Touched(c, <<r.map, r.idents[n]>>)
           F == [n \in 1 .. N |-> [c \in S |-> Step(n, c)]]
           Upto(a) == a = [n \in 0 .. N |-> IF n = 0 THEN old ELSE Step(n, a[n - 1])]
<1>1. N \in Nat
  BY RequestsAssumption
<1>2. old \in S
  BY <1>0
<1>3. ASSUME NEW n \in 1 .. N, NEW c \in S
      PROVE  Step(n, c) \in S
  <2>1. n \in DOMAIN r.idents
    BY RequestsAssumption
  <2>2. <<r.map, r.idents[n]>> \in Keys(c)
    BY <1>0, <2>1 DEF InCtx, CtxKeys, At, Keys
  <2> QED BY <2>2, TouchedCache
<1> HIDE DEF S, Step
<1>4. F \in [1 .. N -> [S -> S]] /\ \A n \in 1 .. N : \A c \in S : F[n][c] = Step(n, c)
  BY <1>3
<1> HIDE DEF F
<1>5. PICK a \in [0 .. N -> S] : Folds(a, old, N, F)
  <2> HIDE DEF N
  <2>1. F \in Steps(N, S)
    BY <1>4 DEF Steps
  <2> QED BY <1>1, <1>2, <2>1, FoldExists, Zenon
<1>6. \A n \in 1 .. N : a[n] = Step(n, a[n - 1])
  <2> SUFFICES ASSUME NEW n \in 1 .. N PROVE a[n] = Step(n, a[n - 1])
    OBVIOUS
  <2>1. a[n - 1] \in S
    BY <1>1
  <2>2. a[n] = F[n][a[n - 1]]
    BY <1>5 DEF Folds
  <2> HIDE DEF N
  <2>3. F[n][a[n - 1]] = Step(n, a[n - 1])
    BY <2>1, <1>4
  <2> QED BY <2>2, <2>3, Zenon
<1>7. Upto(a)
  <2>1. \A n \in 0 .. N : a[n] = IF n = 0 THEN old ELSE Step(n, a[n - 1])
    <3>1. \A n \in 0 .. N : n = 0 \/ n \in 1 .. N
      BY <1>1
    <3>2. a[0] = old
      BY <1>5 DEF Folds
    <3> HIDE DEF N
    <3> QED BY <3>1, <3>2, <1>6
  <2> HIDE DEF N
  <2> QED BY <2>1
<1>8. PICK after : Upto(after) /\ UsedCtx(r) = after[N]
  <2> DEFINE b == CHOOSE b : Upto(b)
  <2>1. Upto(b)
    <3> HIDE DEF Upto
    <3> QED BY <1>7
  <2>2. UsedCtx(r) = b[N]
    BY <1>0 DEF UsedCtx, Step
  <2> HIDE DEF b, Upto
  <2> QED BY <2>1, <2>2
<1>9. after[0] = old /\ \A n \in 1 .. N : after[n] = Step(n, after[n - 1])
  <2>1. \A n \in 0 .. N : after[n] = IF n = 0 THEN old ELSE Step(n, after[n - 1])
    <3> HIDE DEF N
    <3> QED BY <1>8
  <2> QED BY <2>1, <1>1
<1> DEFINE Good == {n \in 0 .. N : after[n] \in S}
<1>10. 0 \in Good
  BY <1>1, <1>2, <1>9
<1>11. ASSUME NEW n \in 1 .. N, n - 1 \in Good
       PROVE  n \in Good
  BY <1>3, <1>9, <1>11
<1> HIDE DEF Good
<1>12. 0 .. N \subseteq Good
  BY <1>1, <1>10, <1>11, NoLeastFailure
<1>13. after[N] \in S
  BY <1>1, <1>12 DEF Good
<1> HIDE DEF N
<1> QED BY <1>8, <1>13, OwnElements DEF S

-----------------------------------------------------------------------------
(* Types *)

(* A project of a cache: a record with a version, kept under a time.             *)
Project(e) ==
  /\ e = [key |-> e.key, ver |-> e.ver, ts |-> e.ts, sel |-> e.sel]
  /\ e.ver \in DOMAIN Versions /\ e.ts \in Nat
Projects(c) ==
  /\ c \in Seq(ToSet(c)) /\ CacheOK(c, Capacity)
  /\ \A e \in ToSet(c) : Project(e)

FileTypes == file \in [Places -> FileState] /\ seen \in [Places -> [peak : Nat, fresh : BOOLEAN]]
CtxTypes == ctx \in Seq(ToSet(ctx)) /\ CacheOK(ctx, DescriptionsKept)
CacheTypes ==
  /\ Projects(loader)
  /\ worker = [w \in Workers |-> worker[w]] /\ \A w \in Workers : Projects(worker[w])

(* What the loader looks at is there: it found the place before it asked again.  *)
AskedTypes ==
  /\ asked \in {Absent} \cup Question
  /\ asked # Absent /\ asked.stat # Absent => PlaceOf(job[asked.slot].req) \in Places

GoodJob(j) ==
  /\ j.pc \in {"waiting", "accepted", "reading"} => j.req \in Requests
  /\ j.pc = "waiting" => Known(j.req)
  /\ j.pc \in Busy => j.worker \in Workers
  /\ j.pc = "reading" => PlaceOf(j.req) \in Places /\ j.stat \in FileState
JobTypes == job = [s \in Slots |-> job[s]] /\ \A s \in Slots : GoodJob(job[s])

(* The server waits for one answer at most, a worker runs one job at most.       *)
OneQuestion == \A s \in Slots : job[s].pc = "waiting" <=> asked # Absent /\ asked.slot = s
OneJob ==
  \A s, t \in Slots : job[s].pc \in Busy /\ job[t].pc \in Busy /\ job[s].worker = job[t].worker => s = t

TypeInv == FileTypes /\ CtxTypes /\ CacheTypes /\ AskedTypes /\ JobTypes /\ OneQuestion /\ OneJob

(* Keeping a project: what is in the cache was there or is that project.         *)
LEMMA PutProject ==
  ASSUME NEW c, Projects(c), NEW e, Project(e)
  PROVE  Projects(Put(c, e, Capacity)) /\ ToSet(Put(c, e, Capacity)) \subseteq ToSet(c) \cup {e}
<1> DEFINE d == Put(c, e, Capacity)
           E == ToSet(c) \cup {e}
<1>1. c \in Seq(E) /\ CacheOK(c, Capacity)
  <2>1. ToSet(c) \subseteq E
    OBVIOUS
  <2> HIDE DEF E
  <2> QED BY <2>1 DEF Projects
<1>2. d \in Seq(E) /\ CacheOK(d, Capacity)
  <2>1. e \in E
    OBVIOUS
  <2> HIDE DEF E
  <2> QED BY <1>1, <2>1, CapacityAssumption, PutCache
<1> HIDE DEF d
<1>3. d \in Seq(ToSet(d)) /\ ToSet(d) \subseteq E
  <2> HIDE DEF E
  <2> QED BY <1>2, OwnElements
<1>4. \A x \in ToSet(d) : Project(x)
  <2> HIDE DEF Project
  <2> QED BY <1>3 DEF Projects
<1> QED BY <1>2, <1>3, <1>4 DEF Projects, d

(* A project that is not read again is in the cache, under its key.               *)
LEMMA KeptProject ==
  ASSUME NEW c, Projects(c), NEW k, NEW mtime, ~Outdated(c, k, mtime)
  PROVE  LET e == Peek(c, k) IN e \in ToSet(c) /\ Project(e) /\ e.key = k /\ ~(e.ts < mtime)
<1>1. At(c, k) # {}
  BY DEF Outdated, Peek
<1>2. Peek(c, k) \in ToSet(c) /\ Peek(c, k).key = k
  BY <1>1, PeekCache
<1> QED BY <1>2 DEF Outdated, Projects

(* A function from the first numbers is a sequence.                               *)
LEMMA FunctionSeq ==
  ASSUME NEW n \in Nat, NEW S, NEW f \in [1 .. n -> S]
  PROVE  f \in Seq(S)
OBVIOUS

(* What ConvertInputs writes into the last project of a cache.                     *)
Selected(c, sel) == [c EXCEPT ![Len(c)].sel = sel]

(* The selections of a project say nothing of its key, its version and its time.  *)
LEMMA SelectedProject ==
  ASSUME NEW c, Projects(c), NEW sel
  PROVE  /\ Projects(Selected(c, sel))
         /\ \A x \in ToSet(Selected(c, sel)) :
              \E e \in ToSet(c) : x.key = e.key /\ x.ver = e.ver /\ x.ts = e.ts
<1> DEFINE d == Selected(c, sel)
<1>1. c \in Seq(ToSet(c)) /\ Len(c) \in Nat /\ DOMAIN c = 1 .. Len(c) /\ Len(c) <= Capacity
  BY OwnElements DEF Projects, CacheOK
<1>2. d = [i \in 1 .. Len(c) |-> IF i = Len(c) THEN [c[i] EXCEPT !.sel = sel] ELSE c[i]]
  BY <1>1 DEF Selected
<1> HIDE DEF d
<1>3. DOMAIN d = 1 .. Len(c) /\ Len(d) = Len(c)
  BY <1>1, <1>2
<1>4. ASSUME NEW i \in 1 .. Len(c)
      PROVE  Project(d[i]) /\ d[i].key = c[i].key /\ d[i].ver = c[i].ver /\ d[i].ts = c[i].ts
  <2>1. Project(c[i])
    BY <1>1 DEF Projects, ToSet
  <2>2. CASE i # Len(c)
    BY <1>2, <2>1, <2>2
  <2>3. CASE i = Len(c)
    <3> DEFINE e == c[i]
    <3>1. d[i] = [e EXCEPT !.sel = sel]
      BY <1>2, <2>3
    <3>2. e = [key |-> e.key, ver |-> e.ver, ts |-> e.ts, sel |-> e.sel]
      BY <2>1 DEF Project
    <3> HIDE DEF e
    <3>3. d[i] = [key |-> e.key, ver |-> e.ver, ts |-> e.ts, sel |-> sel]
      BY <3>1, <3>2
    <3> QED BY <2>1, <3>3 DEF Project, e
  <2> QED BY <2>2, <2>3
<1>5. d \in Seq(ToSet(d))
  <2>1. \A i \in 1 .. Len(c) : d[i] \in ToSet(d)
    BY <1>3 DEF ToSet
  <2>2. d \in [1 .. Len(c) -> ToSet(d)]
    BY <1>2, <1>3, <2>1
  <2>3. Len(c) \in Nat
    BY <1>1
  <2> QED BY <2>2, <2>3, FunctionSeq, Zenon
<1>6. CacheOK(d, Capacity)
  BY <1>1, <1>3, <1>4 DEF CacheOK, Projects
<1>7. \A x \in ToSet(d) : Project(x) /\ \E e \in ToSet(c) : x.key = e.key /\ x.ver = e.ver /\ x.ts = e.ts
  <2> SUFFICES ASSUME NEW x \in ToSet(d)
               PROVE  Project(x) /\ \E e \in ToSet(c) : x.key = e.key /\ x.ver = e.ver /\ x.ts = e.ts
    OBVIOUS
  <2>1. PICK i \in 1 .. Len(c) : x = d[i]
    BY <1>3 DEF ToSet
  <2>2. c[i] \in ToSet(c)
    BY <1>1 DEF ToSet
  <2> QED BY <1>4, <2>1, <2>2
<1> QED BY <1>5, <1>6, <1>7 DEF Projects, d

(* What is read has a version of the file, or is the empty project.               *)
LEMMA ReadEntry ==
  ASSUME NEW k, NEW stat, stat.mtime \in Nat, NEW f \in FileState
  PROVE  LET e == Entry(k, stat, f, NoSelections) IN
         Project(e) /\ e.key = k /\ e.ts = stat.mtime /\ e.ver = IF f.exists THEN f.ver ELSE 0
BY VersionsAssumption, RevisionsAssumption DEF Entry, Project, FileState

(* A place that a lookup accepts is there.                                        *)
LEMMA FoundPlace ==
  ASSUME NEW url, FileTypes, LookupError(url, file) = Absent
  PROVE  ResolveAlias(url) \in Places /\ file[ResolveAlias(url)] \in FileState
<1>1. ResolveAlias(url) \in DOMAIN file
  BY ErrorsAssumption DEF LookupError
<1> QED BY <1>1 DEF FileTypes

(* What the descriptions lead to.                                                 *)
LEMMA AnswerOf ==
  ASSUME NEW r, NEW found
  PROVE  LET a == Answered(r, found) IN
         /\ a.pc \in {"described", "refused", "crashed", "accepted"}
         /\ a.pc = "accepted" => a.req = r
BY DEF Answered

(* The next lookup of the loader, and what the question becomes with its answer.  *)
LEMMA RecordedQuestion ==
  ASSUME AskedTypes, asked # Absent, NEW v \in DOMAIN Versions
  PROVE  Recorded(v) \in Question /\ Recorded(v).slot = asked.slot /\ Recorded(v).stat = Absent
<1>1. asked \in Question
  BY DEF AskedTypes
<1> DEFINE l == CHOOSE l \in asked.todo : \A m \in asked.todo : NotAfter(l, m)
           id == job[asked.slot].req.idents[l[1]]
           S == Seq({None} \cup DOMAIN Versions)
<1>2. PICK ids \in SUBSET DOMAIN Algorithms : asked.found \in [ids -> S]
  BY <1>1 DEF Question
<1>3. \A q \in S : \A i : [q EXCEPT ![i] = v] \in S
  BY VersionsAssumption
<1> DEFINE found == [asked.found EXCEPT ![id][l[2]] = v]
<1> HIDE DEF S, l, id
<1>4. found \in [ids -> S]
  BY <1>2, <1>3
<1>6. Recorded(v) = [slot |-> asked.slot, todo |-> asked.todo \ {l}, stat |-> Absent, found |-> found]
  BY Zenon DEF Recorded, l, id
<1>7. asked.slot \in Slots /\ asked.todo \ {l} \in SUBSET (Nat \X Nat)
  BY <1>1 DEF Question
<1>8. found \in UNION {[x -> S] : x \in SUBSET DOMAIN Algorithms}
  BY <1>4
<1> HIDE DEF found
<1> QED BY <1>6, <1>7, <1>8 DEF Question, S

(* A step that changes one job leaves the others as they are.                     *)
LEMMA OneJobChanges ==
  ASSUME JobTypes, OneJob, NEW s \in Slots, NEW x, job' = [job EXCEPT ![s] = x], GoodJob(x),
         \A t \in Slots \ {s} : x.pc \in Busy /\ job[t].pc \in Busy => job[t].worker # x.worker
  PROVE  JobTypes' /\ OneJob' /\ job'[s] = x /\ \A t \in Slots \ {s} : job'[t] = job[t]
<1>1. job' = [t \in Slots |-> IF t = s THEN x ELSE job[t]]
  BY DEF JobTypes
<1>2. job'[s] = x /\ \A t \in Slots \ {s} : job'[t] = job[t]
  BY <1>1
<1>3. \A t \in Slots : GoodJob(job'[t])
  <2> SUFFICES ASSUME NEW t \in Slots PROVE GoodJob(job'[t])
    OBVIOUS
  <2> QED BY <1>2, Zenon DEF JobTypes
<1>4. job' = [t \in Slots |-> job'[t]]
  BY <1>1
<1>5. OneJob'
  BY <1>2 DEF OneJob
<1> QED BY <1>2, <1>3, <1>4, <1>5 DEF JobTypes

(* A job that ends or moves on on its worker.                                     *)
LEMMA JobMoves ==
  ASSUME JobTypes, OneQuestion, OneJob, NEW s \in Slots, NEW x, job' = [job EXCEPT ![s] = x],
         job[s].pc # "waiting", x.pc \notin {"waiting", "accepted", "reading"},
         x.pc \in Busy => job[s].pc \in Busy /\ x.worker = job[s].worker,
         UNCHANGED asked
  PROVE  /\ JobTypes' /\ OneJob' /\ OneQuestion'
         /\ job'[s] = x /\ \A t \in Slots \ {s} : job'[t] = job[t]
<1>1. GoodJob(x)
  BY DEF GoodJob, JobTypes, Busy
<1>2. \A t \in Slots \ {s} : x.pc \in Busy /\ job[t].pc \in Busy => job[t].worker # x.worker
  BY DEF OneJob
<1>3. JobTypes' /\ OneJob' /\ job'[s] = x /\ \A t \in Slots \ {s} : job'[t] = job[t]
  BY <1>1, <1>2, OneJobChanges
<1>4. OneQuestion'
  BY <1>3 DEF OneQuestion
<1> QED BY <1>3, <1>4

(* What the loader asks about stays the same while the jobs that wait do.         *)
LEMMA SameQuestion ==
  ASSUME AskedTypes, OneQuestion, UNCHANGED asked,
         \A s \in Slots : job[s].pc = "waiting" => job'[s] = job[s]
  PROVE  AskedTypes'
<1>1. asked # Absent => asked.slot \in Slots
  BY DEF AskedTypes, Question
<1>2. asked # Absent => job'[asked.slot] = job[asked.slot]
  BY <1>1 DEF OneQuestion
<1> QED BY <1>2 DEF AskedTypes, PlaceOf

LEMMA TypesInit == Init => TypeInv
<1> SUFFICES ASSUME Init PROVE TypeInv
  OBVIOUS
<1> USE DEF Init
<1>1. FileTypes
  <2>1. file \in [Places -> FileState]
    BY FilesAssumption DEF Places
  <2>2. \A p \in Places : InitialFiles[p].mtime \in Nat
    BY <2>1 DEF FileState
  <2>3. seen \in [Places -> [peak : Nat, fresh : BOOLEAN]]
    BY <2>2
  <2> QED BY <2>1, <2>3 DEF FileTypes
<1>2. ASSUME NEW size \in Nat \ {0}
      PROVE  << >> \in Seq(ToSet(<< >>)) /\ CacheOK(<< >>, size) /\ ToSet(<< >>) = {}
  BY DEF CacheOK, ToSet
<1>3. CtxTypes
  BY <1>2, KeptAssumption DEF CtxTypes
<1>4. Projects(<< >>)
  BY <1>2, CapacityAssumption DEF Projects
<1>5. CacheTypes
  BY <1>4 DEF CacheTypes
<1>6. AskedTypes
  BY DEF AskedTypes
<1>7. \A s \in Slots : job[s].pc = "idle"
  BY DEF Idle
<1>8. JobTypes /\ OneQuestion /\ OneJob
  <2>1. \A s \in Slots : GoodJob(job[s])
    BY <1>7 DEF GoodJob, Busy
  <2> QED BY <1>7, <2>1 DEF JobTypes, OneQuestion, OneJob, Busy
<1> QED BY <1>1, <1>3, <1>5, <1>6, <1>8 DEF TypeInv

(* The files change and nothing else does.                                        *)
LEMMA FileSteps ==
  ASSUME TypeInv, NEW p \in Places,
         Vanish(p) \/ \E v \in Revisions[file[p].ver], t \in 1 .. MaxTime : Save(p, v, t)
  PROVE  TypeInv'
<1> USE DEF TypeInv
<1>1. UNCHANGED <<ctx, asked, loader, worker, job>>
  BY DEF Vanish, Save
<1>2. FileTypes'
  <2>1. file[p] \in FileState /\ seen[p] \in [peak : Nat, fresh : BOOLEAN]
    BY DEF FileTypes
  <2>2. CASE Vanish(p)
    <3>1. [file[p] EXCEPT !.exists = FALSE] \in FileState
      BY <2>1 DEF FileState
    <3> QED BY <2>2, <3>1 DEF Vanish, FileTypes
  <2>3. ASSUME NEW v \in Revisions[file[p].ver], NEW t \in 1 .. MaxTime, Save(p, v, t)
        PROVE  FileTypes'
    <3>1. v \in DOMAIN Revisions /\ v \in DOMAIN Versions
      BY <2>1, RevisionsAssumption DEF FileState
    <3>2. [exists |-> TRUE, ver |-> v, mtime |-> t, bad |-> Versions[v].bad] \in FileState
      BY <3>1, FilesAssumption, VersionsAssumption DEF FileState
    <3>3. file' \in [Places -> FileState]
      BY <2>3, <3>2 DEF Save, FileTypes
    <3>4. t \in Nat
      BY FilesAssumption
    <3>5. seen' \in [Places -> [peak : Nat, fresh : BOOLEAN]]
      <4>1. PICK b \in BOOLEAN : b = (t > seen[p].peak)
        <5>1. (t > seen[p].peak) \in BOOLEAN
          OBVIOUS
        <5> QED BY <5>1, Zenon
      <4>2. PICK n \in Nat : n = IF t > seen[p].peak THEN t ELSE seen[p].peak
        BY <2>1, <3>4
      <4>3. seen' = [seen EXCEPT ![p].fresh = b, ![p].peak = n]
        BY <2>3, <4>1, <4>2 DEF Save, FileTypes
      <4> QED BY <2>1, <4>3 DEF FileTypes
    <3> QED BY <3>3, <3>5 DEF FileTypes
  <2> QED BY <2>2, <2>3
<1>3. CtxTypes' /\ CacheTypes'
  BY <1>1 DEF CtxTypes, CacheTypes, Projects
<1>4. AskedTypes'
  BY <1>1, SameQuestion
<1>5. JobTypes' /\ OneQuestion' /\ OneJob'
  BY <1>1 DEF JobTypes, GoodJob, PlaceOf, OneQuestion, OneJob
<1> QED BY <1>2, <1>3, <1>4, <1>5

(* A question that begins.                                                        *)
LEMMA NewQuestion ==
  ASSUME NEW s \in Slots, NEW r \in Requests, Known(r)
  PROVE  [slot |-> s, todo |-> Lookups(r), stat |-> Absent,
          found |-> [id \in ToSet(r.idents) |-> StartVers(id)]] \in Question
<1> DEFINE S == Seq({None} \cup DOMAIN Versions)
           found == [id \in ToSet(r.idents) |-> StartVers(id)]
<1>1. \A j \in DOMAIN r.idents : j \in Nat /\ r.idents[j] \in DOMAIN Algorithms
  <2>1. Len(r.idents) \in Nat /\ DOMAIN r.idents = 1 .. Len(r.idents)
    BY RequestsAssumption
  <2>2. \A j \in DOMAIN r.idents : r.idents[j] \in ToSet(r.idents)
    BY DEF ToSet
  <2> QED BY <2>1, <2>2 DEF Known
<1>2. ASSUME NEW id \in DOMAIN Algorithms
      PROVE  StartVers(id) \in S /\ \A i \in DOMAIN Params(id) : i \in Nat
  <2>1. Params(id) \in Seq(ToSet(Params(id)))
    BY AlgorithmsAssumption DEF Params
  <2>2. Len(Params(id)) \in Nat /\ DOMAIN Params(id) = 1 .. Len(Params(id))
    BY <2>1
  <2>3. StartVers(id) = [i \in 1 .. Len(Params(id)) |-> None]
    BY <2>2 DEF StartVers
  <2>4. StartVers(id) \in Seq({None} \cup DOMAIN Versions)
    BY <2>2, <2>3
  <2> QED BY <2>2, <2>4
<1>3. Lookups(r) \in SUBSET (Nat \X Nat)
  <2> SUFFICES ASSUME NEW l \in Lookups(r) PROVE l \in Nat \X Nat
    OBVIOUS
  <2>1. PICK j \in DOMAIN r.idents : \E i \in DOMAIN Params(r.idents[j]) : l = <<j, i>>
    BY DEF Lookups
  <2> QED BY <1>1, <1>2, <2>1
<1>4. ToSet(r.idents) \in SUBSET DOMAIN Algorithms
  BY DEF Known
<1> HIDE DEF S
<1>5. found \in [ToSet(r.idents) -> S]
  BY <1>2, <1>4
<1>6. found \in UNION {[x -> S] : x \in SUBSET DOMAIN Algorithms}
  BY <1>4, <1>5
<1> HIDE DEF found
<1>7. [slot |-> s, todo |-> Lookups(r), stat |-> Absent, found |-> found] \in Question
  BY <1>3, <1>6 DEF Question, S
<1> QED BY <1>7 DEF found

(* What Receive does, in its four cases.                                          *)
LEMMA Received ==
  ASSUME NEW s, NEW r, Receive(s, r)
  PROVE  /\ asked = Absent /\ job[s] = Idle /\ UNCHANGED <<file, loader, worker, seen>>
         /\ \/ UNCHANGED <<ctx, asked>> /\ job' = [job EXCEPT ![s] = [pc |-> "refused"]]
            \/ /\ Known(r) /\ UNCHANGED <<ctx, asked>>
               /\ \E found : job' = [job EXCEPT ![s] = Answered(r, found)]
            \/ /\ Known(r) /\ InCtx(r) /\ ctx' = UsedCtx(r) /\ UNCHANGED asked
               /\ \E found : job' = [job EXCEPT ![s] = Answered(r, found)]
            \/ /\ Known(r) /\ UNCHANGED ctx
               /\ job' = [job EXCEPT ![s] = [pc |-> "waiting", req |-> r]]
               /\ asked' = [slot |-> s, todo |-> Lookups(r), stat |-> Absent,
                            found |-> [id \in ToSet(r.idents) |-> StartVers(id)]]
<1> HIDE DEF Answered, Known, InCtx, UsedCtx, Lookups, StartVers
<1>1. asked = Absent /\ job[s] = Idle /\ UNCHANGED <<file, loader, worker, seen>>
  BY DEF Receive
<1>2. CASE ~Known(r)
  BY <1>1, <1>2 DEF Receive
<1>3. CASE Known(r) /\ r.map = Absent
  <2>1. job' = [job EXCEPT ![s] = Answered(r, [id \in DOMAIN Algorithms |-> StartVers(id)])]
        /\ UNCHANGED <<ctx, asked>>
    BY <1>3 DEF Receive
  <2> QED BY <1>1, <1>3, <2>1
<1>4. CASE Known(r) /\ r.map # Absent /\ InCtx(r)
  <2>1. /\ job' = [job EXCEPT ![s] = Answered(r, [id \in ToSet(r.idents) |-> Peek(ctx, <<r.map, id>>).vers])]
        /\ ctx' = UsedCtx(r) /\ UNCHANGED asked
    BY <1>4 DEF Receive
  <2> QED BY <1>1, <1>4, <2>1
<1>5. CASE Known(r) /\ r.map # Absent /\ ~InCtx(r)
  <2>1. /\ job' = [job EXCEPT ![s] = [pc |-> "waiting", req |-> r]]
        /\ asked' = [slot |-> s, todo |-> Lookups(r), stat |-> Absent,
                     found |-> [id \in ToSet(r.idents) |-> StartVers(id)]]
        /\ UNCHANGED ctx
    BY <1>5 DEF Receive
  <2> QED BY <1>1, <1>5, <2>1
<1> QED BY <1>2, <1>3, <1>4, <1>5

LEMMA ReceiveTypes ==
  ASSUME TypeInv, NEW s \in Slots, NEW r \in Requests, Receive(s, r)
  PROVE  TypeInv'
<1> USE DEF TypeInv
<1>1. asked = Absent /\ job[s] = Idle /\ UNCHANGED <<file, loader, worker, seen>>
  BY Received
<1>2. FileTypes' /\ CacheTypes'
  BY <1>1 DEF FileTypes, CacheTypes, Projects
<1>3. \A t \in Slots : job[t].pc # "waiting"
  BY <1>1 DEF OneQuestion
<1>4. ASSUME NEW x, job' = [job EXCEPT ![s] = x], UNCHANGED asked,
             x.pc \in {"refused", "described", "crashed", "accepted"}, x.pc = "accepted" => x.req = r
      PROVE  AskedTypes' /\ JobTypes' /\ OneQuestion' /\ OneJob'
  <2>1. GoodJob(x) /\ x.pc \notin Busy /\ x.pc # "waiting"
    BY <1>4 DEF GoodJob, Busy
  <2>2. JobTypes' /\ OneJob' /\ job'[s] = x /\ \A t \in Slots \ {s} : job'[t] = job[t]
    BY <1>4, <2>1, OneJobChanges
  <2>3. OneQuestion'
    BY <1>1, <1>3, <1>4, <2>1, <2>2 DEF OneQuestion
  <2>4. AskedTypes'
    BY <1>1, <1>4 DEF AskedTypes
  <2> QED BY <2>2, <2>3, <2>4
<1>5. CASE UNCHANGED <<ctx, asked>> /\ job' = [job EXCEPT ![s] = [pc |-> "refused"]]
  BY <1>2, <1>4, <1>5 DEF CtxTypes
<1>6. ASSUME NEW found, UNCHANGED asked, job' = [job EXCEPT ![s] = Answered(r, found)]
      PROVE  AskedTypes' /\ JobTypes' /\ OneQuestion' /\ OneJob'
  <2>1. PICK x : x = Answered(r, found)
    OBVIOUS
  <2> QED BY <1>4, <1>6, <2>1, AnswerOf
<1>7. CASE UNCHANGED <<ctx, asked>> /\ \E found : job' = [job EXCEPT ![s] = Answered(r, found)]
  BY <1>2, <1>6, <1>7 DEF CtxTypes
<1>8. CASE /\ InCtx(r) /\ ctx' = UsedCtx(r) /\ UNCHANGED asked
           /\ \E found : job' = [job EXCEPT ![s] = Answered(r, found)]
  <2>1. CtxTypes'
    BY <1>8, UsedCtxCache DEF CtxTypes
  <2> QED BY <1>2, <1>6, <1>8, <2>1
<1>9. CASE /\ Known(r) /\ UNCHANGED ctx
           /\ job' = [job EXCEPT ![s] = [pc |-> "waiting", req |-> r]]
           /\ asked' = [slot |-> s, todo |-> Lookups(r), stat |-> Absent,
                        found |-> [id \in ToSet(r.idents) |-> StartVers(id)]]
  <2> DEFINE x == [pc |-> "waiting", req |-> r]
  <2>1. GoodJob(x) /\ x.pc \notin Busy
    BY <1>9 DEF GoodJob, Busy
  <2>2. JobTypes' /\ OneJob' /\ job'[s] = x /\ \A t \in Slots \ {s} : job'[t] = job[t]
    BY <1>9, <2>1, OneJobChanges
  <2>3. asked' \in Question /\ asked'.slot = s /\ asked'.stat = Absent /\ asked' # Absent
    BY <1>9, NewQuestion, AbsentAssumption
  <2>4. OneQuestion'
    BY <1>3, <2>2, <2>3 DEF OneQuestion
  <2>5. AskedTypes'
    BY <2>3 DEF AskedTypes
  <2>6. CtxTypes'
    BY <1>9 DEF CtxTypes
  <2> QED BY <1>2, <2>2, <2>4, <2>5, <2>6
<1> QED BY <1>5, <1>7, <1>8, <1>9, Received

(* The loader and the jobs that it answers.                                       *)
LEMMA GivesUpTypes ==
  ASSUME TypeInv, asked # Absent, LoaderGivesUp
  PROVE  AskedTypes' /\ JobTypes' /\ OneQuestion' /\ OneJob'
<1> USE DEF TypeInv
<1> DEFINE s == asked.slot
<1>1. s \in Slots /\ job[s].pc = "waiting"
  BY DEF AskedTypes, Question, OneQuestion
<1>2. PICK x : job' = [job EXCEPT ![s] = x] /\ x.pc \in {"described", "crashed"}
  <2> DEFINE x == [pc |-> IF job[s].req.kind = "describe" THEN "described" ELSE "crashed"]
  <2>1. job' = [job EXCEPT ![s] = x]
    BY DEF LoaderGivesUp
  <2>2. x.pc \in {"described", "crashed"}
    OBVIOUS
  <2> HIDE DEF x
  <2> QED BY <2>1, <2>2
<1>3. asked' = Absent
  BY DEF LoaderGivesUp
<1> HIDE DEF s
<1>4. GoodJob(x) /\ x.pc \notin Busy
  BY <1>2 DEF GoodJob, Busy
<1>5. JobTypes' /\ OneJob' /\ job'[s] = x /\ \A t \in Slots \ {s} : job'[t] = job[t]
  BY <1>1, <1>2, <1>4, OneJobChanges
<1>6. OneQuestion'
  BY <1>1, <1>2, <1>3, <1>5 DEF OneQuestion, s
<1> QED BY <1>3, <1>5, <1>6 DEF AskedTypes

(* One lookup more: the same job waits.                                           *)
LEMMA RecordedTypes ==
  ASSUME TypeInv, asked # Absent, UNCHANGED job, NEW v \in DOMAIN Versions, asked' = Recorded(v)
  PROVE  AskedTypes' /\ JobTypes' /\ OneQuestion' /\ OneJob'
<1> USE DEF TypeInv
<1>1. Recorded(v) \in Question /\ Recorded(v).slot = asked.slot /\ Recorded(v).stat = Absent
  BY RecordedQuestion
<1>2. asked' \in Question /\ asked'.slot = asked.slot /\ asked'.stat = Absent /\ asked' # Absent
  BY <1>1, AbsentAssumption
<1>3. AskedTypes'
  BY <1>2 DEF AskedTypes
<1>4. OneQuestion'
  BY <1>2 DEF OneQuestion
<1>5. JobTypes' /\ OneJob'
  BY DEF JobTypes, GoodJob, PlaceOf, OneJob
<1> QED BY <1>3, <1>4, <1>5

LEMMA LoaderStatsTypes ==
  ASSUME TypeInv, LoaderStats
  PROVE  TypeInv'
<1> USE DEF TypeInv
<1> DEFINE r == job[asked.slot].req
           f == file[PlaceOf(r)]
<1>1. asked # Absent /\ UNCHANGED <<file, ctx, worker, seen>>
  BY DEF LoaderStats
<1>2. FileTypes' /\ CtxTypes'
  BY <1>1 DEF FileTypes, CtxTypes
<1>3. CASE LookupError(r.map, file) # Absent
  <2>1. LoaderGivesUp /\ UNCHANGED loader
    BY <1>3 DEF LoaderStats
  <2>2. CacheTypes'
    BY <1>1, <2>1 DEF CacheTypes, Projects
  <2> QED BY <1>1, <1>2, <2>1, <2>2, GivesUpTypes
<1>4. CASE LookupError(r.map, file) = Absent /\ Outdated(loader, Key(r), f.mtime)
  <2>1. asked' = [asked EXCEPT !.stat = f] /\ UNCHANGED <<job, loader>>
    BY <1>4 DEF LoaderStats
  <2>2. CacheTypes'
    BY <1>1, <2>1 DEF CacheTypes, Projects
  <2>3. PlaceOf(r) \in Places /\ f \in FileState
    BY <1>4, FoundPlace DEF PlaceOf
  <2>4. asked \in Question
    BY <1>1 DEF AskedTypes
  <2>5. asked' \in Question /\ asked'.slot = asked.slot
    <3> HIDE DEF f, FileState
    <3> QED BY <2>1, <2>3, <2>4 DEF Question
  <2>6. AskedTypes'
    BY <2>1, <2>3, <2>5 DEF AskedTypes, PlaceOf
  <2>7. OneQuestion'
    BY <1>1, <2>1, <2>5, AbsentAssumption DEF OneQuestion
  <2>8. JobTypes' /\ OneJob'
    BY <2>1 DEF JobTypes, GoodJob, PlaceOf, OneJob
  <2> QED BY <1>2, <2>2, <2>6, <2>7, <2>8
<1>5. CASE LookupError(r.map, file) = Absent /\ ~Outdated(loader, Key(r), f.mtime)
  <2>1. /\ loader' = Put(loader, Peek(loader, Key(r)), Capacity)
        /\ asked' = Recorded(Peek(loader, Key(r)).ver)
        /\ UNCHANGED job
    BY <1>5 DEF LoaderStats
  <2>2. PICK e : e = Peek(loader, Key(r)) /\ Project(e)
    BY <1>5, KeptProject DEF CacheTypes
  <2>3. Projects(loader')
    BY <2>1, <2>2, PutProject DEF CacheTypes
  <2>4. CacheTypes'
    BY <1>1, <2>3 DEF CacheTypes, Projects
  <2>5. e.ver \in DOMAIN Versions /\ asked' = Recorded(e.ver)
    BY <2>1, <2>2 DEF Project
  <2> QED BY <1>1, <1>2, <2>1, <2>4, <2>5, RecordedTypes
<1> QED BY <1>3, <1>4, <1>5

LEMMA LoaderReadsTypes ==
  ASSUME TypeInv, LoaderReads
  PROVE  TypeInv'
<1> USE DEF TypeInv
<1> DEFINE r == job[asked.slot].req
           f == file[PlaceOf(r)]
<1>1. asked # Absent /\ asked.stat # Absent /\ UNCHANGED <<file, ctx, worker, seen>>
  BY DEF LoaderReads
<1>2. FileTypes' /\ CtxTypes'
  BY <1>1 DEF FileTypes, CtxTypes
<1>3. CASE BadLayersRefused(f)
  <2>1. LoaderGivesUp /\ UNCHANGED loader
    BY <1>3 DEF LoaderReads
  <2>2. CacheTypes'
    BY <1>1, <2>1 DEF CacheTypes, Projects
  <2> QED BY <1>1, <1>2, <2>1, <2>2, GivesUpTypes
<1>4. CASE ~BadLayersRefused(f)
  <2>1. PICK e : e = Entry(Key(r), asked.stat, f, NoSelections)
    OBVIOUS
  <2>2. loader' = Put(loader, e, Capacity) /\ asked' = Recorded(e.ver) /\ UNCHANGED job
    BY <1>4, <2>1 DEF LoaderReads
  <2>3. f \in FileState
    BY <1>1 DEF AskedTypes, FileTypes
  <2>4. asked.stat.mtime \in Nat
    BY <1>1 DEF AskedTypes, Question, FileState
  <2>5. Project(e)
    <3> HIDE DEF f
    <3> QED BY <2>1, <2>3, <2>4, ReadEntry
  <2>6. Projects(loader')
    BY <2>2, <2>5, PutProject DEF CacheTypes
  <2>7. CacheTypes'
    BY <1>1, <2>6 DEF CacheTypes, Projects
  <2>8. e.ver \in DOMAIN Versions
    BY <2>5 DEF Project
  <2> QED BY <1>1, <1>2, <2>2, <2>7, <2>8, RecordedTypes
<1> QED BY <1>3, <1>4

LEMMA LoaderAnswersTypes ==
  ASSUME TypeInv, LoaderAnswers
  PROVE  TypeInv'
<1> USE DEF TypeInv
<1> DEFINE s == asked.slot
<1>1. asked # Absent /\ asked' = Absent /\ UNCHANGED <<file, loader, worker, seen>>
  BY DEF LoaderAnswers
<1>2. s \in Slots /\ job[s].pc = "waiting" /\ job[s].req \in Requests
  BY <1>1 DEF AskedTypes, Question, OneQuestion, JobTypes, GoodJob
<1>3. PICK x : x = Answered(job[s].req, asked.found)
  OBVIOUS
<1>4. job' = [job EXCEPT ![s] = x] /\ ctx' = PutCtx(job[s].req, asked.found)
  BY <1>3 DEF LoaderAnswers
<1>5. FileTypes' /\ CacheTypes'
  BY <1>1 DEF FileTypes, CacheTypes, Projects
<1>6. CtxTypes'
  <2>1. PICK r \in Requests : r = job[s].req
    BY <1>2
  <2>2. PICK found : found = asked.found
    OBVIOUS
  <2> HIDE DEF s
  <2> QED BY <1>4, <2>1, <2>2, PutCtxCache DEF CtxTypes
<1> HIDE DEF s
<1>7. GoodJob(x) /\ x.pc \notin Busy /\ x.pc # "waiting"
  <2>1. x.pc \in {"described", "refused", "crashed", "accepted"} /\ (x.pc = "accepted" => x.req \in Requests)
    BY <1>2, <1>3, AnswerOf
  <2> QED BY <2>1 DEF GoodJob, Busy
<1>8. JobTypes' /\ OneJob' /\ job'[s] = x /\ \A t \in Slots \ {s} : job'[t] = job[t]
  BY <1>2, <1>4, <1>7, OneJobChanges
<1>9. OneQuestion'
  BY <1>1, <1>2, <1>7, <1>8 DEF OneQuestion, s
<1>10. AskedTypes'
  BY <1>1 DEF AskedTypes
<1> QED BY <1>5, <1>6, <1>8, <1>9, <1>10

LEMMA CloseTypes ==
  ASSUME TypeInv, NEW s \in Slots, Close(s)
  PROVE  TypeInv'
<1> USE DEF TypeInv
<1>1. job[s].pc \in Over /\ job' = [job EXCEPT ![s] = Idle] /\ UNCHANGED <<file, ctx, asked, loader, worker, seen>>
  BY DEF Close
<1>2. job[s].pc # "waiting" /\ Idle.pc = "idle"
  BY <1>1 DEF Over, Idle
<1>3. /\ JobTypes' /\ OneJob' /\ OneQuestion'
      /\ \A t \in Slots \ {s} : job'[t] = job[t]
  BY <1>1, <1>2, JobMoves DEF Busy
<1>4. AskedTypes'
  BY <1>1, <1>2, <1>3, SameQuestion
<1>5. FileTypes' /\ CtxTypes' /\ CacheTypes'
  BY <1>1 DEF FileTypes, CtxTypes, CacheTypes, Projects
<1> QED BY <1>3, <1>4, <1>5

LEMMA ReloadTypes ==
  ASSUME TypeInv, NEW ok, Reload(ok)
  PROVE  TypeInv'
<1> USE DEF TypeInv
<1>1. asked = Absent /\ loader' = << >> /\ ctx' \in {<< >>, ctx} /\ UNCHANGED <<file, asked, worker, job, seen>>
  BY DEF Reload
<1>2. ASSUME NEW size \in Nat \ {0}
      PROVE  << >> \in Seq(ToSet(<< >>)) /\ CacheOK(<< >>, size) /\ ToSet(<< >>) = {}
  BY DEF CacheOK, ToSet
<1>3. CtxTypes'
  BY <1>1, <1>2, KeptAssumption DEF CtxTypes
<1>4. Projects(<< >>)
  BY <1>2, CapacityAssumption DEF Projects
<1>5. CacheTypes'
  BY <1>1, <1>4 DEF CacheTypes, Projects
<1>6. FileTypes' /\ AskedTypes'
  BY <1>1 DEF FileTypes, AskedTypes
<1>7. JobTypes' /\ OneJob' /\ OneQuestion'
  BY <1>1 DEF JobTypes, GoodJob, PlaceOf, OneJob, OneQuestion
<1> QED BY <1>3, <1>5, <1>6, <1>7

(* A worker whose cache changes: the others keep theirs.                          *)
LEMMA OneCacheChanges ==
  ASSUME CacheTypes, NEW w \in Workers, NEW c, Projects(c), worker' = [worker EXCEPT ![w] = c], UNCHANGED loader
  PROVE  CacheTypes' /\ worker'[w] = c /\ \A v \in Workers \ {w} : worker'[v] = worker[v]
<1>1. worker' = [v \in Workers |-> IF v = w THEN c ELSE worker[v]]
  BY DEF CacheTypes
<1>2. worker'[w] = c /\ \A v \in Workers \ {w} : worker'[v] = worker[v]
  BY <1>1
<1>3. \A v \in Workers : Projects(worker'[v])
  <2> SUFFICES ASSUME NEW v \in Workers PROVE Projects(worker'[v])
    OBVIOUS
  <2> QED BY <1>2, Zenon DEF CacheTypes
<1>4. Projects(loader) /\ worker' = [v \in Workers |-> worker'[v]]
  BY <1>1 DEF CacheTypes
<1>5. Projects(loader)'
  BY <1>4 DEF Projects
<1> QED BY <1>2, <1>3, <1>4, <1>5 DEF CacheTypes, Projects

LEMMA WorkerRestartsTypes ==
  ASSUME TypeInv, NEW w \in Workers, WorkerRestarts(w)
  PROVE  TypeInv'
<1> USE DEF TypeInv
<1>1. worker' = [worker EXCEPT ![w] = << >>] /\ UNCHANGED <<file, ctx, asked, loader, job, seen>>
  BY DEF WorkerRestarts
<1>2. Projects(<< >>)
  <2>1. << >> \in Seq(ToSet(<< >>)) /\ CacheOK(<< >>, Capacity) /\ ToSet(<< >>) = {}
    BY CapacityAssumption DEF CacheOK, ToSet
  <2> QED BY <2>1 DEF Projects
<1>3. CacheTypes'
  BY <1>1, <1>2, OneCacheChanges
<1>4. FileTypes' /\ CtxTypes' /\ AskedTypes'
  BY <1>1 DEF FileTypes, CtxTypes, AskedTypes
<1>5. JobTypes' /\ OneJob' /\ OneQuestion'
  BY <1>1 DEF JobTypes, GoodJob, PlaceOf, OneJob, OneQuestion
<1> QED BY <1>3, <1>4, <1>5

(* What StartJob does: without MAP, with a MAP that a lookup refuses, with a file  *)
(* to be read, with the project of the cache.                                      *)
LEMMA Started ==
  ASSUME TypeInv, NEW s \in Slots, NEW w \in Workers, StartJob(s, w)
  PROVE  LET r == job[s].req
             p == PlaceOf(r)
         IN
         /\ job[s].pc = "accepted" /\ ~Running(w) /\ r \in Requests
         /\ UNCHANGED <<file, ctx, asked, loader, seen>>
         /\ \E x :
              /\ job' = [job EXCEPT ![s] = x]
              /\ \/ UNCHANGED worker /\ x.pc = "failed"
                 \/ UNCHANGED worker /\ x.pc = "ready" /\ x.req = r /\ x.vers = job[s].vers /\ x.worker = w /\ x.ver = None
                 \/ /\ UNCHANGED worker
                    /\ p \in Places /\ file[p] \in FileState
                    /\ x.pc = "reading" /\ x.req = r /\ x.vers = job[s].vers /\ x.worker = w
                    /\ x.stat = file[p] /\ x.floor = FloorOf(r)
                 \/ \E e \in ToSet(worker[w]) :
                      /\ p \in Places /\ file[p] \in FileState
                      /\ Project(e) /\ e.key = Key(r) /\ ~(e.ts < file[p].mtime)
                      /\ worker' = [worker EXCEPT ![w] = Put(worker[w], e, Capacity)]
                      /\ x.pc = "ready" /\ x.req = r /\ x.vers = job[s].vers /\ x.worker = w
                      /\ x.ver = e.ver /\ x.floor = FloorOf(r)
<1> USE DEF TypeInv
<1> DEFINE r == job[s].req
           p == PlaceOf(r)
           f == file[p]
<1>1. job[s].pc = "accepted" /\ ~Running(w) /\ UNCHANGED <<file, ctx, asked, loader, seen>>
  BY DEF StartJob
<1>2. r \in Requests
  BY <1>1 DEF JobTypes, GoodJob
<1>3. CASE r.map = Absent
  <2> DEFINE x == [pc |-> "ready", req |-> r, vers |-> job[s].vers, worker |-> w, ver |-> None, floor |-> 0]
  <2>1. Ready(s, w, None, 0) /\ UNCHANGED worker
    BY <1>3 DEF StartJob
  <2>2. job' = [job EXCEPT ![s] = x]
    BY <2>1, <1>2 DEF Ready
  <2>3. x.pc = "ready" /\ x.req = r /\ x.vers = job[s].vers /\ x.worker = w /\ x.ver = None
    OBVIOUS
  <2> HIDE DEF x
  <2> QED BY <1>1, <1>2, <2>1, <2>2, <2>3
<1>4. CASE r.map # Absent /\ LookupError(r.map, file) # Absent
  <2> DEFINE x == [pc |-> "failed"]
  <2>1. job' = [job EXCEPT ![s] = x] /\ UNCHANGED worker
    BY <1>4 DEF StartJob, Fails
  <2>2. x.pc = "failed"
    OBVIOUS
  <2> HIDE DEF x
  <2> QED BY <1>1, <1>2, <2>1, <2>2
<1>5. CASE r.map # Absent /\ LookupError(r.map, file) = Absent
  <2>1. p \in Places /\ f \in FileState
    BY <1>5, FoundPlace DEF PlaceOf
  <2>2. CASE Outdated(worker[w], Key(r), f.mtime)
    <3> DEFINE x == [pc |-> "reading", req |-> r, vers |-> job[s].vers, worker |-> w, stat |-> f, floor |-> FloorOf(r)]
    <3>1. job' = [job EXCEPT ![s] = x] /\ UNCHANGED worker
      BY <1>5, <2>2 DEF StartJob
    <3>2. x.pc = "reading" /\ x.req = r /\ x.vers = job[s].vers /\ x.worker = w /\ x.stat = f /\ x.floor = FloorOf(r)
      OBVIOUS
    <3> HIDE DEF x
    <3> QED BY <1>1, <1>2, <2>1, <3>1, <3>2
  <2>3. CASE ~Outdated(worker[w], Key(r), f.mtime)
    <3>1. PICK e : e = Peek(worker[w], Key(r))
      OBVIOUS
    <3>2. e \in ToSet(worker[w]) /\ Project(e) /\ e.key = Key(r) /\ ~(e.ts < f.mtime)
      BY <2>3, <3>1, KeptProject DEF CacheTypes
    <3> DEFINE x == [pc |-> "ready", req |-> r, vers |-> job[s].vers, worker |-> w, ver |-> e.ver, floor |-> FloorOf(r)]
    <3>3. /\ Ready(s, w, e.ver, FloorOf(r))
          /\ worker' = [worker EXCEPT ![w] = Put(@, Peek(@, Key(r)), Capacity)]
      BY <1>5, <2>3, <3>1 DEF StartJob
    <3>4. worker' = [worker EXCEPT ![w] = Put(worker[w], e, Capacity)]
      BY <3>1, <3>3
    <3>5. job' = [job EXCEPT ![s] = x]
      BY <3>3, <1>2 DEF Ready
    <3>6. x.pc = "ready" /\ x.req = r /\ x.vers = job[s].vers /\ x.worker = w /\ x.ver = e.ver /\ x.floor = FloorOf(r)
      OBVIOUS
    <3> HIDE DEF x
    <3> QED BY <1>1, <1>2, <2>1, <3>2, <3>4, <3>5, <3>6
  <2> QED BY <2>2, <2>3
<1> QED BY <1>3, <1>4, <1>5

LEMMA StartJobTypes ==
  ASSUME TypeInv, NEW s \in Slots, NEW w \in Workers, StartJob(s, w)
  PROVE  TypeInv'
<1> USE DEF TypeInv
<1> DEFINE r == job[s].req
           p == PlaceOf(r)
<1>1. job[s].pc = "accepted" /\ ~Running(w) /\ r \in Requests /\ UNCHANGED <<file, ctx, asked, loader, seen>>
  BY Started
<1>2. PICK x :
        /\ job' = [job EXCEPT ![s] = x]
        /\ \/ UNCHANGED worker /\ x.pc = "failed"
           \/ UNCHANGED worker /\ x.pc = "ready" /\ x.worker = w /\ x.ver = None
           \/ /\ UNCHANGED worker
              /\ p \in Places /\ file[p] \in FileState
              /\ x.pc = "reading" /\ x.req = r /\ x.worker = w /\ x.stat = file[p] /\ x.floor = FloorOf(r)
           \/ \E e \in ToSet(worker[w]) :
                /\ p \in Places /\ file[p] \in FileState
                /\ Project(e) /\ e.key = Key(r) /\ ~(e.ts < file[p].mtime)
                /\ worker' = [worker EXCEPT ![w] = Put(worker[w], e, Capacity)]
                /\ x.pc = "ready" /\ x.worker = w /\ x.ver = e.ver /\ x.floor = FloorOf(r)
  BY Started
<1>3. GoodJob(x)
  BY <1>1, <1>2 DEF GoodJob, Busy
<1>4. x.pc # "waiting" /\ (x.pc \in Busy => x.worker = w)
  BY <1>2 DEF Busy
<1>5. JobTypes' /\ OneJob' /\ job'[s] = x /\ \A t \in Slots \ {s} : job'[t] = job[t]
  <2>1. \A t \in Slots : job[t].pc \in Busy => job[t].worker # w
    BY <1>1 DEF Running
  <2>2. \A t \in Slots \ {s} : x.pc \in Busy /\ job[t].pc \in Busy => job[t].worker # x.worker
    BY <1>4, <2>1
  <2>3. job' = [job EXCEPT ![s] = x]
    BY <1>2
  <2> QED BY <1>3, <2>2, <2>3, OneJobChanges
<1>6. OneQuestion' /\ AskedTypes'
  <2>1. OneQuestion'
    BY <1>1, <1>4, <1>5 DEF OneQuestion
  <2>2. AskedTypes'
    BY <1>1, <1>5, SameQuestion
  <2> QED BY <2>1, <2>2
<1>7. FileTypes' /\ CtxTypes'
  BY <1>1 DEF FileTypes, CtxTypes
<1>8. CacheTypes'
  <2>1. CASE UNCHANGED worker
    BY <1>1, <2>1 DEF CacheTypes, Projects
  <2>2. ASSUME NEW e, Project(e), worker' = [worker EXCEPT ![w] = Put(worker[w], e, Capacity)]
        PROVE  CacheTypes'
    <3>1. PICK c : c = Put(worker[w], e, Capacity)
      OBVIOUS
    <3>2. Projects(c)
      BY <2>2, <3>1, PutProject DEF CacheTypes
    <3> QED BY <1>1, <2>2, <3>1, <3>2, OneCacheChanges
  <2> QED BY <1>2, <2>1, <2>2
<1> QED BY <1>5, <1>6, <1>7, <1>8

(* What ReadProject does.                                                         *)
LEMMA ReadDone ==
  ASSUME TypeInv, NEW s \in Slots, ReadProject(s)
  PROVE  LET r == job[s].req
             w == job[s].worker
             f == file[PlaceOf(r)]
         IN
         /\ job[s].pc = "reading" /\ w \in Workers /\ PlaceOf(r) \in Places /\ f \in FileState
         /\ UNCHANGED <<file, ctx, asked, loader, seen>>
         /\ \E x :
              /\ job' = [job EXCEPT ![s] = x]
              /\ \/ UNCHANGED worker /\ x.pc = "failed"
                 \/ \E e :
                      /\ Project(e) /\ e.key = Key(r) /\ e.ts = job[s].stat.mtime /\ e.sel = NoSelections
                      /\ e.ver = IF f.exists THEN f.ver ELSE 0
                      /\ worker' = [worker EXCEPT ![w] = Put(worker[w], e, Capacity)]
                      /\ x.pc = "ready" /\ x.req = r /\ x.vers = job[s].vers /\ x.worker = w
                      /\ x.ver = e.ver /\ x.floor = job[s].floor
<1> USE DEF TypeInv
<1> DEFINE r == job[s].req
           w == job[s].worker
           f == file[PlaceOf(r)]
<1>1. job[s].pc = "reading" /\ UNCHANGED <<file, ctx, asked, loader, seen>>
  BY DEF ReadProject
<1>2. w \in Workers /\ PlaceOf(r) \in Places /\ job[s].stat \in FileState
  BY <1>1 DEF JobTypes, GoodJob, Busy
<1>3. f \in FileState /\ job[s].stat.mtime \in Nat
  BY <1>2 DEF FileTypes, FileState
<1>4. CASE BadLayersRefused(f)
  <2> DEFINE x == [pc |-> "failed"]
  <2>1. job' = [job EXCEPT ![s] = x] /\ UNCHANGED worker
    BY <1>4 DEF ReadProject, Fails
  <2>2. x.pc = "failed"
    OBVIOUS
  <2> HIDE DEF x
  <2> QED BY <1>1, <1>2, <1>3, <2>1, <2>2
<1>5. CASE ~BadLayersRefused(f)
  <2>1. PICK e : e = Entry(Key(r), job[s].stat, f, NoSelections)
    OBVIOUS
  <2>2. /\ Project(e) /\ e.key = Key(r) /\ e.ts = job[s].stat.mtime /\ e.sel = NoSelections
        /\ e.ver = IF f.exists THEN f.ver ELSE 0
    BY <1>3, <2>1, ReadEntry DEF Entry
  <2>3. Ready(s, w, e.ver, job[s].floor) /\ worker' = [worker EXCEPT ![w] = Put(@, e, Capacity)]
    BY <1>5, <2>1 DEF ReadProject
  <2> DEFINE x == [pc |-> "ready", req |-> job[s].req, vers |-> job[s].vers, worker |-> w,
                   ver |-> e.ver, floor |-> job[s].floor]
  <2>4. job' = [job EXCEPT ![s] = x]
    BY <2>3 DEF Ready
  <2>5. x.pc = "ready" /\ x.req = r /\ x.vers = job[s].vers /\ x.worker = w /\ x.ver = e.ver /\ x.floor = job[s].floor
    OBVIOUS
  <2>6. worker' = [worker EXCEPT ![w] = Put(worker[w], e, Capacity)]
    BY <2>3
  <2> HIDE DEF x
  <2> QED BY <1>1, <1>2, <1>3, <2>2, <2>4, <2>5, <2>6
<1> QED BY <1>4, <1>5

LEMMA ReadProjectTypes ==
  ASSUME TypeInv, NEW s \in Slots, ReadProject(s)
  PROVE  TypeInv'
<1> USE DEF TypeInv
<1> DEFINE r == job[s].req
           w == job[s].worker
           f == file[PlaceOf(r)]
<1>1. /\ job[s].pc = "reading" /\ w \in Workers
      /\ UNCHANGED <<file, ctx, asked, loader, seen>>
  BY ReadDone
<1>2. PICK x :
        /\ job' = [job EXCEPT ![s] = x]
        /\ \/ UNCHANGED worker /\ x.pc = "failed"
           \/ \E e :
                /\ Project(e) /\ e.key = Key(r) /\ e.ts = job[s].stat.mtime
                /\ e.ver = IF f.exists THEN f.ver ELSE 0
                /\ worker' = [worker EXCEPT ![w] = Put(worker[w], e, Capacity)]
                /\ x.pc = "ready" /\ x.worker = w /\ x.ver = e.ver /\ x.floor = job[s].floor
  BY ReadDone
<1>3. /\ JobTypes' /\ OneJob' /\ OneQuestion'
      /\ \A t \in Slots \ {s} : job'[t] = job[t]
  <2>1. job[s].pc # "waiting" /\ job[s].pc \in Busy
    BY <1>1 DEF Busy
  <2>2. x.pc \notin {"waiting", "accepted", "reading"} /\ (x.pc \in Busy => x.worker = w)
    BY <1>2 DEF Busy
  <2> QED BY <1>1, <1>2, <2>1, <2>2, JobMoves
<1>4. AskedTypes'
  BY <1>1, <1>3, SameQuestion
<1>5. FileTypes' /\ CtxTypes'
  BY <1>1 DEF FileTypes, CtxTypes
<1>6. CacheTypes'
  <2>1. CASE UNCHANGED worker
    BY <1>1, <2>1 DEF CacheTypes, Projects
  <2>2. ASSUME NEW e, Project(e), worker' = [worker EXCEPT ![w] = Put(worker[w], e, Capacity)]
        PROVE  CacheTypes'
    <3>1. PICK c : c = Put(worker[w], e, Capacity)
      OBVIOUS
    <3>2. Projects(c)
      BY <1>1, <2>2, <3>1, PutProject DEF CacheTypes
    <3> HIDE DEF w
    <3> QED BY <1>1, <2>2, <3>1, <3>2, OneCacheChanges
  <2> QED BY <1>2, <2>1, <2>2
<1> QED BY <1>3, <1>4, <1>5, <1>6

(* What ConvertInputs does: the project of the worker gets other selections.      *)
LEMMA ConvertDone ==
  ASSUME TypeInv, NEW s \in Slots, ConvertInputs(s)
  PROVE  /\ job[s].pc = "ready" /\ job[s].worker \in Workers
         /\ UNCHANGED <<file, ctx, asked, loader, seen>>
         /\ \/ UNCHANGED worker
            \/ LET w == job[s].worker IN
               \E sel : worker' = [worker EXCEPT ![w] = [worker[w] EXCEPT ![Len(worker[w])].sel = sel]]
         /\ \E x : /\ job' = [job EXCEPT ![s] = x]
                   /\ x.pc = "failed" \/ (x.pc = "converted" /\ x.worker = job[s].worker)
<1> USE DEF TypeInv
<1> DEFINE w == job[s].worker
           conv == ConvertAll(AlgOf(s).params, Given(s), View(job[s].ver), CachedSelection(s))
<1>1. job[s].pc = "ready" /\ UNCHANGED <<file, ctx, asked, loader, seen>>
  BY DEF ConvertInputs
<1>2. w \in Workers
  BY <1>1 DEF JobTypes, GoodJob, Busy
<1>3. PICK c : c = conv
  OBVIOUS
<1> HIDE DEF conv
<1>4. /\ worker' = IF job[s].ver = None THEN worker
                   ELSE [worker EXCEPT ![w] = [@ EXCEPT ![Len(worker[w])].sel = c.sel]]
      /\ IF c.status = Failed THEN Fails(s)
         ELSE job' = [job EXCEPT ![s] = [pc |-> "converted", req |-> @.req, vers |-> @.vers, worker |-> w,
                        ver |-> @.ver, floor |-> @.floor, values |-> c.values, sel |-> c.sel]]
  BY <1>3 DEF ConvertInputs, conv
<1>5. \/ UNCHANGED worker
      \/ \E sel : worker' = [worker EXCEPT ![w] = [worker[w] EXCEPT ![Len(worker[w])].sel = sel]]
  BY <1>4
<1>6. \E x : /\ job' = [job EXCEPT ![s] = x]
             /\ x.pc = "failed" \/ (x.pc = "converted" /\ x.worker = w)
  <2>1. CASE c.status = Failed
    <3> DEFINE x == [pc |-> "failed"]
    <3>1. job' = [job EXCEPT ![s] = x] /\ x.pc = "failed"
      BY <1>4, <2>1 DEF Fails
    <3> HIDE DEF x
    <3> QED BY <3>1
  <2>2. CASE c.status # Failed
    <3> DEFINE x == [pc |-> "converted", req |-> job[s].req, vers |-> job[s].vers, worker |-> w,
                     ver |-> job[s].ver, floor |-> job[s].floor, values |-> c.values, sel |-> c.sel]
    <3>1. job' = [job EXCEPT ![s] = x]
      BY <1>4, <2>2
    <3>2. x.pc = "converted" /\ x.worker = w
      OBVIOUS
    <3> HIDE DEF x
    <3> QED BY <3>1, <3>2
  <2> QED BY <2>1, <2>2
<1> QED BY <1>1, <1>2, <1>5, <1>6

LEMMA ConvertInputsTypes ==
  ASSUME TypeInv, NEW s \in Slots, ConvertInputs(s)
  PROVE  TypeInv'
<1> USE DEF TypeInv
<1> DEFINE w == job[s].worker
<1>1. job[s].pc = "ready" /\ w \in Workers /\ UNCHANGED <<file, ctx, asked, loader, seen>>
  BY ConvertDone
<1>2. PICK x : job' = [job EXCEPT ![s] = x] /\ (x.pc = "failed" \/ (x.pc = "converted" /\ x.worker = w))
  BY ConvertDone
<1>3. /\ JobTypes' /\ OneJob' /\ OneQuestion'
      /\ \A t \in Slots \ {s} : job'[t] = job[t]
  <2>1. job[s].pc # "waiting" /\ job[s].pc \in Busy
    BY <1>1 DEF Busy
  <2>2. x.pc \notin {"waiting", "accepted", "reading"} /\ (x.pc \in Busy => x.worker = w)
    BY <1>2 DEF Busy
  <2> QED BY <1>1, <1>2, <2>1, <2>2, JobMoves
<1>4. AskedTypes'
  BY <1>1, <1>3, SameQuestion
<1>5. FileTypes' /\ CtxTypes'
  BY <1>1 DEF FileTypes, CtxTypes
<1>6. CacheTypes'
  <2>1. CASE UNCHANGED worker
    BY <1>1, <2>1 DEF CacheTypes, Projects
  <2>2. ASSUME NEW sel, worker' = [worker EXCEPT ![w] = [worker[w] EXCEPT ![Len(worker[w])].sel = sel]]
        PROVE  CacheTypes'
    <3>1. PICK c : c = [worker[w] EXCEPT ![Len(worker[w])].sel = sel]
      OBVIOUS
    <3>2. Projects(c)
      <4>1. PICK old : old = worker[w] /\ Projects(old)
        BY <1>1 DEF CacheTypes
      <4>2. c = Selected(old, sel)
        BY <3>1, <4>1 DEF Selected
      <4> QED BY <4>1, <4>2, SelectedProject
    <3> HIDE DEF w
    <3> QED BY <1>1, <2>2, <3>1, <3>2, OneCacheChanges
  <2> QED BY <2>1, <2>2, ConvertDone
<1> QED BY <1>3, <1>4, <1>5, <1>6

(* The algorithm runs, the job ends: only the job changes, on its worker.         *)
LEMMA JobOnlyTypes ==
  ASSUME TypeInv, NEW s \in Slots, UNCHANGED <<file, ctx, asked, loader, worker, seen>>,
         job[s].pc \in {"converted", "ran"},
         NEW x, job' = [job EXCEPT ![s] = x],
         x.pc \in {"failed", "done"} \/ (x.pc = "ran" /\ x.worker = job[s].worker)
  PROVE  /\ TypeInv'
         /\ job'[s] = x /\ \A t \in Slots \ {s} : job'[t] = job[t]
<1> USE DEF TypeInv
<1>1. /\ JobTypes' /\ OneJob' /\ OneQuestion'
      /\ job'[s] = x /\ \A t \in Slots \ {s} : job'[t] = job[t]
  <2>1. job[s].pc # "waiting" /\ job[s].pc \in Busy
    BY DEF Busy
  <2>2. x.pc \notin {"waiting", "accepted", "reading"} /\ (x.pc \in Busy => x.worker = job[s].worker)
    BY DEF Busy
  <2> QED BY <2>1, <2>2, JobMoves
<1>2. AskedTypes'
  BY <1>1, SameQuestion
<1>3. FileTypes' /\ CtxTypes' /\ CacheTypes'
  BY DEF FileTypes, CtxTypes, CacheTypes, Projects
<1> QED BY <1>1, <1>2, <1>3

(* What RunAlgorithm and Finish do.                                               *)
LEMMA RanOrOver ==
  ASSUME NEW s \in Slots, RunAlgorithm(s) \/ \E written \in BOOLEAN : Finish(s, written)
  PROVE  /\ UNCHANGED <<file, ctx, asked, loader, worker, seen>>
         /\ job[s].pc \in {"converted", "ran"}
         /\ \E x : /\ job' = [job EXCEPT ![s] = x]
                   /\ x.pc \in {"failed", "done"} \/ (x.pc = "ran" /\ x.worker = job[s].worker)
<1>1. ASSUME Fails(s)
      PROVE  \E x : job' = [job EXCEPT ![s] = x] /\ x.pc \in {"failed", "done"}
  <2> DEFINE x == [pc |-> "failed"]
  <2>1. job' = [job EXCEPT ![s] = x] /\ x.pc = "failed"
    BY <1>1 DEF Fails
  <2> HIDE DEF x
  <2> QED BY <2>1
<1>2. CASE RunAlgorithm(s)
  <2>1. UNCHANGED <<file, ctx, asked, loader, worker, seen>> /\ job[s].pc = "converted"
    BY <1>2 DEF RunAlgorithm
  <2>2. ASSUME ~Fails(s)
        PROVE  \E x : job' = [job EXCEPT ![s] = x] /\ x.pc = "ran" /\ x.worker = job[s].worker
    <3>1. PICK load \in [LayerNames(s) -> LoadOutcomes] :
            job' = [job EXCEPT ![s] = [pc |-> "ran", req |-> @.req, vers |-> @.vers, worker |-> @.worker,
                      values |-> @.values, load |-> load]]
      BY <1>2, <2>2 DEF RunAlgorithm
    <3> DEFINE x == [pc |-> "ran", req |-> job[s].req, vers |-> job[s].vers, worker |-> job[s].worker,
                     values |-> job[s].values, load |-> load]
    <3>2. job' = [job EXCEPT ![s] = x]
      BY <3>1
    <3>3. x.pc = "ran" /\ x.worker = job[s].worker
      OBVIOUS
    <3> HIDE DEF x
    <3> QED BY <3>2, <3>3
  <2> QED BY <1>1, <2>1, <2>2
<1>3. ASSUME NEW written \in BOOLEAN, Finish(s, written)
      PROVE  /\ UNCHANGED <<file, ctx, asked, loader, worker, seen>> /\ job[s].pc = "ran"
             /\ \E x : job' = [job EXCEPT ![s] = x] /\ x.pc \in {"failed", "done"}
  <2>1. UNCHANGED <<file, ctx, asked, loader, worker, seen>> /\ job[s].pc = "ran"
    BY <1>3 DEF Finish
  <2>2. ASSUME ~Fails(s)
        PROVE  \E x : job' = [job EXCEPT ![s] = x] /\ x.pc = "done"
    <3> DEFINE x == [pc |-> "done", req |-> job[s].req, vers |-> job[s].vers, values |-> job[s].values,
                     load |-> job[s].load,
                     document |-> OutputDocument(AlgOf(s), job[s].values, job[s].load),
                     published |-> PublishedLayers(AlgOf(s), job[s].values, job[s].load)]
    <3>1. job' = [job EXCEPT ![s] = x]
      BY <1>3, <2>2 DEF Finish
    <3>2. x.pc = "done"
      OBVIOUS
    <3> HIDE DEF x
    <3> QED BY <3>1, <3>2
  <2> QED BY <1>1, <2>1, <2>2
<1> QED BY <1>2, <1>3

LEMMA RunTypes ==
  ASSUME TypeInv, NEW s \in Slots, RunAlgorithm(s) \/ \E written \in BOOLEAN : Finish(s, written)
  PROVE  TypeInv'
BY RanOrOver, JobOnlyTypes

LEMMA TypesStep == TypeInv /\ [Next]_vars => TypeInv'
<1> SUFFICES ASSUME TypeInv, [Next]_vars PROVE TypeInv'
  OBVIOUS
<1>1. ASSUME NEW p \in Places, Vanish(p) \/ \E v \in Revisions[file[p].ver], t \in 1 .. MaxTime : Save(p, v, t)
      PROVE  TypeInv'
  BY <1>1, FileSteps
<1>2. ASSUME NEW s \in Slots, NEW r \in Requests, Receive(s, r)
      PROVE  TypeInv'
  BY <1>2, ReceiveTypes
<1>3. CASE LoaderStats
  BY <1>3, LoaderStatsTypes
<1>4. CASE LoaderReads
  BY <1>4, LoaderReadsTypes
<1>5. CASE LoaderAnswers
  BY <1>5, LoaderAnswersTypes
<1>6. ASSUME NEW ok \in BOOLEAN, Reload(ok)
      PROVE  TypeInv'
  BY <1>6, ReloadTypes
<1>7. ASSUME NEW w \in Workers, WorkerRestarts(w)
      PROVE  TypeInv'
  BY <1>7, WorkerRestartsTypes
<1>8. ASSUME NEW w \in Workers, NEW s \in Slots, StartJob(s, w)
      PROVE  TypeInv'
  BY <1>8, StartJobTypes
<1>9. ASSUME NEW s \in Slots, ReadProject(s)
      PROVE  TypeInv'
  BY <1>9, ReadProjectTypes
<1>10. ASSUME NEW s \in Slots, ConvertInputs(s)
       PROVE  TypeInv'
  BY <1>10, ConvertInputsTypes
<1>11. ASSUME NEW s \in Slots, RunAlgorithm(s) \/ \E written \in BOOLEAN : Finish(s, written)
       PROVE  TypeInv'
  BY <1>11, RunTypes
<1>12. ASSUME NEW s \in Slots, Close(s)
       PROVE  TypeInv'
  BY <1>12, CloseTypes
<1>13. CASE UNCHANGED vars
  BY <1>13 DEF vars, TypeInv, FileTypes, CtxTypes, CacheTypes, Projects, AskedTypes, JobTypes, GoodJob,
               PlaceOf, OneQuestion, OneJob
<1> QED BY <1>1, <1>2, <1>3, <1>4, <1>5, <1>6, <1>7, <1>8, <1>9, <1>10, <1>11, <1>12, <1>13 DEF Next

LEMMA TypesHold == Spec => []TypeInv
BY TypesInit, TypesStep, PTL DEF Spec

(* The caches of the server, of the loader and of the workers keep their size and *)
(* one project or description for each key; the server waits for one answer at     *)
(* most, and a worker runs one job at most.                                        *)
THEOREM TypeCorrect == Spec => []TypeOK
<1>1. TypeInv => TypeOK
  BY DEF TypeInv, CtxTypes, CacheTypes, Projects, OneQuestion, OneJob, TypeOK
<1> QED BY <1>1, TypesHold, PTL

-----------------------------------------------------------------------------
(* The version of the project that a job runs with *)

(* A time that a process keeps with a project is not above the highest that the   *)
(* file had. When the time of the file tells its content from the ones before, a   *)
(* project kept with that time or a later one has that content, unless it is the   *)
(* empty one.                                                                      *)
KeptEntry(e) ==
  LET p == ResolveAlias(e.key) IN
  p \in Places => /\ e.ts <= seen[p].peak
                  /\ seen[p].fresh /\ e.ts >= file[p].mtime => e.ver = 0 \/ e.ver >= file[p].ver
KeptTimes == \A w \in Workers : \A e \in ToSet(worker[w]) : KeptEntry(e)
FileTimes == \A p \in Places : file[p].mtime <= seen[p].peak

(* A job that looked at the time of its file will get what is there, or later.     *)
GoodVersion(j) ==
  /\ j.pc = "reading" =>
       LET p == PlaceOf(j.req) IN
       j.stat.mtime <= seen[p].peak /\ j.floor \in Nat /\ j.floor <= file[p].ver
  /\ j.pc = "ready" =>
       j.ver \in {None, 0} \/ (j.ver \in Nat /\ j.floor \in Nat /\ j.ver >= j.floor)
JobVersions == \A s \in Slots : GoodVersion(job[s])

VersionInv == KeptTimes /\ FileTimes /\ JobVersions

LEMMA StateNumbers ==
  ASSUME FileTypes, NEW p \in Places
  PROVE  file[p].ver \in Nat /\ file[p].mtime \in Nat /\ seen[p].peak \in Nat /\ seen[p].fresh \in BOOLEAN
         /\ file[p].ver \in DOMAIN Revisions
<1>1. file[p] \in FileState /\ seen[p] \in [peak : Nat, fresh : BOOLEAN]
  BY DEF FileTypes
<1> QED BY <1>1, VersionsAssumption, RevisionsAssumption DEF FileState

LEMMA EntryNumbers ==
  ASSUME NEW e, Project(e)
  PROVE  e.ver \in Nat /\ e.ts \in Nat
BY VersionsAssumption DEF Project

LEMMA VersionInit == Init => VersionInv
<1> SUFFICES ASSUME Init PROVE VersionInv
  OBVIOUS
<1> USE DEF Init
<1>1. KeptTimes
  BY DEF KeptTimes, ToSet
<1>2. FileTimes
  <2>1. FileTypes
    BY TypesInit DEF TypeInv
  <2>2. \A p \in Places : file[p].mtime = seen[p].peak
    BY DEF Places
  <2> QED BY <2>1, <2>2, StateNumbers DEF FileTimes
<1>3. JobVersions
  BY DEF JobVersions, GoodVersion, Idle
<1> QED BY <1>1, <1>2, <1>3 DEF VersionInv

(* A file that is saved with a time above every other makes all that is kept of   *)
(* it old; one that is saved with another time does not tell its content.          *)
LEMMA SaveVersion ==
  ASSUME TypeInv, VersionInv, NEW p \in Places, NEW v \in Revisions[file[p].ver], NEW t \in 1 .. MaxTime,
         Save(p, v, t)
  PROVE  VersionInv'
<1>1. FileTypes /\ CacheTypes /\ JobTypes /\ FileTypes'
  <2>1. TypeInv'
    BY FileSteps
  <2> QED BY <2>1 DEF TypeInv
<1>2. t \in Nat /\ v > file[p].ver /\ v \in Nat
  BY <1>1, FilesAssumption, RevisionsAssumption, VersionsAssumption, StateNumbers
<1>3. UNCHANGED <<worker, job>>
  BY DEF Save
<1>4. /\ file'[p].ver = v /\ file'[p].mtime = t
      /\ \A q \in Places \ {p} : file'[q] = file[q]
  BY <1>1 DEF Save, FileTypes
<1>5. /\ seen'[p].peak = IF t > seen[p].peak THEN t ELSE seen[p].peak
      /\ seen'[p].fresh <=> t > seen[p].peak
      /\ \A q \in Places \ {p} : seen'[q] = seen[q]
  <2>1. seen[p] \in [peak : Nat, fresh : BOOLEAN]
    BY <1>1 DEF FileTypes
  <2>2. (t > seen[p].peak) \in BOOLEAN
    OBVIOUS
  <2> QED BY <1>1, <2>1, <2>2 DEF Save, FileTypes
<1>6. \A q \in Places : seen'[q].peak >= seen[q].peak /\ file'[q].ver >= file[q].ver
  <2> SUFFICES ASSUME NEW q \in Places
               PROVE  seen'[q].peak >= seen[q].peak /\ file'[q].ver >= file[q].ver
    OBVIOUS
  <2>1. file[q].ver \in Nat /\ seen[q].peak \in Nat
    BY <1>1, StateNumbers
  <2> QED BY <1>2, <1>4, <1>5, <2>1
<1>7. \A q \in Places : seen'[q].peak \in Nat /\ file'[q].ver \in Nat
  <2> SUFFICES ASSUME NEW q \in Places PROVE seen'[q].peak \in Nat /\ file'[q].ver \in Nat
    OBVIOUS
  <2>1. file[q].ver \in Nat /\ seen[q].peak \in Nat
    BY <1>1, StateNumbers
  <2> QED BY <1>2, <1>4, <1>5, <2>1
<1>8. KeptTimes'
  <2> SUFFICES ASSUME NEW w \in Workers, NEW e \in ToSet(worker[w]) PROVE KeptEntry(e)'
    BY <1>3 DEF KeptTimes
  <2>1. KeptEntry(e) /\ e.ts \in Nat /\ e.ver \in Nat
    BY <1>1, EntryNumbers DEF VersionInv, KeptTimes, CacheTypes, Projects
  <2> DEFINE q == ResolveAlias(e.key)
  <2>2. CASE q \notin Places
    BY <2>2 DEF KeptEntry
  <2>3. CASE q \in Places
    <3>1. e.ts <= seen[q].peak /\ seen[q].peak \in Nat
      BY <1>1, <2>1, <2>3, StateNumbers DEF KeptEntry
    <3>2. e.ts <= seen'[q].peak
      BY <1>6, <1>7, <2>1, <2>3, <3>1
    <3>3. ASSUME seen'[q].fresh, e.ts >= file'[q].mtime
          PROVE  e.ver = 0 \/ e.ver >= file'[q].ver
      <4>1. CASE q = p
        <5>1. t > seen[p].peak /\ e.ts >= t
          BY <1>4, <1>5, <3>3, <4>1
        <5> QED BY <1>2, <2>1, <3>1, <4>1, <5>1
      <4>2. CASE q # p
        <5>1. seen'[q] = seen[q] /\ file'[q] = file[q]
          BY <1>4, <1>5, <2>3, <4>2
        <5> QED BY <2>1, <2>3, <3>3, <5>1 DEF KeptEntry
      <4> QED BY <4>1, <4>2
    <3> QED BY <3>2, <3>3 DEF KeptEntry
  <2> QED BY <2>2, <2>3
<1>9. FileTimes'
  <2> SUFFICES ASSUME NEW q \in Places PROVE file'[q].mtime <= seen'[q].peak
    BY DEF FileTimes
  <2>1. seen[q].peak \in Nat /\ seen[p].peak \in Nat /\ file[q].mtime <= seen[q].peak
    BY <1>1, StateNumbers DEF VersionInv, FileTimes
  <2> QED BY <1>2, <1>4, <1>5, <2>1
<1>10. JobVersions'
  <2> SUFFICES ASSUME NEW s \in Slots PROVE GoodVersion(job[s])'
    BY <1>3 DEF JobVersions
  <2>1. GoodVersion(job[s]) /\ GoodJob(job[s])
    BY <1>1 DEF VersionInv, JobVersions, JobTypes
  <2>2. CASE job[s].pc = "reading"
    <3> DEFINE q == PlaceOf(job[s].req)
    <3>1. q \in Places /\ job[s].stat.mtime \in Nat
      BY <2>1, <2>2 DEF GoodJob, FileState
    <3>2. job[s].stat.mtime <= seen[q].peak /\ job[s].floor \in Nat /\ job[s].floor <= file[q].ver
      BY <2>1, <2>2 DEF GoodVersion
    <3>3. seen[q].peak \in Nat /\ file[q].ver \in Nat /\ seen'[q].peak \in Nat /\ file'[q].ver \in Nat
      BY <1>1, <1>7, <3>1, StateNumbers
    <3>4. job[s].stat.mtime <= seen'[q].peak /\ job[s].floor <= file'[q].ver
      BY <1>6, <3>1, <3>2, <3>3
    <3> QED BY <1>3, <2>2, <3>2, <3>4 DEF GoodVersion, PlaceOf
  <2>3. CASE job[s].pc # "reading"
    BY <1>3, <2>1, <2>3 DEF GoodVersion
  <2> QED BY <2>2, <2>3
<1> QED BY <1>8, <1>9, <1>10 DEF VersionInv

LEMMA VanishVersion ==
  ASSUME TypeInv, VersionInv, NEW p \in Places, Vanish(p)
  PROVE  VersionInv'
<1>1. \A q \in Places : file'[q].ver = file[q].ver /\ file'[q].mtime = file[q].mtime
  <2> SUFFICES ASSUME NEW q \in Places PROVE file'[q].ver = file[q].ver /\ file'[q].mtime = file[q].mtime
    OBVIOUS
  <2>1. file[p] \in FileState /\ file' = [file EXCEPT ![p] = [file[p] EXCEPT !.exists = FALSE]]
    BY DEF Vanish, TypeInv, FileTypes
  <2>2. [file[p] EXCEPT !.exists = FALSE].ver = file[p].ver /\ [file[p] EXCEPT !.exists = FALSE].mtime = file[p].mtime
    BY <2>1 DEF FileState
  <2> QED BY <2>1, <2>2 DEF TypeInv, FileTypes
<1>2. UNCHANGED <<seen, worker, job>>
  BY DEF Vanish
<1>3. KeptTimes'
  BY <1>1, <1>2 DEF VersionInv, KeptTimes, KeptEntry
<1>4. FileTimes'
  BY <1>1, <1>2 DEF VersionInv, FileTimes
<1>5. JobVersions'
  <2>1. \A s \in Slots : job[s].pc = "reading" => PlaceOf(job[s].req) \in Places
    BY DEF TypeInv, JobTypes, GoodJob
  <2> QED BY <1>1, <1>2, <2>1 DEF VersionInv, JobVersions, GoodVersion, PlaceOf
<1> QED BY <1>3, <1>4, <1>5 DEF VersionInv

(* The files as they are: what is kept stays good, and so do the jobs that stay.   *)
LEMMA SameFiles ==
  ASSUME VersionInv, UNCHANGED <<file, seen>>,
         \A w \in Workers : \A x \in ToSet(worker'[w]) :
           KeptEntry(x) \/ \E e \in ToSet(worker[w]) : x.key = e.key /\ x.ver = e.ver /\ x.ts = e.ts,
         \A s \in Slots : job'[s] = job[s] \/ GoodVersion(job'[s])
  PROVE  VersionInv'
<1>1. KeptTimes'
  <2> SUFFICES ASSUME NEW w \in Workers, NEW x \in ToSet(worker'[w]) PROVE KeptEntry(x)'
    BY DEF KeptTimes
  <2>1. KeptEntry(x)
    <3>1. ASSUME NEW e \in ToSet(worker[w]), x.key = e.key, x.ver = e.ver, x.ts = e.ts
          PROVE  KeptEntry(x)
      <4>1. KeptEntry(e)
        BY DEF VersionInv, KeptTimes
      <4> QED BY <3>1, <4>1 DEF KeptEntry
    <3> QED BY <3>1
  <2> QED BY <2>1 DEF KeptEntry
<1>2. FileTimes'
  BY DEF VersionInv, FileTimes
<1>3. JobVersions'
  <2> SUFFICES ASSUME NEW s \in Slots PROVE GoodVersion(job[s])'
    BY DEF JobVersions
  <2>1. GoodVersion(job'[s])
    <3>1. GoodVersion(job[s])
      BY DEF VersionInv, JobVersions
    <3> QED BY <3>1
  <2> PICK j : j = job'[s]
    OBVIOUS
  <2> QED BY <2>1 DEF GoodVersion, PlaceOf
<1> QED BY <1>1, <1>2, <1>3 DEF VersionInv

(* One job changes, to one that reads no project.                                 *)
LEMMA JobChangeVersion ==
  ASSUME TypeInv, VersionInv, UNCHANGED <<file, seen>>,
         \A w \in Workers : \A x \in ToSet(worker'[w]) :
           KeptEntry(x) \/ \E e \in ToSet(worker[w]) : x.key = e.key /\ x.ver = e.ver /\ x.ts = e.ts,
         NEW s, NEW x, job' = [job EXCEPT ![s] = x], GoodVersion(x)
  PROVE  VersionInv'
<1>1. \A t \in Slots : job'[t] = IF t = s THEN x ELSE job[t]
  BY DEF TypeInv, JobTypes
<1>2. \A t \in Slots : job'[t] = job[t] \/ GoodVersion(job'[t])
  <2> SUFFICES ASSUME NEW t \in Slots PROVE job'[t] = job[t] \/ GoodVersion(job'[t])
    OBVIOUS
  <2> QED BY <1>1
<1> QED BY <1>2, SameFiles

(* The steps of the server and of the loader.                                     *)
LEMMA ServerVersion ==
  ASSUME TypeInv, VersionInv,
         \/ \E s \in Slots, r \in Requests : Receive(s, r)
         \/ LoaderStats \/ LoaderReads \/ LoaderAnswers
         \/ \E ok \in BOOLEAN : Reload(ok)
         \/ \E s \in Slots : Close(s)
  PROVE  VersionInv'
<1>1. UNCHANGED <<file, seen, worker>>
  BY DEF Receive, LoaderStats, LoaderReads, LoaderAnswers, Reload, Close
<1>2. ASSUME NEW x, x.pc \in {"refused", "described", "crashed", "accepted", "waiting", "idle"}
      PROVE  GoodVersion(x)
  BY <1>2 DEF GoodVersion
<1>3. ASSUME NEW s, NEW x, job' = [job EXCEPT ![s] = x],
             x.pc \in {"refused", "described", "crashed", "accepted", "waiting", "idle"}
      PROVE  VersionInv'
  <2>1. \A w \in Workers : \A y \in ToSet(worker'[w]) :
          KeptEntry(y) \/ \E e \in ToSet(worker[w]) : y.key = e.key /\ y.ver = e.ver /\ y.ts = e.ts
    BY <1>1
  <2>2. GoodVersion(x)
    BY <1>2, <1>3
  <2>3. UNCHANGED <<file, seen>>
    BY <1>1
  <2> QED BY <1>3, <2>1, <2>2, <2>3, JobChangeVersion, Zenon
<1>4. ASSUME UNCHANGED job
      PROVE  VersionInv'
  <2>1. \A w \in Workers : \A x \in ToSet(worker'[w]) :
          KeptEntry(x) \/ \E e \in ToSet(worker[w]) : x.key = e.key /\ x.ver = e.ver /\ x.ts = e.ts
    BY <1>1
  <2>2. \A s \in Slots : job'[s] = job[s] \/ GoodVersion(job'[s])
    BY <1>4
  <2>3. UNCHANGED <<file, seen>>
    BY <1>1
  <2> QED BY <2>1, <2>2, <2>3, SameFiles, Zenon
<1>5. ASSUME NEW s, NEW r, NEW found, job' = [job EXCEPT ![s] = Answered(r, found)]
      PROVE  VersionInv'
  <2>1. PICK x : x = Answered(r, found)
    OBVIOUS
  <2> QED BY <1>3, <1>5, <2>1, AnswerOf
<1>6. ASSUME NEW s \in Slots, NEW r \in Requests, Receive(s, r)
      PROVE  VersionInv'
  <2>1. CASE job' = [job EXCEPT ![s] = [pc |-> "refused"]]
    BY <1>3, <2>1
  <2>2. CASE \E found : job' = [job EXCEPT ![s] = Answered(r, found)]
    BY <1>5, <2>2
  <2>3. CASE job' = [job EXCEPT ![s] = [pc |-> "waiting", req |-> r]]
    BY <1>3, <2>3
  <2> QED BY <1>6, <2>1, <2>2, <2>3, Received
<1>7. CASE LoaderGivesUp
  <2> DEFINE x == [pc |-> IF job[asked.slot].req.kind = "describe" THEN "described" ELSE "crashed"]
  <2>1. job' = [job EXCEPT ![asked.slot] = x]
    BY <1>7 DEF LoaderGivesUp
  <2>2. x.pc \in {"described", "crashed"}
    OBVIOUS
  <2> HIDE DEF x
  <2> QED BY <1>3, <2>1, <2>2
<1>8. CASE LoaderStats
  <2>1. LoaderGivesUp \/ UNCHANGED job
    BY <1>8 DEF LoaderStats
  <2> QED BY <1>4, <1>7, <2>1
<1>9. CASE LoaderReads
  <2>1. LoaderGivesUp \/ UNCHANGED job
    BY <1>9 DEF LoaderReads
  <2> QED BY <1>4, <1>7, <2>1
<1>10. CASE LoaderAnswers
  <2>1. PICK s, found, r : s = asked.slot /\ found = asked.found /\ r = job[s].req
    OBVIOUS
  <2>2. job' = [job EXCEPT ![s] = Answered(r, found)]
    BY <1>10, <2>1 DEF LoaderAnswers
  <2> QED BY <1>5, <2>2
<1>11. ASSUME NEW ok, Reload(ok)
       PROVE  VersionInv'
  BY <1>4, <1>11 DEF Reload
<1>12. ASSUME NEW s \in Slots, Close(s)
       PROVE  VersionInv'
  <2>1. job' = [job EXCEPT ![s] = Idle] /\ Idle.pc = "idle"
    BY <1>12 DEF Close, Idle
  <2> QED BY <1>3, <2>1
<1> QED BY <1>6, <1>8, <1>9, <1>10, <1>11, <1>12

(* What a worker keeps after a step on its cache.                                 *)
LEMMA KeptAfter ==
  ASSUME CacheTypes, KeptTimes, NEW w \in Workers, NEW c, worker' = [worker EXCEPT ![w] = c],
         \A x \in ToSet(c) : KeptEntry(x) \/ \E e \in ToSet(worker[w]) : x.key = e.key /\ x.ver = e.ver /\ x.ts = e.ts
  PROVE  \A v \in Workers : \A x \in ToSet(worker'[v]) :
           KeptEntry(x) \/ \E e \in ToSet(worker[v]) : x.key = e.key /\ x.ver = e.ver /\ x.ts = e.ts
<1> SUFFICES ASSUME NEW v \in Workers, NEW x \in ToSet(worker'[v])
             PROVE  KeptEntry(x) \/ \E e \in ToSet(worker[v]) : x.key = e.key /\ x.ver = e.ver /\ x.ts = e.ts
  OBVIOUS
<1>1. worker' = [u \in Workers |-> IF u = w THEN c ELSE worker[u]]
  BY DEF CacheTypes
<1>2. CASE v = w
  <2>1. worker'[v] = c
    BY <1>1, <1>2
  <2> QED BY <1>2, <2>1
<1>3. CASE v # w
  <2>1. worker'[v] = worker[v]
    BY <1>1, <1>3
  <2> QED BY <2>1 DEF KeptTimes
<1> QED BY <1>2, <1>3

(* The project that a job starts with is that of the file or a later one, if the   *)
(* time of the file tells; a job that reads it first remembers what it saw.         *)
LEMMA StartJobVersion ==
  ASSUME TypeInv, VersionInv, NEW s \in Slots, NEW w \in Workers, StartJob(s, w)
  PROVE  VersionInv'
<1> DEFINE r == job[s].req
           p == PlaceOf(r)
<1>1. UNCHANGED <<file, seen>> /\ CacheTypes /\ FileTypes /\ KeptTimes /\ FileTimes
  BY Started DEF VersionInv, TypeInv
<1>2. PICK x :
        /\ job' = [job EXCEPT ![s] = x]
        /\ \/ UNCHANGED worker /\ x.pc = "failed"
           \/ UNCHANGED worker /\ x.pc = "ready" /\ x.worker = w /\ x.ver = None
           \/ /\ UNCHANGED worker
              /\ p \in Places /\ file[p] \in FileState
              /\ x.pc = "reading" /\ x.req = r /\ x.worker = w /\ x.stat = file[p] /\ x.floor = FloorOf(r)
           \/ \E e \in ToSet(worker[w]) :
                /\ p \in Places /\ file[p] \in FileState
                /\ Project(e) /\ e.key = Key(r) /\ ~(e.ts < file[p].mtime)
                /\ worker' = [worker EXCEPT ![w] = Put(worker[w], e, Capacity)]
                /\ x.pc = "ready" /\ x.worker = w /\ x.ver = e.ver /\ x.floor = FloorOf(r)
  BY Started
<1>3. ASSUME p \in Places
      PROVE  FloorOf(r) \in Nat /\ FloorOf(r) <= file[p].ver /\ file[p].ver \in Nat
             /\ (~seen[p].fresh => FloorOf(r) = 0) /\ (seen[p].fresh => FloorOf(r) = file[p].ver)
  <2>1. file[p].ver \in Nat /\ seen[p].fresh \in BOOLEAN
    BY <1>1, <1>3, StateNumbers
  <2> QED BY <2>1 DEF FloorOf
<1>4. CASE UNCHANGED worker /\ x.pc = "failed"
  <2>1. GoodVersion(x)
    BY <1>4 DEF GoodVersion
  <2> QED BY <1>1, <1>2, <1>4, <2>1, JobChangeVersion
<1>5. CASE UNCHANGED worker /\ x.pc = "ready" /\ x.ver = None
  <2>1. GoodVersion(x)
    BY <1>5 DEF GoodVersion
  <2> QED BY <1>1, <1>2, <1>5, <2>1, JobChangeVersion
<1>6. CASE /\ UNCHANGED worker
           /\ p \in Places /\ file[p] \in FileState
           /\ x.pc = "reading" /\ x.req = r /\ x.stat = file[p] /\ x.floor = FloorOf(r)
  <2>1. file[p].mtime <= seen[p].peak
    BY <1>1, <1>6 DEF FileTimes
  <2>2. GoodVersion(x)
    BY <1>3, <1>6, <2>1 DEF GoodVersion
  <2> QED BY <1>1, <1>2, <1>6, <2>2, JobChangeVersion
<1>7. ASSUME NEW e \in ToSet(worker[w]),
             p \in Places, Project(e), e.key = Key(r), ~(e.ts < file[p].mtime),
             worker' = [worker EXCEPT ![w] = Put(worker[w], e, Capacity)],
             x.pc = "ready", x.ver = e.ver, x.floor = FloorOf(r)
      PROVE  VersionInv'
  <2>1. e.ver \in Nat /\ e.ts \in Nat /\ file[p].mtime \in Nat
    BY <1>1, <1>7, EntryNumbers, StateNumbers
  <2>2. seen[p].fresh => e.ver = 0 \/ e.ver >= file[p].ver
    <3>1. KeptEntry(e) /\ ResolveAlias(e.key) = p
      BY <1>1, <1>7 DEF KeptTimes, Key, PlaceOf
    <3>2. e.ts >= file[p].mtime
      BY <1>7, <2>1
    <3> QED BY <1>7, <3>1, <3>2 DEF KeptEntry
  <2>3. e.ver \in {None, 0} \/ e.ver >= FloorOf(r)
    BY <1>3, <1>7, <2>1, <2>2
  <2>4. GoodVersion(x)
    BY <1>3, <1>7, <2>1, <2>3 DEF GoodVersion
  <2>5. PICK c : c = Put(worker[w], e, Capacity)
    OBVIOUS
  <2>6. ToSet(c) \subseteq ToSet(worker[w]) \cup {e}
    BY <1>1, <1>7, <2>5, PutProject DEF CacheTypes
  <2>7. \A v \in Workers : \A y \in ToSet(worker'[v]) :
          KeptEntry(y) \/ \E d \in ToSet(worker[v]) : y.key = d.key /\ y.ver = d.ver /\ y.ts = d.ts
    <3>1. \A y \in ToSet(c) : KeptEntry(y)
      BY <1>1, <2>6 DEF KeptTimes
    <3> QED BY <1>1, <1>7, <2>5, <3>1, KeptAfter
  <2> QED BY <1>1, <1>2, <2>4, <2>7, JobChangeVersion
<1> QED BY <1>2, <1>4, <1>5, <1>6, <1>7

(* What is read is not older than what the file had when its time was asked.       *)
LEMMA ReadProjectVersion ==
  ASSUME TypeInv, VersionInv, NEW s \in Slots, ReadProject(s)
  PROVE  VersionInv'
<1> DEFINE r == job[s].req
           w == job[s].worker
           p == PlaceOf(r)
           f == file[p]
<1>1. /\ job[s].pc = "reading" /\ w \in Workers /\ p \in Places /\ f \in FileState
      /\ UNCHANGED <<file, seen>> /\ CacheTypes /\ FileTypes /\ KeptTimes
  BY ReadDone DEF VersionInv, TypeInv
<1>2. PICK x :
        /\ job' = [job EXCEPT ![s] = x]
        /\ \/ UNCHANGED worker /\ x.pc = "failed"
           \/ \E e :
                /\ Project(e) /\ e.key = Key(r) /\ e.ts = job[s].stat.mtime
                /\ e.ver = IF f.exists THEN f.ver ELSE 0
                /\ worker' = [worker EXCEPT ![w] = Put(worker[w], e, Capacity)]
                /\ x.pc = "ready" /\ x.worker = w /\ x.ver = e.ver /\ x.floor = job[s].floor
  BY ReadDone
<1>3. job[s].stat.mtime <= seen[p].peak /\ job[s].floor \in Nat /\ job[s].floor <= f.ver /\ f.ver \in Nat
  BY <1>1, StateNumbers DEF VersionInv, JobVersions, GoodVersion
<1>4. CASE UNCHANGED worker /\ x.pc = "failed"
  <2>1. GoodVersion(x)
    BY <1>4 DEF GoodVersion
  <2> QED BY <1>1, <1>2, <1>4, <2>1, JobChangeVersion
<1>5. ASSUME NEW e, Project(e), e.key = Key(r), e.ts = job[s].stat.mtime,
             e.ver = IF f.exists THEN f.ver ELSE 0,
             worker' = [worker EXCEPT ![w] = Put(worker[w], e, Capacity)],
             x.pc = "ready", x.ver = e.ver, x.floor = job[s].floor
      PROVE  VersionInv'
  <2>1. e.ver = 0 \/ e.ver = f.ver
    BY <1>1, <1>5 DEF FileState
  <2>2. GoodVersion(x)
    BY <1>3, <1>5, <2>1 DEF GoodVersion
  <2>3. KeptEntry(e)
    <3>1. ResolveAlias(e.key) = p
      BY <1>5 DEF Key, PlaceOf
    <3>2. e.ver = 0 \/ e.ver >= file[p].ver
      BY <1>3, <2>1
    <3> QED BY <1>3, <1>5, <3>1, <3>2 DEF KeptEntry
  <2>4. PICK c : c = Put(worker[w], e, Capacity)
    OBVIOUS
  <2>5. ToSet(c) \subseteq ToSet(worker[w]) \cup {e}
    BY <1>1, <1>5, <2>4, PutProject DEF CacheTypes
  <2>6. \A v \in Workers : \A y \in ToSet(worker'[v]) :
          KeptEntry(y) \/ \E d \in ToSet(worker[v]) : y.key = d.key /\ y.ver = d.ver /\ y.ts = d.ts
    <3>1. \A y \in ToSet(c) : KeptEntry(y)
      BY <1>1, <2>3, <2>5 DEF KeptTimes
    <3> HIDE DEF w
    <3> QED BY <1>1, <1>5, <2>4, <3>1, KeptAfter
  <2> QED BY <1>1, <1>2, <2>2, <2>6, JobChangeVersion
<1> QED BY <1>2, <1>4, <1>5

LEMMA ConvertInputsVersion ==
  ASSUME TypeInv, VersionInv, NEW s \in Slots, ConvertInputs(s)
  PROVE  VersionInv'
<1> DEFINE w == job[s].worker
<1>1. w \in Workers /\ UNCHANGED <<file, seen>> /\ CacheTypes /\ KeptTimes
  BY ConvertDone DEF VersionInv, TypeInv
<1>2. PICK x : job' = [job EXCEPT ![s] = x] /\ (x.pc = "failed" \/ (x.pc = "converted" /\ x.worker = w))
  BY ConvertDone
<1>3. GoodVersion(x)
  BY <1>2 DEF GoodVersion
<1>4. CASE UNCHANGED worker
  BY <1>1, <1>2, <1>3, <1>4, JobChangeVersion
<1>5. ASSUME NEW sel, worker' = [worker EXCEPT ![w] = [worker[w] EXCEPT ![Len(worker[w])].sel = sel]]
      PROVE  VersionInv'
  <2>1. PICK old : old = worker[w] /\ Projects(old)
    BY <1>1 DEF CacheTypes
  <2>2. PICK c : c = [old EXCEPT ![Len(old)].sel = sel]
    OBVIOUS
  <2>3. \A y \in ToSet(c) : \E e \in ToSet(old) : y.key = e.key /\ y.ver = e.ver /\ y.ts = e.ts
    <3>1. c = Selected(old, sel)
      BY <2>2 DEF Selected
    <3> QED BY <2>1, <3>1, SelectedProject
  <2>4. worker' = [worker EXCEPT ![w] = c]
    BY <1>5, <2>1, <2>2
  <2>5. \A v \in Workers : \A y \in ToSet(worker'[v]) :
          KeptEntry(y) \/ \E d \in ToSet(worker[v]) : y.key = d.key /\ y.ver = d.ver /\ y.ts = d.ts
    <3> HIDE DEF w
    <3> QED BY <1>1, <2>1, <2>3, <2>4, KeptAfter
  <2> QED BY <1>1, <1>2, <1>3, <2>5, JobChangeVersion
<1> QED BY <1>4, <1>5, ConvertDone

LEMMA VersionStep == TypeInv /\ VersionInv /\ [Next]_vars => VersionInv'
<1> SUFFICES ASSUME TypeInv, VersionInv, [Next]_vars PROVE VersionInv'
  OBVIOUS
<1>1. ASSUME NEW p \in Places, Vanish(p) \/ \E v \in Revisions[file[p].ver], t \in 1 .. MaxTime : Save(p, v, t)
      PROVE  VersionInv'
  BY <1>1, VanishVersion, SaveVersion
<1>2. CASE \/ \E s \in Slots, r \in Requests : Receive(s, r)
           \/ LoaderStats \/ LoaderReads \/ LoaderAnswers
           \/ \E ok \in BOOLEAN : Reload(ok)
           \/ \E s \in Slots : Close(s)
  BY <1>2, ServerVersion
<1>3. ASSUME NEW w \in Workers, WorkerRestarts(w)
      PROVE  VersionInv'
  <2>1. worker' = [worker EXCEPT ![w] = << >>] /\ UNCHANGED <<file, seen, job>> /\ ToSet(<< >>) = {}
    BY <1>3 DEF WorkerRestarts, ToSet
  <2>2. \A v \in Workers : \A y \in ToSet(worker'[v]) :
          KeptEntry(y) \/ \E d \in ToSet(worker[v]) : y.key = d.key /\ y.ver = d.ver /\ y.ts = d.ts
    BY <2>1, KeptAfter DEF TypeInv, VersionInv
  <2> QED BY <2>1, <2>2, SameFiles
<1>4. ASSUME NEW w \in Workers, NEW s \in Slots, StartJob(s, w)
      PROVE  VersionInv'
  BY <1>4, StartJobVersion
<1>5. ASSUME NEW s \in Slots, ReadProject(s)
      PROVE  VersionInv'
  BY <1>5, ReadProjectVersion
<1>6. ASSUME NEW s \in Slots, ConvertInputs(s)
      PROVE  VersionInv'
  BY <1>6, ConvertInputsVersion
<1>7. ASSUME NEW s \in Slots, RunAlgorithm(s) \/ \E written \in BOOLEAN : Finish(s, written)
      PROVE  VersionInv'
  <2>1. UNCHANGED <<file, seen, worker>>
    BY <1>7, RanOrOver
  <2>2. PICK x : /\ job' = [job EXCEPT ![s] = x]
                 /\ x.pc \in {"failed", "done"} \/ (x.pc = "ran" /\ x.worker = job[s].worker)
    BY <1>7, RanOrOver
  <2>3. GoodVersion(x)
    BY <2>2 DEF GoodVersion
  <2> QED BY <2>1, <2>2, <2>3, JobChangeVersion
<1>8. CASE UNCHANGED vars
  BY <1>8, SameFiles DEF vars
<1> QED BY <1>1, <1>2, <1>3, <1>4, <1>5, <1>6, <1>7, <1>8 DEF Next

(* A job runs with the version that its file had when the worker looked at it, or   *)
(* a later one, or with the empty project of a file that vanished, provided that    *)
(* the time of the file told that version from the ones before: whatever the        *)
(* copies, the edits and the other jobs of the worker.                              *)
THEOREM CurrentCorrect == Spec => []JobsUseCurrentProject
<1>1. Init => VersionInv
  BY VersionInit
<1>2. TypeInv /\ TypeInv' /\ VersionInv /\ [Next]_vars => VersionInv'
  BY VersionStep
<1>3. VersionInv => JobsUseCurrentProject
  BY DEF VersionInv, JobVersions, GoodVersion, JobsUseCurrentProject
<1> QED BY <1>1, <1>2, <1>3, TypesHold, PTL DEF Spec
=============================================================================
