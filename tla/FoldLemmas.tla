----------------------------- MODULE FoldLemmas -----------------------------
(* What the proofs need about folds.  A fold over the filters of a request or   *)
(* the identifiers of a request is not a step of a specification; it is written *)
(* as a recursive function on the first numbers, and followed here with the     *)
(* least element of a set of numbers.                                           *)
EXTENDS Naturals, WellFoundedInduction, TLAPS

(* Nonempty sets of numbers have a least element.                               *)
LEMMA LeastOf ==
  ASSUME NEW T \in SUBSET Nat, T # {}
  PROVE  \E n \in T : \A m \in T : n <= m
<1> DEFINE R == OpToRel(<, Nat)
<1>1. IsWellFoundedOn(R, Nat)
  BY NatLessThanWellFounded
<1>2. \A m, n \in Nat : <<m, n>> \in R <=> m < n
  BY DEF OpToRel
<1> HIDE DEF R
<1>3. PICK n \in T : \A m \in T : ~(<<m, n>> \in R)
  BY <1>1, WFMin
<1>4. n \in Nat /\ \A m \in T : m \in Nat /\ ~(m < n)
  BY <1>2, <1>3
<1>5. \A m \in T : n <= m
  BY <1>4
<1> QED BY <1>5

(* Strong induction, as sets: what holds nowhere first fails nowhere.      *)
LEMMA NoLeastFailure ==
  ASSUME NEW N \in Nat, NEW Good,
         0 \in Good,
         \A n \in 1 .. N : n - 1 \in Good => n \in Good
  PROVE  0 .. N \subseteq Good
<1> DEFINE T == (0 .. N) \ Good
<1> SUFFICES ASSUME T # {} PROVE FALSE
  OBVIOUS
<1>0. T \in SUBSET Nat
  OBVIOUS
<1>1. PICK n \in T : \A m \in T : n <= m
  <2> HIDE DEF T
  <2> QED BY <1>0, LeastOf
<1>2. n \in 1 .. N /\ n \notin Good
  BY <1>1
<1>3. n - 1 \in Good
  BY <1>1, <1>2
<1> QED BY <1>2, <1>3

(* a has the results of the steps F from base on.                               *)
Steps(N, S) == [1 .. N -> [S -> S]]
Folds(a, base, N, F) == a[0] = base /\ \A n \in 1 .. N : a[n] = F[n][a[n - 1]]

(* A recursive function whose steps stay in a set exists.                       *)
LEMMA FoldExists ==
  ASSUME NEW S, NEW base \in S, NEW N \in Nat, NEW F \in Steps(N, S)
  PROVE  \E a \in [0 .. N -> S] : Folds(a, base, N, F)
<1> DEFINE Upto(a, m) == a[0] = base /\ \A n \in 1 .. m : a[n] = F[n][a[n - 1]]
           Good == {m \in 0 .. N : \E a \in [0 .. m -> S] : Upto(a, m)}
<1>1. 0 \in Good
  <2> DEFINE a == [n \in 0 .. 0 |-> base]
  <2>1. a \in [0 .. 0 -> S] /\ Upto(a, 0)
    OBVIOUS
  <2> HIDE DEF a, Upto
  <2>2. \E x \in [0 .. 0 -> S] : Upto(x, 0)
    BY <2>1
  <2> QED BY <2>2
<1>2. ASSUME NEW m \in 1 .. N, m - 1 \in Good
      PROVE  m \in Good
  <2>1. PICK a \in [0 .. m - 1 -> S] : Upto(a, m - 1)
    BY <1>2
  <2> DEFINE b == [n \in 0 .. m |-> IF n = m THEN F[m][a[m - 1]] ELSE a[n]]
  <2>2. a[m - 1] \in S /\ F[m][a[m - 1]] \in S
    BY DEF Steps
  <2>3. b \in [0 .. m -> S] /\ b[m] = F[m][a[m - 1]] /\ \A n \in 0 .. m - 1 : b[n] = a[n]
    BY <2>2
  <2> HIDE DEF b
  <2>4. b[0] = base
    BY <2>1, <2>3
  <2>5. ASSUME NEW n \in 1 .. m
        PROVE  b[n] = F[n][b[n - 1]]
    <3>1. b[n - 1] = a[n - 1]
      BY <2>3
    <3>2. CASE n = m
      BY <3>1, <3>2, <2>3
    <3>3. CASE n # m
      BY <3>1, <3>3, <2>1, <2>3
    <3> QED BY <3>2, <3>3
  <2>6. Upto(b, m)
    BY <2>4, <2>5
  <2> HIDE DEF Upto
  <2>7. \E x \in [0 .. m -> S] : Upto(x, m)
    BY <2>3, <2>6
  <2> QED BY <2>7
<1> HIDE DEF Good
<1>3. 0 .. N \subseteq Good
  BY <1>1, <1>2, NoLeastFailure
<1>4. N \in Good
  BY <1>3
<1>5. PICK a \in [0 .. N -> S] : Upto(a, N)
  BY <1>4 DEF Good
<1> QED BY <1>5 DEF Folds
=============================================================================
