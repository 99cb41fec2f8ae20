---------------------------- MODULE FoldingProofs ----------------------------
(***************************************************************************)
(* Facts about the folds of Folding, by induction over the data.  An       *)
(* induction is over a set of natural numbers, or of subsets of a finite   *)
(* set, for which it holds: the least-element principle WFMin of the       *)
(* library is about sets, where its induction theorems take an operator.   *)
(***************************************************************************)
EXTENDS Folding, FiniteSetTheorems, TLAPS

(* A set that has 0, and n + 1 with every n, has all natural numbers. *)
LEMMA SetOfNaturals ==
    ASSUME NEW T, 0 \in T, \A n \in Nat : n \in T => n + 1 \in T
    PROVE  \A n \in Nat : n \in T
<1> DEFINE B == Nat \ T
           R == OpToRel(<, Nat)
<1>1. SUFFICES ASSUME B # {}
              PROVE  FALSE
  OBVIOUS
<1>2. IsWellFoundedOn(R, Nat)
  BY NatLessThanWellFounded
<1>3. \A x, y \in Nat : y < x => <<y, x>> \in R
  BY DEF OpToRel
<1> HIDE DEF R
<1>4. B \subseteq Nat
  OBVIOUS
<1>5. PICK x \in B : \A y \in B : <<y, x>> \notin R
  BY <1>1, <1>2, <1>4, WFMin
<1>6. x \in Nat /\ x # 0
  BY <1>5
<1>7. x - 1 \in Nat /\ x - 1 < x /\ (x - 1) + 1 = x
  BY <1>6
<1>8. x - 1 \in T
  BY <1>3, <1>5, <1>6, <1>7
<1> QED
  BY <1>5, <1>7, <1>8

(* A set that has each subset of S whose subsets with one element less it  *)
(* has, has all subsets of S.                                              *)
LEMMA SetOfSubsets ==
    ASSUME NEW S, IsFiniteSet(S), NEW T,
           \A s \in SUBSET S : (\A x \in s : s \ {x} \in T) => s \in T
    PROVE  \A s \in SUBSET S : s \in T
<1> DEFINE N == {n \in Nat : \A s \in SUBSET S : Cardinality(s) = n => s \in T}
<1>1. \A s \in SUBSET S : IsFiniteSet(s) /\ Cardinality(s) \in Nat
  BY FS_Subset, FS_CardinalityType
<1>2. 0 \in N
  <2>1. \A s \in SUBSET S : Cardinality(s) = 0 => s = {}
    BY <1>1, FS_EmptySet
  <2> QED
    BY <2>1
<1>3. ASSUME NEW n \in Nat, n \in N
      PROVE  n + 1 \in N
  <2>1. SUFFICES ASSUME NEW s \in SUBSET S, Cardinality(s) = n + 1
                PROVE  s \in T
    BY <1>3
  <2>2. ASSUME NEW x \in s
        PROVE  s \ {x} \in T
    <3>1. Cardinality(s \ {x}) = n
      BY <1>1, <2>1, <1>3, FS_RemoveElement
    <3> QED
      BY <3>1, <1>3
  <2> QED
    BY <2>2
<1>4. \A n \in Nat : n \in N
  <2> HIDE DEF N
  <2> QED
    BY <1>2, <1>3, SetOfNaturals
<1> QED
  BY <1>1, <1>4
LEMMA IntervalSize ==
    ASSUME NEW n \in Nat
    PROVE  IsFiniteSet(1 .. n) /\ Cardinality(1 .. n) = n
<1>1. CASE n = 0
  BY <1>1, FS_Interval
<1>2. CASE n > 0
  BY <1>2, FS_Interval
<1> QED
  BY <1>1, <1>2
-----------------------------------------------------------------------------
(* Sums.                                                                   *)

Pick(s) == CHOOSE x \in s : TRUE

(* The equation of the recursive function in MapThenFoldSet. *)
IsSumOf(it, f, S) ==
    it = [s \in SUBSET S |-> IF s = {} THEN 0 ELSE f[Pick(s)] + it[s \ {Pick(s)}]]

SumUpTo(it, f, S, n) ==
    /\ it = [s \in SUBSET S |-> it[s]]
    /\ \A s \in SUBSET S :
          Cardinality(s) <= n =>
            it[s] = IF s = {} THEN 0 ELSE f[Pick(s)] + it[s \ {Pick(s)}]

(* It has a solution: one that is right up to a cardinality is extended. *)
LEMMA SumExists ==
    ASSUME NEW f, NEW S, IsFiniteSet(S)
    PROVE  \E it : IsSumOf(it, f, S)
<1> DEFINE Eq(it, s) == it[s] = IF s = {} THEN 0 ELSE f[Pick(s)] + it[s \ {Pick(s)}]
           N == {n \in Nat : \E it : SumUpTo(it, f, S, n)}
<1>0. \A s \in SUBSET S : IsFiniteSet(s) /\ Cardinality(s) \in Nat
  BY FS_Subset, FS_CardinalityType
<1>1. \A s \in SUBSET S : /\ Cardinality(s) <= Cardinality(S)
                          /\ s # {} => /\ Pick(s) \in s
                                       /\ s \ {Pick(s)} \in SUBSET S
                                       /\ Cardinality(s \ {Pick(s)}) = Cardinality(s) - 1
  BY FS_Subset, FS_CardinalityType, FS_RemoveElement DEF Pick
<1>2. 0 \in N
  <2> DEFINE it == [s \in SUBSET S |-> 0]
  <2>1. it = [s \in SUBSET S |-> it[s]]
    OBVIOUS
  <2>2. ASSUME NEW s \in SUBSET S, Cardinality(s) <= 0
        PROVE  Eq(it, s)
    <3>1. s = {}
      <4>1. IsFiniteSet(s) /\ Cardinality(s) = 0
        BY <1>0, <2>2
      <4> QED
        BY <4>1, FS_EmptySet
    <3> QED
      BY <3>1
  <2> HIDE DEF it
  <2> QED
    BY <2>1, <2>2 DEF SumUpTo
<1>3. ASSUME NEW n \in Nat, n \in N
      PROVE  n + 1 \in N
  <2>1. PICK it : /\ it = [s \in SUBSET S |-> it[s]]
                  /\ \A s \in SUBSET S : Cardinality(s) <= n => Eq(it, s)
    BY <1>3 DEF SumUpTo
  <2> DEFINE more == [s \in SUBSET S |-> IF Cardinality(s) <= n THEN it[s]
                                         ELSE f[Pick(s)] + it[s \ {Pick(s)}]]
  <2>2. more = [s \in SUBSET S |-> more[s]]
    OBVIOUS
  <2>3. ASSUME NEW s \in SUBSET S, Cardinality(s) <= n + 1
        PROVE  Eq(more, s)
    <3>1. CASE s = {}
      <4>1. Cardinality(s) <= n
        BY <3>1, FS_EmptySet
      <4> QED
        BY <2>1, <3>1, <4>1
    <3>2. CASE s # {}
      <4>1. s \ {Pick(s)} \in SUBSET S /\ Cardinality(s \ {Pick(s)}) <= n
        BY <1>0, <1>1, <2>3, <3>2
      <4>2. more[s \ {Pick(s)}] = it[s \ {Pick(s)}]
        BY <4>1
      <4>3. more[s] = f[Pick(s)] + it[s \ {Pick(s)}]
        BY <2>1, <3>2
      <4> QED
        BY <3>2, <4>2, <4>3
    <3> QED
      BY <3>1, <3>2
  <2> HIDE DEF more
  <2>4. SumUpTo(more, f, S, n + 1)
    BY <2>2, <2>3 DEF SumUpTo
  <2> QED
    BY <2>4
<1>4. \A n \in Nat : n \in N
  <2> HIDE DEF N
  <2> QED
    BY <1>2, <1>3, SetOfNaturals
<1>5. Cardinality(S) \in N
  <2> HIDE DEF N
  <2> QED
    BY <1>0, <1>4
<1>6. PICK it : /\ it = [s \in SUBSET S |-> it[s]]
                /\ \A s \in SUBSET S : Eq(it, s)
  BY <1>1, <1>5 DEF SumUpTo
<1>7. IsSumOf(it, f, S)
  BY <1>6 DEF IsSumOf
<1> QED
  BY <1>7

LEMMA SumIsSumOf ==
    ASSUME NEW f, NEW S, IsFiniteSet(S)
    PROVE  \E it : IsSumOf(it, f, S) /\ Sum(f, S) = it[S]
<1> DEFINE it == CHOOSE g : IsSumOf(g, f, S)
<1>1. IsSumOf(it, f, S)
  BY SumExists
<1>2. Sum(f, S) = it[S]
  BY DEF Sum, MapThenSumSet, MapThenFoldSet, IsSumOf, Pick
<1> HIDE DEF it
<1> QED
  BY <1>1, <1>2

(* The sum over a subset does not depend on the set it is taken in. *)
LEMMA SumOfSubset ==
    ASSUME NEW f, NEW S, IsFiniteSet(S), NEW it, IsSumOf(it, f, S)
    PROVE  \A s \in SUBSET S : it[s] = Sum(f, s)
<1> DEFINE Q == {s \in SUBSET S :
                   \A S2 \in SUBSET S : \A other :
                      s \in SUBSET S2 /\ IsSumOf(other, f, S2) => other[s] = it[s]}
<1>1. ASSUME NEW s \in SUBSET S, \A x \in s : s \ {x} \in Q
      PROVE  s \in Q
  <2>1. SUFFICES ASSUME NEW S2 \in SUBSET S, NEW other,
                        s \in SUBSET S2, IsSumOf(other, f, S2)
                 PROVE  other[s] = it[s]
    OBVIOUS
  <2>2. /\ it[s] = IF s = {} THEN 0 ELSE f[Pick(s)] + it[s \ {Pick(s)}]
        /\ other[s] = IF s = {} THEN 0 ELSE f[Pick(s)] + other[s \ {Pick(s)}]
    BY <2>1 DEF IsSumOf
  <2>3. s # {} => other[s \ {Pick(s)}] = it[s \ {Pick(s)}]
    BY <1>1, <2>1 DEF Pick
  <2> QED
    BY <2>2, <2>3
<1>2. \A s \in SUBSET S : s \in Q
  <2> HIDE DEF Q
  <2> QED
    BY <1>1, SetOfSubsets
<1>3. SUFFICES ASSUME NEW s \in SUBSET S
               PROVE  it[s] = Sum(f, s)
  OBVIOUS
<1>4. PICK other : IsSumOf(other, f, s) /\ Sum(f, s) = other[s]
  BY FS_Subset, SumIsSumOf
<1> QED
  BY <1>2, <1>4

(* One element is taken out of the sum. *)
LEMMA SumOfPicked ==
    ASSUME NEW f, NEW S, IsFiniteSet(S)
    PROVE  Sum(f, S) = IF S = {} THEN 0 ELSE f[Pick(S)] + Sum(f, S \ {Pick(S)})
<1>1. PICK it : IsSumOf(it, f, S) /\ Sum(f, S) = it[S]
  BY SumIsSumOf
<1>2. it[S] = IF S = {} THEN 0 ELSE f[Pick(S)] + it[S \ {Pick(S)}]
  BY <1>1 DEF IsSumOf
<1>3. it[S \ {Pick(S)}] = Sum(f, S \ {Pick(S)})
  BY <1>1, SumOfSubset
<1> QED
  BY <1>1, <1>2, <1>3

LEMMA SumEmpty == \A f : Sum(f, {}) = 0
BY SumOfPicked, FS_EmptySet

LEMMA SumType ==
    ASSUME NEW f, NEW S, IsFiniteSet(S), \A x \in S : f[x] \in Nat
    PROVE  Sum(f, S) \in Nat
<1> DEFINE T == {s \in SUBSET S : Sum(f, s) \in Nat}
<1>1. ASSUME NEW s \in SUBSET S, \A x \in s : s \ {x} \in T
      PROVE  s \in T
  <2>1. IsFiniteSet(s)
    BY FS_Subset
  <2>2. Sum(f, s) = IF s = {} THEN 0 ELSE f[Pick(s)] + Sum(f, s \ {Pick(s)})
    BY <2>1, SumOfPicked
  <2>3. s # {} => f[Pick(s)] \in Nat /\ Sum(f, s \ {Pick(s)}) \in Nat
    BY <1>1 DEF Pick
  <2> QED
    BY <2>2, <2>3
<1>2. \A s \in SUBSET S : s \in T
  <2> HIDE DEF T
  <2> QED
    BY <1>1, SetOfSubsets
<1> QED
  BY <1>2

(* Any element may be taken out first. *)
LEMMA SumRemove ==
    ASSUME NEW f, NEW S, IsFiniteSet(S), \A x \in S : f[x] \in Nat, NEW x \in S
    PROVE  Sum(f, S) = f[x] + Sum(f, S \ {x})
<1> DEFINE T == {s \in SUBSET S : \A y \in s : Sum(f, s) = f[y] + Sum(f, s \ {y})}
<1>1. ASSUME NEW s \in SUBSET S, \A y \in s : s \ {y} \in T
      PROVE  s \in T
  <2>1. SUFFICES ASSUME NEW y \in s
                 PROVE  Sum(f, s) = f[y] + Sum(f, s \ {y})
    OBVIOUS
  <2> DEFINE p == Pick(s)
  <2>2. p \in s /\ IsFiniteSet(s) /\ s # {}
    BY FS_Subset DEF Pick
  <2>3. Sum(f, s) = f[p] + Sum(f, s \ {p})
    BY <2>2, SumOfPicked
  <2> HIDE DEF p
  <2>4. CASE y = p
    BY <2>3, <2>4
  <2>5. CASE y # p
    <3>1. Sum(f, s \ {p}) = f[y] + Sum(f, (s \ {p}) \ {y})
      BY <1>1, <2>2, <2>5
    <3>2. Sum(f, s \ {y}) = f[p] + Sum(f, (s \ {y}) \ {p})
      BY <1>1, <2>2, <2>5
    <3>3. (s \ {p}) \ {y} = (s \ {y}) \ {p}
      OBVIOUS
    <3>4. Sum(f, (s \ {p}) \ {y}) \in Nat /\ f[y] \in Nat /\ f[p] \in Nat
      BY <2>2, SumType, FS_Subset
    <3> QED
      BY <2>3, <3>1, <3>2, <3>3, <3>4
  <2> QED
    BY <2>4, <2>5
<1>2. \A s \in SUBSET S : s \in T
  <2> HIDE DEF T
  <2> QED
    BY <1>1, SetOfSubsets
<1> QED
  BY <1>2

LEMMA SumAdd ==
    ASSUME NEW f, NEW S, IsFiniteSet(S), NEW x, x \notin S,
           \A y \in S \cup {x} : f[y] \in Nat
    PROVE  Sum(f, S \cup {x}) = f[x] + Sum(f, S)
<1>1. (S \cup {x}) \ {x} = S /\ IsFiniteSet(S \cup {x})
  BY FS_AddElement
<1> QED
  BY <1>1, SumRemove

(* The sum only depends on the values that are summed. *)
LEMMA SumSame ==
    ASSUME NEW f, NEW g, NEW S, IsFiniteSet(S), \A x \in S : f[x] = g[x]
    PROVE  Sum(f, S) = Sum(g, S)
<1> DEFINE T == {s \in SUBSET S : Sum(f, s) = Sum(g, s)}
<1>1. ASSUME NEW s \in SUBSET S, \A x \in s : s \ {x} \in T
      PROVE  s \in T
  <2>1. IsFiniteSet(s)
    BY FS_Subset
  <2>2. /\ Sum(f, s) = IF s = {} THEN 0 ELSE f[Pick(s)] + Sum(f, s \ {Pick(s)})
        /\ Sum(g, s) = IF s = {} THEN 0 ELSE g[Pick(s)] + Sum(g, s \ {Pick(s)})
    BY <2>1, SumOfPicked
  <2>3. s # {} => /\ f[Pick(s)] = g[Pick(s)]
                  /\ Sum(f, s \ {Pick(s)}) = Sum(g, s \ {Pick(s)})
    BY <1>1 DEF Pick
  <2> QED
    BY <2>2, <2>3
<1>2. \A s \in SUBSET S : s \in T
  <2> HIDE DEF T
  <2> QED
    BY <1>1, SetOfSubsets
<1> QED
  BY <1>2

(* One value changes, and the sum by as much. *)
LEMMA SumChange ==
    ASSUME NEW f, NEW g, NEW S, IsFiniteSet(S), NEW x \in S,
           \A y \in S : f[y] \in Nat /\ g[y] \in Nat,
           \A y \in S \ {x} : f[y] = g[y]
    PROVE  Sum(g, S) = (Sum(f, S) - f[x]) + g[x]
<1>1. Sum(f, S) = f[x] + Sum(f, S \ {x})
  BY SumRemove
<1>2. Sum(g, S) = g[x] + Sum(g, S \ {x})
  BY SumRemove
<1>3. Sum(f, S \ {x}) = Sum(g, S \ {x}) /\ Sum(f, S \ {x}) \in Nat
  BY FS_Subset, SumSame, SumType
<1> QED
  BY <1>1, <1>2, <1>3

(* The sum of a sequence grows by what is appended to it. *)
LEMMA SumAppend ==
    ASSUME NEW s \in Seq(Nat), NEW x \in Nat
    PROVE  Sum(Append(s, x), DOMAIN Append(s, x)) = Sum(s, DOMAIN s) + x
<1> DEFINE t == Append(s, x)
           n == Len(s)
<1>1. /\ n \in Nat /\ DOMAIN s = 1 .. n /\ DOMAIN t = (1 .. n) \cup {n + 1}
      /\ t[n + 1] = x
      /\ \A i \in 1 .. n : t[i] = s[i] /\ s[i] \in Nat
  OBVIOUS
<1> HIDE DEF t, n
<1>2. IsFiniteSet(1 .. n) /\ n + 1 \notin 1 .. n
  BY <1>1, IntervalSize
<1>3. Sum(t, 1 .. n) = Sum(s, 1 .. n)
  BY <1>1, <1>2, SumSame
<1>4. \A i \in (1 .. n) \cup {n + 1} : t[i] \in Nat
  BY <1>1
<1>5. Sum(t, (1 .. n) \cup {n + 1}) = x + Sum(t, 1 .. n)
  BY <1>1, <1>2, <1>4, SumAdd
<1>6. Sum(s, 1 .. n) \in Nat
  BY <1>1, <1>2, SumType
<1>7. Sum(t, DOMAIN t) = Sum(s, DOMAIN s) + x
  BY <1>1, <1>3, <1>5, <1>6
<1> QED
  BY <1>7 DEF t

(* Counting by kind counts everything once. *)
OfKind(I, kind, c) == {i \in I : kind[i] = c}

LEMMA SumOfCounts ==
    ASSUME NEW I, IsFiniteSet(I), NEW kind, NEW C, IsFiniteSet(C),
           \A i \in I : kind[i] \in C,
           NEW count, \A c \in C : count[c] = Cardinality(OfKind(I, kind, c))
    PROVE  Sum(count, C) = Cardinality(I)
<1> DEFINE Of(s) == {i \in I : kind[i] \in s}
           T == {s \in SUBSET C : Sum(count, s) = Cardinality(Of(s))}
<1>1. ASSUME NEW s \in SUBSET C, \A x \in s : s \ {x} \in T
      PROVE  s \in T
  <2>1. CASE s = {}
    BY <2>1, SumEmpty, FS_EmptySet
  <2>2. CASE s # {}
    <3>1. PICK c \in s : TRUE
      BY <2>2
    <3> DEFINE one == OfKind(I, kind, c)
               rest == Of(s \ {c})
    <3>2. IsFiniteSet(one) /\ IsFiniteSet(rest) /\ one \cap rest = {} /\ Of(s) = one \cup rest
      BY FS_Subset DEF OfKind
    <3>3. Cardinality(Of(s)) = Cardinality(one) + Cardinality(rest)
      <4> HIDE DEF one, rest, Of
      <4>1. Cardinality(one \cup rest) = Cardinality(one) + Cardinality(rest) - Cardinality({})
        BY <3>2, FS_Union
      <4>2. Cardinality(one) \in Nat /\ Cardinality(rest) \in Nat
        BY <3>2, FS_CardinalityType
      <4> QED
        BY <3>2, <4>1, <4>2, FS_EmptySet
    <3>4. \A d \in s : count[d] \in Nat
      <4>1. ASSUME NEW d \in s
            PROVE  count[d] \in Nat
        <5>1. OfKind(I, kind, d) \in SUBSET I /\ d \in C
          BY DEF OfKind
        <5>2. IsFiniteSet(OfKind(I, kind, d))
          BY <5>1, FS_Subset
        <5> QED
          BY <5>1, <5>2, FS_CardinalityType
      <4> QED
        BY <4>1
    <3>5. Sum(count, s) = count[c] + Sum(count, s \ {c})
      BY <3>4, FS_Subset, SumRemove
    <3>6. Sum(count, s \ {c}) = Cardinality(rest) /\ count[c] = Cardinality(one)
      BY <1>1
    <3> QED
      BY <3>3, <3>5, <3>6
  <2> QED
    BY <2>1, <2>2
<1>2. \A s \in SUBSET C : s \in T
  <2> HIDE DEF T
  <2> QED
    BY <1>1, SetOfSubsets
<1>3. Of(C) = I /\ Sum(count, C) = Cardinality(Of(C))
  BY <1>2
<1> QED
  BY <1>3

-----------------------------------------------------------------------------
(* The elements of a sequence that are kept.                               *)

(* The equation of the recursive function in Where. *)
IsKept(it, s, P) ==
    it = [n \in 0 .. Len(s) |->
             IF n = 0 THEN <<>>
             ELSE IF s[n] \in P THEN Append(it[n - 1], s[n]) ELSE it[n - 1]]

KeptAt(it, s, P, n) ==
    it[n] = IF n = 0 THEN <<>>
            ELSE IF s[n] \in P THEN Append(it[n - 1], s[n]) ELSE it[n - 1]

KeptUpTo(it, s, P, n) ==
    /\ it = [m \in 0 .. Len(s) |-> it[m]]
    /\ \A m \in 0 .. Len(s) : m <= n => KeptAt(it, s, P, m)

LEMMA KeptExists ==
    ASSUME NEW s, NEW P, Len(s) \in Nat
    PROVE  \E it : IsKept(it, s, P)
<1> DEFINE N == {n \in Nat : \E it : KeptUpTo(it, s, P, n)}
<1>1. 0 \in N
  <2> DEFINE it == [m \in 0 .. Len(s) |-> <<>>]
  <2>1. it = [m \in 0 .. Len(s) |-> it[m]]
    OBVIOUS
  <2>2. \A m \in 0 .. Len(s) : m <= 0 => m = 0 /\ it[m] = <<>>
    OBVIOUS
  <2> HIDE DEF it
  <2>3. KeptUpTo(it, s, P, 0)
    BY <2>1, <2>2 DEF KeptUpTo, KeptAt
  <2> QED
    BY <2>3
<1>2. ASSUME NEW n \in Nat, n \in N
      PROVE  n + 1 \in N
  <2>1. PICK it : KeptUpTo(it, s, P, n)
    BY <1>2
  <2> DEFINE more == [m \in 0 .. Len(s) |->
                         IF m <= n THEN it[m]
                         ELSE IF s[m] \in P THEN Append(it[m - 1], s[m]) ELSE it[m - 1]]
  <2>2. more = [m \in 0 .. Len(s) |-> more[m]]
    OBVIOUS
  <2>3. ASSUME NEW m \in 0 .. Len(s), m <= n + 1
        PROVE  KeptAt(more, s, P, m)
    <3>1. CASE m <= n
      <4>1. KeptAt(it, s, P, m) /\ more[m] = it[m]
        BY <2>1, <3>1 DEF KeptUpTo
      <4>2. m # 0 => m - 1 \in 0 .. Len(s) /\ m - 1 <= n /\ more[m - 1] = it[m - 1]
        BY <3>1
      <4> QED
        BY <4>1, <4>2 DEF KeptAt
    <3>2. CASE ~(m <= n)
      <4>1. m # 0 /\ m - 1 \in 0 .. Len(s) /\ m - 1 <= n
        BY <2>3, <3>2
      <4>2. more[m - 1] = it[m - 1]
        BY <4>1
      <4>3. more[m] = IF s[m] \in P THEN Append(it[m - 1], s[m]) ELSE it[m - 1]
        BY <3>2
      <4> HIDE DEF more
      <4> QED
        BY <4>1, <4>2, <4>3 DEF KeptAt
    <3> QED
      BY <3>1, <3>2
  <2> HIDE DEF more
  <2>4. KeptUpTo(more, s, P, n + 1)
    BY <2>2, <2>3 DEF KeptUpTo
  <2> QED
    BY <2>4
<1>3. \A n \in Nat : n \in N
  <2> HIDE DEF N
  <2> QED
    BY <1>1, <1>2, SetOfNaturals
<1>4. PICK it : KeptUpTo(it, s, P, Len(s))
  BY <1>3
<1>5. \A m \in 0 .. Len(s) : KeptAt(it, s, P, m)
  BY <1>4 DEF KeptUpTo
<1>6. IsKept(it, s, P)
  BY <1>4, <1>5 DEF IsKept, KeptUpTo, KeptAt
<1> QED
  BY <1>6

LEMMA WhereIsKept ==
    ASSUME NEW s, NEW P, Len(s) \in Nat
    PROVE  \E it : /\ \A n \in 0 .. Len(s) : KeptAt(it, s, P, n)
                   /\ Where(s, P) = it[Len(s)]
<1> DEFINE it == CHOOSE g : IsKept(g, s, P)
<1>1. IsKept(it, s, P)
  BY KeptExists
<1>2. Where(s, P) = it[Len(s)]
  BY DEF Where, IsKept
<1> HIDE DEF it
<1>3. \A n \in 0 .. Len(s) : KeptAt(it, s, P, n)
  BY <1>1 DEF IsKept, KeptAt
<1> QED
  BY <1>2, <1>3

LEMMA WhereEmpty == \A P : Where(<<>>, P) = <<>>
<1>1. SUFFICES ASSUME NEW P
               PROVE  Where(<<>>, P) = <<>>
  OBVIOUS
<1>2. Len(<<>>) = 0
  OBVIOUS
<1>3. PICK it : /\ \A n \in 0 .. 0 : KeptAt(it, <<>>, P, n)
                /\ Where(<<>>, P) = it[0]
  BY <1>2, WhereIsKept
<1> QED
  BY <1>3 DEF KeptAt

(* One more element is kept, or left out, at the end. *)
LEMMA WhereAppend ==
    ASSUME NEW S, NEW s \in Seq(S), NEW x \in S, NEW P
    PROVE  Where(Append(s, x), P) = IF x \in P THEN Append(Where(s, P), x) ELSE Where(s, P)
<1> DEFINE t == Append(s, x)
<1>1. /\ Len(s) \in Nat /\ Len(t) = Len(s) + 1
      /\ t[Len(s) + 1] = x
      /\ \A n \in 1 .. Len(s) : t[n] = s[n]
  OBVIOUS
<1> HIDE DEF t
<1>2. PICK it : /\ \A n \in 0 .. Len(s) : KeptAt(it, s, P, n)
                /\ Where(s, P) = it[Len(s)]
  BY <1>1, WhereIsKept
<1>3. PICK other : /\ \A n \in 0 .. Len(t) : KeptAt(other, t, P, n)
                   /\ Where(t, P) = other[Len(t)]
  BY <1>1, WhereIsKept
<1> DEFINE N == {n \in Nat : n <= Len(s) => other[n] = it[n]}
<1>4. 0 \in N
  BY <1>1, <1>2, <1>3 DEF KeptAt
<1>5. ASSUME NEW n \in Nat, n \in N
      PROVE  n + 1 \in N
  <2>1. SUFFICES ASSUME n + 1 <= Len(s)
                 PROVE  other[n + 1] = it[n + 1]
    OBVIOUS
  <2>2. n + 1 \in 1 .. Len(s) /\ n + 1 \in 0 .. Len(s) /\ n + 1 \in 0 .. Len(t)
        /\ n + 1 # 0 /\ (n + 1) - 1 = n /\ n <= Len(s)
    BY <1>1, <2>1
  <2>3. KeptAt(it, s, P, n + 1) /\ KeptAt(other, t, P, n + 1)
    BY <1>2, <1>3, <2>2
  <2>4. t[n + 1] = s[n + 1] /\ other[n] = it[n]
    BY <1>1, <1>5, <2>2
  <2> QED
    BY <2>2, <2>3, <2>4 DEF KeptAt
<1>6. \A n \in Nat : n \in N
  <2> HIDE DEF N
  <2> QED
    BY <1>4, <1>5, SetOfNaturals
<1>7. other[Len(s)] = it[Len(s)]
  BY <1>1, <1>6
<1>8. KeptAt(other, t, P, Len(s) + 1) /\ Len(s) + 1 # 0 /\ (Len(s) + 1) - 1 = Len(s)
  BY <1>1, <1>3
<1>9. Where(t, P) = IF x \in P THEN Append(Where(s, P), x) ELSE Where(s, P)
  BY <1>1, <1>2, <1>3, <1>7, <1>8 DEF KeptAt
<1> QED
  BY <1>9 DEF t

LEMMA WhereType ==
    ASSUME NEW S, NEW s \in Seq(S), NEW P
    PROVE  Where(s, P) \in Seq(S)
<1>1. Len(s) \in Nat /\ \A n \in 1 .. Len(s) : s[n] \in S
  OBVIOUS
<1>2. PICK it : /\ \A n \in 0 .. Len(s) : KeptAt(it, s, P, n)
                /\ Where(s, P) = it[Len(s)]
  BY <1>1, WhereIsKept
<1> DEFINE N == {n \in Nat : n <= Len(s) => it[n] \in Seq(S)}
<1>3. 0 \in N
  <2>1. KeptAt(it, s, P, 0)
    BY <1>1, <1>2
  <2>2. it[0] = <<>>
    BY <2>1 DEF KeptAt
  <2>3. <<>> \in Seq(S)
    OBVIOUS
  <2> QED
    BY <2>2, <2>3
<1>4. ASSUME NEW n \in Nat, n \in N
      PROVE  n + 1 \in N
  <2>1. SUFFICES ASSUME n + 1 <= Len(s)
                 PROVE  it[n + 1] \in Seq(S)
    OBVIOUS
  <2>2. n + 1 \in 1 .. Len(s) /\ n + 1 \in 0 .. Len(s)
        /\ n + 1 # 0 /\ (n + 1) - 1 = n /\ n <= Len(s)
    BY <1>1, <2>1
  <2>3. KeptAt(it, s, P, n + 1) /\ it[n] \in Seq(S) /\ s[n + 1] \in S
    BY <1>1, <1>2, <1>4, <2>2
  <2>4. Append(it[n], s[n + 1]) \in Seq(S)
    BY <2>3
  <2> QED
    BY <2>2, <2>3, <2>4 DEF KeptAt
<1>5. \A n \in Nat : n \in N
  <2> HIDE DEF N
  <2> QED
    BY <1>3, <1>4, SetOfNaturals
<1> QED
  BY <1>1, <1>2, <1>5

-----------------------------------------------------------------------------
(* Measures.  A process whose every step makes a tuple of naturals smaller *)
(* takes finitely many steps: the first place that changes goes down, and  *)
(* no tuple can go down for ever.                                          *)
Smaller(n) == LexProductOrdering(OpToRel(<, Nat), Nat, n)

LEMMA NothingSmallerForEver ==
    ASSUME NEW n \in Nat
    PROVE  IsWellFoundedOn(Smaller(n), [1 .. n -> Nat])
BY NatLessThanWellFounded, WFLexProductOrdering DEF Smaller

LEMMA SmallerAt ==
    ASSUME NEW n \in Nat, NEW f \in [1 .. n -> Nat], NEW g \in [1 .. n -> Nat],
           NEW j \in 1 .. n, f[j] < g[j], \A i \in 1 .. (j - 1) : f[i] = g[i]
    PROVE  <<f, g>> \in Smaller(n)
<1> DEFINE R == OpToRel(<, Nat)
<1>1. \A x, y \in Nat : x < y => <<x, y>> \in R
  BY DEF OpToRel
<1> HIDE DEF R
<1>2. <<f[j], g[j]>> \in R
  BY <1>1
<1>3. <<f, g>> \in LexProductOrdering(R, Nat, n)
  BY <1>2 DEF LexProductOrdering
<1> QED
  BY <1>3 DEF Smaller, R

=============================================================================
