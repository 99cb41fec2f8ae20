--------------------------- MODULE RedactionProofs ---------------------------
(***************************************************************************)
(* Theorems about Redaction, for every text length, list of entities,      *)
(* placeholder width and set of matches.                                   *)
(***************************************************************************)
EXTENDS Redaction, FoldingProofs, SequenceTheorems

(* The elements of two, and of three, sequences put together. *)
LEMMA TwoParts ==
    ASSUME NEW S, NEW a \in Seq(S), NEW b \in Seq(S)
    PROVE  /\ a \o b \in Seq(S)
           /\ Len(a \o b) = Len(a) + Len(b)
           /\ \A i \in 1..Len(a) : (a \o b)[i] = a[i]
           /\ \A i \in 1..Len(b) : (a \o b)[Len(a) + i] = b[i]
OBVIOUS

LEMMA ThreeParts ==
    ASSUME NEW S, NEW a \in Seq(S), NEW b \in Seq(S), NEW c \in Seq(S)
    PROVE  /\ a \o b \o c \in Seq(S)
           /\ Len(a \o b \o c) = Len(a) + Len(b) + Len(c)
           /\ \A i \in 1..Len(a) : (a \o b \o c)[i] = a[i]
           /\ \A i \in 1..Len(b) : (a \o b \o c)[Len(a) + i] = b[i]
           /\ \A i \in 1..Len(c) : (a \o b \o c)[Len(a) + Len(b) + i] = c[i]
<1>1. PICK ab \in Seq(S) : ab = a \o b
  BY TwoParts
<1>2. /\ Len(ab) = Len(a) + Len(b)
      /\ \A i \in 1..Len(a) : ab[i] = a[i]
      /\ \A i \in 1..Len(b) : ab[Len(a) + i] = b[i]
  BY <1>1, TwoParts
<1>3. /\ ab \o c \in Seq(S) /\ Len(ab \o c) = Len(ab) + Len(c)
      /\ \A i \in 1..Len(ab) : (ab \o c)[i] = ab[i]
      /\ \A i \in 1..Len(c) : (ab \o c)[Len(ab) + i] = c[i]
  OBVIOUS
<1>4. /\ \A i \in 1..Len(a) : i \in 1..Len(ab)
      /\ \A i \in 1..Len(b) : Len(a) + i \in 1..Len(ab)
  BY <1>2
<1>5. a \o b \o c = ab \o c
  BY <1>1, Zenon
<1> QED
  BY <1>2, <1>3, <1>4, <1>5

(* The length of a cut text and where each of its characters comes from.   *)
LEMMA CutText ==
    ASSUME NEW text \in Seq(Cell), NEW hit \in Hit, hit.start <= Len(text)
    PROVE  /\ Cut(text, hit) \in Seq(Cell)
           /\ Len(Cut(text, hit)) >= hit.start
           /\ \A i \in 1..hit.start : Cut(text, hit)[i] = text[i]
           /\ \A i \in DOMAIN Cut(text, hit) :
                  \/ i <= hit.start
                  \/ Cut(text, hit)[i].entity \in Patterns
                  \/ \E j \in DOMAIN text : j > hit.end /\ Cut(text, hit)[i] = text[j]
<1> DEFINE before == SubSeq(text, 1, hit.start)
           mark == Placeholder(hit.entity)
           after == SubSeq(text, hit.end + 1, Len(text))
<1>1. /\ hit.start \in Nat /\ hit.end \in Nat /\ hit.start < hit.end
      /\ hit.entity \in Patterns
  BY DEF Hit
<1>2. /\ before \in Seq(Cell)
      /\ Len(before) = hit.start
      /\ \A i \in 1..hit.start : before[i] = text[i]
  BY <1>1
<1>3. /\ mark \in Seq(Cell)
      /\ \A i \in 1..Len(mark) : mark[i].entity = hit.entity
  <2>1. Width[hit.entity] \in Nat
    BY <1>1, RedactionAssumption
  <2>2. \A i \in 1..Width[hit.entity] : [entity |-> hit.entity, at |-> i] \in Cell
    BY <1>1 DEF Cell
  <2>3. mark = [i \in 1..Width[hit.entity] |-> [entity |-> hit.entity, at |-> i]]
    BY DEF Placeholder
  <2>4. mark \in Seq(Cell) /\ Len(mark) = Width[hit.entity]
    BY <2>1, <2>2, <2>3
  <2> QED
    BY <2>1, <2>3, <2>4
<1>4. /\ after \in Seq(Cell)
      /\ \A i \in 1..Len(after) : i + hit.end \in DOMAIN text /\ after[i] = text[i + hit.end]
  BY <1>1
<1>5. Cut(text, hit) = before \o mark \o after
  BY DEF Cut
<1> HIDE DEF before, mark, after
<1>6. /\ Cut(text, hit) \in Seq(Cell)
      /\ Len(Cut(text, hit)) = Len(before) + Len(mark) + Len(after)
      /\ \A i \in 1..Len(before) : Cut(text, hit)[i] = before[i]
      /\ \A i \in 1..Len(mark) : Cut(text, hit)[Len(before) + i] = mark[i]
      /\ \A i \in 1..Len(after) : Cut(text, hit)[Len(before) + Len(mark) + i] = after[i]
  <2>1. before \in Seq(Cell) /\ mark \in Seq(Cell) /\ after \in Seq(Cell)
    BY <1>2, <1>3, <1>4
  <2>2. /\ before \o mark \o after \in Seq(Cell)
        /\ Len(before \o mark \o after) = Len(before) + Len(mark) + Len(after)
        /\ \A i \in 1..Len(before) : (before \o mark \o after)[i] = before[i]
        /\ \A i \in 1..Len(mark) : (before \o mark \o after)[Len(before) + i] = mark[i]
        /\ \A i \in 1..Len(after) :
               (before \o mark \o after)[Len(before) + Len(mark) + i] = after[i]
    BY <2>1, ThreeParts
  <2> QED
    BY <1>5, <2>2, Zenon
<1>7. \A i \in 1..hit.start : Cut(text, hit)[i] = text[i]
  BY <1>2, <1>6
<1>8. ASSUME NEW i \in DOMAIN Cut(text, hit), i > hit.start
      PROVE  \/ Cut(text, hit)[i].entity \in Patterns
             \/ \E j \in DOMAIN text : j > hit.end /\ Cut(text, hit)[i] = text[j]
  <2> DEFINE k == i - Len(before)
             l == k - Len(mark)
  <2>1. i \in 1..(Len(before) + Len(mark) + Len(after)) /\ k \in Nat \ {0}
    BY <1>1, <1>2, <1>3, <1>4, <1>6, <1>8
  <2>2. CASE k <= Len(mark)
    <3>1. k \in 1..Len(mark) /\ i = Len(before) + k
      BY <1>2, <1>3, <2>1, <2>2
    <3> QED
      BY <1>1, <1>3, <1>6, <3>1
  <2>3. CASE k > Len(mark)
    <3>1. l \in 1..Len(after) /\ i = Len(before) + Len(mark) + l
      BY <1>2, <1>3, <1>4, <2>1, <2>3
    <3>2. Cut(text, hit)[i] = text[l + hit.end] /\ l + hit.end \in DOMAIN text
      BY <1>4, <1>6, <3>1
    <3>3. l + hit.end > hit.end
      BY <1>1, <3>1
    <3> QED
      BY <3>2, <3>3
  <2>4. k \in Int /\ Len(mark) \in Int
    BY <1>3, <2>1
  <2> QED
    BY <2>2, <2>3, <2>4
<1>9. Len(Cut(text, hit)) >= hit.start
  BY <1>1, <1>2, <1>3, <1>4, <1>6
<1> QED
  <2>1. \A i \in DOMAIN Cut(text, hit) : i \in Int
    BY <1>6
  <2> QED
    BY <1>1, <1>6, <1>7, <1>8, <1>9, <2>1

(* Of two hits, the one replaced later lies to the left. *)
LEMMA HitOrder ==
    ASSUME NEW g \in Hit, NEW h \in Hit, g.start <= h.start
    PROVE  /\ Apart(g, h) => g.end <= h.start
           /\ Staggered(g, h) => g.start < h.start /\ g.end < h.end
<1>1. /\ g.start \in Nat /\ g.end \in Nat /\ g.start < g.end
      /\ h.start \in Nat /\ h.end \in Nat /\ h.start < h.end
  BY RedactionAssumption DEF Hit
<1> QED
  BY <1>1 DEF Apart, Staggered

-----------------------------------------------------------------------------
(* FlattenSeq: what pieces give, put together from the left.               *)

(* The equation of the recursive function in FlattenSeq. *)
IsFlat(it, p) ==
    it = [i \in 1..Len(p) |-> IF i = 1 THEN p[i] ELSE it[i - 1] \o p[i]]

FlatAt(it, p, i) == it[i] = IF i = 1 THEN p[i] ELSE it[i - 1] \o p[i]

FlatUpTo(it, p, n) ==
    /\ it = [i \in 1..Len(p) |-> it[i]]
    /\ \A i \in 1..Len(p) : i <= n => FlatAt(it, p, i)

LEMMA FlatExists ==
    ASSUME NEW p, Len(p) \in Nat
    PROVE  \E it : IsFlat(it, p)
<1> DEFINE N == {n \in Nat : \E it : FlatUpTo(it, p, n)}
<1>1. 0 \in N
  <2> DEFINE it == [i \in 1..Len(p) |-> <<>>]
  <2>1. it = [i \in 1..Len(p) |-> it[i]] /\ \A i \in 1..Len(p) : ~(i <= 0)
    OBVIOUS
  <2> HIDE DEF it
  <2>2. FlatUpTo(it, p, 0)
    BY <2>1 DEF FlatUpTo
  <2> QED
    BY <2>2
<1>2. ASSUME NEW n \in Nat, n \in N
      PROVE  n + 1 \in N
  <2>1. PICK it : FlatUpTo(it, p, n)
    BY <1>2
  <2> DEFINE more == [i \in 1..Len(p) |->
                         IF i <= n THEN it[i] ELSE IF i = 1 THEN p[i] ELSE it[i - 1] \o p[i]]
  <2>2. more = [i \in 1..Len(p) |-> more[i]]
    OBVIOUS
  <2>3. ASSUME NEW i \in 1..Len(p), i <= n + 1
        PROVE  FlatAt(more, p, i)
    <3>1. i # 1 => i - 1 \in 1..Len(p) /\ i - 1 <= n /\ more[i - 1] = it[i - 1]
      BY <2>3
    <3>2. CASE i <= n
      <4>1. FlatAt(it, p, i) /\ more[i] = it[i]
        BY <2>1, <3>2 DEF FlatUpTo
      <4> QED
        BY <3>1, <4>1 DEF FlatAt
    <3>3. CASE ~(i <= n)
      <4>1. more[i] = IF i = 1 THEN p[i] ELSE it[i - 1] \o p[i]
        BY <3>3
      <4> HIDE DEF more
      <4> QED
        BY <3>1, <4>1 DEF FlatAt
    <3> QED
      BY <3>2, <3>3
  <2> HIDE DEF more
  <2>4. FlatUpTo(more, p, n + 1)
    BY <2>2, <2>3 DEF FlatUpTo
  <2> QED
    BY <2>4
<1>3. \A n \in Nat : n \in N
  <2> HIDE DEF N
  <2> QED
    BY <1>1, <1>2, SetOfNaturals
<1>4. PICK it : FlatUpTo(it, p, Len(p))
  BY <1>3
<1>5. \A i \in 1..Len(p) : FlatAt(it, p, i)
  BY <1>4 DEF FlatUpTo
<1>6. IsFlat(it, p)
  BY <1>4, <1>5 DEF IsFlat, FlatUpTo, FlatAt
<1> QED
  BY <1>6

(* it[n] is what the first n of the pieces p give. *)
Joins(it, p, S) ==
    /\ it[0] = <<>>
    /\ \A i \in 0..Len(p) : it[i] \in Seq(S)
    /\ \A i \in 0..Len(p) : i + 1 <= Len(p) => it[i + 1] = it[i] \o p[i + 1]

LEMMA PiecesJoined ==
    ASSUME NEW S, NEW p \in Seq(Seq(S))
    PROVE  \E it : Joins(it, p, S) /\ FlattenSeq(p) = it[Len(p)]
<1> DEFINE g == CHOOSE h : IsFlat(h, p)
           it == [i \in 0..Len(p) |-> IF i = 0 THEN <<>> ELSE g[i]]
<1>1. Len(p) \in Nat /\ \A i \in 1..Len(p) : p[i] \in Seq(S)
  OBVIOUS
<1>2. IsFlat(g, p)
  BY <1>1, FlatExists
<1>3. Len(p) # 0 => FlattenSeq(p) = g[Len(p)]
  BY DEF FlattenSeq, IsFlat
<1> HIDE DEF g
<1>4. \A i \in 1..Len(p) : g[i] = IF i = 1 THEN p[i] ELSE g[i - 1] \o p[i]
  BY <1>2 DEF IsFlat
<1>5. it[0] = <<>> /\ \A i \in 1..Len(p) : it[i] = g[i]
  BY <1>1
<1> HIDE DEF it
<1>6. <<>> \in Seq(S)
  OBVIOUS
<1>7. ASSUME NEW i \in 0..Len(p), i + 1 <= Len(p)
      PROVE  it[i + 1] = it[i] \o p[i + 1]
  <2>1. i + 1 \in 1..Len(p) /\ (i + 1) - 1 = i
    BY <1>1, <1>7
  <2>2. CASE i = 0
    <3>1. it[i + 1] = p[i + 1] /\ it[i] = <<>>
      BY <1>4, <1>5, <2>1, <2>2
    <3>2. <<>> \o p[i + 1] = p[i + 1]
      BY <1>1, <2>1, ConcatEmptySeq
    <3> QED
      BY <3>1, <3>2
  <2>3. CASE i # 0
    <3>1. i \in 1..Len(p) /\ i + 1 # 1
      BY <1>1, <2>3
    <3> QED
      BY <1>4, <1>5, <2>1, <3>1
  <2> QED
    BY <2>2, <2>3
<1> DEFINE N == {n \in Nat : n <= Len(p) => it[n] \in Seq(S)}
<1>8. 0 \in N
  BY <1>5, <1>6
<1>9. ASSUME NEW n \in Nat, n \in N
      PROVE  n + 1 \in N
  <2>1. SUFFICES ASSUME n + 1 <= Len(p)
                 PROVE  it[n + 1] \in Seq(S)
    OBVIOUS
  <2>2. n \in 0..Len(p) /\ n + 1 \in 1..Len(p) /\ n <= Len(p)
    BY <1>1, <2>1
  <2>3. it[n] \in Seq(S) /\ p[n + 1] \in Seq(S)
    BY <1>1, <1>9, <2>2
  <2>4. it[n + 1] = it[n] \o p[n + 1]
    BY <1>7, <2>1, <2>2
  <2> QED
    BY <2>3, <2>4, ConcatProperties
<1>10. \A n \in Nat : n \in N
  <2> HIDE DEF N
  <2> QED
    BY <1>8, <1>9, SetOfNaturals
<1>11. \A i \in 0..Len(p) : it[i] \in Seq(S)
  BY <1>1, <1>10
<1>12. FlattenSeq(p) = it[Len(p)]
  <2>1. CASE Len(p) = 0
    <3>1. FlattenSeq(p) = p /\ p = <<>>
      BY <2>1 DEF FlattenSeq
    <3> QED
      BY <1>5, <2>1, <3>1
  <2>2. CASE Len(p) # 0
    BY <1>1, <1>3, <1>5, <2>2
  <2> QED
    BY <2>1, <2>2
<1>13. Joins(it, p, S)
  BY <1>5, <1>7, <1>11 DEF Joins
<1> QED
  BY <1>12, <1>13

(* What two sequences put together start with, and what they end with. *)
LEMMA HeadOfTwo ==
    ASSUME NEW S, NEW a \in Seq(S), NEW b \in Seq(S), NEW n \in Nat, n <= Len(a)
    PROVE  SubSeq(a \o b, 1, n) = SubSeq(a, 1, n)
<1>1. CASE n = 0
  <2>1. SubSeq(a \o b, 1, 0) = <<>> /\ SubSeq(a, 1, 0) = <<>>
    BY SubSeqEmpty
  <2> QED
    BY <1>1, <2>1
<1>2. CASE n # 0
  <2>1. 1 \in 1..Len(a) /\ n \in 1..Len(a)
    BY <1>2
  <2> QED
    BY <2>1, SubSeqOfConcat1
<1> QED
  BY <1>1, <1>2

LEMMA TailOfTwo ==
    ASSUME NEW S, NEW a \in Seq(S), NEW b \in Seq(S), NEW n \in Nat, n <= Len(a)
    PROVE  SubSeq(a \o b, n + 1, Len(a \o b)) = SubSeq(a, n + 1, Len(a)) \o b
<1> DEFINE s == SubSeq(a \o b, n + 1, Len(a \o b))
           after == SubSeq(a, n + 1, Len(a))
           t == after \o b
<1>1. /\ a \o b \in Seq(S) /\ Len(a \o b) = Len(a) + Len(b)
      /\ Len(a) \in Nat /\ Len(b) \in Nat
      /\ \A i \in 1..Len(a) : (a \o b)[i] = a[i]
      /\ \A i \in 1..Len(b) : (a \o b)[Len(a) + i] = b[i]
  BY TwoParts
<1>2. /\ s \in Seq(S) /\ Len(s) = Len(a) + Len(b) - n
      /\ \A i \in 1..Len(s) : s[i] = (a \o b)[n + i]
  <2>1. \A i \in (n + 1)..Len(a \o b) : (a \o b)[i] \in S
    BY <1>1
  <2>2. \A i \in 1..(Len(a) + Len(b) - n) : i \in 1..(Len(a \o b) - (n + 1) + 1)
                                             /\ (n + 1) + i - 1 = n + i
    BY <1>1
  <2>3. IF n + 1 <= Len(a \o b) THEN Len(a \o b) - (n + 1) + 1 = Len(a) + Len(b) - n
        ELSE Len(a) + Len(b) - n = 0
    BY <1>1
  <2>4. n + 1 \in Int /\ Len(a \o b) \in Int
    BY <1>1
  <2>5. /\ s \in Seq(S)
        /\ Len(s) = IF n + 1 <= Len(a \o b) THEN Len(a \o b) - (n + 1) + 1 ELSE 0
        /\ \A i \in 1..(Len(a \o b) - (n + 1) + 1) : s[i] = (a \o b)[(n + 1) + i - 1]
    BY <2>1, <2>4, SubSeqProperties
  <2> HIDE DEF s
  <2> QED
    BY <2>2, <2>3, <2>5
<1>3. /\ after \in Seq(S) /\ Len(after) = Len(a) - n
      /\ \A i \in 1..Len(after) : after[i] = a[n + i]
  <2>1. \A i \in (n + 1)..Len(a) : a[i] \in S
    OBVIOUS
  <2>2. /\ after \in Seq(S)
        /\ Len(after) = IF n + 1 <= Len(a) THEN Len(a) - (n + 1) + 1 ELSE 0
        /\ \A i \in 1..(Len(a) - (n + 1) + 1) : after[i] = a[(n + 1) + i - 1]
    BY <1>1, <2>1, SubSeqProperties
  <2> HIDE DEF after
  <2>3. \A i \in 1..(Len(a) - n) : (n + 1) + i - 1 = n + i
    BY <1>1
  <2>4. Len(after) = Len(a) - n /\ Len(a) - (n + 1) + 1 = Len(a) - n
    BY <1>1, <2>2
  <2> QED
    BY <2>2, <2>3, <2>4
<1> HIDE DEF s, after
<1>4. /\ t \in Seq(S) /\ Len(t) = Len(after) + Len(b)
      /\ \A i \in 1..Len(after) : t[i] = after[i]
      /\ \A i \in 1..Len(b) : t[Len(after) + i] = b[i]
  <2>1. PICK c \in Seq(S) : c = after
    BY <1>3
  <2>2. /\ c \o b \in Seq(S) /\ Len(c \o b) = Len(c) + Len(b)
        /\ \A i \in 1..Len(c) : (c \o b)[i] = c[i]
        /\ \A i \in 1..Len(b) : (c \o b)[Len(c) + i] = b[i]
    BY TwoParts
  <2>3. t = c \o b
    BY <2>1
  <2> HIDE DEF t
  <2> QED
    BY <2>1, <2>2, <2>3
<1> HIDE DEF t
<1>5. ASSUME NEW i \in 1..Len(s)
      PROVE  s[i] = t[i]
  <2>1. s[i] = (a \o b)[n + i] /\ i \in Nat
    BY <1>2
  <2>2. CASE i <= Len(a) - n
    <3>1. i \in 1..Len(after) /\ n + i \in 1..Len(a)
      BY <1>1, <1>3, <2>1, <2>2
    <3> QED
      BY <1>1, <1>3, <1>4, <2>1, <3>1
  <2>3. CASE i > Len(a) - n
    <3> DEFINE k == i - Len(after)
    <3>1. k \in 1..Len(b) /\ n + i = Len(a) + k /\ i = Len(after) + k
      BY <1>1, <1>2, <1>3, <2>1, <2>3
    <3> HIDE DEF k
    <3> QED
      BY <1>1, <1>4, <2>1, <3>1
  <2>4. i <= Len(a) - n \/ i > Len(a) - n
    BY <1>1, <2>1
  <2> QED
    BY <2>2, <2>3, <2>4
<1>6. Len(s) = Len(t)
  BY <1>1, <1>2, <1>3, <1>4
<1>7. s = t
  BY <1>2, <1>4, <1>5, <1>6, SeqEqual
<1> QED
  BY <1>7 DEF s, t, after

(* A front, and behind it what a has behind its e-th element. *)
IsBehind(b, front, a, e) == b = front \o SubSeq(a, e + 1, Len(a))

LEMMA BehindThat ==
    ASSUME NEW S, NEW front \in Seq(S), NEW after \in Seq(S), NEW x \in Seq(S),
           NEW b, b = front \o after,
           NEW c, NEW e, SubSeq(c, e + 1, Len(c)) = after \o x
    PROVE  IsBehind(b \o x, front, c, e)
<1>1. (front \o after) \o x = front \o (after \o x)
  BY ConcatAssociative
<1> QED
  BY <1>1 DEF IsBehind

LEMMA MoreBehind ==
    ASSUME NEW S, NEW front \in Seq(S), NEW a \in Seq(S), NEW x \in Seq(S),
           NEW e \in Nat, e <= Len(a), NEW b, IsBehind(b, front, a, e)
    PROVE  IsBehind(b \o x, front, a \o x, e)
<1>1. /\ \A i \in (e + 1)..Len(a) : a[i] \in S
      /\ e + 1 \in Int /\ Len(a) \in Int
  OBVIOUS
<1>2. PICK after \in Seq(S) : after = SubSeq(a, e + 1, Len(a))
  BY <1>1, SubSeqProperties
<1>3. SubSeq(a \o x, e + 1, Len(a \o x)) = after \o x
  BY <1>2, TailOfTwo
<1>4. after \in Seq(S) /\ b = front \o after
  BY <1>2 DEF IsBehind
<1> QED
  BY <1>3, <1>4, BehindThat

(* The pieces p and q differ where q has a mark for the pieces s + 1 to e, *)
(* and up to e those of p are single characters.                           *)
MarkedAt(x, y, s, e, mark, i) ==
    /\ i <= e => Len(x) = 1
    /\ i <= s \/ i > e => y = x
    /\ i = s + 1 => y = mark
    /\ i > s + 1 /\ i <= e => y = <<>>

Marked(p, q, s, e, mark) == \A i \in DOMAIN p : MarkedAt(p[i], q[i], s, e, mark, i)

(* What the first n of them give, a and b, and the first s, the front      *)
(* being these and the mark.                                               *)
MarkedUpTo(a, b, first, front, s, e, n) ==
    /\ n <= e => Len(a) = n
    /\ n >= e => Len(a) >= e
    /\ n <= s => b = a
    /\ n >= s => SubSeq(a, 1, s) = first
    /\ n > s /\ n <= e => b = front
    /\ n >= e => IsBehind(b, front, a, e)

MeetsAt(a, x, first, s, m) == m = s => a \o x = first

LEMMA MarkedStep ==
    ASSUME NEW S, NEW s \in Nat, NEW e \in Nat, s < e,
           NEW n \in Nat, NEW m \in Nat, m = n + 1,
           NEW first, NEW mark, NEW front \in Seq(S), front = first \o mark,
           NEW a \in Seq(S), NEW b, MarkedUpTo(a, b, first, front, s, e, n),
           NEW x \in Seq(S), NEW y,
           MarkedAt(x, y, s, e, mark, m), MeetsAt(a, x, first, s, m)
    PROVE  MarkedUpTo(a \o x, b \o y, first, front, s, e, m)
<1>1. PICK c \in Seq(S) : c = a \o x
  BY TwoParts
<1>2. PICK d : d = b \o y
  OBVIOUS
<1>3. Len(a) \in Nat /\ Len(x) \in Nat /\ Len(c) = Len(a) + Len(x)
  BY <1>1, TwoParts
<1>4. /\ n <= e => Len(a) = n
      /\ n >= e => Len(a) >= e
      /\ n <= s => b = a
      /\ n >= s => SubSeq(a, 1, s) = first
      /\ n > s /\ n <= e => b = front
      /\ n >= e => IsBehind(b, front, a, e)
  BY DEF MarkedUpTo
<1>5. /\ m <= e => Len(x) = 1
      /\ m <= s \/ m > e => y = x
      /\ m = s + 1 => y = mark
      /\ m > s + 1 /\ m <= e => y = <<>>
      /\ m = s => c = first
  BY <1>1 DEF MarkedAt, MeetsAt
<1>6. /\ m <= e => n <= e
      /\ m <= s => n <= s
      /\ n >= e => m > e
      /\ m = s + 1 <=> n = s
      /\ m > s + 1 <=> n > s
  OBVIOUS
<1>7. /\ m <= e => Len(c) = m
      /\ m >= e => Len(c) >= e
  <2>1. m <= e => Len(c) = m
    <3>1. m <= e => Len(a) = n /\ Len(x) = 1
      BY <1>4, <1>5, <1>6
    <3> QED
      BY <1>3, <3>1
  <2>2. n >= e => Len(c) >= e
    <3>1. n >= e => Len(a) >= e
      BY <1>4
    <3> QED
      BY <1>3, <3>1
  <2>3. m >= e => m = e \/ n >= e
    OBVIOUS
  <2> QED
    BY <2>1, <2>2, <2>3
<1>8. m <= s => d = c
  <2>1. m <= s => n <= s /\ y = x
    BY <1>5, <1>6
  <2> QED
    BY <1>1, <1>2, <1>4, <2>1
<1>9. m >= s => SubSeq(c, 1, s) = first
  <2>1. CASE n >= s
    <3>1. s <= Len(a)
      BY <1>3, <1>4, <2>1
    <3>2. SubSeq(a \o x, 1, s) = SubSeq(a, 1, s)
      BY <3>1, HeadOfTwo
    <3> QED
      BY <1>1, <1>4, <2>1, <3>2
  <2>2. CASE m = s
    <3>1. Len(c) = s /\ c = first
      BY <1>7, <1>5, <2>2
    <3>2. SubSeq(c, 1, Len(c)) = c
      BY SubSeqFull
    <3> QED
      BY <3>1, <3>2
  <2>3. m >= s => n >= s \/ m = s
    OBVIOUS
  <2> QED
    BY <2>1, <2>2, <2>3
<1>10. m > s /\ m <= e => d = front
  <2>1. CASE n = s
    <3>1. SubSeq(a, 1, s) = first /\ Len(a) = s /\ b = a /\ y = mark
      <4>1. n >= s /\ n <= s /\ n <= e
        BY <2>1
      <4> QED
        BY <1>4, <1>5, <1>6, <2>1, <4>1
    <3>2. SubSeq(a, 1, Len(a)) = a
      BY SubSeqFull
    <3> QED
      BY <1>2, <3>1, <3>2
  <2>2. CASE n > s /\ m <= e
    <3>1. b = front /\ y = <<>>
      BY <1>4, <1>5, <1>6, <2>2
    <3>2. front \o <<>> = front
      BY ConcatEmptySeq
    <3> QED
      BY <1>2, <3>1, <3>2
  <2>3. m > s => n = s \/ n > s
    OBVIOUS
  <2> QED
    BY <2>1, <2>2, <2>3
<1>11. m >= e => IsBehind(d, front, c, e)
  <2>1. CASE m = e
    <3>1. Len(c) = e /\ d = front
      BY <1>7, <1>10, <2>1
    <3>2. SubSeq(c, e + 1, e) = <<>>
      BY SubSeqEmpty
    <3>3. front \o <<>> = front
      BY ConcatEmptySeq
    <3> QED
      BY <3>1, <3>2, <3>3 DEF IsBehind
  <2>2. CASE n >= e
    <3>1. IsBehind(b, front, a, e) /\ e <= Len(a)
      BY <1>4, <2>2
    <3>2. IsBehind(b \o x, front, a \o x, e)
      BY <3>1, MoreBehind
    <3>3. y = x
      BY <1>5, <1>6, <2>2
    <3> QED
      BY <1>1, <1>2, <3>2, <3>3
  <2>3. m >= e => m = e \/ n >= e
    OBVIOUS
  <2> QED
    BY <2>1, <2>2, <2>3
<1>12. MarkedUpTo(c, d, first, front, s, e, m)
  BY <1>7, <1>8, <1>9, <1>10, <1>11 DEF MarkedUpTo
<1> QED
  BY <1>1, <1>2, <1>12

(* Then q gives what p gives, with the mark in the place of the characters *)
(* s + 1 to e.                                                             *)
LEMMA MarkedPieces ==
    ASSUME NEW S, NEW p \in Seq(Seq(S)), NEW q \in Seq(Seq(S)), Len(p) = Len(q),
           NEW s \in Nat, NEW e \in Nat, s < e, e <= Len(p), NEW mark \in Seq(S),
           Marked(p, q, s, e, mark)
    PROVE  IsBehind(FlattenSeq(q), SubSeq(FlattenSeq(p), 1, s) \o mark, FlattenSeq(p), e)
<1>1. PICK f : Joins(f, p, S) /\ FlattenSeq(p) = f[Len(p)]
  BY PiecesJoined
<1>2. PICK g : Joins(g, q, S) /\ FlattenSeq(q) = g[Len(q)]
  BY PiecesJoined
<1> DEFINE front == f[s] \o mark
           N == {n \in Nat : n <= Len(p) => MarkedUpTo(f[n], g[n], f[s], front, s, e, n)}
<1>3. front \in Seq(S)
  <2>1. s \in 0..Len(p)
    OBVIOUS
  <2>2. f[s] \in Seq(S)
    BY <1>1, <2>1 DEF Joins
  <2> QED
    BY <2>2, TwoParts
<1>4. 0 \in N
  <2>1. f[0] = <<>> /\ g[0] = <<>> /\ Len(<<>>) = 0
    BY <1>1, <1>2 DEF Joins
  <2>2. s = 0 => SubSeq(f[0], 1, s) = f[s]
    <3>1. SubSeq(f[0], 1, 0) = <<>>
      BY SubSeqEmpty
    <3> QED
      BY <2>1, <3>1
  <2>3. ~(0 >= e) /\ ~(0 > s) /\ (0 >= s => s = 0)
    OBVIOUS
  <2>4. MarkedUpTo(f[0], g[0], f[s], front, s, e, 0)
    BY <2>1, <2>2, <2>3 DEF MarkedUpTo
  <2> QED
    BY <2>4
<1>5. ASSUME NEW n \in Nat, n \in N
      PROVE  n + 1 \in N
  <2>1. SUFFICES ASSUME n + 1 <= Len(p)
                 PROVE  MarkedUpTo(f[n + 1], g[n + 1], f[s], front, s, e, n + 1)
    OBVIOUS
  <2>2. PICK m \in Nat : m = n + 1
    OBVIOUS
  <2>3. /\ n \in 0..Len(p) /\ n \in 0..Len(q) /\ n + 1 <= Len(q) /\ n <= Len(p)
        /\ s \in 0..Len(p) /\ m \in 1..Len(p) /\ m \in 1..Len(q) /\ m \in DOMAIN p
    <3>1. Len(p) \in Nat /\ DOMAIN p = 1..Len(p)
      OBVIOUS
    <3> QED
      BY <2>1, <2>2, <3>1
  <2>4. f[m] = f[n] \o p[m] /\ f[n] \in Seq(S) /\ f[s] \in Seq(S)
    BY <1>1, <2>1, <2>2, <2>3 DEF Joins
  <2>5. g[m] = g[n] \o q[m] /\ g[n] \in Seq(S)
    BY <1>2, <2>2, <2>3 DEF Joins
  <2>6. p[m] \in Seq(S) /\ q[m] \in Seq(S)
    BY <2>3
  <2>7. MarkedAt(p[m], q[m], s, e, mark, m)
    BY <2>3 DEF Marked
  <2>8. MarkedUpTo(f[n], g[n], f[s], front, s, e, n)
    BY <1>5, <2>3
  <2>9. MeetsAt(f[n], p[m], f[s], s, m)
    BY <2>4 DEF MeetsAt
  <2>10. MarkedUpTo(f[n] \o p[m], g[n] \o q[m], f[s], front, s, e, m)
    BY <1>3, <2>2, <2>4, <2>5, <2>6, <2>7, <2>8, <2>9, MarkedStep
  <2> QED
    BY <2>2, <2>4, <2>5, <2>10
<1>6. \A n \in Nat : n \in N
  <2> HIDE DEF N
  <2> QED
    BY <1>4, <1>5, SetOfNaturals
<1>7. MarkedUpTo(f[Len(p)], g[Len(p)], f[s], front, s, e, Len(p))
  BY <1>6
<1>8. Len(p) >= e /\ Len(p) >= s
  OBVIOUS
<1> QED
  BY <1>1, <1>2, <1>7, <1>8 DEF MarkedUpTo

-----------------------------------------------------------------------------
(* What a text is made of when the hits H of it are replaced.              *)
PieceOf(i, H) ==
    IF \E h \in H : hits[h].start = i - 1
    THEN Placeholder(hits[CHOOSE h \in H : hits[h].start = i - 1].entity)
    ELSE IF \E h \in H : Covers(hits[h], i) THEN <<>> ELSE <<TextCell(i)>>

Pieces(H) == [i \in 1..Length |-> PieceOf(i, H)]

LEMMA PieceFacts ==
    ASSUME NEW i, NEW H
    PROVE  /\ \A h \in H :
                 hits[h].start = i - 1 /\ (\A g \in H : hits[g].start = i - 1 => g = h)
                     => PieceOf(i, H) = Placeholder(hits[h].entity)
           /\ (\A h \in H : hits[h].start # i - 1) /\ (\E h \in H : Covers(hits[h], i))
                  => PieceOf(i, H) = <<>>
           /\ (\A h \in H : hits[h].start # i - 1 /\ ~Covers(hits[h], i))
                  => PieceOf(i, H) = <<TextCell(i)>>
<1>1. ASSUME NEW h \in H, hits[h].start = i - 1, \A g \in H : hits[g].start = i - 1 => g = h
      PROVE  PieceOf(i, H) = Placeholder(hits[h].entity)
  <2>1. (CHOOSE g \in H : hits[g].start = i - 1) = h
    BY <1>1
  <2> QED
    BY <1>1, <2>1 DEF PieceOf
<1> QED
  BY <1>1 DEF PieceOf

(* A placeholder is a sequence of characters, a hit lies within the text.  *)
LEMMA HitFacts ==
    ASSUME NEW hit \in Hit
    PROVE  /\ hit.start \in Nat /\ hit.end \in Nat
           /\ hit.start < hit.end /\ hit.end <= Length
           /\ Placeholder(hit.entity) \in Seq(Cell)
<1>1. /\ hit.start \in Nat /\ hit.end \in Nat /\ hit.start < hit.end /\ hit.end <= Length
      /\ hit.entity \in Patterns
  BY RedactionAssumption DEF Hit
<1>2. Width[hit.entity] \in Nat
  BY <1>1, RedactionAssumption
<1>3. \A i \in 1..Width[hit.entity] : [entity |-> hit.entity, at |-> i] \in Cell
  BY <1>1 DEF Cell
<1>4. Placeholder(hit.entity) \in Seq(Cell)
  BY <1>2, <1>3 DEF Placeholder
<1> QED
  BY <1>1, <1>4

LEMMA PiecesType ==
    ASSUME TypeOK, NEW H \in SUBSET DOMAIN hits
    PROVE  Pieces(H) \in Seq(Seq(Cell)) /\ Len(Pieces(H)) = Length
<1>1. ASSUME NEW i \in 1..Length
      PROVE  PieceOf(i, H) \in Seq(Cell)
  <2>1. TextCell(i) \in Cell
    BY RedactionAssumption DEF TextCell, Cell
  <2>2. <<>> \in Seq(Cell) /\ <<TextCell(i)>> \in Seq(Cell)
    BY <2>1
  <2>3. \A h \in H : Placeholder(hits[h].entity) \in Seq(Cell)
    BY HitFacts DEF TypeOK
  <2> DEFINE starting == CHOOSE h \in H : hits[h].start = i - 1
  <2>4. (\E h \in H : hits[h].start = i - 1) => starting \in H
    OBVIOUS
  <2> HIDE DEF starting
  <2>5. PieceOf(i, H) = IF \E h \in H : hits[h].start = i - 1
                        THEN Placeholder(hits[starting].entity)
                        ELSE IF \E h \in H : Covers(hits[h], i) THEN <<>> ELSE <<TextCell(i)>>
    BY DEF PieceOf, starting
  <2> QED
    BY <2>2, <2>3, <2>4, <2>5
<1> QED
  BY <1>1, RedactionAssumption DEF Pieces

(* Before any is, it is the text. *)
LEMMA NoPieceReplaced == FlattenSeq(Pieces({})) = [i \in 1..Length |-> TextCell(i)]
<1> DEFINE p == Pieces({})
           T(n) == [i \in 1..n |-> TextCell(i)]
<1>1. Length \in Nat
  BY RedactionAssumption
<1>2. \A i \in 1..Length : p[i] = <<TextCell(i)>>
  BY DEF Pieces, PieceOf
<1>3. \A i \in Nat : TextCell(i) \in Cell
  BY DEF TextCell, Cell
<1>4. \A i \in 1..Length : <<TextCell(i)>> \in Seq(Cell)
  BY <1>1, <1>3
<1>5. \A i \in 1..Length : PieceOf(i, {}) \in Seq(Cell)
  BY <1>4 DEF PieceOf
<1>6. p \in Seq(Seq(Cell)) /\ Len(p) = Length
  BY <1>1, <1>5 DEF Pieces
<1> HIDE DEF p
<1>7. PICK it : Joins(it, p, Cell) /\ FlattenSeq(p) = it[Length]
  BY <1>6, PiecesJoined
<1> DEFINE N == {n \in Nat : n <= Length => it[n] = T(n)}
<1>8. 0 \in N
  <2>1. it[0] = <<>> /\ T(0) = <<>>
    BY <1>7 DEF Joins
  <2> QED
    BY <2>1
<1>9. ASSUME NEW n \in Nat, n \in N
      PROVE  n + 1 \in N
  <2>1. SUFFICES ASSUME n + 1 <= Length
                 PROVE  it[n + 1] = T(n + 1)
    OBVIOUS
  <2>2. n \in 0..Length /\ n <= Length /\ n + 1 \in 1..Length
    BY <1>1, <2>1
  <2>3. it[n + 1] = it[n] \o p[n + 1] /\ it[n] = T(n)
    BY <1>6, <1>7, <1>9, <2>1, <2>2 DEF Joins
  <2>4. it[n + 1] = T(n) \o <<TextCell(n + 1)>>
    BY <1>2, <2>2, <2>3
  <2>5. T(n) \o <<TextCell(n + 1)>> = T(n + 1)
    <3> DEFINE a == T(n)
               b == <<TextCell(n + 1)>>
               c == T(n + 1)
    <3>1. /\ a \in Seq(Cell) /\ Len(a) = n /\ \A i \in 1..n : a[i] = TextCell(i)
          /\ b \in Seq(Cell) /\ Len(b) = 1 /\ b[1] = TextCell(n + 1)
          /\ c \in Seq(Cell) /\ Len(c) = n + 1 /\ \A i \in 1..(n + 1) : c[i] = TextCell(i)
      BY <1>3
    <3> HIDE DEF a, b, c
    <3>2. /\ a \o b \in Seq(Cell) /\ Len(a \o b) = Len(a) + Len(b)
          /\ \A i \in 1..Len(a) : (a \o b)[i] = a[i]
          /\ \A i \in 1..Len(b) : (a \o b)[Len(a) + i] = b[i]
      <4>1. a \in Seq(Cell) /\ b \in Seq(Cell)
        BY <3>1
      <4> QED
        BY <4>1, TwoParts
    <3>3. \A i \in 1..(n + 1) : i \in 1..n \/ i = n + 1
      OBVIOUS
    <3>4. Len(a \o b) = Len(c) /\ \A i \in 1..Len(a \o b) : (a \o b)[i] = c[i]
      BY <3>1, <3>2, <3>3
    <3>5. a \o b = c
      BY <3>1, <3>2, <3>4, SeqEqual
    <3> QED
      BY <3>5 DEF a, b, c
  <2> QED
    BY <2>4, <2>5
<1>10. \A n \in Nat : n \in N
  <2> HIDE DEF N
  <2> QED
    BY <1>8, <1>9, SetOfNaturals
<1>11. it[Length] = T(Length)
  BY <1>1, <1>10
<1> QED
  BY <1>7, <1>11 DEF p

(* Replacing a hit to the left of those that are, puts its placeholder in  *)
(* the place of its characters.                                            *)
LEMMA OneReplaced ==
    ASSUME TypeOK, Pairwise(Apart), NEW H \in SUBSET DOMAIN hits,
           NEW n \in DOMAIN hits, n \notin H,
           \A g \in H : hits[n].start <= hits[g].start
    PROVE  Marked(Pieces(H), Pieces(H \cup {n}), hits[n].start, hits[n].end,
                  Placeholder(hits[n].entity))
<1> DEFINE s == hits[n].start
           e == hits[n].end
           more == H \cup {n}
<1>1. \A h \in DOMAIN hits :
          hits[h].start \in Nat /\ hits[h].end \in Nat /\ hits[h].start < hits[h].end
  BY HitFacts DEF TypeOK
<1>2. s \in Nat /\ e \in Nat /\ s < e
  BY <1>1
<1>3. \A g \in H : e <= hits[g].start
  <2> TAKE g \in H
  <2>1. Apart(hits[n], hits[g])
    BY DEF Pairwise
  <2>2. hits[n] \in Hit /\ hits[g] \in Hit
    BY DEF TypeOK
  <2> QED
    BY <2>1, <2>2, HitOrder
<1>4. \A g, h \in DOMAIN hits : hits[g].start = hits[h].start => g = h
  <2> SUFFICES ASSUME NEW g \in DOMAIN hits, NEW h \in DOMAIN hits,
                      hits[g].start = hits[h].start, g # h
               PROVE  FALSE
    OBVIOUS
  <2>1. Apart(hits[g], hits[h])
    BY DEF Pairwise
  <2>2. /\ hits[g].start \in Nat /\ hits[g].end \in Nat /\ hits[g].start < hits[g].end
        /\ hits[h].end \in Nat /\ hits[h].start < hits[h].end
    BY <1>1
  <2>3. hits[g].end <= hits[h].start \/ hits[h].end <= hits[g].start
    BY <2>1 DEF Apart
  <2>4. hits[g].start = hits[h].start
    OBVIOUS
  <2> QED
    BY <2>2, <2>3, <2>4
<1> SUFFICES ASSUME NEW i \in 1..Length
             PROVE  MarkedAt(PieceOf(i, H), PieceOf(i, more), s, e,
                             Placeholder(hits[n].entity), i)
  BY DEF Marked, Pieces
<1>5. i \in Nat /\ i - 1 \in Int /\ i - 1 < i
  BY RedactionAssumption
<1> HIDE DEF s, e
<1>6. s = hits[n].start /\ (Covers(hits[n], i) <=> s < i /\ i <= e)
  BY DEF s, e, Covers
<1>7. i <= e => \A g \in H : hits[g].start # i - 1 /\ ~Covers(hits[g], i)
  BY <1>1, <1>2, <1>3, <1>5 DEF Covers
<1>8. i <= e => PieceOf(i, H) = <<TextCell(i)>>
  BY <1>7, PieceFacts
<1>9. i <= s => PieceOf(i, more) = <<TextCell(i)>>
  <2> SUFFICES ASSUME i <= s
               PROVE  PieceOf(i, more) = <<TextCell(i)>>
    OBVIOUS
  <2>1. i <= e /\ s # i - 1 /\ ~(s < i)
    BY <1>2, <1>5
  <2>2. \A h \in more : hits[h].start # i - 1 /\ ~Covers(hits[h], i)
    BY <1>6, <1>7, <2>1
  <2> QED
    BY <2>2, PieceFacts
<1>10. i > e => PieceOf(i, more) = PieceOf(i, H)
  <2> SUFFICES ASSUME i > e
               PROVE  PieceOf(i, more) = PieceOf(i, H)
    OBVIOUS
  <2>1. s # i - 1 /\ ~Covers(hits[n], i)
    BY <1>2, <1>5, <1>6
  <2>2. CASE \E h \in H : hits[h].start = i - 1
    <3>1. PICK h \in H : hits[h].start = i - 1
      BY <2>2
    <3>2. \A g \in more : hits[g].start = i - 1 => g = h
      BY <1>4, <3>1
    <3>3. PieceOf(i, more) = Placeholder(hits[h].entity)
      BY <3>1, <3>2, PieceFacts
    <3>4. PieceOf(i, H) = Placeholder(hits[h].entity)
      BY <3>1, <3>2, PieceFacts
    <3> QED
      BY <3>3, <3>4
  <2>3. CASE (\A h \in H : hits[h].start # i - 1) /\ (\E h \in H : Covers(hits[h], i))
    <3>1. \A h \in more : hits[h].start # i - 1
      BY <1>6, <2>1, <2>3
    <3>2. \E h \in more : Covers(hits[h], i)
      BY <2>3
    <3>3. PieceOf(i, more) = <<>>
      BY <3>1, <3>2, PieceFacts
    <3>4. PieceOf(i, H) = <<>>
      BY <2>3, PieceFacts
    <3> QED
      BY <3>3, <3>4
  <2>4. CASE \A h \in H : hits[h].start # i - 1 /\ ~Covers(hits[h], i)
    <3>1. \A h \in more : hits[h].start # i - 1 /\ ~Covers(hits[h], i)
      BY <1>6, <2>1, <2>4
    <3>2. PieceOf(i, more) = <<TextCell(i)>>
      BY <3>1, PieceFacts
    <3>3. PieceOf(i, H) = <<TextCell(i)>>
      BY <2>4, PieceFacts
    <3> QED
      BY <3>2, <3>3
  <2> QED
    BY <2>2, <2>3, <2>4
<1>11. i = s + 1 => PieceOf(i, more) = Placeholder(hits[n].entity)
  <2> SUFFICES ASSUME i = s + 1
               PROVE  PieceOf(i, more) = Placeholder(hits[n].entity)
    OBVIOUS
  <2>1. hits[n].start = i - 1
    BY <1>2, <1>6
  <2>2. \A g \in more : hits[g].start = i - 1 => g = n
    BY <1>4, <2>1
  <2> QED
    BY <2>1, <2>2, PieceFacts
<1>12. i > s + 1 /\ i <= e => PieceOf(i, more) = <<>>
  <2> SUFFICES ASSUME i > s + 1, i <= e
               PROVE  PieceOf(i, more) = <<>>
    OBVIOUS
  <2>1. s # i - 1 /\ s < i
    BY <1>2, <1>5
  <2>2. Covers(hits[n], i) /\ \A h \in more : hits[h].start # i - 1
    BY <1>6, <1>7, <2>1
  <2> QED
    BY <2>2, PieceFacts
<1>13. Len(<<TextCell(i)>>) = 1
  OBVIOUS
<1>14. i <= s => i <= e
  BY <1>2, <1>5
<1> HIDE DEF more
<1> QED
  BY <1>8, <1>9, <1>10, <1>11, <1>12, <1>13, <1>14 DEF MarkedAt

LEMMA CutPieces ==
    ASSUME TypeOK, Pairwise(Apart), NEW H \in SUBSET DOMAIN hits,
           NEW n \in DOMAIN hits, n \notin H,
           \A g \in H : hits[n].start <= hits[g].start
    PROVE  Cut(FlattenSeq(Pieces(H)), hits[n]) = FlattenSeq(Pieces(H \cup {n}))
<1> DEFINE p == Pieces(H)
           q == Pieces(H \cup {n})
           s == hits[n].start
           e == hits[n].end
           mark == Placeholder(hits[n].entity)
<1>1. /\ p \in Seq(Seq(Cell)) /\ Len(p) = Length
      /\ q \in Seq(Seq(Cell)) /\ Len(q) = Length
  BY PiecesType
<1>2. s \in Nat /\ e \in Nat /\ s < e /\ e <= Length /\ mark \in Seq(Cell)
  BY HitFacts DEF TypeOK
<1>3. Marked(p, q, s, e, mark)
  BY OneReplaced
<1>4. Cut(FlattenSeq(p), hits[n])
          = SubSeq(FlattenSeq(p), 1, s) \o mark
                \o SubSeq(FlattenSeq(p), e + 1, Len(FlattenSeq(p)))
  BY DEF Cut
<1> HIDE DEF p, q, s, e, mark
<1>5. IsBehind(FlattenSeq(q), SubSeq(FlattenSeq(p), 1, s) \o mark, FlattenSeq(p), e)
  <2>1. Len(p) = Len(q) /\ e <= Len(p)
    BY <1>1, <1>2
  <2>2. p \in Seq(Seq(Cell)) /\ q \in Seq(Seq(Cell))
    BY <1>1
  <2> QED
    BY <1>2, <1>3, <2>1, <2>2, MarkedPieces
<1>6. Cut(FlattenSeq(p), hits[n]) = FlattenSeq(q)
  BY <1>4, <1>5 DEF IsBehind
<1> QED
  BY <1>6 DEF p, q

-----------------------------------------------------------------------------
(* The text as it came. *)
Untouched(text) == text = [i \in 1..Length |-> TextCell(i)]

Gone == DOMAIN hits \ left

(* What is true while hits are replaced.  Up to the start of every hit     *)
(* that is still to come the text is untouched.  If hits are staggered, no *)
(* character of a replaced hit is left, and whatever now lies behind the   *)
(* end of a hit to come lay behind it in the original.                     *)
PrefixInv ==
    \A h \in left :
        /\ hits[h].start <= Len(result)
        /\ \A i \in 1..hits[h].start : result[i] = TextCell(i)

StaggeredInv ==
    Pairwise(Staggered) =>
        \A i \in DOMAIN result :
            result[i].entity = "text" =>
                /\ \A g \in Gone : ~Covers(hits[g], result[i].at)
                /\ \A h \in left : i > hits[h].end => result[i].at > hits[h].end

(* If no two overlap, the text is made of placeholders for those hits that *)
(* have been replaced, none of which starts to the left of one to come.    *)
ExactInv ==
    Pairwise(Apart) =>
        /\ result = FlattenSeq(Pieces(Gone))
        /\ \A g \in Gone, h \in left : hits[h].start <= hits[g].start

IInv ==
    /\ TypeOK
    /\ pc = "finding" => left = {} /\ Untouched(result)
    /\ pc = "done" => left = {}
    /\ pc # "finding" => PrefixInv /\ StaggeredInv /\ OffsetsValid /\ ExactInv

LEMMA InitIInv == Init => IInv
<1> SUFFICES ASSUME Init PROVE IInv
  OBVIOUS
<1>1. result \in Seq(Cell)
  <2>1. \A i \in 1..Length : TextCell(i) \in Cell
    BY RedactionAssumption DEF TextCell, Cell
  <2> QED
    BY <2>1, RedactionAssumption DEF Init
<1>2. TypeOK
  BY <1>1, RedactionAssumption DEF Init, TypeOK
<1> QED
  BY <1>2 DEF Init, IInv, Untouched

(* find_pii leaves the text alone. *)
LEMMA FindKeeps ==
    ASSUME IInv, FindMatch \/ NextEntity
    PROVE  IInv'
<1>1. CASE FindMatch
  <2>1. PICK hit \in Hit, valid \in BOOLEAN :
            /\ hit.entity = Entities[entity] /\ hit.start >= from
            /\ hits' = IF valid THEN Append(hits, hit) ELSE hits
            /\ from' = hit.end
    BY <1>1 DEF FindMatch, ResumesAt
  <2>2. hits' \in Seq(Hit) /\ from' \in 0..Length
    BY <2>1 DEF IInv, TypeOK, Hit
  <2> QED
    BY <1>1, <2>2 DEF FindMatch, Searching, IInv, TypeOK, Untouched
<1>2. CASE NextEntity
  BY <1>2, RedactionAssumption DEF NextEntity, Searching, IInv, TypeOK, Untouched
<1> QED
  BY <1>1, <1>2

LEMMA StartKeeps ==
    ASSUME IInv, StartRedacting
    PROVE  IInv'
<1>1. /\ pc' = "redacting" /\ left' = DOMAIN hits
      /\ UNCHANGED <<entity, from, hits, result>>
      /\ Untouched(result)
  BY DEF StartRedacting, IInv
<1>2. Len(result) = Length /\ \A i \in 1..Length : result[i] = TextCell(i)
  BY <1>1, RedactionAssumption DEF Untouched, IInv, TypeOK
<1>3. \A h \in DOMAIN hits : hits[h] \in Hit
  BY DEF IInv, TypeOK
<1>4. \A h \in DOMAIN hits : hits[h].end \in 0..Length /\ hits[h].start \in 0..hits[h].end
  BY <1>3, RedactionAssumption DEF Hit
<1>5. TypeOK'
  BY <1>1 DEF IInv, TypeOK
<1>6. PrefixInv' /\ OffsetsValid'
  BY <1>1, <1>2, <1>4, RedactionAssumption DEF PrefixInv, OffsetsValid
<1>7. StaggeredInv'
  BY <1>1, <1>2 DEF StaggeredInv, Gone, TextCell, IInv, TypeOK
<1>8. ExactInv'
  <2>1. Gone' = {}
    BY <1>1 DEF Gone
  <2>2. Pieces({})' = Pieces({})
    BY DEF Pieces, PieceOf
  <2>3. result' = FlattenSeq(Pieces({}))
    BY <1>1, NoPieceReplaced DEF Untouched
  <2>4. (FlattenSeq(Pieces(Gone)))' = FlattenSeq(Pieces({}))
    BY <2>1, <2>2
  <2> QED
    BY <2>1, <2>3, <2>4 DEF ExactInv
<1> QED
  BY <1>1, <1>5, <1>6, <1>7, <1>8 DEF IInv

(* Replacing a hit: those still to come start, and if staggered end, to    *)
(* the left of it.                                                         *)
LEMMA ReplaceKeeps ==
    ASSUME IInv, Replace
    PROVE  IInv'
<1>1. PICK n \in left :
          IsNext(n) /\ result' = Cut(result, hits[n]) /\ left' = left \ {n}
  BY DEF Replace
<1>2. pc = "redacting" /\ UNCHANGED <<pc, entity, from, hits>>
  BY DEF Replace
<1>3. TypeOK /\ PrefixInv /\ StaggeredInv /\ OffsetsValid /\ ExactInv
  BY <1>2 DEF IInv
<1>4. \A h \in left :
          /\ hits[h] \in Hit
          /\ hits[h].start \in Nat /\ hits[h].end \in Nat /\ hits[h].start < hits[h].end
  <2>1. \A h \in left : hits[h] \in Hit
    BY <1>3 DEF TypeOK
  <2> QED
    BY <2>1, RedactionAssumption DEF Hit
<1>5. hits[n].start <= Len(result) /\ \A i \in 1..hits[n].start : result[i] = TextCell(i)
  BY <1>3 DEF PrefixInv
<1>6. /\ result' \in Seq(Cell)
      /\ Len(result') >= hits[n].start
      /\ \A i \in 1..hits[n].start : result'[i] = result[i]
      /\ \A i \in DOMAIN result' :
             \/ i <= hits[n].start
             \/ result'[i].entity \in Patterns
             \/ \E j \in DOMAIN result : j > hits[n].end /\ result'[i] = result[j]
  BY <1>1, <1>3, <1>4, <1>5, CutText DEF TypeOK
<1>7. \A h \in left' : h \in left /\ h # n /\ hits[h].start <= hits[n].start
  BY <1>1, <1>4 DEF IsNext
<1>8. Len(result) \in Nat /\ Len(result') \in Nat
  BY <1>3, <1>6 DEF TypeOK
<1>9. TypeOK'
  BY <1>1, <1>2, <1>3, <1>6 DEF TypeOK
<1>10. PrefixInv'
  <2> SUFFICES ASSUME NEW h \in left'
               PROVE  /\ hits[h].start <= Len(result')
                      /\ \A i \in 1..hits[h].start : result'[i] = TextCell(i)
    BY <1>2 DEF PrefixInv
  <2>1. hits[h].start \in Nat /\ hits[n].start \in Nat /\ hits[h].start <= hits[n].start
    BY <1>1, <1>4, <1>7
  <2> QED
    BY <1>5, <1>6, <1>8, <2>1
<1>11. OffsetsValid'
  <2> SUFFICES ASSUME Pairwise(Apart), NEW h \in left'
               PROVE  /\ hits[h].end <= Len(result')
                      /\ \A i \in 1..hits[h].end : result'[i] = TextCell(i)
    BY <1>2 DEF OffsetsValid, Pairwise
  <2>1. Apart(hits[h], hits[n])
    BY <1>3, <1>7 DEF Pairwise, TypeOK
  <2>2. /\ hits[h].end \in Nat /\ hits[h].start \in Nat
        /\ hits[n].end \in Nat /\ hits[n].start \in Nat
        /\ hits[n].start < hits[n].end /\ hits[h].start <= hits[n].start
    BY <1>1, <1>4, <1>7
  <2>3. hits[h].end <= hits[n].start
    BY <1>1, <1>4, <1>7, <2>1, HitOrder
  <2> QED
    BY <1>5, <1>6, <1>8, <2>2, <2>3
<1>12. StaggeredInv'
  <2> SUFFICES ASSUME Pairwise(Staggered), NEW i \in DOMAIN result', result'[i].entity = "text"
               PROVE  /\ \A g \in Gone' : ~Covers(hits[g], result'[i].at)
                      /\ \A h \in left' : i > hits[h].end => result'[i].at > hits[h].end
    BY <1>2 DEF StaggeredInv, Pairwise
  <2>1. Gone' = Gone \cup {n}
    BY <1>1, <1>2, <1>3 DEF Gone, TypeOK
  <2>2. hits[n].start \in Nat /\ hits[n].end \in Nat /\ i \in Nat
    BY <1>1, <1>4, <1>6
  <2>3. \A h \in left' :
            /\ hits[h].end \in Nat /\ hits[h].start \in Nat
            /\ hits[h].start < hits[n].start /\ hits[h].end < hits[n].end
    <3> TAKE h \in left'
    <3>1. Staggered(hits[h], hits[n])
      BY <1>3, <1>7 DEF Pairwise, TypeOK
    <3>2. /\ hits[h].end \in Nat /\ hits[h].start \in Nat
          /\ hits[n].end \in Nat /\ hits[n].start \in Nat /\ hits[h].start <= hits[n].start
      BY <1>1, <1>4, <1>7
    <3>3. hits[h].start < hits[n].start /\ hits[h].end < hits[n].end
      BY <1>1, <1>4, <1>7, <3>1, HitOrder
    <3> QED
      BY <3>2, <3>3
  <2>4. CASE i <= hits[n].start
    <3>1. result'[i] = TextCell(i) /\ result'[i] = result[i] /\ i \in DOMAIN result
      BY <1>3, <1>5, <1>6, <1>8, <2>2, <2>4 DEF TypeOK
    <3>2. result'[i].at = i
      BY <3>1 DEF TextCell
    <3>3. \A g \in Gone : ~Covers(hits[g], result'[i].at)
      BY <1>3, <3>1 DEF StaggeredInv
    <3>4. ~Covers(hits[n], result'[i].at)
      BY <2>2, <2>4, <3>2 DEF Covers
    <3> QED
      BY <2>1, <3>2, <3>3, <3>4
  <2>5. CASE ~(i <= hits[n].start)
    <3>1. PICK j \in DOMAIN result : j > hits[n].end /\ result'[i] = result[j]
      BY <1>6, <2>5, RedactionAssumption
    <3>2. /\ \A g \in Gone : ~Covers(hits[g], result[j].at)
          /\ result[j].at > hits[n].end
      BY <1>3, <3>1 DEF StaggeredInv
    <3>3. result[j].at \in Nat
      <4>1. result[j] \in Cell
        BY <1>3, <3>1 DEF TypeOK
      <4> QED
        BY <4>1 DEF Cell
    <3>4. ~Covers(hits[n], result'[i].at)
      BY <2>2, <3>1, <3>2, <3>3 DEF Covers
    <3>5. \A h \in left' : result'[i].at > hits[h].end
      BY <2>2, <2>3, <3>1, <3>2, <3>3
    <3> QED
      BY <2>1, <3>1, <3>2, <3>4, <3>5
  <2> QED
    BY <2>4, <2>5
<1>13. ExactInv'
  <2> SUFFICES ASSUME Pairwise(Apart)
               PROVE  /\ result' = (FlattenSeq(Pieces(Gone)))'
                      /\ \A g \in Gone', h \in left' : hits[h].start <= hits[g].start
    BY <1>2 DEF ExactInv, Pairwise
  <2>1. Gone' = Gone \cup {n} /\ n \in DOMAIN hits /\ n \notin Gone
        /\ Gone \in SUBSET DOMAIN hits
    BY <1>1, <1>2, <1>3 DEF Gone, TypeOK
  <2>2. /\ result = FlattenSeq(Pieces(Gone))
        /\ \A g \in Gone, h \in left : hits[h].start <= hits[g].start
    BY <1>3 DEF ExactInv
  <2>3. \A g \in Gone : hits[n].start <= hits[g].start
    BY <2>2
  <2>4. Cut(FlattenSeq(Pieces(Gone)), hits[n]) = FlattenSeq(Pieces(Gone \cup {n}))
    BY <1>3, <2>1, <2>3, CutPieces
  <2>5. result' = FlattenSeq(Pieces(Gone \cup {n}))
    BY <1>1, <2>2, <2>4
  <2>6. \A H : Pieces(H)' = Pieces(H)
    BY <1>2 DEF Pieces, PieceOf, Covers
  <2>7. (FlattenSeq(Pieces(Gone)))' = FlattenSeq(Pieces(Gone \cup {n}))
    BY <2>1, <2>6
  <2>8. \A g \in Gone', h \in left' : hits[h].start <= hits[g].start
    BY <1>7, <2>1, <2>2
  <2> QED
    BY <2>5, <2>7, <2>8
<1> QED
  BY <1>2, <1>9, <1>10, <1>11, <1>12, <1>13 DEF IInv

(* What a step that leaves the hits and the text alone does not change. *)
LEMMA SameHits ==
    ASSUME UNCHANGED <<hits, left, result>>
    PROVE  /\ PrefixInv' = PrefixInv /\ StaggeredInv' = StaggeredInv
           /\ OffsetsValid' = OffsetsValid /\ ExactInv' = ExactInv
           /\ Untouched(result)' = Untouched(result)
<1>1. Gone' = Gone
  BY DEF Gone
<1>2. /\ Pairwise(Apart)' = Pairwise(Apart)
      /\ Pairwise(Staggered)' = Pairwise(Staggered)
  BY DEF Pairwise, Apart, Staggered
<1>3. (FlattenSeq(Pieces(Gone)))' = FlattenSeq(Pieces(Gone))
  <2>1. \A H : Pieces(H)' = Pieces(H)
    BY DEF Pieces, PieceOf, Covers
  <2> QED
    BY <1>1, <2>1
<1>4. ExactInv' = ExactInv
  BY <1>1, <1>2, <1>3 DEF ExactInv
<1>5. StaggeredInv' = StaggeredInv
  BY <1>1, <1>2 DEF StaggeredInv, Covers
<1>6. OffsetsValid' = OffsetsValid
  BY <1>2 DEF OffsetsValid
<1>7. PrefixInv' = PrefixInv /\ Untouched(result)' = Untouched(result)
  BY DEF PrefixInv, Untouched
<1> QED
  BY <1>4, <1>5, <1>6, <1>7

LEMMA StepKeepsIInv == IInv /\ [Next]_vars => IInv'
<1> SUFFICES ASSUME IInv, [Next]_vars PROVE IInv'
  OBVIOUS
<1>1. CASE Return
  BY <1>1, SameHits DEF Return, IInv, TypeOK
<1>2. CASE UNCHANGED vars
  BY <1>2, SameHits DEF vars, IInv, TypeOK
<1> QED
  BY <1>1, <1>2, FindKeeps, StartKeeps, ReplaceKeeps DEF Next, Done

LEMMA Invariance == Spec => []IInv
BY InitIInv, StepKeepsIInv, PTL DEF Spec

(* The locals of find_pii and redact have their types: in particular no    *)
(* hit ever reaches beyond the text.                                       *)
THEOREM TypeCorrect == Spec => []TypeOK
<1>1. IInv => TypeOK
  BY DEF IInv
<1> QED
  BY <1>1, Invariance, PTL

(* Replacing from the right to the left keeps the offsets of hits that do  *)
(* not overlap valid: redact() only ever cuts out what a hit matched.      *)
THEOREM OffsetsStayValid == Spec => []OffsetsValid
<1>1. IInv => OffsetsValid
  BY DEF IInv, OffsetsValid
<1> QED
  BY <1>1, Invariance, PTL

(* redact() returns the text with each of its hits replaced by one         *)
(* placeholder and nothing else changed, if no two of them overlap.        *)
THEOREM AlwaysRedactsExactly == Spec => []RedactsExactly
<1>1. IInv => RedactsExactly
  <2> SUFFICES ASSUME IInv, pc = "done", Pairwise(Apart)
               PROVE  result = FlattenSeq([i \in 1..Length |-> Piece(i)])
    BY DEF RedactsExactly
  <2>1. Gone = DOMAIN hits /\ ExactInv
    BY DEF IInv, Gone
  <2>2. Pieces(DOMAIN hits) = [i \in 1..Length |-> Piece(i)]
    BY DEF Pieces, PieceOf, Piece
  <2> QED
    BY <2>1, <2>2 DEF ExactInv
<1> QED
  BY <1>1, Invariance, PTL

(* redact() leaves nothing of its hits in the text, overlapping ones       *)
(* included, unless one lies within another.                               *)
THEOREM NothingIsLeft == Spec => []NothingLeft
<1>1. IInv => NothingLeft
  <2> SUFFICES ASSUME IInv, pc = "done", Pairwise(Staggered),
                      NEW i \in DOMAIN result, NEW h \in DOMAIN hits,
                      result[i].entity = "text"
               PROVE  ~Covers(hits[h], result[i].at)
    BY DEF NothingLeft
  <2>1. h \in Gone /\ StaggeredInv
    BY DEF IInv, Gone
  <2> QED
    BY <2>1 DEF StaggeredInv
<1> QED
  BY <1>1, Invariance, PTL

=============================================================================
