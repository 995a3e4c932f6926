----------------------------- MODULE FrontEndProofs -----------------------------
(***************************************************************************)
(* Proofs about what the browser shows: the list of articles (ListView)    *)
(* and the reading pane (ArticlePane), for any articles, views, page       *)
(* limits, pieces and requests on their way.                               *)
(***************************************************************************)
EXTENDS ListView, ArticlePane, FiniteSetTheorems, SequenceTheorems, WellFoundedInduction, TLAPS

(***************************************************************************)
(* The operators of ListView: sorting, picking, and the loop of            *)
(* _reconcile.  Induction over the rounds of the loop is induction over a  *)
(* set of rounds, which needs no more than that every non-empty set of     *)
(* naturals has a least element.                                           *)
(***************************************************************************)

\* A set with 0, and with the successors of its elements, has every natural.
LEMMA EveryNat ==
  ASSUME NEW S, 0 \in S, \A n \in Nat : n \in S => n + 1 \in S
  PROVE  Nat \subseteq S
<1> SUFFICES ASSUME Nat \ S # {} PROVE FALSE
  OBVIOUS
<1>1. PICK m \in Nat \ S : \A n \in Nat \ S : ~(n < m)
  <2> DEFINE R == OpToRel(<, Nat)
  <2>1. IsWellFoundedOn(R, Nat)
    BY NatLessThanWellFounded
  <2>2. PICK m \in Nat \ S : \A n \in Nat \ S : ~(<<n, m>> \in R)
    <3> HIDE DEF R
    <3> QED
      BY <2>1, WFMin
  <2> QED
    BY <2>2 DEF OpToRel
<1>2. m # 0 /\ m - 1 \in Nat
  OBVIOUS
<1>3. m - 1 \in S
  BY <1>1, <1>2
<1> QED
  BY <1>2, <1>3

-----------------------------------------------------------------------------
Before(c, S)  == {d \in S : d < c}
Increasing(f) == \A i, j \in DOMAIN f : i < j => f[i] < f[j]

\* How many are before c tells its place.
LEMMA PlaceInOrder ==
  ASSUME NEW S \in SUBSET Nat, IsFiniteSet(S), NEW c \in S
  PROVE  /\ Cardinality(Before(c, S)) \in Nat
         /\ Cardinality(Before(c, S)) < Cardinality(S)
         /\ \A d \in S : c < d => Cardinality(Before(c, S)) < Cardinality(Before(d, S))
<1>1. \A T \in SUBSET S : IsFiniteSet(T) /\ Cardinality(T) \in Nat
  BY FS_Subset, FS_CardinalityType
<1>2. Before(c, S) \subseteq S /\ c \notin Before(c, S)
  BY DEF Before
<1>3. Cardinality(Before(c, S) \cup {c}) = Cardinality(Before(c, S)) + 1
  BY <1>1, <1>2, FS_AddElement
<1>4. \A T \in SUBSET S : Before(c, S) \cup {c} \subseteq T
                            => Cardinality(Before(c, S)) < Cardinality(T)
  <2> SUFFICES ASSUME NEW T \in SUBSET S, Before(c, S) \cup {c} \subseteq T
               PROVE  Cardinality(Before(c, S)) < Cardinality(T)
    OBVIOUS
  <2>1. Cardinality(Before(c, S) \cup {c}) <= Cardinality(T)
    BY <1>1, FS_Subset
  <2> QED
    BY <1>1, <1>2, <1>3, <2>1
<1>5. ASSUME NEW d \in S, c < d
      PROVE  Before(c, S) \cup {c} \subseteq Before(d, S) /\ Before(d, S) \subseteq S
  <2>1. c \in Nat /\ d \in Nat /\ \A e \in S : e \in Nat
    OBVIOUS
  <2>2. \A e \in Nat : e < c => e < d
    BY <1>5, <2>1
  <2> QED
    BY <1>5, <2>1, <2>2 DEF Before
<1> QED
  BY <1>1, <1>2, <1>4, <1>5

\* So nobody else is in it.
LEMMA PlaceIsOwn ==
  ASSUME NEW S \in SUBSET Nat, IsFiniteSet(S), NEW c \in S, NEW d \in S,
         Cardinality(Before(c, S)) <= Cardinality(Before(d, S))
  PROVE  c <= d
BY PlaceInOrder

\* Sorted puts every element in one place, in increasing order.
LEMMA SortedIs ==
  ASSUME NEW S \in SUBSET Nat, IsFiniteSet(S)
  PROVE  /\ Cardinality(S) \in Nat
         /\ Sorted(S) \in [1..Cardinality(S) -> S]
         /\ Increasing(Sorted(S))
         /\ \A c \in S : \E n \in 1..Cardinality(S) : Sorted(S)[n] = c
<1> DEFINE N == Cardinality(S)
           place == [c \in S |-> Cardinality(Before(c, S)) + 1]
<1>1. N \in Nat
  BY FS_CardinalityType
<1>2. IsFiniteSet(1..N) /\ Cardinality(1..N) = N
  BY <1>1, FS_Interval
<1>3. place \in [S -> 1..N]
  BY <1>1, PlaceInOrder
<1>4. place \in Injection(S, 1..N)
  <2>1. ASSUME NEW c \in S, NEW d \in S, place[c] = place[d] PROVE c = d
    BY <2>1, PlaceInOrder, PlaceIsOwn
  <2> QED
    BY <1>3, <2>1 DEF Injection, IsInjective
<1>5. \A n \in 1..N : \E c \in S : place[c] = n
  <2> HIDE DEF place
  <2>1. place \in Surjection(S, 1..N)
    BY <1>2, <1>4, FS_Injection
  <2> QED
    BY <2>1 DEF Surjection
<1>6. \A n \in 1..N : /\ Sorted(S)[n] \in S
                      /\ Cardinality(Before(Sorted(S)[n], S)) = n - 1
  <2> SUFFICES ASSUME NEW n \in 1..N
               PROVE  /\ Sorted(S)[n] \in S
                      /\ Cardinality(Before(Sorted(S)[n], S)) = n - 1
    OBVIOUS
  <2>1. \E c \in S : Cardinality(Before(c, S)) = n - 1
    BY <1>1, <1>5, PlaceInOrder
  <2>2. Sorted(S)[n] = CHOOSE c \in S : Cardinality(Before(c, S)) = n - 1
    BY DEF Sorted, Before
  <2> QED
    BY <2>1, <2>2
<1>7. Sorted(S) \in [1..N -> S]
  BY <1>6 DEF Sorted
<1>8. Increasing(Sorted(S))
  <2> SUFFICES ASSUME NEW i \in 1..N, NEW j \in 1..N, i < j
               PROVE  Sorted(S)[i] < Sorted(S)[j]
    BY <1>7 DEF Increasing
  <2>1. PICK a \in S, b \in S : a = Sorted(S)[i] /\ b = Sorted(S)[j]
    BY <1>7
  <2>2. Cardinality(Before(a, S)) = i - 1 /\ Cardinality(Before(b, S)) = j - 1
    BY <1>6, <2>1
  <2>3. a <= b
    BY <2>2, PlaceIsOwn
  <2>4. a # b
    BY <2>2
  <2> QED
    BY <2>1, <2>3, <2>4
<1>9. ASSUME NEW c \in S PROVE \E n \in 1..N : Sorted(S)[n] = c
  <2>1. place[c] \in 1..N /\ place[c] - 1 = Cardinality(Before(c, S))
    BY <1>3, PlaceInOrder
  <2>2. Cardinality(Before(Sorted(S)[place[c]], S)) = Cardinality(Before(c, S))
    BY <1>6, <2>1
  <2>3. PICK d \in S : d = Sorted(S)[place[c]]
    BY <1>7, <2>1
  <2>4. c <= d /\ d <= c
    BY <2>2, <2>3, PlaceIsOwn, PlaceInOrder
  <2>5. c = d
    BY <2>4
  <2> QED
    BY <2>1, <2>3, <2>5
<1> QED
  BY <1>1, <1>7, <1>8, <1>9

\* The places 1..n of an increasing function are as many elements.
LEMMA IncreasingCounts ==
  ASSUME NEW m \in Nat, NEW f \in [1..m -> Nat], Increasing(f), NEW n \in 0..m
  PROVE  /\ IsFiniteSet({f[i] : i \in 1..n})
         /\ Cardinality({f[i] : i \in 1..n}) = n
<1> DEFINE T == {f[i] : i \in 1..n}
           g == [i \in 1..n |-> f[i]]
<1>1. g \in Surjection(1..n, T)
  BY DEF Surjection
<1>2. g \in Injection(1..n, T)
  <2>1. ASSUME NEW i \in 1..n, NEW j \in 1..n, g[i] = g[j] PROVE i = j
    BY <2>1 DEF Increasing
  <2> QED
    BY <2>1 DEF Injection, IsInjective
<1>3. IsFiniteSet(1..n) /\ Cardinality(1..n) = n
  BY FS_Interval
<1> QED
  BY <1>1, <1>2, <1>3, FS_Surjection

\* Sorted is the only such function.
LEMMA SortedOnly ==
  ASSUME NEW m \in Nat, NEW f \in [1..m -> Nat], Increasing(f),
         NEW S, S = {f[i] : i \in 1..m}
  PROVE  IsFiniteSet(S) /\ Cardinality(S) = m /\ Sorted(S) = f
<1>1. IsFiniteSet(S) /\ Cardinality(S) = m /\ S \in SUBSET Nat
  <2>1. m \in 0..m
    OBVIOUS
  <2>2. S \in SUBSET Nat
    OBVIOUS
  <2> QED
    BY <2>1, <2>2, IncreasingCounts
<1>2. ASSUME NEW n \in 1..m PROVE Sorted(S)[n] = f[n]
  <2>1. Before(f[n], S) = {f[i] : i \in 1..(n - 1)}
    BY DEF Before, Increasing
  <2>2. Cardinality(Before(f[n], S)) = n - 1
    <3>1. n - 1 \in 0..m
      OBVIOUS
    <3>2. Cardinality({f[i] : i \in 1..(n - 1)}) = n - 1
      BY <3>1, IncreasingCounts
    <3> QED
      BY <2>1, <3>2
  <2>3. f[n] \in S
    OBVIOUS
  <2>4. ASSUME NEW c \in S, Cardinality(Before(c, S)) = n - 1 PROVE c = f[n]
    <3> DEFINE d == f[n]
    <3>1. d \in S /\ Cardinality(Before(d, S)) = n - 1
      BY <2>2, <2>3
    <3> HIDE DEF d
    <3>2. c \in Nat /\ d \in Nat
      BY <1>1, <3>1
    <3>3. /\ Cardinality(Before(c, S)) <= Cardinality(Before(d, S))
          /\ Cardinality(Before(d, S)) <= Cardinality(Before(c, S))
      BY <2>4, <3>1
    <3>4. c <= d /\ d <= c
      <4>1. S \in SUBSET Nat /\ IsFiniteSet(S) /\ c \in S /\ d \in S
        BY <1>1, <3>1
      <4> QED
        BY <3>3, <4>1, PlaceIsOwn
    <3>5. c = d
      BY <3>2, <3>4
    <3> QED
      BY <3>5 DEF d
  <2>5. Sorted(S)[n] = CHOOSE c \in S : Cardinality(Before(c, S)) = n - 1
    BY <1>1 DEF Sorted, Before
  <2> QED
    BY <2>2, <2>3, <2>4, <2>5
<1>3. Sorted(S) \in [1..m -> S]
  BY <1>1, SortedIs
<1>4. Sorted(S) = f
  <2> DEFINE g == Sorted(S)
  <2>1. g \in [1..m -> S] /\ \A n \in 1..m : g[n] = f[n]
    BY <1>2, <1>3
  <2> HIDE DEF g
  <2>2. g = [n \in 1..m |-> g[n]] /\ f = [n \in 1..m |-> f[n]]
    BY <2>1
  <2> QED
    BY <2>1, <2>2 DEF g
<1> QED
  BY <1>1, <1>4

-----------------------------------------------------------------------------
Elements == Cards \cup {Message}

\* A sequence with an element less, and with an element more.
LEMMA RemoveAtIs ==
  ASSUME NEW s \in Seq(Elements), NEW p \in 1..Len(s)
  PROVE  /\ RemoveAt(s, p) \in Seq(Elements) /\ Len(RemoveAt(s, p)) = Len(s) - 1
         /\ \A j \in 1..(Len(s) - 1) : RemoveAt(s, p)[j] = IF j < p THEN s[j] ELSE s[j + 1]
<1> DEFINE a == SubSeq(s, 1, p - 1)
           b == SubSeq(s, p + 1, Len(s))
<1>1. Len(s) \in Nat /\ p \in Int
  OBVIOUS
<1>2. /\ a \in Seq(Elements) /\ Len(a) = p - 1 /\ \A j \in 1..(p - 1) : a[j] = s[j]
  BY <1>1, SubSeqProperties
<1>3. /\ b \in Seq(Elements) /\ Len(b) = Len(s) - p /\ \A j \in 1..(Len(s) - p) : b[j] = s[p + j]
  <2>1. CASE p = Len(s)
    BY <1>1, <2>1, SubSeqProperties
  <2>2. CASE p < Len(s)
    BY <1>1, <2>2, SubSeqProperties
  <2> QED
    BY <1>1, <2>1, <2>2
<1>4. RemoveAt(s, p) = a \o b
  BY DEF RemoveAt
<1> HIDE DEF a, b
<1>5. /\ a \o b \in Seq(Elements) /\ Len(a \o b) = Len(a) + Len(b)
      /\ \A j \in 1..(Len(a) + Len(b)) : (a \o b)[j] = IF j <= Len(a) THEN a[j] ELSE b[j - Len(a)]
  BY <1>2, <1>3, ConcatProperties
<1>6. ASSUME NEW j \in 1..(Len(s) - 1)
      PROVE  (a \o b)[j] = IF j < p THEN s[j] ELSE s[j + 1]
  <2>1. CASE j < p
    BY <1>1, <1>2, <1>3, <1>5, <2>1
  <2>2. CASE ~(j < p)
    <3>1. j - (p - 1) \in 1..(Len(s) - p) /\ p + (j - (p - 1)) = j + 1
      BY <1>1, <2>2
    <3>2. (a \o b)[j] = b[j - (p - 1)]
      BY <1>1, <1>2, <1>3, <1>5, <2>2
    <3> QED
      BY <1>1, <1>3, <2>2, <3>1, <3>2
  <2> QED
    BY <2>1, <2>2
<1> QED
  BY <1>1, <1>2, <1>3, <1>4, <1>5, <1>6

\* t is s with e put in before place i.
Inserted(t, s, i, e) ==
  /\ t \in Seq(Elements) /\ Len(t) = Len(s) + 1
  /\ \A j \in 1..(Len(s) + 1) : t[j] = IF j < i THEN s[j] ELSE IF j = i THEN e ELSE s[j - 1]

LEMMA InsertAtIs ==
  ASSUME NEW s \in Seq(Elements), NEW i \in 1..(Len(s) + 1), NEW e \in Elements
  PROVE  Inserted(InsertAt(s, i, e), s, i, e)
<1> DEFINE a == SubSeq(s, 1, i - 1)
           b == SubSeq(s, i, Len(s))
           ae == a \o <<e>>
<1>1. Len(s) \in Nat /\ i \in Int
  OBVIOUS
<1>2. /\ a \in Seq(Elements) /\ Len(a) = i - 1 /\ \A j \in 1..(i - 1) : a[j] = s[j]
  BY <1>1, SubSeqProperties
<1>3. /\ b \in Seq(Elements) /\ Len(b) = Len(s) - i + 1
      /\ \A j \in 1..(Len(s) - i + 1) : b[j] = s[i - 1 + j]
  <2>1. CASE i = Len(s) + 1
    BY <1>1, <2>1, SubSeqProperties
  <2>2. CASE i <= Len(s)
    BY <1>1, <2>2, SubSeqProperties
  <2> QED
    BY <1>1, <2>1, <2>2
<1>4. InsertAt(s, i, e) = ae \o b
  BY DEF InsertAt
<1>5. <<e>> \in Seq(Elements) /\ Len(<<e>>) = 1 /\ <<e>>[1] = e
  OBVIOUS
<1> HIDE DEF a, b
<1>6. /\ ae \in Seq(Elements) /\ Len(ae) = i
      /\ \A j \in 1..i : ae[j] = IF j < i THEN s[j] ELSE e
  BY <1>1, <1>2, <1>5, ConcatProperties
<1> HIDE DEF ae
<1>7. /\ ae \o b \in Seq(Elements) /\ Len(ae \o b) = Len(ae) + Len(b)
      /\ \A j \in 1..(Len(ae) + Len(b)) :
           (ae \o b)[j] = IF j <= Len(ae) THEN ae[j] ELSE b[j - Len(ae)]
  BY <1>3, <1>6, ConcatProperties
<1>8. ASSUME NEW j \in 1..(Len(s) + 1)
      PROVE  (ae \o b)[j] = IF j < i THEN s[j] ELSE IF j = i THEN e ELSE s[j - 1]
  <2>1. CASE j <= i
    BY <1>1, <1>3, <1>6, <1>7, <2>1
  <2>2. CASE j > i
    <3>1. j - i \in 1..(Len(s) - i + 1) /\ i - 1 + (j - i) = j - 1
      BY <1>1, <2>2
    <3>2. (ae \o b)[j] = b[j - i]
      BY <1>1, <1>3, <1>6, <1>7, <2>2
    <3> QED
      BY <1>1, <1>3, <2>2, <3>1, <3>2
  <2>3. j <= i \/ j > i
    BY <1>1
  <2> QED
    BY <2>1, <2>2, <2>3
<1>9. Inserted(ae \o b, s, i, e)
  BY <1>1, <1>3, <1>6, <1>7, <1>8 DEF Inserted
<1> QED
  BY <1>4, <1>9

-----------------------------------------------------------------------------
\* oldByKey has one place for a card that is there, the last.
LEMMA PlaceOfIs ==
  ASSUME NEW T, NEW s \in Seq(T), NEW c, Contains(s, c)
  PROVE  /\ PlaceOf(c, s) \in 1..Len(s) /\ s[PlaceOf(c, s)] = c
         /\ \A j \in 1..Len(s) : s[j] = c => j <= PlaceOf(c, s)
<1> DEFINE I == {i \in 1..Len(s) : s[i] = c}
           m == Cardinality(I)
<1>1. Len(s) \in Nat /\ DOMAIN s = 1..Len(s)
  OBVIOUS
<1>2. IsFiniteSet(I) /\ I \in SUBSET Nat
  <2>1. IsFiniteSet(1..Len(s)) /\ I \in SUBSET (1..Len(s))
    BY <1>1, FS_Interval
  <2> HIDE DEF I
  <2>2. IsFiniteSet(I)
    BY <2>1, FS_Subset
  <2> QED
    BY <2>1, <2>2
<1>3. PICK i \in I : TRUE
  BY DEF Contains
<1> HIDE DEF I
<1>4. /\ m \in Nat /\ Sorted(I) \in [1..m -> I] /\ Increasing(Sorted(I))
      /\ \A j \in I : \E n \in 1..m : Sorted(I)[n] = j
  BY <1>2, SortedIs
<1>5. m \in 1..m
  BY <1>3, <1>4
<1>6. Sorted(I)[m] \in I
  BY <1>4, <1>5
<1>7. \A j \in I : j <= Sorted(I)[m]
  <2> TAKE j \in I
  <2>1. PICK n \in 1..m : Sorted(I)[n] = j
    BY <1>4
  <2>2. CASE n = m
    BY <1>2, <2>1, <2>2
  <2>3. CASE n # m
    <3>1. n < m /\ n \in DOMAIN Sorted(I) /\ m \in DOMAIN Sorted(I)
      BY <1>4, <1>5, <2>3
    <3>2. j < Sorted(I)[m]
      BY <1>4, <2>1, <3>1 DEF Increasing
    <3>3. j \in Nat /\ Sorted(I)[m] \in Nat
      BY <1>2, <1>6
    <3> QED
      BY <3>2, <3>3
  <2> QED
    BY <2>2, <2>3
<1>8. \E p \in DOMAIN s : s[p] = c /\ \A j \in DOMAIN s : s[j] = c => j <= p
  BY <1>1, <1>6, <1>7 DEF I
<1>9. /\ PlaceOf(c, s) \in DOMAIN s /\ s[PlaceOf(c, s)] = c
      /\ \A j \in DOMAIN s : s[j] = c => j <= PlaceOf(c, s)
  BY <1>8 DEF PlaceOf
<1> QED
  BY <1>1, <1>9

\* What is twice in t is twice in s.
TwiceOnlyAs(t, s) == \A e : Twice(e, t) => Twice(e, s)

\* A round of the loop puts a card in its place, takes nothing out of the places
\* before it, and has no card twice that was not there twice before.
LEMMA PutAtIs ==
  ASSUME NEW s \in Seq(Elements), NEW c \in Cards, NEW i \in 1..(Len(s) + 1),
         \A j \in 1..(i - 1) : s[j] # c
  PROVE  /\ PutAt(s, i, c) \in Seq(Elements)
         /\ Len(PutAt(s, i, c)) >= i /\ PutAt(s, i, c)[i] = c
         /\ \A j \in 1..(i - 1) : PutAt(s, i, c)[j] = s[j]
         /\ TwiceOnlyAs(PutAt(s, i, c), s)
<1> DEFINE r == IF Contains(s, c) THEN RemoveAt(s, PlaceOf(c, s)) ELSE s
<1>1. c \in Elements /\ Len(s) \in Nat /\ DOMAIN s = 1..Len(s)
  BY DEF Elements
<1>2. /\ r \in Seq(Elements) /\ i \in 1..(Len(r) + 1)
      /\ \A e : Twice(e, r) => Twice(e, s)
      /\ \A j \in 1..Len(r) : r[j] = c => Twice(c, s)
      /\ \A j \in 1..(i - 1) : r[j] = s[j]
  <2>1. CASE ~Contains(s, c)
    BY <1>1, <2>1 DEF Contains
  <2>2. CASE Contains(s, c)
    <3> DEFINE p == PlaceOf(c, s)
    <3>1. p \in 1..Len(s) /\ s[p] = c
      BY <2>2, PlaceOfIs
    <3>2. r = RemoveAt(s, p)
      BY <2>2
    <3> HIDE DEF r, p
    <3>3. i <= p
      BY <1>1, <3>1
    <3>4. /\ r \in Seq(Elements) /\ Len(r) = Len(s) - 1
          /\ \A j \in 1..(Len(s) - 1) : r[j] = IF j < p THEN s[j] ELSE s[j + 1]
      BY <3>1, <3>2, RemoveAtIs
    <3> DEFINE from(j) == IF j < p THEN j ELSE j + 1
    <3>5. \A j \in 1..Len(r) : from(j) \in 1..Len(s) /\ from(j) # p /\ r[j] = s[from(j)]
      BY <1>1, <3>1, <3>4
    <3>6. \A j, k \in 1..Len(r) : j # k => from(j) # from(k)
      BY <1>1, <3>1, <3>4
    <3> HIDE DEF from
    <3>7. \A e : Twice(e, r) => Twice(e, s)
      BY <1>1, <3>4, <3>5, <3>6 DEF Twice
    <3>8. \A j \in 1..Len(r) : r[j] = c => Twice(c, s)
      BY <1>1, <3>1, <3>5 DEF Twice
    <3> QED
      BY <1>1, <3>1, <3>3, <3>4, <3>7, <3>8
  <2> QED
    BY <2>1, <2>2
<1>3. PutAt(s, i, c) = InsertAt(r, i, c)
  BY DEF PutAt
<1> HIDE DEF r
<1> DEFINE t == InsertAt(r, i, c)
<1>4. /\ t \in Seq(Elements) /\ Len(t) = Len(r) + 1
      /\ \A j \in 1..(Len(r) + 1) : t[j] = IF j < i THEN r[j] ELSE IF j = i THEN c ELSE r[j - 1]
  <2>1. r \in Seq(Elements) /\ i \in 1..(Len(r) + 1) /\ c \in Elements
    BY <1>1, <1>2
  <2>2. Inserted(t, r, i, c)
    BY <2>1, InsertAtIs, Zenon
  <2> QED
    BY <2>2 DEF Inserted
<1> HIDE DEF t
<1>5. ASSUME NEW e, Twice(e, t) PROVE Twice(e, s)
  <2>1. PICK j \in 1..Len(t), k \in 1..Len(t) : j # k /\ t[j] = e /\ t[k] = e
    BY <1>4, <1>5 DEF Twice
  <2> DEFINE from(n) == IF n < i THEN n ELSE n - 1
  <2>2. Len(r) \in Nat /\ i \in Nat /\ DOMAIN r = 1..Len(r)
    BY <1>2
  <2>3. \A n \in 1..Len(t) : n # i => from(n) \in 1..Len(r) /\ t[n] = r[from(n)]
    BY <1>2, <1>4, <2>2
  <2>4. \A n, l \in 1..Len(t) : n # l /\ n # i /\ l # i => from(n) # from(l)
    BY <1>4, <2>2
  <2>5. t[i] = c
    BY <1>2, <1>4, <2>2
  <2> HIDE DEF from
  <2>6. CASE j # i /\ k # i
    <3>1. Twice(e, r)
      BY <2>1, <2>2, <2>3, <2>4, <2>6 DEF Twice
    <3> QED
      BY <1>2, <3>1
  <2>7. CASE j = i \/ k = i
    <3>1. e = c /\ \E n \in 1..Len(r) : r[n] = c
      BY <2>1, <2>3, <2>5, <2>7
    <3> QED
      BY <1>2, <3>1
  <2> QED
    BY <2>6, <2>7
<1>6. Len(t) >= i /\ t[i] = c /\ \A j \in 1..(i - 1) : t[j] = s[j]
  BY <1>1, <1>2, <1>4
<1>7. PutAt(s, i, c) = t
  BY <1>3 DEF t
<1>8. TwiceOnlyAs(t, s)
  BY <1>5 DEF TwiceOnlyAs
<1> QED
  BY <1>4, <1>6, <1>7, <1>8

-----------------------------------------------------------------------------
\* The places that a set of places is picked from.
LEMMA PlacesPicked ==
  ASSUME NEW T, NEW s \in Seq(T), NEW I \in SUBSET DOMAIN s
  PROVE  /\ Cardinality(I) \in Nat
         /\ Sorted(I) \in [1..Cardinality(I) -> I] /\ Increasing(Sorted(I))
         /\ \A i \in I : \E n \in 1..Cardinality(I) : Sorted(I)[n] = i
         /\ Picked(s, I) \in Seq(T) /\ Len(Picked(s, I)) = Cardinality(I)
         /\ \A n \in 1..Cardinality(I) : Picked(s, I)[n] = s[Sorted(I)[n]]
<1>1. DOMAIN s = 1..Len(s) /\ Len(s) \in Nat
  OBVIOUS
<1>2. IsFiniteSet(I) /\ I \in SUBSET Nat
  <2>1. IsFiniteSet(1..Len(s)) /\ I \in SUBSET (1..Len(s))
    BY <1>1, FS_Interval
  <2> QED
    BY <2>1, FS_Subset
<1>3. /\ Cardinality(I) \in Nat
      /\ Sorted(I) \in [1..Cardinality(I) -> I] /\ Increasing(Sorted(I))
      /\ \A i \in I : \E n \in 1..Cardinality(I) : Sorted(I)[n] = i
  BY <1>2, SortedIs
<1>4. \A n \in 1..Cardinality(I) : s[Sorted(I)[n]] \in T
  BY <1>1, <1>3
<1>5. Picked(s, I) = [n \in 1..Cardinality(I) |-> s[Sorted(I)[n]]]
  BY DEF Picked
<1>6. /\ Picked(s, I) \in Seq(T) /\ Len(Picked(s, I)) = Cardinality(I)
      /\ \A n \in 1..Cardinality(I) : Picked(s, I)[n] = s[Sorted(I)[n]]
  BY <1>3, <1>4, <1>5
<1> QED
  BY <1>3, <1>6

\* The page of a set: its least elements, at most Limit, in order.
LEMMA FirstOfIs ==
  ASSUME NEW S \in SUBSET Cards
  PROVE  /\ Cardinality(S) \in Nat
         /\ FirstOf(S) \in Seq(S) /\ Increasing(FirstOf(S))
         /\ Len(FirstOf(S)) = IF Cardinality(S) <= Limit THEN Cardinality(S) ELSE Limit
         /\ \A c \in S : Cardinality(S) <= Limit \/ c <= FirstOf(S)[Limit]
              => \E n \in 1..Len(FirstOf(S)) : FirstOf(S)[n] = c
<1> DEFINE N == Cardinality(S)
           at == Sorted(S)
           first == FirstOf(S)
<1>1. IsFiniteSet(S) /\ S \in SUBSET Nat
  BY ListViewAssumption, FS_Subset
<1>2. /\ N \in Nat /\ at \in [1..N -> S] /\ Increasing(at)
      /\ \A c \in S : \E n \in 1..N : at[n] = c
  BY <1>1, SortedIs
<1>3. Limit \in Nat \ {0}
  BY ListViewAssumption
<1> HIDE DEF N, at
<1>4. CASE N <= Limit
  <2>1. first = at
    BY <1>4 DEF FirstOf, N, at
  <2> QED
    BY <1>2, <1>4, <2>1 DEF N
<1>5. CASE ~(N <= Limit)
  <2>1. first = SubSeq(at, 1, Limit)
    BY <1>5 DEF FirstOf, N, at
  <2>2. \A n \in 1..Limit : n \in 1..N
    BY <1>2, <1>3, <1>5
  <2>3. \A n \in 1..Limit : at[n] \in S
    BY <1>2, <2>2
  <2>4. first \in Seq(S) /\ Len(first) = Limit /\ \A n \in 1..Limit : first[n] = at[n]
    BY <1>3, <2>1, <2>3, SubSeqProperties
  <2> HIDE DEF first
  <2>5. DOMAIN first = 1..Limit /\ DOMAIN at = 1..N
    BY <1>2, <2>4
  <2>6. Increasing(first)
    BY <1>2, <2>2, <2>4, <2>5 DEF Increasing
  <2>7. ASSUME NEW c \in S, c <= first[Limit] PROVE \E n \in 1..Limit : first[n] = c
    <3>1. PICK n \in 1..N : at[n] = c
      BY <1>2
    <3>2. Limit \in 1..N /\ first[Limit] = at[Limit]
      BY <1>2, <1>3, <1>5, <2>4
    <3>3. ~(Limit < n)
      <4>1. c \in Nat /\ at[Limit] \in Nat
        BY <1>1, <1>2, <3>2
      <4> QED
        BY <1>2, <2>5, <2>7, <3>1, <3>2, <4>1 DEF Increasing
    <3>4. n \in 1..Limit
      BY <1>2, <1>3, <3>3
    <3> QED
      BY <2>4, <3>1, <3>4
  <2> QED
    BY <1>2, <1>5, <2>4, <2>6, <2>7 DEF N, first
<1> QED
  BY <1>4, <1>5

-----------------------------------------------------------------------------
\* The rounds of the loop are what the recursion says.
LEMMA PlacedIs ==
  ASSUME NEW s, NEW T, NEW answer \in Seq(T)
  PROVE  /\ Placed(s, answer)[0] = s
         /\ \A i \in 1..Len(answer) :
              Placed(s, answer)[i] = PutAt(Placed(s, answer)[i - 1], i, answer[i])
<1> DEFINE Loop(m, f) ==
             f = [i \in 0..m |-> IF i = 0 THEN s ELSE PutAt(f[i - 1], i, answer[i])]
           M == {m \in Nat : \E f : Loop(m, f)}
<1>1. 0 \in M
  <2> DEFINE f == [i \in 0..0 |-> s]
  <2>1. Loop(0, f)
    OBVIOUS
  <2> HIDE DEF f
  <2> QED
    BY <2>1
<1>2. \A m \in Nat : m \in M => m + 1 \in M
  <2> SUFFICES ASSUME NEW m \in Nat, NEW f, Loop(m, f) PROVE m + 1 \in M
    OBVIOUS
  <2> DEFINE g == [i \in 0..(m + 1) |-> IF i <= m THEN f[i] ELSE PutAt(f[m], m + 1, answer[m + 1])]
  <2>1. ASSUME NEW i \in 0..(m + 1)
        PROVE  g[i] = IF i = 0 THEN s ELSE PutAt(g[i - 1], i, answer[i])
    <3>1. CASE i = 0
      BY <3>1
    <3>2. CASE i # 0 /\ i <= m
      <4>1. g[i] = f[i] /\ g[i - 1] = f[i - 1]
        BY <3>2
      <4>2. f[i] = PutAt(f[i - 1], i, answer[i])
        BY <3>2
      <4> QED
        BY <3>2, <4>1, <4>2
    <3>3. CASE i = m + 1
      BY <3>3
    <3> QED
      BY <3>1, <3>2, <3>3
  <2>2. Loop(m + 1, g)
    BY <2>1
  <2> HIDE DEF g
  <2> QED
    BY <2>2
<1>3. Len(answer) \in M
  <2> HIDE DEF M
  <2>1. Nat \subseteq M
    BY <1>1, <1>2, EveryNat
  <2> QED
    BY <2>1
<1>4. \E f : Loop(Len(answer), f)
  BY <1>3
<1>5. Placed(s, answer) = CHOOSE f : Loop(Len(answer), f)
  BY DEF Placed
<1>6. Loop(Len(answer), Placed(s, answer))
  <2> HIDE DEF Loop
  <2> QED
    BY <1>4, <1>5
<1> QED
  BY <1>6

\* After each round, what was put so far is at the front, in order.
LEMMA RoundsPut ==
  ASSUME NEW s \in Seq(Elements), NEW answer \in Seq(Cards), Increasing(answer)
  PROVE  \A i \in 0..Len(answer) :
           LET t == Placed(s, answer)[i]
           IN  /\ t \in Seq(Elements) /\ Len(t) >= i
               /\ \A j \in 1..i : t[j] = answer[j]
               /\ TwiceOnlyAs(t, s)
<1> DEFINE after(i) == Placed(s, answer)[i]
           Put(i)   == /\ after(i) \in Seq(Elements) /\ Len(after(i)) >= i
                       /\ \A j \in 1..i : after(i)[j] = answer[j]
                       /\ TwiceOnlyAs(after(i), s)
           R == {i \in Nat : i <= Len(answer) => Put(i)}
<1>0. Len(answer) \in Nat
  OBVIOUS
<1>1. 0 \in R
  <2>1. after(0) = s
    BY PlacedIs
  <2>2. TwiceOnlyAs(s, s)
    BY DEF TwiceOnlyAs
  <2>3. Put(0)
    BY <2>1, <2>2
  <2> QED
    BY <2>3
<1>2. ASSUME NEW i \in Nat, i \in R PROVE i + 1 \in R
  <2> SUFFICES ASSUME i + 1 <= Len(answer) PROVE Put(i + 1)
    OBVIOUS
  <2> DEFINE c == answer[i + 1]
  <2>1. /\ i + 1 \in 1..Len(answer) /\ c \in Cards /\ (i + 1) - 1 = i
    BY <1>0
  <2>2. after(i + 1) = PutAt(after(i), i + 1, c)
    <3>1. after(i + 1) = PutAt(after((i + 1) - 1), i + 1, c)
      BY <2>1, PlacedIs
    <3> QED
      BY <2>1, <3>1
  <2>3. Put(i)
    BY <1>0, <1>2
  <2> HIDE DEF after
  <2>4. i + 1 \in 1..(Len(after(i)) + 1)
    BY <2>3
  <2>5. \A j \in 1..((i + 1) - 1) : after(i)[j] # c
    <3> TAKE j \in 1..((i + 1) - 1)
    <3>1. j < i + 1 /\ j \in DOMAIN answer /\ i + 1 \in DOMAIN answer
      BY <1>0, <2>1
    <3>2. answer[j] < c
      BY <3>1 DEF Increasing
    <3>3. answer[j] \in Cards
      BY <3>1
    <3>4. answer[j] \in Nat /\ c \in Nat
      BY <2>1, <3>3, ListViewAssumption
    <3> QED
      BY <2>3, <3>2, <3>4
  <2> HIDE DEF c
  <2> DEFINE t == PutAt(after(i), i + 1, c)
  <2>6. /\ t \in Seq(Elements) /\ Len(t) >= i + 1 /\ t[i + 1] = c
        /\ \A j \in 1..((i + 1) - 1) : t[j] = after(i)[j]
        /\ TwiceOnlyAs(t, after(i))
    BY <2>1, <2>3, <2>4, <2>5, PutAtIs
  <2>7. \A j \in 1..(i + 1) : t[j] = answer[j]
    <3> HIDE DEF t
    <3>1. ASSUME NEW j \in 1..(i + 1), j # i + 1 PROVE t[j] = answer[j]
      <4>1. j \in 1..i /\ j \in 1..((i + 1) - 1)
        BY <2>1, <3>1
      <4> QED
        BY <2>3, <2>6, <4>1
    <3>2. t[i + 1] = answer[i + 1]
      BY <2>6 DEF c
    <3> QED
      BY <3>1, <3>2
  <2>8. TwiceOnlyAs(t, s)
    BY <2>3, <2>6 DEF TwiceOnlyAs
  <2> QED
    BY <2>2, <2>6, <2>7, <2>8
<1>3. Nat \subseteq R
  <2> HIDE DEF R
  <2> QED
    BY <1>1, <1>2, EveryNat
<1>4. ASSUME NEW i \in 0..Len(answer) PROVE Put(i)
  BY <1>0, <1>3
<1> QED
  BY <1>4

\* The places of the cards in a sequence.
CardPlaces(s) == Sorted({i \in DOMAIN s : s[i] # Message})

LEMMA CardsInPlaces ==
  ASSUME NEW s \in Seq(Elements)
  PROVE  LET m == Len(CardsIn(s))
             f == CardPlaces(s)
         IN  /\ m \in Nat /\ f \in [1..m -> 1..Len(s)] /\ Increasing(f)
             /\ \A i \in 1..Len(s) : s[i] # Message <=> \E n \in 1..m : f[n] = i
             /\ CardsIn(s) \in Seq(Elements)
             /\ \A n \in 1..m : CardsIn(s)[n] = s[f[n]]
<1> DEFINE I == {i \in DOMAIN s : s[i] # Message}
<1>1. I \in SUBSET DOMAIN s /\ DOMAIN s = 1..Len(s)
  OBVIOUS
<1>2. CardsIn(s) = Picked(s, I) /\ CardPlaces(s) = Sorted(I)
  BY DEF CardsIn, CardPlaces
<1>3. \A i \in 1..Len(s) : s[i] # Message <=> i \in I
  BY <1>1
<1> HIDE DEF I
<1>4. /\ Cardinality(I) \in Nat
      /\ Sorted(I) \in [1..Cardinality(I) -> I] /\ Increasing(Sorted(I))
      /\ \A i \in I : \E n \in 1..Cardinality(I) : Sorted(I)[n] = i
      /\ Picked(s, I) \in Seq(Elements) /\ Len(Picked(s, I)) = Cardinality(I)
      /\ \A n \in 1..Cardinality(I) : Picked(s, I)[n] = s[Sorted(I)[n]]
  BY <1>1, PlacesPicked
<1>5. Sorted(I) \in [1..Cardinality(I) -> 1..Len(s)]
  BY <1>1, <1>4
<1>6. \A i \in 1..Len(s) : s[i] # Message <=> \E n \in 1..Cardinality(I) : Sorted(I)[n] = i
  BY <1>3, <1>4
<1> QED
  BY <1>2, <1>4, <1>5, <1>6

\* If the cards of a list are in order, so are they in the list.
InOrder(s) == \A i, j \in DOMAIN s : i < j /\ s[i] # Message /\ s[j] # Message => s[i] < s[j]

LEMMA CardsInOrder ==
  ASSUME NEW s \in Seq(Elements), Increasing(CardsIn(s))
  PROVE  /\ InOrder(s)
         /\ \A i \in DOMAIN s : s[i] # Message => \E n \in DOMAIN CardsIn(s) : CardsIn(s)[n] = s[i]
         /\ \A n \in DOMAIN CardsIn(s) : \E i \in DOMAIN s : CardsIn(s)[n] = s[i]
<1> DEFINE m == Len(CardsIn(s))
           f == CardPlaces(s)
<1>1. /\ m \in Nat /\ f \in [1..m -> 1..Len(s)] /\ Increasing(f)
      /\ \A i \in 1..Len(s) : s[i] # Message <=> \E n \in 1..m : f[n] = i
      /\ DOMAIN CardsIn(s) = 1..m /\ \A n \in 1..m : CardsIn(s)[n] = s[f[n]]
      /\ DOMAIN s = 1..Len(s)
  BY CardsInPlaces
<1> HIDE DEF m, f
<1>2. ASSUME NEW i \in DOMAIN s, NEW j \in DOMAIN s, i < j, s[i] # Message, s[j] # Message
      PROVE  s[i] < s[j]
  <2>0. i \in 1..Len(s) /\ j \in 1..Len(s)
    BY <1>1, <1>2
  <2>1. PICK n \in 1..m, k \in 1..m : f[n] = i /\ f[k] = j
    BY <1>1, <1>2, <2>0
  <2>2. k < n => f[k] < f[n]
    BY <1>1 DEF Increasing
  <2>3. n < k
    BY <1>1, <1>2, <2>0, <2>1, <2>2
  <2>4. CardsIn(s)[n] < CardsIn(s)[k]
    BY <1>1, <2>3 DEF Increasing
  <2> QED
    BY <1>1, <2>1, <2>4
<1>3. InOrder(s)
  <2> SUFFICES ASSUME NEW i \in DOMAIN s, NEW j \in DOMAIN s, i < j /\ s[i] # Message /\ s[j] # Message
               PROVE  s[i] < s[j]
    BY DEF InOrder
  <2> QED
    BY <1>2
<1>4. ASSUME NEW i \in DOMAIN s, s[i] # Message
      PROVE  \E n \in DOMAIN CardsIn(s) : CardsIn(s)[n] = s[i]
  <2>1. i \in 1..Len(s)
    BY <1>1
  <2>2. PICK n \in 1..m : f[n] = i
    BY <1>1, <1>4, <2>1
  <2>3. n \in DOMAIN CardsIn(s) /\ CardsIn(s)[n] = s[i]
    BY <1>1, <2>2
  <2> QED
    BY <2>3
<1>5. \A n \in DOMAIN CardsIn(s) : \E i \in DOMAIN s : CardsIn(s)[n] = s[i]
  BY <1>1
<1> QED
  BY <1>3, <1>4, <1>5

\* No card is twice in a list that is in order.
LEMMA OrderIsOnce ==
  ASSUME NEW s \in Seq(Elements), InOrder(s), NEW c, c # Message
  PROVE  ~Twice(c, s)
<1>1. ASSUME NEW i \in 1..Len(s), NEW j \in 1..Len(s), s[i] = c, s[j] = c, i < j
      PROVE  FALSE
  <2>1. s[i] < s[j]
    BY <1>1 DEF InOrder
  <2>2. s[i] \in Elements
    OBVIOUS
  <2>3. s[i] \in Nat
    BY <1>1, <2>2, ListViewAssumption DEF Elements
  <2> QED
    BY <1>1, <2>1, <2>3
<1>2. \A i, j \in 1..Len(s) : i # j => i < j \/ j < i
  OBVIOUS
<1> QED
  BY <1>1, <1>2 DEF Twice

-----------------------------------------------------------------------------
\* A prefix is one place by place.
LEMMA PrefixBySpots ==
  ASSUME NEW s \in Seq(Elements), NEW t \in Seq(Elements)
  PROVE  IsPrefix(s, t) <=> Len(s) <= Len(t) /\ \A n \in 1..Len(s) : s[n] = t[n]
<1>1. Len(s) \in Nat /\ Len(t) \in Nat
  OBVIOUS
<1>2. SubSeq(s, 1, Len(s)) = s
  BY <1>1, SubSeqProperties, SeqEqual
<1>3. ASSUME Len(s) <= Len(t)
      PROVE  /\ SubSeq(t, 1, Len(s)) \in Seq(Elements) /\ Len(SubSeq(t, 1, Len(s))) = Len(s)
             /\ \A n \in 1..Len(s) : SubSeq(t, 1, Len(s))[n] = t[n]
  BY <1>1, <1>3, SubSeqProperties
<1>4. ASSUME Len(s) <= Len(t)
      PROVE  SubSeq(t, 1, Len(s)) = s <=> \A n \in 1..Len(s) : s[n] = t[n]
  BY <1>1, <1>3, <1>4, SeqEqual
<1> QED
  BY <1>2, <1>4 DEF IsPrefix

\* Increasing numbers that include 1 to N begin with them.
LEMMA CountsFromOne ==
  ASSUME NEW m \in Nat, NEW h \in [1..m -> Nat \ {0}], Increasing(h), NEW N \in Nat,
         \A i \in 1..N : \E n \in 1..m : h[n] = i
  PROVE  N <= m /\ \A n \in 1..N : h[n] = n
<1> DEFINE R == {i \in Nat : i <= N => i <= m /\ \A n \in 1..i : h[n] = n}
<1>1. 0 \in R
  OBVIOUS
<1>2. ASSUME NEW i \in Nat, i \in R PROVE i + 1 \in R
  <2> SUFFICES ASSUME i + 1 <= N PROVE i + 1 <= m /\ \A n \in 1..(i + 1) : h[n] = n
    OBVIOUS
  <2>1. i <= m /\ \A n \in 1..i : h[n] = n
    BY <1>2
  <2>2. PICK k \in 1..m : h[k] = i + 1
    OBVIOUS
  <2>3. k > i
    BY <2>1, <2>2
  <2>4. ASSUME k # i + 1 PROVE FALSE
    <3>1. i + 1 \in 1..m /\ h[i + 1] \in Nat \ {0} /\ h[i + 1] < i + 1
      BY <2>2, <2>3, <2>4 DEF Increasing
    <3>2. CASE i = 0
      BY <3>1, <3>2
    <3>3. CASE i # 0
      <4>1. h[i] = i /\ h[i] < h[i + 1]
        BY <2>1, <3>1, <3>3 DEF Increasing
      <4> QED
        BY <3>1, <4>1
    <3> QED
      BY <3>2, <3>3
  <2> QED
    BY <2>1, <2>2, <2>4
<1>3. Nat \subseteq R
  <2> HIDE DEF R
  <2> QED
    BY <1>1, <1>2, EveryNat
<1> QED
  BY <1>3

\* _reconcile leaves the cards of the answer, in its order, and after them no card
\* that was not there twice.
LEMMA ReconciledMirrors ==
  ASSUME NEW s \in Seq(Elements), NEW answer \in Seq(Cards), Increasing(answer)
  PROVE  /\ Reconciled(s, answer) \in Seq(Elements)
         /\ Mirrored(CardsIn(Reconciled(s, answer)), answer, s)
<1> DEFINE N == Len(answer)
           t == Placed(s, answer)[N]
           K == Stays(t, answer)
           u == Picked(t, K)
<1>1. N \in Nat /\ N \in 0..N /\ DOMAIN answer = 1..N
  OBVIOUS
<1>2. /\ t \in Seq(Elements) /\ Len(t) >= N
      /\ \A j \in 1..N : t[j] = answer[j]
      /\ TwiceOnlyAs(t, s)
  BY <1>1, RoundsPut
<1>3. Reconciled(s, answer) = IF answer = << >> THEN << >> ELSE u
  BY DEF Reconciled
<1> HIDE DEF t
<1>4. K \in SUBSET DOMAIN t /\ DOMAIN t = 1..Len(t) /\ Len(t) \in Nat
  BY <1>2 DEF Stays
<1>5. /\ K = {i \in DOMAIN t : t[i] = Message \/ t[i] \in ToSet(answer) \/ i # PlaceOf(t[i], t)}
  BY DEF Stays
<1> HIDE DEF K
<1>6. /\ Cardinality(K) \in Nat
      /\ Sorted(K) \in [1..Cardinality(K) -> K] /\ Increasing(Sorted(K))
      /\ \A i \in K : \E n \in 1..Cardinality(K) : Sorted(K)[n] = i
      /\ u \in Seq(Elements) /\ Len(u) = Cardinality(K)
      /\ \A n \in 1..Cardinality(K) : u[n] = t[Sorted(K)[n]]
  BY <1>2, <1>4, PlacesPicked
<1>7. Reconciled(s, answer) \in Seq(Elements)
  BY <1>3, <1>6
<1>8. Mirrored(CardsIn(Reconciled(s, answer)), answer, s)
  <2>1. CASE answer = << >>
    <3>1. Reconciled(s, answer) = << >>
      BY <1>3, <2>1
    <3>2. PICK e \in Seq(Elements) : e = << >> /\ Len(e) = 0
      BY EmptySeq
    <3>3. /\ Len(CardsIn(e)) \in Nat /\ CardsIn(e) \in Seq(Elements)
          /\ CardPlaces(e) \in [1..Len(CardsIn(e)) -> 1..Len(e)]
      BY CardsInPlaces
    <3>4. Len(CardsIn(e)) = 0
      <4>1. 1 \notin 1..Len(CardsIn(e))
        BY <3>2, <3>3
      <4> QED
        BY <3>3, <4>1
    <3>5. CardsIn(e) = << >>
      BY <3>3, <3>4
    <3>6. DOMAIN CardsIn(e) = {} /\ IsPrefix(answer, CardsIn(e))
      BY <2>1, <3>3, <3>4, <3>5 DEF IsPrefix
    <3> QED
      BY <3>1, <3>2, <3>6 DEF Mirrored
  <2>2. CASE answer # << >>
    <3>1. \A j \in 1..N : answer[j] # Message /\ answer[j] \in ToSet(answer)
      BY <1>1, ListViewAssumption DEF ToSet
    <3>2. \A i \in 1..N : i \in 1..Len(t) /\ i \in K /\ t[i] # Message
      BY <1>1, <1>2, <1>4, <1>5, <3>1
    <3>3. ASSUME NEW i \in K, i > N, t[i] # Message PROVE Twice(t[i], s)
      <4>0. i \in 1..Len(t)
        BY <1>4
      <4>1. CASE t[i] \in ToSet(answer)
        <5>1. PICK j \in 1..N : t[i] = answer[j]
          BY <1>1, <4>1 DEF ToSet
        <5>2. j \in 1..Len(t) /\ j # i /\ t[j] = t[i]
          BY <1>1, <1>2, <1>4, <3>3, <5>1
        <5> QED
          BY <1>2, <1>4, <4>0, <5>2 DEF Twice, TwiceOnlyAs
      <4>2. CASE i # PlaceOf(t[i], t)
        <5>1. Contains(t, t[i])
          BY <4>0 DEF Contains
        <5>2. PlaceOf(t[i], t) \in 1..Len(t) /\ t[PlaceOf(t[i], t)] = t[i]
          BY <1>2, <5>1, PlaceOfIs
        <5> QED
          BY <1>2, <1>4, <4>0, <4>2, <5>2 DEF Twice, TwiceOnlyAs
      <4> QED
        BY <1>5, <3>3, <4>1, <4>2
    <3> DEFINE at == Sorted(K)
               m == Len(CardsIn(u))
               f == CardPlaces(u)
               h == [n \in 1..m |-> at[f[n]]]
    <3>5. /\ m \in Nat /\ f \in [1..m -> 1..Len(u)] /\ Increasing(f)
          /\ \A k \in 1..Len(u) : u[k] # Message <=> \E n \in 1..m : f[n] = k
          /\ CardsIn(u) \in Seq(Elements)
          /\ \A n \in 1..m : CardsIn(u)[n] = u[f[n]]
      BY <1>6, CardsInPlaces
    <3>6. /\ at \in [1..Len(u) -> 1..Len(t)] /\ Increasing(at)
          /\ \A n \in 1..Len(u) : at[n] \in K /\ u[n] = t[at[n]]
          /\ \A i \in K : \E n \in 1..Len(u) : at[n] = i
      BY <1>4, <1>6
    <3> HIDE DEF at, m, f, u
    <3>7. h \in [1..m -> Nat \ {0}] /\ \A n \in 1..m : h[n] = at[f[n]]
      BY <3>5, <3>6
    <3>8. Increasing(h)
      <4> SUFFICES ASSUME NEW i \in 1..m, NEW j \in 1..m, i < j PROVE h[i] < h[j]
        BY <3>7 DEF Increasing
      <4>1. f[i] < f[j]
        BY <3>5 DEF Increasing
      <4>2. at[f[i]] < at[f[j]]
        BY <3>5, <3>6, <4>1 DEF Increasing
      <4> QED
        BY <3>7, <4>2
    <3>9. \A i \in 1..N : \E n \in 1..m : h[n] = i
      <4> TAKE i \in 1..N
      <4>1. PICK k \in 1..Len(u) : at[k] = i
        BY <3>2, <3>6
      <4>2. u[k] # Message
        BY <3>2, <3>6, <4>1
      <4>3. PICK n \in 1..m : f[n] = k
        BY <3>5, <4>2
      <4> QED
        BY <3>7, <4>1, <4>3
    <3> HIDE DEF h
    <3>10. N <= m /\ \A n \in 1..N : h[n] = n
      <4>1. m \in Nat /\ N \in Nat /\ h \in [1..m -> Nat \ {0}]
        BY <1>1, <3>5, <3>7
      <4> HIDE DEF N
      <4> QED
        BY <3>8, <3>9, <4>1, CountsFromOne
    <3>11. ASSUME NEW n \in 1..m
           PROVE  CardsIn(u)[n] = t[h[n]] /\ h[n] \in K /\ t[h[n]] # Message
      <4>1. f[n] \in 1..Len(u) /\ CardsIn(u)[n] = u[f[n]] /\ u[f[n]] # Message
        BY <3>5
      <4> QED
        BY <3>6, <3>7, <4>1
    <3>12. \A n \in 1..N : CardsIn(u)[n] = answer[n]
      <4> TAKE n \in 1..N
      <4>1. n \in 1..m /\ h[n] = n
        BY <1>1, <3>5, <3>10
      <4> QED
        BY <1>2, <3>11, <4>1
    <3>13. ASSUME NEW n \in 1..m, n > N PROVE Twice(CardsIn(u)[n], s)
      <4>1. h[n] > N
        <5>1. CASE N = 0
          BY <3>7, <5>1
        <5>2. CASE N # 0
          <6>1. N \in 1..m /\ h[N] = N
            BY <1>1, <3>5, <3>10, <5>2
          <6>2. h[N] < h[n]
            BY <1>1, <3>7, <3>8, <3>13, <6>1 DEF Increasing
          <6> QED
            BY <6>1, <6>2
        <5> QED
          BY <5>1, <5>2
      <4> QED
        BY <3>3, <3>11, <4>1
    <3>14. answer \in Seq(Elements)
      BY DEF Elements
    <3>15. DOMAIN CardsIn(u) = 1..m /\ m = Len(CardsIn(u))
      BY <3>5 DEF m
    <3>16. IsPrefix(answer, CardsIn(u))
      BY <1>1, <3>5, <3>10, <3>12, <3>14, <3>15, PrefixBySpots
    <3>17. Mirrored(CardsIn(u), answer, s)
      BY <3>13, <3>15, <3>16 DEF Mirrored
    <3> QED
      BY <1>3, <2>2, <3>17
  <2> QED
    BY <2>1, <2>2
<1> QED
  BY <1>7, <1>8

-----------------------------------------------------------------------------
(***************************************************************************)
(* The state.  A list that nothing disturbed is in order, up to the mark,  *)
(* and has every lasting article up to there; the page that is on its way, *)
(* of all that were asked for since the last reset, begins at the mark.    *)
(***************************************************************************)

\* A page that arrives: the cards beyond where it was asked to begin.
LEMMA PageIs ==
  ASSUME ViewTypeOK, NEW v \in Views, NEW m \in Cards \cup {0}
  PROVE  /\ Beyond(v, m) \in SUBSET Cards /\ Cardinality(Beyond(v, m)) \in Nat
         /\ FirstOf(Beyond(v, m)) \in Seq(Cards) /\ Len(FirstOf(Beyond(v, m))) \in Nat
         /\ FirstOf(listing[v]) \in Seq(Cards) /\ Increasing(FirstOf(listing[v]))
         /\ Len(FirstOf(listing[v])) \in Nat
         /\ Cardinality(Beyond(v, m)) > Limit
              => /\ Last(FirstOf(Beyond(v, m))) \in Cards
                 /\ Last(FirstOf(Beyond(v, m))) = FirstOf(Beyond(v, m))[Limit]
<1> DEFINE S == Beyond(v, m)
           page == FirstOf(S)
<1>1. S \in SUBSET Cards /\ listing[v] \in SUBSET Cards /\ Limit \in Nat \ {0}
  BY ListViewAssumption DEF ViewTypeOK, Beyond
<1> HIDE DEF S
<1>2. /\ Cardinality(S) \in Nat /\ page \in Seq(S)
      /\ Len(page) = IF Cardinality(S) <= Limit THEN Cardinality(S) ELSE Limit
  BY <1>1, FirstOfIs
<1>3. FirstOf(listing[v]) \in Seq(listing[v]) /\ Increasing(FirstOf(listing[v]))
  BY <1>1, FirstOfIs
<1>4. page \in Seq(Cards) /\ FirstOf(listing[v]) \in Seq(Cards)
  BY <1>1, <1>2, <1>3, SeqMonotonic
<1> HIDE DEF page
<1>5. ASSUME Cardinality(S) > Limit PROVE Last(page) \in Cards /\ Last(page) = page[Limit]
  <2>1. Len(page) = Limit /\ Limit \in 1..Len(page)
    BY <1>1, <1>2, <1>5
  <2> QED
    BY <1>4, <2>1 DEF Last
<1>6. Len(page) \in Nat /\ Len(FirstOf(listing[v])) \in Nat
  BY <1>4
<1> QED
  BY <1>1, <1>2, <1>3, <1>4, <1>5, <1>6 DEF S, page

LEMMA ViewTypeStep == ViewTypeOK /\ [ViewNext]_viewVars => ViewTypeOK'
<1> SUFFICES ASSUME ViewTypeOK, [ViewNext]_viewVars PROVE ViewTypeOK'
  OBVIOUS
<1> USE ListViewAssumption
<1>1. ASSUME NEW n \in 1..MaxAsked, NEW v \in Views, NEW m \in Cards \cup {0},
             NEW others \in SUBSET PageRequests, AskFor(n, v, m, others)
      PROVE  asked' \subseteq PageRequests
  <2>1. [n |-> n, view |-> v, mark |-> m, late |-> FALSE] \in PageRequests
    BY DEF PageRequests
  <2> QED
    BY <1>1, <2>1 DEF AskFor
<1>2. CASE LoadMore
  <2>1. asked' \subseteq PageRequests
    BY <1>1, <1>2 DEF LoadMore, ViewTypeOK
  <2> QED
    BY <1>2, <2>1 DEF LoadMore, ViewTypeOK
<1>3. ASSUME NEW v \in Views, Reset(v) PROVE ViewTypeOK'
  <2>1. {[q EXCEPT !.late = TRUE] : q \in asked} \in SUBSET PageRequests
    <3>1. \A q \in PageRequests : [q EXCEPT !.late = TRUE] \in PageRequests
      BY DEF PageRequests
    <3>2. asked \subseteq PageRequests
      BY DEF ViewTypeOK
    <3> QED
      BY <3>1, <3>2
  <2>2. asked' \subseteq PageRequests
    BY <1>1, <1>3, <2>1 DEF Reset
  <2>3. asking' \in {{}} \cup {{r} : r \in Refreshes}
    <3>1. CASE asking = {}
      BY <1>3, <3>1 DEF Reset
    <3>2. CASE asking # {}
      <4>1. PICK r \in Refreshes : asking = {r}
        BY <3>2 DEF ViewTypeOK
      <4>2. [r EXCEPT !.late = TRUE] \in Refreshes /\ asking' = {[r EXCEPT !.late = TRUE]}
        BY <1>3, <4>1 DEF Reset, Refreshes
      <4> QED
        BY <4>2
    <3> QED
      BY <3>1, <3>2
  <2>4. list' \in Seq(Cards \cup {Message})
    BY <1>3 DEF Reset
  <2> QED
    BY <1>3, <2>2, <2>3, <2>4 DEF Reset, ViewTypeOK
<1>4. ASSUME NEW q \in asked, PageArrives(q) PROVE ViewTypeOK'
  <2>1. q.view \in Views /\ q.mark \in Cards \cup {0} /\ q.late \in BOOLEAN
    BY DEF ViewTypeOK, PageRequests
  <2> DEFINE S == Beyond(q.view, q.mark)
             page == FirstOf(S)
  <2>2. /\ page \in Seq(Cards) /\ Len(page) \in Nat /\ Cardinality(S) \in Nat
        /\ Cardinality(S) > Limit => Last(page) \in Cards
    BY <2>1, PageIs
  <2>3. /\ asked' = asked \ {q} /\ loading' = FALSE /\ total' = total + Len(page)
        /\ more' = (Cardinality(S) > Limit)
        /\ mark' = IF Cardinality(S) > Limit THEN Last(page) ELSE 0
        /\ list' = IF total' = 0 THEN <<Message>> ELSE list \o page
        /\ calm' = (calm /\ ~q.late)
        /\ UNCHANGED <<listing, view, asking, lasting>>
    BY <1>4 DEF PageArrives
  <2> HIDE DEF page, S
  <2>4. list' \in Seq(Cards \cup {Message})
    <3>1. list \o page \in Seq(Cards \cup {Message}) /\ <<Message>> \in Seq(Cards \cup {Message})
      BY <2>2 DEF ViewTypeOK
    <3> QED
      BY <2>3, <3>1
  <2>5. mark' \in Cards \cup {0} /\ total' \in Nat /\ more' \in BOOLEAN /\ loading' \in BOOLEAN
    <3>1. mark' \in Cards \cup {0}
      BY <2>2, <2>3
    <3>2. total' \in Nat
      BY <2>2, <2>3 DEF ViewTypeOK
    <3>3. more' \in BOOLEAN
      <4>1. (Cardinality(S) > Limit) \in BOOLEAN
        OBVIOUS
      <4> QED
        BY <2>3, <4>1, Zenon
    <3> QED
      BY <2>3, <3>1, <3>2, <3>3
  <2>6. calm' \in BOOLEAN /\ asked' \subseteq PageRequests
    BY <2>1, <2>3 DEF ViewTypeOK
  <2> QED
    BY <2>3, <2>4, <2>5, <2>6 DEF ViewTypeOK
<1>5. ASSUME NEW q \in asked, PageFails(q) PROVE ViewTypeOK'
  <2>1. q.late \in BOOLEAN
    BY DEF ViewTypeOK, PageRequests
  <2>2. list' \in Seq(Cards \cup {Message})
    BY <1>5 DEF PageFails, ViewTypeOK
  <2> QED
    BY <1>5, <2>1, <2>2 DEF PageFails, ViewTypeOK
<1>6. CASE StartRefresh
  <2>1. [view |-> view, late |-> FALSE] \in Refreshes
    BY DEF ViewTypeOK, Refreshes
  <2> QED
    BY <1>6, <2>1 DEF StartRefresh, ViewTypeOK
<1>7. CASE RefreshFails
  BY <1>7 DEF RefreshFails, ViewTypeOK
<1>8. ASSUME NEW r \in asking, RefreshArrives(r) PROVE ViewTypeOK'
  <2>1. r.view \in Views /\ r.late \in BOOLEAN
    BY DEF ViewTypeOK, Refreshes
  <2> DEFINE answer == FirstOf(listing[r.view])
  <2>2. answer \in Seq(Cards) /\ Increasing(answer) /\ Len(answer) \in Nat
    BY <2>1, PageIs
  <2>3. /\ asking' = {} /\ list' = Reconciled(list, answer) /\ total' = Len(answer)
        /\ calm' = (calm /\ ~r.late /\ ~Disturbs(answer))
        /\ UNCHANGED <<listing, view, mark, more, loading, asked, lasting>>
    BY <1>8 DEF RefreshArrives
  <2> HIDE DEF answer
  <2>4. list' \in Seq(Cards \cup {Message})
    BY <2>2, <2>3, ReconciledMirrors DEF ViewTypeOK, Elements
  <2> QED
    BY <2>1, <2>2, <2>3, <2>4 DEF ViewTypeOK
<1>9. ASSUME NEW v \in Views, NEW c \in Cards, Relist(v, c) PROVE ViewTypeOK'
  <2>1. listing' \in [Views -> SUBSET Cards]
    BY <1>9 DEF Relist, ViewTypeOK
  <2> QED
    BY <1>9, <2>1 DEF Relist, ViewTypeOK
<1>10. CASE UNCHANGED viewVars
  BY <1>10 DEF viewVars, ViewTypeOK
<1> QED
  BY <1>2, <1>3, <1>4, <1>5, <1>6, <1>7, <1>8, <1>9, <1>10 DEF ViewNext

\* The variables have their types: what is asked for is a page of a view from a card
\* on, and the list has nothing but cards and messages, whatever _reconcile moved.
THEOREM ViewTypeCorrect == ViewSpec => []ViewTypeOK
<1>1. ViewInit => ViewTypeOK
  BY ListViewAssumption DEF ViewInit, ViewTypeOK, PageRequests
<1> QED
  BY <1>1, ViewTypeStep, PTL DEF ViewSpec

-----------------------------------------------------------------------------
\* silentRefresh and _reconcile: the list has the cards of the answer first, in its
\* order, wherever they were before, and no other card but copies of one that was
\* there twice.
THEOREM RefreshMirrorsHolds == ViewSpec => RefreshMirrors
<1>1. ASSUME ViewTypeOK, NEW r \in asking, RefreshArrives(r)
      PROVE  Mirrored(CardsIn(list'), FirstOf(listing[r.view]), list)
  <2> DEFINE answer == FirstOf(listing[r.view])
  <2>1. r.view \in Views
    BY <1>1 DEF ViewTypeOK, Refreshes
  <2>2. answer \in Seq(Cards) /\ Increasing(answer)
    <3>1. 0 \in Cards \cup {0}
      OBVIOUS
    <3> QED
      BY <1>1, <2>1, <3>1, PageIs
  <2>3. list' = Reconciled(list, answer)
    BY <1>1 DEF RefreshArrives
  <2>4. list \in Seq(Elements)
    BY <1>1 DEF ViewTypeOK, Elements
  <2> HIDE DEF answer
  <2>5. Mirrored(CardsIn(list'), answer, list)
    BY <2>2, <2>3, <2>4, ReconciledMirrors
  <2> QED
    BY <2>5 DEF answer
<1>2. ViewTypeOK => [\A r \in asking :
                       RefreshArrives(r) =>
                         Mirrored(CardsIn(list'), FirstOf(listing[r.view]), list)]_viewVars
  BY <1>1
<1> QED
  BY <1>2, ViewTypeCorrect, PTL DEF ViewSpec, RefreshMirrors

-----------------------------------------------------------------------------
\* Always: a refresh that is not late is of the view, what lasts is listed, and while
\* nothing was loaded there is no card.
Books ==
  /\ \A r \in asking : ~r.late => r.view = view
  /\ lasting \subseteq listing[view]
  /\ total = 0 => \A i \in DOMAIN list : list[i] = Message

\* loadMore waits for the one page that it asked for.
OneAsked ==
  /\ loading => more
  /\ \A q \in asked : ~q.late => loading /\ q.view = view /\ q.mark = mark
  /\ \A q, p \in asked : ~q.late /\ ~p.late => q = p

\* The cards are in order, up to the mark, and what lasts up to there is among them.
ShownToMark ==
  /\ InOrder(list)
  /\ more => \A i \in DOMAIN list : list[i] # Message => list[i] <= mark
  /\ \A c \in lasting : (more => c <= mark) => \E i \in DOMAIN list : list[i] = c

ViewInv == ViewTypeOK /\ Books /\ (calm => OneAsked /\ ShownToMark)

\* A list that has a message more has the same cards.
LEMMA MessageAppended ==
  ASSUME NEW s \in Seq(Elements)
  PROVE  LET t == Append(s, Message)
         IN  /\ InOrder(s) => InOrder(t)
             /\ \A i \in DOMAIN t : t[i] # Message => i \in DOMAIN s /\ t[i] = s[i]
             /\ \A i \in DOMAIN s : i \in DOMAIN t /\ t[i] = s[i]
<1> DEFINE t == Append(s, Message)
<1>1. /\ DOMAIN s = 1..Len(s) /\ DOMAIN t = 1..(Len(s) + 1) /\ Len(s) \in Nat
      /\ t[Len(s) + 1] = Message /\ \A i \in 1..Len(s) : t[i] = s[i]
  BY AppendProperties DEF Elements
<1> HIDE DEF t
<1>2. \A i \in DOMAIN t : t[i] # Message => i \in DOMAIN s /\ t[i] = s[i]
  BY <1>1
<1> QED
  BY <1>1, <1>2 DEF InOrder, t

\* A page that begins at the mark is appended: the cards are in order, up to the new
\* mark, and what lasts up to there is among them.
LEMMA PageAppended ==
  ASSUME ViewInv, calm, more, NEW q \in asked, ~q.late, PageArrives(q)
  PROVE  ShownToMark'
<1> DEFINE S == Beyond(view, mark)
           page == FirstOf(S)
           N == Len(page)
           L == Len(list)
<1>1. q.view = view /\ q.mark = mark
  BY DEF ViewInv, OneAsked
<1>2. /\ total' = total + Len(page)
      /\ more' = (Cardinality(S) > Limit)
      /\ mark' = IF Cardinality(S) > Limit THEN Last(page) ELSE 0
      /\ list' = IF total' = 0 THEN <<Message>> ELSE list \o page
      /\ UNCHANGED <<listing, view, lasting>>
  BY <1>1 DEF PageArrives
<1>3. more' <=> Cardinality(S) > Limit
  <2>1. more' = (Cardinality(S) > Limit)
    BY <1>1 DEF PageArrives
  <2> QED
    BY <2>1, Zenon
<1>4. /\ view \in Views /\ mark \in Cards \cup {0} /\ mark \in Nat
      /\ list \in Seq(Elements) /\ L \in Nat /\ DOMAIN list = 1..L /\ total \in Nat
  BY ListViewAssumption DEF ViewInv, ViewTypeOK, Elements
<1>5. /\ S \in SUBSET Cards /\ page \in Seq(Cards) /\ Cardinality(S) \in Nat
      /\ Cardinality(S) > Limit => Last(page) \in Cards /\ Last(page) = page[Limit]
  BY <1>4, PageIs DEF ViewInv
<1>6. \A c \in S : c \in Nat /\ c > mark
  BY <1>5, ListViewAssumption DEF Beyond
<1>7. \A c \in lasting : c > mark => c \in S
  BY DEF ViewInv, Books, Beyond
<1>8. /\ page \in Seq(S) /\ Increasing(page)
      /\ N = IF Cardinality(S) <= Limit THEN Cardinality(S) ELSE Limit
      /\ \A c \in S : Cardinality(S) <= Limit \/ c <= page[Limit] => \E n \in 1..N : page[n] = c
  BY <1>5, FirstOfIs
<1>9. Limit \in Nat \ {0} /\ Message \notin Cards
  BY ListViewAssumption
<1> HIDE DEF S, page, N
<1>10. /\ N \in Nat /\ DOMAIN page = 1..N
      /\ \A n \in 1..N : page[n] \in S /\ page[n] \in Nat /\ page[n] > mark /\ page[n] # Message
  <2>1. N \in Nat /\ DOMAIN page = 1..N /\ \A n \in 1..N : page[n] \in S
    BY <1>8 DEF N
  <2> QED
    BY <1>5, <1>6, <1>9, <2>1
<1>11. \A i \in 1..L : list[i] # Message => list[i] \in Nat /\ list[i] <= mark
  <2>1. \A i \in 1..L : list[i] # Message => list[i] \in Cards
    BY <1>4 DEF Elements
  <2> QED
    BY <1>4, <2>1, ListViewAssumption DEF ViewInv, ShownToMark
<1>12. \A c \in lasting : c <= mark => \E i \in 1..L : list[i] = c
  BY <1>4 DEF ViewInv, ShownToMark
<1>13. \A c \in lasting : c \in Cards /\ c \in Nat
  BY ListViewAssumption DEF ViewInv, ViewTypeOK
<1>14. CASE total' = 0
  <2>1. N = 0 /\ total = 0
    BY <1>2, <1>4, <1>10, <1>14 DEF N
  <2>2. Cardinality(S) = 0 /\ ~(Cardinality(S) > Limit)
    BY <1>5, <1>8, <1>9, <2>1
  <2>3. \A c \in S : FALSE
    BY <1>5, <1>8, <1>9, <2>1, <2>2
  <2>4. \A i \in 1..L : list[i] = Message
    BY <1>4, <2>1 DEF ViewInv, Books
  <2>5. \A c \in lasting : FALSE
    BY <1>4, <1>7, <1>9, <1>12, <1>13, <2>3, <2>4
  <2>6. list' = <<Message>> /\ ~more'
    BY <1>2, <1>14, <2>2
  <2> QED
    BY <1>2, <2>5, <2>6 DEF ShownToMark, InOrder
<1>15. CASE total' # 0
  <2>1. /\ DOMAIN list' = 1..(L + N)
        /\ \A i \in 1..L : list'[i] = list[i]
        /\ \A n \in 1..N : list'[L + n] = page[n]
        /\ \A i \in 1..(L + N) : i > L => i - L \in 1..N /\ list'[i] = page[i - L]
    <3>1. list' = list \o page
      BY <1>2, <1>15
    <3>2. page \in Seq(Elements)
      BY <1>5 DEF Elements
    <3>3. /\ Len(list \o page) = L + N /\ list \o page \in Seq(Elements)
          /\ \A i \in 1..(L + N) : (list \o page)[i] = IF i <= L THEN list[i] ELSE page[i - L]
      BY <1>4, <3>2, ConcatProperties DEF N
    <3> QED
      BY <1>4, <1>10, <3>1, <3>3
  <2>2. ASSUME NEW i \in 1..(L + N), NEW j \in 1..(L + N), i < j,
               list'[i] # Message, list'[j] # Message
        PROVE  list'[i] < list'[j]
    <3>1. CASE j <= L
      <4>1. i \in DOMAIN list /\ j \in DOMAIN list /\ list'[i] = list[i] /\ list'[j] = list[j]
        BY <1>4, <1>10, <2>1, <2>2, <3>1
      <4> QED
        BY <2>2, <4>1 DEF ViewInv, ShownToMark, InOrder
    <3>2. CASE i <= L /\ j > L
      <4>1. i \in 1..L /\ list'[i] = list[i] /\ j - L \in 1..N /\ list'[j] = page[j - L]
        BY <1>4, <1>10, <2>1, <3>2
      <4>2. list[i] \in Nat /\ list[i] <= mark /\ page[j - L] \in Nat /\ page[j - L] > mark
        BY <1>10, <1>11, <2>2, <4>1
      <4> QED
        BY <1>4, <4>1, <4>2
    <3>3. CASE i > L
      <4>1. /\ i - L \in 1..N /\ list'[i] = page[i - L] /\ i - L < j - L
            /\ j - L \in 1..N /\ list'[j] = page[j - L]
        BY <1>4, <1>10, <2>1, <2>2, <3>3
      <4> QED
        BY <1>8, <1>10, <4>1 DEF Increasing
    <3> QED
      BY <1>4, <1>10, <3>1, <3>2, <3>3
  <2>3. ASSUME more', NEW i \in 1..(L + N), list'[i] # Message PROVE list'[i] <= mark'
    <3>1. /\ N = Limit /\ mark' = page[Limit] /\ Limit \in 1..N
      BY <1>2, <1>3, <1>5, <1>8, <1>9, <2>3
    <3>2. page[Limit] \in Nat /\ page[Limit] > mark
      BY <1>10, <3>1
    <3>3. CASE i <= L
      <4>1. list'[i] \in Nat /\ list'[i] <= mark
        BY <1>4, <1>10, <1>11, <2>1, <2>3, <3>3
      <4> QED
        BY <1>4, <3>1, <3>2, <4>1
    <3>4. CASE i > L
      <4>1. i - L \in 1..N /\ list'[i] = page[i - L] /\ page[i - L] \in Nat
        BY <1>10, <2>1, <3>4
      <4>2. i - L # Limit => page[i - L] < page[Limit]
        <5>1. i - L \in DOMAIN page /\ Limit \in DOMAIN page
          BY <1>10, <3>1, <4>1
        <5>2. i - L # Limit => i - L < Limit
          BY <1>9, <3>1, <4>1
        <5> QED
          BY <1>8, <5>1, <5>2 DEF Increasing
      <4> QED
        BY <3>1, <3>2, <4>1, <4>2
    <3> QED
      BY <1>4, <1>10, <3>3, <3>4
  <2>4. ASSUME NEW c \in lasting, more' => c <= mark' PROVE \E i \in 1..(L + N) : list'[i] = c
    <3>1. CASE c <= mark
      <4>1. PICK i \in 1..L : list[i] = c
        BY <1>12, <3>1
      <4> QED
        BY <1>4, <1>10, <2>1, <4>1
    <3>2. CASE ~(c <= mark)
      <4>1. c \in S
        BY <1>4, <1>7, <1>13, <3>2
      <4>2. Cardinality(S) <= Limit \/ c <= page[Limit]
        BY <1>2, <1>3, <1>5, <1>9, <2>4
      <4>3. PICK n \in 1..N : page[n] = c
        BY <1>8, <4>1, <4>2
      <4>4. L + n \in 1..(L + N) /\ list'[L + n] = c
        BY <1>4, <1>10, <2>1, <4>3
      <4> QED
        BY <4>4
    <3> QED
      BY <3>1, <3>2
  <2>5. lasting' = lasting
    BY <1>2
  <2> QED
    BY <2>1, <2>2, <2>3, <2>4, <2>5 DEF ShownToMark, InOrder
<1> QED
  BY <1>14, <1>15

\* A refresh that disturbs nothing shows the first page, and what it shows up to the
\* mark is what was shown.
LEMMA RefreshShown ==
  ASSUME ViewInv, calm, NEW r \in asking, ~r.late, RefreshArrives(r),
         ~Disturbs(FirstOf(listing[r.view]))
  PROVE  ShownToMark'
<1> DEFINE answer == FirstOf(listing[view])
<1>1. /\ r.view = view /\ view \in Views /\ mark \in Cards \cup {0}
      /\ list \in Seq(Elements) /\ DOMAIN list = 1..Len(list)
  BY DEF ViewInv, Books, ViewTypeOK, Elements
<1>2. answer \in Seq(Cards) /\ Increasing(answer) /\ DOMAIN answer = 1..Len(answer)
  <2>1. answer \in Seq(Cards) /\ Increasing(answer)
    BY <1>1, PageIs DEF ViewInv
  <2> HIDE DEF answer
  <2> QED
    BY <2>1
<1>3. list' = Reconciled(list, answer) /\ UNCHANGED <<listing, view, mark, more, lasting>>
  BY <1>1 DEF RefreshArrives
<1>4. ~Disturbs(answer)
  BY <1>1
<1> HIDE DEF answer
<1>5. InOrder(list)
  BY DEF ViewInv, ShownToMark
<1>6. list' \in Seq(Elements) /\ CardsIn(list') = answer
  <2>1. list' \in Seq(Elements) /\ Mirrored(CardsIn(list'), answer, list)
    BY <1>1, <1>2, <1>3, ReconciledMirrors
  <2>2. PICK u \in Seq(Elements) : u = list'
    BY <2>1
  <2>3. /\ CardsIn(u) \in Seq(Elements) /\ DOMAIN CardsIn(u) = 1..Len(CardsIn(u))
        /\ Len(CardsIn(u)) \in Nat /\ Mirrored(CardsIn(u), answer, list)
        /\ \A n \in DOMAIN CardsIn(u) : CardsIn(u)[n] # Message
    BY <2>1, <2>2, CardsInPlaces
  <2>4. \A n \in DOMAIN CardsIn(u) : ~(n > Len(answer))
    BY <1>1, <1>5, <2>3, OrderIsOnce DEF Mirrored
  <2>5. answer \in Seq(Elements) /\ Len(answer) \in Nat
    BY <1>2 DEF Elements
  <2>6. Len(answer) <= Len(CardsIn(u)) /\ \A n \in 1..Len(answer) : answer[n] = CardsIn(u)[n]
    BY <2>3, <2>5, PrefixBySpots DEF Mirrored
  <2>7. Len(CardsIn(u)) = Len(answer)
    BY <2>3, <2>4, <2>5, <2>6
  <2>8. CardsIn(u) = answer
    BY <2>3, <2>5, <2>6, <2>7, SeqEqual
  <2> QED
    BY <2>1, <2>2, <2>8
<1>7. /\ InOrder(list')
      /\ \A i \in DOMAIN list' : list'[i] # Message => \E n \in DOMAIN answer : answer[n] = list'[i]
      /\ \A n \in DOMAIN answer : \E i \in DOMAIN list' : answer[n] = list'[i]
  <2>1. PICK u \in Seq(Elements) : u = list'
    BY <1>6
  <2>2. CardsIn(u) = answer
    BY <1>6, <2>1
  <2>3. /\ InOrder(u)
        /\ \A i \in DOMAIN u : u[i] # Message => \E n \in DOMAIN answer : answer[n] = u[i]
        /\ \A n \in DOMAIN answer : \E i \in DOMAIN u : answer[n] = u[i]
    BY <1>2, <2>2, CardsInOrder
  <2> QED
    BY <2>1, <2>3
<1>8. more => \A n \in DOMAIN answer : answer[n] <= mark
  <2>1. \A n \in DOMAIN answer : answer[n] \in Cards
    BY <1>2
  <2>2. mark \in Nat /\ \A n \in DOMAIN answer : answer[n] \in Nat
    <3>1. \A c \in Cards \cup {0} : c \in Nat
      BY ListViewAssumption
    <3> QED
      BY <1>1, <2>1, <3>1
  <2> QED
    BY <1>4, <2>2 DEF Disturbs
<1>9. ASSUME NEW c \in lasting, more => c <= mark PROVE \E i \in DOMAIN list' : list'[i] = c
  <2>1. c \in ToSet(list) /\ c \in listing[view]
    BY <1>9 DEF ViewInv, Books, ShownToMark, ToSet
  <2>2. c \in ToSet(answer)
    BY <1>4, <2>1 DEF Disturbs
  <2> QED
    BY <1>7, <2>2 DEF ToSet
<1>10. more' => \A i \in DOMAIN list' : list'[i] # Message => list'[i] <= mark'
  BY <1>3, <1>7, <1>8
<1>11. \A c \in lasting' : (more' => c <= mark') => \E i \in DOMAIN list' : list'[i] = c
  BY <1>3, <1>9
<1> QED
  BY <1>7, <1>10, <1>11 DEF ShownToMark, InOrder

LEMMA ViewInvStep == ViewInv /\ [ViewNext]_viewVars => ViewInv'
<1> SUFFICES ASSUME ViewInv, [ViewNext]_viewVars
             PROVE  Books' /\ (calm' => OneAsked' /\ ShownToMark')
  BY ViewTypeStep DEF ViewInv
<1>1. ViewTypeOK /\ ViewTypeOK' /\ Books
  BY ViewTypeStep DEF ViewInv
<1>2. CASE LoadMore
  <2>1. PICK new \in PageRequests :
          new.view = view /\ new.mark = mark /\ asked' = asked \cup {new}
    <3>1. PICK n \in 1..MaxAsked :
            asked' = asked \cup {[n |-> n, view |-> view, mark |-> mark, late |-> FALSE]}
      BY <1>2 DEF LoadMore, AskFor
    <3>2. [n |-> n, view |-> view, mark |-> mark, late |-> FALSE] \in PageRequests
      BY <1>1 DEF ViewTypeOK, PageRequests
    <3> QED
      BY <3>1, <3>2
  <2>2. /\ ~loading /\ more /\ loading'
        /\ UNCHANGED <<listing, view, mark, more, total, list, asking, calm, lasting>>
    BY <1>2 DEF LoadMore, MayLoad
  <2>3. ASSUME calm PROVE OneAsked'
    <3>1. \A q \in asked' : ~q.late => q = new
      BY <2>1, <2>2, <2>3 DEF ViewInv, OneAsked
    <3> QED
      BY <2>1, <2>2, <3>1 DEF OneAsked
  <2> QED
    BY <2>2, <2>3 DEF ViewInv, Books, ShownToMark, InOrder
<1>3. ASSUME NEW v \in Views, Reset(v) PROVE Books' /\ OneAsked' /\ ShownToMark'
  <2> DEFINE later == {[q EXCEPT !.late = TRUE] : q \in asked}
  <2>1. \A q \in later : q.late
    BY <1>1 DEF ViewTypeOK, PageRequests
  <2>2. PICK new \in PageRequests : new.view = v /\ new.mark = 0 /\ asked' = later \cup {new}
    <3>1. PICK n \in 1..MaxAsked :
            asked' = later \cup {[n |-> n, view |-> v, mark |-> 0, late |-> FALSE]}
      BY <1>3 DEF Reset, AskFor
    <3>2. [n |-> n, view |-> v, mark |-> 0, late |-> FALSE] \in PageRequests
      BY DEF PageRequests
    <3> HIDE DEF later
    <3> QED
      BY <3>1, <3>2
  <2> HIDE DEF later
  <2>3. /\ view' = v /\ mark' = 0 /\ more' /\ loading' /\ list' = << >>
        /\ asking' = {[r EXCEPT !.late = TRUE] : r \in asking}
        /\ lasting' = listing[v] /\ listing' = listing
    BY <1>3 DEF Reset
  <2>4. OneAsked'
    <3>1. \A q \in asked' : ~q.late => q = new
      BY <2>1, <2>2
    <3> QED
      BY <2>2, <2>3, <3>1 DEF OneAsked
  <2>5. ShownToMark'
    <3>1. \A c \in lasting' : c \in Nat \ {0}
      BY <1>1, <2>3, ListViewAssumption DEF ViewTypeOK
    <3>2. \A c \in lasting' : ~(c <= mark')
      BY <2>3, <3>1
    <3> QED
      BY <2>3, <3>2 DEF ShownToMark, InOrder
  <2>6. \A r \in asking' : r.late
    BY <1>1, <2>3 DEF ViewTypeOK, Refreshes
  <2>7. Books'
    BY <2>3, <2>6 DEF Books
  <2> QED
    BY <2>4, <2>5, <2>7
<1>4. ASSUME NEW q \in asked, PageArrives(q) PROVE Books' /\ (calm' => OneAsked' /\ ShownToMark')
  <2> DEFINE page == FirstOf(Beyond(q.view, q.mark))
  <2>1. /\ asked' = asked \ {q} /\ loading' = FALSE /\ total' = total + Len(page)
        /\ list' = IF total' = 0 THEN <<Message>> ELSE list \o page
        /\ calm' = (calm /\ ~q.late)
        /\ UNCHANGED <<listing, view, asking, lasting>>
    BY <1>4 DEF PageArrives
  <2>2. Books'
    <3>1. total' = 0 => \A i \in DOMAIN list' : list'[i] = Message
      BY <2>1
    <3> QED
      BY <1>1, <2>1, <3>1 DEF Books
  <2>3. ASSUME calm' PROVE OneAsked' /\ ShownToMark'
    <3>1. calm /\ ~q.late
      BY <2>1, <2>3
    <3>2. more /\ \A p \in asked : ~p.late => p = q
      BY <3>1 DEF ViewInv, OneAsked
    <3>3. ShownToMark'
      BY <1>4, <3>1, <3>2, PageAppended
    <3>4. OneAsked'
      BY <2>1, <3>2 DEF OneAsked
    <3> QED
      BY <3>3, <3>4
  <2> QED
    BY <2>2, <2>3
<1>5. ASSUME NEW q \in asked, PageFails(q) PROVE Books' /\ (calm' => OneAsked' /\ ShownToMark')
  <2>1. /\ asked' = asked \ {q} /\ loading' = FALSE /\ list' = Append(list, Message)
        /\ calm' = (calm /\ ~q.late)
        /\ UNCHANGED <<listing, view, mark, more, total, asking, lasting>>
    BY <1>5 DEF PageFails
  <2>2. /\ InOrder(list) => InOrder(list')
        /\ \A i \in DOMAIN list' : list'[i] # Message => i \in DOMAIN list /\ list'[i] = list[i]
        /\ \A i \in DOMAIN list : i \in DOMAIN list' /\ list'[i] = list[i]
    <3>1. list \in Seq(Elements)
      BY <1>1 DEF ViewTypeOK, Elements
    <3> QED
      BY <2>1, <3>1, MessageAppended
  <2>3. Books'
    <3>1. total' = 0 => \A i \in DOMAIN list' : list'[i] = Message
      BY <1>1, <2>1, <2>2 DEF Books
    <3> QED
      BY <1>1, <2>1, <3>1 DEF Books
  <2>4. ASSUME calm' PROVE OneAsked' /\ ShownToMark'
    <3>1. calm /\ ~q.late
      BY <2>1, <2>4
    <3>2. OneAsked /\ ShownToMark
      BY <3>1 DEF ViewInv
    <3>3. OneAsked'
      BY <2>1, <3>1, <3>2 DEF OneAsked
    <3>4. ShownToMark'
      BY <2>1, <2>2, <3>2 DEF ShownToMark, InOrder
    <3> QED
      BY <3>3, <3>4
  <2> QED
    BY <2>3, <2>4
<1>6. CASE StartRefresh
  <2>1. /\ asking' = {[view |-> view, late |-> FALSE]}
        /\ UNCHANGED <<listing, view, mark, more, loading, total, list, asked, calm, lasting>>
    BY <1>6 DEF StartRefresh
  <2> QED
    BY <2>1 DEF ViewInv, Books, OneAsked, ShownToMark, InOrder
<1>7. CASE RefreshFails
  BY <1>7 DEF RefreshFails, ViewInv, Books, OneAsked, ShownToMark, InOrder
<1>8. ASSUME NEW r \in asking, RefreshArrives(r) PROVE Books' /\ (calm' => OneAsked' /\ ShownToMark')
  <2> DEFINE answer == FirstOf(listing[r.view])
  <2>1. /\ asking' = {} /\ list' = Reconciled(list, answer) /\ total' = Len(answer)
        /\ calm' = (calm /\ ~r.late /\ ~Disturbs(answer))
        /\ UNCHANGED <<listing, view, mark, more, loading, asked, lasting>>
    BY <1>8 DEF RefreshArrives
  <2>2. r.view \in Views /\ 0 \in Cards \cup {0}
    BY <1>1 DEF ViewTypeOK, Refreshes
  <2>3. answer \in Seq(Cards)
    BY <1>1, <2>2, PageIs
  <2>4. Books'
    <3>1. total' = 0 => list' = << >>
      <4>1. Len(answer) = 0 => answer = << >>
        BY <2>3, EmptySeq
      <4> QED
        BY <2>1, <4>1 DEF Reconciled
    <3> QED
      BY <1>1, <2>1, <3>1 DEF Books
  <2>5. ASSUME calm' PROVE OneAsked' /\ ShownToMark'
    <3>1. calm /\ ~r.late /\ ~Disturbs(answer)
      BY <2>1, <2>5
    <3>2. ShownToMark'
      BY <1>8, <3>1, RefreshShown
    <3>3. OneAsked'
      BY <2>1, <3>1 DEF ViewInv, OneAsked
    <3> QED
      BY <3>2, <3>3
  <2> QED
    BY <2>4, <2>5
<1>9. ASSUME NEW v \in Views, NEW c \in Cards, Relist(v, c)
      PROVE  Books' /\ (calm' => OneAsked' /\ ShownToMark')
  <2>1. /\ listing' = [listing EXCEPT ![v] = IF c \in @ THEN @ \ {c} ELSE @ \cup {c}]
        /\ lasting' = IF v = view THEN lasting \ {c} ELSE lasting
        /\ UNCHANGED <<view, mark, more, loading, total, list, asked, asking, calm>>
    BY <1>9 DEF Relist
  <2>2. lasting' \subseteq listing'[view] /\ lasting' \subseteq lasting
    BY <1>1, <2>1 DEF Books, ViewTypeOK
  <2> QED
    BY <2>1, <2>2 DEF ViewInv, Books, OneAsked, ShownToMark, InOrder
<1>10. CASE UNCHANGED viewVars
  BY <1>10 DEF viewVars, ViewInv, Books, OneAsked, ShownToMark, InOrder
<1> QED
  BY <1>2, <1>3, <1>4, <1>5, <1>6, <1>7, <1>8, <1>9, <1>10 DEF ViewNext

LEMMA ViewInvHolds == ViewSpec => []ViewInv
<1>1. ViewInit => ViewInv
  <2> SUFFICES ASSUME ViewInit PROVE ViewInv
    OBVIOUS
  <2>1. ViewTypeOK
    BY ListViewAssumption DEF ViewInit, ViewTypeOK, PageRequests
  <2>2. Books /\ OneAsked
    BY DEF ViewInit, Books, OneAsked
  <2>3. ShownToMark
    <3>1. \A c \in lasting : c \in Nat \ {0}
      BY <2>1, ListViewAssumption DEF ViewTypeOK
    <3>2. mark = 0 /\ list = << >> /\ more
      BY DEF ViewInit
    <3>3. \A c \in lasting : ~(c <= mark)
      BY <3>1, <3>2
    <3> QED
      BY <3>2, <3>3 DEF ShownToMark, InOrder
  <2> QED
    BY <2>1, <2>2, <2>3 DEF ViewInv
<1> QED
  BY <1>1, ViewInvStep, PTL DEF ViewSpec

\* At its end, a list that nothing disturbed has what its view listed all along, each
\* article once and in order.
THEOREM EndShowsAllHolds == ViewSpec => []EndShowsAll
<1>1. ViewInv => EndShowsAll
  <2> SUFFICES ASSUME ViewInv, calm, ~more
               PROVE  Picked(list, {i \in DOMAIN list : list[i] \in lasting}) = Sorted(lasting)
    BY DEF EndShowsAll
  <2> DEFINE I == {i \in DOMAIN list : list[i] \in lasting}
             at == Sorted(I)
             m == Cardinality(I)
             f == [n \in 1..m |-> list[at[n]]]
  <2>1. /\ list \in Seq(Elements) /\ lasting \subseteq Nat /\ Message \notin lasting
        /\ I \in SUBSET DOMAIN list
    BY ListViewAssumption DEF ViewInv, ViewTypeOK, Elements
  <2>2. \A i \in I : i \in DOMAIN list /\ list[i] \in lasting
    OBVIOUS
  <2>3. \A c \in lasting : \E i \in I : list[i] = c
    BY DEF ViewInv, ShownToMark
  <2> HIDE DEF I
  <2>4. /\ m \in Nat /\ at \in [1..m -> I] /\ Increasing(at)
        /\ \A i \in I : \E n \in 1..m : at[n] = i
    BY <2>1, PlacesPicked
  <2>5. Picked(list, I) = f
    BY DEF Picked
  <2> HIDE DEF at, m
  <2>6. /\ f \in [1..m -> Nat]
        /\ \A n \in 1..m : f[n] = list[at[n]]
    BY <2>1, <2>2, <2>4
  <2>7. Increasing(f)
    <3> SUFFICES ASSUME NEW i \in 1..m, NEW j \in 1..m, i < j PROVE f[i] < f[j]
      BY <2>6 DEF Increasing
    <3>1. /\ at[i] < at[j] /\ at[i] \in DOMAIN list /\ at[j] \in DOMAIN list
          /\ list[at[i]] \in lasting /\ list[at[j]] \in lasting
      BY <2>2, <2>4 DEF Increasing
    <3>2. list[at[i]] < list[at[j]]
      BY <2>1, <3>1 DEF ViewInv, ShownToMark, InOrder
    <3> QED
      BY <2>6, <3>2
  <2>8. lasting = {f[n] : n \in 1..m}
    <3>1. \A n \in 1..m : f[n] \in lasting
      BY <2>2, <2>4, <2>6
    <3>2. \A c \in lasting : \E n \in 1..m : f[n] = c
      BY <2>3, <2>4, <2>6
    <3> QED
      BY <3>1, <3>2
  <2> HIDE DEF f
  <2>9. Sorted(lasting) = f
    BY <2>4, <2>6, <2>7, <2>8, SortedOnly
  <2> QED
    BY <2>5, <2>9 DEF I
<1> QED
  BY <1>1, ViewInvHolds, PTL

-----------------------------------------------------------------------------
(***************************************************************************)
(* ArticlePane: what is stored is about the text that was picked, and a    *)
(* quiet pane shows the annotations of its article.                        *)
(*                                                                         *)
(* The argument: while a popover asks for a note, what was picked is of    *)
(* the article that is shown, since whatever changes the article closes    *)
(* it.  And the last list that was asked for is of the article that is     *)
(* shown, as long as lists are shown and no save or deletion has still to  *)
(* ask for one.                                                            *)
(***************************************************************************)

\* A list that is asked for is one of Reads.
LEMMA ReadIfType ==
  ASSUME PaneTypeOK, NEW asks \in BOOLEAN, NEW a \in Pieces \cup {Nothing},
         NEW closes \in BOOLEAN, asks => a \in Pieces, ReadIf(asks, a, closes)
  PROVE  reads' \in Seq(Reads)
<1>1. CASE asks
  <2>1. [of |-> a, closes |-> closes, passed |-> FALSE] \in Reads
    BY <1>1 DEF Reads
  <2> QED BY <1>1, <2>1 DEF ReadIf, PaneTypeOK
<1>2. CASE ~asks
  BY <1>2 DEF ReadIf, PaneTypeOK
<1> QED BY <1>1, <1>2

\* Annotations are shown only with an article, and are asked for with one.
Shown == (visible \/ popover # "none" \/ ops # {}) => chosen \in Pieces

\* The variables have their types, whatever order the answers come in.
LEMMA PaneTypeStep == PaneTypeOK /\ Shown /\ [PaneNext]_paneVars => PaneTypeOK' /\ Shown'
<1> SUFFICES ASSUME PaneTypeOK, Shown, [PaneNext]_paneVars PROVE PaneTypeOK' /\ Shown'
  OBVIOUS
<1> USE DEF PaneTypeOK, Shown, Notes
<1>1. ASSUME NEW a \in Pieces, Select(a) PROVE PaneTypeOK' /\ Shown'
  BY <1>1, ReadIfType DEF Select, Render, Close
<1>2. CASE Restore
  BY <1>2, ReadIfType DEF Restore, Render, Close
<1>3. CASE ToggleVisibility
  <2>1. reads' \in Seq(Reads)
    BY <1>3, ReadIfType DEF ToggleVisibility
  <2> QED BY <2>1, <1>3, ArticlePaneAssumption DEF ToggleVisibility, Close
<1>4. CASE ToggleMode
  BY <1>4, ArticlePaneAssumption DEF ToggleMode, CloseAndForget, Close
<1>5. CASE Pick
  BY <1>5, ArticlePaneAssumption DEF Pick
<1>6. CASE Dismiss
  BY <1>6 DEF Dismiss, CloseAndForget, Close
<1>7. ASSUME NEW x \in Notes, OpenDetail(x) PROVE PaneTypeOK' /\ Shown'
  BY <1>7 DEF OpenDetail
<1>8. CASE Save
  <2>1. picked \in Pieces /\ chosen \in Pieces
    BY <1>8 DEF Save
  <2>2. [kind |-> "save", note |-> [of |-> chosen, text |-> picked], sent |-> TRUE] \in Ops
    BY <2>1 DEF Ops
  <2> QED BY <1>8, <2>1, <2>2 DEF Save, Send
<1>9. ASSUME NEW kind \in {"edit", "delete"}, Alter(kind) PROVE PaneTypeOK' /\ Shown'
  <2>1. PICK x \in opened : popover = "detail" /\ Send(kind, x)
    BY <1>9 DEF Alter
  <2>2. [kind |-> kind, note |-> x, sent |-> TRUE] \in Ops
    BY DEF Ops
  <2> QED BY <2>1, <2>2 DEF Send
<1>10. ASSUME NEW o \in ops, Saved(o) \/ Deleted(o) \/ Edited(o) \/ Failed(o) \/ Recounted(o)
       PROVE  PaneTypeOK' /\ Shown'
  <2>0. o \in Ops /\ chosen \in Pieces
    BY <1>10
  <2>1. CASE Saved(o)
    BY <2>0, <2>1 DEF Saved, Came, Counting, Close, Ops
  <2>2. CASE Deleted(o)
    BY <2>0, <2>2 DEF Deleted, Came, Counting, Render, Close, Ops
  <2>3. CASE Edited(o)
    BY <2>0, <2>3 DEF Edited, Came, Ended, Render, Close, Ops
  <2>4. CASE Failed(o)
    BY <2>0, <2>4 DEF Failed, Ended, Close, Ops
  <2>5. CASE Recounted(o)
    <3>1. reads' \in Seq(Reads)
      BY <2>0, <2>5, ReadIfType DEF Recounted
    <3> QED BY <3>1, <2>0, <2>5 DEF Recounted, Ended, Close
  <2> QED BY <1>10, <2>1, <2>2, <2>3, <2>4, <2>5
<1>11. ASSUME NEW i \in DOMAIN reads, ReadEnds(i) PROVE PaneTypeOK' /\ Shown'
  <2>1. reads[i] \in Reads /\ Len(reads) - 1 \in Nat
    OBVIOUS
  <2>2. ASSUME NEW j \in 1..(Len(reads) - 1)
        PROVE  (IF j < i THEN [reads[j] EXCEPT !.passed = TRUE] ELSE reads[j + 1]) \in Reads
    <3>1. reads[j] \in Reads /\ reads[j + 1] \in Reads
      BY <2>2
    <3> QED BY <3>1 DEF Reads
  <2>3. reads' \in Seq(Reads)
    BY <1>11, <2>1, <2>2 DEF ReadEnds
  <2> QED BY <1>11, <2>1, <2>3 DEF ReadEnds, Close, Reads
<1>12. CASE UNCHANGED paneVars
  BY <1>12 DEF paneVars
<1> QED BY <1>1, <1>2, <1>3, <1>4, <1>5, <1>6, <1>7, <1>8, <1>9, <1>10, <1>11, <1>12
        DEF PaneNext, PaneStep

\* The variables have their types: an article is shown whenever annotations are
\* asked for, saved or deleted.
THEOREM PaneTypeCorrect == PaneSpec => [](PaneTypeOK /\ Shown)
<1>1. PaneInit => PaneTypeOK /\ Shown
  <2> SUFFICES ASSUME PaneInit PROVE PaneTypeOK /\ Shown
    OBVIOUS
  <2>1. \A a \in Pieces : [of |-> a, text |-> a] \in Notes
    BY DEF Notes
  <2>2. stored \subseteq Notes
    BY <2>1 DEF PaneInit
  <2>3. reads \in Seq(Reads)
    BY DEF PaneInit
  <2> QED BY <2>2, <2>3 DEF PaneInit, PaneTypeOK, Shown
<1> QED BY <1>1, PaneTypeStep, PTL DEF PaneSpec

-----------------------------------------------------------------------------
\* What is picked, stored, shown or sent is about the text of its article.
TextInv ==
  /\ popover = "create" => picked = chosen
  /\ \A x \in stored \cup notes \cup opened : x.of = x.text
  /\ \A o \in ops : o.note.of = o.note.text

\* Whatever changes the article closes the popover, so a step keeps them together.
LEMMA TextStep == PaneTypeOK /\ TextInv /\ [PaneNext]_paneVars => TextInv'
<1> SUFFICES ASSUME PaneTypeOK, TextInv, [PaneNext]_paneVars PROVE TextInv'
  OBVIOUS
<1> USE DEF TextInv
<1>1. ASSUME NEW a \in Pieces, Select(a) PROVE TextInv'
  BY <1>1 DEF Select, Render, Close
<1>2. CASE Restore
  BY <1>2 DEF Restore, Render, Close
<1>3. CASE ToggleVisibility
  BY <1>3 DEF ToggleVisibility, Close
<1>4. CASE ToggleMode
  BY <1>4 DEF ToggleMode, CloseAndForget, Close
<1>5. CASE Pick
  BY <1>5 DEF Pick
<1>6. CASE Dismiss
  BY <1>6 DEF Dismiss, CloseAndForget, Close
<1>7. ASSUME NEW x \in Notes, OpenDetail(x) PROVE TextInv'
  BY <1>7 DEF OpenDetail
<1>8. CASE Save
  BY <1>8 DEF Save, Send
<1>9. ASSUME NEW kind \in {"edit", "delete"}, Alter(kind) PROVE TextInv'
  BY <1>9 DEF Alter, Send
<1>10. ASSUME NEW o \in ops, Saved(o) \/ Deleted(o) \/ Edited(o) \/ Failed(o) \/ Recounted(o)
       PROVE  TextInv'
  <2>0. o \in Ops /\ o.note.of = o.note.text
    BY <1>10 DEF PaneTypeOK
  <2>1. CASE Saved(o)
    BY <2>0, <2>1 DEF Saved, Came, Counting, Close, Ops
  <2>2. CASE Deleted(o)
    BY <2>0, <2>2 DEF Deleted, Came, Counting, Render, Close, Ops
  <2>3. CASE Edited(o)
    BY <2>3 DEF Edited, Ended, Render, Close
  <2>4. CASE Failed(o)
    BY <2>0, <2>4 DEF Failed, Ended, Close, Ops
  <2>5. CASE Recounted(o)
    BY <2>5 DEF Recounted, Ended, Close
  <2> QED BY <1>10, <2>1, <2>2, <2>3, <2>4, <2>5
<1>11. ASSUME NEW i \in DOMAIN reads, ReadEnds(i) PROVE TextInv'
  BY <1>11 DEF ReadEnds, Close
<1>12. CASE UNCHANGED paneVars
  BY <1>12 DEF paneVars
<1> QED BY <1>1, <1>2, <1>3, <1>4, <1>5, <1>6, <1>7, <1>8, <1>9, <1>10, <1>11, <1>12
        DEF PaneNext, PaneStep

\* An annotation is stored with the article whose text was picked, for any articles
\* and any number of calls at once.
THEOREM NoteOnItsTextHolds == PaneSpec => []NoteOnItsText
<1>1. PaneInit => TextInv
  BY DEF PaneInit, TextInv
<1>2. TextInv => NoteOnItsText
  BY DEF TextInv, NoteOnItsText
<1> QED BY <1>1, <1>2, TextStep, PaneTypeCorrect, PTL DEF PaneSpec

-----------------------------------------------------------------------------
\* A pane that shows annotations and waits for no count has asked for the list of
\* its article last: that list is on its way, or it came, or another one after it.
LastIsOwn ==
  visible /\ (\A o \in ops : o.sent) =>
    IF reads # << >> /\ ~reads[Len(reads)].passed
    THEN reads[Len(reads)].of = chosen
    ELSE overtaken \/ \A x \in notes : x.of = chosen

\* A list that comes passes all that were asked for earlier.
PassedFirst ==
  \A j, k \in DOMAIN reads : j < k /\ reads[k].passed => reads[j].passed

\* Asking for a list keeps those that were passed in front.
LEMMA PassedReadIf ==
  ASSUME PaneTypeOK, PassedFirst, NEW asks, NEW a, NEW closes, ReadIf(asks, a, closes)
  PROVE  PassedFirst'
<1>1. CASE asks
  <2>1. reads' = Append(reads, [of |-> a, closes |-> closes, passed |-> FALSE])
    BY <1>1 DEF ReadIf
  <2>2. /\ DOMAIN reads = 1..Len(reads) /\ Len(reads) \in Nat
        /\ DOMAIN reads' = 1..(Len(reads) + 1)
        /\ \A j \in 1..Len(reads) : reads'[j] = reads[j]
        /\ ~reads'[Len(reads) + 1].passed
    BY <2>1 DEF PaneTypeOK
  <2> QED BY <2>2 DEF PassedFirst
<1>2. CASE ~asks
  BY <1>2 DEF ReadIf, PassedFirst
<1> QED BY <1>1, <1>2

\* So does every step.
LEMMA PassedStep == PaneTypeOK /\ PassedFirst /\ [PaneNext]_paneVars => PassedFirst'
<1> SUFFICES ASSUME PaneTypeOK, PassedFirst, [PaneNext]_paneVars PROVE PassedFirst'
  OBVIOUS
<1>1. ASSUME NEW a \in Pieces, Select(a) PROVE PassedFirst'
  BY <1>1, PassedReadIf DEF Select
<1>2. CASE Restore
  BY <1>2, PassedReadIf DEF Restore
<1>3. CASE ToggleVisibility
  BY <1>3, PassedReadIf DEF ToggleVisibility
<1>4. ASSUME NEW o \in ops, Recounted(o) PROVE PassedFirst'
  BY <1>4, PassedReadIf DEF Recounted
<1>5. ASSUME NEW i \in DOMAIN reads, ReadEnds(i) PROVE PassedFirst'
  <2>1. /\ Len(reads) \in Nat \ {0} /\ DOMAIN reads = 1..Len(reads) /\ i \in 1..Len(reads)
        /\ DOMAIN reads' = 1..(Len(reads) - 1)
        /\ \A j \in 1..(Len(reads) - 1) :
             reads'[j] = IF j < i THEN [reads[j] EXCEPT !.passed = TRUE] ELSE reads[j + 1]
    BY <1>5 DEF ReadEnds, PaneTypeOK
  <2>2. \A j \in 1..Len(reads) : [reads[j] EXCEPT !.passed = TRUE].passed
    BY DEF PaneTypeOK, Reads
  <2> SUFFICES ASSUME NEW j \in 1..(Len(reads) - 1), NEW k \in 1..(Len(reads) - 1),
                      j < k, reads'[k].passed
               PROVE  reads'[j].passed
    BY <2>1 DEF PassedFirst
  <2>3. CASE j < i
    <3>1. reads'[j] = [reads[j] EXCEPT !.passed = TRUE]
      BY <2>1, <2>3
    <3>2. j \in 1..Len(reads)
      BY <2>1
    <3>3. [reads[j] EXCEPT !.passed = TRUE].passed
      BY <3>2, <2>2
    <3> QED BY <3>1, <3>3
  <2>4. CASE ~(j < i)
    <3>1. reads'[j] = reads[j + 1] /\ reads'[k] = reads[k + 1]
      BY <2>1, <2>4
    <3>2. j + 1 \in DOMAIN reads /\ k + 1 \in DOMAIN reads /\ j + 1 < k + 1
      BY <2>1
    <3> QED BY <3>1, <3>2 DEF PassedFirst
  <2> QED BY <2>3, <2>4
<1>6. CASE UNCHANGED reads
  BY <1>6 DEF PassedFirst
<1>7. CASE ToggleMode \/ Pick \/ Dismiss \/ Save \/ Alter("edit") \/ Alter("delete")
  BY <1>6, <1>7 DEF ToggleMode, Pick, Dismiss, Save, Alter, Send
<1>8. ASSUME NEW o \in ops, Saved(o) \/ Deleted(o) \/ Edited(o) \/ Failed(o) PROVE PassedFirst'
  BY <1>6, <1>8 DEF Saved, Deleted, Edited, Failed
<1>9. ASSUME NEW x \in Notes, OpenDetail(x) PROVE PassedFirst'
  BY <1>6, <1>9 DEF OpenDetail
<1>10. CASE UNCHANGED paneVars
  BY <1>6, <1>10 DEF paneVars
<1> QED BY <1>1, <1>2, <1>3, <1>4, <1>5, <1>7, <1>8, <1>9, <1>10 DEF PaneNext, PaneStep

\* Asking for a list of the article makes it the last one.
LEMMA AskedLast ==
  ASSUME PaneTypeOK, NEW closes, ReadIf(TRUE, chosen, closes), chosen' = chosen
  PROVE  /\ reads' # << >> /\ ~reads'[Len(reads')].passed
         /\ reads'[Len(reads')].of = chosen'
<1>1. /\ Len(reads') = Len(reads) + 1
      /\ reads'[Len(reads) + 1] = [of |-> chosen, closes |-> closes, passed |-> FALSE]
  BY DEF ReadIf, PaneTypeOK
<1> QED BY <1>1 DEF PaneTypeOK

\* Each answer keeps the last list that was asked for in its place, or ends it.
LEMMA LastStep == PaneTypeOK /\ PassedFirst /\ LastIsOwn /\ [PaneNext]_paneVars => LastIsOwn'
<1> SUFFICES ASSUME PaneTypeOK, PassedFirst, LastIsOwn, [PaneNext]_paneVars PROVE LastIsOwn'
  OBVIOUS
<1>1. ASSUME NEW a \in Pieces, Select(a) PROVE LastIsOwn'
  <2>1. CASE visible
    <3>1. Len(reads') = Len(reads) + 1 /\ reads' # << >>
          /\ reads'[Len(reads) + 1] = [of |-> a, closes |-> FALSE, passed |-> FALSE]
      BY <1>1, <2>1 DEF Select, ReadIf, PaneTypeOK
    <3> QED BY <3>1, <1>1 DEF Select, LastIsOwn
  <2>2. CASE ~visible
    BY <1>1, <2>2 DEF Select, LastIsOwn
  <2> QED BY <2>1, <2>2 DEF PaneTypeOK
<1>2. CASE Restore
  <2>1. CASE visible
    <3>1. ReadIf(TRUE, chosen, FALSE) /\ chosen' = chosen
      BY <1>2, <2>1 DEF Restore, ReadIf
    <3> QED BY <3>1, AskedLast DEF LastIsOwn
  <2>2. CASE ~visible
    BY <1>2, <2>2 DEF Restore, LastIsOwn
  <2> QED BY <2>1, <2>2 DEF PaneTypeOK
<1>3. CASE ToggleVisibility
  <2>1. CASE visible'
    <3>1. ReadIf(TRUE, chosen, TRUE) /\ chosen' = chosen
      BY <1>3, <2>1 DEF ToggleVisibility, ReadIf
    <3> QED BY <3>1, AskedLast DEF LastIsOwn
  <2>2. CASE ~visible'
    BY <2>2 DEF LastIsOwn
  <2> QED BY <2>1, <2>2
<1>4. CASE ToggleMode
  BY <1>4 DEF ToggleMode, LastIsOwn
<1>5. CASE Pick
  BY <1>5 DEF Pick, LastIsOwn
<1>6. CASE Dismiss
  BY <1>6 DEF Dismiss, LastIsOwn
<1>7. ASSUME NEW x \in Notes, OpenDetail(x) PROVE LastIsOwn'
  BY <1>7 DEF OpenDetail, LastIsOwn
<1>8. CASE Save
  BY <1>8 DEF Save, Send, LastIsOwn
<1>9. ASSUME NEW kind \in {"edit", "delete"}, Alter(kind) PROVE LastIsOwn'
  BY <1>9 DEF Alter, Send, LastIsOwn
<1>10. ASSUME NEW o \in ops, Saved(o) \/ Deleted(o) \/ Edited(o) \/ Failed(o) \/ Recounted(o)
       PROVE  LastIsOwn'
  <2>0. o \in Ops
    BY DEF PaneTypeOK
  <2>1. CASE Saved(o) \/ Deleted(o)
    <3>1. [o EXCEPT !.sent = FALSE] \in ops'
      BY <2>1 DEF Saved, Deleted, Counting
    <3>2. ~[o EXCEPT !.sent = FALSE].sent
      BY <2>0 DEF Ops
    <3> QED BY <3>1, <3>2 DEF LastIsOwn
  <2>2. CASE Edited(o)
    BY <2>2 DEF Edited, Came, Ended, LastIsOwn
  <2>3. CASE Failed(o)
    BY <2>3 DEF Failed, Ended, LastIsOwn
  <2>4. CASE Recounted(o)
    <3>1. CASE visible
      <4>1. ReadIf(TRUE, chosen, o.kind = "delete") /\ chosen' = chosen
        BY <2>4, <3>1 DEF Recounted, ReadIf
      <4> QED BY <4>1, AskedLast DEF LastIsOwn
    <3>2. CASE ~visible
      BY <2>4, <3>2 DEF Recounted, LastIsOwn
    <3> QED BY <3>1, <3>2 DEF PaneTypeOK
  <2> QED BY <1>10, <2>1, <2>2, <2>3, <2>4
<1>11. ASSUME NEW i \in DOMAIN reads, ReadEnds(i) PROVE LastIsOwn'
  <2> DEFINE n == Len(reads)
  <2> SUFFICES ASSUME visible', \A o \in ops' : o.sent
               PROVE  IF reads' # << >> /\ ~reads'[Len(reads')].passed
                      THEN reads'[Len(reads')].of = chosen'
                      ELSE overtaken' \/ \A x \in notes' : x.of = chosen'
    BY DEF LastIsOwn
  <2>1. /\ n \in Nat \ {0} /\ i \in 1..n /\ reads # << >>
        /\ reads' = [j \in 1..(n - 1) |->
                      IF j < i THEN [reads[j] EXCEPT !.passed = TRUE] ELSE reads[j + 1]]
        /\ notes' \subseteq {x \in stored : x.of = reads[i].of}
        /\ overtaken' = reads[i].passed
        /\ chosen' = chosen
    BY <1>11 DEF ReadEnds, PaneTypeOK
  <2>2. IF ~reads[n].passed THEN reads[n].of = chosen
        ELSE overtaken \/ \A x \in notes : x.of = chosen
    BY <1>11, <2>1 DEF ReadEnds, LastIsOwn
  <2>3. Len(reads') = n - 1
    BY <2>1
  <2>4. CASE i = n
    \* Whatever is left was asked for earlier.
    <3>1. reads' # << >> => reads'[n - 1].passed
      <4> SUFFICES ASSUME reads' # << >> PROVE reads'[n - 1].passed
        OBVIOUS
      <4>1. n - 1 \in 1..(n - 1) /\ n - 1 < i
        BY <2>1, <2>3, <2>4
      <4>2. reads[n - 1] \in Reads
        BY <4>1, <2>1 DEF PaneTypeOK
      <4>3. reads'[n - 1] = [reads[n - 1] EXCEPT !.passed = TRUE]
        BY <4>1, <2>1
      <4> QED BY <4>2, <4>3 DEF Reads
    <3> QED BY <3>1, <2>1, <2>2, <2>3, <2>4
  <2>5. CASE i # n
    \* The last one stays the last.
    <3>1. n - 1 \in 1..(n - 1) /\ ~(n - 1 < i) /\ (n - 1) + 1 = n
      BY <2>1, <2>5
    <3>2. reads'[n - 1] = reads[n] /\ reads' # << >>
      BY <3>1, <2>1, <2>3
    <3>3. reads[n].passed => reads[i].passed
      BY <2>1, <2>5 DEF PassedFirst
    <3> QED BY <3>2, <3>3, <2>1, <2>2, <2>3, <2>5
  <2> QED BY <2>4, <2>5
<1>12. CASE UNCHANGED paneVars
  BY <1>12 DEF paneVars, LastIsOwn
<1> QED BY <1>1, <1>2, <1>3, <1>4, <1>5, <1>6, <1>7, <1>8, <1>9, <1>10, <1>11, <1>12
        DEF PaneNext, PaneStep

\* A quiet pane shows the annotations of its article, for any articles and however
\* many answers come in whatever order, unless a list overtook a later one.
THEOREM QuietPaneIsOwnHolds == PaneSpec => []QuietPaneIsOwn
<1>1. PaneInit => LastIsOwn /\ PassedFirst
  BY DEF PaneInit, LastIsOwn, PassedFirst
<1>2. LastIsOwn => QuietPaneIsOwn
  BY DEF LastIsOwn, QuietPaneIsOwn
<1> QED BY <1>1, <1>2, LastStep, PassedStep, PaneTypeCorrect, PTL DEF PaneSpec
=============================================================================
