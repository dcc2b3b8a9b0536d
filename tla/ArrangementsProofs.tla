------------------------- MODULE ArrangementsProofs -------------------------
(***************************************************************************)
(* What Arrangements makes of a set and of a list.                         *)
(***************************************************************************)
EXTENDS Arrangements, SequencesExt, FiniteSetTheorems, TLAPS

\* R orders the elements of I strictly and totally.
Orders(R, I) ==
  /\ \A x, y, z \in I : <<x, y>> \in R /\ <<y, z>> \in R => <<x, z>> \in R
  /\ \A x \in I : <<x, x>> \notin R
  /\ \A x, y \in I : x = y \/ <<x, y>> \in R \/ <<y, x>> \in R

LEMMA PlaceFacts ==
  ASSUME NEW I, IsFiniteSet(I), NEW R, Orders(R, I)
  PROVE  /\ Cardinality(I) \in Nat
         /\ \A x \in I : Place(I, R, x) \in 1..Cardinality(I)
         /\ \A x, y \in I : <<x, y>> \in R => Place(I, R, x) < Place(I, R, y)
<1>1. Cardinality(I) \in Nat
  BY FS_CardinalityType
<1>2. ASSUME NEW x \in I
      PROVE  /\ IsFiniteSet(Before(I, R, x)) /\ Cardinality(Before(I, R, x)) \in Nat
             /\ Cardinality(Before(I, R, x)) <= Cardinality(I) - 1
  <2>1. Before(I, R, x) \in SUBSET (I \ {x})
    BY DEF Before, Orders
  <2>2. IsFiniteSet(I \ {x}) /\ Cardinality(I \ {x}) = Cardinality(I) - 1
    BY FS_RemoveElement
  <2>3. QED
    BY <2>1, <2>2, FS_Subset, FS_CardinalityType
<1>3. ASSUME NEW x \in I, NEW y \in I, <<x, y>> \in R
      PROVE  Cardinality(Before(I, R, x)) < Cardinality(Before(I, R, y))
  <2>1. Before(I, R, x) \in SUBSET (Before(I, R, y) \ {x}) /\ x \in Before(I, R, y)
    BY <1>3 DEF Before, Orders
  <2>2. /\ IsFiniteSet(Before(I, R, y) \ {x})
        /\ Cardinality(Before(I, R, y) \ {x}) = Cardinality(Before(I, R, y)) - 1
    BY <1>2, <2>1, FS_RemoveElement
  <2>3. Cardinality(Before(I, R, x)) <= Cardinality(Before(I, R, y) \ {x})
    BY <2>1, <2>2, FS_Subset
  <2>4. QED
    BY <1>2, <2>2, <2>3
<1>4. QED
  BY <1>1, <1>2, <1>3 DEF Place

\* Every element stands at its place.
LEMMA ArrangedFacts ==
  ASSUME NEW I, IsFiniteSet(I), NEW R, Orders(R, I)
  PROVE  /\ Cardinality(I) \in Nat
         /\ Arranged(I, R) \in [1..Cardinality(I) -> I]
         /\ \A x \in I : /\ Place(I, R, x) \in 1..Cardinality(I)
                         /\ Arranged(I, R)[Place(I, R, x)] = x
         /\ \A n \in 1..Cardinality(I) : Place(I, R, Arranged(I, R)[n]) = n
<1> DEFINE N == Cardinality(I)
           f == [x \in I |-> Place(I, R, x)]
<1>1. N \in Nat /\ IsFiniteSet(1..N) /\ Cardinality(1..N) = N
  BY PlaceFacts, FS_Interval
<1>2. \A x, y \in I : Place(I, R, x) = Place(I, R, y) => x = y
  <2>1. \A x \in I : Place(I, R, x) \in Nat
    BY <1>1, PlaceFacts
  <2>2. \A x, y \in I : <<x, y>> \in R => Place(I, R, x) < Place(I, R, y)
    BY PlaceFacts
  <2>3. \A x, y \in I : x = y \/ <<x, y>> \in R \/ <<y, x>> \in R
    BY DEF Orders
  <2>4. ASSUME NEW x \in I, NEW y \in I, Place(I, R, x) = Place(I, R, y)
        PROVE  <<x, y>> \notin R /\ <<y, x>> \notin R
    <3>1. Place(I, R, x) \in Nat /\ ~(Place(I, R, x) < Place(I, R, y))
                                  /\ ~(Place(I, R, y) < Place(I, R, x))
      BY <2>1, <2>4
    <3>2. QED
      BY <2>2, <3>1
  <2>5. QED
    BY <2>3, <2>4
<1>3. f \in Injection(I, 1..N)
  BY <1>2, PlaceFacts DEF Injection, IsInjective
<1>4. f \in Surjection(I, 1..N)
  BY <1>1, <1>3, FS_Injection
<1>5. \A n \in 1..N : \E x \in I : Place(I, R, x) = n
  BY <1>4 DEF Surjection
<1>6. \A n \in 1..N : Arranged(I, R)[n] \in I /\ Place(I, R, Arranged(I, R)[n]) = n
  BY <1>5 DEF Arranged
<1>7. QED
  BY <1>1, <1>2, <1>6, PlaceFacts DEF Arranged

\* A set of positions in increasing order.
LEMMA AscendingFacts ==
  ASSUME NEW n \in Nat, NEW I \in SUBSET (1..n)
  PROVE  /\ IsFiniteSet(I) /\ Cardinality(I) \in Nat
         /\ Ascending(I) \in [1..Cardinality(I) -> I]
         /\ \A x \in I : \E m \in 1..Cardinality(I) : Ascending(I)[m] = x
         /\ \A m, k \in 1..Cardinality(I) : m < k => Ascending(I)[m] < Ascending(I)[k]
<1> DEFINE R == {p \in I \X I : p[1] < p[2]}
<1>1. IsFiniteSet(1..n)
  BY FS_Interval
<1>2. IsFiniteSet(I)
  BY <1>1, FS_Subset
<1>3. \A x, y \in I : <<x, y>> \in R <=> x < y
  OBVIOUS
<1>4. \A x \in I : x \in Nat
  OBVIOUS
<1> HIDE DEF R
<1>5. Orders(R, I)
  BY <1>3, <1>4 DEF Orders
<1>6. /\ Cardinality(I) \in Nat
      /\ Ascending(I) \in [1..Cardinality(I) -> I]
      /\ \A x \in I : /\ Place(I, R, x) \in 1..Cardinality(I)
                      /\ Ascending(I)[Place(I, R, x)] = x
      /\ \A m \in 1..Cardinality(I) : Place(I, R, Ascending(I)[m]) = m
  BY <1>2, <1>5, ArrangedFacts DEF Ascending, R
<1>7. \A i, j \in I : i < j => Place(I, R, i) < Place(I, R, j)
  BY <1>2, <1>3, <1>5, PlaceFacts
<1>8. \A x \in I : \E m \in 1..Cardinality(I) : Ascending(I)[m] = x
  BY <1>6
<1>9. ASSUME NEW m \in 1..Cardinality(I), NEW k \in 1..Cardinality(I), m < k
      PROVE  Ascending(I)[m] < Ascending(I)[k]
  <2> DEFINE i == Ascending(I)[m]
             j == Ascending(I)[k]
  <2>1. i \in I /\ j \in I /\ Place(I, R, i) = m /\ Place(I, R, j) = k
    BY <1>6
  <2>2. m \in Nat /\ k \in Nat /\ i \in Nat /\ j \in Nat
    <3>1. i \in Nat /\ j \in Nat
      BY <1>4, <2>1
    <3>2. m \in Nat /\ k \in Nat
      OBVIOUS
    <3>3. QED
      BY <3>1, <3>2
  <2> HIDE DEF i, j
  <2>3. j < i => k < m
    BY <1>7, <2>1
  <2>4. i = j => m = k
    BY <2>1
  <2>5. i < j
    BY <1>9, <2>2, <2>3, <2>4
  <2>6. QED
    BY <2>5 DEF i, j
<1>10. QED
  BY <1>2, <1>6, <1>8, <1>9

\* The elements of s at the positions I, each there once more, in the order of s.
LEMMA PickedFacts ==
  ASSUME NEW S, NEW s \in Seq(S), NEW I \in SUBSET (1..Len(s))
  PROVE  /\ IsFiniteSet(I) /\ Cardinality(I) \in Nat
         /\ Picked(s, I) \in Seq(S) /\ Len(Picked(s, I)) = Cardinality(I)
         /\ \A n \in 1..Len(Picked(s, I)) : \E i \in I : Picked(s, I)[n] = s[i]
         /\ \A i \in I : \E n \in 1..Len(Picked(s, I)) : Picked(s, I)[n] = s[i]
         /\ \A n, m \in 1..Len(Picked(s, I)) :
              n < m => \E i, j \in I : i < j /\ Picked(s, I)[n] = s[i] /\ Picked(s, I)[m] = s[j]
<1>1. Len(s) \in Nat
  OBVIOUS
<1>2. /\ IsFiniteSet(I) /\ Cardinality(I) \in Nat
      /\ Ascending(I) \in [1..Cardinality(I) -> I]
      /\ \A x \in I : \E m \in 1..Cardinality(I) : Ascending(I)[m] = x
      /\ \A n, m \in 1..Cardinality(I) : n < m => Ascending(I)[n] < Ascending(I)[m]
  BY <1>1, AscendingFacts
<1>3. Picked(s, I) \in [1..Cardinality(I) -> S]
  <2>1. \A i \in I : s[i] \in S
    OBVIOUS
  <2>2. \A n \in 1..Cardinality(I) : Ascending(I)[n] \in I
    BY <1>2
  <2>3. QED
    BY <2>1, <2>2 DEF Picked
<1>4. Picked(s, I) \in Seq(S) /\ Len(Picked(s, I)) = Cardinality(I)
  BY <1>2, <1>3
<1>5. \A n \in 1..Cardinality(I) : Ascending(I)[n] \in I /\ Picked(s, I)[n] = s[Ascending(I)[n]]
  BY <1>2 DEF Picked
<1>6. \A i \in I : \E n \in 1..Cardinality(I) : Picked(s, I)[n] = s[i]
  BY <1>2, <1>5
<1>7. \A n, m \in 1..Cardinality(I) :
        n < m => \E i, j \in I : i < j /\ Picked(s, I)[n] = s[i] /\ Picked(s, I)[m] = s[j]
  BY <1>2, <1>5
<1>8. \A n \in 1..Cardinality(I) : \E i \in I : Picked(s, I)[n] = s[i]
  BY <1>5
<1>9. QED
  BY <1>2, <1>4, <1>6, <1>7, <1>8

\* Where the elements of Picked(s, I) are in s.
LEMMA PickedPlaces ==
  ASSUME NEW S, NEW s \in Seq(S), NEW I \in SUBSET (1..Len(s)), NEW t, t = Picked(s, I)
  PROVE  /\ t \in Seq(S)
         /\ \E f \in [1..Len(t) -> I] :
              /\ \A n \in 1..Len(t) : t[n] = s[f[n]]
              /\ \A i \in I : \E n \in 1..Len(t) : f[n] = i
              /\ \A n, m \in 1..Len(t) : n < m => f[n] < f[m]
<1>1. Len(s) \in Nat
  OBVIOUS
<1>2. t \in Seq(S) /\ Len(t) = Cardinality(I) /\ Cardinality(I) \in Nat
  BY PickedFacts
<1>3. PICK f : f = Ascending(I)
  OBVIOUS
<1>4. /\ f \in [1..Len(t) -> I]
      /\ \A x \in I : \E m \in 1..Len(t) : f[m] = x
      /\ \A n, m \in 1..Len(t) : n < m => f[n] < f[m]
  BY <1>1, <1>2, <1>3, AscendingFacts
<1>5. \A n \in 1..Len(t) : t[n] = s[f[n]]
  BY <1>2, <1>3 DEF Picked
<1>6. QED
  BY <1>2, <1>4, <1>5

LEMMA IntervalSize ==
  \A n \in Nat : Cardinality(1..n) = n
  BY FS_Interval

-----------------------------------------------------------------------------
(* Removal from a list.                                                    *)

\* A set of positions has a first and a last one.
LEMMA Extremes ==
  ASSUME NEW n \in Nat, NEW I \in SUBSET (0..n), I # {}
  PROVE  /\ \E x \in I : \A y \in I : x <= y
         /\ \E x \in I : \A y \in I : x >= y
<1> DEFINE R == {p \in I \X I : p[1] < p[2]}
           N == Cardinality(I)
<1>1. IsFiniteSet(I)
  <2>1. IsFiniteSet(0..n)
    BY FS_Interval
  <2>2. QED
    BY <2>1, FS_Subset
<1>2. \A x, y \in I : <<x, y>> \in R <=> x < y
  OBVIOUS
<1>3. \A x \in I : x \in Nat
  OBVIOUS
<1> HIDE DEF R
<1>4. Orders(R, I)
  BY <1>2, <1>3 DEF Orders
<1>5. /\ N \in Nat
      /\ \A x \in I : Place(I, R, x) \in 1..N
      /\ \A x, y \in I : x < y => Place(I, R, x) < Place(I, R, y)
      /\ \A m \in 1..N : \E x \in I : Place(I, R, x) = m
  <2>1. N \in Nat /\ \A x \in I : Place(I, R, x) \in 1..N
    BY <1>1, <1>4, PlaceFacts
  <2>2. \A x, y \in I : <<x, y>> \in R => Place(I, R, x) < Place(I, R, y)
    BY <1>1, <1>4, PlaceFacts
  <2>3. \A m \in 1..N : Arranged(I, R)[m] \in I /\ Place(I, R, Arranged(I, R)[m]) = m
    BY <1>1, <1>4, ArrangedFacts
  <2>4. QED
    BY <1>2, <2>1, <2>2, <2>3
<1> HIDE DEF N
<1>6. 1 \in 1..N /\ N \in 1..N
  <2>1. PICK x \in I : Place(I, R, x) \in 1..N
    BY <1>5
  <2>2. QED
    BY <1>5, <2>1
<1>7. PICK x \in I : Place(I, R, x) = 1
  BY <1>5, <1>6
<1>8. PICK y \in I : Place(I, R, y) = N
  BY <1>5, <1>6
<1>9. \A z \in I : ~(z < x) /\ ~(y < z)
  <2>1. \A z \in I : Place(I, R, z) \in Nat /\ 1 <= Place(I, R, z) /\ Place(I, R, z) <= N
    BY <1>5
  <2>2. \A z \in I : (z < x => Place(I, R, z) < 1) /\ (y < z => N < Place(I, R, z))
    BY <1>5, <1>7, <1>8
  <2>3. QED
    BY <1>5, <2>1, <2>2
<1>10. QED
  BY <1>3, <1>9

LEMMA MinMax ==
  ASSUME NEW n \in Nat, NEW I \in SUBSET (0..n), I # {}
  PROVE  /\ Min(I) \in I /\ \A y \in I : Min(I) <= y
         /\ Max(I) \in I /\ \A y \in I : Max(I) >= y
<1>1. \A y \in I : y \in Nat
  OBVIOUS
<1>2. QED
  BY <1>1, Extremes DEF Min, Max

LEMMA RemoveAtFacts ==
  ASSUME NEW S, NEW s \in Seq(S), NEW i \in 1..Len(s)
  PROVE  /\ RemoveAt(s, i) \in Seq(S) /\ Len(RemoveAt(s, i)) = Len(s) - 1
         /\ \A n \in 1..Len(s) - 1 : RemoveAt(s, i)[n] = IF n < i THEN s[n] ELSE s[n + 1]
<1> DEFINE a == SubSeq(s, 1, i - 1)
           b == SubSeq(s, i + 1, Len(s))
<1>1. Len(s) \in Nat /\ i \in Nat /\ 1 <= i /\ i <= Len(s)
  OBVIOUS
<1>2. a \in Seq(S) /\ Len(a) = i - 1 /\ \A n \in 1..i - 1 : a[n] = s[n]
  BY <1>1
<1>3. b \in Seq(S) /\ Len(b) = Len(s) - i /\ \A n \in 1..Len(s) - i : b[n] = s[n + i]
  BY <1>1
<1>4. RemoveAt(s, i) = a \o b
  BY DEF RemoveAt
<1> HIDE DEF a, b
<1>5. /\ a \o b \in Seq(S) /\ Len(a \o b) = Len(s) - 1
      /\ \A n \in 1..Len(s) - 1 : (a \o b)[n] = IF n <= i - 1 THEN a[n] ELSE b[n - (i - 1)]
  <2>1. Len(a) + Len(b) = Len(s) - 1
    BY <1>1, <1>2, <1>3
  <2>2. /\ a \o b \in Seq(S) /\ Len(a \o b) = Len(a) + Len(b)
        /\ \A n \in 1..Len(a) + Len(b) : (a \o b)[n] = IF n <= Len(a) THEN a[n] ELSE b[n - Len(a)]
    <3>1. a \in Seq(S) /\ b \in Seq(S)
      BY <1>2, <1>3
    <3>2. QED
      BY <3>1
  <2>3. QED
    BY <1>2, <2>1, <2>2
<1>6. ASSUME NEW n \in 1..Len(s) - 1
      PROVE  (a \o b)[n] = IF n < i THEN s[n] ELSE s[n + 1]
  <2>1. CASE n < i
    BY <1>1, <1>2, <1>5, <2>1
  <2>2. CASE ~(n < i)
    <3>1. n - (i - 1) \in 1..Len(s) - i /\ n - (i - 1) + i = n + 1 /\ ~(n <= i - 1)
      BY <1>1, <2>2
    <3>2. QED
      BY <1>3, <1>5, <2>2, <3>1
  <2>3. QED
    BY <2>1, <2>2
<1>7. QED
  BY <1>4, <1>5, <1>6

\* Where an element of the list without position k was, and where it goes.
Old(k, n) == IF n < k THEN n ELSE n + 1
New(k, m) == IF m < k THEN m ELSE m - 1

\* What is left stays in its order, and moves up at most.
LEMMA RemoveAtKeeps ==
  ASSUME NEW S, NEW s \in Seq(S), NEW k \in 1..Len(s), NEW t, t = RemoveAt(s, k)
  PROVE  /\ t \in Seq(S) /\ Len(t) = Len(s) - 1 /\ DOMAIN t = 1..Len(s) - 1
         /\ \A n \in 1..Len(s) - 1 : Old(k, n) \in 1..Len(s) /\ Old(k, n) # k /\ t[n] = s[Old(k, n)]
         /\ \A n, m \in 1..Len(s) - 1 : n < m => Old(k, n) < Old(k, m)
         /\ \A m \in 1..Len(s) : m # k =>
              New(k, m) \in 1..Len(s) - 1 /\ New(k, m) <= m /\ t[New(k, m)] = s[m]
<1>1. /\ t \in Seq(S) /\ Len(t) = Len(s) - 1
      /\ \A n \in 1..Len(s) - 1 : t[n] = IF n < k THEN s[n] ELSE s[n + 1]
  BY RemoveAtFacts
<1>2. Len(s) \in Nat /\ k \in Nat /\ 1 <= k /\ k <= Len(s)
  OBVIOUS
<1>3. \A n \in 1..Len(s) - 1 : Old(k, n) \in 1..Len(s) /\ Old(k, n) # k /\ t[n] = s[Old(k, n)]
  BY <1>1, <1>2 DEF Old
<1>4. \A n, m \in 1..Len(s) - 1 : n < m => Old(k, n) < Old(k, m)
  BY <1>1, <1>2 DEF Old
<1>5. \A m \in 1..Len(s) : m # k =>
        New(k, m) \in 1..Len(s) - 1 /\ New(k, m) <= m /\ Old(k, New(k, m)) = m
  BY <1>1, <1>2 DEF Old, New
<1>6. DOMAIN t = 1..Len(s) - 1
  BY <1>1
<1>7. QED
  BY <1>1, <1>3, <1>4, <1>5, <1>6

LEMMA RemoveFirstFacts ==
  ASSUME NEW S, NEW s \in Seq(S), IsInjective(s), NEW e, NEW t, t = RemoveFirst(s, e)
  PROVE  /\ t \in Seq(S) /\ IsInjective(t) /\ ToSet(t) = ToSet(s) \ {e}
         /\ \A i \in DOMAIN s : s[i] # e => \E n \in DOMAIN t : n <= i /\ t[n] = s[i]
<1> DEFINE I == {i \in 1..Len(s) : s[i] = e}
<1>1. CASE ~\E i \in 1..Len(s) : s[i] = e
  <2>1. t = s
    BY <1>1 DEF RemoveFirst
  <2>2. ToSet(s) = ToSet(s) \ {e}
    BY <1>1 DEF ToSet
  <2>3. \A i \in DOMAIN s : i <= i
    OBVIOUS
  <2>4. QED
    BY <2>1, <2>2, <2>3
<1>2. CASE \E i \in 1..Len(s) : s[i] = e
  <2>1. PICK k : k = Min(I)
    OBVIOUS
  <2>2. k \in I
    <3>1. I \in SUBSET (0..Len(s)) /\ I # {} /\ Len(s) \in Nat
      BY <1>2
    <3>2. QED
      BY <2>1, <3>1, MinMax
  <2>3. t = RemoveAt(s, k)
    BY <1>2, <2>1 DEF RemoveFirst, SelectInSeq
  <2>4. k \in 1..Len(s) /\ s[k] = e /\ DOMAIN s = 1..Len(s)
    BY <2>2
  <2> HIDE DEF I
  <2>5. \A m \in 1..Len(s) : m # k <=> s[m] # e
    BY <2>4 DEF IsInjective
  <2>6. /\ t \in Seq(S) /\ Len(t) = Len(s) - 1 /\ DOMAIN t = 1..Len(s) - 1
        /\ \A n \in 1..Len(s) - 1 : Old(k, n) \in 1..Len(s) /\ Old(k, n) # k /\ t[n] = s[Old(k, n)]
        /\ \A n, m \in 1..Len(s) - 1 : n < m => Old(k, n) < Old(k, m)
        /\ \A m \in 1..Len(s) : m # k =>
             New(k, m) \in 1..Len(s) - 1 /\ New(k, m) <= m /\ t[New(k, m)] = s[m]
    <3>1. t \in Seq(S)
      BY <2>3, <2>4, RemoveAtKeeps
    <3>2. Len(t) = Len(s) - 1 /\ DOMAIN t = 1..Len(s) - 1
      BY <2>3, <2>4, RemoveAtKeeps
    <3>3. \A n \in 1..Len(s) - 1 : Old(k, n) \in 1..Len(s) /\ Old(k, n) # k /\ t[n] = s[Old(k, n)]
      BY <2>3, <2>4, RemoveAtKeeps, SMTT(30)
    <3>4. \A n, m \in 1..Len(s) - 1 : n < m => Old(k, n) < Old(k, m)
      BY <2>3, <2>4, RemoveAtKeeps
    <3>5. \A m \in 1..Len(s) : m # k =>
             New(k, m) \in 1..Len(s) - 1 /\ New(k, m) <= m /\ t[New(k, m)] = s[m]
      BY <2>3, <2>4, RemoveAtKeeps
    <3>6. QED
      BY <3>1, <3>2, <3>3, <3>4, <3>5
  <2>7. IsInjective(t)
    <3> SUFFICES ASSUME NEW n \in DOMAIN t, NEW m \in DOMAIN t, t[n] = t[m]
                 PROVE  n = m
      BY DEF IsInjective
    <3>1. n \in 1..Len(s) - 1 /\ m \in 1..Len(s) - 1
      BY <2>6
    <3>2. s[Old(k, n)] = s[Old(k, m)] /\ Old(k, n) \in DOMAIN s /\ Old(k, m) \in DOMAIN s
      BY <2>4, <2>6, <3>1
    <3>3. Old(k, n) = Old(k, m)
      BY <3>2 DEF IsInjective
    <3>4. Old(k, n) \in Nat
      BY <2>4, <3>2
    <3>5. ~(n < m) /\ ~(m < n)
      <4>1. /\ n < m => Old(k, n) < Old(k, m)
            /\ m < n => Old(k, m) < Old(k, n)
        BY <2>6, <3>1
      <4>2. QED
        BY <3>3, <3>4, <4>1
    <3>6. QED
      BY <3>1, <3>5
  <2>8. ToSet(t) = ToSet(s) \ {e}
    <3>1. ASSUME NEW x \in ToSet(t)
          PROVE  x \in ToSet(s) /\ x # e
      <4>1. PICK n \in DOMAIN t : x = t[n]
        BY DEF ToSet
      <4>2. QED
        BY <2>4, <2>5, <2>6, <4>1 DEF ToSet
    <3>2. ASSUME NEW x \in ToSet(s), x # e
          PROVE  x \in ToSet(t)
      <4>1. PICK m \in DOMAIN s : x = s[m]
        BY DEF ToSet
      <4>2. QED
        BY <2>4, <2>5, <2>6, <3>2, <4>1 DEF ToSet
    <3>3. QED
      BY <3>1, <3>2
  <2>9. \A i \in DOMAIN s : s[i] # e => \E n \in DOMAIN t : n <= i /\ t[n] = s[i]
    BY <2>4, <2>5, <2>6
  <2>10. QED
    BY <2>6, <2>7, <2>8, <2>9
<1>3. QED
  BY <1>1, <1>2
=============================================================================
