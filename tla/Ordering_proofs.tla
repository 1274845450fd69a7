--------------------------- MODULE Ordering_proofs ---------------------------
(***************************************************************************)
(* What the other proofs need of numbers and of sorting: a set of numbers  *)
(* has a least one, which is how they do without induction, and InOrder    *)
(* has each element of a finite set once, at its place.                    *)
(***************************************************************************)
EXTENDS Ordering, Sequences, FiniteSetTheorems, TLAPS

LEMMA LeastNumber ==
    ASSUME NEW T \in SUBSET Nat, T # {}
    PROVE  \E x \in T : \A y \in T : x <= y
<1>1. PICK R : R = OpToRel(<, Nat)
  OBVIOUS
<1>2. IsWellFoundedOn(R, Nat)
  BY <1>1, NatLessThanWellFounded
<1>3. PICK x \in T : \A y \in T : ~ (<<y, x>> \in R)
  BY <1>2, WFMin
<1>4. \A y \in T : <<y, x>> \in R <=> y < x
  BY <1>1 DEF OpToRel
<1>5. \A y \in T : ~(y < x)
  BY <1>3, <1>4, Zenon
<1>6. T \subseteq Nat
  OBVIOUS
<1> QED
  BY <1>5, <1>6

-----------------------------------------------------------------------------
StrictOrder(S, R) ==
    /\ \A a \in S : <<a, a>> \notin R
    /\ \A a, b, c \in S : <<a, b>> \in R /\ <<b, c>> \in R => <<a, c>> \in R
    /\ \A a, b \in S : a # b => <<a, b>> \in R \/ <<b, a>> \in R

\* How many come before e.
Place(S, R, e) == Cardinality({d \in S : <<d, e>> \in R})

LEMMA PlaceIsBounded ==
    ASSUME NEW S, IsFiniteSet(S), NEW R, StrictOrder(S, R), NEW e \in S
    PROVE  Place(S, R, e) \in 0 .. Cardinality(S) - 1
<1>1. PICK D : D = {d \in S : <<d, e>> \in R}
  OBVIOUS
<1>2. D \in SUBSET S /\ e \notin D
  BY <1>1 DEF StrictOrder
<1>3. IsFiniteSet(D) /\ Cardinality(D) <= Cardinality(S) /\ (Cardinality(S) = Cardinality(D) => S = D)
  BY <1>2, FS_Subset
<1>4. Cardinality(D) \in Nat /\ Cardinality(S) \in Nat /\ Cardinality(D) # Cardinality(S)
  BY <1>2, <1>3, FS_CardinalityType
<1> QED
  BY <1>1, <1>3, <1>4 DEF Place

LEMMA PlaceGrows ==
    ASSUME NEW S, IsFiniteSet(S), NEW R, StrictOrder(S, R), NEW d \in S, NEW e \in S, <<d, e>> \in R
    PROVE  Place(S, R, d) < Place(S, R, e)
<1>1. PICK D, E : D = {x \in S : <<x, d>> \in R} /\ E = {x \in S : <<x, e>> \in R}
  OBVIOUS
<1>2. d \notin D /\ D \in SUBSET S /\ E \in SUBSET S
  BY <1>1 DEF StrictOrder
<1>3. D \union {d} \in SUBSET E
  BY <1>1 DEF StrictOrder
<1>4. IsFiniteSet(D) /\ IsFiniteSet(E)
  BY <1>2, FS_Subset
<1>5. Cardinality(D \union {d}) = Cardinality(D) + 1 /\ Cardinality(D \union {d}) <= Cardinality(E)
  BY <1>2, <1>3, <1>4, FS_AddElement, FS_Subset
<1>6. Cardinality(D) \in Nat /\ Cardinality(E) \in Nat
  BY <1>4, FS_CardinalityType
<1> QED
  BY <1>1, <1>5, <1>6 DEF Place

LEMMA PlaceTells ==
    ASSUME NEW S, IsFiniteSet(S), NEW R, StrictOrder(S, R), NEW d \in S, NEW e \in S
    PROVE  /\ Place(S, R, d) = Place(S, R, e) => d = e
           /\ Place(S, R, d) < Place(S, R, e) <=> <<d, e>> \in R
<1>1. Place(S, R, d) \in Int /\ Place(S, R, e) \in Int
  BY PlaceIsBounded
<1>2. <<d, e>> \in R => Place(S, R, d) < Place(S, R, e)
  BY PlaceGrows
<1>3. <<e, d>> \in R => Place(S, R, e) < Place(S, R, d)
  BY PlaceGrows
<1>4. d = e \/ <<d, e>> \in R \/ <<e, d>> \in R
  BY DEF StrictOrder
<1>5. d = e => Place(S, R, d) = Place(S, R, e)
  OBVIOUS
<1> QED
  BY <1>1, <1>2, <1>3, <1>4, <1>5

\* Every place is taken.
LEMMA PlaceIsTaken ==
    ASSUME NEW S, IsFiniteSet(S), NEW R, StrictOrder(S, R), NEW i \in 1 .. Cardinality(S)
    PROVE  \E e \in S : Place(S, R, e) = i - 1
<1>1. PICK n : n = Cardinality(S)
  OBVIOUS
<1>2. n \in Nat
  BY <1>1, FS_CardinalityType
<1>3. PICK f : f = [e \in S |-> Place(S, R, e) + 1]
  OBVIOUS
<1>4. \A e \in S : f[e] \in 1 .. n
  <2>1. \A e \in S : Place(S, R, e) \in 0 .. n - 1
    BY <1>1, PlaceIsBounded
  <2> QED
    BY <1>2, <1>3, <2>1
<1>5. f \in [S -> 1 .. n]
  BY <1>3, <1>4
<1>6. ASSUME NEW d \in S, NEW e \in S, f[d] = f[e]
      PROVE  d = e
  <2>1. Place(S, R, d) \in Int /\ Place(S, R, e) \in Int
    BY PlaceIsBounded
  <2>2. Place(S, R, d) = Place(S, R, e)
    BY <1>3, <1>6, <2>1
  <2> QED
    BY <2>2, PlaceTells
<1>7. f \in Injection(S, 1 .. n)
  BY <1>5, <1>6 DEF Injection, IsInjective
<1>8. IsFiniteSet(1 .. n) /\ Cardinality(1 .. n) = n
  BY <1>2, FS_Interval
<1>9. f \in Surjection(S, 1 .. n)
  BY <1>1, <1>7, <1>8, FS_Injection
<1>10. PICK e \in S : f[e] = i
  BY <1>1, <1>9 DEF Surjection
<1>11. Place(S, R, e) \in Int /\ f[e] = Place(S, R, e) + 1
  BY <1>3, PlaceIsBounded
<1> QED
  BY <1>10, <1>11

\* s holds each element of S once, at its place.
InPlaces(s, S, R) ==
    /\ Cardinality(S) \in Nat /\ s \in Seq(S) /\ Len(s) = Cardinality(S)
    /\ DOMAIN s = 1 .. Cardinality(S)
    /\ \A i \in 1 .. Cardinality(S) : s[i] \in S /\ Place(S, R, s[i]) = i - 1
    /\ \A e \in S : /\ Place(S, R, e) + 1 \in 1 .. Cardinality(S)
                    /\ s[Place(S, R, e) + 1] = e
    /\ \A i, j \in 1 .. Cardinality(S) : i < j <=> <<s[i], s[j]>> \in R

LEMMA OrderedSequence ==
    ASSUME NEW S, IsFiniteSet(S), NEW R, StrictOrder(S, R), NEW s, s = InOrder(S, R)
    PROVE  InPlaces(s, S, R)
<1>1. PICK n : n = Cardinality(S)
  OBVIOUS
<1>2. n \in Nat
  BY <1>1, FS_CardinalityType
<1>3. s = [i \in 1 .. n |-> CHOOSE e \in S : Place(S, R, e) = i - 1]
  BY <1>1, Zenon DEF InOrder, Place
<1>4. ASSUME NEW i \in 1 .. n
      PROVE  s[i] \in S /\ Place(S, R, s[i]) = i - 1
  <2>1. \E e \in S : Place(S, R, e) = i - 1
    BY <1>1, PlaceIsTaken
  <2>2. s[i] = CHOOSE e \in S : Place(S, R, e) = i - 1
    BY <1>3
  <2> QED
    BY <2>1, <2>2, Zenon
<1>5. s \in [1 .. n -> S]
  <2>1. s = [i \in 1 .. n |-> s[i]]
    BY <1>3
  <2> QED
    BY <1>4, <2>1
<1>6. s \in Seq(S) /\ Len(s) = n /\ DOMAIN s = 1 .. n
  BY <1>2, <1>5
<1>7. ASSUME NEW e \in S
      PROVE  Place(S, R, e) + 1 \in 1 .. n /\ s[Place(S, R, e) + 1] = e
  <2>1. PICK i : i = Place(S, R, e) + 1
    OBVIOUS
  <2>2. Place(S, R, e) \in 0 .. n - 1
    BY <1>1, PlaceIsBounded
  <2>3. i \in 1 .. n /\ i - 1 = Place(S, R, e)
    BY <1>2, <2>1, <2>2
  <2>4. s[i] \in S /\ Place(S, R, s[i]) = Place(S, R, e)
    BY <1>4, <2>3
  <2>5. s[i] = e
    BY <2>4, PlaceTells
  <2> QED
    BY <2>1, <2>3, <2>5
<1>8. ASSUME NEW i \in 1 .. n, NEW j \in 1 .. n
      PROVE  i < j <=> <<s[i], s[j]>> \in R
  <2>1. /\ s[i] \in S /\ Place(S, R, s[i]) = i - 1
        /\ s[j] \in S /\ Place(S, R, s[j]) = j - 1
    BY <1>4
  <2>2. i < j <=> Place(S, R, s[i]) < Place(S, R, s[j])
    BY <1>2, <2>1
  <2>3. Place(S, R, s[i]) < Place(S, R, s[j]) <=> <<s[i], s[j]>> \in R
    BY <2>1, PlaceTells
  <2> QED
    BY <2>2, <2>3
<1> QED
  BY <1>1, <1>2, <1>4, <1>6, <1>7, <1>8 DEF InPlaces

\* b is how the elements of S begin, in the order R: n of them, m if there are as many.
BeginsInOrder(b, n, S, R, m) ==
    /\ Cardinality(S) \in Nat
    /\ n = IF m < Cardinality(S) THEN m ELSE Cardinality(S)
    /\ n \in Nat /\ b \in Seq(S) /\ Len(b) = n /\ DOMAIN b = 1 .. n
    /\ \A i \in 1 .. n : b[i] = InOrder(S, R)[i] /\ b[i] \in S
    /\ \A i, j \in 1 .. n : i < j <=> <<b[i], b[j]>> \in R
    /\ \A e \in S : (\E i \in 1 .. n : b[i] = e) \/
                    (n = m /\ \A i \in 1 .. n : <<b[i], e>> \in R)

\* What is in the sequence, and in its beginning.
LEMMA OrderedBeginning ==
    ASSUME NEW S, IsFiniteSet(S), NEW R, StrictOrder(S, R), NEW s, s = InOrder(S, R), NEW m \in Nat,
           NEW n, n = IF m < Len(s) THEN m ELSE Len(s), NEW b, b = SubSeq(s, 1, n)
    PROVE  BeginsInOrder(b, n, S, R, m)
<1>1. PICK c : c = Cardinality(S)
  OBVIOUS
<1>6. InPlaces(s, S, R)
  BY OrderedSequence
<1>2. /\ c \in Nat /\ s \in Seq(S) /\ Len(s) = c /\ DOMAIN s = 1 .. c
      /\ \A i \in 1 .. c : s[i] \in S /\ Place(S, R, s[i]) = i - 1
      /\ \A e \in S : Place(S, R, e) + 1 \in 1 .. c /\ s[Place(S, R, e) + 1] = e
      /\ \A i, j \in 1 .. c : i < j <=> <<s[i], s[j]>> \in R
  BY <1>1, <1>6, Zenon DEF InPlaces
<1>3. n \in Nat /\ n <= c /\ n = (IF m < c THEN m ELSE c) /\ 1 .. n \subseteq 1 .. c
  BY <1>2
<1>4. b \in Seq(S) /\ Len(b) = n /\ DOMAIN b = 1 .. n /\ \A i \in 1 .. n : b[i] = s[i]
  BY <1>2, <1>3
<1>5. ASSUME NEW e \in S
      PROVE  (\E i \in 1 .. n : b[i] = e) \/ (n = m /\ \A i \in 1 .. n : <<b[i], e>> \in R)
  <2>1. PICK k \in 1 .. c : s[k] = e
    BY <1>2
  <2>2. CASE k <= n
    BY <1>2, <1>3, <1>4, <2>1, <2>2
  <2>3. CASE k > n
    <3>1. n = m
      BY <1>2, <1>3, <2>1, <2>3
    <3>2. \A i \in 1 .. n : <<s[i], s[k]>> \in R
      BY <1>2, <1>3, <2>1, <2>3
    <3> QED
      BY <1>4, <2>1, <3>1, <3>2
  <2> QED
    BY <1>2, <1>3, <2>1, <2>2, <2>3
<1> QED
  BY <1>1, <1>2, <1>3, <1>4, <1>5 DEF BeginsInOrder
=============================================================================
