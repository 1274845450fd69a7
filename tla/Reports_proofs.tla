--------------------------- MODULE Reports_proofs ---------------------------
(***************************************************************************)
(* Proofs about what the tools report of a graph: Dossier, Paging and      *)
(* Retrieval, each for any value of its constants.                         *)
(***************************************************************************)
EXTENDS Dossier, Paging, Retrieval, Ordering_proofs

(***************************************************************************)
(* 1 Dossier.                                                              *)
(*                                                                         *)
(* A report is told of the graph there is and is dropped by the next       *)
(* write, so that the strengthening is what is told of the graph there is  *)
(* now (ReportIsOfNow) and that an edge found confirmed was confirmed      *)
(* since it was added, or came without a row (ConfirmedIsVouched).  The    *)
(* work is in what the search for a subtree finds: the way up from a node  *)
(* is a sequence of parents (ClimbsUp), what is reached from the source in *)
(* k levels climbs to it in k steps and the other way round (ReachedHangs, *)
(* HangingIsReached), and a node climbs in one way.                        *)
(***************************************************************************)

\* A step that stays in a set can be repeated any number of times.
Repeats(f, S, a, step, N) ==
    f \in [0 .. N -> S] /\ f[0] = a /\ \A k \in 1 .. N : f[k] = step[f[k - 1]]

LEMMA Iteration ==
    ASSUME NEW S, NEW a \in S, NEW step \in [S -> S], NEW n \in Nat
    PROVE  \E f : Repeats(f, S, a, step, n)
<1> DEFINE Repeated(f, N) == f[0] = a /\ \A k \in 1 .. N : f[k] = step[f[k - 1]]
           T == {N \in Nat : ~\E f \in [0 .. N -> S] : Repeated(f, N)}
<1>1. ASSUME T # {}
      PROVE  FALSE
  <2>1. PICK N \in T : \A M \in T : N <= M
    BY <1>1, LeastNumber
  <2>2. CASE N = 0
    <3>1. PICK f : f = [k \in 0 .. N |-> a]
      OBVIOUS
    <3>2. f \in [0 .. N -> S] /\ Repeated(f, N)
      BY <2>2, <3>1
    <3> QED
      BY <2>1, <3>2
  <2>3. CASE N # 0
    <3>1. N - 1 \in Nat /\ N - 1 \notin T
      <4>1. N \in Nat
        OBVIOUS
      <4>2. N - 1 \in Nat /\ ~(N <= N - 1)
        BY <2>3, <4>1
      <4> QED
        BY <2>1, <4>2, Zenon
    <3>2. PICK g \in [0 .. N - 1 -> S] : Repeated(g, N - 1)
      BY <3>1
    <3>3. PICK f : f = [k \in 0 .. N |-> IF k = N THEN step[g[N - 1]] ELSE g[k]]
      OBVIOUS
    <3>4. f \in [0 .. N -> S]
      BY <3>1, <3>2, <3>3
    <3>5. f[0] = a
      BY <2>3, <3>1, <3>2, <3>3
    <3>6. ASSUME NEW k \in 1 .. N
          PROVE  f[k] = step[f[k - 1]]
      BY <2>1, <3>1, <3>2, <3>3, <3>6
    <3> QED
      BY <2>1, <3>4, <3>5, <3>6
  <2> QED
    BY <2>2, <2>3
<1>2. PICK f \in [0 .. n -> S] : Repeated(f, n)
  BY <1>1
<1> QED
  BY <1>2 DEF Repeats

Top == Cardinality(Thing)

\* There are finitely many nodes.
LEMMA TopIsNat == Top \in Nat
BY DossierAssumption, FS_CardinalityType DEF Top

\* The way up goes from a node to its parent as long as the parent is there.
LEMMA ClimbsUp ==
    ASSUME NEW rows, NEW n, NEW path, path = Climb(rows, n)
    PROVE  /\ DOMAIN path = 0 .. Top
           /\ path[0] = n
           /\ \A k \in 1 .. Top : path[k] = Parent(rows, path[k - 1])
<1>1. PICK S : S = {n, NoThing} \union {rows[m].parent : m \in DOMAIN rows}
  OBVIOUS
<1>2. PICK step : step = [x \in S |-> Parent(rows, x)]
  OBVIOUS
<1>3. n \in S /\ step \in [S -> S]
  BY <1>1, <1>2 DEF Parent
<1>4. Top \in Nat
  BY TopIsNat
<1>5. PICK f \in [0 .. Top -> S] : f[0] = n /\ \A k \in 1 .. Top : f[k] = step[f[k - 1]]
  <2>1. step \in [S -> S]
    BY <1>3
  <2>2. n \in S
    BY <1>3
  <2>3. \E f : Repeats(f, S, n, step, Top)
    BY <2>1, <2>2, <1>4, Iteration
  <2> QED
    BY <2>3 DEF Repeats
<1>6. \A k \in 1 .. Top : f[k] = Parent(rows, f[k - 1])
  BY <1>2, <1>4, <1>5
<1>7. f = [k \in 0 .. Top |-> IF k = 0 THEN n ELSE Parent(rows, f[k - 1])]
  BY <1>4, <1>5, <1>6
<1>8. path = CHOOSE up : up = [k \in 0 .. Top |-> IF k = 0 THEN n ELSE Parent(rows, up[k - 1])]
  BY Zenon DEF Climb, Top
<1>9. path = [k \in 0 .. Top |-> IF k = 0 THEN n ELSE Parent(rows, path[k - 1])]
  BY <1>7, <1>8, Zenon
<1>10. PICK g : g = path
  OBVIOUS
<1>11. path = [k \in 0 .. Top |-> IF k = 0 THEN n ELSE Parent(rows, g[k - 1])]
  BY <1>9, <1>10, Zenon
<1>12. /\ DOMAIN path = 0 .. Top
       /\ \A k \in 0 .. Top : path[k] = IF k = 0 THEN n ELSE Parent(rows, g[k - 1])
  BY <1>11, Zenon
<1>13. \A k \in 1 .. Top : k \in 0 .. Top /\ k # 0
  BY <1>4
<1>14. 0 \in 0 .. Top
  BY <1>4
<1> QED
  BY <1>10, <1>12, <1>13, <1>14, Zenon

\* The way up from a parent is the way up from its child, but for the child.
LEMMA ClimbFromParent ==
    ASSUME NEW rows, NEW n, NEW q, q = Parent(rows, n)
    PROVE  \A k \in 0 .. Top - 1 : Climb(rows, n)[k + 1] = Climb(rows, q)[k]
<1>1. PICK p, r : p = Climb(rows, n) /\ r = Climb(rows, q)
  OBVIOUS
<1>2. Top \in Nat
  BY TopIsNat
<1>3. p[0] = n /\ r[0] = q
      /\ \A k \in 1 .. Top : p[k] = Parent(rows, p[k - 1]) /\ r[k] = Parent(rows, r[k - 1])
  BY <1>1, ClimbsUp
<1>4. PICK T : T = {k \in 0 .. Top - 1 : p[k + 1] # r[k]}
  OBVIOUS
<1>5. ASSUME T # {}
      PROVE  FALSE
  <2>1. T \in SUBSET Nat
    BY <1>2, <1>4
  <2>2. PICK k \in T : \A j \in T : k <= j
    BY <1>5, <2>1, LeastNumber
  <2>3. k \in 0 .. Top - 1 /\ p[k + 1] # r[k]
    BY <1>4, <2>2
  <2>4. CASE k = 0
    BY <1>2, <1>3, <2>3, <2>4
  <2>5. CASE k # 0
    <3>1. k - 1 \in 0 .. Top - 1 /\ ~(k <= k - 1)
      BY <1>2, <2>3, <2>5
    <3>2. p[(k - 1) + 1] = r[k - 1]
      BY <1>4, <2>2, <3>1
    <3>3. (k - 1) + 1 = k /\ (k + 1) - 1 = k /\ k \in 1 .. Top /\ k + 1 \in 1 .. Top
      BY <1>2, <2>3, <2>5
    <3>4. p[k + 1] = Parent(rows, p[k]) /\ r[k] = Parent(rows, r[k - 1])
      BY <1>3, <3>3
    <3> QED
      BY <2>3, <3>2, <3>3, <3>4
  <2> QED
    BY <2>4, <2>5
<1> QED
  BY <1>1, <1>4, <1>5

-----------------------------------------------------------------------------
\* From n the source is met first at the k-th step.
MeetsAt(rows, n, source, k) ==
    /\ k \in 0 .. Top
    /\ Climb(rows, n)[k] = source
    /\ \A i \in 0 .. k - 1 : Climb(rows, n)[i] # source

\* What is met on the way is met at some number of steps.
LEMMA MeetsOnce ==
    ASSUME NEW rows, NEW n, NEW source, NEW k, MeetsAt(rows, n, source, k),
           NEW j, MeetsAt(rows, n, source, j)
    PROVE  j = k
<1>1. j \in Int /\ k \in Int /\ 0 <= j /\ 0 <= k
  BY TopIsNat DEF MeetsAt
<1>2. ~(j < k) /\ ~(k < j)
  BY <1>1 DEF MeetsAt
<1> QED
  BY <1>1, <1>2

\* A node descends from another when it meets it on its way up.
LEMMA DescendsMeets ==
    ASSUME NEW rows, NEW n, NEW source
    PROVE  DescendsFrom(rows, n, source) <=> \E k \in 0 .. Top : MeetsAt(rows, n, source, k)
<1>1. Top \in Nat
  BY TopIsNat
<1>2. PICK path : path = Climb(rows, n)
  OBVIOUS
<1>3. DOMAIN path = 0 .. Top
  BY <1>2, ClimbsUp
<1>4. DescendsFrom(rows, n, source) <=> \E k \in 0 .. Top : path[k] = source
  BY <1>2, <1>3 DEF DescendsFrom
<1>5. ASSUME NEW i \in 0 .. Top, path[i] = source
      PROVE  \E k \in 0 .. Top : MeetsAt(rows, n, source, k)
  <2>1. PICK T : T = {k \in 0 .. Top : path[k] = source}
    OBVIOUS
  <2>2. T \in SUBSET Nat /\ T # {}
    BY <1>1, <1>5, <2>1
  <2>3. PICK k \in T : \A j \in T : k <= j
    BY <2>2, LeastNumber
  <2>4. \A j \in 0 .. k - 1 : j \in 0 .. Top /\ ~(k <= j)
    BY <1>1, <2>1
  <2> QED
    BY <1>2, <2>1, <2>3, <2>4 DEF MeetsAt
<1> QED
  BY <1>2, <1>4, <1>5 DEF MeetsAt

\* What a node meets its parent meets, but for the node.
LEMMA MeetsFromParent ==
    ASSUME NEW rows, NEW n, NEW source, n # source, NEW q, q = Parent(rows, n), NEW k \in 0 .. Top - 1
    PROVE  MeetsAt(rows, q, source, k) <=> MeetsAt(rows, n, source, k + 1)
<1>1. Top \in Nat /\ k + 1 \in 0 .. Top /\ k \in 0 .. Top
  BY TopIsNat
<1>2. PICK p, r : p = Climb(rows, n) /\ r = Climb(rows, q)
  OBVIOUS
<1>3. p[0] = n /\ \A i \in 0 .. Top - 1 : p[i + 1] = r[i]
  BY <1>2, ClimbsUp, ClimbFromParent
<1>4. p[k + 1] = r[k]
  BY <1>3
<1>5. ASSUME \A i \in 0 .. k - 1 : r[i] # source
      PROVE  \A i \in 0 .. (k + 1) - 1 : p[i] # source
  <2>1. SUFFICES ASSUME NEW i \in 0 .. (k + 1) - 1
                 PROVE  p[i] # source
    OBVIOUS
  <2>2. CASE i = 0
    BY <1>3, <2>2
  <2>3. CASE i # 0
    <3>1. i - 1 \in 0 .. k - 1 /\ i - 1 \in 0 .. Top - 1 /\ (i - 1) + 1 = i
      BY <1>1, <2>3
    <3> QED
      BY <1>3, <1>5, <3>1
  <2> QED
    BY <2>2, <2>3
<1>6. ASSUME \A i \in 0 .. (k + 1) - 1 : p[i] # source
      PROVE  \A i \in 0 .. k - 1 : r[i] # source
  <2>1. SUFFICES ASSUME NEW i \in 0 .. k - 1
                 PROVE  r[i] # source
    OBVIOUS
  <2>2. i \in 0 .. Top - 1 /\ i + 1 \in 0 .. (k + 1) - 1
    BY <1>1
  <2> QED
    BY <1>3, <1>6, <2>2
<1> QED
  BY <1>1, <1>2, <1>4, <1>5, <1>6 DEF MeetsAt

\* Everyone met on the way to a node that is there is there.
LEMMA MetOnTheWay ==
    ASSUME NEW rows, DOMAIN rows \subseteq Thing, NEW n, NEW source \in DOMAIN rows,
           NEW k, MeetsAt(rows, n, source, k), NEW i \in 0 .. k
    PROVE  Climb(rows, n)[i] \in DOMAIN rows
<1>1. PICK p : p = Climb(rows, n)
  OBVIOUS
<1>2. Top \in Nat /\ k \in 0 .. Top /\ p[k] = source /\ NoThing \notin DOMAIN rows
  BY <1>1, TopIsNat, DossierAssumption DEF MeetsAt
<1>3. \A j \in 1 .. Top : p[j] = Parent(rows, p[j - 1])
  BY <1>1, ClimbsUp
<1>4. SUFFICES ASSUME p[i] \notin DOMAIN rows
               PROVE  FALSE
  BY <1>1
<1>5. PICK T : T = {j \in 0 .. k : i < j /\ p[j] # NoThing}
  OBVIOUS
<1>6. k \in T
  <2>1. k # i
    BY <1>2, <1>4
  <2> QED
    BY <1>2, <1>5, <2>1
<1>7. T \in SUBSET Nat
  BY <1>2, <1>5
<1>8. PICK j \in T : \A m \in T : j <= m
  BY <1>6, <1>7, LeastNumber
<1>9. j \in 1 .. Top /\ j - 1 \in 0 .. k /\ (j - 1 = i \/ i < j - 1) /\ ~(j <= j - 1)
  BY <1>2, <1>5, <1>8
<1>10. p[j - 1] \notin DOMAIN rows
  <2>1. CASE j - 1 = i
    BY <1>4, <2>1
  <2>2. CASE i < j - 1
    BY <1>2, <1>5, <1>8, <1>9, <2>2
  <2> QED
    BY <1>9, <2>1, <2>2
<1>11. p[j] = NoThing
  BY <1>3, <1>9, <1>10 DEF Parent
<1> QED
  BY <1>5, <1>8, <1>11

-----------------------------------------------------------------------------
(***************************************************************************)
(* The internal bundle.                                                    *)
(***************************************************************************)

\* From n the source is met, and internal nodes only on the way.
HangsBelow(rows, n, source) ==
    /\ n \in DOMAIN rows /\ n # source
    /\ \E k \in 0 .. Top :
          /\ MeetsAt(rows, n, source, k)
          /\ \A i \in 0 .. k - 1 : /\ Climb(rows, n)[i] \in DOMAIN rows
                                   /\ IsInternal(rows[Climb(rows, n)[i]].type)

InsideOf(rows, source) ==
    {m \in DOMAIN rows : IsInternal(rows[m].type) /\ DescendsFrom(rows, m, source)}

BelowLevel(rows, source, level) == {m \in InsideOf(rows, source) : rows[m].parent \in level}

\* The bundle, level by level.
LEMMA SubtreeByLevels ==
    ASSUME NEW rows, NEW source
    PROVE  \E L : /\ L[0] = BelowLevel(rows, source, {source})
                  /\ \A k \in 1 .. Top : L[k] = L[k - 1] \union BelowLevel(rows, source, L[k - 1])
                  /\ InternalSubtree(rows, source) = {<<rows[m].parent, m>> : m \in L[Top]}
<1>1. PICK S : S = SUBSET DOMAIN rows
  OBVIOUS
<1>2. PICK step : step = [l \in S |-> l \union BelowLevel(rows, source, l)]
  OBVIOUS
<1>3. PICK a : a = BelowLevel(rows, source, {source})
  OBVIOUS
<1>4. a \in S
  BY <1>1, <1>3 DEF BelowLevel, InsideOf
<1>5. step \in [S -> S]
  BY <1>1, <1>2 DEF BelowLevel, InsideOf
<1>6. Top \in Nat
  BY TopIsNat
<1>7. \E f : Repeats(f, S, a, step, Top)
  BY <1>4, <1>5, <1>6, Iteration
<1>8. PICK f \in [0 .. Top -> S] : f[0] = a /\ \A k \in 1 .. Top : f[k] = step[f[k - 1]]
  BY <1>7 DEF Repeats
<1>9. \A k \in 1 .. Top : f[k] = f[k - 1] \union BelowLevel(rows, source, f[k - 1])
  <2>1. ASSUME NEW k \in 1 .. Top
        PROVE  f[k] = f[k - 1] \union BelowLevel(rows, source, f[k - 1])
    <3>1. PICK l : l = f[k - 1]
      OBVIOUS
    <3>2. k - 1 \in 0 .. Top
      BY <1>6
    <3>3. l \in S
      BY <1>8, <3>1, <3>2
    <3>4. step[l] = l \union BelowLevel(rows, source, l)
      BY <1>2, <3>3
    <3> QED
      BY <1>8, <3>1, <3>4
  <2> QED
    BY <2>1
<1>10. f = [k \in 0 .. Top |-> IF k = 0 THEN BelowLevel(rows, source, {source})
                               ELSE f[k - 1] \union BelowLevel(rows, source, f[k - 1])]
  BY <1>3, <1>6, <1>8, <1>9
<1>11. PICK L : L = CHOOSE r : r = [k \in 0 .. Top |->
                                       IF k = 0 THEN BelowLevel(rows, source, {source})
                                       ELSE r[k - 1] \union BelowLevel(rows, source, r[k - 1])]
  OBVIOUS
<1>12. L = [k \in 0 .. Top |-> IF k = 0 THEN BelowLevel(rows, source, {source})
                               ELSE L[k - 1] \union BelowLevel(rows, source, L[k - 1])]
  BY <1>10, <1>11, Zenon
<1>13. PICK g : g = L
  OBVIOUS
<1>14. L = [k \in 0 .. Top |-> IF k = 0 THEN BelowLevel(rows, source, {source})
                               ELSE g[k - 1] \union BelowLevel(rows, source, g[k - 1])]
  BY <1>12, <1>13, Zenon
<1>15. \A k \in 0 .. Top : L[k] = IF k = 0 THEN BelowLevel(rows, source, {source})
                                  ELSE g[k - 1] \union BelowLevel(rows, source, g[k - 1])
  BY <1>14, Zenon
<1>16. InternalSubtree(rows, source) = {<<rows[m].parent, m>> : m \in L[Top]}
  BY <1>11, Zenon DEF InternalSubtree, BelowLevel, InsideOf, Top
<1>17. 0 \in 0 .. Top /\ \A k \in 1 .. Top : k \in 0 .. Top /\ k # 0
  BY <1>6
<1> QED
  BY <1>13, <1>15, <1>16, <1>17, Zenon

\* One step below the source.
LEMMA HangsFirst ==
    ASSUME NEW rows, DOMAIN rows \subseteq Thing, NEW source \in DOMAIN rows,
           rows[source].type = "DataSource", NEW m
    PROVE  m \in BelowLevel(rows, source, {source}) <=>
               m \in DOMAIN rows /\ m # source /\ MeetsAt(rows, m, source, 1)
                   /\ IsInternal(rows[m].type)
<1>1. Top \in Nat /\ source # NoThing
  BY TopIsNat, DossierAssumption
<1>2. ASSUME m \in BelowLevel(rows, source, {source})
      PROVE  m \in DOMAIN rows /\ m # source /\ MeetsAt(rows, m, source, 1) /\ IsInternal(rows[m].type)
  <2>1. /\ m \in DOMAIN rows /\ IsInternal(rows[m].type) /\ DescendsFrom(rows, m, source)
        /\ rows[m].parent = source
    BY <1>2 DEF BelowLevel, InsideOf
  <2>2. m # source
    BY <2>1 DEF IsInternal
  <2>3. PICK k \in 0 .. Top : MeetsAt(rows, m, source, k)
    BY <2>1, DescendsMeets
  <2>4. Climb(rows, m)[0] = m
    BY ClimbsUp
  <2>5. k # 0
    BY <2>2, <2>3, <2>4 DEF MeetsAt
  <2>6. 1 \in 0 .. Top /\ 1 \in 1 .. Top
    BY <1>1, <2>5
  <2>7. Climb(rows, m)[1] = source
    BY <2>1, <2>4, <2>6, ClimbsUp DEF Parent
  <2>8. MeetsAt(rows, m, source, 1)
    BY <2>2, <2>4, <2>6, <2>7 DEF MeetsAt
  <2> QED
    BY <2>1, <2>2, <2>8
<1>3. ASSUME m \in DOMAIN rows, m # source, MeetsAt(rows, m, source, 1), IsInternal(rows[m].type)
      PROVE  m \in BelowLevel(rows, source, {source})
  <2>1. 1 \in 1 .. Top /\ 1 \in 0 .. Top
    BY <1>1, <1>3 DEF MeetsAt
  <2>2. Climb(rows, m)[1] = rows[m].parent
    BY <1>3, <2>1, ClimbsUp DEF Parent
  <2>3. rows[m].parent = source
    BY <1>3, <2>2 DEF MeetsAt
  <2>4. DescendsFrom(rows, m, source)
    BY <1>3, <2>1, DescendsMeets
  <2> QED
    BY <1>3, <2>3, <2>4 DEF BelowLevel, InsideOf
<1> QED
  BY <1>2, <1>3

\* One step below a node that hangs below the source, and the other way round.
LEMMA HangsNext ==
    ASSUME NEW rows, DOMAIN rows \subseteq Thing, NEW source \in DOMAIN rows,
           rows[source].type = "DataSource", NEW m \in DOMAIN rows, IsInternal(rows[m].type),
           NEW q, q = rows[m].parent, HangsBelow(rows, q, source), DescendsFrom(rows, m, source)
    PROVE  HangsBelow(rows, m, source)
<1>1. Top \in Nat
  BY TopIsNat
<1>2. m # source
  BY DEF IsInternal
<1>3. q = Parent(rows, m)
  BY DEF Parent
<1>4. PICK k \in 0 .. Top :
          /\ MeetsAt(rows, q, source, k)
          /\ \A i \in 0 .. k - 1 : /\ Climb(rows, q)[i] \in DOMAIN rows
                                   /\ IsInternal(rows[Climb(rows, q)[i]].type)
  BY DEF HangsBelow
<1>5. PICK j \in 0 .. Top : MeetsAt(rows, m, source, j)
  BY DescendsMeets
<1>6. Climb(rows, m)[0] = m
  BY ClimbsUp
<1>7. j # 0
  BY <1>2, <1>5, <1>6 DEF MeetsAt
<1>8. j - 1 \in 0 .. Top - 1 /\ (j - 1) + 1 = j
  BY <1>1, <1>7
<1>9. MeetsAt(rows, q, source, j - 1)
  BY <1>2, <1>3, <1>5, <1>8, MeetsFromParent
<1>10. j - 1 = k
  BY <1>4, <1>9, MeetsOnce
<1>11. ASSUME NEW i \in 0 .. j - 1
       PROVE  /\ Climb(rows, m)[i] \in DOMAIN rows
              /\ IsInternal(rows[Climb(rows, m)[i]].type)
  <2>1. CASE i = 0
    BY <1>6, <2>1
  <2>2. CASE i # 0
    <3>1. i - 1 \in 0 .. k - 1 /\ i - 1 \in 0 .. Top - 1 /\ (i - 1) + 1 = i
      BY <1>1, <1>10, <2>2
    <3>2. Climb(rows, m)[i] = Climb(rows, q)[i - 1]
      BY <1>3, <3>1, ClimbFromParent
    <3> QED
      BY <1>4, <3>1, <3>2
  <2> QED
    BY <2>1, <2>2
<1> QED
  BY <1>2, <1>5, <1>11 DEF HangsBelow

\* What hangs below the source hangs below its parent, or below the source itself.
LEMMA ParentHangs ==
    ASSUME NEW rows, NEW source, NEW m \in DOMAIN rows, m # source,
           NEW k \in 2 .. Top, MeetsAt(rows, m, source, k),
           \A i \in 0 .. k - 1 : /\ Climb(rows, m)[i] \in DOMAIN rows
                                 /\ IsInternal(rows[Climb(rows, m)[i]].type),
           NEW q, q = rows[m].parent
    PROVE  /\ q \in DOMAIN rows /\ q # source
           /\ MeetsAt(rows, q, source, k - 1)
           /\ \A i \in 0 .. (k - 1) - 1 : /\ Climb(rows, q)[i] \in DOMAIN rows
                                          /\ IsInternal(rows[Climb(rows, q)[i]].type)
<1>1. Top \in Nat
  BY TopIsNat
<1>2. q = Parent(rows, m)
  BY DEF Parent
<1>3. k - 1 \in 0 .. Top - 1 /\ (k - 1) + 1 = k /\ 1 \in 0 .. k - 1 /\ 0 \in 0 .. Top - 1 /\ 0 + 1 = 1
  BY <1>1
<1>4. MeetsAt(rows, q, source, k - 1)
  BY <1>2, <1>3, MeetsFromParent
<1>5. Climb(rows, q)[0] = q
  BY ClimbsUp
<1>6. Climb(rows, m)[1] = q
  BY <1>2, <1>3, <1>5, ClimbFromParent
<1>7. q \in DOMAIN rows
  BY <1>3, <1>6
<1>8. q # source
  BY <1>3, <1>6 DEF MeetsAt
<1>9. ASSUME NEW i \in 0 .. (k - 1) - 1
      PROVE  /\ Climb(rows, q)[i] \in DOMAIN rows
             /\ IsInternal(rows[Climb(rows, q)[i]].type)
  <2>1. i \in 0 .. Top - 1 /\ i + 1 \in 0 .. k - 1
    BY <1>1
  <2>2. Climb(rows, q)[i] = Climb(rows, m)[i + 1]
    BY <1>2, <2>1, ClimbFromParent
  <2> QED
    BY <2>1, <2>2
<1> QED
  BY <1>4, <1>7, <1>8, <1>9

\* What is reached hangs below the source, each node below one reached before.
LEMMA ReachedHangs ==
    ASSUME NEW rows, DOMAIN rows \subseteq Thing, NEW source \in DOMAIN rows,
           rows[source].type = "DataSource",
           NEW L, L[0] = BelowLevel(rows, source, {source}),
           \A k \in 1 .. Top : L[k] = L[k - 1] \union BelowLevel(rows, source, L[k - 1])
    PROVE  \A k \in 0 .. Top : \A m \in L[k] :
               HangsBelow(rows, m, source) /\ rows[m].parent \in L[k] \union {source}
<1>1. Top \in Nat
  BY TopIsNat
<1> DEFINE P(k) == \A m \in L[k] :
                       HangsBelow(rows, m, source) /\ rows[m].parent \in L[k] \union {source}
           T == {k \in 0 .. Top : ~P(k)}
<1>2. ASSUME NEW m \in L[0]
      PROVE  HangsBelow(rows, m, source) /\ rows[m].parent = source
  <2>1. m \in DOMAIN rows /\ m # source /\ MeetsAt(rows, m, source, 1) /\ IsInternal(rows[m].type)
    BY <1>2, HangsFirst
  <2>2. rows[m].parent = source
    BY <1>2 DEF BelowLevel
  <2>3. 1 \in 0 .. Top
    BY <2>1 DEF MeetsAt
  <2>4. Climb(rows, m)[0] = m
    BY ClimbsUp
  <2>5. \A i \in 0 .. 1 - 1 : i = 0
    OBVIOUS
  <2>6. HangsBelow(rows, m, source)
    BY <2>1, <2>3, <2>4, <2>5 DEF HangsBelow
  <2> QED
    BY <2>2, <2>6
<1>3. ASSUME T # {}
      PROVE  FALSE
  <2>1. T \in SUBSET Nat
    BY <1>1
  <2>2. PICK k \in T : \A j \in T : k <= j
    BY <1>3, <2>1, LeastNumber
  <2>3. k \in 0 .. Top /\ ~P(k)
    OBVIOUS
  <2>4. CASE k = 0
    BY <1>2, <2>3, <2>4
  <2>5. CASE k # 0
    <3>1. k \in 1 .. Top /\ k - 1 \in 0 .. Top /\ ~(k <= k - 1)
      BY <1>1, <2>3, <2>5
    <3>2. P(k - 1)
      BY <2>2, <3>1
    <3>3. L[k] = L[k - 1] \union BelowLevel(rows, source, L[k - 1])
      BY <3>1
    <3>4. ASSUME NEW m \in BelowLevel(rows, source, L[k - 1])
          PROVE  HangsBelow(rows, m, source) /\ rows[m].parent \in L[k - 1]
      <4>1. /\ m \in DOMAIN rows /\ IsInternal(rows[m].type) /\ DescendsFrom(rows, m, source)
            /\ rows[m].parent \in L[k - 1]
        BY <3>4 DEF BelowLevel, InsideOf
      <4>2. HangsBelow(rows, rows[m].parent, source)
        BY <3>2, <4>1
      <4> QED
        BY <4>1, <4>2, HangsNext
    <3>5. P(k)
      BY <3>2, <3>3, <3>4
    <3> QED
      BY <2>3, <3>5
  <2> QED
    BY <2>4, <2>5
<1> QED
  BY <1>3

\* What hangs below the source is reached.
LEMMA HangingIsReached ==
    ASSUME NEW rows, DOMAIN rows \subseteq Thing, NEW source \in DOMAIN rows,
           rows[source].type = "DataSource",
           NEW L, L[0] = BelowLevel(rows, source, {source}),
           \A k \in 1 .. Top : L[k] = L[k - 1] \union BelowLevel(rows, source, L[k - 1])
    PROVE  \A m : HangsBelow(rows, m, source) => m \in L[Top]
<1>1. Top \in Nat
  BY TopIsNat
<1> DEFINE Way(m, j) ==
               /\ m \in DOMAIN rows /\ m # source /\ MeetsAt(rows, m, source, j)
               /\ \A i \in 0 .. j - 1 : /\ Climb(rows, m)[i] \in DOMAIN rows
                                        /\ IsInternal(rows[Climb(rows, m)[i]].type)
           P(k) == \A m : \A j \in 0 .. k + 1 : Way(m, j) => m \in L[k]
           T == {k \in 0 .. Top : ~P(k)}
<1>2. ASSUME NEW m, NEW j, Way(m, j)
      PROVE  /\ j \in 1 .. Top /\ Climb(rows, m)[0] = m
             /\ m \in DOMAIN rows /\ IsInternal(rows[m].type) /\ DescendsFrom(rows, m, source)
  <2>1. Climb(rows, m)[0] = m
    BY ClimbsUp
  <2>2. j \in 0 .. Top /\ j # 0
    BY <1>2, <2>1 DEF MeetsAt
  <2>3. j \in 1 .. Top /\ 0 \in 0 .. j - 1
    BY <1>1, <2>2
  <2>4. IsInternal(rows[m].type)
    BY <1>2, <2>1, <2>3
  <2>5. DescendsFrom(rows, m, source)
    BY <1>2, <2>2, DescendsMeets
  <2> QED
    BY <1>2, <2>1, <2>3, <2>4, <2>5
<1>3. ASSUME T # {}
      PROVE  FALSE
  <2>1. T \in SUBSET Nat
    BY <1>1
  <2>2. PICK k \in T : \A j \in T : k <= j
    BY <1>3, <2>1, LeastNumber
  <2>3. k \in 0 .. Top /\ ~P(k)
    OBVIOUS
  <2>4. PICK m : \E j \in 0 .. k + 1 : Way(m, j) /\ m \notin L[k]
    BY <2>3
  <2>5. PICK j \in 0 .. k + 1 : Way(m, j) /\ m \notin L[k]
    BY <2>4
  <2> HIDE DEF Way
  <2>6. /\ j \in 1 .. Top /\ m \in DOMAIN rows /\ IsInternal(rows[m].type)
        /\ DescendsFrom(rows, m, source)
    BY <1>2, <2>5
  <2>7. CASE k = 0
    <3>1. j = 1
      BY <2>5, <2>6, <2>7
    <3>2. m # source /\ MeetsAt(rows, m, source, 1)
      BY <2>5, <3>1 DEF Way
    <3>3. m \in BelowLevel(rows, source, {source})
      BY <2>6, <3>2, HangsFirst
    <3> QED
      BY <2>5, <2>7, <3>3
  <2>8. CASE k # 0
    <3>1. k \in 1 .. Top /\ k - 1 \in 0 .. Top /\ ~(k <= k - 1) /\ (k - 1) + 1 = k
      BY <1>1, <2>3, <2>8
    <3>2. P(k - 1)
      BY <2>2, <3>1
    <3>3. L[k] = L[k - 1] \union BelowLevel(rows, source, L[k - 1])
      BY <3>1
    <3>4. j = k + 1
      <4>1. m \notin L[k - 1]
        BY <2>5, <3>3
      <4>2. j \notin 0 .. k
        BY <2>5, <3>1, <3>2, <4>1
      <4> QED
        BY <2>3, <2>5, <4>2
    <3>5. PICK q : q = rows[m].parent
      OBVIOUS
    <3>6. j \in 2 .. Top /\ j - 1 \in 0 .. k
      BY <2>3, <2>6, <3>1, <3>4
    <3>7. Way(q, j - 1)
      BY <2>5, <3>5, <3>6, ParentHangs DEF Way
    <3>8. q \in L[k - 1]
      BY <3>1, <3>2, <3>6, <3>7
    <3>9. m \in BelowLevel(rows, source, L[k - 1])
      BY <2>6, <3>5, <3>8 DEF BelowLevel, InsideOf
    <3> QED
      BY <2>5, <3>3, <3>9
  <2> QED
    BY <2>7, <2>8
<1>4. P(Top)
  BY <1>1, <1>3
<1>5. ASSUME NEW m, HangsBelow(rows, m, source)
      PROVE  m \in L[Top]
  <2>1. PICK k \in 0 .. Top : Way(m, k)
    BY <1>5 DEF HangsBelow
  <2>2. k \in 0 .. Top + 1
    BY <1>1
  <2> QED
    BY <1>4, <2>1, <2>2
<1> QED
  BY <1>5

HangsTogether(tree, hung, rows, source) ==
    /\ hung \in SUBSET DOMAIN rows
    /\ tree = {<<rows[m].parent, m>> : m \in hung}
    /\ hung = {e[2] : e \in tree}
    /\ \A e \in tree : e[1] \in hung \union {source}
    /\ \A m : m \in hung <=> HangsBelow(rows, m, source)

\* So the bundle hangs together, hangs each node once, and leaves nothing out.
LEMMA SubtreeIsWhole ==
    ASSUME NEW rows, DOMAIN rows \subseteq Thing, NEW source \in DOMAIN rows,
           rows[source].type = "DataSource", NEW tree, tree = InternalSubtree(rows, source)
    PROVE  \E hung : HangsTogether(tree, hung, rows, source)
<1>1. PICK L : /\ L[0] = BelowLevel(rows, source, {source})
               /\ \A k \in 1 .. Top : L[k] = L[k - 1] \union BelowLevel(rows, source, L[k - 1])
               /\ InternalSubtree(rows, source) = {<<rows[m].parent, m>> : m \in L[Top]}
  BY SubtreeByLevels
<1>2. Top \in 0 .. Top
  BY TopIsNat
<1>3. PICK hung : hung = L[Top]
  OBVIOUS
<1>4. \A m \in hung : HangsBelow(rows, m, source) /\ rows[m].parent \in hung \union {source}
  BY <1>1, <1>2, <1>3, ReachedHangs
<1>5. \A m : HangsBelow(rows, m, source) => m \in hung
  BY <1>1, <1>3, HangingIsReached
<1>6. hung \in SUBSET DOMAIN rows
  BY <1>4 DEF HangsBelow
<1>7. tree = {<<rows[m].parent, m>> : m \in hung}
  BY <1>1, <1>3
<1>8. hung = {e[2] : e \in tree}
  <2>1. ASSUME NEW m \in hung
        PROVE  m \in {e[2] : e \in tree}
    <3>1. PICK e : e = <<rows[m].parent, m>>
      OBVIOUS
    <3>2. e \in tree /\ e[2] = m
      BY <1>7, <3>1
    <3> QED
      BY <3>2
  <2>2. ASSUME NEW e \in tree
        PROVE  e[2] \in hung
    BY <1>7
  <2> QED
    BY <2>1, <2>2
<1>9. \A e \in tree : e[1] \in hung \union {source}
  BY <1>4, <1>7
<1> QED
  BY <1>4, <1>5, <1>6, <1>7, <1>8, <1>9 DEF HangsTogether

-----------------------------------------------------------------------------
(***************************************************************************)
(* The most pressing gaps.                                                 *)
(***************************************************************************)
NodesAreKnown ==
    /\ today \in Nat
    /\ DOMAIN node \subseteq Thing
    /\ \A n \in DOMAIN node :
          /\ node[n].type \in Types
          /\ node[n].modified \in Nat /\ node[n].modified <= today
          /\ node[n].baseline # Keep => /\ node[n].baseline \in Nat
                                        /\ node[n].baseline <= node[n].modified

\* A priority is a number.
LEMMA PriorityIsNat ==
    ASSUME NodesAreKnown, NEW n \in DOMAIN node
    PROVE  Priority(n) \in Nat /\ Age(n) \in Nat /\ today - node[n].modified <= Age(n)
<1>1. /\ today \in Nat /\ node[n].type \in Types
      /\ node[n].modified \in Nat /\ node[n].modified <= today
      /\ node[n].baseline # Keep => node[n].baseline \in Nat /\ node[n].baseline <= node[n].modified
  BY DEF NodesAreKnown
<1>2. LastSeen(n) \in Nat /\ LastSeen(n) <= node[n].modified
  BY <1>1 DEF LastSeen, CurrencyEvidence
<1>3. Age(n) \in Nat /\ today - node[n].modified <= Age(n)
  BY <1>1, <1>2 DEF Age
<1>4. StalenessFactor(n) \in Nat
  BY <1>3 DEF StalenessFactor
<1>5. Adjacent(n) \in SUBSET Thing
  BY DossierAssumption DEF Adjacent, Links
<1>6. IsFiniteSet(Adjacent(n)) /\ Cardinality(Adjacent(n)) \in Nat
  BY <1>5, DossierAssumption, FS_Subset, FS_CardinalityType
<1>7. PICK T : T = {l \in Links : l.target = n}
  OBVIOUS
<1>8. T \in SUBSET Lineage
  BY <1>7 DEF Links
<1>9. Cardinality(T) \in Nat
  BY <1>8, DossierAssumption, FS_Subset, FS_CardinalityType
<1>10. TypeWeight[node[n].type] \in Nat
  BY <1>1, DossierAssumption
<1>11. CriticalityScore(n) \in Nat
  BY <1>6, <1>7, <1>9, <1>10 DEF CriticalityScore
<1>12. \A a, b \in Nat : a * b \in Nat
  OBVIOUS
<1>13. Priority(n) \in Nat
  BY <1>4, <1>11, <1>12 DEF Priority
<1> QED
  BY <1>3, <1>13

\* The gaps told are the most pressing ones.
LEMMA GapsAreRanked ==
    ASSUME NodesAreKnown, NEW nodes \in SUBSET DOMAIN node, NEW gaps, gaps = RankedGaps(nodes)
    PROVE  \A n \in nodes \ {gaps[i] : i \in DOMAIN gaps} :
               \/ ~IsGap(n)
               \/ Len(gaps) = TOP_N /\ \A i \in DOMAIN gaps : Priority(gaps[i]) >= Priority(n)
<1>1. PICK S : S = {n \in nodes : IsGap(n)}
  OBVIOUS
<1> DEFINE Before(m, n) == Priority(m) > Priority(n) \/ (Priority(m) = Priority(n) /\ m < n)
           R == {p \in S \X S : Before(p[1], p[2])}
           ranked == InOrder(S, R)
           k == IF TOP_N < Len(ranked) THEN TOP_N ELSE Len(ranked)
<1>2. gaps = SubSeq(ranked, 1, k)
  BY <1>1, Zenon DEF RankedGaps, Sorted
<1>3. S \in SUBSET Thing /\ S \in SUBSET Nat
  BY <1>1, DossierAssumption DEF NodesAreKnown
<1>4. IsFiniteSet(S) /\ TOP_N \in Nat
  BY <1>3, DossierAssumption, FS_Subset
<1>5. \A m \in S : Priority(m) \in Nat
  BY <1>1, PriorityIsNat
<1>6. \A m, n \in S : <<m, n>> \in R <=>
          Priority(m) > Priority(n) \/ (Priority(m) = Priority(n) /\ m < n)
  <2>1. ASSUME NEW m \in S, NEW n \in S
        PROVE  <<m, n>> \in R <=> Before(m, n)
    OBVIOUS
  <2> QED
    BY <2>1
<1> HIDE DEF R
<1>7. StrictOrder(S, R)
  <2>1. \A a \in S : <<a, a>> \notin R
    BY <1>3, <1>5, <1>6
  <2>2. ASSUME NEW a \in S, NEW b \in S, NEW c \in S, <<a, b>> \in R, <<b, c>> \in R
        PROVE  <<a, c>> \in R
    <3>1. a \in Nat /\ b \in Nat /\ c \in Nat
          /\ Priority(a) \in Nat /\ Priority(b) \in Nat /\ Priority(c) \in Nat
      BY <1>3, <1>5
    <3>2. /\ Priority(a) > Priority(b) \/ (Priority(a) = Priority(b) /\ a < b)
          /\ Priority(b) > Priority(c) \/ (Priority(b) = Priority(c) /\ b < c)
      BY <1>6, <2>2
    <3>3. Priority(a) > Priority(c) \/ (Priority(a) = Priority(c) /\ a < c)
      BY <3>1, <3>2
    <3> QED
      BY <1>6, <3>3
  <2>3. ASSUME NEW a \in S, NEW b \in S, a # b
        PROVE  <<a, b>> \in R \/ <<b, a>> \in R
    <3>1. a \in Nat /\ b \in Nat /\ Priority(a) \in Nat /\ Priority(b) \in Nat
      BY <1>3, <1>5
    <3>2. \/ Priority(a) > Priority(b) \/ (Priority(a) = Priority(b) /\ a < b)
          \/ Priority(b) > Priority(a) \/ (Priority(b) = Priority(a) /\ b < a)
      BY <2>3, <3>1
    <3> QED
      BY <1>6, <3>2
  <2> QED
    BY <2>1, <2>2, <2>3 DEF StrictOrder
<1>8. PICK r : r = ranked
  OBVIOUS
<1>9. PICK n : n = IF TOP_N < Len(r) THEN TOP_N ELSE Len(r)
  OBVIOUS
<1>10. gaps = SubSeq(r, 1, n) /\ r = InOrder(S, R)
  BY <1>2, <1>8, <1>9, Zenon
<1> HIDE DEF ranked, k
<1>11. /\ n \in Nat /\ Len(gaps) = n /\ DOMAIN gaps = 1 .. n
       /\ \A i \in 1 .. n : gaps[i] \in S
       /\ \A e \in S : (\E i \in 1 .. n : gaps[i] = e) \/
                       (n = TOP_N /\ \A i \in 1 .. n : <<gaps[i], e>> \in R)
  <2>1. IsFiniteSet(S) /\ TOP_N \in Nat /\ r = InOrder(S, R) /\ gaps = SubSeq(r, 1, n)
    BY <1>4, <1>10
  <2>2. BeginsInOrder(gaps, n, S, R, TOP_N)
    BY <1>7, <1>9, <2>1, OrderedBeginning
  <2> QED
    BY <2>2 DEF BeginsInOrder
<1>12. SUFFICES ASSUME NEW x \in nodes \ {gaps[i] : i \in DOMAIN gaps}, IsGap(x)
                PROVE  Len(gaps) = TOP_N /\ \A i \in DOMAIN gaps : Priority(gaps[i]) >= Priority(x)
  OBVIOUS
<1>13. x \in S /\ ~\E i \in 1 .. n : gaps[i] = x
  BY <1>1, <1>11, <1>12
<1>14. n = TOP_N /\ \A i \in 1 .. n : <<gaps[i], x>> \in R
  BY <1>11, <1>13
<1>15. ASSUME NEW i \in 1 .. n
       PROVE  Priority(gaps[i]) >= Priority(x)
  <2>1. PICK g : g = gaps[i]
    OBVIOUS
  <2>2. g \in S /\ <<g, x>> \in R
    BY <1>11, <1>14, <2>1
  <2>3. Priority(g) \in Nat /\ Priority(x) \in Nat
    BY <1>5, <1>13, <2>2
  <2>4. Priority(g) > Priority(x) \/ Priority(g) = Priority(x)
    BY <1>6, <1>13, <2>2
  <2> QED
    BY <2>1, <2>3, <2>4
<1> QED
  BY <1>11, <1>14, <1>15

-----------------------------------------------------------------------------
(***************************************************************************)
(* What is known of where a KPI comes from: invariant.                     *)
(***************************************************************************)
DraftsAreKnown == \A p \in Writer : p \in DOMAIN checked /\ checked[p] \in Draft \union {NoDraft}

\* A confirmed edge that is there was confirmed since it was added, or came
\* without a row of its own.
ConfirmedIsVouched ==
    /\ DOMAIN verdictOf = {l.id : l \in Lineage}
    /\ \A i \in DOMAIN verdictOf :
           verdictOf[i] = "confirmed" /\ i \in link => i \in vouched \/ i \in inherited

\* Every write takes the report back.
ReportIsOfNow ==
    /\ report.tool = "dossier" => report.dossier = EmptyDossier \/ report.dossier = KpiDossier(report.kpi)
    /\ report.tool = "internal" => /\ TypeOfNode(report.source) = "DataSource"
                                   /\ report.tree = InternalSubtree(node, report.source)
    /\ report.tool = "currency" => /\ report.nodes \in SUBSET DOMAIN node
                                   /\ report.gaps = RankedGaps(report.nodes)

DossierInv == NodesAreKnown /\ DraftsAreKnown /\ ConfirmedIsVouched /\ ReportIsOfNow

\* What a dossier shows is what was found of the KPI.
LEMMA ShownOfDossier ==
    ASSUME NEW k, NEW s \in DOMAIN KpiDossier(k).sources
    PROVE  /\ s \in DossierSources(k)
           /\ KpiDossier(k).sources[s] = DossierContainers(k, s)
           /\ \A c : c \in DOMAIN DossierContainers(k, s) <=>
                         c \in ConfirmedTargets(k, "DataContainer") /\ DataSourceAncestor(node, c) = s
           /\ \A c \in DOMAIN DossierContainers(k, s) :
                 DossierContainers(k, s)[c] = {f \in ConfirmedTargets(k, "DataField") : node[f].parent = c}
<1>1. KpiDossier(k).sources = [t \in DossierSources(k) |-> DossierContainers(k, t)]
  BY Zenon DEF KpiDossier
<1> QED
  BY <1>1 DEF DossierContainers

\* What a confirmed edge measures from is shown, or has no source above it.
LEMMA TargetIsVouched ==
    ASSUME ConfirmedIsVouched, NEW k, NEW type, NEW n \in ConfirmedTargets(k, type)
    PROVE  \E l \in MeasuredFrom(k) : l.target = n /\ (l.id \in vouched \/ l.id \in inherited)
<1>1. PICK l \in MeasuredFrom(k) : l.target = n /\ verdictOf[l.id] = "confirmed"
  BY DEF ConfirmedTargets
<1>2. l \in Lineage /\ l.id \in link
  BY DEF MeasuredFrom, Links
<1>3. l.id \in DOMAIN verdictOf
  BY <1>2 DEF ConfirmedIsVouched
<1> QED
  BY <1>1, <1>2, <1>3 DEF ConfirmedIsVouched

\* An empty dossier shows nothing, and says that it is cut.
LEMMA EmptyShowsNothing == DOMAIN EmptyDossier.sources = {} /\ EmptyDossier.truncated
<1>1. EmptyDossier.sources = [s \in {} |-> {}] /\ EmptyDossier.truncated = TRUE
  BY Zenon DEF EmptyDossier
<1> QED
  BY <1>1

\* What a dossier shows as lineage was confirmed.
LEMMA LineageHolds ==
    ASSUME DossierInv
    PROVE  LineageWasConfirmed
<1>1. SUFFICES ASSUME report.tool = "dossier", report.dossier = KpiDossier(report.kpi)
               PROVE  LineageWasConfirmed
  BY EmptyShowsNothing DEF DossierInv, ReportIsOfNow, LineageWasConfirmed, ShownBelow
<1>2. PICK k : k = report.kpi
  OBVIOUS
<1>3. PICK d : d = report.dossier
  OBVIOUS
<1>4. d = KpiDossier(k)
  BY <1>1, <1>2, <1>3
<1>5. ASSUME NEW s \in DOMAIN d.sources, NEW c \in DOMAIN d.sources[s]
      PROVE  /\ c \in ConfirmedTargets(k, "DataContainer") /\ DataSourceAncestor(node, c) = s
             /\ d.sources[s][c] = {f \in ConfirmedTargets(k, "DataField") : node[f].parent = c}
  BY <1>4, <1>5, ShownOfDossier
<1>6. ASSUME NEW s \in DOMAIN d.sources, NEW c \in DOMAIN d.sources[s], NEW n \in {c} \union d.sources[s][c]
      PROVE  \E l \in MeasuredFrom(k) : l.target = n /\ (l.id \in vouched \/ l.id \in inherited)
  <2>1. n \in ConfirmedTargets(k, "DataContainer") \/ n \in ConfirmedTargets(k, "DataField")
    BY <1>5
  <2> QED
    BY <2>1, TargetIsVouched DEF DossierInv
<1>7. ASSUME NEW s \in DOMAIN d.sources, NEW t \in DOMAIN d.sources, s # t
      PROVE  DOMAIN d.sources[s] \intersect DOMAIN d.sources[t] = {}
  BY <1>5, <1>7
<1>8. ASSUME NEW s \in DOMAIN d.sources, NEW c \in DOMAIN d.sources[s], NEW f \in d.sources[s][c]
      PROVE  node[f].parent = c
  BY <1>5
<1> QED
  BY <1>2, <1>3, <1>6, <1>7, <1>8 DEF LineageWasConfirmed, ShownBelow

\* What is measured from is shown, or its absence is explained.
LEMMA LineageIsWhole ==
    ASSUME DossierInv
    PROVE  LineageIsAccountedFor
<1>1. SUFFICES ASSUME report.tool = "dossier", report.dossier = KpiDossier(report.kpi),
                      NEW l \in MeasuredFrom(report.kpi), IsInternal(TypeOfNode(l.target))
               PROVE  \/ \E u \in report.dossier.unconfirmed : u.candidate = l.id
                      \/ \E s \in DOMAIN report.dossier.sources :
                            \E c \in ShownBelow(s) :
                               l.target = c \/ l.target \in report.dossier.sources[s][c]
                      \/ verdictOf[l.id] = "confirmed" /\ DataSourceAncestor(node, l.target) = NoThing
                      \/ /\ verdictOf[l.id] = "confirmed" /\ TypeOfNode(l.target) = "DataField"
                         /\ DataSourceAncestor(node, l.target) \in DOMAIN report.dossier.sources
                         /\ \A s \in DOMAIN report.dossier.sources :
                               node[l.target].parent \notin ShownBelow(s)
  BY EmptyShowsNothing DEF DossierInv, ReportIsOfNow, LineageIsAccountedFor
<1>2. PICK k, d : k = report.kpi /\ d = report.dossier
  OBVIOUS
<1>3. d = KpiDossier(k)
  BY <1>1, <1>2
<1>4. CASE verdictOf[l.id] # "confirmed"
  <2>1. PICK u : u = [from |-> k, to |-> l.target, candidate |-> l.id]
    OBVIOUS
  <2>2. u \in UnconfirmedLineage(k)
    BY <1>1, <1>2, <1>4, <2>1 DEF UnconfirmedLineage
  <2>3. d.unconfirmed = UnconfirmedLineage(k) \union PendingLineage(k)
    BY <1>3 DEF KpiDossier
  <2> QED
    BY <1>2, <2>1, <2>2, <2>3
<1>5. CASE verdictOf[l.id] = "confirmed" /\ DataSourceAncestor(node, l.target) # NoThing
  <2>1. PICK s, n : s = DataSourceAncestor(node, l.target) /\ n = l.target
    OBVIOUS
  <2>2. l \in MeasuredFrom(k)
    BY <1>2
  <2>3. \/ TypeOfNode(n) = "DataContainer" /\ n \in ConfirmedTargets(k, "DataContainer")
        \/ TypeOfNode(n) = "DataField" /\ n \in ConfirmedTargets(k, "DataField")
    BY <1>1, <1>5, <2>1, <2>2 DEF ConfirmedTargets, IsInternal
  <2>4. s \in DossierSources(k)
    BY <1>5, <2>1, <2>3 DEF DossierSources
  <2>5. DOMAIN d.sources = DossierSources(k)
    <3>1. d.sources = [t \in DossierSources(k) |-> DossierContainers(k, t)]
      BY <1>3, Zenon DEF KpiDossier
    <3> QED
      BY <3>1
  <2>6. s \in DOMAIN d.sources
    BY <2>4, <2>5
  <2>7. CASE TypeOfNode(n) = "DataContainer" /\ n \in ConfirmedTargets(k, "DataContainer")
    <3>1. n \in DOMAIN d.sources[s]
      BY <1>3, <2>1, <2>6, <2>7, ShownOfDossier
    <3> QED
      BY <1>2, <2>1, <2>6, <3>1 DEF ShownBelow
  <2>8. CASE TypeOfNode(n) = "DataField" /\ n \in ConfirmedTargets(k, "DataField")
    <3>1. CASE \E t \in DOMAIN d.sources : node[n].parent \in DOMAIN d.sources[t]
      <4>1. PICK t \in DOMAIN d.sources : node[n].parent \in DOMAIN d.sources[t]
        BY <3>1
      <4>2. PICK c : c = node[n].parent
        OBVIOUS
      <4>3. c \in DOMAIN d.sources[t] /\ n \in d.sources[t][c]
        BY <1>3, <2>8, <4>1, <4>2, ShownOfDossier
      <4> QED
        BY <1>2, <2>1, <4>1, <4>3 DEF ShownBelow
    <3>2. CASE ~\E t \in DOMAIN d.sources : node[n].parent \in DOMAIN d.sources[t]
      BY <1>2, <1>5, <2>1, <2>6, <2>8, <3>2 DEF ShownBelow
    <3> QED
      BY <3>1, <3>2
  <2> QED
    BY <2>3, <2>7, <2>8
<1> QED
  BY <1>4, <1>5

\* A bundle that is told is a tree.
LEMMA TreeHolds ==
    ASSUME DossierInv
    PROVE  SubtreeIsATree
<1>1. SUFFICES ASSUME report.tool = "internal"
               PROVE  SubtreeIsATree
  BY DEF SubtreeIsATree
<1>2. PICK source, tree : source = report.source /\ tree = report.tree
  OBVIOUS
<1>3. tree = InternalSubtree(node, source) /\ TypeOfNode(source) = "DataSource"
  BY <1>1, <1>2 DEF DossierInv, ReportIsOfNow
<1>4. source \in DOMAIN node /\ node[source].type = "DataSource"
  BY <1>3 DEF TypeOfNode
<1>5. DOMAIN node \subseteq Thing /\ NoThing \notin Thing
  BY DossierAssumption DEF DossierInv, NodesAreKnown
<1>6. PICK hung \in SUBSET DOMAIN node :
               /\ tree = {<<node[m].parent, m>> : m \in hung}
               /\ hung = {e[2] : e \in tree}
               /\ \A e \in tree : e[1] \in hung \union {source}
               /\ \A m : m \in hung <=> HangsBelow(node, m, source)
  <2>1. \E hung : HangsTogether(tree, hung, node, source)
    BY <1>3, <1>4, <1>5, SubtreeIsWhole
  <2> QED
    BY <2>1 DEF HangsTogether
<1>7. IsFiniteSet(hung)
  BY <1>5, <1>6, DossierAssumption, FS_Subset
<1>8. Cardinality(hung) = Cardinality(tree)
  <2>1. PICK f : f = [m \in hung |-> <<node[m].parent, m>>]
    OBVIOUS
  <2>2. f \in [hung -> tree]
    BY <1>6, <2>1
  <2>3. \A m, o \in hung : f[m] = f[o] => m = o
    BY <2>1
  <2>4. \A e \in tree : \E m \in hung : f[m] = e
    BY <1>6, <2>1
  <2>5. f \in Bijection(hung, tree)
    BY <2>2, <2>3, <2>4 DEF Bijection, Injection, Surjection, IsInjective
  <2> QED
    BY <1>7, <2>5, FS_Bijection DEF ExistsBijection
<1>9. Top \in Nat
  BY TopIsNat
<1> DEFINE Between(n) ==
               LET path == Climb(node, n)
               IN  {path[i] : i \in {j \in DOMAIN path : \A k \in 0 .. j : path[k] # report.source}}
<1>10. ASSUME NEW n, NEW k \in 0 .. Top, MeetsAt(node, n, source, k)
       PROVE  Between(n) = {Climb(node, n)[i] : i \in 0 .. k - 1}
  <2>1. PICK path : path = Climb(node, n)
    OBVIOUS
  <2>2. DOMAIN path = 0 .. Top
    BY <2>1, ClimbsUp
  <2>3. path[k] = source /\ \A i \in 0 .. k - 1 : path[i] # source
    BY <1>10, <2>1 DEF MeetsAt
  <2>4. ASSUME NEW j \in 0 .. Top
        PROVE  (\A i \in 0 .. j : path[i] # source) <=> j \in 0 .. k - 1
    <3>1. CASE j \in 0 .. k - 1
      <4>1. 0 .. j \subseteq 0 .. k - 1
        BY <1>9, <3>1
      <4> QED
        BY <2>3, <3>1, <4>1
    <3>2. CASE j \notin 0 .. k - 1
      <4>1. k \in 0 .. j
        BY <1>9, <3>2
      <4> QED
        BY <2>3, <3>2, <4>1
    <3> QED
      BY <3>1, <3>2
  <2>5. {j \in DOMAIN path : \A i \in 0 .. j : path[i] # source} = 0 .. k - 1
    <3>1. 0 .. k - 1 \subseteq 0 .. Top
      BY <1>9
    <3> QED
      BY <2>2, <2>4, <3>1
  <2> QED
    BY <1>2, <2>1, <2>5
<1>11. ASSUME NEW n \in DOMAIN node, n # source
       PROVE  HangsBelow(node, n, source) <=>
                 /\ DescendsFrom(node, n, source)
                 /\ \A m \in Between(n) : IsInternal(node[m].type)
  <2>1. ASSUME HangsBelow(node, n, source)
        PROVE  /\ DescendsFrom(node, n, source)
               /\ \A m \in Between(n) : IsInternal(node[m].type)
    <3>1. PICK k \in 0 .. Top :
             /\ MeetsAt(node, n, source, k)
             /\ \A i \in 0 .. k - 1 : /\ Climb(node, n)[i] \in DOMAIN node
                                      /\ IsInternal(node[Climb(node, n)[i]].type)
      BY <2>1 DEF HangsBelow
    <3>2. DescendsFrom(node, n, source)
      BY <3>1, DescendsMeets
    <3>3. Between(n) = {Climb(node, n)[i] : i \in 0 .. k - 1}
      BY <1>10, <3>1
    <3> HIDE DEF Between
    <3> QED
      BY <3>1, <3>2, <3>3
  <2>2. ASSUME DescendsFrom(node, n, source), \A m \in Between(n) : IsInternal(node[m].type)
        PROVE  HangsBelow(node, n, source)
    <3>1. PICK k \in 0 .. Top : MeetsAt(node, n, source, k)
      BY <2>2, DescendsMeets
    <3>2. Between(n) = {Climb(node, n)[i] : i \in 0 .. k - 1}
      BY <1>10, <3>1
    <3> HIDE DEF Between
    <3>3. ASSUME NEW i \in 0 .. k - 1
          PROVE  /\ Climb(node, n)[i] \in DOMAIN node
                 /\ IsInternal(node[Climb(node, n)[i]].type)
      <4>1. i \in 0 .. k
        BY <1>9
      <4>2. Climb(node, n)[i] \in DOMAIN node
        BY <1>4, <1>5, <3>1, <4>1, MetOnTheWay
      <4> QED
        BY <2>2, <3>2, <4>2
    <3> QED
      BY <1>11, <3>1, <3>3 DEF HangsBelow
  <2> QED
    BY <2>1, <2>2
<1>12. hung = {n \in DOMAIN node \ {source} : /\ DescendsFrom(node, n, source)
                                              /\ \A m \in Between(n) : IsInternal(node[m].type)}
  <2> HIDE DEF Between
  <2>1. \A n : HangsBelow(node, n, source) => n \in DOMAIN node \ {source}
    BY DEF HangsBelow
  <2> QED
    BY <1>6, <1>11, <2>1
<1> QED
  <2>1. {e[2] : e \in report.tree} = hung
    BY <1>2, <1>6
  <2>2. /\ Cardinality({e[2] : e \in report.tree}) = Cardinality(report.tree)
        /\ \A e \in report.tree : e[1] \in {x[2] : x \in report.tree} \union {report.source}
    BY <1>2, <1>6, <1>8, <2>1
  <2>3. {e[2] : e \in report.tree}
          = {n \in DOMAIN node \ {report.source} :
               /\ DescendsFrom(node, n, report.source)
               /\ \A m \in LET path == Climb(node, n)
                           IN  {path[i] : i \in {j \in DOMAIN path :
                                   \A k \in 0 .. j : path[k] # report.source}} :
                     IsInternal(node[m].type)}
    <3>1. hung = {n \in DOMAIN node \ {report.source} :
                     /\ DescendsFrom(node, n, report.source)
                     /\ \A m \in Between(n) : IsInternal(node[m].type)}
      <4> HIDE DEF Between
      <4> QED
        BY <1>2, <1>12
    <3> QED
      BY <2>1, <3>1, Zenon
  <2> QED
    BY <2>2, <2>3, Zenon DEF SubtreeIsATree

\* An assessment calls nothing old current.
LEMMA CurrencyHolds ==
    ASSUME DossierInv
    PROVE  NothingOldIsCalledCurrent
<1>1. SUFFICES ASSUME report.tool = "currency",
                      NEW n \in report.nodes \ {report.gaps[i] : i \in DOMAIN report.gaps}
               PROVE  \/ today - node[n].modified <= Window[node[n].type]
                      \/ /\ Len(report.gaps) = TOP_N
                         /\ \A i \in DOMAIN report.gaps : Priority(report.gaps[i]) >= Priority(n)
  BY DEF NothingOldIsCalledCurrent
<1>2. NodesAreKnown /\ report.nodes \in SUBSET DOMAIN node /\ report.gaps = RankedGaps(report.nodes)
  BY <1>1 DEF DossierInv, ReportIsOfNow
<1>3. \/ ~IsGap(n)
      \/ /\ Len(report.gaps) = TOP_N
         /\ \A i \in DOMAIN report.gaps : Priority(report.gaps[i]) >= Priority(n)
  BY <1>1, <1>2, GapsAreRanked
<1>4. CASE ~IsGap(n)
  <2>1. ~(Age(n) > Window[node[n].type])
    BY <1>4 DEF IsGap, ClassifyStaleness
  <2>2. n \in DOMAIN node
    BY <1>1, <1>2
  <2>3. Age(n) \in Nat /\ today - node[n].modified <= Age(n)
    BY <1>2, <2>2, PriorityIsNat
  <2>4. /\ node[n].type \in Types /\ today \in Nat /\ node[n].modified \in Nat
    BY <1>2, <2>2 DEF NodesAreKnown
  <2>5. Window[node[n].type] \in Nat
    BY <2>4, DossierAssumption
  <2> QED
    BY <2>1, <2>3, <2>4, <2>5
<1> QED
  BY <1>3, <1>4

\* The way of what a step keeps.
LEMMA CurrentKept ==
    ASSUME NodesAreKnown, UNCHANGED <<node, today>>
    PROVE  NodesAreKnown'
BY DEF NodesAreKnown

\* Where nothing is told nothing is claimed.
LEMMA NothingTold ==
    ASSUME report' = NoReport
    PROVE  ReportIsOfNow'
<1>1. report'.tool = "none"
  BY DEF NoReport
<1> QED
  BY <1>1 DEF ReportIsOfNow

\* Where nothing a report is about changes, neither does what it says.
LEMMA ToldAgain ==
    ASSUME UNCHANGED <<node, link, verdictOf, today>>
    PROVE  /\ \A k : KpiDossier(k)' = KpiDossier(k)
           /\ \A nodes : RankedGaps(nodes)' = RankedGaps(nodes)
           /\ \A n : TypeOfNode(n)' = TypeOfNode(n)
           /\ \A n : InternalSubtree(node, n)' = InternalSubtree(node, n)
<1>1. \A n : TypeOfNode(n)' = TypeOfNode(n)
  BY DEF TypeOfNode
<1>2. \A n : InternalSubtree(node, n)' = InternalSubtree(node, n)
  BY Zenon
<1>3. Links' = Links
  BY DEF Links
<1>4. \A k : MeasuredFrom(k)' = MeasuredFrom(k)
  BY <1>3 DEF MeasuredFrom
<1>5. \A k, type : ConfirmedTargets(k, type)' = ConfirmedTargets(k, type)
  BY <1>1, <1>4 DEF ConfirmedTargets
<1>6. \A n : Adjacent(n)' = Adjacent(n)
  BY <1>3 DEF Adjacent
<1>7. \A k : Reachable(k)' = Reachable(k)
  BY <1>6 DEF Reachable
<1>8. \A k : DossierSources(k)' = DossierSources(k)
  BY <1>5, <1>7 DEF DossierSources
<1>9. \A k : UnconfirmedLineage(k)' = UnconfirmedLineage(k)
  BY <1>1, <1>4, <1>5, <1>8 DEF UnconfirmedLineage
<1>10. \A k : PendingLineage(k)' = PendingLineage(k)
  BY DEF PendingLineage, PendingConfirmations
<1>11. \A k, s : DossierContainers(k, s)' = DossierContainers(k, s)
  BY <1>5 DEF DossierContainers
<1>12. \A k, l : HasAnyLabel(k, l)' = HasAnyLabel(k, l)
  BY <1>3 DEF HasAnyLabel
<1>13. \A k : HasProcessEdge(k)' = HasProcessEdge(k)
  BY <1>1, <1>3 DEF HasProcessEdge
<1>14. \A k : KpiDossier(k)' = KpiDossier(k)
  BY <1>7, <1>8, <1>9, <1>10, <1>11, <1>12, <1>13 DEF KpiDossier
<1>15. \A n : LastSeen(n)' = LastSeen(n)
  BY DEF LastSeen, CurrencyEvidence
<1>16. \A n : Age(n)' = Age(n)
  BY <1>15 DEF Age
<1>17. \A n : IsGap(n)' = IsGap(n)
  BY <1>16 DEF IsGap, ClassifyStaleness, Underspecified
<1>18. \A n : CriticalityScore(n)' = CriticalityScore(n)
  BY <1>3, <1>6 DEF CriticalityScore
<1>19. \A n : Priority(n)' = Priority(n)
  BY <1>16, <1>18 DEF Priority, StalenessFactor
<1>20. \A nodes : RankedGaps(nodes)' = RankedGaps(nodes)
  BY <1>17, <1>19 DEF RankedGaps, Sorted
<1> QED
  BY <1>1, <1>2, <1>14, <1>20

-----------------------------------------------------------------------------
(***************************************************************************)
(* What is known of where a KPI comes from: the steps.                     *)
(***************************************************************************)
LEMMA TickStep ==
    ASSUME DossierInv, Tick
    PROVE  DossierInv'
<1>1. NodesAreKnown'
  BY DEF Tick, DossierInv, NodesAreKnown
<1>2. DraftsAreKnown' /\ ConfirmedIsVouched'
  BY DEF Tick, linkVars, DossierInv, DraftsAreKnown, ConfirmedIsVouched
<1> QED
  BY <1>1, <1>2, NothingTold DEF Tick, DossierInv

LEMMA CheckDraftStep ==
    ASSUME DossierInv, NEW p \in Writer, NEW d \in Draft, CheckDraft(p, d)
    PROVE  DossierInv'
<1>1. /\ checked' = checked \/ checked' = [checked EXCEPT ![p] = d]
      /\ report' = NoReport
      /\ UNCHANGED <<node, today, link, verdictOf, vouched, inherited>>
  BY DEF CheckDraft, linkVars
<1>2. DraftsAreKnown'
  BY <1>1 DEF DossierInv, DraftsAreKnown
<1>3. ConfirmedIsVouched'
  BY <1>1 DEF DossierInv, ConfirmedIsVouched
<1> QED
  BY <1>1, <1>2, <1>3, CurrentKept, NothingTold DEF DossierInv

LEMMA UpsertDraftStep ==
    ASSUME DossierInv, NEW p \in Writer, UpsertDraft(p)
    PROVE  DossierInv'
<1>1. PICK d : d = checked[p]
  OBVIOUS
<1>2. /\ d # NoDraft /\ checked' = [checked EXCEPT ![p] = NoDraft] /\ report' = NoReport
      /\ UNCHANGED <<today, link, verdictOf, vouched, inherited>>
  BY <1>1 DEF UpsertDraft, linkVars
<1>3. d \in Draft /\ d.id \in Thing /\ d.type \in Types \union {Keep}
  BY <1>1, <1>2, DossierAssumption DEF DossierInv, DraftsAreKnown
<1>4. DraftsAreKnown'
  BY <1>2 DEF DossierInv, DraftsAreKnown
<1>5. ConfirmedIsVouched'
  BY <1>2 DEF DossierInv, ConfirmedIsVouched
<1> DEFINE known == d.id \in DOMAIN node
           old == IF known THEN node[d.id]
                  ELSE [type |-> "Other", parent |-> NoThing, ranked |-> FALSE, fit |-> FALSE,
                        created |-> today, modified |-> today, baseline |-> Keep]
           row == [type |-> Field(d, "type", old.type),
                   parent |-> Field(d, "parent", old.parent),
                   ranked |-> Field(d, "ranked", old.ranked),
                   fit |-> Field(d, "fit", old.fit),
                   created |-> old.created, modified |-> today,
                   baseline |-> IF d.baseline THEN today ELSE old.baseline]
<1>6. node' = IF ~known /\ d.type = Keep THEN node
              ELSE [m \in DOMAIN node \union {d.id} |-> IF m = d.id THEN row ELSE node[m]]
  BY <1>1, Zenon DEF UpsertDraft
<1>7. /\ today \in Nat /\ DOMAIN node \subseteq Thing
      /\ \A n \in DOMAIN node :
            /\ node[n].type \in Types
            /\ node[n].modified \in Nat /\ node[n].modified <= today
            /\ node[n].baseline # Keep => /\ node[n].baseline \in Nat
                                          /\ node[n].baseline <= node[n].modified
  BY DEF DossierInv, NodesAreKnown
<1>8. /\ old.type \in Types
      /\ old.baseline # Keep => old.baseline \in Nat /\ old.baseline <= today
  <2>1. CASE known
    <3>1. old = node[d.id]
      BY <2>1
    <3>2. /\ node[d.id].type \in Types
          /\ node[d.id].modified \in Nat /\ node[d.id].modified <= today
          /\ node[d.id].baseline # Keep => /\ node[d.id].baseline \in Nat
                                           /\ node[d.id].baseline <= node[d.id].modified
      BY <1>7, <2>1
    <3> HIDE DEF old
    <3> QED
      BY <1>7, <3>1, <3>2
  <2>2. CASE ~known
    <3>1. old.type = "Other" /\ old.baseline = Keep
      BY <2>2
    <3> QED
      BY <3>1 DEF Types
  <2> QED
    BY <2>1, <2>2
<1>9. /\ row.type = Field(d, "type", old.type) /\ row.modified = today
      /\ row.baseline = IF d.baseline THEN today ELSE old.baseline
  OBVIOUS
<1> HIDE DEF old, row, known
<1>10. /\ row.type \in Types
       /\ row.modified \in Nat /\ row.modified <= today
       /\ row.baseline # Keep => row.baseline \in Nat /\ row.baseline <= row.modified
  <2>1. row.type \in Types
    BY <1>3, <1>8, <1>9 DEF Field
  <2> QED
    BY <1>7, <1>8, <1>9, <2>1
<1>11. NodesAreKnown'
  <2>1. CASE node' = node
    BY <1>2, <1>7, <2>1 DEF NodesAreKnown
  <2>2. CASE node' = [m \in DOMAIN node \union {d.id} |-> IF m = d.id THEN row ELSE node[m]]
    <3>1. /\ DOMAIN node' = DOMAIN node \union {d.id}
          /\ \A m \in DOMAIN node' : node'[m] = row \/ (m \in DOMAIN node /\ node'[m] = node[m])
      BY <2>2
    <3>2. DOMAIN node' \subseteq Thing
      BY <1>3, <1>7, <3>1
    <3>3. ASSUME NEW n \in DOMAIN node'
          PROVE  /\ node'[n].type \in Types
                 /\ node'[n].modified \in Nat /\ node'[n].modified <= today
                 /\ node'[n].baseline # Keep => /\ node'[n].baseline \in Nat
                                                /\ node'[n].baseline <= node'[n].modified
      <4>1. CASE node'[n] = row
        BY <1>10, <4>1
      <4>2. CASE n \in DOMAIN node /\ node'[n] = node[n]
        BY <1>7, <4>2
      <4> QED
        BY <3>1, <4>1, <4>2
    <3> QED
      BY <1>2, <1>7, <3>2, <3>3 DEF NodesAreKnown
  <2> QED
    BY <1>6, <2>1, <2>2
<1> QED
  BY <1>2, <1>4, <1>5, <1>11, NothingTold DEF DossierInv

LEMMA DeleteNodeStep ==
    ASSUME DossierInv, NEW n, DeleteNode(n)
    PROVE  DossierInv'
<1>1. /\ node' = [m \in DOMAIN node \ {n} |-> node[m]] /\ report' = NoReport
      /\ UNCHANGED <<checked, today, link, verdictOf, vouched, inherited>>
  BY DEF DeleteNode, linkVars
<1>2. /\ DOMAIN node' \subseteq DOMAIN node
      /\ \A m \in DOMAIN node' : node'[m] = node[m]
  BY <1>1
<1>3. NodesAreKnown'
  BY <1>1, <1>2 DEF DossierInv, NodesAreKnown
<1>4. DraftsAreKnown' /\ ConfirmedIsVouched'
  BY <1>1 DEF DossierInv, DraftsAreKnown, ConfirmedIsVouched
<1> QED
  BY <1>1, <1>3, <1>4, NothingTold DEF DossierInv

\* A write of an edge or of a verdict.
LEMMA LinkWriteKeeps ==
    ASSUME DossierInv, LinkWrite, ConfirmedIsVouched'
    PROVE  DossierInv'
<1>1. report' = NoReport /\ UNCHANGED <<node, checked, today>>
  BY DEF LinkWrite
<1>2. DraftsAreKnown'
  BY <1>1 DEF DossierInv, DraftsAreKnown
<1> QED
  BY <1>1, <1>2, CurrentKept, NothingTold DEF DossierInv

LEMMA AddLinkStep ==
    ASSUME DossierInv, NEW l \in Lineage, NEW status \in {"inferred", "needs-confirmation", "no row"},
           AddLink(l, status)
    PROVE  DossierInv'
<1>1. LinkWrite /\ link' = link \union {l.id} /\ vouched' = vouched \ {l.id} /\ l.id \notin link
  BY DEF AddLink
<1>2. /\ DOMAIN verdictOf = {m.id : m \in Lineage}
      /\ \A i \in DOMAIN verdictOf :
            verdictOf[i] = "confirmed" /\ i \in link => i \in vouched \/ i \in inherited
  BY DEF DossierInv, ConfirmedIsVouched
<1>3. CASE status = "no row"
  <2>1. inherited' = inherited \union {l.id} /\ verdictOf' = verdictOf
    BY <1>3 DEF AddLink
  <2>2. ConfirmedIsVouched'
    BY <1>1, <1>2, <2>1 DEF ConfirmedIsVouched
  <2> QED
    BY <1>1, <2>2, LinkWriteKeeps
<1>4. CASE status # "no row"
  <2>1. inherited' = inherited \ {l.id} /\ verdictOf' = [verdictOf EXCEPT ![l.id] = status]
    BY <1>4 DEF AddLink
  <2>2. /\ DOMAIN verdictOf' = DOMAIN verdictOf
        /\ \A i \in DOMAIN verdictOf : verdictOf'[i] = IF i = l.id THEN status ELSE verdictOf[i]
    BY <2>1
  <2>3. ConfirmedIsVouched'
    BY <1>1, <1>2, <2>1, <2>2 DEF ConfirmedIsVouched
  <2> QED
    BY <1>1, <2>3, LinkWriteKeeps
<1> QED
  BY <1>3, <1>4

LEMMA DropLinkStep ==
    ASSUME DossierInv, NEW l \in Lineage, DropLink(l)
    PROVE  DossierInv'
<1>1. ConfirmedIsVouched'
  BY DEF DropLink, DossierInv, ConfirmedIsVouched
<1> QED
  BY <1>1, LinkWriteKeeps DEF DropLink

LEMMA JudgeStep ==
    ASSUME DossierInv, NEW l \in Lineage, NEW status \in {"confirmed", "invalidated"}, Judge(l, status)
    PROVE  DossierInv'
<1>1. /\ LinkWrite /\ verdictOf' = [verdictOf EXCEPT ![l.id] = status]
      /\ vouched' = IF status = "confirmed" /\ l.id \in link THEN vouched \union {l.id} ELSE vouched
      /\ UNCHANGED <<link, inherited>>
  BY DEF Judge
<1>2. /\ DOMAIN verdictOf = {m.id : m \in Lineage}
      /\ \A i \in DOMAIN verdictOf :
            verdictOf[i] = "confirmed" /\ i \in link => i \in vouched \/ i \in inherited
  BY DEF DossierInv, ConfirmedIsVouched
<1>3. /\ DOMAIN verdictOf' = DOMAIN verdictOf
      /\ \A i \in DOMAIN verdictOf : verdictOf'[i] = IF i = l.id THEN status ELSE verdictOf[i]
  BY <1>1
<1>4. ConfirmedIsVouched'
  BY <1>1, <1>2, <1>3 DEF ConfirmedIsVouched
<1> QED
  BY <1>1, <1>4, LinkWriteKeeps

\* A question.
LEMMA TellStep ==
    ASSUME DossierInv, NEW r, Tell(r),
           r.tool = "dossier" => r.dossier = EmptyDossier \/ r.dossier = KpiDossier(r.kpi),
           r.tool = "internal" => /\ TypeOfNode(r.source) = "DataSource"
                                  /\ r.tree = InternalSubtree(node, r.source),
           r.tool = "currency" => r.nodes \in SUBSET DOMAIN node /\ r.gaps = RankedGaps(r.nodes)
    PROVE  DossierInv'
<1>1. report' = r /\ UNCHANGED <<node, checked, today, link, verdictOf, vouched, inherited>>
  BY DEF Tell, linkVars
<1>2. DraftsAreKnown' /\ ConfirmedIsVouched'
  BY <1>1 DEF DossierInv, DraftsAreKnown, ConfirmedIsVouched
<1>3. /\ \A k : KpiDossier(k)' = KpiDossier(k)
      /\ \A nodes : RankedGaps(nodes)' = RankedGaps(nodes)
      /\ \A n : TypeOfNode(n)' = TypeOfNode(n)
      /\ \A n : InternalSubtree(node, n)' = InternalSubtree(node, n)
  BY <1>1, ToldAgain
<1>4. EmptyDossier' = EmptyDossier
  BY DEF EmptyDossier
<1>5. ReportIsOfNow'
  BY <1>1, <1>3, <1>4 DEF ReportIsOfNow
<1> QED
  BY <1>1, <1>2, <1>5, CurrentKept DEF DossierInv

LEMMA DossierQuestions ==
    ASSUME DossierInv
    PROVE  /\ \A n \in Thing :
                 GetKpiDossier(n) \/ InternalBundle(n) \/ DocBundle(n) \/ ListBelow(n) => DossierInv'
           /\ \A n \in Thing \union {NoThing} : AssessCurrency(n) => DossierInv'
<1>1. ASSUME NEW n \in Thing, GetKpiDossier(n)
      PROVE  DossierInv'
  <2>1. PICK d : d = IF Cardinality(DOMAIN node) > KPI_DOSSIER_NODE_BUDGET
                     THEN EmptyDossier ELSE KpiDossier(n)
    OBVIOUS
  <2>2. PICK r : r = [tool |-> "dossier", kpi |-> n, dossier |-> d]
    OBVIOUS
  <2>3. Tell(r)
    BY <1>1, <2>1, <2>2 DEF GetKpiDossier
  <2>4. r.tool = "dossier" /\ r.kpi = n /\ (r.dossier = EmptyDossier \/ r.dossier = KpiDossier(n))
    BY <2>1, <2>2
  <2> QED
    BY <2>3, <2>4, TellStep
<1>2. ASSUME NEW n \in Thing, InternalBundle(n)
      PROVE  DossierInv'
  <2>1. PICK r : r = [tool |-> "internal", source |-> n, tree |-> InternalSubtree(node, n)]
    OBVIOUS
  <2>2. Tell(r) /\ TypeOfNode(n) = "DataSource"
    BY <1>2, <2>1 DEF InternalBundle
  <2>3. r.tool = "internal" /\ r.source = n /\ r.tree = InternalSubtree(node, n)
    BY <2>1
  <2> QED
    BY <2>2, <2>3, TellStep
<1>3. ASSUME NEW n \in Thing, DocBundle(n)
      PROVE  DossierInv'
  <2>1. PICK r : Tell(r) /\ r.tool = "documentation"
    BY <1>3 DEF DocBundle
  <2> QED
    BY <2>1, TellStep
<1>4. ASSUME NEW n \in Thing, ListBelow(n)
      PROVE  DossierInv'
  <2>1. PICK r : Tell(r) /\ r.tool = "list"
    BY <1>4 DEF ListBelow
  <2> QED
    BY <2>1, TellStep
<1>5. ASSUME NEW n \in Thing \union {NoThing}, AssessCurrency(n)
      PROVE  DossierInv'
  <2>1. PICK nodes : nodes = ScopedNodes(n)
    OBVIOUS
  <2>2. nodes \in SUBSET DOMAIN node
    BY <2>1 DEF ScopedNodes
  <2>3. PICK r : r = [tool |-> "currency", nodes |-> nodes, gaps |-> RankedGaps(nodes)]
    OBVIOUS
  <2>4. Tell(r)
    BY <1>5, <2>1, <2>3 DEF AssessCurrency
  <2>5. r.tool = "currency" /\ r.nodes = nodes /\ r.gaps = RankedGaps(nodes)
    BY <2>3
  <2> QED
    BY <2>2, <2>4, <2>5, TellStep
<1> QED
  BY <1>1, <1>2, <1>3, <1>4, <1>5

LEMMA DossierBegins ==
    ASSUME DossierInit
    PROVE  DossierInv
<1>1. NodesAreKnown
  BY DossierAssumption DEF DossierInit, NodesAreKnown
<1>2. DraftsAreKnown
  BY DEF DossierInit, DraftsAreKnown
<1>3. verdictOf = [i \in {l.id : l \in Lineage} |->
                      IF i \in link THEN "needs-confirmation" ELSE "none"]
  BY DEF DossierInit
<1>4. ConfirmedIsVouched
  BY <1>3 DEF ConfirmedIsVouched
<1>5. report.tool = "none"
  BY DEF DossierInit, NoReport
<1>6. ReportIsOfNow
  BY <1>5 DEF ReportIsOfNow
<1> QED
  BY <1>1, <1>2, <1>4, <1>6 DEF DossierInv

LEMMA DossierStep ==
    ASSUME DossierInv, [DossierNext]_dossierVars
    PROVE  DossierInv'
<1>1. CASE UNCHANGED dossierVars
  <2>1. UNCHANGED <<node, link, verdictOf, checked, today, report, vouched, inherited>>
    BY <1>1 DEF dossierVars
  <2>2. DraftsAreKnown' /\ ConfirmedIsVouched'
    BY <2>1 DEF DossierInv, DraftsAreKnown, ConfirmedIsVouched
  <2>3. /\ \A k : KpiDossier(k)' = KpiDossier(k)
        /\ \A nodes : RankedGaps(nodes)' = RankedGaps(nodes)
        /\ \A n : TypeOfNode(n)' = TypeOfNode(n)
        /\ \A n : InternalSubtree(node, n)' = InternalSubtree(node, n)
    BY <2>1, ToldAgain
  <2>4. EmptyDossier' = EmptyDossier
    BY DEF EmptyDossier
  <2>5. ReportIsOfNow'
    BY <2>1, <2>3, <2>4 DEF DossierInv, ReportIsOfNow
  <2> QED
    BY <2>1, <2>2, <2>5, CurrentKept DEF DossierInv
<1>2. CASE DossierNext
  BY <1>2, TickStep, CheckDraftStep, UpsertDraftStep, DeleteNodeStep, AddLinkStep, DropLinkStep,
     JudgeStep, DossierQuestions DEF DossierNext
<1> QED
  BY <1>1, <1>2

\* The reports about a graph of any size (verify/source_dossier.py,
\* verify/currency.py, mcp/tools.py _build_internal_bundle): a dossier shows as lineage
\* only what was confirmed and accounts for every edge the KPI is measured by,
\* the bundle below a source is a tree whatever cycles the parents of other nodes
\* make, and nothing that is older than its window is passed over as current.
THEOREM DossierSoundness == DossierSpec => []DossierIsSound
<1>1. DossierInit => DossierInv
  BY DossierBegins
<1>2. DossierInv /\ [DossierNext]_dossierVars => DossierInv'
  BY DossierStep
<1>3. DossierInv => DossierIsSound
  BY LineageHolds, LineageIsWhole, TreeHolds, CurrencyHolds DEF DossierIsSound
<1> QED
  BY <1>1, <1>2, <1>3, PTL DEF DossierSpec

(***************************************************************************)
(* 2 Paging.                                                               *)
(*                                                                         *)
(* A walk by cursor: everything that matches and was there all along is    *)
(* behind the cursor and has been shown, or is ahead of it, or was cut off *)
(* by a ranked page, which drops at most one row (NothingIsBehind,         *)
(* CutsAreFew).  A listing by offset: what was there all along and has not *)
(* been shown has its place at or after the offset, because entries are    *)
(* only added while the listing goes on (NothingIsSkipped).                *)
(***************************************************************************)

EdgeOrder(Q) == {p \in Q \X Q : ByLabel(p[1], p[2])}

LEMMA RowsOfTable ==
    /\ IsFiniteSet(EdgeRow) /\ NoEdge \notin EdgeRow
    /\ \A e \in EdgeRow : e.label \in Nat /\ e.id \in Nat
    /\ \A d, e \in EdgeRow : d.label = e.label /\ d.id = e.id => d = e
<1>1. IsFiniteSet(Label \X Edge)
  BY PagingAssumption, FS_Product
<1>2. PICK f : f = [p \in Label \X Edge |-> [label |-> p[1], id |-> p[2]]]
  OBVIOUS
<1>3. f \in Surjection(Label \X Edge, EdgeRow)
  <2>1. f \in [Label \X Edge -> EdgeRow]
    BY <1>2 DEF EdgeRow
  <2>2. ASSUME NEW e \in EdgeRow
        PROVE  \E p \in Label \X Edge : f[p] = e
    <3>1. PICK p : p = <<e.label, e.id>>
      OBVIOUS
    <3>2. p \in Label \X Edge /\ p[1] = e.label /\ p[2] = e.id
      BY <3>1 DEF EdgeRow
    <3>3. e = [label |-> e.label, id |-> e.id]
      BY DEF EdgeRow
    <3> QED
      BY <1>2, <3>2, <3>3
  <2> QED
    BY <2>1, <2>2 DEF Surjection
<1>4. IsFiniteSet(EdgeRow)
  BY <1>1, <1>3, FS_Surjection
<1>5. NoEdge \notin EdgeRow
  BY PagingAssumption DEF NoEdge, EdgeRow
<1>6. \A e \in EdgeRow : e.label \in Nat /\ e.id \in Nat
  BY PagingAssumption DEF EdgeRow
<1>7. \A d, e \in EdgeRow : d.label = e.label /\ d.id = e.id => d = e
  BY DEF EdgeRow
<1> QED
  BY <1>4, <1>5, <1>6, <1>7

LEMMA ByLabelIsOrder ==
    /\ \A d \in EdgeRow : ~ByLabel(d, d)
    /\ \A c, d, e \in EdgeRow : ByLabel(c, d) /\ ByLabel(d, e) => ByLabel(c, e)
    /\ \A d, e \in EdgeRow : d # e => ByLabel(d, e) \/ ByLabel(e, d)
<1>1. \A e \in EdgeRow : e.label \in Nat /\ e.id \in Nat
  BY RowsOfTable
<1>2. ASSUME NEW d \in EdgeRow
      PROVE  ~ByLabel(d, d)
  BY <1>1 DEF ByLabel
<1>3. ASSUME NEW c \in EdgeRow, NEW d \in EdgeRow, NEW e \in EdgeRow, ByLabel(c, d), ByLabel(d, e)
      PROVE  ByLabel(c, e)
  <2>1. /\ c.label \in Nat /\ d.label \in Nat /\ e.label \in Nat
        /\ c.id \in Nat /\ d.id \in Nat /\ e.id \in Nat
    BY <1>1
  <2> QED
    BY <1>3, <2>1 DEF ByLabel
<1>4. ASSUME NEW d \in EdgeRow, NEW e \in EdgeRow, d # e
      PROVE  ByLabel(d, e) \/ ByLabel(e, d)
  <2>1. d.label \in Nat /\ e.label \in Nat /\ d.id \in Nat /\ e.id \in Nat
    BY <1>1
  <2>2. d.label # e.label \/ d.id # e.id
    BY <1>4, RowsOfTable
  <2> QED
    BY <2>1, <2>2 DEF ByLabel
<1> QED
  BY <1>2, <1>3, <1>4

LEMMA EdgeOrderIsOrder ==
    ASSUME NEW Q \in SUBSET EdgeRow
    PROVE  /\ IsFiniteSet(Q) /\ StrictOrder(Q, EdgeOrder(Q))
           /\ \A d, e \in Q : <<d, e>> \in EdgeOrder(Q) <=> ByLabel(d, e)
<1>1. IsFiniteSet(Q)
  BY RowsOfTable, FS_Subset
<1>2. ASSUME NEW d \in Q, NEW e \in Q
      PROVE  <<d, e>> \in EdgeOrder(Q) <=> ByLabel(d, e)
  BY DEF EdgeOrder
<1>3. StrictOrder(Q, EdgeOrder(Q))
  BY <1>2, ByLabelIsOrder DEF StrictOrder
<1> QED
  BY <1>1, <1>2, <1>3

Matching(f, after) == {e \in DOMAIN table : Matches(f, e) /\ (after # NoEdge => ByLabel(after, e))}

TableOK ==
    /\ DOMAIN table \subseteq EdgeRow /\ IdsAreUnique(DOMAIN table)
    /\ \A e \in DOMAIN table : table[e] \in Quality

\* The rows fetched: at most limit + 1 of the matching ones, in order.
LEMMA QueryBegins ==
    ASSUME TableOK, NEW f, NEW after, NEW limit \in Nat, NEW Q, Q = Matching(f, after),
           NEW rows, rows = QueryEdges(f, after, limit)
    PROVE  Q \in SUBSET EdgeRow /\ \E n : BeginsInOrder(rows, n, Q, EdgeOrder(Q), limit + 1)
<1>1. Q \in SUBSET EdgeRow
  BY DEF Matching, TableOK
<1>2. IsFiniteSet(Q) /\ StrictOrder(Q, EdgeOrder(Q))
  BY <1>1, EdgeOrderIsOrder
<1>3. PICK s : s = InOrder(Q, EdgeOrder(Q))
  OBVIOUS
<1>4. rows = SubSeq(s, 1, Smaller(limit + 1, Len(s)))
  BY <1>3, Zenon DEF QueryEdges, Sorted, EdgeOrder, Matching
<1>5. Len(s) \in Nat
  BY <1>2, <1>3, OrderedSequence DEF InPlaces
<1>6. PICK n : n = IF limit + 1 < Len(s) THEN limit + 1 ELSE Len(s)
  OBVIOUS
<1>7. Smaller(limit + 1, Len(s)) = n
  BY <1>5, <1>6 DEF Smaller
<1>8. rows = SubSeq(s, 1, n)
  BY <1>4, <1>7, Zenon
<1>10. limit + 1 \in Nat
  OBVIOUS
<1>9. BeginsInOrder(rows, n, Q, EdgeOrder(Q), limit + 1)
  BY <1>2, <1>3, <1>6, <1>8, <1>10, OrderedBeginning
<1> QED
  BY <1>1, <1>9

-----------------------------------------------------------------------------
\* A ranked page holds the rows fetched, in some order.
SameElements(s, t, n, Q) ==
    /\ s \in Seq(Q) /\ Len(s) = n /\ DOMAIN s = 1 .. n
    /\ \A i \in 1 .. n : \E j \in 1 .. n : s[i] = t[j]
    /\ \A j \in 1 .. n : \E i \in 1 .. n : s[i] = t[j]

LEMMA OrderedIsSame ==
    ASSUME NEW Q, NEW n \in Nat, NEW rows \in Seq(Q), Len(rows) = n,
           \A i, j \in 1 .. n : i # j => rows[i] # rows[j],
           NEW R, StrictOrder(ToSet(rows), R)
    PROVE  SameElements(InOrder(ToSet(rows), R), rows, n, Q)
<1>1. PICK S : S = ToSet(rows)
  OBVIOUS
<1>2. DOMAIN rows = 1 .. n
  OBVIOUS
<1>3. S = {rows[i] : i \in 1 .. n}
  BY <1>1, <1>2 DEF ToSet
<1>4. S \in SUBSET Q
  BY <1>2, <1>3
<1>5. PICK f : f = [i \in 1 .. n |-> rows[i]]
  OBVIOUS
<1>6. f \in Bijection(1 .. n, S)
  <2>1. f \in [1 .. n -> S]
    BY <1>3, <1>5
  <2>2. \A i, j \in 1 .. n : f[i] = f[j] => i = j
    BY <1>5
  <2>3. \A e \in S : \E i \in 1 .. n : f[i] = e
    BY <1>3, <1>5
  <2> QED
    BY <2>1, <2>2, <2>3 DEF Bijection, Injection, Surjection, IsInjective
<1>7. ExistsBijection(1 .. n, S)
  BY <1>6 DEF ExistsBijection
<1>8. IsFiniteSet(S) /\ Cardinality(S) = n
  BY <1>7, FS_CountingElements, FS_NatBijection
<1>9. PICK s : s = InOrder(S, R)
  OBVIOUS
<1>10. StrictOrder(S, R)
  BY <1>1
<1>11. /\ s \in Seq(S) /\ Len(s) = n /\ DOMAIN s = 1 .. n
       /\ \A i \in 1 .. n : s[i] \in S
       /\ \A e \in S : Place(S, R, e) + 1 \in 1 .. n /\ s[Place(S, R, e) + 1] = e
  BY <1>8, <1>9, <1>10, OrderedSequence DEF InPlaces
<1>12. s \in Seq(Q)
  BY <1>4, <1>11
<1>13. \A i \in 1 .. n : \E j \in 1 .. n : s[i] = rows[j]
  BY <1>3, <1>11
<1>14. \A j \in 1 .. n : \E i \in 1 .. n : s[i] = rows[j]
  BY <1>3, <1>11
<1> QED
  BY <1>1, <1>9, <1>11, <1>12, <1>13, <1>14 DEF SameElements

\* What is compared of two edges, by either ranking, are numbers.
LEMMA WeightIsNat ==
    ASSUME TableOK, NEW e \in DOMAIN table
    PROVE  e.id \in Nat /\ e.label \in Nat /\ Evidence(e) \in Nat
           /\ Weight(e, 0) \in Nat /\ Weight(e, 10) \in Nat
<1>1. e \in EdgeRow /\ table[e] \in Quality
  BY DEF TableOK
<1>2. e.id \in Nat /\ e.label \in Nat
  BY <1>1, RowsOfTable
<1>3. table[e].evidence \in Nat /\ table[e].weight \in Nat \union {NoWeight}
  BY <1>1, PagingAssumption
<1> QED
  BY <1>2, <1>3 DEF Evidence, Weight

LEMMA EvidenceFirstIsOrder ==
    ASSUME TableOK, NEW S \in SUBSET DOMAIN table
    PROVE  StrictOrder(S, {p \in S \X S : EvidenceFirst(p[1], p[2])})
<1>1. PICK R : R = {p \in S \X S : EvidenceFirst(p[1], p[2])}
  OBVIOUS
<1>2. ASSUME NEW d \in S, NEW e \in S
      PROVE  <<d, e>> \in R <=> EvidenceFirst(d, e)
  BY <1>1
<1>3. \A e \in S : e.id \in Nat /\ Evidence(e) \in Nat /\ Weight(e, 0) \in Nat
  BY WeightIsNat
<1>4. \A d \in S : <<d, d>> \notin R
  BY <1>2, <1>3 DEF EvidenceFirst
<1>5. ASSUME NEW c \in S, NEW d \in S, NEW e \in S, <<c, d>> \in R, <<d, e>> \in R
      PROVE  <<c, e>> \in R
  <2>1. EvidenceFirst(c, d) /\ EvidenceFirst(d, e)
    BY <1>2, <1>5
  <2>2. /\ c.id \in Nat /\ Evidence(c) \in Nat /\ Weight(c, 0) \in Nat
        /\ d.id \in Nat /\ Evidence(d) \in Nat /\ Weight(d, 0) \in Nat
        /\ e.id \in Nat /\ Evidence(e) \in Nat /\ Weight(e, 0) \in Nat
    BY <1>3
  <2>3. EvidenceFirst(c, e)
    BY <2>1, <2>2 DEF EvidenceFirst
  <2> QED
    BY <1>2, <2>3
<1>6. ASSUME NEW d \in S, NEW e \in S, d # e
      PROVE  <<d, e>> \in R \/ <<e, d>> \in R
  <2>1. /\ d.id \in Nat /\ Evidence(d) \in Nat /\ Weight(d, 0) \in Nat
        /\ e.id \in Nat /\ Evidence(e) \in Nat /\ Weight(e, 0) \in Nat
    BY <1>3
  <2>2. d.id # e.id
    BY <1>6 DEF TableOK, IdsAreUnique
  <2>3. EvidenceFirst(d, e) \/ EvidenceFirst(e, d)
    BY <2>1, <2>2 DEF EvidenceFirst
  <2> QED
    BY <1>2, <2>3
<1> QED
  BY <1>1, <1>4, <1>5, <1>6 DEF StrictOrder

LEMMA WeakestFirstIsOrder ==
    ASSUME TableOK, NEW S \in SUBSET DOMAIN table
    PROVE  StrictOrder(S, {p \in S \X S : WeakestFirst(p[1], p[2])})
<1>1. PICK R : R = {p \in S \X S : WeakestFirst(p[1], p[2])}
  OBVIOUS
<1>2. ASSUME NEW d \in S, NEW e \in S
      PROVE  <<d, e>> \in R <=> WeakestFirst(d, e)
  BY <1>1
<1>3. \A e \in S : e.id \in Nat /\ e.label \in Nat /\ Weight(e, 10) \in Nat
  BY WeightIsNat
<1>4. \A d \in S : <<d, d>> \notin R
  BY <1>2, <1>3 DEF WeakestFirst
<1>5. ASSUME NEW c \in S, NEW d \in S, NEW e \in S, <<c, d>> \in R, <<d, e>> \in R
      PROVE  <<c, e>> \in R
  <2>1. WeakestFirst(c, d) /\ WeakestFirst(d, e)
    BY <1>2, <1>5
  <2>2. /\ c.id \in Nat /\ c.label \in Nat /\ Weight(c, 10) \in Nat
        /\ d.id \in Nat /\ d.label \in Nat /\ Weight(d, 10) \in Nat
        /\ e.id \in Nat /\ e.label \in Nat /\ Weight(e, 10) \in Nat
    BY <1>3
  <2>3. WeakestFirst(c, e)
    BY <2>1, <2>2 DEF WeakestFirst
  <2> QED
    BY <1>2, <2>3
<1>6. ASSUME NEW d \in S, NEW e \in S, d # e
      PROVE  <<d, e>> \in R \/ <<e, d>> \in R
  <2>1. /\ d.id \in Nat /\ d.label \in Nat /\ Weight(d, 10) \in Nat
        /\ e.id \in Nat /\ e.label \in Nat /\ Weight(e, 10) \in Nat
    BY <1>3
  <2>2. d.id # e.id
    BY <1>6 DEF TableOK, IdsAreUnique
  <2>3. WeakestFirst(d, e) \/ WeakestFirst(e, d)
    BY <2>1, <2>2 DEF WeakestFirst
  <2> QED
    BY <1>2, <2>3
<1> QED
  BY <1>1, <1>4, <1>5, <1>6 DEF StrictOrder

LEMMA RankIsSame ==
    ASSUME TableOK, NEW Q \in SUBSET DOMAIN table, NEW n \in Nat, NEW rows \in Seq(Q), Len(rows) = n,
           \A i, j \in 1 .. n : i # j => rows[i] # rows[j], NEW mode
    PROVE  SameElements(Rank(rows, mode), rows, n, Q)
<1>1. DOMAIN rows = 1 .. n
  OBVIOUS
<1>2. ToSet(rows) \in SUBSET DOMAIN table
  BY <1>1 DEF ToSet
<1>3. CASE mode = "evidence_ranked"
  <2>1. PICK R : R = {p \in ToSet(rows) \X ToSet(rows) : EvidenceFirst(p[1], p[2])}
    OBVIOUS
  <2>2. StrictOrder(ToSet(rows), R)
    BY <1>2, <2>1, EvidenceFirstIsOrder
  <2>3. Rank(rows, mode) = Sorted(ToSet(rows), EvidenceFirst)
    BY <1>3 DEF Rank
  <2>4. Rank(rows, mode) = InOrder(ToSet(rows), R)
    BY <2>1, <2>3, Zenon DEF Sorted
  <2> QED
    BY <2>2, <2>4, OrderedIsSame
<1>4. CASE mode = "calibration"
  <2>1. PICK R : R = {p \in ToSet(rows) \X ToSet(rows) : WeakestFirst(p[1], p[2])}
    OBVIOUS
  <2>2. StrictOrder(ToSet(rows), R)
    BY <1>2, <2>1, WeakestFirstIsOrder
  <2>3. Rank(rows, mode) = Sorted(ToSet(rows), WeakestFirst)
    BY <1>4 DEF Rank
  <2>4. Rank(rows, mode) = InOrder(ToSet(rows), R)
    BY <2>1, <2>3, Zenon DEF Sorted
  <2> QED
    BY <2>2, <2>4, OrderedIsSame
<1>5. CASE mode \notin {"evidence_ranked", "calibration"}
  <2>1. Rank(rows, mode) = rows
    BY <1>5 DEF Rank
  <2> QED
    BY <1>1, <2>1 DEF SameElements
<1> QED
  BY <1>3, <1>4, <1>5

-----------------------------------------------------------------------------
IsRanked(mode) == mode \in {"evidence_ranked", "calibration"}

\* What an answer is to the edges Q that match and come after the cursor.
Answers(page, rows, next, Q, limit, mode) ==
    /\ page \in Seq(Q)
    /\ ToSet(page) \subseteq Q /\ ToSet(rows) \subseteq Q
    /\ next = NoEdge => Q \subseteq ToSet(page)
    /\ next # NoEdge =>
         /\ next \in ToSet(page)
         /\ \A e \in Q : e \in ToSet(rows) \/ ByLabel(next, e)
         /\ \E x \in Q : ToSet(rows) \ ToSet(page) \subseteq {x}
    /\ ~IsRanked(mode) =>
         /\ \A i, j \in DOMAIN page : i < j => ByLabel(page[i], page[j])
         /\ next # NoEdge => /\ \A e \in ToSet(rows) : e \in ToSet(page) \/ ByLabel(next, e)
                             /\ \A e \in ToSet(page) : e = next \/ ByLabel(e, next)

LEMMA SnapshotAnswers ==
    ASSUME TableOK, NEW f, NEW after, NEW limit \in Nat, limit >= 1, NEW mode,
           NEW Q, Q = Matching(f, after), NEW a, a = EdgeSnapshot(f, after, limit, mode)
    PROVE  Q \in SUBSET EdgeRow /\ Answers(a.page, a.rows, a.next, Q, limit, mode)
<1>1. PICK rows : rows = QueryEdges(f, after, limit)
  OBVIOUS
<1>2. Q \in SUBSET EdgeRow
  BY <1>1, QueryBegins
<1>3. PICK n : BeginsInOrder(rows, n, Q, EdgeOrder(Q), limit + 1)
  BY <1>1, QueryBegins
<1>4. /\ n \in Nat /\ n <= limit + 1 /\ rows \in Seq(Q) /\ Len(rows) = n /\ DOMAIN rows = 1 .. n
      /\ \A i \in 1 .. n : rows[i] \in Q
      /\ \A i, j \in 1 .. n : i < j <=> <<rows[i], rows[j]>> \in EdgeOrder(Q)
      /\ \A e \in Q : (\E i \in 1 .. n : rows[i] = e) \/
                     (n = limit + 1 /\ \A i \in 1 .. n : <<rows[i], e>> \in EdgeOrder(Q))
  BY <1>3 DEF BeginsInOrder
<1>5. \A d, e \in Q : <<d, e>> \in EdgeOrder(Q) <=> ByLabel(d, e)
  BY <1>2, EdgeOrderIsOrder
<1>6. \A i, j \in 1 .. n : i < j <=> ByLabel(rows[i], rows[j])
  BY <1>4, <1>5
<1>7. \A e \in Q : (\E i \in 1 .. n : rows[i] = e) \/
                  (n = limit + 1 /\ \A i \in 1 .. n : ByLabel(rows[i], e))
  BY <1>4, <1>5
<1>8. \A i, j \in 1 .. n : i # j => rows[i] # rows[j]
  BY <1>4, <1>6
<1>9. PICK ordered : ordered = Rank(rows, mode)
  OBVIOUS
<1>10. Q \in SUBSET DOMAIN table
  BY DEF Matching
<1>11. SameElements(ordered, rows, n, Q)
  BY <1>4, <1>8, <1>9, <1>10, RankIsSame
<1>12. /\ ordered \in Seq(Q) /\ Len(ordered) = n /\ DOMAIN ordered = 1 .. n
       /\ \A i \in 1 .. n : \E j \in 1 .. n : ordered[i] = rows[j]
       /\ \A j \in 1 .. n : \E i \in 1 .. n : ordered[i] = rows[j]
  BY <1>11 DEF SameElements
<1>13. PICK m : m = Smaller(limit, n)
  OBVIOUS
<1>14. m \in Nat /\ m = (IF limit <= n THEN limit ELSE n)
  BY <1>4, <1>13 DEF Smaller
<1>15. PICK page : page = SubSeq(ordered, 1, m)
  OBVIOUS
<1>16. page \in Seq(Q) /\ Len(page) = m /\ DOMAIN page = 1 .. m /\ \A i \in 1 .. m : page[i] = ordered[i]
  <2>1. m <= Len(ordered) /\ \A i \in 1 .. m : i \in 1 .. Len(ordered)
    BY <1>4, <1>12, <1>14
  <2>2. ordered \in Seq(Q)
    BY <1>12
  <2> QED
    BY <1>14, <1>15, <2>1, <2>2
<1>17. a = [page |-> page, rows |-> rows, next |-> IF n > limit THEN Last(page) ELSE NoEdge]
  <2>1. page = SubSeq(Rank(rows, mode), 1, Smaller(limit, Len(Rank(rows, mode))))
    BY <1>9, <1>12, <1>13, <1>15, Zenon
  <2>2. a = [page |-> page, rows |-> rows,
             next |-> IF Len(Rank(rows, mode)) > limit THEN Last(page) ELSE NoEdge]
    BY <1>1, <2>1, Zenon DEF EdgeSnapshot
  <2> QED
    BY <1>9, <1>12, <2>2, Zenon
<1>18. PICK next : next = a.next
  OBVIOUS
<1>19. ToSet(page) = {page[i] : i \in 1 .. m} /\ ToSet(rows) = {rows[i] : i \in 1 .. n}
  BY <1>4, <1>16, Zenon DEF ToSet
<1>20. ToSet(page) \subseteq ToSet(rows) /\ ToSet(rows) \subseteq Q
  <2>1. \A i \in 1 .. m : \E j \in 1 .. n : page[i] = rows[j]
    BY <1>4, <1>12, <1>14, <1>16
  <2> QED
    BY <1>4, <1>19, <2>1
<1>21. CASE n <= limit
  <2>1. next = NoEdge
    BY <1>4, <1>17, <1>18, <1>21
  <2>2. m = n
    BY <1>4, <1>14, <1>21
  <2>3. \A e \in Q : \E i \in 1 .. n : rows[i] = e
    BY <1>4, <1>7, <1>21
  <2>4. ASSUME NEW e \in Q
        PROVE  e \in ToSet(page)
    <3>1. PICK j \in 1 .. n : rows[j] = e
      BY <2>3
    <3>2. PICK i \in 1 .. n : ordered[i] = rows[j]
      BY <1>12
    <3>3. i \in 1 .. m /\ page[i] = e
      BY <1>16, <2>2, <3>1, <3>2
    <3> QED
      BY <1>19, <3>3
  <2>5. ASSUME ~IsRanked(mode)
        PROVE  \A i, j \in DOMAIN page : i < j => ByLabel(page[i], page[j])
    <3>1. ordered = rows
      BY <1>9, <2>5 DEF Rank, IsRanked
    <3> QED
      BY <1>6, <1>16, <2>2, <3>1
  <2>6. Answers(page, rows, next, Q, limit, mode)
    BY <1>16, <1>20, <2>1, <2>4, <2>5 DEF Answers
  <2> QED
    BY <1>2, <1>17, <1>18, <2>6
<1>22. CASE n > limit
  <2>1. n = limit + 1 /\ m = limit
    BY <1>4, <1>14, <1>22
  <2>2. next = page[m]
    <3>1. next = Last(page)
      BY <1>17, <1>18, <1>22
    <3> QED
      BY <1>16, <3>1 DEF Last
  <2>3. next \in ToSet(page) /\ next \in Q
    BY <1>16, <1>19, <1>20, <2>1, <2>2
  <2>4. next # NoEdge
    BY <1>2, <2>3, RowsOfTable
  <2>5. \A e \in Q : e \in ToSet(rows) \/ ByLabel(next, e)
    BY <1>7, <1>19, <1>20, <2>3
  <2>6. ToSet(rows) \ ToSet(page) \subseteq {ordered[n]}
    <3>1. \A i \in 1 .. n : i \in 1 .. m \/ i = n
      BY <1>4, <2>1
    <3>2. ASSUME NEW e \in ToSet(rows)
          PROVE  \E i \in 1 .. n : ordered[i] = e
      <4>1. PICK j \in 1 .. n : rows[j] = e
        BY <1>19
      <4>2. \E i \in 1 .. n : ordered[i] = rows[j]
        BY <1>12
      <4> QED
        BY <4>1, <4>2, Zenon
    <3> QED
      BY <1>16, <1>19, <3>1, <3>2
  <2>7. ordered[n] \in Q
    BY <1>12, <1>4, <2>1
  <2>8. ASSUME ~IsRanked(mode)
        PROVE  /\ \A i, j \in DOMAIN page : i < j => ByLabel(page[i], page[j])
               /\ \A e \in ToSet(rows) : e \in ToSet(page) \/ ByLabel(next, e)
               /\ \A e \in ToSet(page) : e = next \/ ByLabel(e, next)
    <3>1. ordered = rows
      BY <1>9, <2>8 DEF Rank, IsRanked
    <3>2. \A i \in 1 .. m : page[i] = rows[i] /\ i \in 1 .. n
      BY <1>4, <1>16, <2>1, <3>1
    <3>3. \A i, j \in DOMAIN page : i < j => ByLabel(page[i], page[j])
      BY <1>6, <1>16, <3>2
    <3>4. ByLabel(next, rows[n])
      BY <1>6, <2>1, <2>2, <3>2, <1>4
    <3>5. \A e \in ToSet(rows) : e \in ToSet(page) \/ ByLabel(next, e)
      BY <2>6, <3>1, <3>4
    <3>6. ASSUME NEW e \in ToSet(page)
          PROVE  e = next \/ ByLabel(e, next)
      <4>1. PICK i \in 1 .. m : page[i] = e
        BY <1>19
      <4>2. i = m \/ (i < m /\ m \in 1 .. m)
        BY <1>14
      <4> QED
        BY <1>16, <2>2, <3>3, <4>1, <4>2
    <3> QED
      BY <3>3, <3>5, <3>6
  <2>9. Answers(page, rows, next, Q, limit, mode)
    <3>1. \E x \in Q : ToSet(rows) \ ToSet(page) \subseteq {x}
      BY <2>6, <2>7
    <3> QED
      BY <1>16, <1>20, <2>3, <2>4, <2>5, <2>8, <3>1 DEF Answers
  <2> QED
    BY <1>2, <1>17, <1>18, <2>9
<1> QED
  BY <1>4, <1>21, <1>22

-----------------------------------------------------------------------------
\* The inductive invariant of the walk by cursor.
WalkIsTyped ==
    walk \in [state : {"none", "open", "done"}, filter : Filter \union {NoWalk.filter},
              after : EdgeRow \union {NoEdge}, shown : Seq(Seq(EdgeRow)), cut : SUBSET EdgeRow,
              steady : SUBSET EdgeRow, ranked : BOOLEAN]

\* A cursor is there exactly while the walk is open.
CursorIsThere ==
    /\ walk.state = "none" => /\ walk.after = NoEdge /\ walk.shown = <<>>
                              /\ walk.cut = {} /\ walk.steady = {}
    /\ walk.state = "open" => walk.after \in EdgeRow
    /\ walk.steady \subseteq DOMAIN table

\* What was there all along is shown, was cut, or comes after the cursor.
NothingIsBehind ==
    \A e \in walk.steady :
        Matches(walk.filter, e) =>
            \/ e \in Shown \/ e \in walk.cut
            \/ walk.state # "done" /\ ByLabel(walk.after, e)

\* Each page but the last cuts at most one edge.
CutsAreFew ==
    /\ Cardinality(walk.cut) <= Len(walk.shown)
    /\ walk.state = "done" => Cardinality(walk.cut) < Len(walk.shown)

\* In the order of the table the cursor is the last edge shown, and nothing is cut.
CursorIsLast ==
    InTableOrder =>
        /\ walk.cut = {}
        /\ walk.state = "open" => \A e \in Shown : e = walk.after \/ ByLabel(e, walk.after)

WalkInv ==
    /\ TableOK /\ WalkIsTyped /\ CursorIsThere /\ NothingIsBehind
    /\ CutsAreFew /\ CursorIsLast /\ PagesGoForward

\* The inductive invariant of the listing by offset.
NumberOrder(E) == {p \in E \X E : p[1] < p[2]}

ListingIsTyped ==
    /\ entries \subseteq Entry
    /\ listing \in [state : {"none", "open", "done"}, offset : Nat, shown : Seq(Entry),
                    steady : SUBSET Entry, removed : BOOLEAN]

\* What was there all along is shown, or has not been reached.
NothingIsSkipped ==
    /\ listing.state = "none" => listing.offset = 0 /\ listing.steady = {} /\ listing.shown = <<>>
    /\ ~listing.removed /\ listing.state = "open" =>
         /\ listing.steady \subseteq entries
         /\ \A x \in listing.steady :
                \/ x \in ToSet(listing.shown)
                \/ Place(entries, NumberOrder(entries), x) >= listing.offset

ListingInv == ListingIsTyped /\ NothingIsSkipped /\ ListingIsWhole

PagingInv == WalkInv /\ ListingInv

LEMMA PagingInvInit == PagingInit => PagingInv
<1> SUFFICES ASSUME PagingInit
             PROVE  PagingInv
  OBVIOUS
<1>1. walk = NoWalk /\ listing = NoListing
  BY DEF PagingInit
<1>2. entries \subseteq Entry /\ TableOK
  <2>1. CASE /\ entries = {}
             /\ \E R \in SUBSET EdgeRow : IdsAreUnique(R) /\ table \in [R -> Quality]
    <3>1. PICK R \in SUBSET EdgeRow : IdsAreUnique(R) /\ table \in [R -> Quality]
      BY <2>1
    <3> QED
      BY <2>1, <3>1 DEF TableOK
  <2>2. CASE entries \in SUBSET Entry /\ table = <<>>
    BY <2>2 DEF TableOK, IdsAreUnique
  <2> QED
    BY <2>1, <2>2 DEF PagingInit
<1>3. /\ walk.state = "none" /\ walk.after = NoEdge /\ walk.shown = <<>> /\ walk.cut = {}
      /\ walk.steady = {} /\ walk.ranked = FALSE
  BY <1>1 DEF NoWalk
<1>4. WalkIsTyped
  <2>1. NoWalk.filter \in Filter \union {NoWalk.filter}
    OBVIOUS
  <2>2. walk = [state |-> "none", filter |-> NoWalk.filter, after |-> NoEdge,
                shown |-> <<>>, cut |-> {}, steady |-> {}, ranked |-> FALSE]
    BY <1>1 DEF NoWalk
  <2>3. PICK F : F = Filter \union {NoWalk.filter}
    OBVIOUS
  <2>4. PICK f \in F : f = NoWalk.filter
    BY <2>1, <2>3
  <2>5. walk \in [state : {"none", "open", "done"}, filter : F,
                  after : EdgeRow \union {NoEdge}, shown : Seq(Seq(EdgeRow)), cut : SUBSET EdgeRow,
                  steady : SUBSET EdgeRow, ranked : BOOLEAN]
    BY <2>2, <2>4
  <2> QED
    BY <2>3, <2>5 DEF WalkIsTyped
<1>5. Cardinality({}) = 0
  BY FS_EmptySet
<1>6. CursorIsThere /\ NothingIsBehind /\ PagesGoForward
  BY <1>3 DEF CursorIsThere, NothingIsBehind, PagesGoForward, Shown
<1>7. CutsAreFew /\ CursorIsLast
  BY <1>3, <1>5 DEF CutsAreFew, CursorIsLast
<1>8. ListingIsTyped /\ NothingIsSkipped /\ ListingIsWhole
  BY <1>1, <1>2 DEF ListingIsTyped, NothingIsSkipped, ListingIsWhole, NoListing
<1> QED
  BY <1>2, <1>4, <1>6, <1>7, <1>8 DEF PagingInv, WalkInv, ListingInv

LEMMA PagingInvImplies == PagingInv => PagesAreWhole
<1> SUFFICES ASSUME PagingInv
             PROVE  EveryEdgeIsShown
  BY DEF PagingInv, WalkInv, ListingInv, PagesAreWhole
<1>1. NothingIsBehind /\ CutsAreFew /\ CursorIsLast
  BY DEF PagingInv, WalkInv
<1> QED
  BY <1>1 DEF NothingIsBehind, CutsAreFew, CursorIsLast, EveryEdgeIsShown

\* Nothing changes for one walk while only the other goes on.
LEMMA WalkInvStays ==
    ASSUME WalkInv, UNCHANGED <<table, walk>>
    PROVE  WalkInv'
  BY DEF WalkInv, TableOK, WalkIsTyped, CursorIsThere, NothingIsBehind, CutsAreFew, CursorIsLast,
         PagesGoForward, InTableOrder, Shown, Matches, Evidence

LEMMA ListingInvStays ==
    ASSUME ListingInv, UNCHANGED <<entries, listing>>
    PROVE  ListingInv'
  BY DEF ListingInv, ListingIsTyped, NothingIsSkipped, ListingIsWhole

-----------------------------------------------------------------------------
LEMMA LimitIsNat ==
    ASSUME NEW limit \in PageSize
    PROVE  /\ NormalizeLimit(limit) \in Nat /\ NormalizeLimit(limit) >= 1
           /\ ListLimit(limit) \in Nat
  BY PagingAssumption DEF NormalizeLimit, ListLimit, Smaller

\* One more page, answered with `a` to a call that may be made.
PageTurns(f, a, mode) ==
    walk' = [state |-> IF a.next = NoEdge THEN "done" ELSE "open",
             filter |-> f,
             after |-> a.next,
             shown |-> Append(walk.shown, a.page),
             cut |-> walk.cut \union
                        {e \in ToSet(a.rows) \ ToSet(a.page) :
                            a.next # NoEdge /\ ByLabel(e, a.next)},
             steady |-> IF walk.state = "none" THEN DOMAIN table ELSE walk.steady,
             ranked |-> walk.ranked \/ IsRanked(mode)]

LEMMA PageTurnsWalkInv ==
    ASSUME WalkInv, NEW f \in Filter, NEW limit \in Nat, limit >= 1, NEW mode,
           walk.state = "none" \/ (walk.state = "open" /\ f = walk.filter),
           NEW a, a = EdgeSnapshot(f, walk.after, limit, mode),
           PageTurns(f, a, mode), UNCHANGED table
    PROVE  WalkInv'
<1>1. /\ TableOK /\ WalkIsTyped /\ CursorIsThere /\ NothingIsBehind
      /\ CutsAreFew /\ CursorIsLast /\ PagesGoForward
  BY DEF WalkInv
<1>2. PICK Q : Q = Matching(f, walk.after)
  OBVIOUS
<1>3. Q \in SUBSET EdgeRow /\ Answers(a.page, a.rows, a.next, Q, limit, mode)
  BY <1>1, <1>2, SnapshotAnswers
<1>4. PICK page, rows, next : page = a.page /\ rows = a.rows /\ next = a.next
  OBVIOUS
<1>5. Answers(page, rows, next, Q, limit, mode)
  BY <1>3, <1>4
<1>6. /\ page \in Seq(Q) /\ ToSet(page) \subseteq Q /\ ToSet(rows) \subseteq Q
      /\ next = NoEdge => Q \subseteq ToSet(page)
  BY <1>5 DEF Answers
<1>7. next # NoEdge => /\ next \in ToSet(page)
                       /\ \A e \in Q : e \in ToSet(rows) \/ ByLabel(next, e)
                       /\ \E x \in Q : ToSet(rows) \ ToSet(page) \subseteq {x}
  BY <1>5 DEF Answers
<1>8. ~IsRanked(mode) =>
         /\ \A i, j \in DOMAIN page : i < j => ByLabel(page[i], page[j])
         /\ next # NoEdge => /\ \A e \in ToSet(rows) : e \in ToSet(page) \/ ByLabel(next, e)
                             /\ \A e \in ToSet(page) : e = next \/ ByLabel(e, next)
  BY <1>5 DEF Answers
<1>9. PICK fresh : fresh = {e \in ToSet(rows) \ ToSet(page) : next # NoEdge /\ ByLabel(e, next)}
  OBVIOUS
<1>10. walk' = [state |-> IF next = NoEdge THEN "done" ELSE "open",
                filter |-> f,
                after |-> next,
                shown |-> Append(walk.shown, page),
                cut |-> walk.cut \union fresh,
                steady |-> IF walk.state = "none" THEN DOMAIN table ELSE walk.steady,
                ranked |-> walk.ranked \/ IsRanked(mode)]
  BY <1>4, <1>9, Zenon DEF PageTurns
<1>11. /\ walk'.state = IF next = NoEdge THEN "done" ELSE "open"
       /\ walk'.filter = f /\ walk'.after = next
       /\ walk'.shown = Append(walk.shown, page)
       /\ walk'.cut = walk.cut \union fresh
       /\ walk'.steady = IF walk.state = "none" THEN DOMAIN table ELSE walk.steady
       /\ walk'.ranked = (walk.ranked \/ IsRanked(mode))
  BY <1>10
<1>12. /\ walk.shown \in Seq(Seq(EdgeRow)) /\ walk.cut \in SUBSET EdgeRow /\ walk.steady \in SUBSET EdgeRow
       /\ walk.ranked \in BOOLEAN
  BY <1>1 DEF WalkIsTyped
<1>13. page \in Seq(EdgeRow) /\ next \in EdgeRow \union {NoEdge}
  BY <1>3, <1>6, <1>7
<1>14. NoEdge \notin EdgeRow /\ IsFiniteSet(EdgeRow)
  BY RowsOfTable
<1>15. DOMAIN walk.shown = 1 .. Len(walk.shown) /\ Len(walk.shown) \in Nat
  BY <1>12
<1>16. /\ DOMAIN walk'.shown = 1 .. (Len(walk.shown) + 1) /\ Len(walk'.shown) = Len(walk.shown) + 1
       /\ walk'.shown[Len(walk.shown) + 1] = page
       /\ \A i \in DOMAIN walk.shown : walk'.shown[i] = walk.shown[i]
       /\ walk'.shown \in Seq(Seq(EdgeRow))
  BY <1>11, <1>12, <1>13, <1>15
<1>17. \A i \in DOMAIN walk'.shown : i \in DOMAIN walk.shown \/ i = Len(walk.shown) + 1
  BY <1>15, <1>16
<1>18. Shown' = Shown \union ToSet(page)
  <2>1. Shown' = UNION {ToSet(walk'.shown[i]) : i \in DOMAIN walk'.shown}
    BY DEF Shown
  <2>2. Len(walk.shown) + 1 \in DOMAIN walk'.shown /\ DOMAIN walk.shown \subseteq DOMAIN walk'.shown
    BY <1>15, <1>16
  <2>3. Shown' \subseteq Shown \union ToSet(page)
    BY <1>16, <1>17, <2>1 DEF Shown
  <2>4. Shown \union ToSet(page) \subseteq Shown'
    BY <1>16, <2>1, <2>2 DEF Shown
  <2> QED
    BY <2>3, <2>4
<1>19. fresh \subseteq Q
  BY <1>6, <1>9
<1>20. WalkIsTyped'
  <2>1. PICK F : F = Filter \union {NoWalk.filter}
    OBVIOUS
  <2>2. DOMAIN table \in SUBSET EdgeRow
    BY <1>1 DEF TableOK
  <2>3. f \in F
    BY <2>1
  <2>4. walk.cut \union fresh \in SUBSET EdgeRow
    BY <1>3, <1>12, <1>19
  <2>5. Append(walk.shown, page) \in Seq(Seq(EdgeRow))
    BY <1>12, <1>13
  <2>6. (walk.ranked \/ IsRanked(mode)) \in BOOLEAN
    BY Zenon
  <2>7. PICK s : s = IF walk.state = "none" THEN DOMAIN table ELSE walk.steady
    OBVIOUS
  <2>8. s \in SUBSET EdgeRow
    BY <1>12, <2>2, <2>7
  <2>9. PICK c : c = walk.cut \union fresh
    OBVIOUS
  <2>10. PICK r : r = (walk.ranked \/ IsRanked(mode))
    OBVIOUS
  <2>11. PICK h : h = Append(walk.shown, page)
    OBVIOUS
  <2>12. walk' = [state |-> IF next = NoEdge THEN "done" ELSE "open", filter |-> f, after |-> next,
                  shown |-> h, cut |-> c, steady |-> s, ranked |-> r]
    BY <1>10, <2>7, <2>9, <2>10, <2>11, Zenon
  <2>13. c \in SUBSET EdgeRow /\ r \in BOOLEAN /\ h \in Seq(Seq(EdgeRow))
    BY <2>4, <2>5, <2>6, <2>9, <2>10, <2>11, Zenon
  <2>14. walk' \in [state : {"none", "open", "done"}, filter : F,
                    after : EdgeRow \union {NoEdge}, shown : Seq(Seq(EdgeRow)), cut : SUBSET EdgeRow,
                    steady : SUBSET EdgeRow, ranked : BOOLEAN]
    BY <1>13, <2>3, <2>8, <2>12, <2>13
  <2> QED
    BY <2>1, <2>14 DEF WalkIsTyped, NoWalk
<1>21. walk'.steady \subseteq DOMAIN table
  BY <1>1, <1>11 DEF CursorIsThere
<1>22. CursorIsThere'
  <2>1. walk'.state # "none" /\ (walk'.state = "open" => walk'.after \in EdgeRow)
    BY <1>11, <1>13
  <2> QED
    BY <1>21, <2>1 DEF CursorIsThere
<1>23. \A g, e : Matches(g, e)' <=> Matches(g, e)
  BY DEF Matches, Evidence
<1>24. NothingIsBehind'
  <2>1. SUFFICES ASSUME NEW e \in walk'.steady, Matches(f, e)
                 PROVE  \/ e \in Shown' \/ e \in walk'.cut
                        \/ walk'.state # "done" /\ ByLabel(next, e)
    BY <1>11, <1>23 DEF NothingIsBehind
  <2>2. e \in EdgeRow /\ e \in DOMAIN table
    BY <1>1, <1>21 DEF TableOK
  <2>3. e \in Shown \/ e \in walk.cut \/ e \in Q
    <3>1. CASE walk.state = "none"
      <4>1. walk.after = NoEdge
        BY <1>1, <3>1 DEF CursorIsThere
      <4> QED
        BY <1>2, <2>1, <2>2, <4>1 DEF Matching
    <3>2. CASE walk.state = "open" /\ f = walk.filter
      <4>1. e \in walk.steady
        BY <1>11, <3>2
      <4>2. e \in Shown \/ e \in walk.cut \/ ByLabel(walk.after, e)
        BY <1>1, <2>1, <3>2, <4>1 DEF NothingIsBehind
      <4> QED
        BY <1>2, <2>1, <2>2, <4>2 DEF Matching
    <3> QED
      BY <3>1, <3>2
  <2>4. CASE e \in Q
    <3>1. CASE next = NoEdge
      BY <1>6, <1>18, <2>4, <3>1
    <3>2. CASE next # NoEdge
      <4>1. next \in ToSet(page) /\ (e \in ToSet(rows) \/ ByLabel(next, e))
        BY <1>7, <2>4, <3>2
      <4>2. walk'.state # "done"
        BY <1>11, <3>2
      <4>3. CASE e \in ToSet(page)
        BY <1>18, <4>3
      <4>4. CASE e \notin ToSet(page)
        <5>1. e # next /\ next \in EdgeRow
          BY <1>13, <3>2, <4>1, <4>4
        <5>2. ByLabel(e, next) \/ ByLabel(next, e)
          BY <2>2, <5>1, ByLabelIsOrder
        <5>3. ByLabel(e, next) => e \in fresh \/ ByLabel(next, e)
          BY <1>9, <3>2, <4>1, <4>4
        <5> QED
          BY <1>11, <4>2, <5>2, <5>3
      <4> QED
        BY <4>3, <4>4
    <3> QED
      BY <3>1, <3>2
  <2>5. CASE e \in Shown \/ e \in walk.cut
    BY <1>11, <1>18, <2>5
  <2> QED
    BY <2>3, <2>4, <2>5
<1>25. CutsAreFew'
  <2>1. IsFiniteSet(walk.cut)
    BY <1>12, <1>14, FS_Subset
  <2>2. Cardinality(walk.cut) \in Nat /\ Cardinality(walk.cut) <= Len(walk.shown)
    BY <1>1, <2>1, FS_CardinalityType DEF CutsAreFew
  <2>3. CASE next = NoEdge
    <3>1. walk'.cut = walk.cut
      BY <1>9, <1>11, <2>3
    <3> QED
      BY <1>15, <1>16, <2>2, <3>1 DEF CutsAreFew
  <2>4. CASE next # NoEdge
    <3>1. PICK x : ToSet(rows) \ ToSet(page) \subseteq {x}
      BY <1>7, <2>4
    <3>2. walk'.cut \subseteq walk.cut \union {x}
      BY <1>9, <1>11, <3>1
    <3>3. IsFiniteSet(walk.cut \union {x}) /\ Cardinality(walk.cut \union {x}) <= Cardinality(walk.cut) + 1
      <4>1. CASE x \in walk.cut
        <5>1. walk.cut \union {x} = walk.cut
          BY <4>1
        <5>2. Cardinality(walk.cut) <= Cardinality(walk.cut) + 1
          BY <2>2
        <5> QED
          BY <2>1, <5>1, <5>2, Zenon
      <4>2. CASE x \notin walk.cut
        <5>1. IsFiniteSet(walk.cut \union {x}) /\ Cardinality(walk.cut \union {x}) = Cardinality(walk.cut) + 1
          BY <2>1, <4>2, FS_AddElement
        <5> QED
          BY <2>2, <5>1
      <4> QED
        BY <4>1, <4>2
    <3>4. IsFiniteSet(walk'.cut) /\ Cardinality(walk'.cut) <= Cardinality(walk.cut \union {x})
      BY <3>2, <3>3, FS_Subset
    <3>5. Cardinality(walk'.cut) \in Nat /\ Cardinality(walk.cut \union {x}) \in Nat
      BY <3>3, <3>4, FS_CardinalityType
    <3>6. Cardinality(walk'.cut) <= Len(walk'.shown)
      BY <1>15, <1>16, <2>2, <3>3, <3>4, <3>5
    <3>7. walk'.state # "done"
      BY <1>11, <2>4
    <3> QED
      BY <3>6, <3>7 DEF CutsAreFew
  <2> QED
    BY <2>3, <2>4
<1>26. ASSUME ~walk'.ranked
       PROVE  ~walk.ranked /\ ~IsRanked(mode)
  BY <1>11, <1>26
\* In the order of the table, the page lies between the old cursor and the new one.
<1>27. ASSUME ~walk.ranked, NEW d \in Shown, NEW e \in Q
       PROVE  ByLabel(d, e)
  <2>1. walk.state = "open"
    BY <1>1, <1>27 DEF CursorIsThere, Shown
  <2>2. walk.after \in EdgeRow /\ walk.after # NoEdge
    BY <1>1, <1>14, <2>1 DEF CursorIsThere
  <2>3. ByLabel(walk.after, e)
    BY <1>2, <1>27, <2>2 DEF Matching
  <2>4. d = walk.after \/ ByLabel(d, walk.after)
    BY <1>1, <1>27, <2>1 DEF CursorIsLast, InTableOrder
  <2>5. d \in EdgeRow /\ e \in EdgeRow
    <3>1. PICK i \in DOMAIN walk.shown : d \in ToSet(walk.shown[i])
      BY <1>27 DEF Shown
    <3>2. walk.shown[i] \in Seq(EdgeRow)
      BY <1>12, <3>1
    <3>3. d \in EdgeRow
      BY <3>1, <3>2 DEF ToSet
    <3> QED
      BY <1>3, <1>27, <3>3
  <2> QED
    BY <2>2, <2>3, <2>4, <2>5, ByLabelIsOrder
<1>28. CursorIsLast'
  <2>1. SUFFICES ASSUME ~walk'.ranked
                 PROVE  /\ walk'.cut = {}
                        /\ walk'.state = "open" =>
                             \A e \in Shown' : e = walk'.after \/ ByLabel(e, walk'.after)
    BY DEF CursorIsLast, InTableOrder
  <2>2. ~walk.ranked /\ ~IsRanked(mode)
    BY <1>26, <2>1
  <2>3. fresh = {}
    <3>1. SUFFICES ASSUME NEW e \in fresh
                   PROVE  FALSE
      OBVIOUS
    <3>2. next # NoEdge /\ ByLabel(e, next) /\ e \in ToSet(rows) /\ e \notin ToSet(page)
      BY <1>9, <3>1
    <3>3. ByLabel(next, e)
      BY <1>8, <2>2, <3>2
    <3>4. e \in EdgeRow /\ next \in EdgeRow
      BY <1>3, <1>6, <1>13, <3>2
    <3> QED
      BY <3>2, <3>3, <3>4, ByLabelIsOrder
  <2>4. walk.cut = {}
    BY <1>1, <2>2 DEF CursorIsLast, InTableOrder
  <2>5. ASSUME walk'.state = "open", NEW e \in Shown'
        PROVE  e = next \/ ByLabel(e, next)
    <3>1. next # NoEdge
      BY <1>11, <2>5
    <3>2. CASE e \in Shown
      BY <1>6, <1>7, <1>27, <2>2, <3>1, <3>2
    <3>3. CASE e \in ToSet(page)
      BY <1>8, <2>2, <3>1, <3>3
    <3> QED
      BY <1>18, <2>5, <3>2, <3>3
  <2> QED
    BY <1>11, <2>3, <2>4, <2>5
<1>29. ASSUME InTableOrder'
       PROVE  \A i, j \in DOMAIN walk'.shown :
                  \A b \in DOMAIN walk'.shown[i], c \in DOMAIN walk'.shown[j] :
                      i < j \/ (i = j /\ b < c) => ByLabel(walk'.shown[i][b], walk'.shown[j][c])
  <2>1. SUFFICES ASSUME ~walk'.ranked, NEW i \in DOMAIN walk'.shown, NEW j \in DOMAIN walk'.shown,
                        NEW b \in DOMAIN walk'.shown[i], NEW c \in DOMAIN walk'.shown[j],
                        i < j \/ (i = j /\ b < c)
                 PROVE  ByLabel(walk'.shown[i][b], walk'.shown[j][c])
    BY <1>29 DEF InTableOrder
  <2>2. ~walk.ranked /\ ~IsRanked(mode)
    BY <1>26, <2>1
  <2>3. CASE j \in DOMAIN walk.shown
    <3>1. i \in DOMAIN walk.shown
      BY <1>15, <1>16, <2>1, <2>3
    <3>2. walk'.shown[i] = walk.shown[i] /\ walk'.shown[j] = walk.shown[j]
      BY <1>16, <2>3, <3>1
    <3> QED
      BY <1>1, <2>1, <2>2, <2>3, <3>1, <3>2 DEF PagesGoForward, InTableOrder
  <2>4. CASE j \notin DOMAIN walk.shown
    <3>1. j = Len(walk.shown) + 1 /\ walk'.shown[j] = page
      BY <1>16, <1>17, <2>4
    <3>2. CASE i = j
      BY <1>8, <1>15, <2>1, <2>2, <3>1, <3>2
    <3>3. CASE i # j
      <4>1. i \in DOMAIN walk.shown /\ walk'.shown[i] = walk.shown[i]
        BY <1>16, <1>17, <3>1, <3>3
      <4>2. walk.shown[i][b] \in Shown
        BY <2>1, <4>1 DEF Shown, ToSet
      <4>3. page[c] \in Q
        BY <1>6, <2>1, <3>1
      <4> QED
        BY <1>27, <2>2, <3>1, <4>1, <4>2, <4>3
    <3> QED
      BY <3>2, <3>3
  <2> QED
    BY <2>3, <2>4
\* What was there all along is in the table, where ids are unique.
<1>31. ASSUME NEW d \in walk'.steady, NEW e \in Shown', d.id = e.id
       PROVE  d = e
  <2>1. CASE e \in ToSet(page)
    <3>1. d \in DOMAIN table /\ e \in DOMAIN table
      BY <1>2, <1>6, <1>21, <1>31, <2>1 DEF Matching
    <3> QED
      BY <1>1, <1>31, <3>1 DEF TableOK, IdsAreUnique
  <2>2. CASE e \in Shown
    <3>1. walk.state = "open"
      BY <1>1, <2>2 DEF CursorIsThere, Shown
    <3>2. d \in walk.steady
      BY <1>11, <1>31, <3>1
    <3> QED
      BY <1>1, <1>31, <2>2, <3>2 DEF PagesGoForward
  <2> QED
    BY <1>18, <1>31, <2>1, <2>2
<1>32. PagesGoForward'
  BY <1>29, <1>31 DEF PagesGoForward
<1>30. TableOK'
  BY <1>1 DEF TableOK
<1> QED
  BY <1>20, <1>22, <1>24, <1>25, <1>28, <1>30, <1>32 DEF WalkInv

LEMMA SnapshotEdgesInv ==
    ASSUME WalkInv, NEW f \in Filter, NEW limit \in PageSize, NEW mode,
           SnapshotEdges(f, limit, mode)
    PROVE  WalkInv'
<1>1. PICK size : size = NormalizeLimit(limit)
  OBVIOUS
<1>2. size \in Nat /\ size >= 1
  BY <1>1, LimitIsNat
<1>3. PICK a : a = EdgeSnapshot(f, walk.after, size, mode)
  OBVIOUS
<1>4. UNCHANGED table /\ (walk.state = "none" \/ (walk.state = "open" /\ f = walk.filter))
  BY DEF SnapshotEdges
<1>5. UNCHANGED walk \/ PageTurns(f, a, mode)
  BY <1>1, <1>3, Zenon DEF SnapshotEdges, PageTurns, IsRanked
<1>6. CASE UNCHANGED walk
  BY <1>4, <1>6, WalkInvStays
<1>7. CASE PageTurns(f, a, mode)
  BY <1>2, <1>3, <1>4, <1>7, PageTurnsWalkInv
<1> QED
  BY <1>5, <1>6, <1>7

\* A write to an edge takes it out of what was there all along, and leaves the
\* rest of the table as it was.
EdgeWritten(e) ==
    /\ walk' = [walk EXCEPT !.steady = Others(@, e.id)]
    /\ TableOK'
    /\ \A d \in DOMAIN table : d.id # e.id => d \in DOMAIN table' /\ table'[d] = table[d]

LEMMA EdgeWrittenInv ==
    ASSUME WalkInv, NEW e \in EdgeRow, EdgeWritten(e)
    PROVE  WalkInv'
<1>1. /\ TableOK /\ WalkIsTyped /\ CursorIsThere /\ NothingIsBehind
      /\ CutsAreFew /\ CursorIsLast /\ PagesGoForward
  BY DEF WalkInv
<1>2. /\ walk' = [walk EXCEPT !.steady = {d \in @ : d.id # e.id}] /\ TableOK'
      /\ \A d \in DOMAIN table : d.id # e.id => d \in DOMAIN table' /\ table'[d] = table[d]
  BY DEF EdgeWritten, Others
<1>3. /\ walk'.state = walk.state /\ walk'.filter = walk.filter /\ walk'.after = walk.after
      /\ walk'.shown = walk.shown /\ walk'.cut = walk.cut /\ walk'.ranked = walk.ranked
      /\ walk'.steady = {d \in walk.steady : d.id # e.id}
  <2>1. DOMAIN walk = {"state", "filter", "after", "shown", "cut", "steady", "ranked"}
    BY <1>1 DEF WalkIsTyped
  <2> QED
    BY <1>2, <2>1
<1>4. WalkIsTyped'
  <2>1. PICK F : F = Filter \union {NoWalk.filter}
    OBVIOUS
  <2>2. walk \in [state : {"none", "open", "done"}, filter : F,
                  after : EdgeRow \union {NoEdge}, shown : Seq(Seq(EdgeRow)), cut : SUBSET EdgeRow,
                  steady : SUBSET EdgeRow, ranked : BOOLEAN]
    BY <1>1, <2>1 DEF WalkIsTyped
  <2>3. walk' \in [state : {"none", "open", "done"}, filter : F,
                   after : EdgeRow \union {NoEdge}, shown : Seq(Seq(EdgeRow)), cut : SUBSET EdgeRow,
                   steady : SUBSET EdgeRow, ranked : BOOLEAN]
    BY <1>2, <2>2
  <2> QED
    BY <2>1, <2>3 DEF WalkIsTyped, NoWalk
<1>5. Shown' = Shown
  BY <1>3, Zenon DEF Shown
<1>6. CursorIsThere'
  BY <1>1, <1>2, <1>3 DEF CursorIsThere
<1>7. ASSUME NEW d \in walk'.steady, NEW g
      PROVE  Matches(g, d)' <=> Matches(g, d)
  <2>1. d \in DOMAIN table /\ d.id # e.id
    BY <1>1, <1>3, <1>7 DEF CursorIsThere
  <2>2. table'[d] = table[d]
    BY <1>2, <2>1
  <2> QED
    BY <2>2 DEF Matches, Evidence
<1>8. NothingIsBehind'
  <2>1. SUFFICES ASSUME NEW d \in walk'.steady, Matches(walk.filter, d)
                 PROVE  \/ d \in Shown \/ d \in walk.cut
                        \/ walk.state # "done" /\ ByLabel(walk.after, d)
    BY <1>3, <1>5, <1>7 DEF NothingIsBehind
  <2>2. d \in walk.steady
    BY <1>3, <2>1
  <2> QED
    BY <1>1, <2>1, <2>2 DEF NothingIsBehind
<1>9. CutsAreFew'
  BY <1>1, <1>3 DEF CutsAreFew
<1>10. CursorIsLast'
  BY <1>1, <1>3, <1>5 DEF CursorIsLast, InTableOrder
<1>11. PagesGoForward'
  BY <1>1, <1>3, <1>5 DEF PagesGoForward, InTableOrder
<1> QED
  BY <1>2, <1>4, <1>6, <1>8, <1>9, <1>10, <1>11 DEF WalkInv

LEMMA WriteEdgeInv ==
    ASSUME WalkInv, NEW e \in EdgeRow, NEW q \in Quality, WriteEdge(e, q)
    PROVE  WalkInv'
<1>1. table' = [d \in {r \in DOMAIN table : r.id # e.id} \union {e} |-> IF d = e THEN q ELSE table[d]]
  BY DEF WriteEdge, Others
<1>2. walk' = [walk EXCEPT !.steady = Others(@, e.id)]
  BY DEF WriteEdge
<1>3. /\ DOMAIN table \subseteq EdgeRow /\ \A d \in DOMAIN table : table[d] \in Quality
      /\ \A c, d \in DOMAIN table : c.id = d.id => c = d
  BY DEF WalkInv, TableOK, IdsAreUnique
<1>4. TableOK'
  BY <1>1, <1>3 DEF TableOK, IdsAreUnique
<1>5. \A d \in DOMAIN table : d.id # e.id => d \in DOMAIN table' /\ table'[d] = table[d]
  BY <1>1
<1>6. EdgeWritten(e)
  BY <1>2, <1>4, <1>5 DEF EdgeWritten
<1> QED
  BY <1>6, EdgeWrittenInv

LEMMA DropEdgeInv ==
    ASSUME WalkInv, NEW e \in EdgeRow, DropEdge(e)
    PROVE  WalkInv'
<1>1. table' = [d \in {r \in DOMAIN table : r.id # e.id} |-> table[d]]
  BY DEF DropEdge, Others
<1>2. walk' = [walk EXCEPT !.steady = Others(@, e.id)]
  BY DEF DropEdge
<1>3. /\ DOMAIN table \subseteq EdgeRow /\ \A d \in DOMAIN table : table[d] \in Quality
      /\ \A c, d \in DOMAIN table : c.id = d.id => c = d
  BY DEF WalkInv, TableOK, IdsAreUnique
<1>4. TableOK'
  BY <1>1, <1>3 DEF TableOK, IdsAreUnique
<1>5. \A d \in DOMAIN table : d.id # e.id => d \in DOMAIN table' /\ table'[d] = table[d]
  BY <1>1
<1>6. EdgeWritten(e)
  BY <1>2, <1>4, <1>5 DEF EdgeWritten
<1> QED
  BY <1>6, EdgeWrittenInv

-----------------------------------------------------------------------------
LEMMA NumberOrderIsOrder ==
    ASSUME NEW E \in SUBSET Entry
    PROVE  /\ IsFiniteSet(E) /\ StrictOrder(E, NumberOrder(E))
           /\ \A d, e \in E : <<d, e>> \in NumberOrder(E) <=> d < e
<1>1. IsFiniteSet(E) /\ E \in SUBSET Nat
  BY PagingAssumption, FS_Subset
<1>2. ASSUME NEW d \in E, NEW e \in E
      PROVE  <<d, e>> \in NumberOrder(E) <=> d < e
  BY DEF NumberOrder
<1>3. \A e \in E : e \in Nat
  BY <1>1
<1>4. StrictOrder(E, NumberOrder(E))
  BY <1>2, <1>3 DEF StrictOrder
<1> QED
  BY <1>1, <1>2, <1>4

\* An entry more moves no other to an earlier place.
LEMMA PlacesOnlyGrow ==
    ASSUME NEW E \in SUBSET Entry, NEW F \in SUBSET Entry, E \subseteq F, NEW x \in E
    PROVE  Place(E, NumberOrder(E), x) <= Place(F, NumberOrder(F), x)
<1>1. PICK C, D : C = {d \in E : <<d, x>> \in NumberOrder(E)} /\ D = {d \in F : <<d, x>> \in NumberOrder(F)}
  OBVIOUS
<1>2. C \subseteq D /\ D \subseteq F
  BY <1>1 DEF NumberOrder
<1>3. IsFiniteSet(F)
  BY NumberOrderIsOrder
<1>4. IsFiniteSet(D) /\ Cardinality(C) <= Cardinality(D)
  BY <1>2, <1>3, FS_Subset
<1> QED
  BY <1>1, <1>4, Zenon DEF Place

LEMMA ListPageInv ==
    ASSUME ListingInv, NEW asked \in PageSize, ListPage(asked)
    PROVE  ListingInv'
<1>1. ListingIsTyped /\ NothingIsSkipped
  BY DEF ListingInv
<1>2. PICK listed : listed = Sorted(entries, <)
  OBVIOUS
<1>3. PICK end : end = listing.offset + ListLimit(asked)
  OBVIOUS
<1>4. listing.offset \in Nat /\ ListLimit(asked) \in Nat /\ end \in Nat /\ end >= listing.offset
  BY <1>1, <1>3, LimitIsNat DEF ListingIsTyped
<1>5. PICK part : part = SubSeq(listed, listing.offset + 1, Smaller(end, Len(listed)))
  OBVIOUS
<1>6. listing' = [state |-> IF end < Len(listed) THEN "open" ELSE "done",
                  offset |-> end,
                  shown |-> listing.shown \o part,
                  steady |-> IF listing.state = "none" THEN entries ELSE listing.steady,
                  removed |-> listing.removed]
  BY <1>2, <1>3, <1>5, Zenon DEF ListPage
<1>7. UNCHANGED entries /\ listing.state # "done"
  BY DEF ListPage
<1>8. entries \in SUBSET Entry
  BY <1>1 DEF ListingIsTyped
<1>9. PICK R : R = NumberOrder(entries)
  OBVIOUS
<1>10. IsFiniteSet(entries) /\ StrictOrder(entries, R)
  BY <1>8, <1>9, NumberOrderIsOrder
<1>11. listed = InOrder(entries, R)
  BY <1>2, <1>9, Zenon DEF Sorted, NumberOrder
<1>12. InPlaces(listed, entries, R)
  BY <1>10, <1>11, OrderedSequence
<1>13. PICK c : c = Cardinality(entries)
  OBVIOUS
<1>14. /\ c \in Nat /\ listed \in Seq(entries) /\ Len(listed) = c
       /\ \A e \in entries : Place(entries, R, e) + 1 \in 1 .. c /\ listed[Place(entries, R, e) + 1] = e
  BY <1>12, <1>13, Zenon DEF InPlaces
<1>15. PICK last : last = Smaller(end, Len(listed))
  OBVIOUS
<1>16. last \in Nat /\ last <= c /\ last = (IF end <= c THEN end ELSE c)
  BY <1>4, <1>14, <1>15 DEF Smaller
<1>17. PICK from : from = listing.offset
  OBVIOUS
<1>18. from \in Nat /\ part = SubSeq(listed, from + 1, last)
  BY <1>4, <1>5, <1>15, <1>17, Zenon
<1>19. part \in Seq(entries)
  BY <1>14, <1>16, <1>18
<1>20. \A i \in from + 1 .. last : i - from \in DOMAIN part /\ part[i - from] = listed[i]
  BY <1>14, <1>16, <1>18
\* What lies between the two offsets is on the page.
<1>21. ASSUME NEW x \in entries, Place(entries, R, x) >= from
       PROVE  x \in ToSet(part) \/ Place(entries, R, x) >= end
  <2>1. PICK p : p = Place(entries, R, x) + 1
    OBVIOUS
  <2>2. p \in 1 .. c /\ listed[p] = x
    BY <1>14, <2>1
  <2>3. Place(entries, R, x) \in Int
    BY <1>10, PlaceIsBounded
  <2>4. p \in Int /\ p - 1 = Place(entries, R, x)
    BY <2>1, <2>3
  <2>5. CASE p <= end
    <3>1. p \in from + 1 .. last
      BY <1>4, <1>14, <1>16, <1>18, <1>21, <2>2, <2>4, <2>5
    <3>2. p - from \in DOMAIN part /\ part[p - from] = x
      BY <1>20, <2>2, <3>1
    <3> QED
      BY <3>2, Zenon DEF ToSet
  <2>6. CASE p > end
    BY <1>4, <2>4, <2>6
  <2> QED
    BY <1>4, <2>4, <2>5, <2>6
<1>22. /\ listing'.state = IF end < c THEN "open" ELSE "done"
       /\ listing'.offset = end /\ listing'.shown = listing.shown \o part
       /\ listing'.steady = IF listing.state = "none" THEN entries ELSE listing.steady
       /\ listing'.removed = listing.removed
  BY <1>6, <1>14
<1>23. ListingIsTyped'
  <2>1. listing.shown \in Seq(Entry) /\ listing.removed \in BOOLEAN /\ listing.steady \in SUBSET Entry
    BY <1>1 DEF ListingIsTyped
  <2>2. part \in Seq(Entry)
    BY <1>8, <1>19
  <2>3. listing.shown \o part \in Seq(Entry)
    BY <2>1, <2>2
  <2>4. listing' \in [state : {"none", "open", "done"}, offset : Nat, shown : Seq(Entry),
                      steady : SUBSET Entry, removed : BOOLEAN]
    BY <1>4, <1>6, <1>8, <2>1, <2>3
  <2> QED
    BY <1>7, <1>8, <2>4 DEF ListingIsTyped
<1>24. ToSet(listing'.shown) = ToSet(listing.shown) \union ToSet(part)
  <2>1. listing.shown \in Seq(Entry) /\ part \in Seq(Entry)
    BY <1>1, <1>8, <1>19 DEF ListingIsTyped
  <2>2. PICK s : s = listing.shown
    OBVIOUS
  <2>3. s \in Seq(Entry)
    BY <2>1, <2>2
  <2>4. PICK both : both = s \o part
    OBVIOUS
  <2>5. /\ DOMAIN s = 1 .. Len(s) /\ DOMAIN part = 1 .. Len(part)
        /\ DOMAIN both = 1 .. (Len(s) + Len(part)) /\ Len(s) \in Nat /\ Len(part) \in Nat
        /\ \A i \in 1 .. Len(s) : both[i] = s[i]
        /\ \A i \in 1 .. Len(part) : both[i + Len(s)] = part[i]
    BY <2>1, <2>3, <2>4
  <2>6. \A i \in DOMAIN both : i \in DOMAIN s \/ (i - Len(s) \in DOMAIN part /\ both[i] = part[i - Len(s)])
    <3>1. ASSUME NEW i \in 1 .. (Len(s) + Len(part)), i > Len(s)
          PROVE  i - Len(s) \in 1 .. Len(part) /\ both[i] = part[i - Len(s)]
      <4>1. i - Len(s) \in 1 .. Len(part)
        BY <2>5, <3>1
      <4>2. (i - Len(s)) + Len(s) = i
        BY <2>5
      <4> QED
        BY <2>5, <4>1, <4>2
    <3> QED
      BY <2>5, <3>1
  <2>7. \A i \in DOMAIN s : i \in DOMAIN both
    BY <2>5
  <2>8. \A i \in DOMAIN part : i + Len(s) \in DOMAIN both
    BY <2>5
  <2>9. ToSet(both) \subseteq ToSet(s) \union ToSet(part)
    BY <2>5, <2>6 DEF ToSet
  <2>10. ToSet(s) \subseteq ToSet(both) /\ ToSet(part) \subseteq ToSet(both)
    BY <2>5, <2>7, <2>8 DEF ToSet
  <2> QED
    BY <1>22, <2>2, <2>4, <2>9, <2>10
\* Before the call, everything that counts is shown or still to come.
<1>25. ASSUME ~listing.removed
       PROVE  /\ listing'.steady \subseteq entries
              /\ \A x \in listing'.steady :
                    x \in ToSet(listing.shown) \/ Place(entries, R, x) >= from
  <2>1. CASE listing.state = "none"
    <3>1. listing'.steady = entries /\ from = 0
      BY <1>1, <1>17, <1>22, <2>1 DEF NothingIsSkipped
    <3>2. \A x \in entries : Place(entries, R, x) >= 0
      <4>1. \A x \in entries : Place(entries, R, x) \in 0 .. Cardinality(entries) - 1
        BY <1>10, PlaceIsBounded
      <4> QED
        BY <1>13, <1>14, <4>1
    <3> QED
      BY <3>1, <3>2
  <2>2. CASE listing.state = "open"
    <3>1. listing'.steady = listing.steady
      BY <1>22, <2>2
    <3> QED
      BY <1>1, <1>9, <1>17, <1>25, <2>2, <3>1 DEF NothingIsSkipped
  <2> QED
    BY <1>1, <1>7, <2>1, <2>2 DEF ListingIsTyped
<1>26. ASSUME ~listing.removed, NEW x \in listing'.steady
       PROVE  x \in ToSet(listing'.shown) \/ Place(entries, R, x) >= end
  <2>1. x \in entries /\ (x \in ToSet(listing.shown) \/ Place(entries, R, x) >= from)
    BY <1>25, <1>26
  <2> QED
    BY <1>21, <1>24, <2>1
<1>27. NothingIsSkipped'
  <2>1. listing'.state # "none"
    BY <1>22
  <2>2. R = NumberOrder(entries')
    BY <1>7, <1>9
  <2>3. ASSUME ~listing'.removed
        PROVE  /\ listing'.steady \subseteq entries'
               /\ \A x \in listing'.steady :
                    \/ x \in ToSet(listing'.shown)
                    \/ Place(entries', NumberOrder(entries'), x) >= listing'.offset
    BY <1>7, <1>22, <1>25, <1>26, <2>2, <2>3
  <2> QED
    BY <2>1, <2>3, Zenon DEF NothingIsSkipped
<1>28. ListingIsWhole'
  <2>1. SUFFICES ASSUME listing'.state = "done", ~listing'.removed, NEW x \in listing'.steady
                 PROVE  x \in ToSet(listing'.shown)
    BY DEF ListingIsWhole
  <2>2. end >= c
    BY <1>4, <1>14, <1>22, <2>1
  <2>3. x \in entries
    BY <1>22, <1>25, <2>1
  <2>4. Place(entries, R, x) \in 0 .. c - 1
    BY <1>10, <1>13, <2>3, PlaceIsBounded
  <2>5. ~(Place(entries, R, x) >= end)
    BY <1>4, <1>14, <2>2, <2>4
  <2> QED
    BY <1>22, <1>26, <2>1, <2>5
<1> QED
  BY <1>23, <1>27, <1>28 DEF ListingInv

LEMMA ChangeEntryInv ==
    ASSUME ListingInv, NEW x \in Entry, ChangeEntry(x)
    PROVE  ListingInv'
<1>1. ListingIsTyped /\ NothingIsSkipped
  BY DEF ListingInv
<1>2. listing.state # "done"
  BY DEF ChangeEntry
<1>3. entries \in SUBSET Entry
  BY <1>1 DEF ListingIsTyped
<1>4. CASE x \in entries
  <2>1. entries' = entries \ {x}
    BY <1>4 DEF ChangeEntry
  <2>2. listing' = [listing EXCEPT !.steady = @ \ {x}, !.removed = @ \/ listing.state = "open"]
    BY <1>4 DEF ChangeEntry
  <2>3. DOMAIN listing = {"state", "offset", "shown", "steady", "removed"}
    BY <1>1 DEF ListingIsTyped
  <2>4. /\ listing'.state = listing.state /\ listing'.offset = listing.offset
        /\ listing'.shown = listing.shown /\ listing'.steady = listing.steady \ {x}
    BY <2>2, <2>3
  <2>5. listing'.removed = (listing.removed \/ listing.state = "open")
    BY <2>2, <2>3
  <2>6. ListingIsTyped'
    <3>1. PICK r : r = (listing.removed \/ listing.state = "open")
      OBVIOUS
    <3>2. r \in BOOLEAN
      BY <3>1
    <3>3. listing' = [listing EXCEPT !.steady = @ \ {x}, !.removed = r]
      BY <2>2, <2>3, <3>1
    <3>4. listing' \in [state : {"none", "open", "done"}, offset : Nat, shown : Seq(Entry),
                        steady : SUBSET Entry, removed : BOOLEAN]
      BY <1>1, <3>2, <3>3 DEF ListingIsTyped
    <3> QED
      BY <1>3, <2>1, <3>4 DEF ListingIsTyped
  <2>7. NothingIsSkipped'
    BY <1>1, <2>4, <2>5 DEF NothingIsSkipped
  <2>8. ListingIsWhole'
    BY <1>2, <2>4 DEF ListingIsWhole
  <2> QED
    BY <2>6, <2>7, <2>8 DEF ListingInv
<1>5. CASE x \notin entries
  <2>1. entries' = entries \union {x} /\ UNCHANGED listing
    BY <1>5 DEF ChangeEntry
  <2>2. ListingIsTyped'
    BY <1>1, <1>3, <2>1 DEF ListingIsTyped
  <2>3. ListingIsWhole'
    BY <1>2, <2>1 DEF ListingIsWhole
  <2>4. ASSUME ~listing.removed, listing.state = "open", NEW y \in listing.steady
        PROVE  /\ y \in entries'
               /\ \/ y \in ToSet(listing.shown)
                  \/ Place(entries', NumberOrder(entries'), y) >= listing.offset
    <3>1. y \in entries
      BY <1>1, <2>4 DEF NothingIsSkipped
    <3>2. CASE Place(entries, NumberOrder(entries), y) >= listing.offset
      <4>1. PICK E, F : E = entries /\ F = entries'
        OBVIOUS
      <4>2. E \in SUBSET Entry /\ F \in SUBSET Entry /\ E \subseteq F /\ y \in E /\ y \in F
        BY <1>3, <2>1, <3>1, <4>1
      <4>3. Place(E, NumberOrder(E), y) <= Place(F, NumberOrder(F), y)
        BY <4>2, PlacesOnlyGrow
      <4>4. /\ IsFiniteSet(E) /\ StrictOrder(E, NumberOrder(E))
            /\ IsFiniteSet(F) /\ StrictOrder(F, NumberOrder(F))
        BY <4>2, NumberOrderIsOrder
      <4>5. Place(E, NumberOrder(E), y) \in Int /\ Place(F, NumberOrder(F), y) \in Int
        BY <4>2, <4>4, PlaceIsBounded
      <4>6. listing.offset \in Nat
        BY <1>1 DEF ListingIsTyped
      <4>7. Place(E, NumberOrder(E), y) >= listing.offset
        BY <3>2, <4>1
      <4>8. Place(F, NumberOrder(F), y) >= listing.offset
        BY <4>3, <4>5, <4>6, <4>7
      <4> QED
        BY <2>1, <3>1, <4>1, <4>8
    <3>3. CASE y \in ToSet(listing.shown)
      BY <2>1, <3>1, <3>3
    <3> QED
      BY <1>1, <2>4, <3>2, <3>3 DEF NothingIsSkipped
  <2>5. NothingIsSkipped'
    <3>1. listing'.state = "none" => listing'.offset = 0 /\ listing'.steady = {} /\ listing'.shown = <<>>
      BY <1>1, <2>1 DEF NothingIsSkipped
    <3>2. ASSUME ~listing'.removed, listing'.state = "open"
          PROVE  /\ listing'.steady \subseteq entries'
                 /\ \A y \in listing'.steady :
                       \/ y \in ToSet(listing'.shown)
                       \/ Place(entries', NumberOrder(entries'), y) >= listing'.offset
      BY <2>1, <2>4, <3>2
    <3> QED
      BY <3>1, <3>2, Zenon DEF NothingIsSkipped
  <2> QED
    BY <2>2, <2>3, <2>5 DEF ListingInv
<1> QED
  BY <1>4, <1>5

-----------------------------------------------------------------------------
LEMMA PagingInvNext == PagingInv /\ [PagingNext]_pagingVars => PagingInv'
<1> SUFFICES ASSUME PagingInv, [PagingNext]_pagingVars
             PROVE  PagingInv'
  OBVIOUS
<1>1. WalkInv /\ ListingInv
  BY DEF PagingInv
<1>2. ASSUME NEW f \in Filter, NEW limit \in PageSize, NEW mode \in Modes \union {"default"},
             SnapshotEdges(f, limit, mode)
      PROVE  PagingInv'
  <2>1. WalkInv'
    BY <1>1, <1>2, SnapshotEdgesInv
  <2>2. ListingInv'
    <3>1. UNCHANGED <<entries, listing>>
      BY <1>2 DEF SnapshotEdges
    <3> QED
      BY <1>1, <3>1, ListingInvStays
  <2> QED
    BY <2>1, <2>2 DEF PagingInv
<1>3. ASSUME NEW asked \in PageSize, ListPage(asked)
      PROVE  PagingInv'
  <2>1. WalkInv'
    <3>1. UNCHANGED <<table, walk>>
      BY <1>3 DEF ListPage
    <3> QED
      BY <1>1, <3>1, WalkInvStays
  <2>2. ListingInv'
    BY <1>1, <1>3, ListPageInv
  <2> QED
    BY <2>1, <2>2 DEF PagingInv
<1>4. ASSUME NEW e \in EdgeRow, NEW q \in Quality, WriteEdge(e, q)
      PROVE  PagingInv'
  <2>1. WalkInv'
    BY <1>1, <1>4, WriteEdgeInv
  <2>2. ListingInv'
    <3>1. UNCHANGED <<entries, listing>>
      BY <1>4 DEF WriteEdge
    <3> QED
      BY <1>1, <3>1, ListingInvStays
  <2> QED
    BY <2>1, <2>2 DEF PagingInv
<1>5. ASSUME NEW e \in EdgeRow, DropEdge(e)
      PROVE  PagingInv'
  <2>1. WalkInv'
    BY <1>1, <1>5, DropEdgeInv
  <2>2. ListingInv'
    <3>1. UNCHANGED <<entries, listing>>
      BY <1>5 DEF DropEdge
    <3> QED
      BY <1>1, <3>1, ListingInvStays
  <2> QED
    BY <2>1, <2>2 DEF PagingInv
<1>6. ASSUME NEW x \in Entry, ChangeEntry(x)
      PROVE  PagingInv'
  <2>1. WalkInv'
    <3>1. UNCHANGED <<table, walk>>
      BY <1>6 DEF ChangeEntry
    <3> QED
      BY <1>1, <3>1, WalkInvStays
  <2>2. ListingInv'
    BY <1>1, <1>6, ChangeEntryInv
  <2> QED
    BY <2>1, <2>2 DEF PagingInv
<1>7. CASE UNCHANGED pagingVars
  <2>1. UNCHANGED <<table, walk>> /\ UNCHANGED <<entries, listing>>
    BY <1>7 DEF pagingVars
  <2> QED
    BY <1>1, <2>1, WalkInvStays, ListingInvStays DEF PagingInv
<1> QED
  BY <1>2, <1>3, <1>4, <1>5, <1>6, <1>7 DEF PagingNext

\* Reading in pages (mcp/tools.py snapshot_edges, query_edges, _page): a finished
\* walk by cursor has shown every edge that was there all along and matches but
\* for at most one per ranked page; in the order of the table rows come in order,
\* by labels and ids as shown, and an edge comes under two labels only if it was
\* written in between; a finished listing by offset has shown every entry that
\* was there all along, whatever the writers did in between.
THEOREM PagingSoundness == PagingSpec => []PagesAreWhole
<1>1. PagingInv => PagesAreWhole
  BY PagingInvImplies
<1> QED
  BY PagingInvInit, PagingInvNext, <1>1, PTL DEF PagingSpec

(***************************************************************************)
(* 3 Retrieval.                                                            *)
(*                                                                         *)
(* An answer changes nothing, and all that is asked of it is about the     *)
(* graph it was given of: the invariant is the type of the graph and what  *)
(* is to be shown.  The work is in the lemmas about lists that are ranked, *)
(* cut and merged: whatever survives a cut comes before what does not.     *)
(***************************************************************************)

\* The elements of a list that repeats none are as many as its places.
LEMMA ListCount ==
    ASSUME NEW S, NEW s \in Seq(S), Unrepeated(s)
    PROVE  /\ Len(s) \in Nat /\ DOMAIN s = 1 .. Len(s)
           /\ ToSet(s) \subseteq S
           /\ IsFiniteSet(ToSet(s)) /\ Cardinality(ToSet(s)) = Len(s)
<1>1. PICK n, T : n = Len(s) /\ T = ToSet(s)
  OBVIOUS
<1>2. n \in Nat /\ DOMAIN s = 1 .. n /\ \A i \in 1 .. n : s[i] \in S
  BY <1>1
<1>3. T = {s[i] : i \in 1 .. n}
  BY <1>1, <1>2 DEF ToSet
<1>4. PICK f : f = [i \in 1 .. n |-> s[i]]
  OBVIOUS
<1>5. f \in Bijection(1 .. n, T)
  <2>1. f \in [1 .. n -> T]
    BY <1>3, <1>4
  <2>2. \A i, j \in 1 .. n : f[i] = f[j] => i = j
    BY <1>2, <1>4 DEF Unrepeated
  <2>3. \A e \in T : \E i \in 1 .. n : f[i] = e
    BY <1>3, <1>4
  <2> QED
    BY <2>1, <2>2, <2>3 DEF Bijection, Injection, Surjection, IsInjective
<1>6. ExistsBijection(1 .. n, T)
  BY <1>5 DEF ExistsBijection
<1>7. IsFiniteSet(T) /\ Cardinality(T) = n
  BY <1>2, <1>6, FS_CountingElements, FS_NatBijection
<1>8. T \subseteq S
  BY <1>2, <1>3
<1> QED
  BY <1>1, <1>2, <1>7, <1>8

\* b is how S begins in the order R: m of its elements, or all.
Best(b, S, R, m) ==
    /\ b \in Seq(S) /\ Unrepeated(b)
    /\ Len(b) \in Nat /\ Len(b) <= m /\ DOMAIN b = 1 .. Len(b)
    /\ \A i, j \in DOMAIN b : i < j <=> <<b[i], b[j]>> \in R
    /\ \A e \in S : e \in ToSet(b) \/ (Len(b) = m /\ \A i \in DOMAIN b : <<b[i], e>> \in R)
    /\ ToSet(b) \subseteq S
    /\ IsFiniteSet(ToSet(b)) /\ Cardinality(ToSet(b)) = Len(b)

\* What is cut off a sorted list is the beginning of the order.
LEMMA BestOfSorted ==
    ASSUME NEW S, IsFiniteSet(S), NEW R, StrictOrder(S, R), NEW m \in Nat,
           NEW b, b = Prefix(InOrder(S, R), m)
    PROVE  Best(b, S, R, m)
<1>1. PICK s : s = InOrder(S, R)
  OBVIOUS
<1>2. Len(s) \in Nat
  BY <1>1, OrderedSequence DEF InPlaces
<1>3. PICK n : n = IF m < Len(s) THEN m ELSE Len(s)
  OBVIOUS
<1>4. Least(m, Len(s)) = n
  BY <1>2, <1>3 DEF Least
<1>5. b = SubSeq(s, 1, n)
  BY <1>1, <1>4, Zenon DEF Prefix
<1>6. BeginsInOrder(b, n, S, R, m)
  BY <1>1, <1>3, <1>5, OrderedBeginning
<1>7. /\ n \in Nat /\ b \in Seq(S) /\ Len(b) = n /\ DOMAIN b = 1 .. n
      /\ \A i \in 1 .. n : b[i] \in S
      /\ \A i, j \in 1 .. n : i < j <=> <<b[i], b[j]>> \in R
      /\ \A e \in S : (\E i \in 1 .. n : b[i] = e) \/
                      (n = m /\ \A i \in 1 .. n : <<b[i], e>> \in R)
  BY <1>6 DEF BeginsInOrder
<1>8. Unrepeated(b)
  <2> SUFFICES ASSUME NEW i \in 1 .. n, NEW j \in 1 .. n, i # j
               PROVE  b[i] # b[j]
    BY <1>7 DEF Unrepeated
  <2>1. <<b[i], b[j]>> \in R \/ <<b[j], b[i]>> \in R
    BY <1>7
  <2> QED
    BY <1>7, <2>1 DEF StrictOrder
<1>9. n <= m
  BY <1>2, <1>3
<1>10. \A e \in S : e \in ToSet(b) \/ (n = m /\ \A i \in 1 .. n : <<b[i], e>> \in R)
  BY <1>7 DEF ToSet
<1>11. ToSet(b) \subseteq S /\ IsFiniteSet(ToSet(b)) /\ Cardinality(ToSet(b)) = n
  BY <1>7, <1>8, ListCount
<1> QED
  BY <1>7, <1>8, <1>9, <1>10, <1>11 DEF Best

\* s is S in the order R.
Whole(s, S, R) ==
    /\ s \in Seq(S) /\ Unrepeated(s)
    /\ Len(s) \in Nat /\ DOMAIN s = 1 .. Len(s)
    /\ ToSet(s) = S
    /\ \A i, j \in DOMAIN s : i < j <=> <<s[i], s[j]>> \in R

\* What is sorted and not cut is all of it.
LEMMA WholeOfSorted ==
    ASSUME NEW S, IsFiniteSet(S), NEW R, StrictOrder(S, R), NEW s, s = InOrder(S, R)
    PROVE  Whole(s, S, R)
<1>1. PICK n : n = Cardinality(S)
  OBVIOUS
<1>2. InPlaces(s, S, R)
  BY OrderedSequence
<1>3. /\ n \in Nat /\ s \in Seq(S) /\ Len(s) = n /\ DOMAIN s = 1 .. n
      /\ \A i \in 1 .. n : s[i] \in S
      /\ \A e \in S : Place(S, R, e) + 1 \in 1 .. n /\ s[Place(S, R, e) + 1] = e
      /\ \A i, j \in 1 .. n : i < j <=> <<s[i], s[j]>> \in R
  BY <1>1, <1>2 DEF InPlaces
<1>4. Unrepeated(s)
  <2> SUFFICES ASSUME NEW i \in 1 .. n, NEW j \in 1 .. n, i # j
               PROVE  s[i] # s[j]
    BY <1>3 DEF Unrepeated
  <2>1. <<s[i], s[j]>> \in R \/ <<s[j], s[i]>> \in R
    BY <1>3
  <2> QED
    BY <1>3, <2>1 DEF StrictOrder
<1>5. ToSet(s) = S
  BY <1>3 DEF ToSet
<1> QED
  BY <1>3, <1>4, <1>5 DEF Whole

\* Where an element of a list is.
LEMMA PositionIs ==
    ASSUME NEW S, NEW s \in Seq(S)
    PROVE  /\ \A x \in ToSet(s) : Position(s, x) \in 1 .. Len(s) /\ s[Position(s, x)] = x
           /\ \A x : Contains(s, x) <=> x \in ToSet(s)
<1>1. DOMAIN s = 1 .. Len(s)
  OBVIOUS
<1>2. ASSUME NEW x \in ToSet(s)
      PROVE  Position(s, x) \in 1 .. Len(s) /\ s[Position(s, x)] = x
  <2>1. \E i \in DOMAIN s : s[i] = x
    BY <1>2, Zenon DEF ToSet
  <2>2. Position(s, x) \in DOMAIN s /\ s[Position(s, x)] = x
    BY <2>1, Zenon DEF Position
  <2> QED
    BY <1>1, <2>2
<1>3. \A x : Contains(s, x) <=> x \in ToSet(s)
  BY <1>1 DEF Contains, ToSet
<1> QED
  BY <1>2, <1>3

\* In a list that repeats none an element has one place.
LEMMA PositionOf ==
    ASSUME NEW S, NEW s \in Seq(S), Unrepeated(s), NEW i \in DOMAIN s
    PROVE  s[i] \in ToSet(s) /\ Position(s, s[i]) = i
<1>1. s[i] \in ToSet(s)
  BY DEF ToSet
<1>2. Position(s, s[i]) \in DOMAIN s /\ s[Position(s, s[i])] = s[i]
  BY <1>1, PositionIs
<1> QED
  BY <1>1, <1>2 DEF Unrepeated

\* The beginning of a list that repeats none.
IsBeginning(p, s, m) ==
    /\ Unrepeated(p) /\ Len(p) \in Nat /\ DOMAIN p = 1 .. Len(p)
    /\ Len(p) <= Len(s) /\ Len(p) <= m
    /\ Len(p) = Len(s) \/ Len(p) = m
    /\ \A i \in DOMAIN p : i \in DOMAIN s /\ p[i] = s[i]
    /\ ToSet(p) \subseteq ToSet(s)
    /\ Len(p) = Len(s) => ToSet(p) = ToSet(s)

\* What is cut off a list begins it.
LEMMA BeginningOfList ==
    ASSUME NEW S, NEW s \in Seq(S), Unrepeated(s), NEW m \in Nat, NEW p, p = Prefix(s, m)
    PROVE  p \in Seq(S) /\ IsBeginning(p, s, m)
<1>1. PICK k, n : k = Len(s) /\ n = Least(m, k)
  OBVIOUS
<1>2. k \in Nat /\ DOMAIN s = 1 .. k
  BY <1>1
<1>3. n \in Nat /\ n <= k /\ n <= m /\ (n = k \/ n = m)
  <2>1. n = IF m <= k THEN m ELSE k
    BY <1>1, Zenon DEF Least
  <2> QED
    BY <1>2, <2>1
<1>4. p = SubSeq(s, 1, n)
  BY <1>1, Zenon DEF Prefix
<1>5. p \in Seq(S) /\ Len(p) = n /\ DOMAIN p = 1 .. n
  BY <1>1, <1>2, <1>3, <1>4
<1>6. ASSUME NEW i \in 1 .. n
      PROVE  i \in 1 .. k /\ p[i] = s[i]
  BY <1>1, <1>2, <1>3, <1>4
<1>7. \A i, j \in 1 .. k : i # j => s[i] # s[j]
  BY <1>2 DEF Unrepeated
<1>8. Unrepeated(p)
  <2> SUFFICES ASSUME NEW i \in 1 .. n, NEW j \in 1 .. n, i # j
               PROVE  p[i] # p[j]
    BY <1>5, Zenon DEF Unrepeated
  <2>1. i \in 1 .. k /\ j \in 1 .. k /\ p[i] = s[i] /\ p[j] = s[j]
    BY <1>6
  <2> QED
    BY <1>7, <2>1, Zenon
<1>9. ToSet(p) \subseteq ToSet(s)
  BY <1>2, <1>5, <1>6, Zenon DEF ToSet
<1>10. n = k => ToSet(p) = ToSet(s)
  BY <1>2, <1>5, <1>6, Zenon DEF ToSet
<1> QED
  BY <1>1, <1>2, <1>3, <1>5, <1>6, <1>8, <1>9, <1>10 DEF IsBeginning

-----------------------------------------------------------------------------
\* What is left of a list.
IsLeft(a, s, S) ==
    /\ IsList(a) /\ ToSet(a) = ToSet(s) \intersect S
    /\ \A x, y \in ToSet(a) : Position(a, x) < Position(a, y) <=> Position(s, x) < Position(s, y)

ListOrder(s, S) == {p \in S \X S : Position(s, p[1]) < Position(s, p[2])}

\* A list is an order of its elements.
LEMMA ListOrderIsOrder ==
    ASSUME NEW S, NEW s \in Seq(S), NEW T \in SUBSET ToSet(s)
    PROVE  StrictOrder(T, ListOrder(s, T))
<1>1. \A x \in T : Position(s, x) \in Nat /\ s[Position(s, x)] = x
  BY PositionIs
<1>2. \A x, y \in T : <<x, y>> \in ListOrder(s, T) <=> Position(s, x) < Position(s, y)
  BY DEF ListOrder
<1>3. \A x, y \in T : x # y => Position(s, x) # Position(s, y)
  BY <1>1
<1> QED
  BY <1>1, <1>2, <1>3 DEF StrictOrder

\* What is left of a list keeps its order.
LEMMA AmongIsLeft ==
    ASSUME NEW s, IsList(s), NEW S, NEW a, a = Among(s, S)
    PROVE  IsLeft(a, s, S)
<1>1. PICK T, R : T = ToSet(s) \intersect S /\ R = ListOrder(s, T)
  OBVIOUS
<1>2. s \in Seq(Item) /\ Unrepeated(s)
  BY DEF IsList
<1>3. IsFiniteSet(ToSet(s)) /\ ToSet(s) \subseteq Item
  BY <1>2, ListCount
<1>4. T \in SUBSET ToSet(s) /\ T \subseteq Item /\ IsFiniteSet(T)
  BY <1>1, <1>3, FS_Subset
<1>5. StrictOrder(T, R)
  BY <1>1, <1>2, <1>4, ListOrderIsOrder
<1>6. a = InOrder(T, R)
  BY <1>1, Zenon DEF Among, Sorted, ListOrder
<1>7. Whole(a, T, R)
  BY <1>4, <1>5, <1>6, WholeOfSorted
<1>8. /\ a \in Seq(T) /\ Unrepeated(a) /\ ToSet(a) = T
      /\ \A i, j \in DOMAIN a : i < j <=> <<a[i], a[j]>> \in R
  BY <1>7 DEF Whole
<1>9. a \in Seq(Item)
  BY <1>4, <1>8
<1>10. ASSUME NEW x \in T, NEW y \in T
       PROVE  Position(a, x) < Position(a, y) <=> Position(s, x) < Position(s, y)
  <2>1. /\ Position(a, x) \in DOMAIN a /\ a[Position(a, x)] = x
        /\ Position(a, y) \in DOMAIN a /\ a[Position(a, y)] = y
    BY <1>8, PositionIs
  <2>2. Position(a, x) < Position(a, y) <=> <<x, y>> \in R
    BY <1>8, <2>1
  <2>3. <<x, y>> \in R <=> Position(s, x) < Position(s, y)
    BY <1>1 DEF ListOrder
  <2> QED
    BY <2>2, <2>3
<1> QED
  BY <1>1, <1>8, <1>9, <1>10 DEF IsLeft, IsList

\* The beginning of a list is a list.
LEMMA PrefixOfList ==
    ASSUME NEW s, IsList(s), NEW m \in Nat, NEW p, p = Prefix(s, m)
    PROVE  IsList(p) /\ IsBeginning(p, s, m)
<1>1. s \in Seq(Item) /\ Unrepeated(s)
  BY DEF IsList
<1>2. p \in Seq(Item) /\ IsBeginning(p, s, m)
  BY <1>1, BeginningOfList
<1> QED
  BY <1>2 DEF IsBeginning, IsList

-----------------------------------------------------------------------------
\* A ranking is an order.
RankOrder(score, D) ==
    {p \in D \X D : score[p[1]] > score[p[2]] \/ (score[p[1]] = score[p[2]] /\ p[1] < p[2])}

\* By score and then by id is an order.
LEMMA RankOrderIsOrder ==
    ASSUME NEW D \in SUBSET Item, NEW score \in [D -> Nat]
    PROVE  IsFiniteSet(D) /\ StrictOrder(D, RankOrder(score, D))
<1>1. IsFiniteSet(D) /\ D \subseteq Nat
  BY RetrievalAssumption, FS_Subset
<1>2. \A x, y \in D : <<x, y>> \in RankOrder(score, D) <=>
                      score[x] > score[y] \/ (score[x] = score[y] /\ x < y)
  BY DEF RankOrder
<1>3. \A x \in D : x \in Nat /\ score[x] \in Nat
  BY <1>1
<1> QED
  BY <1>1, <1>2, <1>3 DEF StrictOrder

\* And what is ranked is in it.
LEMMA RankedIs ==
    ASSUME NEW D \in SUBSET Item, NEW score \in [D -> Nat]
    PROVE  Ranked(score) = InOrder(D, RankOrder(score, D))
<1>1. DOMAIN score = D
  OBVIOUS
<1> QED
  BY <1>1, Zenon DEF Ranked, Sorted, RankOrder

\* What the code may be asked about, and what is to be shown of an answer.

GraphOK ==
    /\ items \in SUBSET Item /\ links \in SUBSET Link
    /\ verdict \in [{l.id : l \in Link} -> Verdict]

-----------------------------------------------------------------------------
\* Search.

\* The scale is fine enough for every two ranks to differ.
LEMMA ReciprocalFalls ==
    ASSUME NEW N \in Nat, NEW i \in 1 .. N, NEW j \in 1 .. N
    PROVE  /\ Reciprocal(i, N) \in Nat /\ Reciprocal(j, N) \in Nat
           /\ i < j => Reciprocal(i, N) > Reciprocal(j, N)
<1>1. PICK M, K : M = 60 + N /\ K = 100000 * M * M
  OBVIOUS
<1>2. M \in Nat /\ M >= 60 /\ M * M \in Nat
  BY <1>1
<1>3. K \in Nat
  BY <1>1, <1>2
<1>4. PICK x, y : x = 60 + i /\ y = 60 + j
  OBVIOUS
<1>5. x \in Nat \ {0} /\ y \in Nat \ {0} /\ y <= M
  BY <1>1, <1>4
<1>6. Reciprocal(i, N) = K \div x /\ Reciprocal(j, N) = K \div y
  BY <1>1, <1>4 DEF Reciprocal
<1>7. PICK p, q : p = K \div x /\ q = K \div y
  OBVIOUS
<1>8. p \in Nat /\ p * x <= K /\ K < (p + 1) * x
  BY <1>3, <1>5, <1>7
<1>9. q \in Nat /\ q * y <= K /\ K < (q + 1) * y
  BY <1>3, <1>5, <1>7
<1>10. ASSUME i < j
       PROVE  p > q
  <2>1. x <= y - 1
    BY <1>4, <1>10
  <2>2. q + 1 > y
    <3>1. PICK z, w : z = M * M /\ w = y * y
      OBVIOUS
    <3>2. w <= z /\ w \in Nat /\ z \in Nat
      BY <1>2, <1>5, <3>1
    <3>3. K = 100000 * z
      BY <1>1, <1>2, <3>1
    <3>4. w <= K
      BY <3>2, <3>3
    <3>5. y * y < (q + 1) * y
      BY <1>3, <1>5, <1>9, <3>1, <3>2, <3>4
    <3> QED
      BY <1>5, <1>9, <3>5
  <2>3. ASSUME p <= q
        PROVE  FALSE
    <3>1. (p + 1) * x <= (q + 1) * (y - 1)
      BY <1>5, <1>8, <1>9, <2>1, <2>3
    <3>2. (q + 1) * (y - 1) = q * y + y - (q + 1)
      BY <1>5, <1>9
    <3> QED
      BY <1>3, <1>5, <1>8, <1>9, <2>2, <3>1, <3>2
  <2> QED
    BY <1>8, <1>9, <2>3
<1> QED
  BY <1>6, <1>7, <1>8, <1>9, <1>10

FusedRank(lexical, n) == IF Contains(lexical, n) THEN Position(lexical, n) ELSE Len(lexical) + 1

\* A fused score is a number.
LEMMA FusedIsNat ==
    ASSUME NEW lexical, IsList(lexical), NEW dense, IsList(dense), NEW n
    PROVE  Fused(lexical, dense, n) \in Nat
<1>1. PICK ranks : ranks = Len(lexical) + Len(dense) + 1
  OBVIOUS
<1>2. lexical \in Seq(Item) /\ dense \in Seq(Item)
  BY DEF IsList
<1>3. ranks \in Nat /\ Len(lexical) \in Nat /\ Len(dense) \in Nat
  BY <1>1, <1>2
<1>4. FusedRank(lexical, n) \in 1 .. ranks
  <2>1. CASE Contains(lexical, n)
    <3>1. Position(lexical, n) \in 1 .. Len(lexical)
      BY <1>2, <2>1, PositionIs
    <3> QED
      BY <1>1, <1>3, <2>1, <3>1 DEF FusedRank
  <2>2. CASE ~Contains(lexical, n)
    BY <1>1, <1>3, <2>2 DEF FusedRank
  <2> QED
    BY <2>1, <2>2
<1>5. Contains(dense, n) => Position(dense, n) \in 1 .. ranks
  <2>1. Contains(dense, n) => Position(dense, n) \in 1 .. Len(dense)
    BY <1>2, PositionIs
  <2> QED
    BY <1>1, <1>3, <2>1
<1>6. Reciprocal(FusedRank(lexical, n), ranks) \in Nat
  BY <1>3, <1>4, ReciprocalFalls
<1>7. Contains(dense, n) => Reciprocal(Position(dense, n), ranks) \in Nat
  BY <1>3, <1>5, ReciprocalFalls
<1>8. Fused(lexical, dense, n) = Reciprocal(FusedRank(lexical, n), ranks)
            + IF Contains(dense, n) THEN Reciprocal(Position(dense, n), ranks) ELSE 0
  BY <1>1, Zenon DEF Fused, FusedRank
<1> QED
  BY <1>6, <1>7, <1>8

\* What both lists put later scores less.
LEMMA FusedFalls ==
    ASSUME NEW lexical, IsList(lexical), NEW dense, IsList(dense),
           NEW a \in ToSet(lexical) \intersect ToSet(dense),
           NEW b \in ToSet(lexical) \intersect ToSet(dense),
           Position(lexical, a) < Position(lexical, b), Position(dense, a) < Position(dense, b)
    PROVE  Fused(lexical, dense, a) > Fused(lexical, dense, b)
<1>1. PICK N : N = Len(lexical) + Len(dense) + 1
  OBVIOUS
<1>2. lexical \in Seq(Item) /\ dense \in Seq(Item)
  BY DEF IsList
<1>3. N \in Nat /\ Len(lexical) \in Nat /\ Len(dense) \in Nat /\ Len(lexical) <= N /\ Len(dense) <= N
  BY <1>1, <1>2
<1>4. /\ Contains(lexical, a) /\ Contains(lexical, b) /\ Contains(dense, a) /\ Contains(dense, b)
      /\ Position(lexical, a) \in 1 .. Len(lexical) /\ Position(lexical, b) \in 1 .. Len(lexical)
      /\ Position(dense, a) \in 1 .. Len(dense) /\ Position(dense, b) \in 1 .. Len(dense)
  BY <1>2, PositionIs
<1>5. /\ Position(lexical, a) \in 1 .. N /\ Position(lexical, b) \in 1 .. N
      /\ Position(dense, a) \in 1 .. N /\ Position(dense, b) \in 1 .. N
  BY <1>3, <1>4
<1>6. /\ Reciprocal(Position(lexical, a), N) \in Nat /\ Reciprocal(Position(lexical, b), N) \in Nat
      /\ Reciprocal(Position(lexical, a), N) > Reciprocal(Position(lexical, b), N)
  BY <1>3, <1>5, ReciprocalFalls
<1>7. /\ Reciprocal(Position(dense, a), N) \in Nat /\ Reciprocal(Position(dense, b), N) \in Nat
      /\ Reciprocal(Position(dense, a), N) > Reciprocal(Position(dense, b), N)
  BY <1>3, <1>5, ReciprocalFalls
<1>8. /\ Fused(lexical, dense, a) = Reciprocal(Position(lexical, a), N) + Reciprocal(Position(dense, a), N)
      /\ Fused(lexical, dense, b) = Reciprocal(Position(lexical, b), N) + Reciprocal(Position(dense, b), N)
  BY <1>1, <1>4, Zenon DEF Fused
<1> QED
  BY <1>6, <1>7, <1>8

SearchOK(q, r) ==
    /\ \A n \in ToSet(q.lexical) \intersect items : Contains(r, n)
    /\ Cardinality(ToSet(r)) = Len(r)
    /\ \A i, j \in DOMAIN r :
           (/\ Contains(q.lexical, r[i]) /\ Contains(q.lexical, r[j])
            /\ Contains(q.dense, r[i]) /\ Contains(q.dense, r[j])
            /\ Position(q.lexical, r[i]) < Position(q.lexical, r[j])
            /\ Position(q.dense, r[i]) < Position(q.dense, r[j])) => i < j

\* Fused rows hold both lists, each node once, and in the order of its score.
LEMMA FusedRows ==
    ASSUME NEW lexical, IsList(lexical), NEW dense, IsList(dense), dense # <<>>,
           NEW r, r = FuseSearchRows(lexical, dense)
    PROVE  /\ r \in Seq(Item) /\ Unrepeated(r) /\ ToSet(r) = ToSet(lexical) \union ToSet(dense)
           /\ \A i, j \in DOMAIN r :
                 Fused(lexical, dense, r[i]) > Fused(lexical, dense, r[j]) => i < j
<1>1. PICK D : D = ToSet(lexical) \union ToSet(dense)
  OBVIOUS
<1>2. D \in SUBSET Item
  BY <1>1, ListCount DEF IsList
<1>3. PICK score : score = [n \in D |-> Fused(lexical, dense, n)]
  OBVIOUS
<1>4. score \in [D -> Nat]
  BY <1>3, FusedIsNat
<1>5. r = Ranked(score)
  BY <1>1, <1>3, Zenon DEF FuseSearchRows
<1>6. r = InOrder(D, RankOrder(score, D))
  BY <1>2, <1>4, <1>5, RankedIs
<1>7. Whole(r, D, RankOrder(score, D))
  BY <1>2, <1>4, <1>6, RankOrderIsOrder, WholeOfSorted
<1>8. /\ r \in Seq(D) /\ Unrepeated(r) /\ ToSet(r) = D
      /\ \A i, j \in DOMAIN r : i < j <=> <<r[i], r[j]>> \in RankOrder(score, D)
  BY <1>7 DEF Whole
<1>9. ASSUME NEW i \in DOMAIN r, NEW j \in DOMAIN r,
             Fused(lexical, dense, r[i]) > Fused(lexical, dense, r[j])
      PROVE  i < j
  <2>1. r[i] \in D /\ r[j] \in D
    BY <1>8
  <2>2. score[r[i]] > score[r[j]]
    BY <1>3, <1>9, <2>1
  <2>3. <<r[i], r[j]>> \in RankOrder(score, D)
    BY <2>1, <2>2 DEF RankOrder
  <2> QED
    BY <1>8, <2>3
<1> QED
  BY <1>1, <1>2, <1>8, <1>9

\* So search is as it should be.
LEMMA SearchIsRight ==
    ASSUME NEW q \in Search
    PROVE  SearchOK(q, SearchGraph(q))
<1>1. PICK lexical, dense : lexical = Present(q.lexical) /\ dense = Present(q.dense)
  OBVIOUS
<1>2. PICK r : r = SearchGraph(q)
  OBVIOUS
<1>3. IsList(q.lexical) /\ IsList(q.dense)
  BY QuestionAssumption
<1>4. IsLeft(lexical, q.lexical, items) /\ IsLeft(dense, q.dense, items)
  BY <1>1, <1>3, AmongIsLeft DEF Present
<1>5. IsList(lexical) /\ IsList(dense)
  BY <1>4 DEF IsLeft
<1>6. /\ lexical \in Seq(Item) /\ Unrepeated(lexical)
      /\ q.lexical \in Seq(Item) /\ q.dense \in Seq(Item)
  BY <1>3, <1>5 DEF IsList
<1>7. /\ ToSet(lexical) = ToSet(q.lexical) \intersect items
      /\ ToSet(dense) = ToSet(q.dense) \intersect items
      /\ \A x, y \in ToSet(lexical) :
             Position(lexical, x) < Position(lexical, y) <=> Position(q.lexical, x) < Position(q.lexical, y)
      /\ \A x, y \in ToSet(dense) :
             Position(dense, x) < Position(dense, y) <=> Position(q.dense, x) < Position(q.dense, y)
  BY <1>4 DEF IsLeft
<1>8. CASE dense = <<>>
  <2>1. r = lexical
    BY <1>1, <1>2, <1>8, Zenon DEF SearchGraph
  <2>2. \A n \in ToSet(q.lexical) \intersect items : Contains(r, n)
    BY <1>6, <1>7, <2>1, PositionIs
  <2>3. Cardinality(ToSet(r)) = Len(r)
    BY <1>6, <2>1, ListCount
  <2>4. ASSUME NEW i \in DOMAIN r, NEW j \in DOMAIN r,
               Position(q.lexical, r[i]) < Position(q.lexical, r[j])
        PROVE  i < j
    <3>1. /\ r[i] \in ToSet(lexical) /\ Position(lexical, r[i]) = i
          /\ r[j] \in ToSet(lexical) /\ Position(lexical, r[j]) = j
      BY <1>6, <2>1, PositionOf
    <3> QED
      BY <1>7, <2>4, <3>1
  <2> QED
    BY <1>2, <2>2, <2>3, <2>4 DEF SearchOK
<1>9. CASE dense # <<>>
  <2>1. r = FuseSearchRows(lexical, dense)
    BY <1>1, <1>2, <1>9, Zenon DEF SearchGraph
  <2>2. /\ r \in Seq(Item) /\ Unrepeated(r) /\ ToSet(r) = ToSet(lexical) \union ToSet(dense)
        /\ \A i, j \in DOMAIN r :
              Fused(lexical, dense, r[i]) > Fused(lexical, dense, r[j]) => i < j
    BY <1>5, <1>9, <2>1, FusedRows
  <2>3. \A n \in ToSet(q.lexical) \intersect items : Contains(r, n)
    BY <1>7, <2>2, PositionIs
  <2>4. Cardinality(ToSet(r)) = Len(r)
    BY <2>2, ListCount
  <2>5. ASSUME NEW i \in DOMAIN r, NEW j \in DOMAIN r,
               Contains(q.lexical, r[i]), Contains(q.lexical, r[j]),
               Contains(q.dense, r[i]), Contains(q.dense, r[j]),
               Position(q.lexical, r[i]) < Position(q.lexical, r[j]),
               Position(q.dense, r[i]) < Position(q.dense, r[j])
        PROVE  i < j
    <3>1. r[i] \in ToSet(r) /\ r[j] \in ToSet(r)
      BY DEF ToSet
    <3>2. /\ r[i] \in ToSet(q.lexical) /\ r[j] \in ToSet(q.lexical)
          /\ r[i] \in ToSet(q.dense) /\ r[j] \in ToSet(q.dense)
      BY <1>6, <2>5, PositionIs
    <3>3. r[i] \in items /\ r[j] \in items
      BY <1>7, <2>2, <3>1
    <3>4. /\ r[i] \in ToSet(lexical) \intersect ToSet(dense)
          /\ r[j] \in ToSet(lexical) \intersect ToSet(dense)
      BY <1>7, <3>2, <3>3
    <3>5. /\ Position(lexical, r[i]) < Position(lexical, r[j])
          /\ Position(dense, r[i]) < Position(dense, r[j])
      BY <1>7, <2>5, <3>4
    <3>6. Fused(lexical, dense, r[i]) > Fused(lexical, dense, r[j])
      BY <1>5, <3>4, <3>5, FusedFalls
    <3> QED
      BY <2>2, <3>6
  <2> QED
    BY <1>2, <2>3, <2>4, <2>5 DEF SearchOK
<1> QED
  BY <1>8, <1>9

\* Anchors.

DenseOK(dense) ==
    /\ \A h \in dense : h.id \in Item /\ h.score \in Nat
    /\ \A h, k \in dense : h.id = k.id => h = k

RouterCandidates(lexical, dense) == ToSet(lexical) \union {h.id : h \in dense}

\* How near a node is, if the embeddings know it.
Nearness(dense, n) ==
    IF \E h \in dense : h.id = n THEN (CHOOSE h \in dense : h.id = n).score ELSE 0

PlaceScore(lexical, count, n) ==
    IF Contains(lexical, n) THEN count + 1 - Position(lexical, n) ELSE 0

\* How near a node is: the score of its dense hit, if any.
LEMMA NearnessIs ==
    ASSUME NEW dense, DenseOK(dense), NEW n
    PROVE  /\ Nearness(dense, n) \in Nat
           /\ \A h \in dense : h.id = n => Nearness(dense, n) = h.score
<1>1. ASSUME NEW h \in dense, h.id = n
      PROVE  Nearness(dense, n) = h.score
  <2>1. (CHOOSE k \in dense : k.id = n) = h
    <3>1. /\ (CHOOSE k \in dense : k.id = n) \in dense
          /\ (CHOOSE k \in dense : k.id = n).id = n
      BY <1>1, Zenon
    <3> QED
      BY <1>1, <3>1, Zenon DEF DenseOK
  <2> QED
    BY <1>1, <2>1, Zenon DEF Nearness
<1>2. CASE \E h \in dense : h.id = n
  BY <1>1, <1>2 DEF DenseOK
<1>3. CASE ~\E h \in dense : h.id = n
  BY <1>3 DEF Nearness
<1> QED
  BY <1>1, <1>2, <1>3

\* What a candidate scores.
LEMMA AnchorScoreIs ==
    ASSUME NEW lexical, IsList(lexical), NEW dense, DenseOK(dense),
           NEW D, D = RouterCandidates(lexical, dense)
    PROVE  /\ D \in SUBSET Item /\ IsFiniteSet(D) /\ Cardinality(D) \in Nat
           /\ \A n : /\ PlaceScore(lexical, Cardinality(D), n) \in Nat
                     /\ AnchorScore(lexical, dense, n)
                            = 70 * PlaceScore(lexical, Cardinality(D), n)
                              + Cardinality(D) * (25 * Nearness(dense, n) + 50)
                     /\ AnchorScore(lexical, dense, n) \in Nat
           /\ \A n : Contains(lexical, n) =>
                 Position(lexical, n) \in Nat /\ Position(lexical, n) <= Cardinality(D)
<1>1. lexical \in Seq(Item) /\ Unrepeated(lexical)
  BY DEF IsList
<1>2. /\ Len(lexical) \in Nat /\ ToSet(lexical) \subseteq Item
      /\ Cardinality(ToSet(lexical)) = Len(lexical)
  BY <1>1, ListCount
<1>3. D \in SUBSET Item
  BY <1>2 DEF RouterCandidates, DenseOK
<1>4. IsFiniteSet(D)
  BY <1>3, RetrievalAssumption, FS_Subset
<1>5. PICK c : c = Cardinality(D)
  OBVIOUS
<1>6. c \in Nat
  BY <1>4, <1>5, FS_CardinalityType
<1>7. Len(lexical) <= c
  <2>1. ToSet(lexical) \in SUBSET D
    BY DEF RouterCandidates
  <2> QED
    BY <1>2, <1>4, <1>5, <2>1, FS_Subset
<1>8. ASSUME NEW n, Contains(lexical, n)
      PROVE  Position(lexical, n) \in 1 .. Len(lexical)
  BY <1>1, <1>8, PositionIs
<1>9. ASSUME NEW n, Contains(lexical, n)
      PROVE  Position(lexical, n) \in Nat /\ Position(lexical, n) <= c
  <2>1. Position(lexical, n) \in 1 .. Len(lexical)
    BY <1>8, <1>9
  <2> QED
    BY <1>2, <1>6, <1>7, <2>1
<1>10. ASSUME NEW n
       PROVE  PlaceScore(lexical, c, n) \in Nat
  <2>1. CASE Contains(lexical, n)
    <3>1. Position(lexical, n) \in Nat /\ Position(lexical, n) <= c
      BY <1>9, <2>1
    <3> QED
      BY <1>6, <2>1, <3>1 DEF PlaceScore
  <2>2. CASE ~Contains(lexical, n)
    BY <2>2 DEF PlaceScore
  <2> QED
    BY <2>1, <2>2
<1>11. ASSUME NEW n
       PROVE  AnchorScore(lexical, dense, n)
                  = 70 * PlaceScore(lexical, c, n) + c * (25 * Nearness(dense, n) + 50)
  BY <1>5, Zenon DEF AnchorScore, PlaceScore, Nearness, RouterCandidates
<1>12. ASSUME NEW n
       PROVE  70 * PlaceScore(lexical, c, n) + c * (25 * Nearness(dense, n) + 50) \in Nat
  <2>1. PICK x, y : x = PlaceScore(lexical, c, n) /\ y = 25 * Nearness(dense, n) + 50
    OBVIOUS
  <2>2. x \in Nat /\ y \in Nat
    BY <1>10, <2>1, NearnessIs
  <2>3. c * y \in Nat
    BY <1>6, <2>2
  <2> QED
    BY <2>1, <2>2, <2>3
<1> QED
  BY <1>3, <1>4, <1>5, <1>6, <1>9, <1>10, <1>11, <1>12

\* Better in both lists is better in all.
LEMMA AnchorScoreGrows ==
    ASSUME NEW lexical, IsList(lexical), NEW dense, DenseOK(dense), NEW n, NEW m,
           Contains(lexical, n),
           Contains(lexical, m) => Position(lexical, n) < Position(lexical, m),
           \A h \in dense : h.id = m => \E g \in dense : g.id = n /\ g.score >= h.score
    PROVE  AnchorScore(lexical, dense, n) > AnchorScore(lexical, dense, m)
<1>1. PICK D, c : D = RouterCandidates(lexical, dense) /\ c = Cardinality(D)
  OBVIOUS
<1>2. /\ c \in Nat
      /\ \A k : Contains(lexical, k) => Position(lexical, k) \in Nat /\ Position(lexical, k) <= c
      /\ \A k : AnchorScore(lexical, dense, k)
                  = 70 * PlaceScore(lexical, c, k) + c * (25 * Nearness(dense, k) + 50)
      /\ \A k : PlaceScore(lexical, c, k) \in Nat
  BY <1>1, AnchorScoreIs
<1>3. PICK p, r, x, y : /\ p = PlaceScore(lexical, c, n) /\ r = PlaceScore(lexical, c, m)
                        /\ x = Nearness(dense, n) /\ y = Nearness(dense, m)
  OBVIOUS
<1>4. p \in Nat /\ r \in Nat /\ x \in Nat /\ y \in Nat
  BY <1>2, <1>3, NearnessIs
<1>5. p > r
  <2>1. p = c + 1 - Position(lexical, n) /\ Position(lexical, n) \in Nat /\ Position(lexical, n) <= c
    BY <1>2, <1>3 DEF PlaceScore
  <2>2. CASE Contains(lexical, m)
    <3>1. r = c + 1 - Position(lexical, m) /\ Position(lexical, m) \in Nat
      BY <1>2, <1>3, <2>2 DEF PlaceScore
    <3> QED
      BY <1>2, <2>1, <2>2, <3>1
  <2>3. CASE ~Contains(lexical, m)
    <3>1. r = 0
      BY <1>3, <2>3 DEF PlaceScore
    <3> QED
      BY <1>2, <2>1, <3>1
  <2> QED
    BY <2>2, <2>3
<1>6. x >= y
  <2>1. CASE \E h \in dense : h.id = m
    <3>1. PICK h \in dense : h.id = m
      BY <2>1
    <3>2. PICK g \in dense : g.id = n /\ g.score >= h.score
      BY <3>1
    <3>3. x = g.score /\ y = h.score
      BY <1>3, <3>1, <3>2, NearnessIs
    <3> QED
      BY <3>2, <3>3
  <2>2. CASE ~\E h \in dense : h.id = m
    <3>1. y = 0
      BY <1>3, <2>2 DEF Nearness
    <3> QED
      BY <1>4, <3>1
  <2> QED
    BY <2>1, <2>2
<1>7. c * (25 * x + 50) >= c * (25 * y + 50)
  <2>1. PICK u, v : u = 25 * x + 50 /\ v = 25 * y + 50
    OBVIOUS
  <2>2. u \in Nat /\ v \in Nat /\ u >= v
    BY <1>4, <1>6, <2>1
  <2>3. c * u >= c * v
    BY <1>2, <2>2
  <2> QED
    BY <2>1, <2>3
<1>8. c * (25 * x + 50) \in Nat /\ c * (25 * y + 50) \in Nat
  <2>1. PICK u, v : u = 25 * x + 50 /\ v = 25 * y + 50
    OBVIOUS
  <2>2. u \in Nat /\ v \in Nat
    BY <1>4, <2>1
  <2>3. c * u \in Nat /\ c * v \in Nat
    BY <1>2, <2>2
  <2> QED
    BY <2>1, <2>3
<1>9. /\ AnchorScore(lexical, dense, n) = 70 * p + c * (25 * x + 50)
      /\ AnchorScore(lexical, dense, m) = 70 * r + c * (25 * y + 50)
  BY <1>2, <1>3
<1> QED
  BY <1>4, <1>5, <1>7, <1>8, <1>9

\* The router's anchors, the best first.
LEMMA RouterRanks ==
    ASSUME NEW lexical, IsList(lexical), NEW dense, DenseOK(dense),
           NEW a, a = RankAnchors(lexical, dense)
    PROVE  /\ IsList(a) /\ Len(a) <= MAX_ANCHORS /\ ToSet(a) \subseteq RouterCandidates(lexical, dense)
           /\ \A i, j \in DOMAIN a :
                 AnchorScore(lexical, dense, a[i]) > AnchorScore(lexical, dense, a[j]) => i < j
<1>1. PICK D : D = RouterCandidates(lexical, dense)
  OBVIOUS
<1>2. PICK score : score = [n \in D |-> AnchorScore(lexical, dense, n)]
  OBVIOUS
<1>3. D \in SUBSET Item /\ score \in [D -> Nat]
  BY <1>1, <1>2, AnchorScoreIs
<1>4. a = Prefix(Ranked(score), MAX_ANCHORS)
  BY <1>1, <1>2, Zenon DEF RankAnchors, HybridRetrieve, RouterCandidates
<1>5. a = Prefix(InOrder(D, RankOrder(score, D)), MAX_ANCHORS)
  BY <1>3, <1>4, RankedIs
<1>6. MAX_ANCHORS \in Nat
  BY RetrievalAssumption
<1>7. Best(a, D, RankOrder(score, D), MAX_ANCHORS)
  BY <1>3, <1>5, <1>6, RankOrderIsOrder, BestOfSorted
<1>8. /\ a \in Seq(D) /\ Unrepeated(a) /\ Len(a) <= MAX_ANCHORS /\ ToSet(a) \subseteq D
      /\ \A i, j \in DOMAIN a : i < j <=> <<a[i], a[j]>> \in RankOrder(score, D)
  BY <1>7 DEF Best
<1>9. IsList(a)
  BY <1>3, <1>8 DEF IsList
<1>10. ASSUME NEW i \in DOMAIN a, NEW j \in DOMAIN a,
              AnchorScore(lexical, dense, a[i]) > AnchorScore(lexical, dense, a[j])
       PROVE  i < j
  <2>1. a[i] \in D /\ a[j] \in D
    BY <1>8
  <2>2. score[a[i]] > score[a[j]]
    BY <1>2, <1>10, <2>1
  <2>3. <<a[i], a[j]>> \in RankOrder(score, D)
    BY <2>1, <2>2 DEF RankOrder
  <2> QED
    BY <1>8, <2>3
<1> QED
  BY <1>1, <1>8, <1>9, <1>10

\* What the query finds.
LEMMA QueryFinds ==
    ASSUME NEW q \in Question
    PROVE  /\ IsList(LexicalCandidates(q)) /\ ToSet(LexicalCandidates(q)) \subseteq items
           /\ DenseOK(DenseHits(q))
           /\ IsList(QueryAnchors(q)) /\ Len(QueryAnchors(q)) <= MAX_ANCHORS
           /\ ToSet(QueryAnchors(q)) \subseteq items
           /\ \A i, j \in DOMAIN QueryAnchors(q) :
                 AnchorScore(LexicalCandidates(q), DenseHits(q), QueryAnchors(q)[i])
                     > AnchorScore(LexicalCandidates(q), DenseHits(q), QueryAnchors(q)[j]) => i < j
<1>1. PICK s, p, d, a : /\ s = Present(q.lexical) /\ p = LexicalCandidates(q)
                        /\ d = DenseHits(q) /\ a = QueryAnchors(q)
  OBVIOUS
<1>2. IsList(q.lexical)
  BY QuestionAssumption
<1>3. IsLeft(s, q.lexical, items)
  BY <1>1, <1>2, AmongIsLeft DEF Present
<1>4. IsList(s) /\ ToSet(s) \subseteq items
  BY <1>3 DEF IsLeft
<1>5. 3 * MAX_ANCHORS \in Nat
  BY RetrievalAssumption
<1>6. p = Prefix(s, 3 * MAX_ANCHORS)
  BY <1>1, Zenon DEF LexicalCandidates
<1>7. IsList(p) /\ IsBeginning(p, s, 3 * MAX_ANCHORS)
  BY <1>4, <1>5, <1>6, PrefixOfList
<1>8. ToSet(p) \subseteq items
  BY <1>4, <1>7 DEF IsBeginning
<1>9. d \subseteq ToSet(q.dense) /\ \A h \in d : h.id \in items
  BY <1>1 DEF DenseHits
<1>10. DenseOK(d)
  BY <1>9, QuestionAssumption DEF DenseOK
<1>11. a = RankAnchors(p, d)
  BY <1>1, Zenon DEF QueryAnchors
<1>12. /\ IsList(a) /\ Len(a) <= MAX_ANCHORS /\ ToSet(a) \subseteq RouterCandidates(p, d)
       /\ \A i, j \in DOMAIN a : AnchorScore(p, d, a[i]) > AnchorScore(p, d, a[j]) => i < j
  BY <1>7, <1>10, <1>11, RouterRanks
<1>13. RouterCandidates(p, d) \subseteq items
  BY <1>8, <1>9 DEF RouterCandidates
<1>14. ToSet(a) \subseteq items
  BY <1>12, <1>13
<1> QED
  BY <1>1, <1>7, <1>8, <1>10, <1>12, <1>14

\* The focal node goes first.
LEMMA FocalFirst ==
    ASSUME NEW f \in items, items \in SUBSET Item, NEW found, IsList(found),
           NEW rest, rest = Among(found, items \ {f}),
           NEW a, a = Prefix(<<f>> \o rest, MAX_ANCHORS)
    PROVE  /\ IsList(a) /\ Len(a) <= MAX_ANCHORS /\ ToSet(a) \subseteq items
           /\ 1 \in DOMAIN a /\ a[1] = f
<1>1. IsLeft(rest, found, items \ {f})
  BY AmongIsLeft
<1>2. rest \in Seq(Item) /\ Unrepeated(rest) /\ ToSet(rest) \subseteq items \ {f}
  BY <1>1 DEF IsLeft, IsList
<1>3. PICK k, s : k = Len(rest) /\ s = <<f>> \o rest
  OBVIOUS
<1>4. k \in Nat /\ DOMAIN rest = 1 .. k /\ \A i \in 1 .. k : rest[i] \in items \ {f}
  <2>1. k \in Nat /\ DOMAIN rest = 1 .. k
    BY <1>2, <1>3
  <2> QED
    BY <1>2, <2>1 DEF ToSet
<1>5. f \in Item
  OBVIOUS
<1>6. /\ s \in Seq(Item) /\ Len(s) = k + 1 /\ DOMAIN s = 1 .. k + 1 /\ s[1] = f
      /\ \A i \in 2 .. k + 1 : s[i] = rest[i - 1]
  BY <1>2, <1>3, <1>4, <1>5
<1>7. Unrepeated(s)
  <2> SUFFICES ASSUME NEW i \in 1 .. k + 1, NEW j \in 1 .. k + 1, i < j
               PROVE  s[i] # s[j]
    BY <1>4, <1>6 DEF Unrepeated
  <2>1. j \in 2 .. k + 1 /\ j - 1 \in 1 .. k /\ s[j] = rest[j - 1]
    <3>1. k \in Nat /\ \A x \in 2 .. k + 1 : s[x] = rest[x - 1]
      BY <1>4, <1>6
    <3>2. j \in 2 .. k + 1 /\ j - 1 \in 1 .. k
      BY <3>1
    <3> QED
      BY <3>1, <3>2
  <2>2. CASE i = 1
    BY <1>4, <1>6, <2>1, <2>2
  <2>3. CASE i # 1
    <3>1. i \in 2 .. k + 1 /\ i - 1 \in 1 .. k /\ i - 1 # j - 1
      BY <1>4, <2>3
    <3>2. s[i] = rest[i - 1]
      BY <1>6, <3>1
    <3> QED
      BY <1>2, <1>4, <2>1, <3>1, <3>2 DEF Unrepeated
  <2> QED
    BY <2>2, <2>3
<1>8. \A i \in 1 .. k + 1 : s[i] \in items
  <2> SUFFICES ASSUME NEW i \in 1 .. k + 1
               PROVE  s[i] \in items
    OBVIOUS
  <2>1. CASE i = 1
    BY <1>6, <2>1
  <2>2. CASE i # 1
    <3>1. i \in 2 .. k + 1 /\ i - 1 \in 1 .. k
      BY <1>4, <2>2
    <3> QED
      BY <1>4, <1>6, <3>1
  <2> QED
    BY <2>1, <2>2
<1>9. ToSet(s) \subseteq items
  BY <1>6, <1>8 DEF ToSet
<1>10. IsList(s)
  BY <1>6, <1>7 DEF IsList
<1>11. MAX_ANCHORS \in Nat /\ MAX_ANCHORS >= 1
  BY RetrievalAssumption
<1>12. IsList(a) /\ IsBeginning(a, s, MAX_ANCHORS)
  BY <1>3, <1>10, <1>11, PrefixOfList
<1>13. /\ Len(a) \in Nat /\ DOMAIN a = 1 .. Len(a) /\ Len(a) <= MAX_ANCHORS
       /\ Len(a) = Len(s) \/ Len(a) = MAX_ANCHORS
       /\ \A i \in DOMAIN a : a[i] = s[i]
       /\ ToSet(a) \subseteq ToSet(s)
  BY <1>12 DEF IsBeginning
<1>14. 1 \in DOMAIN a
  BY <1>4, <1>6, <1>11, <1>13
<1> QED
  BY <1>6, <1>9, <1>12, <1>13, <1>14

-----------------------------------------------------------------------------
\* A cluster that is routed to has an anchor.
LEMMA RouteAnchorIs ==
    ASSUME NEW g \in Group
    PROVE  RouteAnchor(g) = 0 \/ RouteAnchor(g) \in items
<1>1. PICK m : m = RouteMembers(g)
  OBVIOUS
<1>2. IsList(g.members)
  BY RetrievalAssumption
<1>3. IsLeft(m, g.members, items)
  BY <1>1, <1>2, AmongIsLeft DEF RouteMembers, Present
<1>4. m \in Seq(Item) /\ ToSet(m) \subseteq items
  BY <1>3 DEF IsLeft, IsList
<1>5. m # <<>> => m[1] \in items
  <2>1. m # <<>> => 1 \in DOMAIN m
    BY <1>4
  <2> QED
    BY <1>4, <2>1 DEF ToSet
<1> QED
  BY <1>1, <1>5, Zenon DEF RouteAnchor

RoutesOK(routes) ==
    /\ routes \in Seq(Group)
    /\ DOMAIN routes = 1 .. Len(routes) /\ Len(routes) \in Nat
    /\ \A i \in DOMAIN routes : RouteAnchor(routes[i]) \in items

OpenRoutes(q) ==
    {g \in Group : /\ standing[g.id] \notin {"archived", "rejected"}
                   /\ RouteAnchor(g) # 0
                   /\ q.hits[g.id] > 0}
RouteScore(q, g) == 1000 * q.hits[g.id] + StatusWeight(standing[g.id]) + g.confidence
RouteOrder(q, S) ==
    {p \in S \X S : \/ RouteScore(q, p[1]) > RouteScore(q, p[2])
                    \/ RouteScore(q, p[1]) = RouteScore(q, p[2]) /\ p[1].id < p[2].id}

\* Clusters are ranked by score and then by id.
LEMMA RoutesAreOrdered ==
    ASSUME NEW q \in Question
    PROVE  /\ IsFiniteSet(OpenRoutes(q))
           /\ StrictOrder(OpenRoutes(q), RouteOrder(q, OpenRoutes(q)))
<1>1. PICK S : S = OpenRoutes(q)
  OBVIOUS
<1>2. S \in SUBSET Group
  BY <1>1 DEF OpenRoutes
<1>3. IsFiniteSet(S)
  BY <1>2, RetrievalAssumption, FS_Subset
<1>4. ASSUME NEW g \in S
      PROVE  g.id \in Nat /\ RouteScore(q, g) \in Nat
  <2>1. g.id \in Nat /\ g.confidence \in Nat
    BY <1>2, RetrievalAssumption
  <2>2. q.hits[g.id] \in Nat
    BY <1>2, QuestionAssumption
  <2>3. StatusWeight(standing[g.id]) \in Nat
    BY DEF StatusWeight
  <2> QED
    BY <2>1, <2>2, <2>3 DEF RouteScore
<1>5. \A g, h \in S : g.id = h.id => g = h
  BY <1>2, RetrievalAssumption
<1>6. PICK R : R = RouteOrder(q, S)
  OBVIOUS
<1>7. \A g, h \in S : <<g, h>> \in R <=> \/ RouteScore(q, g) > RouteScore(q, h)
                                         \/ RouteScore(q, g) = RouteScore(q, h) /\ g.id < h.id
  BY <1>6 DEF RouteOrder
<1>8. StrictOrder(S, R)
  <2>1. \A g \in S : <<g, g>> \notin R
    BY <1>4, <1>7
  <2>2. ASSUME NEW g \in S, NEW h \in S, NEW k \in S, <<g, h>> \in R, <<h, k>> \in R
        PROVE  <<g, k>> \in R
    <3>1. /\ g.id \in Nat /\ h.id \in Nat /\ k.id \in Nat
          /\ RouteScore(q, g) \in Nat /\ RouteScore(q, h) \in Nat /\ RouteScore(q, k) \in Nat
      BY <1>4
    <3> QED
      BY <1>7, <2>2, <3>1
  <2>3. ASSUME NEW g \in S, NEW h \in S, g # h
        PROVE  <<g, h>> \in R \/ <<h, g>> \in R
    <3>1. g.id \in Nat /\ h.id \in Nat /\ RouteScore(q, g) \in Nat /\ RouteScore(q, h) \in Nat
      BY <1>4
    <3>2. g.id # h.id
      BY <1>5, <2>3
    <3> QED
      BY <1>7, <3>1, <3>2
  <2> QED
    BY <2>1, <2>2, <2>3, Zenon DEF StrictOrder
<1> QED
  BY <1>1, <1>3, <1>6, <1>8

\* The clusters a question is routed to have an anchor that is there.
LEMMA RoutesAreOK ==
    ASSUME NEW q \in Question, NEW routes, routes = ClusterRoutes(q)
    PROVE  RoutesOK(routes)
<1>1. CASE ~q.asked
  <2>1. routes = <<>>
    BY <1>1, Zenon DEF ClusterRoutes
  <2> QED
    BY <2>1 DEF RoutesOK
<1>2. CASE q.asked
  <2>1. PICK S, R : S = OpenRoutes(q) /\ R = RouteOrder(q, S)
    OBVIOUS
  <2>2. routes = Prefix(InOrder(S, R), MAX_ANCHORS)
    BY <1>2, <2>1, Zenon DEF ClusterRoutes, Sorted, OpenRoutes, RouteOrder, RouteScore
  <2>3. MAX_ANCHORS \in Nat
    BY RetrievalAssumption
  <2>4. Best(routes, S, R, MAX_ANCHORS)
    BY <2>1, <2>2, <2>3, RoutesAreOrdered, BestOfSorted
  <2>5. routes \in Seq(S) /\ DOMAIN routes = 1 .. Len(routes) /\ Len(routes) \in Nat
    BY <2>4 DEF Best
  <2>6. S \subseteq Group /\ \A g \in S : RouteAnchor(g) # 0
    BY <2>1 DEF OpenRoutes
  <2>7. routes \in Seq(Group)
    BY <2>5, <2>6
  <2>8. ASSUME NEW i \in DOMAIN routes
        PROVE  RouteAnchor(routes[i]) \in items
    <3>1. routes[i] \in S
      BY <2>5
    <3> QED
      BY <2>6, <3>1, RouteAnchorIs
  <2> QED
    BY <2>5, <2>7, <2>8 DEF RoutesOK
<1> QED
  BY <1>1, <1>2

FirstRoute(routes, n) ==
    CHOOSE i \in DOMAIN routes :
        /\ RouteAnchor(routes[i]) = n
        /\ \A j \in DOMAIN routes : RouteAnchor(routes[j]) = n => i <= j
RoutedAnchors(routes) == {RouteAnchor(routes[i]) : i \in DOMAIN routes}
RoutedOrder(routes, S) == {p \in S \X S : FirstRoute(routes, p[1]) < FirstRoute(routes, p[2])}

\* Each anchor of the routes has a first route, and another has another.
LEMMA RoutedAreOrdered ==
    ASSUME NEW routes, RoutesOK(routes), items \in SUBSET Item
    PROVE  /\ RoutedAnchors(routes) \in SUBSET items /\ IsFiniteSet(RoutedAnchors(routes))
           /\ StrictOrder(RoutedAnchors(routes), RoutedOrder(routes, RoutedAnchors(routes)))
<1>1. PICK S, R : S = RoutedAnchors(routes) /\ R = RoutedOrder(routes, S)
  OBVIOUS
<1>2. DOMAIN routes \subseteq Nat
  BY DEF RoutesOK
<1>3. S \in SUBSET items
  BY <1>1 DEF RoutesOK, RoutedAnchors
<1>4. IsFiniteSet(S)
  <2>1. S \in SUBSET Item
    BY <1>3
  <2> QED
    BY <2>1, RetrievalAssumption, FS_Subset
<1>5. ASSUME NEW n \in S
      PROVE  FirstRoute(routes, n) \in Nat /\ RouteAnchor(routes[FirstRoute(routes, n)]) = n
  <2>1. PICK T : T = {i \in DOMAIN routes : RouteAnchor(routes[i]) = n}
    OBVIOUS
  <2>2. T \in SUBSET Nat /\ T # {}
    BY <1>1, <1>2, <2>1 DEF RoutedAnchors
  <2>3. \E i \in T : \A j \in T : i <= j
    BY <2>2, LeastNumber
  <2>4. \E i \in DOMAIN routes :
           /\ RouteAnchor(routes[i]) = n
           /\ \A j \in DOMAIN routes : RouteAnchor(routes[j]) = n => i <= j
    BY <2>1, <2>3
  <2>5. FirstRoute(routes, n) \in DOMAIN routes /\ RouteAnchor(routes[FirstRoute(routes, n)]) = n
    BY <2>4, Zenon DEF FirstRoute
  <2> QED
    BY <1>2, <2>5
<1>6. \A m, n \in S : <<m, n>> \in R <=> FirstRoute(routes, m) < FirstRoute(routes, n)
  BY <1>1 DEF RoutedOrder
<1>7. \A m, n \in S : m # n => FirstRoute(routes, m) # FirstRoute(routes, n)
  BY <1>5
<1>8. \A n \in S : FirstRoute(routes, n) \in Nat
  BY <1>5
<1>9. StrictOrder(S, R)
  BY <1>6, <1>7, <1>8 DEF StrictOrder
<1> QED
  BY <1>1, <1>3, <1>4, <1>9

-----------------------------------------------------------------------------
AnchorsOK(q, routed, a) ==
    LET lexical == LexicalCandidates(q)
        Near(n) == {h \in ToSet(q.dense) : h.id = n}
    IN  /\ ToSet(a) \subseteq items /\ Len(a) <= MAX_ANCHORS
        /\ q.focal # 0 /\ ~routed => a[1] = q.focal
        /\ q.focal = 0 /\ ~routed =>
              \A i, j \in DOMAIN a :
                  (/\ Contains(lexical, a[i])
                   /\ Contains(lexical, a[j]) => Position(lexical, a[i]) < Position(lexical, a[j])
                   /\ \A h \in Near(a[j]) : \E g \in Near(a[i]) : g.score >= h.score)
                  => i < j

\* So the anchors are right, and no node is one twice.
LEMMA AnchorsAreOK ==
    ASSUME NEW q \in Question, items \in SUBSET Item,
           q.asked \/ q.focal # 0, q.focal # 0 => q.focal \in items,
           NEW routes, RoutesOK(routes), NEW a, a = Anchors(q, routes)
    PROVE  AnchorsOK(q, routes # <<>>, a) /\ IsList(a)
<1>1. MAX_ANCHORS \in Nat
  BY RetrievalAssumption
<1>2. CASE routes # <<>>
  <2>1. PICK S, R : S = RoutedAnchors(routes) /\ R = RoutedOrder(routes, S)
    OBVIOUS
  <2>2. a = Prefix(InOrder(S, R), MAX_ANCHORS)
    BY <1>2, <2>1, Zenon DEF Anchors, Sorted, RoutedAnchors, RoutedOrder, FirstRoute
  <2>3. S \in SUBSET items /\ IsFiniteSet(S) /\ StrictOrder(S, R)
    BY <2>1, RoutedAreOrdered
  <2>4. Best(a, S, R, MAX_ANCHORS)
    BY <1>1, <2>2, <2>3, BestOfSorted
  <2>5. a \in Seq(S) /\ Unrepeated(a) /\ Len(a) <= MAX_ANCHORS /\ ToSet(a) \subseteq S
    BY <2>4 DEF Best
  <2>6. a \in Seq(Item)
    BY <2>3, <2>5
  <2> QED
    BY <1>2, <2>3, <2>5, <2>6 DEF AnchorsOK, IsList
<1>3. CASE routes = <<>> /\ q.focal # 0
  <2>1. a = DirectAnchors(q)
    BY <1>3, Zenon DEF Anchors
  <2>2. PICK found : found = IF q.asked THEN QueryAnchors(q) ELSE <<>>
    OBVIOUS
  <2>3. IsList(found)
    <3>1. CASE q.asked
      BY <2>2, <3>1, QueryFinds
    <3>2. CASE ~q.asked
      <4>1. found = <<>>
        BY <2>2, <3>2
      <4> QED
        BY <4>1 DEF IsList, Unrepeated
    <3> QED
      BY <3>1, <3>2
  <2>4. a = Prefix(<<q.focal>> \o Among(found, items \ {q.focal}), MAX_ANCHORS)
    BY <1>3, <2>1, <2>2, Zenon DEF DirectAnchors
  <2>5. q.focal \in items
    BY <1>3
  <2>6. /\ IsList(a) /\ Len(a) <= MAX_ANCHORS /\ ToSet(a) \subseteq items
        /\ a[1] = q.focal
    BY <2>3, <2>4, <2>5, FocalFirst
  <2> QED
    BY <1>3, <2>6 DEF AnchorsOK
<1>4. CASE routes = <<>> /\ q.focal = 0
  <2>1. a = DirectAnchors(q)
    BY <1>4, Zenon DEF Anchors
  <2>2. q.asked
    BY <1>4
  <2>3. a = QueryAnchors(q)
    BY <1>4, <2>1, <2>2, Zenon DEF DirectAnchors
  <2>4. PICK lexical, dense : lexical = LexicalCandidates(q) /\ dense = DenseHits(q)
    OBVIOUS
  <2>5. /\ IsList(lexical) /\ DenseOK(dense)
        /\ IsList(a) /\ Len(a) <= MAX_ANCHORS /\ ToSet(a) \subseteq items
        /\ \A i, j \in DOMAIN a :
              AnchorScore(lexical, dense, a[i]) > AnchorScore(lexical, dense, a[j]) => i < j
    BY <2>3, <2>4, QueryFinds
  <2>6. ASSUME NEW i \in DOMAIN a, NEW j \in DOMAIN a,
               Contains(lexical, a[i]),
               Contains(lexical, a[j]) => Position(lexical, a[i]) < Position(lexical, a[j]),
               \A h \in {k \in ToSet(q.dense) : k.id = a[j]} :
                   \E g \in {k \in ToSet(q.dense) : k.id = a[i]} : g.score >= h.score
        PROVE  i < j
    <3>1. a[i] \in items /\ a[j] \in items
      BY <2>5 DEF ToSet
    <3>2. \A h \in dense : h.id = a[j] => \E g \in dense : g.id = a[i] /\ g.score >= h.score
      BY <2>4, <2>6, <3>1 DEF DenseHits
    <3>3. AnchorScore(lexical, dense, a[i]) > AnchorScore(lexical, dense, a[j])
      BY <2>5, <2>6, <3>2, AnchorScoreGrows
    <3> QED
      BY <2>5, <3>3
  <2> QED
    BY <1>4, <2>4, <2>5, <2>6 DEF AnchorsOK
<1> QED
  BY <1>2, <1>3, <1>4

\* Expansion.

LEMMA NeighboursBothWays ==
    /\ \A m, n : m \in Neighbours(n) <=> n \in Neighbours(m)
    /\ links \in SUBSET Link => \A n : Neighbours(n) \subseteq Item
<1>1. ASSUME NEW m, NEW n
      PROVE  m \in Neighbours(n) <=> \E l \in links : \/ l.source = n /\ l.target = m
                                                      \/ l.target = n /\ l.source = m
  BY DEF Neighbours
<1>2. ASSUME NEW m, NEW n
      PROVE  m \in Neighbours(n) <=> n \in Neighbours(m)
  BY <1>1
<1>3. ASSUME links \in SUBSET Link, NEW n, NEW m \in Neighbours(n)
      PROVE  m \in Item
  <2>1. PICK l \in links : \/ l.source = n /\ l.target = m
                           \/ l.target = n /\ l.source = m
    BY <1>1, <1>3
  <2>2. l.source \in Item /\ l.target \in Item
    BY <1>3, RetrievalAssumption
  <2> QED
    BY <2>1, <2>2
<1> QED
  BY <1>2, <1>3

\* What one level of the search adds.
NextLevel(depths, d) ==
    (UNION {Neighbours(n) : n \in {m \in DOMAIN depths : depths[m] = d}}) \ DOMAIN depths

IsLevel(f, depths, d) ==
    /\ DOMAIN f = DOMAIN depths \union NextLevel(depths, d)
    /\ \A n \in DOMAIN depths : f[n] = depths[n]
    /\ \A n \in NextLevel(depths, d) : f[n] = d + 1
    /\ \A n : n \in NextLevel(depths, d) <=>
                 /\ n \notin DOMAIN depths
                 /\ \E m \in DOMAIN depths : depths[m] = d /\ n \in Neighbours(m)

\* One level adds the neighbours of the last one.
LEMMA LevelIs ==
    ASSUME NEW depths, NEW d \in Nat, NEW f, f = Level(depths, d)
    PROVE  IsLevel(f, depths, d)
<1>1. PICK N : N = NextLevel(depths, d)
  OBVIOUS
<1>2. f = [n \in DOMAIN depths \union N |-> IF n \in N THEN d + 1 ELSE depths[n]]
  BY <1>1, Zenon DEF Level, NextLevel
<1>3. \A n : n \in N <=> /\ n \notin DOMAIN depths
                         /\ \E m \in DOMAIN depths : depths[m] = d /\ n \in Neighbours(m)
  BY <1>1 DEF NextLevel
<1> QED
  BY <1>1, <1>2, <1>3 DEF IsLevel

IsDepthMap(e, A) ==
    /\ DOMAIN e \subseteq Item /\ A \subseteq DOMAIN e
    /\ \A n \in DOMAIN e : e[n] = Distance(A, n)

\* How far a node is, by cases.
LEMMA DistanceIs ==
    ASSUME NEW A, NEW n
    PROVE  /\ Distance(A, n) \in {0, 1, 2}
           /\ n \in A => Distance(A, n) = 0
           /\ n \notin A /\ (\E a \in A : a \in Neighbours(n)) => Distance(A, n) = 1
           /\ n \notin A /\ ~(\E a \in A : a \in Neighbours(n)) => Distance(A, n) = 2
BY DEF Distance

\* The search finds the nodes of up to two hops and says how far they are.
LEMMA Expansion ==
    ASSUME links \in SUBSET Link, NEW a, IsList(a), NEW depth \in {1, 2},
           NEW e, e = ExpandNeighborhood(a, depth)
    PROVE  IsDepthMap(e, ToSet(a))
<1>1. PICK A, start, f : A = ToSet(a) /\ start = [n \in A |-> 0] /\ f = Level(start, 0)
  OBVIOUS
<1>2. A \subseteq Item
  BY <1>1, ListCount DEF IsList
<1>3. DOMAIN start = A /\ \A n \in A : start[n] = 0
  BY <1>1
<1>4. /\ DOMAIN f = A \union NextLevel(start, 0)
      /\ \A n \in A : f[n] = 0
      /\ \A n \in NextLevel(start, 0) : f[n] = 1
      /\ \A n : n \in NextLevel(start, 0) <=> n \notin A /\ \E m \in A : n \in Neighbours(m)
  <2>1. /\ DOMAIN f = A \union NextLevel(start, 0)
        /\ \A n \in A : f[n] = start[n]
        /\ \A n \in NextLevel(start, 0) : f[n] = 0 + 1
        /\ \A n : n \in NextLevel(start, 0) <=>
                     n \notin A /\ \E m \in A : start[m] = 0 /\ n \in Neighbours(m)
    <3>1. IsLevel(f, start, 0)
      BY <1>1, LevelIs
    <3> QED
      BY <1>3, <3>1 DEF IsLevel
  <2> QED
    BY <1>3, <2>1
<1>5. IsDepthMap(f, A)
  <2>1. DOMAIN f \subseteq Item
    BY <1>2, <1>4, NeighboursBothWays
  <2>2. ASSUME NEW n \in DOMAIN f
        PROVE  f[n] = Distance(A, n)
    <3>1. CASE n \in A
      BY <1>4, <3>1, DistanceIs
    <3>2. CASE n \notin A
      <4>1. n \in NextLevel(start, 0)
        BY <1>4, <3>2
      <4>2. PICK m \in A : m \in Neighbours(n)
        BY <1>4, <4>1, NeighboursBothWays
      <4>3. Distance(A, n) = 1
        BY <3>2, <4>2, DistanceIs
      <4> QED
        BY <1>4, <4>1, <4>3
    <3> QED
      BY <3>1, <3>2
  <2> QED
    BY <1>4, <2>1, <2>2 DEF IsDepthMap
<1>6. CASE Least(depth, DEPTH_MAX) = 1
  <2>1. e = f
    BY <1>1, <1>6, Zenon DEF ExpandNeighborhood
  <2> QED
    BY <1>1, <1>5, <2>1
<1>7. CASE Least(depth, DEPTH_MAX) # 1
  <2>1. e = Level(f, 1)
    BY <1>1, <1>7, Zenon DEF ExpandNeighborhood
  <2>2. /\ DOMAIN e = DOMAIN f \union NextLevel(f, 1)
        /\ \A n \in DOMAIN f : e[n] = f[n]
        /\ \A n \in NextLevel(f, 1) : e[n] = 2
        /\ \A n : n \in NextLevel(f, 1) <=>
                     n \notin DOMAIN f /\ \E m \in DOMAIN f : f[m] = 1 /\ n \in Neighbours(m)
    <3>1. /\ DOMAIN e = DOMAIN f \union NextLevel(f, 1)
          /\ \A n \in DOMAIN f : e[n] = f[n]
          /\ \A n \in NextLevel(f, 1) : e[n] = 1 + 1
          /\ \A n : n \in NextLevel(f, 1) <=>
                       n \notin DOMAIN f /\ \E m \in DOMAIN f : f[m] = 1 /\ n \in Neighbours(m)
      <4>1. IsLevel(e, f, 1)
        BY <2>1, LevelIs
      <4> QED
        BY <4>1, Zenon DEF IsLevel
    <3> QED
      BY <3>1
  <2>3. DOMAIN e \subseteq Item /\ A \subseteq DOMAIN e
    <3>1. NextLevel(f, 1) \subseteq Item
      BY <2>2, NeighboursBothWays
    <3> QED
      BY <1>5, <2>2, <3>1 DEF IsDepthMap
  <2>4. ASSUME NEW n \in DOMAIN e
        PROVE  e[n] = Distance(A, n)
    <3>1. CASE n \in DOMAIN f
      BY <1>5, <2>2, <3>1 DEF IsDepthMap
    <3>2. CASE n \notin DOMAIN f
      <4>1. n \in NextLevel(f, 1) /\ e[n] = 2
        BY <2>2, <3>2
      <4>2. n \notin A /\ n \notin NextLevel(start, 0)
        BY <1>4, <3>2
      <4>3. ~\E m \in A : m \in Neighbours(n)
        BY <1>4, <4>2, NeighboursBothWays
      <4> QED
        BY <4>1, <4>2, <4>3, DistanceIs
    <3> QED
      BY <3>1, <3>2
  <2> QED
    BY <1>1, <2>3, <2>4 DEF IsDepthMap
<1> QED
  BY <1>6, <1>7

ReachOK(routed, A, r) ==
    /\ DOMAIN r \subseteq Item /\ A \subseteq DOMAIN r
    /\ \A n \in A : r[n] = 0
    /\ \A n \in DOMAIN r : /\ r[n] \in Nat
                           /\ r[n] = Distance(A, n) \/ (routed /\ r[n] = 1)

\* The members of a route are a hop away.
LEMMA ReachIs ==
    ASSUME NEW q \in Question, items \in SUBSET Item, links \in SUBSET Link,
           NEW routes, RoutesOK(routes), NEW a, IsList(a), NEW r, r = Reach(q, routes, a)
    PROVE  ReachOK(routes # <<>>, ToSet(a), r)
<1>1. PICK A, e, k, M : /\ A = ToSet(a) /\ e = ExpandNeighborhood(a, q.depth)
                        /\ k = Least(q.limit, ROUTE_MEMBER_LIMIT)
                        /\ M = UNION {ToSet(Prefix(RouteMembers(routes[i]), k)) : i \in DOMAIN routes}
  OBVIOUS
<1>2. q.depth \in {1, 2} /\ q.limit \in Nat
  BY QuestionAssumption
<1>3. IsDepthMap(e, A)
  BY <1>1, <1>2, Expansion
<1>4. r = [n \in DOMAIN e \union M |-> IF n \in DOMAIN e THEN e[n] ELSE 1]
  BY <1>1, Zenon DEF Reach
<1>5. k \in Nat
  BY <1>1, <1>2, RetrievalAssumption DEF Least
<1>6. M \subseteq items
  <2> SUFFICES ASSUME NEW i \in DOMAIN routes
               PROVE  ToSet(Prefix(RouteMembers(routes[i]), k)) \subseteq items
    BY <1>1
  <2>1. PICK g, m, p : g = routes[i] /\ m = RouteMembers(g) /\ p = Prefix(m, k)
    OBVIOUS
  <2>2. g \in Group
    BY <2>1 DEF RoutesOK
  <2>3. IsList(g.members)
    BY <2>2, RetrievalAssumption
  <2>4. IsLeft(m, g.members, items)
    BY <2>1, <2>3, AmongIsLeft DEF RouteMembers, Present
  <2>5. IsList(m) /\ ToSet(m) \subseteq items
    BY <2>4 DEF IsLeft
  <2>6. IsBeginning(p, m, k)
    BY <1>5, <2>1, <2>5, PrefixOfList
  <2> QED
    BY <2>1, <2>5, <2>6 DEF IsBeginning
<1>7. routes = <<>> => M = {}
  BY <1>1
<1>8. DOMAIN r = DOMAIN e \union M
  BY <1>4
<1>9. \A n \in A : r[n] = 0
  BY <1>3, <1>4, DistanceIs DEF IsDepthMap
<1>10. ASSUME NEW n \in DOMAIN r
       PROVE  r[n] \in Nat /\ (r[n] = Distance(A, n) \/ (routes # <<>> /\ r[n] = 1))
  <2>1. CASE n \in DOMAIN e
    BY <1>3, <1>4, <2>1, DistanceIs DEF IsDepthMap
  <2>2. CASE n \notin DOMAIN e
    <3>1. n \in M /\ r[n] = 1
      BY <1>4, <1>8, <2>2
    <3> QED
      BY <1>7, <3>1
  <2> QED
    BY <2>1, <2>2
<1> QED
  BY <1>1, <1>3, <1>6, <1>8, <1>9, <1>10 DEF ReachOK, IsDepthMap

-----------------------------------------------------------------------------
NearOrder(r, S) == {p \in S \X S : r[p[1]] < r[p[2]] \/ (r[p[1]] = r[p[2]] /\ p[1] < p[2])}

\* By distance and then by id is an order.
LEMMA NearOrderIsOrder ==
    ASSUME NEW S \in SUBSET Item, NEW r, \A n \in S : r[n] \in Nat
    PROVE  IsFiniteSet(S) /\ StrictOrder(S, NearOrder(r, S))
<1>1. IsFiniteSet(S) /\ S \subseteq Nat
  BY RetrievalAssumption, FS_Subset
<1>2. \A x, y \in S : <<x, y>> \in NearOrder(r, S) <=> r[x] < r[y] \/ (r[x] = r[y] /\ x < y)
  BY DEF NearOrder
<1>3. \A x \in S : x \in Nat /\ r[x] \in Nat
  BY <1>1
<1> QED
  BY <1>1, <1>2, <1>3 DEF StrictOrder

\* What the cap keeps is no farther than what it cuts, and is as much as it may be.
CapOK(a, r, limit, capped) ==
    /\ capped \subseteq DOMAIN r /\ IsFiniteSet(capped)
    /\ \A n \in capped, m \in DOMAIN r \ capped : r[n] <= r[m]
    /\ DOMAIN r \ capped # {} => Cardinality(capped) >= limit
    /\ Cardinality(capped \ ToSet(a)) <= limit
    /\ Len(a) <= limit => ToSet(a) \subseteq capped
    /\ ~(Len(a) <= limit) => capped \subseteq ToSet(a)

\* So it is.
LEMMA CapIs ==
    ASSUME NEW routed, NEW a, IsList(a), NEW r, ReachOK(routed, ToSet(a), r),
           NEW limit \in Nat, NEW capped, capped = CapDepthMap(r, a, limit)
    PROVE  CapOK(a, r, limit, capped)
<1>1. PICK A, S, R, room : /\ A = ToSet(a) /\ S = DOMAIN r \ A /\ R = NearOrder(r, S)
                           /\ room = IF Len(a) < limit THEN limit - Len(a) ELSE 0
  OBVIOUS
<1>2. PICK first, near : first = Prefix(a, limit) /\ near = Prefix(InOrder(S, R), room)
  OBVIOUS
<1>3. capped = ToSet(first) \union ToSet(near)
  BY <1>1, <1>2, Zenon DEF CapDepthMap, Sorted, NearOrder
<1>4. a \in Seq(Item) /\ Unrepeated(a)
  BY DEF IsList
<1>5. /\ Len(a) \in Nat /\ IsFiniteSet(A) /\ Cardinality(A) = Len(a) /\ A \subseteq Item
  BY <1>1, <1>4, ListCount
<1>6. IsList(first) /\ IsBeginning(first, a, limit)
  BY <1>2, PrefixOfList
<1>7. /\ Len(first) \in Nat /\ Len(first) <= Len(a) /\ Len(first) <= limit
      /\ Len(first) = Len(a) \/ Len(first) = limit
      /\ ToSet(first) \subseteq A
      /\ Len(first) = Len(a) => ToSet(first) = A
  BY <1>1, <1>6 DEF IsBeginning
<1>8. IsFiniteSet(ToSet(first)) /\ Cardinality(ToSet(first)) = Len(first)
  BY <1>6, ListCount DEF IsList
<1>9. room \in Nat
  BY <1>1, <1>5
<1>10. S \in SUBSET Item /\ \A n \in S : r[n] \in Nat
  BY <1>1 DEF ReachOK
<1>11. Best(near, S, R, room)
  BY <1>1, <1>2, <1>9, <1>10, NearOrderIsOrder, BestOfSorted
<1>12. /\ Len(near) \in Nat /\ Len(near) <= room /\ ToSet(near) \subseteq S
       /\ IsFiniteSet(ToSet(near)) /\ Cardinality(ToSet(near)) = Len(near)
       /\ \A e \in S : e \in ToSet(near) \/ (Len(near) = room /\ \A i \in DOMAIN near : <<near[i], e>> \in R)
  BY <1>11 DEF Best
<1>13. A \subseteq DOMAIN r /\ \A n \in A : r[n] = 0
  BY <1>1 DEF ReachOK
<1>14. capped \subseteq DOMAIN r /\ IsFiniteSet(capped)
  <2>1. IsFiniteSet(capped)
    BY <1>3, <1>8, <1>12, FS_Union
  <2> QED
    BY <1>1, <1>3, <1>7, <1>12, <1>13, <2>1
<1>15. Len(a) <= limit => A \subseteq capped
  BY <1>3, <1>5, <1>7
<1>16. ~(Len(a) <= limit) => capped \subseteq A
  <2>1. ASSUME ~(Len(a) <= limit)
        PROVE  ToSet(near) = {}
    <3>1. room = 0
      BY <1>1, <1>5, <2>1
    <3>2. Len(near) = 0
      BY <1>12, <3>1
    <3> QED
      BY <1>12, <3>2, FS_EmptySet
  <2> QED
    BY <1>3, <1>7, <2>1
<1>17. ASSUME NEW n \in capped, NEW m \in DOMAIN r \ capped
       PROVE  r[n] <= r[m]
  <2>1. r[n] \in Nat /\ r[m] \in Nat
    BY <1>14 DEF ReachOK
  <2>2. CASE n \in A
    BY <1>13, <2>1, <2>2
  <2>3. CASE n \notin A
    <3>1. Len(a) <= limit
      BY <1>16, <2>3
    <3>2. n \in ToSet(near) /\ m \in S /\ m \notin ToSet(near)
      BY <1>1, <1>3, <1>7, <1>15, <2>3, <3>1
    <3>3. PICK i \in DOMAIN near : near[i] = n
      BY <3>2 DEF ToSet
    <3>4. <<n, m>> \in R
      BY <1>12, <3>2, <3>3
    <3>5. r[n] < r[m] \/ r[n] = r[m]
      BY <1>1, <3>4 DEF NearOrder
    <3> QED
      BY <2>1, <3>5
  <2> QED
    BY <2>2, <2>3
<1>18. ASSUME NEW m \in DOMAIN r \ capped
       PROVE  Cardinality(capped) >= limit
  <2>1. CASE Len(a) <= limit
    <3>1. m \in S /\ m \notin ToSet(near)
      BY <1>1, <1>3, <1>15, <2>1
    <3>2. Len(near) = room
      BY <1>12, <3>1
    <3>3. ToSet(first) = A /\ ToSet(first) \intersect ToSet(near) = {}
      BY <1>1, <1>5, <1>7, <1>12, <2>1
    <3>4. Cardinality(capped) = Len(first) + Len(near)
      <4>1. Cardinality(capped) = Cardinality(ToSet(first)) + Cardinality(ToSet(near))
                                    - Cardinality(ToSet(first) \intersect ToSet(near))
        BY <1>3, <1>8, <1>12, FS_Union
      <4> QED
        <5>1. Cardinality(ToSet(first) \intersect ToSet(near)) = 0
          BY <3>3, FS_EmptySet, Zenon
        <5>2. Cardinality(capped) = Len(first) + Len(near) - 0
          BY <1>8, <1>12, <4>1, <5>1, Zenon
        <5> QED
          BY <1>7, <1>12, <5>2
    <3>5. Len(first) = Len(a)
      BY <1>5, <1>7, <2>1
    <3> QED
      BY <1>1, <1>5, <2>1, <3>2, <3>4, <3>5
  <2>2. CASE ~(Len(a) <= limit)
    <3>1. Len(first) = limit
      BY <1>5, <1>7, <2>2
    <3>2. ToSet(first) \in SUBSET capped
      BY <1>3
    <3>3. Cardinality(ToSet(first)) <= Cardinality(capped)
      BY <1>14, <3>2, FS_Subset
    <3>4. Cardinality(capped) \in Nat
      BY <1>14, FS_CardinalityType
    <3> QED
      BY <1>8, <3>1, <3>3, <3>4
  <2> QED
    BY <2>1, <2>2
<1>19. Cardinality(capped \ A) <= limit
  <2>1. capped \ A \in SUBSET ToSet(near)
    BY <1>1, <1>3, <1>7
  <2>2. Cardinality(capped \ A) <= Cardinality(ToSet(near)) /\ IsFiniteSet(capped \ A)
    BY <1>12, <2>1, FS_Subset
  <2>3. Cardinality(capped \ A) \in Nat
    BY <2>2, FS_CardinalityType
  <2>4. room <= limit
    BY <1>1, <1>5
  <2> QED
    BY <1>9, <1>12, <2>2, <2>3, <2>4
<1> QED
  BY <1>1, <1>14, <1>15, <1>16, <1>17, <1>18, <1>19 DEF CapOK

\* What is shown: the anchors, and what the cap keeps and is there.
KeptNodes(a, capped) == ToSet(a) \union (capped \intersect items)
ShownDepth(a, capped, r) ==
    [n \in KeptNodes(a, capped) |-> IF n \in capped THEN r[n] ELSE 0]

NearestOK(q, routed, anchors, depth, cut, gone, reach) ==
    /\ \A n \in DOMAIN depth :
           \/ depth[n] = Distance(anchors, n)
           \/ routed /\ depth[n] = 1
    /\ \A n \in DOMAIN depth, m \in cut : depth[n] <= reach[m]
    /\ cut # {} => Cardinality(DOMAIN depth \union gone) >= q.limit
    /\ Cardinality(DOMAIN depth \ anchors) <= q.limit

ShownOK(q, routed, a, r, capped, depth) ==
    /\ NearestOK(q, routed, ToSet(a), depth, DOMAIN r \ capped, capped \ items, r)
    /\ DOMAIN depth = KeptNodes(a, capped) /\ IsFiniteSet(DOMAIN depth)
    /\ DOMAIN depth \subseteq Item /\ \A n \in DOMAIN depth : depth[n] \in Nat

\* So the nearest are shown.
LEMMA NearestIsOK ==
    ASSUME NEW q \in Question, NEW routed, NEW a, IsList(a), ToSet(a) \subseteq items,
           NEW r, ReachOK(routed, ToSet(a), r), NEW capped, CapOK(a, r, q.limit, capped),
           NEW depth, depth = ShownDepth(a, capped, r)
    PROVE  ShownOK(q, routed, a, r, capped, depth)
<1>1. PICK A, K : A = ToSet(a) /\ K = KeptNodes(a, capped)
  OBVIOUS
<1>2. q.limit \in Nat
  BY QuestionAssumption
<1>3. depth = [n \in K |-> IF n \in capped THEN r[n] ELSE 0] /\ DOMAIN depth = K
  BY <1>1 DEF ShownDepth
<1>4. K = A \union (capped \intersect items)
  BY <1>1 DEF KeptNodes
<1>5. /\ capped \subseteq DOMAIN r /\ IsFiniteSet(capped)
      /\ \A n \in capped, m \in DOMAIN r \ capped : r[n] <= r[m]
      /\ DOMAIN r \ capped # {} => Cardinality(capped) >= q.limit
      /\ Cardinality(capped \ A) <= q.limit
  BY <1>1 DEF CapOK
<1>6. /\ DOMAIN r \subseteq Item /\ A \subseteq DOMAIN r
      /\ \A n \in A : r[n] = 0
      /\ \A n \in DOMAIN r : /\ r[n] \in Nat
                             /\ r[n] = Distance(A, n) \/ (routed /\ r[n] = 1)
  BY <1>1 DEF ReachOK
<1>7. K \in SUBSET Item /\ IsFiniteSet(K)
  <2>1. K \in SUBSET Item
    BY <1>4, <1>5, <1>6
  <2> QED
    BY <2>1, RetrievalAssumption, FS_Subset
<1>8. ASSUME NEW n \in K
      PROVE  depth[n] \in Nat /\ (depth[n] = Distance(A, n) \/ (routed /\ depth[n] = 1))
  <2>1. CASE n \in capped
    BY <1>3, <1>5, <1>6, <2>1
  <2>2. CASE n \notin capped
    <3>1. n \in A /\ depth[n] = 0
      BY <1>3, <1>4, <2>2
    <3> QED
      BY <3>1, DistanceIs
  <2> QED
    BY <2>1, <2>2
<1>9. ASSUME NEW n \in K, NEW m \in DOMAIN r \ capped
      PROVE  depth[n] <= r[m]
  <2>1. CASE n \in capped
    BY <1>3, <1>5, <2>1
  <2>2. CASE n \notin capped
    BY <1>3, <1>6, <2>2
  <2> QED
    BY <2>1, <2>2
<1>10. DOMAIN r \ capped # {} => Cardinality(K \union (capped \ items)) >= q.limit
  <2>1. IsFiniteSet(K \union (capped \ items))
    <3>1. capped \ items \in SUBSET capped
      OBVIOUS
    <3>2. IsFiniteSet(capped \ items)
      BY <1>5, <3>1, FS_Subset
    <3> QED
      BY <1>7, <3>2, FS_Union
  <2>2. capped \in SUBSET (K \union (capped \ items))
    BY <1>4
  <2>3. Cardinality(capped) <= Cardinality(K \union (capped \ items))
    BY <2>1, <2>2, FS_Subset
  <2>4. Cardinality(capped) \in Nat /\ Cardinality(K \union (capped \ items)) \in Nat
    BY <1>5, <2>1, FS_CardinalityType
  <2> QED
    BY <1>2, <1>5, <2>3, <2>4
<1>11. Cardinality(K \ A) <= q.limit
  <2>1. K \ A \in SUBSET (capped \ A)
    BY <1>4
  <2>2. capped \ A \in SUBSET capped
    OBVIOUS
  <2>3. IsFiniteSet(capped \ A)
    BY <1>5, <2>2, FS_Subset
  <2>4. Cardinality(K \ A) <= Cardinality(capped \ A) /\ IsFiniteSet(K \ A)
    BY <2>1, <2>3, FS_Subset
  <2>5. Cardinality(K \ A) \in Nat /\ Cardinality(capped \ A) \in Nat
    BY <2>3, <2>4, FS_CardinalityType
  <2> QED
    BY <1>2, <1>5, <2>4, <2>5
<1>12. NearestOK(q, routed, A, depth, DOMAIN r \ capped, capped \ items, r)
  BY <1>3, <1>8, <1>9, <1>10, <1>11, Zenon DEF NearestOK
<1> QED
  BY <1>1, <1>3, <1>7, <1>8, <1>12 DEF ShownOK

-----------------------------------------------------------------------------
\* Edges.

SoonerOrder(S) == {p \in S \X S : Sooner(p[1], p[2])}

\* By tier, weight and id is an order.
LEMMA SoonerIsOrder ==
    ASSUME NEW S \in SUBSET Link
    PROVE  IsFiniteSet(S) /\ StrictOrder(S, SoonerOrder(S))
<1>1. IsFiniteSet(S)
  BY RetrievalAssumption, FS_Subset
<1>2. PICK t : t = [l \in Link |-> Tier(l)]
  OBVIOUS
<1>3. \A l \in Link : Tier(l) = t[l] /\ t[l] \in Nat
  <2>1. \A l \in Link : Tier(l) \in {0, 1, 2, 3, 4}
    BY DEF Tier
  <2> QED
    BY <1>2, <2>1
<1>4. \A l \in S : l.id \in Nat /\ l.weight \in Nat /\ l \in Link
  BY RetrievalAssumption
<1>5. \A k, l \in S : k.id = l.id => k = l
  BY RetrievalAssumption
<1>6. \A k, l \in S : <<k, l>> \in SoonerOrder(S) <=>
                          \/ t[k] < t[l]
                          \/ t[k] = t[l] /\ k.weight > l.weight
                          \/ t[k] = t[l] /\ k.weight = l.weight /\ k.id < l.id
  <2> SUFFICES ASSUME NEW k \in S, NEW l \in S
               PROVE  <<k, l>> \in SoonerOrder(S) <=>
                          \/ t[k] < t[l]
                          \/ t[k] = t[l] /\ k.weight > l.weight
                          \/ t[k] = t[l] /\ k.weight = l.weight /\ k.id < l.id
    OBVIOUS
  <2>1. <<k, l>> \in SoonerOrder(S) <=> Sooner(k, l)
    BY DEF SoonerOrder
  <2>2. Tier(k) = t[k] /\ Tier(l) = t[l]
    BY <1>3
  <2> QED
    BY <2>1, <2>2 DEF Sooner
<1>7. PICK w, u : w = [l \in S |-> l.weight] /\ u = [l \in S |-> l.id]
  OBVIOUS
<1>8. \A l \in S : w[l] \in Nat /\ u[l] \in Nat /\ t[l] \in Nat /\ w[l] = l.weight /\ u[l] = l.id
  BY <1>3, <1>4, <1>7
<1>9. \A k, l \in S : <<k, l>> \in SoonerOrder(S) <=>
                          \/ t[k] < t[l]
                          \/ t[k] = t[l] /\ w[k] > w[l]
                          \/ t[k] = t[l] /\ w[k] = w[l] /\ u[k] < u[l]
  <2> SUFFICES ASSUME NEW k \in S, NEW l \in S
               PROVE  <<k, l>> \in SoonerOrder(S) <=>
                          \/ t[k] < t[l]
                          \/ t[k] = t[l] /\ w[k] > w[l]
                          \/ t[k] = t[l] /\ w[k] = w[l] /\ u[k] < u[l]
    OBVIOUS
  <2>1. k.weight = w[k] /\ l.weight = w[l] /\ k.id = u[k] /\ l.id = u[l]
    BY <1>8
  <2>2. <<k, l>> \in SoonerOrder(S) <=>
            \/ t[k] < t[l]
            \/ t[k] = t[l] /\ k.weight > l.weight
            \/ t[k] = t[l] /\ k.weight = l.weight /\ k.id < l.id
    BY <1>6
  <2> QED
    BY <2>1, <2>2
<1>10. \A k, l \in S : u[k] = u[l] => k = l
  BY <1>5, <1>8
<1>11. \A a \in S : <<a, a>> \notin SoonerOrder(S)
  BY <1>8, <1>9
<1>12. ASSUME NEW a \in S, NEW b \in S, NEW c \in S,
              <<a, b>> \in SoonerOrder(S), <<b, c>> \in SoonerOrder(S)
       PROVE  <<a, c>> \in SoonerOrder(S)
  BY <1>8, <1>9, <1>12
<1>13. ASSUME NEW a \in S, NEW b \in S, a # b
       PROVE  <<a, b>> \in SoonerOrder(S) \/ <<b, a>> \in SoonerOrder(S)
  BY <1>8, <1>9, <1>10, <1>13
<1> QED
  BY <1>1, <1>11, <1>12, <1>13 DEF StrictOrder

EdgesAmong(c) == {l \in links : l.source \in c /\ l.target \in c /\ Tier(l) # 0}

\* What is listed are the edges with a tier among the nodes.
LEMMA ReliableEdges ==
    ASSUME links \in SUBSET Link, NEW c, NEW e, e = EdgesByReliability(c)
    PROVE  Whole(e, EdgesAmong(c), SoonerOrder(EdgesAmong(c)))
<1>1. PICK S : S = EdgesAmong(c)
  OBVIOUS
<1>2. S \in SUBSET Link
  BY <1>1 DEF EdgesAmong
<1>3. e = InOrder(S, SoonerOrder(S))
  BY <1>1, Zenon DEF EdgesByReliability, EdgesAmong, Sorted, SoonerOrder
<1> QED
  BY <1>1, <1>2, <1>3, SoonerIsOrder, WholeOfSorted

\* A list that is turned round holds the same.
LEMMA ReverseKeeps ==
    ASSUME NEW S, NEW s \in Seq(S)
    PROVE  ToSet(Reverse(s)) = ToSet(s)
<1>1. PICK n : n = Len(s)
  OBVIOUS
<1>2. n \in Nat /\ DOMAIN s = 1 .. n
  BY <1>1
<1>3. Reverse(s) = [i \in 1 .. n |-> s[(n - i) + 1]]
  BY <1>1 DEF Reverse
<1>4. \A i \in 1 .. n : (n - i) + 1 \in 1 .. n /\ (n - ((n - i) + 1)) + 1 = i
  BY <1>2
<1>5. ToSet(Reverse(s)) = {s[(n - i) + 1] : i \in 1 .. n}
  BY <1>3 DEF ToSet
<1>6. ToSet(s) = {s[i] : i \in 1 .. n}
  BY <1>2 DEF ToSet
<1>7. ASSUME NEW i \in 1 .. n
      PROVE  s[i] \in {s[(n - j) + 1] : j \in 1 .. n}
  <2>1. PICK j : j = (n - i) + 1
    OBVIOUS
  <2>2. j \in 1 .. n /\ (n - j) + 1 = i
    BY <1>4, <2>1
  <2> QED
    BY <2>2
<1> QED
  BY <1>4, <1>5, <1>6, <1>7

EdgesOK(anchors, shown, limit, e, prose) ==
    /\ \A i \in DOMAIN e : verdict[e[i].id] # "invalidated"
    /\ \A i, j \in DOMAIN e : i < j =>
           \/ Tier(e[i]) < Tier(e[j])
           \/ Tier(e[i]) = Tier(e[j]) /\ e[i].weight >= e[j].weight
    /\ \A l \in links :
           (l.source \in shown /\ l.target \in shown /\ verdict[l.id] # "invalidated")
               => l \in ToSet(e) \/ Cardinality(anchors) > limit
    /\ \A l \in ToSet(prose) \ ToSet(e) : ~({l.source, l.target} \subseteq items)
    /\ ToSet(e) \subseteq ToSet(prose)

\* Only what the ledger has invalidated has no tier.
LEMMA TierIs ==
    ASSUME GraphOK, NEW l \in Link
    PROVE  Tier(l) = 0 <=> verdict[l.id] = "invalidated"
<1>1. verdict[l.id] \in Verdict
  BY DEF GraphOK
<1>2. verdict[l.id] \in {"none", "confirmed", "inferred", "needs-confirmation",
                         "abstain", "invalidated"}
  BY <1>1, RetrievalAssumption
<1> QED
  BY <1>2 DEF Tier, LatestStatus

\* So the edges are right.
LEMMA EdgesAreOK ==
    ASSUME GraphOK, NEW a, IsList(a), NEW r, NEW limit \in Nat,
           NEW capped, CapOK(a, r, limit, capped),
           NEW K, K = KeptNodes(a, capped),
           NEW e, e = EdgesByReliability(capped \intersect K),
           NEW p, p = EdgesByReliability(capped)
    PROVE  EdgesOK(ToSet(a), K, limit, e, Reverse(p))
<1>1. PICK A, S, T : A = ToSet(a) /\ S = EdgesAmong(capped \intersect K) /\ T = EdgesAmong(capped)
  OBVIOUS
<1>2. links \in SUBSET Link
  BY DEF GraphOK
<1>3. Whole(e, S, SoonerOrder(S)) /\ Whole(p, T, SoonerOrder(T))
  BY <1>1, <1>2, ReliableEdges
<1>4. /\ e \in Seq(S) /\ ToSet(e) = S
      /\ DOMAIN e = 1 .. Len(e) /\ Len(e) \in Nat
      /\ \A i, j \in DOMAIN e : i < j <=> <<e[i], e[j]>> \in SoonerOrder(S)
  BY <1>3 DEF Whole
<1>5. p \in Seq(T) /\ ToSet(p) = T
  BY <1>3 DEF Whole
<1>6. ToSet(Reverse(p)) = T
  BY <1>5, ReverseKeeps
<1>7. \A i \in DOMAIN e : e[i] \in S
  BY <1>4
<1>8. \A l \in S : l \in links /\ l.source \in capped \intersect K /\ l.target \in capped \intersect K /\ Tier(l) # 0
  BY <1>1 DEF EdgesAmong
<1>9. \A l : l \in T <=> l \in links /\ l.source \in capped /\ l.target \in capped /\ Tier(l) # 0
  BY <1>1 DEF EdgesAmong
<1>10. \A l : l \in links /\ l.source \in capped \intersect K /\ l.target \in capped \intersect K /\ Tier(l) # 0
                 => l \in S
  BY <1>1 DEF EdgesAmong
<1>11. ASSUME NEW i \in DOMAIN e
       PROVE  verdict[e[i].id] # "invalidated"
  BY <1>2, <1>7, <1>8, TierIs
<1>12. ASSUME NEW i \in DOMAIN e, NEW j \in DOMAIN e, i < j
       PROVE  \/ Tier(e[i]) < Tier(e[j])
              \/ Tier(e[i]) = Tier(e[j]) /\ e[i].weight >= e[j].weight
  <2>1. Sooner(e[i], e[j])
    BY <1>4, <1>12 DEF SoonerOrder
  <2>2. e[i] \in Link /\ e[j] \in Link
    BY <1>2, <1>7, <1>8
  <2>3. e[i].weight \in Nat /\ e[j].weight \in Nat
    BY <2>2, RetrievalAssumption
  <2> QED
    BY <2>1, <2>3 DEF Sooner
<1>13. ASSUME NEW l \in links, l.source \in K, l.target \in K, verdict[l.id] # "invalidated"
       PROVE  l \in S \/ Cardinality(A) > limit
  <2>1. Tier(l) # 0
    BY <1>2, <1>13, TierIs
  <2>2. Len(a) \in Nat /\ Cardinality(A) = Len(a)
    BY <1>1, ListCount DEF IsList
  <2>3. CASE Len(a) <= limit
    <3>1. A \subseteq capped
      BY <1>1, <2>3 DEF CapOK
    <3>2. K \subseteq capped
      BY <1>1, <3>1 DEF KeptNodes
    <3> QED
      BY <1>10, <1>13, <2>1, <3>2
  <2>4. CASE ~(Len(a) <= limit)
    BY <2>2, <2>4
  <2> QED
    BY <2>3, <2>4
<1>14. ASSUME NEW l \in T \ S
       PROVE  ~({l.source, l.target} \subseteq items)
  <2>1. l \in links /\ l.source \in capped /\ l.target \in capped /\ Tier(l) # 0
    BY <1>9, <1>14
  <2>2. capped \intersect items \subseteq K
    BY DEF KeptNodes
  <2> QED
    BY <1>10, <1>14, <2>1, <2>2
<1>15. S \subseteq T
  BY <1>8, <1>9
<1> QED
  BY <1>1, <1>4, <1>6, <1>11, <1>12, <1>13, <1>14, <1>15 DEF EdgesOK

-----------------------------------------------------------------------------
\* Text.

Bytes(S) == UNION {{n} \X (1 .. Sections[n]) : n \in S}

\* There are finitely many bytes.
LEMMA BytesAre ==
    ASSUME NEW S \in SUBSET Item
    PROVE  /\ IsFiniteSet(Bytes(S)) /\ Total(S) \in Nat /\ Total(S) = Cardinality(Bytes(S))
           /\ \A b : b \in Bytes(S) <=> \E n \in S : b \in {n} \X (1 .. Sections[n])
<1>1. PICK f, F : f = [n \in S |-> {n} \X (1 .. Sections[n])] /\ F = {f[n] : n \in S}
  OBVIOUS
<1>2. IsFiniteSet(S)
  BY RetrievalAssumption, FS_Subset
<1>3. f \in Surjection(S, F)
  BY <1>1 DEF Surjection
<1>4. IsFiniteSet(F)
  BY <1>2, <1>3, FS_Surjection
<1>5. ASSUME NEW n \in S
      PROVE  IsFiniteSet(f[n])
  <2>1. Sections[n] \in Nat
    BY RetrievalAssumption
  <2>2. IsFiniteSet(1 .. Sections[n])
    BY <2>1, FS_Interval
  <2>3. IsFiniteSet({n})
    BY FS_Singleton
  <2>4. IsFiniteSet({n} \X (1 .. Sections[n]))
    BY <2>2, <2>3, FS_Product
  <2> QED
    BY <1>1, <2>4
<1>6. \A T \in F : IsFiniteSet(T)
  BY <1>1, <1>5
<1>7. IsFiniteSet(UNION F)
  BY <1>4, <1>6, FS_UNION
<1>8. Bytes(S) = UNION F
  BY <1>1 DEF Bytes
<1>9. Total(S) = Cardinality(Bytes(S))
  BY Zenon DEF Total, Bytes
<1>10. Cardinality(Bytes(S)) \in Nat
  BY <1>7, <1>8, FS_CardinalityType
<1>11. ASSUME NEW b
       PROVE  b \in Bytes(S) <=> \E n \in S : b \in {n} \X (1 .. Sections[n])
  BY DEF Bytes
<1> QED
  BY <1>7, <1>8, <1>9, <1>10, <1>11

\* The bytes of two sets without a common node add up.
LEMMA BytesAddUp ==
    ASSUME NEW S \in SUBSET Item, NEW T \in SUBSET Item, S \intersect T = {}
    PROVE  Total(S \union T) = Total(S) + Total(T)
<1>1. Bytes(S \union T) = Bytes(S) \union Bytes(T)
  <2>1. S \union T \in SUBSET Item
    OBVIOUS
  <2>2. ASSUME NEW b
        PROVE  b \in Bytes(S \union T) <=> b \in Bytes(S) \/ b \in Bytes(T)
    BY <2>1, BytesAre
  <2> QED
    BY <2>2
<1>2. ASSUME NEW b \in Bytes(S) \intersect Bytes(T)
      PROVE  FALSE
  <2>1. PICK m \in S : b \in {m} \X (1 .. Sections[m])
    BY BytesAre
  <2>2. PICK n \in T : b \in {n} \X (1 .. Sections[n])
    BY BytesAre
  <2>3. b[1] = m /\ b[1] = n
    BY <2>1, <2>2
  <2> QED
    BY <2>3
<1>3. Cardinality(Bytes(S) \intersect Bytes(T)) = 0
  <2>1. Bytes(S) \intersect Bytes(T) = {}
    BY <1>2
  <2> QED
    BY <2>1, FS_EmptySet, Zenon
<1>4. IsFiniteSet(Bytes(S)) /\ IsFiniteSet(Bytes(T))
  BY BytesAre
<1>5. Cardinality(Bytes(S) \union Bytes(T)) =
          Cardinality(Bytes(S)) + Cardinality(Bytes(T)) - Cardinality(Bytes(S) \intersect Bytes(T))
  BY <1>4, FS_Union
<1>6. Total(S \union T) = Cardinality(Bytes(S) \union Bytes(T))
  <2>1. S \union T \in SUBSET Item
    OBVIOUS
  <2> QED
    BY <1>1, <2>1, BytesAre
<1>7. Total(S) \in Nat /\ Total(T) \in Nat /\ Total(S) = Cardinality(Bytes(S)) /\ Total(T) = Cardinality(Bytes(T))
  BY BytesAre
<1>8. Total(S \union T) = Total(S) + Total(T) - 0
  BY <1>3, <1>5, <1>6, <1>7
<1> QED
  BY <1>7, <1>8

\* A node without sections has no bytes.
LEMMA BytesOfWritten ==
    ASSUME NEW S \in SUBSET Item
    PROVE  Total(S) = Total({n \in S : Sections[n] > 0})
<1>1. PICK W : W = {n \in S : Sections[n] > 0}
  OBVIOUS
<1>2. W \in SUBSET Item
  BY <1>1
<1>3. ASSUME NEW b
      PROVE  b \in Bytes(S) <=> b \in Bytes(W)
  <2>1. ASSUME NEW n \in S, b \in {n} \X (1 .. Sections[n])
        PROVE  n \in W
    <3>1. Sections[n] \in Nat
      BY RetrievalAssumption
    <3>2. 1 .. Sections[n] # {}
      BY <2>1
    <3> QED
      BY <1>1, <3>1, <3>2
  <2> QED
    BY <1>1, <1>2, <2>1, BytesAre
<1>4. Bytes(S) = Bytes(W)
  BY <1>3
<1> QED
  BY <1>1, <1>2, <1>4, BytesAre

DropOrder(depth, S) ==
    {p \in S \X S : \/ depth[p[1]] > depth[p[2]]
                    \/ depth[p[1]] = depth[p[2]] /\ Sections[p[1]] > Sections[p[2]]
                    \/ depth[p[1]] = depth[p[2]] /\ Sections[p[1]] = Sections[p[2]] /\ p[1] < p[2]}

\* By distance, length and id is an order.
LEMMA DropOrderIsOrder ==
    ASSUME NEW S \in SUBSET Item, NEW depth, \A n \in S : depth[n] \in Nat
    PROVE  IsFiniteSet(S) /\ StrictOrder(S, DropOrder(depth, S))
<1>1. IsFiniteSet(S) /\ S \subseteq Nat
  BY RetrievalAssumption, FS_Subset
<1>2. \A x, y \in S : <<x, y>> \in DropOrder(depth, S) <=>
                          \/ depth[x] > depth[y]
                          \/ depth[x] = depth[y] /\ Sections[x] > Sections[y]
                          \/ depth[x] = depth[y] /\ Sections[x] = Sections[y] /\ x < y
  BY DEF DropOrder
<1>3. \A x \in S : x \in Nat /\ depth[x] \in Nat /\ Sections[x] \in Nat
  BY <1>1, RetrievalAssumption
<1>4. \A x \in S : <<x, x>> \notin DropOrder(depth, S)
  BY <1>2, <1>3
<1>5. ASSUME NEW x \in S, NEW y \in S, NEW z \in S,
             <<x, y>> \in DropOrder(depth, S), <<y, z>> \in DropOrder(depth, S)
      PROVE  <<x, z>> \in DropOrder(depth, S)
  BY <1>2, <1>3, <1>5
<1>6. \A x, y \in S : x # y => <<x, y>> \in DropOrder(depth, S) \/ <<y, x>> \in DropOrder(depth, S)
  BY <1>2, <1>3
<1> QED
  BY <1>1, <1>4, <1>5, <1>6 DEF StrictOrder

TextOK(A, depth, gone) ==
    LET kept == {n \in DOMAIN depth \ gone : Sections[n] > 0}
    IN  /\ \A n \in kept, m \in gone : depth[n] <= depth[m]
        /\ kept # {} => TextSize(A, kept) <= MAX_PAYLOAD

\* What is kept of a text that is cut, when it is cut after the first k nodes.
LEMMA CutText ==
    ASSUME NEW W \in SUBSET Item, NEW depth, \A n \in W : depth[n] \in Nat,
           NEW o, Whole(o, W, DropOrder(depth, W)), NEW k \in Nat, NEW p, p = Prefix(o, k)
    PROVE  /\ ToSet(p) \subseteq W
           /\ \A n \in W \ ToSet(p), m \in ToSet(p) : depth[n] <= depth[m]
           /\ k >= Len(o) => ToSet(p) = W
<1>1. /\ o \in Seq(W) /\ Unrepeated(o) /\ ToSet(o) = W /\ DOMAIN o = 1 .. Len(o) /\ Len(o) \in Nat
      /\ \A i, j \in DOMAIN o : i < j <=> <<o[i], o[j]>> \in DropOrder(depth, W)
  BY DEF Whole
<1>2. IsBeginning(p, o, k)
  BY <1>1, BeginningOfList
<1>3. /\ Len(p) \in Nat /\ DOMAIN p = 1 .. Len(p)
      /\ Len(p) <= Len(o) /\ Len(p) <= k
      /\ Len(p) = Len(o) \/ Len(p) = k
      /\ \A i \in DOMAIN p : i \in DOMAIN o /\ p[i] = o[i]
      /\ ToSet(p) \subseteq ToSet(o)
      /\ Len(p) = Len(o) => ToSet(p) = ToSet(o)
  BY <1>2 DEF IsBeginning
<1>6. PICK y, z : y = Len(p) /\ z = Len(o)
  OBVIOUS
<1>7. /\ y \in Nat /\ z \in Nat /\ y <= z /\ (y = z \/ y = k) /\ DOMAIN p = 1 .. y /\ DOMAIN o = 1 .. z
  BY <1>1, <1>3, <1>6
<1>4. ASSUME NEW n \in W \ ToSet(p), NEW m \in ToSet(p)
      PROVE  depth[n] <= depth[m]
  <2>1. PICK j \in DOMAIN o : o[j] = n
    BY <1>1 DEF ToSet
  <2>2. PICK i \in DOMAIN p : p[i] = m
    BY DEF ToSet
  <2>3. j > y
    <3>1. j \notin DOMAIN p
      <4>1. ASSUME j \in DOMAIN p
            PROVE  FALSE
        <5>1. p[j] = n
          BY <1>3, <2>1, <4>1
        <5> QED
          BY <1>4, <4>1, <5>1 DEF ToSet
      <4> QED
        BY <4>1
    <3> QED
      BY <1>7, <3>1
  <2>4. i < j /\ i \in DOMAIN o /\ o[i] = m
    <3>1. i \in DOMAIN o /\ o[i] = m
      BY <1>3, <2>2
    <3>2. i < j
      BY <1>7, <2>3
    <3> QED
      BY <3>1, <3>2
  <2>5. <<m, n>> \in DropOrder(depth, W)
    BY <1>1, <2>1, <2>4
  <2>6. depth[m] > depth[n] \/ depth[m] = depth[n]
    BY <2>5 DEF DropOrder
  <2>7. m \in W /\ n \in W
    BY <1>1, <1>3
  <2> QED
    BY <2>6, <2>7
<1>5. k >= Len(o) => ToSet(p) = W
  <2>1. k >= z => y = z
    BY <1>7
  <2>2. y = z => ToSet(p) = ToSet(o)
    BY <1>3, <1>6
  <2> QED
    BY <1>1, <1>6, <2>1, <2>2
<1> QED
  BY <1>1, <1>3, <1>4, <1>5

\* Bytes that are dropped shorten the text of every anchor, and there is one if
\* anything is to be dropped.
LEMMA LongText ==
    ASSUME NEW a \in Nat, NEW total \in Nat, NEW kept \in Nat, NEW freed \in Nat, total = kept + freed,
           a * (1 + total) > MAX_PAYLOAD,
           freed >= a * (1 + total) - (MAX_PAYLOAD - SENTINEL)
    PROVE  a * (1 + kept) <= MAX_PAYLOAD
<1>1. MAX_PAYLOAD \in Nat /\ SENTINEL \in Nat
  BY RetrievalAssumption
<1>2. a >= 1
  <2>1. ASSUME a = 0
        PROVE  FALSE
    <3>1. a * (1 + total) = 0
      BY <2>1
    <3> QED
      BY <1>1, <3>1
  <2> QED
    BY <2>1
<1>3. PICK x, y, z : x = a * (1 + total) /\ y = a * (1 + kept) /\ z = a * freed
  OBVIOUS
<1>4. x = y + z
  BY <1>3
<1>5. z >= freed
  BY <1>2, <1>3
<1>6. x \in Nat /\ y \in Nat /\ z \in Nat
  BY <1>3
<1> QED
  BY <1>1, <1>3, <1>4, <1>5, <1>6

\* The parts of what is dropped.
Written(K) == {n \in K : Sections[n] > 0}
DropList(K, depth) == InOrder(Written(K), DropOrder(depth, Written(K)))
NeededBytes(A, K) == TextSize(A, K) - (MAX_PAYLOAD - SENTINEL)
EnoughDropped(A, K, depth) ==
    {k \in DOMAIN DropList(K, depth) : Total(ToSet(Prefix(DropList(K, depth), k))) >= NeededBytes(A, K)}
DropCount(A, K, depth) ==
    IF EnoughDropped(A, K, depth) = {} THEN Len(DropList(K, depth))
    ELSE CHOOSE k \in EnoughDropped(A, K, depth) : \A j \in EnoughDropped(A, K, depth) : k <= j

\* What is dropped, by its parts.
LEMMA SuppressedIs ==
    ASSUME NEW A, NEW K, NEW depth
    PROVE  Suppressed(A, K, depth) =
               IF TextSize(A, K) <= MAX_PAYLOAD THEN {}
               ELSE ToSet(Prefix(DropList(K, depth), DropCount(A, K, depth)))
BY Zenon DEF Suppressed, DropCount, EnoughDropped, NeededBytes, DropList, Written, Sorted, DropOrder

\* So the text is cut from afar.
LEMMA TextIsOK ==
    ASSUME NEW a, IsList(a), NEW depth, DOMAIN depth \subseteq Item, \A n \in DOMAIN depth : depth[n] \in Nat
    PROVE  TextOK(ToSet(a), depth, Suppressed(ToSet(a), DOMAIN depth, depth))
<1>1. PICK A, K, W, o, gone : /\ A = ToSet(a) /\ K = DOMAIN depth
                              /\ W = Written(K)
                              /\ o = DropList(K, depth)
                              /\ gone = Suppressed(A, K, depth)
  OBVIOUS
<1>2. K \in SUBSET Item /\ W \in SUBSET Item /\ W \subseteq K /\ W = {n \in K : Sections[n] > 0}
  BY <1>1 DEF Written
<1>3. \A n \in W : depth[n] \in Nat
  BY <1>1, <1>2
<1>4. Whole(o, W, DropOrder(depth, W))
  <2>1. o = InOrder(W, DropOrder(depth, W))
    BY <1>1 DEF DropList
  <2> QED
    BY <1>2, <1>3, <2>1, DropOrderIsOrder, WholeOfSorted
<1>5. Len(o) \in Nat /\ DOMAIN o = 1 .. Len(o)
  BY <1>4 DEF Whole
<1>6. PICK needed, enough, count : /\ needed = NeededBytes(A, K)
                                  /\ enough = EnoughDropped(A, K, depth)
                                  /\ count = DropCount(A, K, depth)
  OBVIOUS
<1>7. /\ needed = TextSize(A, K) - (MAX_PAYLOAD - SENTINEL)
      /\ enough = {k \in DOMAIN o : Total(ToSet(Prefix(o, k))) >= needed}
  BY <1>1, <1>6 DEF NeededBytes, EnoughDropped
<1>8. count = IF enough = {} THEN Len(o) ELSE CHOOSE k \in enough : \A j \in enough : k <= j
  <2>1. DropCount(A, K, depth) =
            IF EnoughDropped(A, K, depth) = {} THEN Len(DropList(K, depth))
            ELSE CHOOSE k \in EnoughDropped(A, K, depth) : \A j \in EnoughDropped(A, K, depth) : k <= j
    BY Zenon DEF DropCount
  <2>2. o = DropList(K, depth) /\ enough = EnoughDropped(A, K, depth) /\ count = DropCount(A, K, depth)
    BY <1>1, <1>6
  <2> QED
    BY <2>1, <2>2
<1>10. gone = IF TextSize(A, K) <= MAX_PAYLOAD THEN {} ELSE ToSet(Prefix(o, count))
  BY <1>1, <1>6, SuppressedIs, Zenon
<1>11. PICK kept : kept = {n \in K \ gone : Sections[n] > 0}
  OBVIOUS
<1>12. kept = W \ gone
  BY <1>2, <1>11
<1>13. /\ Len(a) \in Nat /\ Cardinality(A) = Len(a)
  BY <1>1, ListCount DEF IsList
<1>14. TextSize(A, K) = Len(a) * (1 + Total(K)) /\ TextSize(A, kept) = Len(a) * (1 + Total(kept))
  BY <1>13 DEF TextSize
<1>15. Total(K) = Total(W) /\ Total(K) \in Nat
  BY <1>2, BytesOfWritten, BytesAre
<1>16. CASE TextSize(A, K) <= MAX_PAYLOAD
  <2>1. gone = {} /\ kept = W
    BY <1>10, <1>12, <1>16
  <2>2. TextSize(A, kept) <= MAX_PAYLOAD
    BY <1>14, <1>15, <1>16, <2>1
  <2> QED
    BY <1>1, <1>11, <2>1, <2>2 DEF TextOK
<1>17. CASE ~(TextSize(A, K) <= MAX_PAYLOAD)
  <2>1. gone = ToSet(Prefix(o, count))
    BY <1>10, <1>17
  <2>2. enough \in SUBSET Nat
    BY <1>5, <1>7
  <2>3. count \in Nat /\ (enough # {} => count \in enough)
    <3>1. CASE enough = {}
      BY <1>5, <1>8, <3>1
    <3>2. CASE enough # {}
      <4>1. \E k \in enough : \A j \in enough : k <= j
        BY <2>2, <3>2, LeastNumber
      <4>2. count = CHOOSE k \in enough : \A j \in enough : k <= j
        BY <1>8, <3>2
      <4>3. count \in enough
        BY <4>1, <4>2, Zenon
      <4> QED
        BY <2>2, <4>3
    <3> QED
      BY <3>1, <3>2
  <2>4. PICK p : p = Prefix(o, count)
    OBVIOUS
  <2>5. /\ gone \subseteq W
        /\ \A n \in W \ gone, m \in gone : depth[n] <= depth[m]
        /\ count >= Len(o) => gone = W
    BY <1>2, <1>3, <1>4, <2>1, <2>3, <2>4, CutText
  <2>6. ASSUME kept # {}
        PROVE  TextSize(A, kept) <= MAX_PAYLOAD
    <3>1. enough # {}
      <4>1. enough = {} => count >= Len(o)
        BY <1>5, <1>8
      <4> QED
        BY <1>12, <2>5, <2>6, <4>1
    <3>2. Total(gone) >= needed
      BY <1>7, <2>1, <2>3, <3>1
    <3>3. gone \in SUBSET Item /\ kept \in SUBSET Item /\ gone \intersect kept = {} /\ W = kept \union gone
      BY <1>2, <1>12, <2>5
    <3>4. Total(W) = Total(kept) + Total(gone) /\ Total(kept) \in Nat /\ Total(gone) \in Nat
      <4>1. kept \intersect gone = {}
        BY <3>3
      <4> QED
        BY <3>3, <4>1, BytesAddUp, BytesAre
    <3>5. PICK x, y, z, l : x = Total(W) /\ y = Total(kept) /\ z = Total(gone) /\ l = Len(a)
      OBVIOUS
    <3>6. x \in Nat /\ y \in Nat /\ z \in Nat /\ l \in Nat /\ x = y + z
      BY <1>13, <1>15, <3>4, <3>5
    <3>7. TextSize(A, K) = l * (1 + x) /\ TextSize(A, kept) = l * (1 + y)
      BY <1>14, <1>15, <3>5
    <3>8. MAX_PAYLOAD \in Nat /\ l * (1 + x) \in Nat
      BY <3>6, RetrievalAssumption
    <3>9. l * (1 + x) > MAX_PAYLOAD
      BY <1>17, <3>7, <3>8
    <3>10. z >= l * (1 + x) - (MAX_PAYLOAD - SENTINEL)
      BY <1>7, <3>2, <3>5, <3>7
    <3>11. l * (1 + y) <= MAX_PAYLOAD
      BY <3>6, <3>9, <3>10, LongText
    <3> QED
      BY <3>7, <3>11
  <2> QED
    BY <1>1, <1>11, <1>12, <2>5, <2>6 DEF TextOK
<1> QED
  BY <1>16, <1>17

-----------------------------------------------------------------------------
\* Suggestions.

SuggestOK(w, r) ==
    LET MayJoin(o) == SuggestedLabel(w.focus, o) # "review-needed"
    IN  /\ \A i \in DOMAIN r : r[i] \in items \ Neighbours(w.focus)
        /\ \A i \in DOMAIN r : MayJoin(r[i]) =>
               /\ {w.focus, r[i]} \intersect Sparse = {}
               /\ Related(w.focus, r[i]).mapped
                  \/ Related(w.focus, r[i]).shared >= SharedWithMinTokens
        /\ Candidates([w EXCEPT !.dense = <<>>]) \subseteq Candidates(w)
        /\ \A o \in Candidates(w) \ ToSet(r) :
               /\ Len(r) = w.limit
               /\ \A i \in DOMAIN r : SuggestionScore(w, o) <= SuggestionScore(w, r[i])

\* What may be asked for.
LEMMA WishIs ==
    ASSUME NEW w \in Wish
    PROVE  /\ w.focus \in Item /\ w.threshold \in Nat /\ w.limit \in Nat
           /\ w.dense \in Seq([id : Item, cosine : Nat])
           /\ w \in [focus : Item, embedded : BOOLEAN, dense : Seq([id : Item, cosine : Nat]),
                     threshold : Nat, limit : Nat]
<1>1. w \in [focus : Item, embedded : BOOLEAN, dense : Seq([id : Item, cosine : Nat]),
             threshold : Nat, limit : Nat]
  BY QuestionAssumption
<1> QED
  BY <1>1

\* The score of a pair is a number.
LEMMA PairScoreIsNat ==
    ASSUME links \in SUBSET Link, NEW f \in Item, NEW o \in Item, f # o
    PROVE  PairScore(f, o) \in Nat
<1>1. PICK k, S : k = Related(f, o) /\ S = Neighbours(f) \intersect Neighbours(o)
  OBVIOUS
<1>2. k.lexical \in Nat /\ k.evidence \in Nat
  <2>1. k = Kinship[{f, o}]
    BY <1>1 DEF Related
  <2>2. {Kinship[{f, o}].shared, Kinship[{f, o}].lexical, Kinship[{f, o}].evidence} \subseteq Nat
    BY QuestionAssumption
  <2> QED
    BY <2>1, <2>2
<1>3. Cardinality(S) \in Nat
  <2>1. S \in SUBSET Item
    BY <1>1, NeighboursBothWays
  <2>2. IsFiniteSet(S)
    BY <2>1, RetrievalAssumption, FS_Subset
  <2> QED
    BY <2>2, FS_CardinalityType
<1>4. PICK m, x, y, z : /\ m = Least(Cardinality(S), 3)
                        /\ x = IF k.mapped THEN 2400 ELSE 840
                        /\ y = (IF k.label = "high-impact" THEN 300 ELSE 1200) * k.lexical
                        /\ z = (IF k.label = "high-impact" THEN 480 ELSE 120) * k.evidence
  OBVIOUS
<1>5. m \in Nat
  BY <1>3, <1>4 DEF Least
<1>6. x \in Nat
  BY <1>4
<1>7. y \in Nat
  <2>1. CASE k.label = "high-impact"
    BY <1>2, <1>4, <2>1
  <2>2. CASE k.label # "high-impact"
    BY <1>2, <1>4, <2>2
  <2> QED
    BY <2>1, <2>2
<1>8. z \in Nat
  <2>1. CASE k.label = "high-impact"
    BY <1>2, <1>4, <2>1
  <2>2. CASE k.label # "high-impact"
    BY <1>2, <1>4, <2>2
  <2> QED
    BY <2>1, <2>2
<1>9. PairScore(f, o) = x + y + z + 200 * m
  <2>1. PairScore(f, o) =
            (IF Related(f, o).mapped THEN 2400 ELSE 840)
            + (IF Related(f, o).label = "high-impact" THEN 300 ELSE 1200) * Related(f, o).lexical
            + (IF Related(f, o).label = "high-impact" THEN 480 ELSE 120) * Related(f, o).evidence
            + 200 * Least(Cardinality(Neighbours(f) \intersect Neighbours(o)), 3)
    BY Zenon DEF PairScore
  <2>2. x = IF Related(f, o).mapped THEN 2400 ELSE 840
    BY <1>1, <1>4
  <2>3. y = (IF Related(f, o).label = "high-impact" THEN 300 ELSE 1200) * Related(f, o).lexical
    BY <1>1, <1>4
  <2>4. z = (IF Related(f, o).label = "high-impact" THEN 480 ELSE 120) * Related(f, o).evidence
    BY <1>1, <1>4
  <2>5. m = Least(Cardinality(Neighbours(f) \intersect Neighbours(o)), 3)
    BY <1>1, <1>4
  <2> QED
    BY <2>1, <2>2, <2>3, <2>4, <2>5
<1> QED
  BY <1>5, <1>6, <1>7, <1>8, <1>9

\* A rank or a place in a list, counted from one, gives a whole score.
LEMMA PlaceGives ==
    ASSUME NEW n \in Nat
    PROVE  900000 \div (60 + n) \in Nat
<1>1. PICK m : m = 60 + n
  OBVIOUS
<1>2. m \in Nat \ {0}
  BY <1>1
<1> QED
  BY <1>1, <1>2

\* The items that may be suggested.
LEMMA UnconnectedAre ==
    ASSUME items \in SUBSET Item, NEW f
    PROVE  /\ IsFiniteSet(Unconnected(f)) /\ Unconnected(f) \subseteq Item
           /\ \A o \in Unconnected(f) : o \in items /\ o # f /\ o \notin Neighbours(f)
<1>1. Unconnected(f) \in SUBSET Item
  BY DEF Unconnected
<1>2. IsFiniteSet(Unconnected(f))
  BY <1>1, RetrievalAssumption, FS_Subset
<1> QED
  BY <1>1, <1>2 DEF Unconnected

Ahead(w, o) ==
    {p \in Unconnected(w.focus) :
        \/ PairScore(w.focus, p) > PairScore(w.focus, o)
        \/ PairScore(w.focus, p) = PairScore(w.focus, o) /\ p < o}

PlaceNear(w, n) == CHOOSE i \in DOMAIN w.dense : w.dense[i].id = n

\* With embeddings as well.
LEMMA SuggestionScoreIsNat ==
    ASSUME GraphOK, NEW w \in Wish, NEW o \in Unconnected(w.focus)
    PROVE  SuggestionScore(w, o) \in Nat
<1>1. /\ items \in SUBSET Item /\ links \in SUBSET Link
      /\ w.focus \in Item /\ w.dense \in Seq([id : Item, cosine : Nat])
  BY WishIs DEF GraphOK
<1>2. o \in Item /\ o # w.focus
  BY <1>1, UnconnectedAre
<1>3. PICK x, u, v : /\ x = PairScore(w.focus, o)
                     /\ u = 900000 \div (60 + LexicalRank(w, o))
                     /\ v = IF DenseHit(w, o)
                            THEN 900000 \div (60 + PlaceNear(w, o))
                            ELSE 0
  OBVIOUS
<1>4. x \in Nat
  BY <1>1, <1>2, <1>3, PairScoreIsNat
<1>5. u \in Nat
  <2>1. PICK S : S = Ahead(w, o)
    OBVIOUS
  <2>2. LexicalRank(w, o) = 1 + Cardinality(S)
    BY <2>1 DEF LexicalRank, Ahead
  <2>3. S \in SUBSET Unconnected(w.focus)
    BY <2>1 DEF Ahead
  <2>4. IsFiniteSet(S)
    BY <1>1, <2>3, UnconnectedAre, FS_Subset
  <2>5. Cardinality(S) \in Nat
    BY <2>4, FS_CardinalityType
  <2>6. LexicalRank(w, o) \in Nat
    BY <2>2, <2>5
  <2> QED
    BY <1>3, <2>6, PlaceGives
<1>6. v \in Nat
  <2>1. CASE DenseHit(w, o)
    <3>1. PICK i : i = PlaceNear(w, o)
      OBVIOUS
    <3>2. \E j \in DOMAIN w.dense : w.dense[j].id = o
      BY <2>1 DEF DenseHit, ToSet
    <3>3. i \in DOMAIN w.dense
      BY <3>1, <3>2 DEF PlaceNear
    <3>4. i \in Nat
      BY <1>1, <3>3
    <3>5. v = 900000 \div (60 + i)
      BY <1>3, <2>1, <3>1
    <3> QED
      BY <3>4, <3>5, PlaceGives
  <2>2. CASE ~DenseHit(w, o)
    BY <1>3, <2>2
  <2> QED
    BY <2>1, <2>2
<1>7. SuggestionScore(w, o) = IF ~w.embedded THEN x ELSE 1000 * x + u + v
  BY <1>3 DEF SuggestionScore, PlaceNear
<1> QED
  BY <1>4, <1>5, <1>6, <1>7

\* Embeddings take no candidate away.
LEMMA EmbeddingsOnlyAdd ==
    ASSUME NEW w \in Wish
    PROVE  Candidates([w EXCEPT !.dense = <<>>]) \subseteq Candidates(w)
<1>1. PICK v : v = [w EXCEPT !.dense = <<>>]
  OBVIOUS
<1>2. v.focus = w.focus /\ v.threshold = w.threshold /\ v.dense = <<>>
  BY <1>1, WishIs
<1>3. ASSUME NEW o, IsCandidate(v, o)
      PROVE  IsCandidate(w, o)
  <2>1. ~DenseAdmitted(v, o)
    BY <1>2 DEF DenseAdmitted, ToSet
  <2>2. PICK k, s : k = Related(w.focus, o) /\ s = PairScore(w.focus, o)
    OBVIOUS
  <2>3. /\ k.label = "shared-with" => s >= SharedWithMinScore /\ k.shared >= SharedWithMinTokens
        /\ s >= w.threshold \/ DenseAdmitted(v, o)
        /\ k.mapped \/ k.shared >= MIN_SHARED_TOKENS \/ DenseAdmitted(v, o)
    BY <1>2, <1>3, <2>2, Zenon DEF IsCandidate
  <2>4. /\ k.label = "shared-with" => s >= SharedWithMinScore /\ k.shared >= SharedWithMinTokens
        /\ s >= w.threshold \/ DenseAdmitted(w, o)
        /\ k.mapped \/ k.shared >= MIN_SHARED_TOKENS \/ DenseAdmitted(w, o)
    BY <2>1, <2>3, Zenon
  <2> QED
    BY <2>2, <2>4, Zenon DEF IsCandidate
<1> QED
  BY <1>1, <1>2, <1>3 DEF Candidates

\* A label that could become an edge.
LEMMA LabelIsEarned ==
    ASSUME NEW f, NEW o, SuggestedLabel(f, o) # "review-needed"
    PROVE  /\ {f, o} \intersect Sparse = {}
           /\ Related(f, o).mapped \/ Related(f, o).shared >= SharedWithMinTokens
<1>1. ~(f \in Sparse \/ o \in Sparse)
  <2>1. ASSUME f \in Sparse \/ o \in Sparse
        PROVE  FALSE
    <3>1. {f, o} \intersect Sparse # {}
      BY <2>1
    <3>2. SuggestedLabel(f, o) = "review-needed"
      BY <2>1, <3>1 DEF SuggestedLabel
    <3> QED
      BY <3>2
  <2> QED
    BY <2>1
<1>2. {f, o} \intersect Sparse = {}
  BY <1>1
<1>3. CASE Related(f, o).mapped
  BY <1>2, <1>3
<1>4. CASE ~Related(f, o).mapped
  <2>1. SuggestedLabel(f, o) = IF PairScore(f, o) > SharedWithMinScore /\ Related(f, o).shared >= SharedWithMinTokens
                               THEN "shared-with" ELSE "review-needed"
    BY <1>1, <1>2, <1>4 DEF SuggestedLabel
  <2> QED
    BY <1>2, <2>1
<1> QED
  BY <1>3, <1>4

\* So the suggestions are earned.
LEMMA SuggestIsOK ==
    ASSUME GraphOK, NEW w \in Wish, NEW r, r = SuggestConnections(w)
    PROVE  SuggestOK(w, r)
<1>1. PICK C, score : C = Candidates(w) /\ score = [o \in C |-> SuggestionScore(w, o)]
  OBVIOUS
<1>2. items \in SUBSET Item /\ w.limit \in Nat
  BY WishIs DEF GraphOK
<1>3. C \subseteq Unconnected(w.focus)
  BY <1>1 DEF Candidates
<1>4. C \in SUBSET Item /\ \A o \in C : o \in items \ Neighbours(w.focus)
  BY <1>2, <1>3, UnconnectedAre
<1>5. score \in [C -> Nat] /\ \A o \in C : score[o] = SuggestionScore(w, o)
  BY <1>1, <1>3, SuggestionScoreIsNat
<1>6. r = Prefix(InOrder(C, RankOrder(score, C)), w.limit)
  <2>1. r = Prefix(Ranked(score), w.limit)
    BY <1>1, Zenon DEF SuggestConnections
  <2> QED
    BY <1>4, <1>5, <2>1, RankedIs
<1>7. Best(r, C, RankOrder(score, C), w.limit)
  BY <1>2, <1>4, <1>5, <1>6, RankOrderIsOrder, BestOfSorted
<1>8. /\ \A i \in DOMAIN r : r[i] \in C
      /\ \A o \in C : o \in ToSet(r) \/ (Len(r) = w.limit /\ \A i \in DOMAIN r : <<r[i], o>> \in RankOrder(score, C))
  <2>1. r \in Seq(C)
    BY <1>7 DEF Best
  <2>2. \A i \in DOMAIN r : r[i] \in C
    BY <2>1
  <2> QED
    BY <1>7, <2>2 DEF Best
<1>9. ASSUME NEW o \in C \ ToSet(r)
      PROVE  /\ Len(r) = w.limit
             /\ \A i \in DOMAIN r : SuggestionScore(w, o) <= SuggestionScore(w, r[i])
  <2>1. Len(r) = w.limit /\ \A i \in DOMAIN r : <<r[i], o>> \in RankOrder(score, C)
    BY <1>8, <1>9
  <2>2. ASSUME NEW i \in DOMAIN r
        PROVE  SuggestionScore(w, o) <= SuggestionScore(w, r[i])
    <3>1. score[r[i]] > score[o] \/ score[r[i]] = score[o]
      BY <2>1 DEF RankOrder
    <3>2. r[i] \in C /\ o \in C
      BY <1>8
    <3>3. score[r[i]] \in Nat /\ score[o] \in Nat
      BY <1>5, <3>2
    <3> QED
      BY <1>5, <3>1, <3>2, <3>3
  <2> QED
    BY <2>1, <2>2
<1>10. \A i \in DOMAIN r : r[i] \in items \ Neighbours(w.focus)
  BY <1>4, <1>8
<1>11. \A i \in DOMAIN r : SuggestedLabel(w.focus, r[i]) # "review-needed" =>
           /\ {w.focus, r[i]} \intersect Sparse = {}
           /\ Related(w.focus, r[i]).mapped \/ Related(w.focus, r[i]).shared >= SharedWithMinTokens
  BY LabelIsEarned
<1> QED
  BY <1>1, <1>9, <1>10, <1>11, EmbeddingsOnlyAdd DEF SuggestOK

-----------------------------------------------------------------------------
\* The answers.

ContextOK(r) ==
    r.tool = "context" =>
        /\ AnchorsOK(r.question, r.routed, r.anchors)
        /\ NearestOK(r.question, r.routed, ToSet(r.anchors), r.depth, r.cut, r.gone, r.reach)
        /\ EdgesOK(ToSet(r.anchors), DOMAIN r.depth, r.question.limit, r.edges, r.prose)
        /\ TextOK(ToSet(r.anchors), r.depth, r.suppressed)

AnswerOK(r) ==
    /\ ContextOK(r)
    /\ r.tool = "search" => SearchOK(r.question, r.rows)
    /\ r.tool = "suggest" => SuggestOK(r.question, r.rows)

\* What is to be shown is said of the parts of the last answer.
LEMMA FaithfulMeans ==
    RetrievalIsFaithful <=> AnswerOK(reply)
<1>1. AnchorsAreRight <=> (reply.tool = "context" => AnchorsOK(reply.question, reply.routed, reply.anchors))
  BY DEF AnchorsAreRight, Contextual, AnchorsOK
<1>2. NearestAreShown <=>
          (reply.tool = "context" =>
              NearestOK(reply.question, reply.routed, ToSet(reply.anchors), reply.depth,
                        reply.cut, reply.gone, reply.reach))
  BY DEF NearestAreShown, Contextual, NearestOK
<1>3. EdgesAreReliable <=>
          (reply.tool = "context" =>
              EdgesOK(ToSet(reply.anchors), DOMAIN reply.depth, reply.question.limit, reply.edges, reply.prose))
  BY DEF EdgesAreReliable, Contextual, EdgesOK
<1>4. TextIsCutFromAfar <=>
          (reply.tool = "context" => TextOK(ToSet(reply.anchors), reply.depth, reply.suppressed))
  BY DEF TextIsCutFromAfar, Contextual, TextOK
<1>5. SearchKeepsOrder <=> (reply.tool = "search" => SearchOK(reply.question, reply.rows))
  BY DEF SearchKeepsOrder, SearchOK
<1>6. SuggestionsAreEarned <=> (reply.tool = "suggest" => SuggestOK(reply.question, reply.rows))
  BY DEF SuggestionsAreEarned, SuggestOK
<1> QED
  BY <1>1, <1>2, <1>3, <1>4, <1>5, <1>6, Zenon DEF RetrievalIsFaithful, AnswerOK, ContextOK

FaithfulInv == GraphOK /\ RetrievalIsFaithful

\* An answer leaves the graph alone, so what is said of it goes on being true.
LEMMA StillTrue ==
    ASSUME UNCHANGED <<items, links, verdict, standing>>, NEW r, AnswerOK(r)
    PROVE  AnswerOK(r)'
<1>1. items' = items /\ links' = links /\ verdict' = verdict /\ standing' = standing
  OBVIOUS
<1>2. \A n : Neighbours(n)' = Neighbours(n)
  BY <1>1 DEF Neighbours
<1>3. \A A, n : Distance(A, n)' = Distance(A, n)
  BY <1>2 DEF Distance
<1>4. \A l : Tier(l)' = Tier(l)
  BY <1>1 DEF Tier, LatestStatus
<1>5. \A q : LexicalCandidates(q)' = LexicalCandidates(q)
  BY <1>1 DEF LexicalCandidates, Present
<1>6. \A f, o : PairScore(f, o)' = PairScore(f, o)
  BY <1>2 DEF PairScore
<1>7. \A f : Unconnected(f)' = Unconnected(f)
  BY <1>1, <1>2 DEF Unconnected
<1>8. ASSUME NEW q, NEW routed, NEW a, AnchorsOK(q, routed, a)
      PROVE  AnchorsOK(q, routed, a)'
  BY <1>1, <1>5, <1>8 DEF AnchorsOK
<1>9. ASSUME NEW q, NEW routed, NEW A, NEW depth, NEW cut, NEW gone, NEW reach,
             NearestOK(q, routed, A, depth, cut, gone, reach)
      PROVE  NearestOK(q, routed, A, depth, cut, gone, reach)'
  BY <1>3, <1>9 DEF NearestOK
<1>10. ASSUME NEW A, NEW shown, NEW limit, NEW e, NEW prose, EdgesOK(A, shown, limit, e, prose)
       PROVE  EdgesOK(A, shown, limit, e, prose)'
  BY <1>1, <1>4, <1>10 DEF EdgesOK
<1>11. ASSUME NEW q, NEW s, SearchOK(q, s)
       PROVE  SearchOK(q, s)'
  BY <1>1, <1>11 DEF SearchOK
<1>12. \A f, o : SuggestedLabel(f, o)' = SuggestedLabel(f, o)
  BY <1>6 DEF SuggestedLabel
<1>13. \A w, o : IsCandidate(w, o)' = IsCandidate(w, o)
  BY <1>6 DEF IsCandidate
<1>14. \A w : Candidates(w)' = Candidates(w)
  BY <1>7, <1>13 DEF Candidates
<1>15. \A w, o : LexicalRank(w, o)' = LexicalRank(w, o)
  BY <1>6, <1>7 DEF LexicalRank
<1>16. \A w, o : SuggestionScore(w, o)' = SuggestionScore(w, o)
  BY <1>6, <1>15 DEF SuggestionScore
<1>17. ASSUME NEW w, NEW s, SuggestOK(w, s)
       PROVE  SuggestOK(w, s)'
  BY <1>1, <1>2, <1>12, <1>14, <1>16, <1>17 DEF SuggestOK
<1>18. ContextOK(r) => ContextOK(r)'
  BY <1>8, <1>9, <1>10 DEF ContextOK, TextOK
<1> QED
  BY <1>11, <1>17, <1>18 DEF AnswerOK

\* An answer that is right when it is given is right after it.
LEMMA AnsweredIs ==
    ASSUME GraphOK, NEW r, AnswerOK(r), Answered(r)
    PROVE  FaithfulInv'
<1>1. reply' = r /\ UNCHANGED <<items, links, verdict, standing>>
  BY DEF Answered
<1>2. GraphOK'
  BY <1>1 DEF GraphOK
<1>3. AnswerOK(r)'
  BY <1>1, StillTrue
<1>4. AnswerOK(reply)'
  BY <1>1, <1>3 DEF AnswerOK, ContextOK
<1> QED
  BY <1>2, <1>4, FaithfulMeans, PTL DEF FaithfulInv

\* A context is right.
LEMMA ContextIsFaithful ==
    ASSUME GraphOK, NEW q \in Question, RetrieveContext(q)
    PROVE  FaithfulInv'
<1>1. items \in SUBSET Item /\ links \in SUBSET Link
  BY DEF GraphOK
<1>2. q.limit \in Nat
  BY QuestionAssumption
<1>3. (q.asked \/ q.focal # 0) /\ (q.focal # 0 => q.focal \in items)
  BY DEF RetrieveContext
<1>4. PICK routes, a, reach, capped :
          /\ routes = ClusterRoutes(q) /\ a = Anchors(q, routes) /\ reach = Reach(q, routes, a)
          /\ capped = CapDepthMap(reach, a, q.limit)
          /\ Answered([tool |-> "context", question |-> q, anchors |-> a, routed |-> routes # <<>>,
                       depth |-> ShownDepth(a, capped, reach),
                       edges |-> EdgesByReliability(capped \intersect KeptNodes(a, capped)),
                       prose |-> Reverse(EdgesByReliability(capped)),
                       suppressed |-> Suppressed(ToSet(a), KeptNodes(a, capped), ShownDepth(a, capped, reach)),
                       cut |-> DOMAIN reach \ capped, gone |-> capped \ items, reach |-> reach])
  BY ZenonT(60) DEF RetrieveContext, KeptNodes, ShownDepth
<1>5. PICK K, depth : K = KeptNodes(a, capped) /\ depth = ShownDepth(a, capped, reach)
  OBVIOUS
<1>6. PICK e, p, gone : /\ e = EdgesByReliability(capped \intersect K)
                        /\ p = EdgesByReliability(capped)
                        /\ gone = Suppressed(ToSet(a), K, depth)
  OBVIOUS
<1>7. PICK r : r = [tool |-> "context", question |-> q, anchors |-> a, routed |-> routes # <<>>,
                    depth |-> depth, edges |-> e, prose |-> Reverse(p), suppressed |-> gone,
                    cut |-> DOMAIN reach \ capped, gone |-> capped \ items, reach |-> reach]
  OBVIOUS
<1>8. Answered(r)
  BY <1>4, <1>5, <1>6, <1>7
<1>9. RoutesOK(routes)
  BY <1>4, RoutesAreOK
<1>10. AnchorsOK(q, routes # <<>>, a) /\ IsList(a)
  BY <1>1, <1>3, <1>4, <1>9, AnchorsAreOK
<1>11. ReachOK(routes # <<>>, ToSet(a), reach)
  BY <1>1, <1>4, <1>9, <1>10, ReachIs
<1>12. CapOK(a, reach, q.limit, capped)
  BY <1>2, <1>4, <1>10, <1>11, CapIs
<1>13. ToSet(a) \subseteq items
  BY <1>10 DEF AnchorsOK
<1>14. /\ NearestOK(q, routes # <<>>, ToSet(a), depth, DOMAIN reach \ capped, capped \ items, reach)
       /\ DOMAIN depth = K
       /\ DOMAIN depth \subseteq Item /\ \A n \in DOMAIN depth : depth[n] \in Nat
  <2>1. ToSet(a) \subseteq items /\ IsList(a)
    BY <1>10, <1>13
  <2>2. ShownOK(q, routes # <<>>, a, reach, capped, depth)
    BY <1>5, <1>11, <1>12, <2>1, NearestIsOK
  <2> QED
    BY <1>5, <2>2 DEF ShownOK
<1>15. EdgesOK(ToSet(a), K, q.limit, e, Reverse(p))
  BY <1>2, <1>5, <1>6, <1>10, <1>12, EdgesAreOK
<1>16. TextOK(ToSet(a), depth, gone)
  BY <1>6, <1>10, <1>14, TextIsOK
<1>17. ContextOK(r)
  BY <1>7, <1>10, <1>14, <1>15, <1>16 DEF ContextOK
<1>18. AnswerOK(r)
  BY <1>7, <1>17 DEF AnswerOK
<1> QED
  BY <1>8, <1>18, AnsweredIs

\* The rows of a search are right.
LEMMA SearchIsFaithful ==
    ASSUME GraphOK, NEW q \in Search, SearchNodes(q)
    PROVE  FaithfulInv'
<1>1. PICK r : r = [tool |-> "search", question |-> q, rows |-> SearchGraph(q)]
  OBVIOUS
<1>2. SearchOK(r.question, r.rows)
  BY <1>1, SearchIsRight
<1>3. AnswerOK(r)
  BY <1>1, <1>2 DEF AnswerOK, ContextOK
<1>4. Answered(r)
  BY <1>1 DEF SearchNodes
<1> QED
  BY <1>3, <1>4, AnsweredIs

\* Suggestions are right.
LEMMA SuggestIsFaithful ==
    ASSUME GraphOK, NEW w \in Wish, Suggest(w)
    PROVE  FaithfulInv'
<1>1. PICK r : r = [tool |-> "suggest", question |-> w, rows |-> SuggestConnections(w)]
  OBVIOUS
<1>2. SuggestOK(r.question, r.rows)
  BY <1>1, SuggestIsOK
<1>3. AnswerOK(r)
  BY <1>1, <1>2 DEF AnswerOK, ContextOK
<1>4. Answered(r)
  BY <1>1 DEF Suggest
<1> QED
  BY <1>3, <1>4, AnsweredIs

\* What an agent is shown of a graph is right, whatever the graph, the verdicts
\* and the question are (mcp/tools.py retrieve_context, search_graph,
\* suggest_connections): the anchors are there, the focal node leads and hits
\* keep their order; nothing nearer than what is shown was cut; no invalidated
\* edge is shown and no other is lost; a long text loses what is farthest first,
\* and enough of it; search loses no hit; no suggestion is unearned.
THEOREM RetrievalFaithful == RetrievalSpec => []RetrievalIsFaithful
<1>1. RetrievalInit => FaithfulInv
  <2> SUFFICES ASSUME RetrievalInit
               PROVE  FaithfulInv
    OBVIOUS
  <2>1. GraphOK
    BY DEF RetrievalInit, GraphOK
  <2>2. reply.tool = "none"
    BY DEF RetrievalInit, NoReply
  <2>3. AnswerOK(reply)
    BY <2>2 DEF AnswerOK, ContextOK
  <2> QED
    BY <2>1, <2>3, FaithfulMeans DEF FaithfulInv
<1>2. FaithfulInv /\ [RetrievalNext]_retrievalVars => FaithfulInv'
  <2> SUFFICES ASSUME FaithfulInv, [RetrievalNext]_retrievalVars
               PROVE  FaithfulInv'
    OBVIOUS
  <2>1. GraphOK
    BY DEF FaithfulInv
  <2>2. ASSUME NEW q \in Question, RetrieveContext(q)
        PROVE  FaithfulInv'
    BY <2>1, <2>2, ContextIsFaithful
  <2>3. ASSUME NEW q \in Search, SearchNodes(q)
        PROVE  FaithfulInv'
    BY <2>1, <2>3, SearchIsFaithful
  <2>4. ASSUME NEW w \in Wish, Suggest(w)
        PROVE  FaithfulInv'
    BY <2>1, <2>4, SuggestIsFaithful
  <2>5. CASE UNCHANGED retrievalVars
    <3>1. UNCHANGED <<items, links, verdict, standing>> /\ reply' = reply
      BY <2>5 DEF retrievalVars
    <3>2. PICK r : r = reply
      OBVIOUS
    <3>3. AnswerOK(r)
      BY <3>2, FaithfulMeans DEF FaithfulInv
    <3>4. Answered(r)
      BY <3>1, <3>2 DEF Answered
    <3> QED
      BY <2>1, <3>3, <3>4, AnsweredIs
  <2> QED
    BY <2>2, <2>3, <2>4, <2>5 DEF RetrievalNext
<1>3. FaithfulInv => RetrievalIsFaithful
  BY DEF FaithfulInv
<1> QED
  BY <1>1, <1>2, <1>3, PTL DEF RetrievalSpec
=============================================================================
