--------------------------- MODULE Analyses_proofs ---------------------------
(***************************************************************************)
(* Proofs about what the tools tell an agent of its ledger, of a source    *)
(* and of a vector: Calibration, SourceExploration and NodeVectors, each   *)
(* for any value of its constants.                                         *)
(***************************************************************************)
EXTENDS Calibration, SourceExploration, NodeVectors, Ordering_proofs

(***************************************************************************)
(* 1 Calibration.                                                          *)
(*                                                                         *)
(* Nothing of a state but the ledgers and the caches decides an answer, so *)
(* that the strengthening is about these: the latest rows are ones that    *)
(* the code and its scripts write (RowsAreKnown), a cache has classes that *)
(* leave a gap and count each record (CachesAreSound) and, unless the      *)
(* store was swapped, the graph deleted or a row written elsewhere, those  *)
(* of its server's ledger (CachesAreCurrent).  The rest is about the       *)
(* algorithm, for any ledger: what records a class is made of, that the    *)
(* thresholds leave a gap, that the matrix counts each record once, and    *)
(* that verdicts that agree with the gold set move no threshold of it.     *)
(***************************************************************************)

\* What the ledger has as the latest row of an edge: none, that of add_edge,
\* that of a verdict, which names neither label nor weight, or a script's.
SeedRow ==
    [status : {"needs-confirmation", "inferred"}, label : Vocabulary, weight : Weights,
     provenance : {"seed"}]
VerdictRow ==
    [status : DOMAIN GoldVerdict, label : {NoLabel}, weight : {Unweighted},
     provenance : {"hand_labeled"}]
RulingRow ==
    [status : DOMAIN GoldVerdict, label : Vocabulary, weight : 0 .. 100, provenance : {"seed"}]
KnownRows == [Claim -> {NoRow} \union SeedRow \union VerdictRow \union RulingRow]
RowsAreKnown == latest \in [Store -> KnownRows]

\* What is kept of a cache, whatever it was built from.
CacheIsSound(rep) ==
    \A l \in DOMAIN rep.classes :
       LET class == rep.classes[l]
       IN  /\ class.band.reject < class.band.accept
           /\ class.examples = True(class.matrix, "valid") + True(class.matrix, "invalid")
                                 + True(class.matrix, "abstain")

\* What the gold set asks of an answer.
FollowsTheGold(guess, v) ==
    \A r \in Labeled(GoldSeed, guess.label) :
        /\ r.verdict = "invalid" /\ guess.score <= r.weight => v = "invalid"
        /\ r.verdict = "valid" /\ guess.score >= r.weight => v = "valid"

AdviceIsSound ==
    /\ /\ advice.tool = "suggest" /\ ~advice.failed /\ advice.by \notin outdated
       /\ advice.guess.label \in Vocabulary
       /\ AgreeWithGold(VerdictsOn(LedgerOf(advice.by), advice.guess.label), advice.guess.label)
       => FollowsTheGold(advice.guess, advice.verdict)
    /\ FailuresAreExplained
    /\ GroundingIsAdvisory

CachesAreSound == \A a \in Agent : cached[a] # Unbuilt => CacheIsSound(cached[a])

CalibrationInv ==
    /\ RowsAreKnown
    /\ at \in [Agent -> Store]
    /\ cached = [a \in Agent |-> cached[a]]
    /\ CachesAreSound
    /\ CachesAreCurrent
    /\ AdviceIsSound

\* Records with a weight and an outcome, as many as one likes.
IsRecords(R) ==
    /\ IsFiniteSet(R)
    /\ \A r \in R : r.weight \in 0 .. 100 /\ r.verdict \in Outcomes

\* Records that there are have a lightest one.
LEMMA SmallestWeight ==
    ASSUME NEW W \in SUBSET (0 .. 100), W # {}
    PROVE  /\ \E w \in W : \A v \in W : w <= v
           /\ \E w \in W : \A v \in W : w >= v
<1>1. \E w \in W : \A v \in W : w <= v
  <2>1. W \in SUBSET Nat
    OBVIOUS
  <2> QED
    BY <2>1, LeastNumber
<1>2. PICK U : U = {n \in Nat : n <= 100 /\ 100 - n \in W}
  OBVIOUS
<1>3. U \in SUBSET Nat /\ U # {}
  <2>1. PICK w \in W : TRUE
    OBVIOUS
  <2>2. w \in 0 .. 100
    OBVIOUS
  <2>3. 100 - w \in U
    BY <1>2, <2>2
  <2> QED
    BY <1>2, <2>3
<1>4. PICK n \in U : \A m \in U : n <= m
  BY <1>3, LeastNumber
<1>5. 100 - n \in W /\ n \in Nat
  BY <1>2, <1>4
<1>6. ASSUME NEW v \in W
      PROVE  100 - n >= v
  <2>1. v \in 0 .. 100
    OBVIOUS
  <2>2. 100 - v \in U
    BY <1>2, <2>1
  <2>3. n <= 100 - v
    BY <1>4, <2>2
  <2> QED
    BY <1>5, <2>1, <2>3
<1> QED
  BY <1>1, <1>5, <1>6

\* And so a heaviest.
LEMMA LightestAndHeaviest ==
    ASSUME NEW R, R # {}, \A r \in R : r.weight \in 0 .. 100
    PROVE  /\ Lightest(R) \in {r.weight : r \in R}
           /\ \A r \in R : Lightest(R) <= r.weight
           /\ Heaviest(R) \in {r.weight : r \in R}
           /\ \A r \in R : Heaviest(R) >= r.weight
           /\ Lightest(R) \in 0 .. 100 /\ Heaviest(R) \in 0 .. 100
<1>1. PICK W : W = {r.weight : r \in R}
  OBVIOUS
<1>2. W \in SUBSET (0 .. 100) /\ W # {}
  BY <1>1
<1>3. /\ \E w \in W : \A v \in W : w <= v
      /\ \E w \in W : \A v \in W : w >= v
  BY <1>2, SmallestWeight
<1>4. /\ \E w \in W : \A r \in R : w <= r.weight
      /\ \E w \in W : \A r \in R : w >= r.weight
  BY <1>1, <1>3
<1>5. Lightest(R) \in W /\ \A r \in R : Lightest(R) <= r.weight
  <2>1. Lightest(R) = CHOOSE w \in W : \A r \in R : w <= r.weight
    BY <1>1 DEF Lightest
  <2> QED
    BY <1>4, <2>1
<1>6. Heaviest(R) \in W /\ \A r \in R : Heaviest(R) >= r.weight
  <2>1. Heaviest(R) = CHOOSE w \in W : \A r \in R : w >= r.weight
    BY <1>1 DEF Heaviest
  <2> QED
    BY <1>4, <2>1
<1> QED
  BY <1>1, <1>2, <1>5, <1>6

LEMMA WithRecords ==
    ASSUME NEW R, IsRecords(R), NEW v
    PROVE  IsRecords(With(R, v)) /\ With(R, v) \in SUBSET R
<1>1. With(R, v) \in SUBSET R
  BY DEF With
<1> QED
  BY <1>1, FS_Subset DEF IsRecords

\* Whatever the records of a class, its thresholds leave a gap.
LEMMA BandIsApart ==
    ASSUME NEW R, IsRecords(R), ~OneSided(R)
    PROVE  /\ Band(R).reject \in Int /\ Band(R).accept \in Int
           /\ Band(R).reject < Band(R).accept
<1>1. PICK h, l : h = Heaviest(With(R, "invalid")) /\ l = Lightest(With(R, "valid"))
  OBVIOUS
<1>2. h \in 0 .. 100 /\ l \in 0 .. 100
  BY <1>1, WithRecords, LightestAndHeaviest DEF OneSided, IsRecords
<1>3. Band(R) = IF h >= l THEN [reject |-> h + l - 2, accept |-> h + l + 2]
                ELSE [reject |-> 2 * h, accept |-> 2 * l]
  BY <1>1 DEF Band
<1>4. CASE h >= l
  <2>1. Band(R) = [reject |-> h + l - 2, accept |-> h + l + 2]
    BY <1>3, <1>4
  <2>2. Band(R).reject = h + l - 2 /\ Band(R).accept = h + l + 2
    BY <2>1
  <2> QED
    BY <1>2, <2>2
<1>5. CASE ~(h >= l)
  <2>1. Band(R) = [reject |-> 2 * h, accept |-> 2 * l]
    BY <1>3, <1>5
  <2>2. Band(R).reject = 2 * h /\ Band(R).accept = 2 * l
    BY <2>1
  <2> QED
    BY <1>2, <1>5, <2>2
<1> QED
  BY <1>4, <1>5

\* What is of three kinds is as many as the three together.
LEMMA ThreeParts ==
    ASSUME NEW S, IsFiniteSet(S), NEW A \in SUBSET S, NEW B \in SUBSET S, NEW C \in SUBSET S,
           \A x \in S : x \in A \/ x \in B \/ x \in C,
           \A x \in S : ~(x \in A /\ x \in B) /\ ~(x \in A /\ x \in C) /\ ~(x \in B /\ x \in C)
    PROVE  /\ Cardinality(S) = Cardinality(A) + Cardinality(B) + Cardinality(C)
           /\ Cardinality(A) \in Nat /\ Cardinality(B) \in Nat /\ Cardinality(C) \in Nat
<1>1. S = (A \union B) \union C /\ A \intersect B = {}
  OBVIOUS
<1>2. IsFiniteSet(A) /\ IsFiniteSet(B) /\ IsFiniteSet(C)
  BY FS_Subset
<1>3. /\ IsFiniteSet(A \union B)
      /\ Cardinality(A \union B) = Cardinality(A) + Cardinality(B) - Cardinality(A \intersect B)
  BY <1>2, FS_Union
<1>4. (A \union B) \intersect C = {}
  OBVIOUS
<1>5. Cardinality((A \union B) \union C) =
        Cardinality(A \union B) + Cardinality(C) - Cardinality((A \union B) \intersect C)
  BY <1>2, <1>3, FS_Union
<1>6. Cardinality(A \intersect B) = 0 /\ Cardinality((A \union B) \intersect C) = 0
  BY <1>1, <1>4, FS_EmptySet, Zenon
<1>7. Cardinality(A) \in Nat /\ Cardinality(B) \in Nat /\ Cardinality(C) \in Nat
  BY <1>2, FS_CardinalityType
<1>8. Cardinality(A \union B) = Cardinality(A) + Cardinality(B)
  BY <1>3, <1>6, <1>7
<1>9. Cardinality((A \union B) \union C) = Cardinality(A \union B) + Cardinality(C)
  <2>1. Cardinality(A \union B) \in Nat
    BY <1>7, <1>8
  <2> QED
    BY <1>5, <1>6, <1>7, <2>1
<1>10. Cardinality(S) = Cardinality((A \union B) \union C)
  BY <1>1, Zenon
<1> QED
  BY <1>7, <1>8, <1>9, <1>10

Predicted(R, actual, band, v) == {r \in With(R, actual) : Predict(r.weight, band) = v}

\* A row of the confusion matrix counts the records of that outcome.
LEMMA RowCounts ==
    ASSUME NEW R, IsRecords(R), NEW band, NEW v \in Outcomes
    PROVE  LET m == ConfusionMatrix(R, band)
           IN  /\ True(m, v) = Cardinality(With(R, v))
               /\ \A p \in Outcomes : m[v][p] = Cardinality(Predicted(R, v, band, p))
               /\ \A p \in Outcomes : m[v][p] \in Nat
<1>1. PICK m : m = ConfusionMatrix(R, band)
  OBVIOUS
<1>2. \A p \in Outcomes : m[v][p] = Cardinality(Predicted(R, v, band, p))
  BY <1>1 DEF ConfusionMatrix, Predicted
<1>3. IsFiniteSet(With(R, v))
  BY WithRecords DEF IsRecords
<1>4. PICK S, A, B, C : /\ S = With(R, v) /\ A = Predicted(R, v, band, "valid")
                        /\ B = Predicted(R, v, band, "invalid")
                        /\ C = Predicted(R, v, band, "abstain")
  OBVIOUS
<1>5. A \in SUBSET S /\ B \in SUBSET S /\ C \in SUBSET S
  BY <1>4 DEF Predicted
<1>6. \A r \in S : /\ r \in A <=> Predict(r.weight, band) = "valid"
                   /\ r \in B <=> Predict(r.weight, band) = "invalid"
                   /\ r \in C <=> Predict(r.weight, band) = "abstain"
                   /\ Predict(r.weight, band) \in Outcomes
  BY <1>4 DEF Predicted, Predict, Outcomes
<1>7. /\ \A r \in S : r \in A \/ r \in B \/ r \in C
      /\ \A r \in S : ~(r \in A /\ r \in B) /\ ~(r \in A /\ r \in C) /\ ~(r \in B /\ r \in C)
  BY <1>6 DEF Outcomes
<1>8. IsFiniteSet(S)
  BY <1>3, <1>4
<1>9. /\ Cardinality(S) = Cardinality(A) + Cardinality(B) + Cardinality(C)
      /\ Cardinality(A) \in Nat /\ Cardinality(B) \in Nat /\ Cardinality(C) \in Nat
  BY <1>5, <1>7, <1>8, ThreeParts
<1> QED
  BY <1>1, <1>2, <1>4, <1>9 DEF True, Outcomes

\* The confusion matrix counts each record once.
LEMMA MatrixCountsOnce ==
    ASSUME NEW R, IsRecords(R), NEW band
    PROVE  LET m == ConfusionMatrix(R, band)
           IN  Cardinality(R) = True(m, "valid") + True(m, "invalid") + True(m, "abstain")
<1>1. PICK A, B, C : A = With(R, "valid") /\ B = With(R, "invalid") /\ C = With(R, "abstain")
  OBVIOUS
<1>2. A \in SUBSET R /\ B \in SUBSET R /\ C \in SUBSET R
  BY <1>1 DEF With
<1>3. /\ \A r \in R : r \in A \/ r \in B \/ r \in C
      /\ \A r \in R : ~(r \in A /\ r \in B) /\ ~(r \in A /\ r \in C) /\ ~(r \in B /\ r \in C)
  BY <1>1 DEF With, IsRecords, Outcomes
<1>4. IsFiniteSet(R)
  BY DEF IsRecords
<1>5. Cardinality(R) = Cardinality(A) + Cardinality(B) + Cardinality(C)
  BY <1>2, <1>3, <1>4, ThreeParts
<1> QED
  BY <1>1, <1>5, RowCounts DEF Outcomes

\* So every class of every report is sound.
LEMMA ClassIsSound ==
    ASSUME NEW R, IsRecords(R), ~OneSided(R)
    PROVE  LET class == CalibrateClass(R)
           IN  /\ class.band.reject < class.band.accept
               /\ class.examples = True(class.matrix, "valid") + True(class.matrix, "invalid")
                                     + True(class.matrix, "abstain")
<1>1. /\ CalibrateClass(R).band = Band(R)
      /\ CalibrateClass(R).examples = Cardinality(R)
      /\ CalibrateClass(R).matrix = ConfusionMatrix(R, Band(R))
  BY DEF CalibrateClass
<1> QED
  BY <1>1, BandIsApart, MatrixCountsOnce

-----------------------------------------------------------------------------
(***************************************************************************)
(* The records a calibration is of.                                        *)
(***************************************************************************)

LEMMA GoldIsRecords == IsRecords(GoldSeed)
BY CalibrationAssumption, GoldAssumption DEF IsRecords, IsGoldLine

LEMMA PartOfRecords ==
    ASSUME NEW R, IsRecords(R), NEW l
    PROVE  IsRecords(Labeled(R, l)) /\ Labeled(R, l) \in SUBSET R
<1>1. Labeled(R, l) \in SUBSET R
  BY DEF Labeled
<1> QED
  BY <1>1, FS_Subset DEF IsRecords

\* Of which rows of the ledger calibration makes records.
LEMMA JudgedRows ==
    ASSUME NEW rows \in KnownRows, NEW c \in Judged(rows)
    PROVE  LET r == GoldRecord(c, rows[c])
           IN  /\ r.id = c /\ r.label \in Vocabulary \union {NoLabel}
               /\ r.weight \in 0 .. 100 /\ r.verdict \in Outcomes
<1>1. c \in Claim /\ rows[c].status \in {"confirmed", "invalidated", "abstain"}
  BY DEF Judged, GoldVerdict
<1>2. rows[c] \in {NoRow} \union SeedRow \union VerdictRow \union RulingRow
  BY <1>1 DEF KnownRows
<1>3. rows[c] \in VerdictRow \union RulingRow
  BY <1>1, <1>2 DEF NoRow, SeedRow
<1>4. /\ rows[c].label \in Vocabulary \union {NoLabel}
      /\ rows[c].weight \in (0 .. 100) \union {Unweighted}
  BY <1>3 DEF VerdictRow, RulingRow
<1>5. GoldVerdict[rows[c].status] \in Outcomes
  BY <1>1 DEF GoldVerdict, Outcomes
<1>6. (IF rows[c].weight = Unweighted THEN 0 ELSE rows[c].weight) \in 0 .. 100
  BY <1>4
<1> QED
  BY <1>4, <1>5, <1>6 DEF GoldRecord

\* There are finitely many, one of each verdict of the ledger.
LEMMA LedgerIsFinite ==
    ASSUME NEW rows \in KnownRows
    PROVE  IsFiniteSet(LedgerToGold(rows))
<1>1. IsFiniteSet(Judged(rows))
  <2>1. Judged(rows) \in SUBSET Claim
    BY DEF Judged
  <2> QED
    BY <2>1, FS_Subset, GoldAssumption
<1>2. PICK J : J = Judged(rows)
  OBVIOUS
<1>3. PICK f : f = [c \in J |-> GoldRecord(c, rows[c])]
  OBVIOUS
<1>4. f \in [J -> LedgerToGold(rows)]
  BY <1>2, <1>3 DEF LedgerToGold
<1>5. \A r \in LedgerToGold(rows) : \E c \in J : f[c] = r
  BY <1>2, <1>3 DEF LedgerToGold
<1>6. f \in Surjection(J, LedgerToGold(rows))
  BY <1>4, <1>5 DEF Surjection
<1> QED
  BY <1>1, <1>2, <1>6, FS_Surjection

\* What calibration makes of the ledger are records.
LEMMA LedgerIsRecords ==
    ASSUME NEW rows \in KnownRows
    PROVE  /\ IsRecords(LedgerToGold(rows))
           /\ \A r \in LedgerToGold(rows) : r.label \in Vocabulary \union {NoLabel}
<1>1. \A r \in LedgerToGold(rows) :
        r.weight \in 0 .. 100 /\ r.label \in Vocabulary \union {NoLabel} /\ r.verdict \in Outcomes
  BY JudgedRows DEF LedgerToGold
<1> QED
  BY <1>1, LedgerIsFinite DEF IsRecords

\* The records of a label: those of the ledger, and where they are few those of
\* the gold set with them.
LEMMA RecordsByLabel ==
    ASSUME NEW rows \in KnownRows
    PROVE  /\ IsRecords(LedgerRecords(rows))
           /\ \A l \in Vocabulary :
                 Labeled(LedgerRecords(rows), l) =
                    IF Cardinality(VerdictsOn(rows, l)) < MIN_EXAMPLES_PER_TYPE
                    THEN VerdictsOn(rows, l) \union Labeled(GoldSeed, l) ELSE VerdictsOn(rows, l)
           /\ Labeled(LedgerRecords(rows), NoLabel) = VerdictsOn(rows, NoLabel)
           /\ Labels(LedgerRecords(rows)) \subseteq Vocabulary \union {NoLabel}
<1>1. PICK L, S : L = LedgerToGold(rows) /\ S = SparseLabels(L)
  OBVIOUS
<1>2. IsRecords(L) /\ \A r \in L : r.label \in Vocabulary \union {NoLabel}
  BY <1>1, LedgerIsRecords
<1>3. \A r \in GoldSeed : r.label \in Vocabulary /\ r.label # NoLabel
  BY CalibrationAssumption DEF IsGoldLine
<1>4. PICK G : G = {r \in GoldSeed : r.label \in S}
  OBVIOUS
<1>5. LedgerRecords(rows) = L \union G
  BY <1>1, <1>4 DEF LedgerRecords, MergeGlobalSeed
<1>6. IsRecords(L \union G)
  <2>1. IsFiniteSet(G)
    BY <1>4, GoldIsRecords, FS_Subset DEF IsRecords
  <2>2. IsFiniteSet(L \union G)
    BY <1>2, <2>1, FS_Union DEF IsRecords
  <2>3. \A r \in G : r.weight \in 0 .. 100 /\ r.verdict \in Outcomes
    BY <1>4, GoldIsRecords DEF IsRecords
  <2> QED
    BY <1>2, <2>2, <2>3 DEF IsRecords
<1>7. \A l : VerdictsOn(rows, l) = Labeled(L, l)
  BY <1>1 DEF VerdictsOn
<1>8. ASSUME NEW l \in Vocabulary
      PROVE  Labeled(L \union G, l) =
                IF Cardinality(Labeled(L, l)) < MIN_EXAMPLES_PER_TYPE
                THEN Labeled(L, l) \union Labeled(GoldSeed, l) ELSE Labeled(L, l)
  <2>1. l \in S <=> Cardinality(Labeled(L, l)) < MIN_EXAMPLES_PER_TYPE
    BY <1>1 DEF SparseLabels
  <2>2. CASE l \in S
    <3>1. Labeled(L \union G, l) = Labeled(L, l) \union Labeled(GoldSeed, l)
      BY <1>4, <2>2 DEF Labeled
    <3> QED
      BY <2>1, <2>2, <3>1
  <2>3. CASE l \notin S
    <3>1. Labeled(L \union G, l) = Labeled(L, l)
      BY <1>4, <2>3 DEF Labeled
    <3> QED
      BY <2>1, <2>3, <3>1
  <2> QED
    BY <2>2, <2>3
<1>9. Labeled(L \union G, NoLabel) = Labeled(L, NoLabel)
  BY <1>3, <1>4 DEF Labeled
<1>10. Labels(L \union G) \subseteq Vocabulary \union {NoLabel}
  BY <1>2, <1>3, <1>4 DEF Labels
<1> QED
  BY <1>5, <1>6, <1>7, <1>8, <1>9, <1>10

\* No relationship is left out.
LEMMA EveryLabelIsThere ==
    ASSUME NEW rows \in KnownRows, NEW l \in Vocabulary
    PROVE  l \in Labels(LedgerRecords(rows)) /\ Labeled(LedgerRecords(rows), l) # {}
<1>1. PICK V : V = VerdictsOn(rows, l)
  OBVIOUS
<1>2. Labeled(LedgerRecords(rows), l) =
        IF Cardinality(V) < MIN_EXAMPLES_PER_TYPE THEN V \union Labeled(GoldSeed, l) ELSE V
  BY <1>1, RecordsByLabel
<1>3. Labeled(GoldSeed, l) # {}
  BY GoldAssumption DEF GoldSetIsSeparated, OneSided, With
<1>4. V = {} => Cardinality(V) < MIN_EXAMPLES_PER_TYPE
  BY FS_EmptySet, GoldAssumption
<1>5. Labeled(LedgerRecords(rows), l) # {}
  BY <1>2, <1>3, <1>4
<1> QED
  BY <1>5 DEF Labels, Labeled

\* A calibration fails on nothing but one-sided verdicts.
LEMMA OnlyVerdictsFail ==
    ASSUME NEW rows \in KnownRows, ~CanCalibrate(LedgerRecords(rows))
    PROVE  VerdictsAreOneSided(rows)
<1>1. PICK l \in Labels(LedgerRecords(rows)) : OneSided(Labeled(LedgerRecords(rows), l))
  BY DEF CanCalibrate
<1>2. PICK R, V : R = Labeled(LedgerRecords(rows), l) /\ V = VerdictsOn(rows, l)
  OBVIOUS
<1>3. l \in Vocabulary \union {NoLabel} /\ R # {} /\ OneSided(R)
  BY <1>1, <1>2, RecordsByLabel DEF Labels, Labeled
<1>4. CASE l = NoLabel
  BY <1>2, <1>3, <1>4, RecordsByLabel DEF VerdictsAreOneSided
<1>5. CASE l \in Vocabulary /\ l # NoLabel
  <2>1. R = IF Cardinality(V) < MIN_EXAMPLES_PER_TYPE THEN V \union Labeled(GoldSeed, l) ELSE V
    BY <1>2, <1>5, RecordsByLabel
  <2>2. ~OneSided(V \union Labeled(GoldSeed, l))
    BY <1>5, GoldAssumption DEF GoldSetIsSeparated, OneSided, With
  <2>3. R = V /\ ~(Cardinality(V) < MIN_EXAMPLES_PER_TYPE)
    BY <1>3, <2>1, <2>2
  <2>4. Cardinality(V) \in Nat
    BY <1>2, LedgerIsRecords, PartOfRecords, FS_CardinalityType DEF IsRecords, VerdictsOn
  <2>5. Cardinality(V) >= MIN_EXAMPLES_PER_TYPE
    BY <2>3, <2>4, GoldAssumption
  <2> QED
    BY <1>2, <1>3, <1>5, <2>3, <2>5 DEF VerdictsAreOneSided
<1> QED
  BY <1>3, <1>4, <1>5

-----------------------------------------------------------------------------
(***************************************************************************)
(* What a calibration says.                                                *)
(***************************************************************************)

LEMMA ClassesOf ==
    ASSUME NEW R, NEW rep, rep = CalibrateEdges(R)
    PROVE  /\ rep.built = TRUE /\ DOMAIN rep.classes = Labels(R)
           /\ \A l \in Labels(R) : rep.classes[l] = CalibrateClass(Labeled(R, l))
<1>1. rep.built = TRUE /\ rep.classes = [l \in Labels(R) |-> CalibrateClass(Labeled(R, l))]
  BY DEF CalibrateEdges
<1> QED
  BY <1>1

\* A report that is built is sound.
LEMMA ReportIsSound ==
    ASSUME NEW rows \in KnownRows, CanCalibrate(LedgerRecords(rows)),
           NEW rep, rep = CalibrateFromLedger(rows)
    PROVE  /\ rep.built = TRUE
           /\ DOMAIN rep.classes = Labels(LedgerRecords(rows))
           /\ \A l \in DOMAIN rep.classes :
                 rep.classes[l] = CalibrateClass(Labeled(LedgerRecords(rows), l))
           /\ CacheIsSound(rep)
<1>1. PICK R : R = LedgerRecords(rows)
  OBVIOUS
<1>2. /\ rep.built = TRUE /\ DOMAIN rep.classes = Labels(R)
      /\ \A l \in Labels(R) : rep.classes[l] = CalibrateClass(Labeled(R, l))
  BY <1>1, ClassesOf DEF CalibrateFromLedger
<1>3. \A l \in Labels(R) : IsRecords(Labeled(R, l)) /\ ~OneSided(Labeled(R, l))
  BY <1>1, RecordsByLabel, PartOfRecords DEF CanCalibrate
<1>4. CacheIsSound(rep)
  BY <1>2, <1>3, ClassIsSound DEF CacheIsSound
<1> QED
  BY <1>1, <1>2, <1>4

LEMMA SeedClasses ==
    /\ DOMAIN SeedReport.classes = Vocabulary
    /\ \A l \in Vocabulary : SeedReport.classes[l] = CalibrateClass(Labeled(GoldSeed, l))
<1>1. Labels(GoldSeed) = Vocabulary
  <2>1. \A r \in GoldSeed : r.label \in Vocabulary
    BY CalibrationAssumption DEF IsGoldLine
  <2>2. \A l \in Vocabulary : \E r \in GoldSeed : r.label = l
    BY GoldAssumption DEF GoldSetIsSeparated, OneSided, With, Labeled
  <2> QED
    BY <2>1, <2>2 DEF Labels
<1> QED
  BY <1>1, ClassesOf DEF SeedReport

\* Between the invalid and the valid examples of the gold set there is room.
LEMMA GoldBand ==
    ASSUME NEW l \in Vocabulary
    PROVE  LET R == Labeled(GoldSeed, l)
               band == CalibrateClass(R).band
           IN  /\ band.reject = 2 * Heaviest(With(R, "invalid"))
               /\ band.accept = 2 * Lightest(With(R, "valid"))
               /\ band.reject \in Int /\ band.accept \in Int /\ band.reject < band.accept
               /\ \A r \in R : /\ r.weight \in 0 .. 100 /\ r.verdict \in Outcomes
                               /\ r.verdict = "invalid" => 2 * r.weight <= band.reject
                               /\ r.verdict = "valid" => 2 * r.weight >= band.accept
                               /\ r.verdict # "valid" => 2 * r.weight < band.accept
<1>1. PICK R : R = Labeled(GoldSeed, l)
  OBVIOUS
<1>2. IsRecords(R) /\ R \in SUBSET GoldSeed /\ ~OneSided(R) /\ \A r \in R : r.label = l
  BY <1>1, PartOfRecords, GoldIsRecords, GoldAssumption DEF GoldSetIsSeparated, Labeled
<1>3. PICK I, V : I = With(R, "invalid") /\ V = With(R, "valid")
  OBVIOUS
<1>4. /\ I # {} /\ V # {} /\ I \in SUBSET R /\ V \in SUBSET R
      /\ \A r \in R : r \in I <=> r.verdict = "invalid"
      /\ \A r \in R : r \in V <=> r.verdict = "valid"
      /\ \A r \in R : r.weight \in 0 .. 100 /\ r.verdict \in Outcomes
  BY <1>2, <1>3 DEF OneSided, With, IsRecords
<1>5. PICK h, w : h = Heaviest(I) /\ w = Lightest(V)
  OBVIOUS
<1>6. /\ h \in 0 .. 100 /\ \A r \in I : h >= r.weight
      /\ \E r \in I : h = r.weight
      /\ w \in 0 .. 100 /\ \A r \in V : w <= r.weight
      /\ \E r \in V : w = r.weight
  BY <1>4, <1>5, LightestAndHeaviest
<1>7. \A r, s \in R : r.verdict = "valid" /\ s.verdict # "valid" => s.weight < r.weight
  BY <1>2, GoldAssumption DEF GoldSetIsSeparated
<1>8. h < w
  BY <1>4, <1>6, <1>7
<1>9. /\ CalibrateClass(R).band = Band(R)
      /\ Band(R) = [reject |-> 2 * h, accept |-> 2 * w]
  BY <1>3, <1>5, <1>6, <1>8 DEF CalibrateClass, Band
<1>10. /\ CalibrateClass(R).band.reject = 2 * h /\ CalibrateClass(R).band.accept = 2 * w
  BY <1>9
<1>11. \A r \in R : /\ r.verdict = "invalid" => 2 * r.weight <= 2 * h
                    /\ r.verdict = "valid" => 2 * r.weight >= 2 * w
  BY <1>4, <1>6
<1>12. \A r \in R : r.verdict # "valid" => 2 * r.weight < 2 * w
  BY <1>4, <1>6, <1>7
<1> QED
  BY <1>1, <1>3, <1>4, <1>5, <1>6, <1>8, <1>10, <1>11, <1>12

\* Verdicts that agree with the gold set move none of its thresholds.
LEMMA AgreementMovesNothing ==
    ASSUME NEW l \in Vocabulary, NEW V, IsRecords(V), AgreeWithGold(V, l)
    PROVE  CalibrateClass(V \union Labeled(GoldSeed, l)).band = SeedReport.classes[l].band
<1>1. PICK G, U : G = Labeled(GoldSeed, l) /\ U = V \union G
  OBVIOUS
<1>2. PICK h, w : h = Heaviest(With(G, "invalid")) /\ w = Lightest(With(G, "valid"))
  OBVIOUS
<1>3. SeedReport.classes[l].band = CalibrateClass(G).band
  BY <1>1, SeedClasses
<1>4. /\ SeedReport.classes[l].band.reject = 2 * h /\ SeedReport.classes[l].band.accept = 2 * w
      /\ 2 * h < 2 * w
  BY <1>1, <1>2, <1>3, GoldBand
<1>5. IsRecords(G) /\ ~OneSided(G)
  BY <1>1, PartOfRecords, GoldIsRecords, GoldAssumption DEF GoldSetIsSeparated
<1>6. PICK I, J : I = With(G, "invalid") /\ J = With(G, "valid")
  OBVIOUS
<1>7. /\ I # {} /\ J # {} /\ \A r \in I \union J : r.weight \in 0 .. 100
      /\ \A r \in G : r \in I <=> r.verdict = "invalid"
      /\ \A r \in G : r \in J <=> r.verdict = "valid"
  BY <1>5, <1>6 DEF OneSided, With, IsRecords
<1>8. /\ h \in 0 .. 100 /\ (\A r \in I : h >= r.weight) /\ (\E r \in I : h = r.weight)
      /\ w \in 0 .. 100 /\ (\A r \in J : w <= r.weight) /\ (\E r \in J : w = r.weight)
  BY <1>2, <1>6, <1>7, LightestAndHeaviest
<1>9. /\ h < w
      /\ \A r \in V : /\ r.weight \in 0 .. 100
                      /\ r.verdict = "invalid" => r.weight <= h
                      /\ r.verdict = "valid" => r.weight >= w
  <2>1. ASSUME NEW r \in V
        PROVE  /\ r.weight \in 0 .. 100
               /\ r.verdict = "invalid" => 2 * r.weight <= 2 * h
               /\ r.verdict = "valid" => 2 * r.weight >= 2 * w
    <3>1. r.weight \in 0 .. 100
      BY DEF IsRecords
    <3>2. PICK band : band = SeedReport.classes[l].band
      OBVIOUS
    <3>3. r.verdict # "abstain" => Predict(r.weight, band) = r.verdict
      BY <3>2 DEF AgreeWithGold
    <3> QED
      BY <1>4, <3>1, <3>2, <3>3 DEF Predict
  <2> QED
    BY <1>4, <1>8, <2>1
<1>10. PICK A, B : A = With(U, "invalid") /\ B = With(U, "valid")
  OBVIOUS
<1>11. /\ I \subseteq A /\ J \subseteq B
       /\ \A r \in A : r \in I \/ (r \in V /\ r.verdict = "invalid")
       /\ \A r \in B : r \in J \/ (r \in V /\ r.verdict = "valid")
  BY <1>1, <1>6, <1>10 DEF With
<1>12. /\ A # {} /\ B # {} /\ \A r \in A \union B : r.weight \in 0 .. 100
       /\ \A r \in A : r.weight <= h
       /\ \A r \in B : r.weight >= w
  BY <1>7, <1>8, <1>9, <1>11
<1>13. /\ Heaviest(A) \in 0 .. 100 /\ (\A r \in A : Heaviest(A) >= r.weight)
       /\ (\E r \in A : Heaviest(A) = r.weight)
       /\ Lightest(B) \in 0 .. 100 /\ (\A r \in B : Lightest(B) <= r.weight)
       /\ (\E r \in B : Lightest(B) = r.weight)
  BY <1>12, LightestAndHeaviest
<1>14. Heaviest(A) = h
  <2>1. PICK r \in A : Heaviest(A) = r.weight
    BY <1>13
  <2>2. PICK q \in I : h = q.weight
    BY <1>8
  <2>3. Heaviest(A) <= h
    BY <1>12, <2>1
  <2>4. Heaviest(A) >= h
    BY <1>11, <1>13, <2>2
  <2> QED
    BY <1>8, <1>13, <2>3, <2>4
<1>15. Lightest(B) = w
  <2>1. PICK r \in B : Lightest(B) = r.weight
    BY <1>13
  <2>2. PICK q \in J : w = q.weight
    BY <1>8
  <2>3. Lightest(B) >= w
    BY <1>12, <2>1
  <2>4. Lightest(B) <= w
    BY <1>11, <1>13, <2>2
  <2> QED
    BY <1>8, <1>13, <2>3, <2>4
<1>16. ~(h >= w)
  BY <1>8, <1>9
<1>17. Band(U) = [reject |-> 2 * h, accept |-> 2 * w]
  BY <1>10, <1>14, <1>15, <1>16 DEF Band
<1>18. Band(G) = [reject |-> 2 * h, accept |-> 2 * w]
  BY <1>2, <1>16 DEF Band
<1>19. CalibrateClass(U).band = Band(U) /\ CalibrateClass(G).band = Band(G)
  BY DEF CalibrateClass
<1> QED
  BY <1>1, <1>3, <1>17, <1>18, <1>19

\* By what examples a report judges a relationship.
LEMMA ReportKeepsRule ==
    ASSUME NEW rows \in KnownRows, CanCalibrate(LedgerRecords(rows)),
           NEW rep, rep = CalibrateFromLedger(rows), NEW l \in Vocabulary
    PROVE  /\ l \in DOMAIN rep.classes
           /\ Cardinality(VerdictsOn(rows, l)) >= MIN_EXAMPLES_PER_TYPE =>
                 rep.classes[l] = CalibrateClass(VerdictsOn(rows, l))
           /\ AgreeWithGold(VerdictsOn(rows, l), l) =>
                 rep.classes[l].band = SeedReport.classes[l].band
<1>1. PICK V : V = VerdictsOn(rows, l)
  OBVIOUS
<1>2. IsRecords(V) /\ Cardinality(V) \in Nat
  BY <1>1, LedgerIsRecords, PartOfRecords, FS_CardinalityType DEF IsRecords, VerdictsOn
<1>3. /\ l \in DOMAIN rep.classes
      /\ rep.classes[l] = CalibrateClass(Labeled(LedgerRecords(rows), l))
  BY ReportIsSound, EveryLabelIsThere
<1>4. Labeled(LedgerRecords(rows), l) =
        IF Cardinality(V) < MIN_EXAMPLES_PER_TYPE THEN V \union Labeled(GoldSeed, l) ELSE V
  BY <1>1, RecordsByLabel
<1>5. Cardinality(V) >= MIN_EXAMPLES_PER_TYPE => Labeled(LedgerRecords(rows), l) = V
  BY <1>2, <1>4, GoldAssumption
<1>6. ASSUME AgreeWithGold(V, l)
      PROVE  rep.classes[l].band = SeedReport.classes[l].band
  <2>1. Labeled(LedgerRecords(rows), l) = V \union Labeled(GoldSeed, l)
    BY <1>4, <1>6 DEF AgreeWithGold
  <2> QED
    BY <1>2, <1>3, <1>6, <2>1, AgreementMovesNothing
<1> QED
  BY <1>1, <1>3, <1>5, <1>6

\* Who is advised by the gold set is advised as it says.
LEMMA AdviceFollowsTheGold ==
    ASSUME NEW rep, NEW guess \in Guess, guess.label \in Vocabulary,
           guess.label \in DOMAIN rep.classes,
           rep.classes[guess.label].band = SeedReport.classes[guess.label].band
    PROVE  FollowsTheGold(guess, Advise(rep, guess))
<1> SUFFICES ASSUME NEW r \in Labeled(GoldSeed, guess.label)
             PROVE  /\ r.verdict = "invalid" /\ guess.score <= r.weight
                          => Advise(rep, guess) = "invalid"
                    /\ r.verdict = "valid" /\ guess.score >= r.weight
                          => Advise(rep, guess) = "valid"
  BY DEF FollowsTheGold
<1>1. PICK l : l = guess.label
  OBVIOUS
<1>2. l \in Vocabulary
  BY <1>1
<1>3. PICK band : band = CalibrateClass(Labeled(GoldSeed, l)).band
  OBVIOUS
<1>4. Advise(rep, guess) = Predict(guess.score, band)
  BY <1>1, <1>2, <1>3, SeedClasses DEF Advise
<1>5. /\ band.reject \in Int /\ band.accept \in Int /\ band.reject < band.accept
      /\ r.weight \in 0 .. 100
      /\ r.verdict = "invalid" => 2 * r.weight <= band.reject
      /\ r.verdict = "valid" => 2 * r.weight >= band.accept
  BY <1>1, <1>2, <1>3, GoldBand
<1>6. guess.score \in Nat
  BY GoldAssumption
<1> QED
  BY <1>4, <1>5, <1>6 DEF Predict

\* The thresholds of a gold class judge each of its records right.
LEMMA GoldIsJudgedRight ==
    ASSUME NEW l \in Vocabulary, NEW class, class = CalibrateClass(Labeled(GoldSeed, l))
    PROVE  /\ class.matrix["invalid"]["valid"] = 0 /\ class.matrix["abstain"]["valid"] = 0
           /\ class.matrix["valid"]["invalid"] = 0
           /\ class.matrix["valid"]["valid"] \in Nat \ {0}
           /\ True(class.matrix, "valid") = class.matrix["valid"]["valid"]
           /\ True(class.matrix, "invalid") \in Nat
<1>1. PICK R, band, m : R = Labeled(GoldSeed, l) /\ band = Band(R) /\ m = ConfusionMatrix(R, band)
  OBVIOUS
<1>2. class.band = band /\ class.matrix = m
  BY <1>1 DEF CalibrateClass
<1>3. IsRecords(R) /\ ~OneSided(R)
  BY <1>1, PartOfRecords, GoldIsRecords, GoldAssumption DEF GoldSetIsSeparated
<1>4. /\ band.reject \in Int /\ band.accept \in Int /\ band.reject < band.accept
      /\ \A r \in R : /\ r.weight \in 0 .. 100
                      /\ r.verdict = "valid" => 2 * r.weight >= band.accept
                      /\ r.verdict # "valid" => 2 * r.weight < band.accept
  BY <1>1, <1>2, GoldBand
<1>5. \A r \in R : Predict(r.weight, band) = "valid" <=> r.verdict = "valid"
  BY <1>4 DEF Predict
<1>6. /\ Predicted(R, "invalid", band, "valid") = {} /\ Predicted(R, "abstain", band, "valid") = {}
      /\ Predicted(R, "valid", band, "invalid") = {} /\ Predicted(R, "valid", band, "abstain") = {}
      /\ Predicted(R, "valid", band, "valid") = With(R, "valid")
  BY <1>5 DEF Predicted, With
<1>7. Cardinality({}) = 0
  BY FS_EmptySet
<1>8. \A v, p \in Outcomes : /\ m[v][p] = Cardinality(Predicted(R, v, band, p))
                             /\ m[v][p] \in Nat
  BY <1>1, <1>3, RowCounts
<1>9. /\ m["invalid"]["valid"] = 0 /\ m["abstain"]["valid"] = 0
      /\ m["valid"]["invalid"] = 0 /\ m["valid"]["abstain"] = 0
      /\ m["valid"]["valid"] = Cardinality(With(R, "valid"))
  BY <1>6, <1>7, <1>8 DEF Outcomes
<1>10. Cardinality(With(R, "valid")) \in Nat \ {0}
  BY <1>3, WithRecords, FS_EmptySet, FS_CardinalityType DEF IsRecords, OneSided
<1>11. True(m, "valid") = m["valid"]["valid"] /\ True(m, "invalid") \in Nat
  BY <1>8, <1>9, <1>10 DEF True, Outcomes
<1> QED
  BY <1>2, <1>9, <1>10, <1>11

\* So the gold classes pass the gates.
LEMMA GoldClassesPass ==
    ASSUME NEW l \in Vocabulary, NEW class, class = CalibrateClass(Labeled(GoldSeed, l))
    PROVE  ClassFailures(class) \subseteq {"insufficient_examples_per_type", "abstain_band_too_wide"}
<1> DEFINE m == class.matrix
           t == m["valid"]["valid"]
           u == True(m, "invalid")
           fv == m["invalid"]["valid"] + m["abstain"]["valid"]
<1>3. /\ fv = 0 /\ m["valid"]["invalid"] = 0
      /\ t \in Nat /\ t # 0 /\ True(m, "valid") = t /\ u \in Nat
  BY GoldIsJudgedRight
<1> HIDE DEF m, t, u, fv
<1>4. /\ AtLeastOne(t + fv) = t /\ AtLeastOne(t) = t
      /\ AtLeastOne(u) \in Nat
  BY <1>3 DEF AtLeastOne
<1>5. /\ ~(100 * t < 85 * t) /\ ~(100 * t < 70 * t)
      /\ ~(100 * fv > 15 * AtLeastOne(u)) /\ ~(100 * 0 > 30 * t)
  BY <1>3, <1>4
<1> DEFINE Fails(reason, condition) == IF condition THEN {reason} ELSE {}
<1>6. ClassFailures(class) =
        UNION {Fails("insufficient_examples_per_type", class.examples < MIN_EXAMPLES_PER_TYPE),
               Fails("below_precision", 100 * t < 85 * AtLeastOne(t + fv)),
               Fails("below_recall", 100 * t < 70 * AtLeastOne(True(m, "valid"))),
               Fails("above_false_positive", 100 * fv > 15 * AtLeastOne(u)),
               Fails("above_false_negative",
                     100 * m["valid"]["invalid"] > 30 * AtLeastOne(True(m, "valid"))),
               Fails("abstain_band_too_wide", class.band.accept - class.band.reject > 100)}
  BY Zenon DEF ClassFailures, m, t, u, fv
<1>7. /\ Fails("below_precision", 100 * t < 85 * AtLeastOne(t + fv)) = {}
      /\ Fails("below_recall", 100 * t < 70 * AtLeastOne(True(m, "valid"))) = {}
      /\ Fails("above_false_positive", 100 * fv > 15 * AtLeastOne(u)) = {}
      /\ Fails("above_false_negative",
               100 * m["valid"]["invalid"] > 30 * AtLeastOne(True(m, "valid"))) = {}
  BY <1>3, <1>4, <1>5
<1>8. /\ Fails("insufficient_examples_per_type", class.examples < MIN_EXAMPLES_PER_TYPE)
            \subseteq {"insufficient_examples_per_type"}
      /\ Fails("abstain_band_too_wide", class.band.accept - class.band.reject > 100)
            \subseteq {"abstain_band_too_wide"}
  OBVIOUS
<1> HIDE DEF Fails
<1> QED
  BY <1>6, <1>7, <1>8

\* The grounding is given, and its gates fail on what the callers leave out.
LEMMA GroundingHolds ==
    /\ GoldSetIsWhole /\ CanCalibrate(GoldSeed)
    /\ SeedFailures # {}
    /\ SeedFailures \intersect
          {"below_precision", "below_recall", "above_false_positive",
           "above_false_negative", "missing_class_metrics"} = {}
<1>1. Labels(GoldSeed) \subseteq Vocabulary
  BY CalibrationAssumption DEF IsGoldLine, Labels
<1>2. GoldSetIsWhole /\ CanCalibrate(GoldSeed)
  BY <1>1, GoldAssumption DEF CanCalibrate, GoldSetIsSeparated
<1>3. PICK rep : rep = SeedReport
  OBVIOUS
<1>4. /\ DOMAIN rep.classes = Vocabulary
      /\ \A l \in Vocabulary : rep.classes[l] = CalibrateClass(Labeled(GoldSeed, l))
  BY <1>3, SeedClasses
<1>5. PICK C : C = UNION {ClassFailures(rep.classes[l]) : l \in DOMAIN rep.classes}
  OBVIOUS
<1>6. C \subseteq {"insufficient_examples_per_type", "abstain_band_too_wide"}
  BY <1>4, <1>5, GoldClassesPass
<1> DEFINE From(p) == {r \in GoldSeed : r.provenance = p}
           Fails(reason, condition) == IF condition THEN {reason} ELSE {}
<1>7. PICK s, g, h : /\ s = Fails("seed_only_baseline", From("seed") # {} /\ From("hand_labeled") = {})
                     /\ g = Fails("generated_records_present", From("generated") # {})
                     /\ h = Fails("insufficient_hand_labeled",
                                  \/ Cardinality(From("hand_labeled")) < MIN_HAND_LABELED_TOTAL
                                  \/ \E l \in Vocabulary :
                                        Cardinality(Labeled(From("hand_labeled"), l))
                                            < MIN_HAND_LABELED_PER_TYPE)
  OBVIOUS
<1>8. GateFailures(rep, GoldSeed, 1, 0) =
        UNION {s, g, h, Fails("missing_class_metrics", ~(Vocabulary \subseteq DOMAIN rep.classes)),
               Fails("consecutive_runs_insufficient", 1 < 2),
               Fails("human_abstain_review_insufficient", 0 < 20), C}
  BY <1>5, <1>7, Zenon DEF GateFailures
<1>9. /\ Fails("missing_class_metrics", ~(Vocabulary \subseteq DOMAIN rep.classes)) = {}
      /\ Fails("consecutive_runs_insufficient", 1 < 2) = {"consecutive_runs_insufficient"}
      /\ Fails("human_abstain_review_insufficient", 0 < 20) = {"human_abstain_review_insufficient"}
  BY <1>4
<1>10. /\ s \subseteq {"seed_only_baseline"} /\ g \subseteq {"generated_records_present"}
       /\ h \subseteq {"insufficient_hand_labeled"}
  BY <1>7
<1>11. SeedFailures = GateFailures(rep, GoldSeed, 1, 0)
  BY <1>3 DEF SeedFailures
<1> HIDE DEF Fails
<1> QED
  BY <1>2, <1>6, <1>8, <1>9, <1>10, <1>11

\* A class of both kinds of example with fewer than three has two.
LEMMA OneEachWay ==
    ASSUME NEW R, IsRecords(R), ~OneSided(R), Cardinality(R) < 3
    PROVE  Cardinality(R) = 2
<1>1. PICK r, s \in R : r.verdict = "valid" /\ s.verdict = "invalid"
  BY DEF OneSided, With
<1>2. r # s
  BY <1>1
<1>3. Cardinality({r, s}) = 2
  <2>1. IsFiniteSet({r}) /\ Cardinality({r}) = 1
    BY FS_Singleton
  <2>2. Cardinality({r} \union {s}) = 2
    BY <1>2, <2>1, FS_AddElement
  <2>3. {r} \union {s} = {r, s}
    OBVIOUS
  <2> QED
    BY <2>2, <2>3
<1>4. {r, s} \in SUBSET R
  OBVIOUS
<1>5. Cardinality({r, s}) <= Cardinality(R) /\ Cardinality(R) \in Nat
  BY <1>4, FS_Subset, FS_CardinalityType DEF IsRecords
<1> QED
  BY <1>3, <1>5

\* The only classes of few examples are of verdicts alone, one each way.
LEMMA GapsAreOfVerdicts ==
    ASSUME NEW rows \in KnownRows, CanCalibrate(LedgerRecords(rows)),
           NEW l \in Thin(CalibrateFromLedger(rows))
    PROVE  Cardinality(VerdictsOn(rows, l)) = 2
<1>1. PICK R, V : R = Labeled(LedgerRecords(rows), l) /\ V = VerdictsOn(rows, l)
  OBVIOUS
<1>2. l \in Labels(LedgerRecords(rows)) /\ Cardinality(R) < 3
  <2>1. \A Q : CalibrateClass(Q).examples = Cardinality(Q)
    BY DEF CalibrateClass
  <2> QED
    BY <1>1, <2>1, ReportIsSound DEF Thin
<1>3. IsRecords(R) /\ ~OneSided(R) /\ l \in Vocabulary \union {NoLabel}
  BY <1>1, <1>2, RecordsByLabel, PartOfRecords DEF CanCalibrate
<1>4. Cardinality(R) = 2
  BY <1>2, <1>3, OneEachWay
<1>5. CASE l = NoLabel
  BY <1>1, <1>4, <1>5, RecordsByLabel
<1>6. CASE l \in Vocabulary
  <2>1. R = IF Cardinality(V) < MIN_EXAMPLES_PER_TYPE THEN V \union Labeled(GoldSeed, l) ELSE V
    BY <1>1, <1>6, RecordsByLabel
  <2>2. R # V \union Labeled(GoldSeed, l)
    <3>1. SUFFICES ASSUME R = V \union Labeled(GoldSeed, l)
                   PROVE  FALSE
      OBVIOUS
    <3>2. PICK G : G = Labeled(GoldSeed, l)
      OBVIOUS
    <3>3. IsFiniteSet(R) /\ G \in SUBSET R
      BY <1>3, <3>1, <3>2 DEF IsRecords
    <3>4. Cardinality(G) <= Cardinality(R)
      BY <3>3, FS_Subset
    <3>5. Cardinality(G) \in Nat
      BY <3>3, FS_Subset, FS_CardinalityType
    <3>6. Cardinality(G) >= GROUNDING_EXAMPLES
      BY <1>6, <3>2, GoldAssumption DEF GoldSetIsWhole
    <3> QED
      BY <1>4, <3>4, <3>5, <3>6, GoldAssumption
  <2> QED
    BY <1>1, <1>4, <2>1, <2>2
<1> QED
  BY <1>3, <1>5, <1>6

-----------------------------------------------------------------------------
(***************************************************************************)
(* Calibration: what the steps preserve.                                   *)
(***************************************************************************)

LEMMA SilenceIsSound == ASSUME advice' = Silence PROVE AdviceIsSound'
BY DEF Silence, AdviceIsSound, FailuresAreExplained, GroundingIsAdvisory

\* A step that lets caches go, but makes none: those that count as current are
\* of servers whose store and ledger are the same as before.
LEMMA CachesStayCurrent ==
    ASSUME CalibrationInv, RowsAreKnown', at' \in [Agent -> Store], advice' = Silence,
           cached' = [b \in Agent |-> cached'[b]],
           \A b \in Agent : cached'[b] # Unbuilt => cached'[b] = cached[b],
           \A b \in Agent : cached'[b] # Unbuilt /\ b \notin outdated' =>
               b \notin outdated /\ latest'[at'[b]] = latest[at[b]]
    PROVE  CalibrationInv'
<1>1. CachesAreSound'
  BY DEF CachesAreSound, CalibrationInv
<1>2. CachesAreCurrent'
  BY DEF CachesAreCurrent, CalibrationInv, LedgerOf
<1>3. AdviceIsSound'
  BY SilenceIsSound
<1> QED
  BY <1>1, <1>2, <1>3 DEF CalibrationInv

\* A row of an edge is one of those that are written.
LEMMA RowsStayKnown ==
    ASSUME RowsAreKnown, NEW s \in Store, NEW c \in Claim, NEW row,
           row \in SeedRow \union VerdictRow \union RulingRow, Appends(s, c, row)
    PROVE  /\ RowsAreKnown'
           /\ \A t \in Store : t # s => latest'[t] = latest[t]
BY DEF RowsAreKnown, KnownRows, Appends

\* A server that appends a row evicts its own cache and outdates the others.
LEMMA AppendKeepsCaches ==
    ASSUME CalibrationInv, NEW a \in Agent, NEW c \in Claim, NEW row,
           row \in SeedRow \union VerdictRow \union RulingRow,
           Appends(at[a], c, row), EvictsItsOwn(a)
    PROVE  CalibrationInv'
<1>1. /\ cached' = [b \in Agent |-> IF b = a THEN Unbuilt ELSE cached[b]]
      /\ outdated' = (outdated \union {b \in Agent : at[b] = at[a] /\ cached[b] # Unbuilt}) \ {a}
      /\ at' = at /\ advice' = Silence
  BY DEF EvictsItsOwn, Evicts, Readers, CalibrationInv
<1>2. at \in [Agent -> Store] /\ at[a] \in Store
  BY DEF CalibrationInv
<1>3. RowsAreKnown' /\ \A t \in Store : t # at[a] => latest'[t] = latest[t]
  BY <1>2, RowsStayKnown DEF CalibrationInv
<1>4. /\ cached' = [b \in Agent |-> cached'[b]]
      /\ \A b \in Agent : cached'[b] # Unbuilt => b # a /\ cached'[b] = cached[b]
  BY <1>1
<1>5. ASSUME NEW b \in Agent, cached'[b] # Unbuilt, b \notin outdated'
      PROVE  b \notin outdated /\ latest'[at'[b]] = latest[at[b]]
  <2>1. b # a /\ cached[b] # Unbuilt
    BY <1>4, <1>5
  <2>2. b \notin outdated /\ at[b] # at[a]
    BY <1>1, <1>5, <2>1
  <2> QED
    BY <1>1, <1>2, <1>3, <2>2
<1> QED
  BY <1>1, <1>2, <1>3, <1>4, <1>5, CachesStayCurrent

LEMMA RecordEdgeStep ==
    ASSUME CalibrationInv, NEW a \in Agent, NEW c \in Claim, NEW w \in Weights, RecordEdge(a, c, w)
    PROVE  CalibrationInv'
<1>1. PICK row : /\ row = [status |-> IF IsFlagged(c, w) THEN "needs-confirmation" ELSE "inferred",
                           label |-> ClaimLabel[c], weight |-> w, provenance |-> "seed"]
                 /\ Appends(at[a], c, row)
  BY DEF RecordEdge
<1>2. row \in SeedRow
  BY <1>1, GoldAssumption DEF SeedRow
<1> QED
  BY <1>1, <1>2, AppendKeepsCaches DEF RecordEdge

LEMMA ResolveClaimStep ==
    ASSUME CalibrationInv, NEW a \in Agent, NEW c \in Claim, NEW outcome \in DOMAIN GoldVerdict,
           ResolveClaim(a, c, outcome)
    PROVE  CalibrationInv'
<1>1. PICK row : /\ row = [status |-> outcome, label |-> NoLabel, weight |-> Unweighted,
                           provenance |-> "hand_labeled"]
                 /\ Appends(at[a], c, row)
  BY DEF ResolveClaim
<1>2. row \in VerdictRow
  BY <1>1 DEF VerdictRow
<1> QED
  BY <1>1, <1>2, AppendKeepsCaches DEF ResolveClaim

\* What changes the ledger of a store past its servers outdates their caches.
LEMMA OutsideKeepsCaches ==
    ASSUME CalibrationInv, NEW s \in Store, RowsAreKnown',
           \A t \in Store : t # s => latest'[t] = latest[t],
           outdated' = outdated \union Readers(s), advice' = Silence, UNCHANGED <<at, cached>>
    PROVE  CalibrationInv'
<1>1. outdated' = outdated \union {b \in Agent : at[b] = s /\ cached[b] # Unbuilt}
  BY DEF Readers
<1>2. at \in [Agent -> Store] /\ cached = [b \in Agent |-> cached[b]]
  BY DEF CalibrationInv
<1>3. ASSUME NEW b \in Agent, cached'[b] # Unbuilt, b \notin outdated'
      PROVE  b \notin outdated /\ latest'[at'[b]] = latest[at[b]]
  <2>1. b \notin outdated /\ at[b] # s /\ at[b] \in Store
    BY <1>1, <1>2, <1>3
  <2> QED
    BY <2>1
<1> QED
  BY <1>2, <1>3, CachesStayCurrent

LEMMA AppendRowStep ==
    ASSUME CalibrationInv, NEW s \in Store, NEW c \in Claim, NEW j \in Ruling, AppendRow(s, c, j)
    PROVE  CalibrationInv'
<1>1. PICK row : /\ row = [status |-> j.outcome, label |-> ClaimLabel[c], weight |-> j.weight,
                           provenance |-> "seed"]
                 /\ Appends(s, c, row)
  BY DEF AppendRow
<1>2. row \in RulingRow
  BY <1>1, GoldAssumption, CalibrationAssumption DEF RulingRow, GoldVerdict
<1>3. RowsAreKnown' /\ \A t \in Store : t # s => latest'[t] = latest[t]
  BY <1>1, <1>2, RowsStayKnown DEF CalibrationInv
<1> QED
  BY <1>3, OutsideKeepsCaches DEF AppendRow

LEMMA RecreateGraphStep ==
    ASSUME CalibrationInv, NEW s \in Store, RecreateGraph(s)
    PROVE  CalibrationInv'
<1>1. RowsAreKnown' /\ \A t \in Store : t # s => latest'[t] = latest[t]
  BY DEF RecreateGraph, CalibrationInv, RowsAreKnown, KnownRows
<1> QED
  BY <1>1, OutsideKeepsCaches DEF RecreateGraph

\* Another store is opened with the cache of the old one.
LEMMA SwapStoreStep ==
    ASSUME CalibrationInv, NEW a \in Agent, NEW s \in Store, SwapStore(a, s)
    PROVE  CalibrationInv'
<1>1. /\ at' = [b \in Agent |-> IF b = a THEN s ELSE at[b]]
      /\ cached[a] # Unbuilt => a \in outdated'
      /\ \A b \in Agent : b \in outdated => b \in outdated'
      /\ latest' = latest /\ cached' = cached /\ advice' = Silence
  BY DEF SwapStore, CalibrationInv
<1>2. /\ at' \in [Agent -> Store] /\ cached' = [b \in Agent |-> cached'[b]] /\ RowsAreKnown'
  BY <1>1 DEF CalibrationInv, RowsAreKnown
<1>3. ASSUME NEW b \in Agent, cached'[b] # Unbuilt, b \notin outdated'
      PROVE  b \notin outdated /\ latest'[at'[b]] = latest[at[b]]
  BY <1>1, <1>3
<1> QED
  BY <1>1, <1>2, <1>3, CachesStayCurrent

LEMMA RestartAgentStep ==
    ASSUME CalibrationInv, NEW a \in Agent, RestartAgent(a)
    PROVE  CalibrationInv'
<1>1. /\ cached' = [b \in Agent |-> IF b = a THEN Unbuilt ELSE cached[b]]
      /\ at' = [b \in Agent |-> IF b = a THEN Home[a] ELSE at[b]]
      /\ latest' = latest /\ outdated' = outdated \ {a} /\ advice' = Silence
  BY DEF RestartAgent, Evicts, CalibrationInv
<1>2. /\ at' \in [Agent -> Store] /\ cached' = [b \in Agent |-> cached'[b]] /\ RowsAreKnown'
  BY <1>1, CalibrationAssumption DEF CalibrationInv, RowsAreKnown
<1>3. \A b \in Agent : cached'[b] # Unbuilt => b # a /\ cached'[b] = cached[b]
  BY <1>1
<1> QED
  BY <1>1, <1>2, <1>3, CachesStayCurrent

\* An answer leaves ledgers and caches.
LEMMA AnswerKeepsCaches ==
    ASSUME CalibrationInv, UNCHANGED <<latest, at, cached, outdated>>, AdviceIsSound'
    PROVE  CalibrationInv'
BY DEF CalibrationInv, RowsAreKnown, CachesAreSound, CachesAreCurrent, LedgerOf

LEMMA ResolveNothingStep ==
    ASSUME CalibrationInv, NEW a \in Agent, NEW c \in Claim, ResolveNothing(a, c)
    PROVE  CalibrationInv'
<1>1. advice' = [tool |-> "resolve", failed |-> TRUE]
  BY DEF ResolveNothing
<1>2. AdviceIsSound'
  BY <1>1 DEF AdviceIsSound, FailuresAreExplained, GroundingIsAdvisory
<1> QED
  BY <1>2, AnswerKeepsCaches DEF ResolveNothing

\* Advice by thresholds that are those of the ledger is sound.
LEMMA SuggestionIsSound ==
    ASSUME NEW a, NEW guess \in Guess, NEW rep,
           advice' = [tool |-> "suggest", by |-> a, failed |-> FALSE, guess |-> guess,
                      verdict |-> Advise(rep, guess)],
           a \notin outdated' =>
              /\ LedgerOf(a)' \in KnownRows /\ CanCalibrate(LedgerRecords(LedgerOf(a)'))
              /\ rep = CalibrateFromLedger(LedgerOf(a)')
    PROVE  AdviceIsSound'
<1>1. /\ advice'.tool = "suggest" /\ advice'.failed = FALSE /\ advice'.guess = guess
      /\ advice'.verdict = Advise(rep, guess) /\ advice'.by = a
  OBVIOUS
<1>2. PICK rows : rows = LedgerOf(a)'
  OBVIOUS
<1>3. ASSUME a \notin outdated', guess.label \in Vocabulary,
             AgreeWithGold(VerdictsOn(rows, guess.label), guess.label)
      PROVE  FollowsTheGold(guess, Advise(rep, guess))
  <2>1. rows \in KnownRows /\ CanCalibrate(LedgerRecords(rows)) /\ rep = CalibrateFromLedger(rows)
    BY <1>2, <1>3
  <2>2. /\ guess.label \in DOMAIN rep.classes
        /\ rep.classes[guess.label].band = SeedReport.classes[guess.label].band
    BY <1>3, <2>1, ReportKeepsRule
  <2> QED
    BY <1>3, <2>2, AdviceFollowsTheGold
<1>4. FailuresAreExplained' /\ GroundingIsAdvisory'
  BY <1>1 DEF FailuresAreExplained, GroundingIsAdvisory
<1>5. LedgerOf(advice.by)' = rows
  BY <1>1, <1>2 DEF LedgerOf
<1> QED
  BY <1>1, <1>3, <1>4, <1>5 DEF AdviceIsSound

\* The ledger of a server is one there can be.
LEMMA LedgerIsKnown ==
    ASSUME CalibrationInv, NEW a \in Agent
    PROVE  LedgerOf(a) \in KnownRows
BY DEF CalibrationInv, RowsAreKnown, LedgerOf

LEMMA SuggestByCacheStep ==
    ASSUME CalibrationInv, NEW a \in Agent, NEW guess \in Guess, SuggestByCache(a, guess)
    PROVE  CalibrationInv'
<1>1. a \notin outdated =>
        CanCalibrate(LedgerRecords(LedgerOf(a))) /\ cached[a] = CalibrateFromLedger(LedgerOf(a))
  BY DEF SuggestByCache, CachesAreCurrent, CalibrationInv
<1>2. LedgerOf(a)' = LedgerOf(a) /\ outdated' = outdated
  BY DEF SuggestByCache, LedgerOf
<1>3. AdviceIsSound'
  BY <1>1, <1>2, LedgerIsKnown, SuggestionIsSound DEF SuggestByCache
<1> QED
  BY <1>3, AnswerKeepsCaches DEF SuggestByCache

LEMMA SuggestAnewStep ==
    ASSUME CalibrationInv, NEW a \in Agent, NEW guess \in Guess, SuggestAnew(a, guess)
    PROVE  CalibrationInv'
<1>1. PICK rows : rows = LedgerOf(a)
  OBVIOUS
<1>2. rows \in KnownRows /\ LedgerOf(a)' = rows
  BY <1>1, LedgerIsKnown DEF SuggestAnew, LedgerOf
<1>3. ASSUME CanCalibrate(LedgerRecords(rows))
      PROVE  CalibrationInv'
  <2>1. PICK rep : rep = CalibrateFromLedger(rows)
    OBVIOUS
  <2>2. /\ cached' = [cached EXCEPT ![a] = rep]
        /\ advice' = [tool |-> "suggest", by |-> a, failed |-> FALSE, guess |-> guess,
                      verdict |-> Advise(rep, guess)]
        /\ latest' = latest /\ at' = at /\ outdated' = outdated
    BY <1>1, <1>3, <2>1 DEF SuggestAnew
  <2>3. CacheIsSound(rep)
    BY <1>2, <1>3, <2>1, ReportIsSound
  <2>4. AdviceIsSound'
    BY <1>2, <1>3, <2>1, <2>2, SuggestionIsSound
  <2>5. /\ cached' = [b \in Agent |-> cached'[b]]
        /\ \A b \in Agent : cached'[b] = IF b = a THEN rep ELSE cached[b]
    BY <2>2 DEF CalibrationInv
  <2>6. CachesAreSound'
    BY <2>3, <2>5 DEF CalibrationInv, CachesAreSound
  <2>7. CachesAreCurrent'
    BY <1>1, <1>3, <2>1, <2>2, <2>5 DEF CachesAreCurrent, CalibrationInv, LedgerOf
  <2>8. RowsAreKnown' /\ at' \in [Agent -> Store]
    BY <2>2 DEF RowsAreKnown, CalibrationInv
  <2> QED
    BY <2>4, <2>5, <2>6, <2>7, <2>8 DEF CalibrationInv
<1>4. ASSUME ~CanCalibrate(LedgerRecords(rows))
      PROVE  CalibrationInv'
  <2>1. /\ advice' = [tool |-> "suggest", by |-> a, failed |-> TRUE]
        /\ UNCHANGED <<latest, at, cached, outdated>>
    BY <1>1, <1>4 DEF SuggestAnew
  <2>2. VerdictsAreOneSided(rows)
    BY <1>2, <1>4, OnlyVerdictsFail
  <2>3. LedgerOf(advice.by)' = rows
    BY <1>1, <2>1 DEF LedgerOf
  <2>4. AdviceIsSound'
    BY <2>1, <2>2, <2>3 DEF AdviceIsSound, FailuresAreExplained, GroundingIsAdvisory
  <2> QED
    BY <2>1, <2>4, AnswerKeepsCaches
<1> QED
  BY <1>3, <1>4

LEMMA AssessStep ==
    ASSUME CalibrationInv, NEW a \in Agent, AssessCalibration(a)
    PROVE  CalibrationInv'
<1>1. PICK rows : rows = LedgerOf(a)
  OBVIOUS
<1>2. /\ rows \in KnownRows /\ LedgerOf(a)' = rows
      /\ UNCHANGED <<latest, at, cached, outdated>>
  BY <1>1, LedgerIsKnown DEF AssessCalibration, LedgerOf
<1>3. CASE (a \in AtRoot \/ SparseLabels(LedgerToGold(rows)) = {}) /\ CanCalibrate(LedgerRecords(rows))
  <2>1. advice' = [tool |-> "assess", by |-> a, failed |-> FALSE,
                   gaps |-> Thin(CalibrateFromLedger(rows))]
    BY <1>1, <1>3 DEF AssessCalibration
  <2>2. \A l \in Thin(CalibrateFromLedger(rows)) : Cardinality(VerdictsOn(rows, l)) = 2
    BY <1>2, <1>3, GapsAreOfVerdicts
  <2>3. LedgerOf(advice.by)' = rows
    BY <1>1, <1>2, <2>1 DEF LedgerOf
  <2>4. AdviceIsSound'
    BY <2>1, <2>2, <2>3 DEF AdviceIsSound, FailuresAreExplained, GroundingIsAdvisory
  <2> QED
    BY <1>2, <2>4, AnswerKeepsCaches
<1>4. CASE ~((a \in AtRoot \/ SparseLabels(LedgerToGold(rows)) = {})
               /\ CanCalibrate(LedgerRecords(rows)))
  <2>1. advice' = [tool |-> "assess", by |-> a, failed |-> TRUE]
    BY <1>1, <1>4 DEF AssessCalibration
  <2>2. a \notin AtRoot \/ VerdictsAreOneSided(rows)
    BY <1>2, <1>4, OnlyVerdictsFail
  <2>3. LedgerOf(advice.by)' = rows
    BY <1>1, <1>2, <2>1 DEF LedgerOf
  <2>4. AdviceIsSound'
    BY <2>1, <2>2, <2>3 DEF AdviceIsSound, FailuresAreExplained, GroundingIsAdvisory
  <2> QED
    BY <1>2, <2>4, AnswerKeepsCaches
<1> QED
  BY <1>3, <1>4

LEMMA GroundStep ==
    ASSUME CalibrationInv, NEW a \in Agent, Ground(a)
    PROVE  CalibrationInv'
<1>1. GoldSetIsWhole /\ CanCalibrate(GoldSeed)
  BY GroundingHolds
<1>2. advice' = [tool |-> "ground", failed |-> FALSE, failures |-> SeedFailures,
                 bands |-> [l \in DOMAIN SeedReport.classes |-> SeedReport.classes[l].band]]
  BY <1>1 DEF Ground
<1>3. advice'.tool = "ground" /\ advice'.failed = FALSE /\ advice'.failures = SeedFailures
  BY <1>2
<1>4. GroundingIsAdvisory'
  BY <1>3, GroundingHolds DEF GroundingIsAdvisory
<1>5. AdviceIsSound'
  BY <1>3, <1>4 DEF AdviceIsSound, FailuresAreExplained
<1> QED
  BY <1>5, AnswerKeepsCaches DEF Ground

LEMMA CalibrationStep == CalibrationInv /\ [CalibrationNext]_calibrationVars => CalibrationInv'
<1> SUFFICES ASSUME CalibrationInv, [CalibrationNext]_calibrationVars
             PROVE  CalibrationInv'
  OBVIOUS
<1>1. CASE UNCHANGED calibrationVars
  <2>1. UNCHANGED <<latest, at, cached, outdated>> /\ advice' = advice
    BY <1>1 DEF calibrationVars
  <2>2. AdviceIsSound
    BY DEF CalibrationInv
  <2>3. AdviceIsSound'
    BY <2>1, <2>2 DEF AdviceIsSound, FailuresAreExplained, GroundingIsAdvisory, LedgerOf
  <2> QED
    BY <2>1, <2>3, AnswerKeepsCaches
<1>2. CASE CalibrationNext
  <2>1. \A s \in Store : Held[s] \subseteq Claim
    BY CalibrationAssumption
  <2>2. \A a \in Agent : at[a] \in Store
    BY DEF CalibrationInv
  <2> QED
    BY <1>2, <2>1, <2>2, RecordEdgeStep, ResolveClaimStep, ResolveNothingStep, SuggestByCacheStep,
       SuggestAnewStep, AssessStep, GroundStep, SwapStoreStep, RestartAgentStep, AppendRowStep,
       RecreateGraphStep DEF CalibrationNext
<1> QED
  BY <1>1, <1>2

\* Calibration, for any gold set that is separated, any ledgers, servers and
\* stores they move between: the thresholds an agent is advised by are those of
\* its ledger and gold set, but where the store was swapped, the graph deleted
\* or a row written elsewhere since they were cached; and a failure is
\* explained by the verdicts.
THEOREM CalibrationSoundness == CalibrationSpec => []CalibrationIsSound
<1>1. CalibrationInit => CalibrationInv
  <2> SUFFICES ASSUME CalibrationInit PROVE CalibrationInv
    OBVIOUS
  <2>1. RowsAreKnown /\ at \in [Agent -> Store]
    BY CalibrationAssumption DEF CalibrationInit, RowsAreKnown, KnownRows
  <2>2. /\ cached = [a \in Agent |-> cached[a]] /\ \A a \in Agent : cached[a] = Unbuilt
    BY DEF CalibrationInit
  <2>3. AdviceIsSound
    BY DEF CalibrationInit, Silence, AdviceIsSound, FailuresAreExplained, GroundingIsAdvisory
  <2> QED
    BY <2>1, <2>2, <2>3 DEF CachesAreCurrent, CachesAreSound, CalibrationInv
<1>2. CalibrationInv => CalibrationIsSound
  <2> SUFFICES ASSUME CalibrationInv PROVE CalibrationIsSound
    OBVIOUS
  <2>1. ClassesAreSound
    BY DEF CalibrationInv, CachesAreSound, CacheIsSound, ClassesAreSound
  <2>2. ASSUME NEW a \in Agent, cached[a] # Unbuilt, a \notin outdated, NEW l \in Vocabulary
        PROVE  /\ Cardinality(VerdictsOn(LedgerOf(a), l)) >= MIN_EXAMPLES_PER_TYPE =>
                     cached[a].classes[l] = CalibrateClass(VerdictsOn(LedgerOf(a), l))
               /\ AgreeWithGold(VerdictsOn(LedgerOf(a), l), l) =>
                     cached[a].classes[l].band = SeedReport.classes[l].band
    <3>1. /\ LedgerOf(a) \in KnownRows /\ CanCalibrate(LedgerRecords(LedgerOf(a)))
          /\ cached[a] = CalibrateFromLedger(LedgerOf(a))
      BY <2>2, LedgerIsKnown DEF CalibrationInv, CachesAreCurrent
    <3> QED
      BY <3>1, ReportKeepsRule
  <2>3. ExamplesRule
    BY <2>2 DEF ExamplesRule, CalibrationInv, AdviceIsSound, FollowsTheGold
  <2> QED
    BY <2>1, <2>3 DEF CalibrationInv, CalibrationIsSound, AdviceIsSound
<1> QED
  BY <1>1, <1>2, CalibrationStep, PTL DEF CalibrationSpec

(***************************************************************************)
(* 2 SourceExploration.                                                    *)
(*                                                                         *)
(* The snapshot the baseline keeps says what was documented only while the *)
(* baseline is written in one shape, so that the strengthening says what   *)
(* it holds in either shape (BaselineIsDocs, by MapIsDocs and FlatIsDocs), *)
(* that a valid binding keeps what was probed (BindingKeepsProbe), and     *)
(* that the last answer is the one this baseline gives                     *)
(* (AnswerIsOfBaseline).                                                   *)
(***************************************************************************)

\* What a connection, a binding and a registered secret may be.
SourceTypeOK ==
    /\ entry \in {None} \union [kind : ProviderKinds, target : Target]
    /\ inline \in {None} \union [kind : FileKinds, target : Target]
                     \union [kind : ProviderKinds, target : {NoTarget}]
    /\ record \in {None} \union [kind : ProviderKinds, status : {"unvalidated", "valid", "invalid"},
                                 mapping : Target \union {NoTarget}]
    /\ shown \in ProviderKinds \union {"none"}

\* A valid binding keeps what was probed, and so does the secret until it is
\* registered anew.
BindingKeepsProbe ==
    record # None /\ record.status = "valid" =>
        /\ record.mapping # NoTarget => record.mapping = probed
        /\ ~moved => entry.target = probed

\* An exploration is answered from the baseline there is: each write of it is
\* answered by a new question.
AnswerIsOfBaseline ==
    answer.tool = "explore" =>
        /\ answer.table \in Spelling
        /\ answer.detection = ChangeDetection(answer.table, answer.canon)

AnswerIsOfConnection ==
    /\ ReadsWhatWasProbed
    /\ TruncationIsTold

\* While it is written in one shape the baseline is what was documented.
BaselineTypeOK ==
    /\ baseline = [hash |-> baseline.hash, snapshot |-> baseline.snapshot, map |-> baseline.map]
    /\ \E S : baseline.map \in Seq(S)
    /\ docs = [t \in Spelling |-> docs[t]]
    /\ IsFiniteSet(shapes) /\ shapes \subseteq {"flat", "map"} \X Spelling

DocumentedInAShape ==
    \A t \in Spelling : docs[t] # {} => <<"flat", t>> \in shapes \/ <<"map", t>> \in shapes

MapIsDocs ==
    (\A s \in shapes : s[1] = "map") =>
        /\ baseline.hash = NoHash /\ DOMAIN baseline.snapshot = {}
        /\ \A i \in DOMAIN baseline.map :
              /\ baseline.map[i].key \in Spelling
              /\ docs[baseline.map[i].key] = {baseline.map[i].canon}
        /\ \A t \in Spelling : docs[t] # {} => \E i \in DOMAIN baseline.map : baseline.map[i].key = t

FlatIsDocs ==
    \A t \in Spelling : shapes = {<<"flat", t>>} =>
        \E c : /\ baseline.hash = SchemaHash(t, c)
               /\ baseline.snapshot = [n \in {t} |-> c]
               /\ docs[t] = {c}

BaselineIsDocs == BaselineTypeOK /\ DocumentedInAShape /\ MapIsDocs /\ FlatIsDocs

ExplorationInv ==
    /\ SourceTypeOK /\ BindingKeepsProbe
    /\ BaselineIsDocs
    /\ AnswerIsOfBaseline /\ AnswerIsOfConnection

-----------------------------------------------------------------------------
(***************************************************************************)
(* A delta, applied.                                                       *)
(***************************************************************************)

\* f is a function on S.
IsOn(f, S) == f = [x \in S |-> f[x]]

IsDelta(delta, old, O, new, N) ==
    /\ delta.added = {<<n, new[n]>> : n \in N \ O}
    /\ delta.removed = {<<n, old[n]>> : n \in O \ N}
    /\ delta.altered = {<<n, old[n], new[n]>> : n \in {m \in N \intersect O : old[m] # new[m]}}

\* The delta between two lists of columns, applied to the old one, gives the new.
LEMMA PatchGivesNew ==
    ASSUME NEW O, NEW old, IsOn(old, O), NEW N, NEW new, IsOn(new, N),
           NEW delta, IsDelta(delta, old, O, new, N)
    PROVE  Patch(old, delta) = new
<1>1. DOMAIN old = O /\ new = [n \in N |-> new[n]]
  BY Zenon DEF IsOn
<1>2. PICK D : D = (N \ O) \union {m \in N \intersect O : old[m] # new[m]}
  OBVIOUS
<1>3. PICK gone : gone = {p[1] : p \in delta.removed}
  OBVIOUS
<1>4. PICK news : news = delta.added \union {<<p[1], p[3]>> : p \in delta.altered}
  OBVIOUS
<1>5. gone = O \ N
  <2>1. ASSUME NEW n \in O \ N
        PROVE  n \in gone
    <3>1. PICK p : p = <<n, old[n]>>
      OBVIOUS
    <3>2. p \in delta.removed /\ p[1] = n
      BY <3>1 DEF IsDelta
    <3> QED
      BY <1>3, <3>2
  <2>2. ASSUME NEW p \in delta.removed
        PROVE  p[1] \in O \ N
    BY DEF IsDelta
  <2> QED
    BY <1>3, <2>1, <2>2
<1>6. ASSUME NEW n \in D
      PROVE  \E p \in news : p[1] = n
  <2>1. CASE n \in N \ O
    <3>1. PICK p : p = <<n, new[n]>>
      OBVIOUS
    <3>2. p \in delta.added /\ p[1] = n
      BY <2>1, <3>1 DEF IsDelta
    <3> QED
      BY <1>4, <3>2
  <2>2. CASE n \in N \intersect O /\ old[n] # new[n]
    <3>1. PICK p : p = <<n, old[n], new[n]>>
      OBVIOUS
    <3>2. p \in delta.altered /\ p[1] = n
      BY <2>2, <3>1 DEF IsDelta
    <3>3. PICK q : q = <<p[1], p[3]>>
      OBVIOUS
    <3>4. q \in news /\ q[1] = n
      BY <1>4, <3>2, <3>3
    <3> QED
      BY <3>4
  <2> QED
    BY <1>2, <2>1, <2>2
<1>7. ASSUME NEW p \in news
      PROVE  p[1] \in D /\ p[2] = new[p[1]]
  <2>1. CASE p \in delta.added
    <3>1. PICK n \in N \ O : p = <<n, new[n]>>
      BY <2>1 DEF IsDelta
    <3> QED
      BY <1>2, <3>1
  <2>2. CASE p \in {<<q[1], q[3]>> : q \in delta.altered}
    <3>1. PICK q \in delta.altered : p = <<q[1], q[3]>>
      BY <2>2
    <3>2. PICK n \in {m \in N \intersect O : old[m] # new[m]} : q = <<n, old[n], new[n]>>
      BY <3>1 DEF IsDelta
    <3>3. n \in D /\ p[1] = n /\ p[2] = new[n]
      BY <1>2, <3>1, <3>2
    <3> QED
      BY <3>3
  <2> QED
    BY <1>4, <2>1, <2>2
<1>8. {p[1] : p \in news} = D
  <2>1. \A n \in D : n \in {p[1] : p \in news}
    BY <1>6, Zenon
  <2>2. \A n \in {p[1] : p \in news} : n \in D
    BY <1>7, Zenon
  <2> QED
    BY <2>1, <2>2
<1>9. (O \ gone) \union D = N
  BY <1>2, <1>5
<1>10. ASSUME NEW n \in N
       PROVE  (IF \E p \in news : p[1] = n THEN (CHOOSE p \in news : p[1] = n)[2] ELSE old[n])
                 = new[n]
  <2>1. CASE \E p \in news : p[1] = n
    <3>1. PICK q : q = CHOOSE p \in news : p[1] = n
      OBVIOUS
    <3>2. q \in news /\ q[1] = n
      BY <2>1, <3>1
    <3> QED
      BY <1>7, <2>1, <3>1, <3>2
  <2>2. CASE ~\E p \in news : p[1] = n
    <3>1. n \notin D
      BY <1>6, <2>2
    <3> QED
      BY <1>2, <2>2, <3>1
  <2> QED
    BY <2>1, <2>2
<1>11. Patch(old, delta) =
         [n \in (O \ gone) \union D |->
             IF \E p \in news : p[1] = n THEN (CHOOSE p \in news : p[1] = n)[2] ELSE old[n]]
  <2>1. Patch(old, delta) =
          [n \in (DOMAIN old \ gone) \union {p[1] : p \in news} |->
             IF \E p \in news : p[1] = n THEN (CHOOSE p \in news : p[1] = n)[2] ELSE old[n]]
    BY <1>3, <1>4 DEF Patch
  <2> QED
    BY <1>1, <1>8, <2>1, Zenon
<1>12. Patch(old, delta) =
         [n \in N |->
             IF \E p \in news : p[1] = n THEN (CHOOSE p \in news : p[1] = n)[2] ELSE old[n]]
  BY <1>9, <1>11, Zenon
<1>13. Patch(old, delta) = [n \in N |-> new[n]]
  BY <1>10, <1>12
<1> QED
  BY <1>1, <1>13

\* The delta of one table, from its snapshot alone.
LEMMA DeltaGivesNew ==
    ASSUME NEW t, NEW c, NEW canon, NEW snapshot, snapshot = [k \in {t} |-> c]
    PROVE  Patch(ColumnsByName(c), SchemaDelta(AlignSnapshot(snapshot, t), t, canon))
             = ColumnsByName(canon)
<1>1. AlignSnapshot(snapshot, t) = [k \in {t} |-> c]
  <2>1. DOMAIN snapshot = {t} /\ snapshot[t] = c
    OBVIOUS
  <2>2. Cardinality(DOMAIN snapshot) = 1
    BY <2>1, FS_Singleton
  <2>3. (CHOOSE n \in DOMAIN snapshot : TRUE) = t
    BY <2>1
  <2> QED
    BY <2>1, <2>2, <2>3 DEF AlignSnapshot
<1>2. PICK old, new : old = ColumnsByName(c) /\ new = ColumnsByName(canon)
  OBVIOUS
<1>3. PICK a : a = AlignSnapshot(snapshot, t)
  OBVIOUS
<1>4. t \in DOMAIN a /\ a[t] = c
  BY <1>1, <1>3
<1>5. PICK delta : delta = SchemaDelta(a, t, canon)
  OBVIOUS
<1>6. PICK O, N : O = DOMAIN old /\ N = DOMAIN new
  OBVIOUS
<1>7. IsOn(old, O) /\ IsOn(new, N)
  BY <1>2, <1>6 DEF IsOn, ColumnsByName
<1>9. IsDelta(delta, old, O, new, N)
  BY <1>2, <1>4, <1>5, <1>6 DEF SchemaDelta, IsDelta
<1>8. Patch(old, delta) = new
  BY <1>7, <1>9, PatchGivesNew
<1> QED
  BY <1>2, <1>3, <1>5, <1>8

-----------------------------------------------------------------------------
(***************************************************************************)
(* What the baseline says of a table.                                      *)
(***************************************************************************)

\* An element of a sequence has a first place.
LEMMA FirstIndex ==
    ASSUME NEW S, NEW s \in Seq(S), NEW F \in SUBSET DOMAIN s, F # {}
    PROVE  LET i == CHOOSE i \in F : \A j \in F : i <= j
           IN  i \in F
<1>1. F \in SUBSET Nat
  OBVIOUS
<1>2. \E i \in F : \A j \in F : i <= j
  BY <1>1, LeastNumber
<1> QED
  BY <1>2

AlikeIsDocumented(t) == \E u \in Spelling : FoldCase[u] = FoldCase[t] /\ docs[u] # {}

IsOfAnother(scoped, t) ==
    \E k \in Spelling : \E c :
        /\ k # t
        /\ scoped.hash = SchemaHash(k, c) /\ scoped.snapshot = [n \in {k} |-> c]
        /\ docs[k] = {c}
        /\ AlikeIsDocumented(t) => FoldCase[k] = FoldCase[t]

\* The delta between the same columns, kept under whatever name.
LEMMA DeltaOfTheSame ==
    ASSUME NEW k, NEW t, NEW canon, NEW snapshot, snapshot = [n \in {k} |-> canon]
    PROVE  SchemaDelta(AlignSnapshot(snapshot, t), t, canon) = NothingChanged
<1>1. PICK a : a = AlignSnapshot(snapshot, t)
  OBVIOUS
<1>2. a = [x \in {t} |-> canon]
  <2>1. DOMAIN snapshot = {k} /\ snapshot[k] = canon
    OBVIOUS
  <2>2. Cardinality(DOMAIN snapshot) = 1
    BY <2>1, FS_Singleton
  <2>3. (CHOOSE n \in DOMAIN snapshot : TRUE) = k
    BY <2>1
  <2> QED
    BY <1>1, <2>1, <2>2, <2>3 DEF AlignSnapshot
<1>3. DOMAIN a = {t} /\ a[t] = canon
  BY <1>2
<1>4. PICK f : f = ColumnsByName(canon)
  OBVIOUS
<1>5. SchemaDelta(a, t, canon) =
        [added |-> {<<n, f[n]>> : n \in DOMAIN f \ DOMAIN f},
         removed |-> {<<n, f[n]>> : n \in DOMAIN f \ DOMAIN f},
         altered |-> {<<n, f[n], f[n]>> : n \in {m \in DOMAIN f \intersect DOMAIN f : f[m] # f[m]}},
         addedTables |-> {t} \ DOMAIN a,
         removedTables |-> DOMAIN a \ {t}]
  BY <1>3, <1>4 DEF SchemaDelta
<1> QED
  BY <1>1, <1>3, <1>5 DEF NothingChanged

\* Of a table not documented the baseline says nothing, or something of another
\* table, one of the same name up to case if such a one is documented; of a
\* documented one what was documented.
LEMMA ScopeOfTable ==
    ASSUME BaselineIsDocs, OneShape, NEW t \in Spelling, NEW scoped, scoped = ScopeBaseline(t)
    PROVE  \/ docs[t] = {} /\ scoped.hash = NoHash /\ ~AlikeIsDocumented(t)
           \/ docs[t] = {} /\ IsOfAnother(scoped, t)
           \/ \E c : /\ docs[t] = {c} /\ scoped.hash = SchemaHash(t, c)
                     /\ scoped.snapshot = [k \in {t} |-> c]
<1>1. CASE \A s \in shapes : s[1] = "map"
  <2>1. /\ baseline.hash = NoHash
        /\ \A i \in DOMAIN baseline.map :
              /\ baseline.map[i].key \in Spelling
              /\ docs[baseline.map[i].key] = {baseline.map[i].canon}
        /\ \A u \in Spelling : docs[u] # {} => \E i \in DOMAIN baseline.map : baseline.map[i].key = u
    BY <1>1 DEF BaselineIsDocs, MapIsDocs
  <2> DEFINE exact == {i \in DOMAIN baseline.map : baseline.map[i].key = t}
             alike == {i \in DOMAIN baseline.map : FoldCase[baseline.map[i].key] = FoldCase[t]}
             found == IF exact # {} THEN exact ELSE alike
  <2>3. ScopeBaseline(t) =
          IF found = {} THEN [hash |-> NoHash, snapshot |-> <<>>]
          ELSE LET e == baseline.map[CHOOSE i \in found : \A j \in found : i <= j]
               IN  [hash |-> SchemaHash(e.key, e.canon), snapshot |-> [k \in {e.key} |-> e.canon]]
    BY <2>1, Zenon DEF ScopeBaseline
  <2>2. /\ exact = {i \in DOMAIN baseline.map : baseline.map[i].key = t}
        /\ alike = {i \in DOMAIN baseline.map : FoldCase[baseline.map[i].key] = FoldCase[t]}
        /\ found = IF exact # {} THEN exact ELSE alike
    OBVIOUS
  <2> HIDE DEF exact, alike, found
  <2>4. CASE found = {}
    <3>1. docs[t] = {}
      BY <2>1, <2>2, <2>4
    <3>2. scoped.hash = NoHash
      BY <2>3, <2>4
    <3>3. ~AlikeIsDocumented(t)
      BY <2>1, <2>2, <2>4 DEF AlikeIsDocumented
    <3> QED
      BY <3>1, <3>2, <3>3
  <2>5. CASE found # {}
    <3>1. PICK S : baseline.map \in Seq(S)
      BY DEF BaselineIsDocs, BaselineTypeOK
    <3>2. PICK i : i = CHOOSE k \in found : \A j \in found : k <= j
      OBVIOUS
    <3>3. i \in found
      <4>1. found \in SUBSET DOMAIN baseline.map
        BY <2>2
      <4> QED
        BY <2>5, <3>1, <3>2, <4>1, FirstIndex
    <3>4. PICK k, c : k = baseline.map[i].key /\ c = baseline.map[i].canon
      OBVIOUS
    <3>5. /\ scoped.hash = SchemaHash(k, c)
          /\ scoped.snapshot = [n \in {k} |-> c]
      BY <2>3, <2>5, <3>2, <3>4
    <3>6. i \in DOMAIN baseline.map /\ docs[k] = {c}
      BY <2>1, <2>2, <3>3, <3>4
    <3>7. CASE exact # {}
      <4>1. k = t
        BY <2>2, <3>3, <3>4, <3>7
      <4> QED
        BY <3>5, <3>6, <4>1
    <3>8. CASE exact = {}
      <4>1. k # t /\ docs[t] = {}
        BY <2>1, <2>2, <3>4, <3>6, <3>8
      <4>2. k \in Spelling /\ FoldCase[k] = FoldCase[t]
        BY <2>1, <2>2, <3>3, <3>4, <3>6, <3>8
      <4>3. IsOfAnother(scoped, t)
        BY <3>5, <3>6, <4>1, <4>2 DEF IsOfAnother
      <4> QED
        BY <4>1, <4>3
    <3> QED
      BY <3>7, <3>8
  <2> QED
    BY <2>4, <2>5
<1>2. CASE ~\A s \in shapes : s[1] = "map"
  <2>1. Cardinality(shapes) = 1 /\ IsFiniteSet(shapes) /\ shapes \subseteq {"flat", "map"} \X Spelling
    BY <1>2 DEF OneShape, BaselineIsDocs, BaselineTypeOK
  <2>2. PICK s : shapes = {s}
    BY <2>1, FS_Singleton
  <2>3. PICK u \in Spelling : s = <<"flat", u>>
    BY <1>2, <2>1, <2>2
  <2>4. PICK c : /\ baseline.hash = SchemaHash(u, c)
                 /\ baseline.snapshot = [n \in {u} |-> c]
                 /\ docs[u] = {c}
    BY <2>2, <2>3 DEF BaselineIsDocs, FlatIsDocs
  <2>5. baseline.hash # NoHash
    BY <2>4 DEF SchemaHash, NoHash
  <2>6. scoped.hash = baseline.hash /\ scoped.snapshot = baseline.snapshot
    BY <2>5 DEF ScopeBaseline
  <2>7. CASE u = t
    BY <2>4, <2>6, <2>7
  <2>8. CASE u # t
    <3>1. \A v \in Spelling : docs[v] # {} => v = u
      BY <2>2, <2>3 DEF BaselineIsDocs, DocumentedInAShape
    <3>2. AlikeIsDocumented(t) => FoldCase[u] = FoldCase[t]
      BY <3>1 DEF AlikeIsDocumented
    <3>3. IsOfAnother(scoped, t)
      BY <2>4, <2>6, <2>8, <3>2 DEF IsOfAnother
    <3> QED
      BY <2>8, <3>1, <3>3
  <2> QED
    BY <2>7, <2>8
<1> QED
  BY <1>1, <1>2

\* So the verdict is right and the delta whole, in every state.
LEMMA VerdictAndDelta ==
    ASSUME BaselineIsDocs, AnswerIsOfBaseline
    PROVE  VerdictIsRight /\ DeltaIsWhole
<1> SUFFICES ASSUME answer.tool = "explore", OneShape
             PROVE  /\ answer.detection.verdict = "unchanged" <=> answer.canon \in docs[answer.table]
                    /\ docs[answer.table] = {} /\ DocumentedAlike(answer.table, answer.canon) =>
                          /\ answer.detection.verdict = "changed"
                          /\ answer.detection.delta = <<NothingChanged>>
                    /\ answer.detection.verdict = "changed" =>
                          \A canon \in docs[answer.table] :
                              Patch(ColumnsByName(canon), answer.detection.delta[1])
                                  = ColumnsByName(answer.canon)
  BY DEF VerdictIsRight, DeltaIsWhole
<1>1. PICK t, canon : t = answer.table /\ canon = answer.canon
  OBVIOUS
<1>2. t \in Spelling /\ answer.detection = ChangeDetection(t, canon)
  BY <1>1 DEF AnswerIsOfBaseline
<1>3. PICK scoped : scoped = ScopeBaseline(t)
  OBVIOUS
<1>4. PICK v : v = ResolveVerdict(scoped.hash, SchemaHash(t, canon))
  OBVIOUS
<1>5. /\ answer.detection.verdict = v
      /\ v = "changed" =>
            answer.detection.delta = <<SchemaDelta(AlignSnapshot(scoped.snapshot, t), t, canon)>>
  BY <1>2, <1>3, <1>4 DEF ChangeDetection
<1>6. /\ scoped.hash = NoHash => v \in {"unknown-baseline", "new"}
      /\ scoped.hash # NoHash => v = IF scoped.hash = SchemaHash(t, canon) THEN "unchanged" ELSE "changed"
  BY <1>4 DEF ResolveVerdict
<1>7. CASE docs[t] = {} /\ scoped.hash = NoHash /\ ~AlikeIsDocumented(t)
  <2>1. v # "unchanged"
    BY <1>6, <1>7
  <2>2. ~DocumentedAlike(t, canon)
    BY <1>7 DEF DocumentedAlike, AlikeIsDocumented
  <2> QED
    BY <1>1, <1>5, <1>7, <2>1, <2>2
<1>9. CASE docs[t] = {} /\ IsOfAnother(scoped, t)
  <2>1. PICK k, c : /\ k \in Spelling
                    /\ k # t
                    /\ scoped.hash = SchemaHash(k, c) /\ scoped.snapshot = [n \in {k} |-> c]
                    /\ docs[k] = {c}
                    /\ AlikeIsDocumented(t) => FoldCase[k] = FoldCase[t]
    BY <1>9 DEF IsOfAnother
  <2>2. v = "changed"
    <3>1. scoped.hash = <<k, c>> /\ SchemaHash(t, canon) = <<t, canon>> /\ k # t
      BY <2>1, Zenon DEF SchemaHash
    <3>2. scoped.hash # NoHash /\ scoped.hash # SchemaHash(t, canon)
      BY <3>1 DEF NoHash
    <3> QED
      BY <1>6, <3>2, Zenon
  <2>3. ASSUME DocumentedAlike(t, canon)
        PROVE  answer.detection.delta = <<NothingChanged>>
    <3>1. AlikeIsDocumented(t)
      BY <2>3 DEF DocumentedAlike, AlikeIsDocumented
    <3>2. c = canon
      BY <2>1, <2>3, <3>1 DEF DocumentedAlike
    <3>3. SchemaDelta(AlignSnapshot(scoped.snapshot, t), t, canon) = NothingChanged
      BY <2>1, <3>2, DeltaOfTheSame
    <3> QED
      BY <1>5, <2>2, <3>3
  <2> QED
    BY <1>1, <1>5, <1>9, <2>2, <2>3
<1>8. CASE \E c : /\ docs[t] = {c} /\ scoped.hash = SchemaHash(t, c)
                  /\ scoped.snapshot = [k \in {t} |-> c]
  <2>1. PICK c : /\ docs[t] = {c} /\ scoped.hash = SchemaHash(t, c)
                 /\ scoped.snapshot = [k \in {t} |-> c]
    BY <1>8
  <2>2. scoped.hash # NoHash /\ (scoped.hash = SchemaHash(t, canon) <=> c = canon)
    BY <2>1 DEF SchemaHash, NoHash
  <2>3. v = "unchanged" <=> canon \in docs[t]
    BY <1>6, <2>1, <2>2
  <2>4. ASSUME v = "changed"
        PROVE  Patch(ColumnsByName(c), answer.detection.delta[1]) = ColumnsByName(canon)
    <3>1. answer.detection.delta[1] = SchemaDelta(AlignSnapshot(scoped.snapshot, t), t, canon)
      BY <1>5, <2>4
    <3> QED
      BY <2>1, <3>1, DeltaGivesNew
  <2> QED
    BY <1>1, <1>5, <1>8, <2>1, <2>3, <2>4
<1> QED
  BY <1>2, <1>3, <1>7, <1>8, <1>9, ScopeOfTable

-----------------------------------------------------------------------------
(***************************************************************************)
(* Pages of rows.                                                          *)
(***************************************************************************)

\* A page of a table is said to be truncated when the table has more rows.
LEMMA PageIsTold ==
    ASSUME NEW n \in Nat, NEW cap \in Nat
    PROVE  Page(n, cap).truncated <=> n > Page(n, cap).rows
<1>1. PICK fetched : fetched = AtMost(n, cap + 1)
  OBVIOUS
<1>2. (Page(n, cap).truncated <=> fetched > cap) /\ Page(n, cap).rows = AtMost(fetched, cap)
  BY <1>1 DEF Page
<1>3. CASE n <= cap
  <2>1. fetched = n /\ AtMost(fetched, cap) = n
    BY <1>1, <1>3 DEF AtMost
  <2>2. ~(fetched > cap) /\ ~(n > AtMost(fetched, cap))
    BY <1>3, <2>1
  <2> QED
    BY <1>2, <2>2, Zenon
<1>4. CASE n > cap
  <2>1. fetched = cap + 1 /\ AtMost(fetched, cap) = cap
    BY <1>1, <1>4 DEF AtMost
  <2>2. fetched > cap /\ n > AtMost(fetched, cap)
    BY <1>4, <2>1
  <2> QED
    BY <1>2, <2>2, Zenon
<1> QED
  BY <1>3, <1>4

\* So is a page of a sheet.
LEMMA SheetPageIsTold ==
    ASSUME NEW n \in Nat, NEW cap \in Nat, cap < PROFILE_SAMPLE_ROW_LIMIT
    PROVE  SheetPage(n, cap).truncated <=> n > SheetPage(n, cap).rows
<1>1. PROFILE_SAMPLE_ROW_LIMIT \in Nat
  BY ExplorationAssumption
<1>2. PICK data : data = AtMost(n + 1, PROFILE_SAMPLE_ROW_LIMIT + 1) - 1
  OBVIOUS
<1>3. (SheetPage(n, cap).truncated <=> data > cap) /\ SheetPage(n, cap).rows = AtMost(data, cap)
  BY <1>2 DEF SheetPage
<1>4. data = IF n <= PROFILE_SAMPLE_ROW_LIMIT THEN n ELSE PROFILE_SAMPLE_ROW_LIMIT
  BY <1>1, <1>2 DEF AtMost
<1>5. CASE n <= cap
  <2>1. data = n /\ AtMost(data, cap) = n
    BY <1>1, <1>4, <1>5 DEF AtMost
  <2>2. ~(data > cap) /\ ~(n > AtMost(data, cap))
    BY <1>5, <2>1
  <2> QED
    BY <1>3, <2>2, Zenon
<1>6. CASE n > cap
  <2>1. data > cap /\ AtMost(data, cap) = cap
    BY <1>1, <1>4, <1>6 DEF AtMost
  <2>2. data > cap /\ n > AtMost(data, cap)
    BY <1>6, <2>1
  <2> QED
    BY <1>3, <2>2, Zenon
<1> QED
  BY <1>5, <1>6

\* So every preview tells.
LEMMA PreviewIsTold ==
    ASSUME NEW kind, NEW n \in Nat
    PROVE  Preview(kind, n).truncated <=> n > Preview(kind, n).rows
<1>1. AtMost(EXPLORE_ROWS, PREVIEW_ROW_CAP) = EXPLORE_ROWS /\ EXPLORE_ROWS \in Nat
      /\ EXPLORE_ROWS < PROFILE_SAMPLE_ROW_LIMIT
  BY ExplorationAssumption DEF AtMost
<1> QED
  BY <1>1, PageIsTold, SheetPageIsTold DEF Preview

\* And every answer to a query.
LEMMA QueryIsTold ==
    ASSUME NEW n \in Nat, NEW limit \in Limits
    PROVE  QueryRows(n, limit).truncated <=> n > QueryRows(n, limit).rows
<1>1. limit \in Nat /\ QUERY_ROW_CAP \in Nat
  BY ExplorationAssumption
<1>2. AtMost(IF limit = 0 THEN QUERY_ROW_CAP ELSE limit, QUERY_ROW_CAP) \in Nat
  BY <1>1 DEF AtMost
<1> QED
  BY <1>2, PageIsTold DEF QueryRows

\* What a connector reads: a path of the node, the database of the secret, or
\* the spreadsheet the valid binding keeps.
LEMMA ConnectorReads ==
    ASSUME SourceTypeOK, BindingKeepsProbe, Connector # None
    PROVE  /\ Connector.target \in Target
           /\ Connector.kind \in ProviderKinds =>
                 \/ Connector.target = probed
                 \/ Connector.kind = "aws-postgres" /\ moved
<1>1. PICK c : c = ValidatedConnection
  OBVIOUS
<1>2. Connector = ResolveConnector(c)
  BY <1>1 DEF Connector
<1>3. CASE ProviderKind = "none"
  <2>1. c = inline /\ inline.kind \notin ProviderKinds
    BY <1>1, <1>3 DEF ValidatedConnection, ProviderKind, ProviderKinds, SheetKinds
  <2>2. c.kind \in FileKinds
    BY <1>2, <2>1 DEF ResolveConnector
  <2>3. Connector = c /\ c.kind \notin ProviderKinds
    BY <1>2, <2>1, <2>2 DEF ResolveConnector
  <2>4. c \in [kind : FileKinds, target : Target]
    BY <2>1, <2>2 DEF SourceTypeOK, None, FileKinds, ProviderKinds, SheetKinds
  <2> QED
    BY <2>3, <2>4
<1>4. CASE ProviderKind # "none" /\ ~BindingIsValid(ProviderKind)
  <2>1. c = None
    BY <1>1, <1>4 DEF ValidatedConnection
  <2> QED
    BY <1>2, <2>1 DEF ResolveConnector, None, FileKinds, ProviderKinds, SheetKinds
<1>5. CASE ProviderKind # "none" /\ BindingIsValid(ProviderKind)
  <2>1. /\ c = [kind |-> record.kind, target |-> record.mapping]
        /\ record.kind = ProviderKind /\ record.status = "valid"
        /\ record.kind \in SheetKinds => record.mapping # NoTarget
    BY <1>1, <1>5 DEF ValidatedConnection, ConnectionFromBinding, BindingIsValid
  <2>2. record.kind \in ProviderKinds
    BY <1>5, <2>1 DEF ProviderKind, ProviderKinds, SheetKinds
  <2>3. /\ record # None
        /\ record \in [kind : ProviderKinds, status : {"unvalidated", "valid", "invalid"},
                       mapping : Target \union {NoTarget}]
    BY <2>2 DEF SourceTypeOK, None, ProviderKinds, SheetKinds
  <2>4. /\ record.mapping # NoTarget => record.mapping = probed
        /\ ~moved => entry.target = probed
    BY <2>1, <2>3 DEF BindingKeepsProbe
  <2>5. c.kind = record.kind /\ c.target = record.mapping
    BY <2>1
  <2>6. c.kind \notin FileKinds
    BY <2>2, <2>5 DEF FileKinds, ProviderKinds, SheetKinds
  <2>7. /\ ResolveSecret(c) # NoTarget
        /\ Connector = [c EXCEPT !.target = ResolveSecret(c)]
    BY <1>2, <2>6 DEF ResolveConnector
  <2>8. Connector.kind = record.kind /\ Connector.target = ResolveSecret(c)
    BY <2>1, <2>7
  <2>9. CASE record.kind = "aws-postgres"
    <3>1. ResolveSecret(c) = AwsPostgresResolve
      BY <2>5, <2>9 DEF ResolveSecret
    <3>2. entry.kind = "aws-postgres" /\ ResolveSecret(c) = entry.target
      BY <2>7, <3>1 DEF AwsPostgresResolve
    <3>3. entry.target \in Target
      BY <3>2 DEF SourceTypeOK, None
    <3> QED
      BY <2>4, <2>8, <2>9, <3>2, <3>3
  <2>10. CASE record.kind \in SheetKinds
    <3>1. ResolveSecret(c) = c.target
      BY <2>5, <2>7, <2>10 DEF ResolveSecret, AwsSheetsResolve, SheetsJsonResolve, SheetKinds
    <3> QED
      BY <2>1, <2>3, <2>4, <2>5, <2>8, <2>10, <3>1
  <2> QED
    BY <2>2, <2>9, <2>10 DEF ProviderKinds
<1> QED
  BY <1>3, <1>4, <1>5

-----------------------------------------------------------------------------
(***************************************************************************)
(* Exploration: what the steps preserve.                                   *)
(***************************************************************************)

\* A step that leaves the baseline and what was documented keeps it typed.
LEMMA BaselineKept ==
    ASSUME BaselineIsDocs, UNCHANGED <<baseline, docs, shapes>>
    PROVE  BaselineIsDocs'
BY DEF BaselineIsDocs, BaselineTypeOK, DocumentedInAShape, MapIsDocs, FlatIsDocs

\* A step that leaves the answer and the baseline keeps the answer true.
LEMMA AnswerKept ==
    ASSUME AnswerIsOfBaseline, AnswerIsOfConnection, UNCHANGED <<answer, baseline, documented>>
    PROVE  AnswerIsOfBaseline' /\ AnswerIsOfConnection'
<1>1. \A t, canon : ChangeDetection(t, canon)' = ChangeDetection(t, canon)
  BY DEF ChangeDetection, ScopeBaseline, ResolveVerdict
<1> QED
  BY <1>1 DEF AnswerIsOfBaseline, AnswerIsOfConnection, ReadsWhatWasProbed, TruncationIsTold

\* Where there is no answer nothing is claimed.
LEMMA NoAnswer ==
    ASSUME answer' = Idle \/ answer' = Refused
    PROVE  AnswerIsOfBaseline' /\ AnswerIsOfConnection'
<1>1. answer'.tool \notin {"explore", "query"}
  BY DEF Idle, Refused
<1> QED
  BY <1>1 DEF AnswerIsOfBaseline, AnswerIsOfConnection, ReadsWhatWasProbed, TruncationIsTold

LEMMA DriftStep ==
    ASSUME ExplorationInv, NEW x, NEW t, NEW cols, Drift(x, t, cols)
    PROVE  ExplorationInv'
<1>1. UNCHANGED <<entry, record, inline, shown, probed, moved, baseline, documented, docs, shapes,
                  answer>>
  BY DEF Drift, connectionVars, documentVars
<1>2. SourceTypeOK' /\ BindingKeepsProbe'
  BY <1>1 DEF ExplorationInv, SourceTypeOK, BindingKeepsProbe
<1> QED
  BY <1>1, <1>2, BaselineKept, AnswerKept DEF ExplorationInv

\* A change of the connection: there is no answer, and the baseline stays.
LEMMA ChangeKeepsRest ==
    ASSUME ExplorationInv, Change, SourceTypeOK', BindingKeepsProbe'
    PROVE  ExplorationInv'
<1>1. answer' = Idle /\ UNCHANGED <<baseline, docs, shapes>>
  BY DEF Change, documentVars
<1> QED
  BY <1>1, BaselineKept, NoAnswer DEF ExplorationInv

LEMMA DescribeStep ==
    ASSUME ExplorationInv, NEW kind, NEW x, Describe(kind, x),
           (kind \in FileKinds /\ x \in Target) \/ (kind \in ProviderKinds /\ x = NoTarget)
    PROVE  ExplorationInv'
<1>1. SourceTypeOK' /\ BindingKeepsProbe'
  BY DEF Describe, ExplorationInv, SourceTypeOK, BindingKeepsProbe
<1> QED
  BY <1>1, ChangeKeepsRest DEF Describe

LEMMA ClassifyStep ==
    ASSUME ExplorationInv, NEW kind, Classify(kind)
    PROVE  ExplorationInv'
<1>1. SourceTypeOK' /\ BindingKeepsProbe'
  BY DEF Classify, ExplorationInv, SourceTypeOK, BindingKeepsProbe
<1> QED
  BY <1>1, ChangeKeepsRest DEF Classify

LEMMA RegisterStep ==
    ASSUME ExplorationInv, NEW kind \in ProviderKinds, NEW x \in Target, Register(kind, x)
    PROVE  ExplorationInv'
<1>1. SourceTypeOK' /\ BindingKeepsProbe'
  BY DEF Register, ExplorationInv, SourceTypeOK, BindingKeepsProbe
<1> QED
  BY <1>1, ChangeKeepsRest DEF Register

LEMMA BindStep ==
    ASSUME ExplorationInv, Bind
    PROVE  ExplorationInv'
<1>1. entry.kind \in ProviderKinds
  BY DEF Bind, ExplorationInv, SourceTypeOK
<1>2. /\ record' = [kind |-> entry.kind, status |-> "unvalidated", mapping |-> NoTarget]
      /\ inline' = None /\ shown' = entry.kind /\ UNCHANGED <<entry, probed, moved>>
  BY DEF Bind, Unvalidated
<1>3. SourceTypeOK' /\ BindingKeepsProbe'
  BY <1>1, <1>2 DEF ExplorationInv, SourceTypeOK, BindingKeepsProbe
<1> QED
  BY <1>3, ChangeKeepsRest DEF Bind

LEMMA ValidateStep ==
    ASSUME ExplorationInv, NEW ok \in BOOLEAN, Validate(ok)
    PROVE  ExplorationInv'
<1>1. /\ record \in [kind : ProviderKinds, status : {"unvalidated", "valid", "invalid"},
                     mapping : Target \union {NoTarget}]
      /\ entry \in [kind : ProviderKinds, target : Target]
  BY DEF Validate, ExplorationInv, SourceTypeOK
<1>2. inline' = None /\ shown' = record.kind /\ entry' = entry
  BY DEF Validate
<1>3. CASE ok
  <2>1. /\ record' = [record EXCEPT !.status = "valid",
                                    !.mapping = IF entry.kind \in SheetKinds THEN entry.target
                                                ELSE NoTarget]
        /\ probed' = entry.target /\ moved' = FALSE
    BY <1>3 DEF Validate
  <2>2. SourceTypeOK' /\ BindingKeepsProbe'
    BY <1>1, <1>2, <2>1 DEF ExplorationInv, SourceTypeOK, BindingKeepsProbe
  <2> QED
    BY <2>2, ChangeKeepsRest DEF Validate
<1>4. CASE ~ok
  <2>1. record' = [record EXCEPT !.status = "invalid"]
    BY <1>4 DEF Validate
  <2>2. SourceTypeOK' /\ BindingKeepsProbe'
    BY <1>1, <1>2, <2>1 DEF ExplorationInv, SourceTypeOK, BindingKeepsProbe
  <2> QED
    BY <2>2, ChangeKeepsRest DEF Validate
<1> QED
  BY <1>3, <1>4

LEMMA UnbindStep ==
    ASSUME ExplorationInv, Unbind
    PROVE  ExplorationInv'
<1>1. SourceTypeOK' /\ BindingKeepsProbe'
  BY DEF Unbind, ExplorationInv, SourceTypeOK, BindingKeepsProbe
<1> QED
  BY <1>1, ChangeKeepsRest DEF Unbind

\* An answer changes nothing else.
LEMMA AnswerKeepsRest ==
    ASSUME ExplorationInv, NEW a, Answer(a), AnswerIsOfBaseline', AnswerIsOfConnection'
    PROVE  ExplorationInv'
<1>1. UNCHANGED <<entry, record, inline, shown, probed, moved, baseline, documented, docs, shapes>>
  BY DEF Answer, connectionVars, documentVars
<1>2. SourceTypeOK' /\ BindingKeepsProbe'
  BY <1>1 DEF ExplorationInv, SourceTypeOK, BindingKeepsProbe
<1> QED
  BY <1>1, <1>2, BaselineKept DEF ExplorationInv

LEMMA RefusesStep ==
    ASSUME ExplorationInv, Answer(Refused)
    PROVE  ExplorationInv'
BY NoAnswer, AnswerKeepsRest DEF Answer

LEMMA BrowseStep ==
    ASSUME ExplorationInv, Browse
    PROVE  ExplorationInv'
<1>1. PICK a : a.tool = "tables" /\ Answer(a)
  BY DEF Browse
<1>2. AnswerIsOfBaseline' /\ AnswerIsOfConnection'
  BY <1>1 DEF Answer, AnswerIsOfBaseline, AnswerIsOfConnection, ReadsWhatWasProbed,
              TruncationIsTold
<1> QED
  BY <1>1, <1>2, AnswerKeepsRest

LEMMA QueryStep ==
    ASSUME ExplorationInv, NEW limit \in Limits, Query(limit)
    PROVE  ExplorationInv'
<1>1. PICK n : n = RowCount[Connector.target]
  OBVIOUS
<1>2. n \in Nat
  <2>1. Connector # None
    BY DEF Query, None
  <2>2. Connector.target \in Target
    BY <2>1, ConnectorReads DEF ExplorationInv
  <2> QED
    BY <1>1, <2>2, ExplorationAssumption
<1>3. PICK a : /\ Answer(a) /\ a.tool = "query" /\ a.connector = Connector
               /\ a.preview = QueryRows(n, limit)
  BY <1>1 DEF Query
<1>4. answer' = a
  BY <1>3 DEF Answer
<1>5. a.preview.truncated <=> RowCount[a.connector.target] > a.preview.rows
  BY <1>1, <1>2, <1>3, QueryIsTold
<1>6. AnswerIsOfBaseline' /\ AnswerIsOfConnection'
  BY <1>3, <1>4, <1>5 DEF AnswerIsOfBaseline, AnswerIsOfConnection, ReadsWhatWasProbed,
                          TruncationIsTold
<1> QED
  BY <1>3, <1>6, AnswerKeepsRest

LEMMA ExploreStep ==
    ASSUME ExplorationInv, NEW t \in Spelling, ExploreTable(t)
    PROVE  ExplorationInv'
<1>1. PICK c, cols, canon : c = Connector /\ cols = Schema(c.kind, c.target, t)
                            /\ canon = Canonicalize(cols)
  OBVIOUS
<1>2. c # None
  BY <1>1 DEF ExploreTable
<1>3. /\ c.target \in Target
      /\ c.kind \in ProviderKinds => c.target = probed \/ (c.kind = "aws-postgres" /\ moved)
  BY <1>1, <1>2, ConnectorReads DEF ExplorationInv
<1>4. CASE cols = NoTable
  <2>1. Answer(Refused)
    BY <1>1, <1>4 DEF ExploreTable
  <2> QED
    BY <2>1, RefusesStep
<1>5. CASE cols # NoTable
  <2>1. PICK a : a = [tool |-> "explore", connector |-> c, table |-> t, canon |-> canon,
                      detection |-> ChangeDetection(t, canon),
                      preview |-> Preview(c.kind, RowCount[c.target]),
                      probed |-> probed, moved |-> moved]
    OBVIOUS
  <2>2. Answer(a)
    BY <1>1, <1>5, <2>1 DEF ExploreTable
  <2>3. /\ a.tool = "explore" /\ a.connector = c /\ a.table = t /\ a.canon = canon
        /\ a.detection = ChangeDetection(t, canon)
        /\ a.preview = Preview(c.kind, RowCount[c.target])
        /\ a.probed = probed /\ a.moved = moved
    BY <2>1
  <2>4. answer' = a /\ UNCHANGED <<baseline, documented>>
    BY <2>2 DEF Answer, documentVars
  <2>5. ChangeDetection(t, canon)' = ChangeDetection(t, canon)
    BY <2>4 DEF ChangeDetection, ScopeBaseline, ResolveVerdict
  <2>6. AnswerIsOfBaseline'
    BY <2>3, <2>4, <2>5 DEF AnswerIsOfBaseline
  <2>7. a.preview.truncated <=> RowCount[c.target] > a.preview.rows
    BY <1>3, <2>3, PreviewIsTold, ExplorationAssumption
  <2>8. AnswerIsOfConnection'
    BY <1>3, <2>3, <2>4, <2>7 DEF AnswerIsOfConnection, ReadsWhatWasProbed, TruncationIsTold
  <2> QED
    BY <2>2, <2>6, <2>8, AnswerKeepsRest
<1> QED
  BY <1>4, <1>5

\* A baseline that is written is what is documented.
LEMMA DocumentStep ==
    ASSUME ExplorationInv, NEW shape \in {"flat", "map"}, Document(shape)
    PROVE  ExplorationInv'
<1>1. PICK t, canon : t = answer.table /\ canon = answer.canon
  OBVIOUS
<1>2. t \in Spelling
  BY <1>1 DEF Document, ExplorationInv, AnswerIsOfBaseline
<1>3. PICK keys, kept : /\ keys = {i \in DOMAIN baseline.map : baseline.map[i].key = t}
                        /\ kept = [key |-> t, canon |-> canon]
  OBVIOUS
<1>4. /\ docs' = [docs EXCEPT ![t] = {canon}]
      /\ shapes' = shapes \union {<<shape, t>>}
      /\ answer' = Idle
      /\ UNCHANGED <<entry, record, inline, shown, probed, moved>>
  BY <1>1 DEF Document, connectionVars
<1>5. /\ shape = "flat" =>
           baseline' = [baseline EXCEPT
                          !.hash = SchemaHash(t, canon),
                          !.snapshot = [n \in DOMAIN @ \union {t} |->
                                           IF n = t THEN canon ELSE @[n]]]
      /\ shape = "map" =>
           baseline' = [baseline EXCEPT
                          !.map = IF keys = {} THEN Append(@, kept)
                                  ELSE [i \in DOMAIN @ |-> IF i \in keys THEN kept ELSE @[i]]]
  BY <1>1, <1>3 DEF Document
<1>6. /\ baseline = [hash |-> baseline.hash, snapshot |-> baseline.snapshot, map |-> baseline.map]
      /\ docs = [u \in Spelling |-> docs[u]]
      /\ IsFiniteSet(shapes) /\ shapes \subseteq {"flat", "map"} \X Spelling
  BY DEF ExplorationInv, BaselineIsDocs, BaselineTypeOK
<1>7. PICK S : baseline.map \in Seq(S)
  BY DEF ExplorationInv, BaselineIsDocs, BaselineTypeOK
<1>8. SourceTypeOK' /\ BindingKeepsProbe'
  BY <1>4 DEF ExplorationInv, SourceTypeOK, BindingKeepsProbe
<1>9. /\ docs' = [u \in Spelling |-> docs'[u]]
      /\ docs'[t] = {canon} /\ \A u \in Spelling : u # t => docs'[u] = docs[u]
  <2>1. PICK d : d = docs
    OBVIOUS
  <2>2. docs' = [d EXCEPT ![t] = {canon}] /\ d = [u \in Spelling |-> d[u]]
    BY <1>4, <1>6, <2>1
  <2>3. DOMAIN d = Spelling
    BY <2>2
  <2>4. docs' = [u \in Spelling |-> IF u = t THEN {canon} ELSE d[u]]
    BY <2>2, <2>3
  <2> QED
    BY <1>2, <2>1, <2>4
<1>10. IsFiniteSet(shapes') /\ shapes' \subseteq {"flat", "map"} \X Spelling
  <2>1. PICK s : s = <<shape, t>>
    OBVIOUS
  <2>2. s \in {"flat", "map"} \X Spelling
    BY <1>2, <2>1
  <2>3. shapes' = shapes \union {s}
    BY <1>4, <2>1
  <2>4. IsFiniteSet(shapes \union {s})
    BY <1>6, FS_AddElement
  <2> QED
    BY <1>6, <2>2, <2>3, <2>4
<1>11. DocumentedInAShape'
  BY <1>4, <1>9 DEF ExplorationInv, BaselineIsDocs, DocumentedInAShape
<1>12. CASE shape = "flat"
  <2>1. /\ baseline'.hash = SchemaHash(t, canon)
        /\ baseline'.snapshot = [n \in DOMAIN baseline.snapshot \union {t} |->
                                    IF n = t THEN canon ELSE baseline.snapshot[n]]
        /\ baseline'.map = baseline.map
        /\ baseline' = [hash |-> baseline'.hash, snapshot |-> baseline'.snapshot,
                        map |-> baseline'.map]
    BY <1>5, <1>6, <1>12
  <2>2. BaselineTypeOK'
    BY <1>7, <1>9, <1>10, <2>1 DEF BaselineTypeOK
  <2>3. MapIsDocs'
    <3>1. <<"flat", t>> \in shapes' /\ <<"flat", t>>[1] # "map"
      BY <1>4, <1>12
    <3> QED
      BY <3>1 DEF MapIsDocs
  <2>4. ASSUME NEW u \in Spelling, shapes' = {<<"flat", u>>}
        PROVE  /\ baseline'.hash = SchemaHash(u, canon)
               /\ baseline'.snapshot = [n \in {u} |-> canon]
               /\ docs'[u] = {canon}
    <3>1. u = t
      <4>1. <<"flat", t>> \in shapes'
        BY <1>4, <1>12
      <4>2. <<"flat", t>> = <<"flat", u>>
        BY <2>4, <4>1
      <4> QED
        BY <4>2
    <3>2. shapes = {} \/ shapes = {<<"flat", t>>}
      BY <1>4, <2>4, <3>1
    <3>3. DOMAIN baseline.snapshot \subseteq {t}
      <4>1. CASE shapes = {}
        BY <4>1 DEF ExplorationInv, BaselineIsDocs, MapIsDocs
      <4>2. CASE shapes = {<<"flat", t>>}
        BY <1>2, <4>2 DEF ExplorationInv, BaselineIsDocs, FlatIsDocs
      <4> QED
        BY <3>2, <4>1, <4>2
    <3>4. DOMAIN baseline.snapshot \union {t} = {t}
      BY <3>3
    <3>5. baseline'.snapshot = [n \in {t} |-> IF n = t THEN canon ELSE baseline.snapshot[n]]
      BY <2>1, <3>4
    <3> QED
      BY <1>9, <2>1, <3>1, <3>5
  <2>5. FlatIsDocs'
    BY <2>4 DEF FlatIsDocs
  <2> QED
    BY <1>4, <1>8, <1>11, <2>2, <2>3, <2>5, NoAnswer DEF ExplorationInv, BaselineIsDocs
<1>13. CASE shape = "map"
  <2>1. /\ baseline'.hash = baseline.hash /\ baseline'.snapshot = baseline.snapshot
        /\ baseline'.map = IF keys = {} THEN Append(baseline.map, kept)
                           ELSE [i \in DOMAIN baseline.map |->
                                    IF i \in keys THEN kept ELSE baseline.map[i]]
        /\ baseline' = [hash |-> baseline'.hash, snapshot |-> baseline'.snapshot,
                        map |-> baseline'.map]
    BY <1>5, <1>6, <1>13
  <2> DEFINE m == baseline'.map
             T == S \union {kept}
  <2>2. /\ m \in Seq(T)
        /\ DOMAIN baseline.map \subseteq DOMAIN m
        /\ \A i \in DOMAIN m :
              \/ i \in DOMAIN baseline.map /\ i \notin keys /\ m[i] = baseline.map[i]
              \/ m[i] = kept
        /\ \A i \in DOMAIN baseline.map : i \notin keys => m[i] = baseline.map[i]
        /\ \E i \in DOMAIN m : m[i] = kept
    <3>1. CASE keys = {}
      <4>1. m = Append(baseline.map, kept) /\ baseline.map \in Seq(T) /\ kept \in T
        BY <1>7, <2>1, <3>1
      <4>2. /\ m \in Seq(T) /\ DOMAIN m = DOMAIN baseline.map \union {Len(baseline.map) + 1}
            /\ m[Len(baseline.map) + 1] = kept
            /\ \A i \in DOMAIN baseline.map : m[i] = baseline.map[i]
        BY <4>1
      <4> QED
        BY <3>1, <4>2
    <3>2. CASE keys # {}
      <4>1. m = [i \in DOMAIN baseline.map |-> IF i \in keys THEN kept ELSE baseline.map[i]]
        BY <2>1, <3>2
      <4>2. /\ DOMAIN m = DOMAIN baseline.map
            /\ \A i \in DOMAIN m : m[i] = IF i \in keys THEN kept ELSE baseline.map[i]
        BY <4>1
      <4>3. keys \subseteq DOMAIN baseline.map
        BY <1>3
      <4>4. m \in Seq(T)
        BY <1>7, <4>1
      <4> QED
        BY <3>2, <4>2, <4>3, <4>4
    <3> QED
      BY <3>1, <3>2
  <2>3. BaselineTypeOK'
    BY <1>9, <1>10, <2>1, <2>2 DEF BaselineTypeOK
  <2>4. FlatIsDocs'
    <3>1. <<"map", t>> \in shapes'
      BY <1>4, <1>13
    <3>2. \A u : <<"map", t>> # <<"flat", u>>
      OBVIOUS
    <3>3. \A u : shapes' # {<<"flat", u>>}
      BY <3>1, <3>2
    <3> QED
      BY <3>3 DEF FlatIsDocs
  <2>5. ASSUME \A s \in shapes' : s[1] = "map"
        PROVE  /\ baseline'.hash = NoHash /\ DOMAIN baseline'.snapshot = {}
               /\ \A i \in DOMAIN baseline'.map :
                     /\ baseline'.map[i].key \in Spelling
                     /\ docs'[baseline'.map[i].key] = {baseline'.map[i].canon}
               /\ \A u \in Spelling : docs'[u] # {} =>
                     \E i \in DOMAIN baseline'.map : baseline'.map[i].key = u
    <3>1. \A s \in shapes : s[1] = "map"
      BY <1>4, <2>5
    <3>2. /\ baseline.hash = NoHash /\ DOMAIN baseline.snapshot = {}
          /\ \A i \in DOMAIN baseline.map :
                /\ baseline.map[i].key \in Spelling
                /\ docs[baseline.map[i].key] = {baseline.map[i].canon}
          /\ \A u \in Spelling : docs[u] # {} => \E i \in DOMAIN baseline.map : baseline.map[i].key = u
      BY <3>1 DEF ExplorationInv, BaselineIsDocs, MapIsDocs
    <3>3. kept.key = t /\ kept.canon = canon
      BY <1>3
    <3>4. ASSUME NEW i \in DOMAIN m
          PROVE  m[i].key \in Spelling /\ docs'[m[i].key] = {m[i].canon}
      <4>1. CASE m[i] = kept
        BY <1>2, <1>9, <3>3, <4>1
      <4>2. CASE i \in DOMAIN baseline.map /\ i \notin keys /\ m[i] = baseline.map[i]
        <5>1. baseline.map[i].key # t
          BY <1>3, <4>2
        <5>2. /\ baseline.map[i].key \in Spelling
              /\ docs[baseline.map[i].key] = {baseline.map[i].canon}
          BY <3>2, <4>2
        <5>3. docs'[baseline.map[i].key] = docs[baseline.map[i].key]
          BY <1>9, <5>1, <5>2
        <5> QED
          BY <4>2, <5>2, <5>3
      <4> QED
        BY <2>2, <4>1, <4>2
    <3>5. ASSUME NEW u \in Spelling, docs'[u] # {}
          PROVE  \E i \in DOMAIN m : m[i].key = u
      <4>1. CASE u = t
        BY <2>2, <3>3, <4>1
      <4>2. CASE u # t
        <5>1. PICK i \in DOMAIN baseline.map : baseline.map[i].key = u
          BY <1>9, <3>2, <3>5, <4>2
        <5>2. i \notin keys
          BY <1>3, <4>2, <5>1
        <5> QED
          BY <2>2, <5>1, <5>2
      <4> QED
        BY <4>1, <4>2
    <3> QED
      BY <2>1, <3>2, <3>4, <3>5
  <2>6. MapIsDocs'
    BY <2>5 DEF MapIsDocs
  <2> QED
    BY <1>4, <1>8, <1>11, <2>3, <2>4, <2>6, NoAnswer DEF ExplorationInv, BaselineIsDocs
<1> QED
  BY <1>12, <1>13

LEMMA DocumentOnlyStep ==
    ASSUME ExplorationInv, DocumentOnly
    PROVE  ExplorationInv'
<1>1. answer' = Idle /\ UNCHANGED <<entry, record, inline, shown, probed, moved, baseline, docs, shapes>>
  BY DEF DocumentOnly, connectionVars
<1>2. SourceTypeOK' /\ BindingKeepsProbe'
  BY <1>1 DEF ExplorationInv, SourceTypeOK, BindingKeepsProbe
<1> QED
  BY <1>1, <1>2, BaselineKept, NoAnswer DEF ExplorationInv

LEMMA ExplorationBegins ==
    ASSUME SourceInit
    PROVE  ExplorationInv
<1>1. SourceTypeOK /\ BindingKeepsProbe
  <2>1. CASE entry = None /\ record = None /\ shown = "none"
    BY <2>1 DEF SourceInit, SourceTypeOK, BindingKeepsProbe
  <2>2. ASSUME NEW kind \in ProviderKinds, NEW x \in Target,
               entry = [kind |-> kind, target |-> x], record = Unvalidated(kind), shown = kind
        PROVE  SourceTypeOK /\ BindingKeepsProbe
    BY <2>2 DEF SourceInit, SourceTypeOK, BindingKeepsProbe, Unvalidated
  <2> QED
    BY <2>1, <2>2 DEF SourceInit
<1>2. /\ baseline.hash = NoHash /\ baseline.snapshot = <<>> /\ baseline.map = <<>>
      /\ baseline = [hash |-> NoHash, snapshot |-> <<>>, map |-> <<>>]
      /\ docs = [t \in Spelling |-> {}] /\ shapes = {} /\ answer = Idle
  BY DEF SourceInit
<1>3. IsFiniteSet(shapes)
  BY <1>2, FS_EmptySet
<1>4. BaselineTypeOK
  <2>1. <<>> \in Seq({})
    OBVIOUS
  <2> QED
    BY <1>2, <1>3, <2>1 DEF BaselineTypeOK
<1>5. DocumentedInAShape /\ MapIsDocs /\ FlatIsDocs
  <2>1. DocumentedInAShape
    BY <1>2 DEF DocumentedInAShape
  <2>2. DOMAIN baseline.snapshot = {} /\ DOMAIN baseline.map = {}
    BY <1>2
  <2>3. MapIsDocs
    BY <1>2, <2>2 DEF MapIsDocs
  <2>4. FlatIsDocs
    <3>1. \A u : shapes # {u}
      BY <1>2
    <3> QED
      BY <3>1, Zenon DEF FlatIsDocs
  <2> QED
    BY <2>1, <2>3, <2>4
<1>6. answer.tool \notin {"explore", "query"}
  BY <1>2 DEF Idle
<1>7. AnswerIsOfBaseline /\ AnswerIsOfConnection
  BY <1>6 DEF AnswerIsOfBaseline, AnswerIsOfConnection, ReadsWhatWasProbed, TruncationIsTold
<1> QED
  BY <1>1, <1>4, <1>5, <1>7 DEF ExplorationInv, BaselineIsDocs

LEMMA ExplorationStep ==
    ASSUME ExplorationInv, [SourceNext]_sourceVars
    PROVE  ExplorationInv'
<1>1. CASE UNCHANGED sourceVars
  <2>1. UNCHANGED <<entry, record, inline, shown, probed, moved, baseline, documented, docs, shapes,
                    answer>>
    BY <1>1 DEF sourceVars
  <2>2. SourceTypeOK' /\ BindingKeepsProbe'
    BY <2>1 DEF ExplorationInv, SourceTypeOK, BindingKeepsProbe
  <2> QED
    BY <2>1, <2>2, BaselineKept, AnswerKept DEF ExplorationInv
<1>2. CASE SourceNext
  <2>1. ASSUME NEW kind \in FileKinds, NEW x \in Target, Describe(kind, x)
        PROVE  ExplorationInv'
    BY <2>1, DescribeStep
  <2>2. ASSUME NEW kind \in ProviderKinds, Describe(kind, NoTarget)
        PROVE  ExplorationInv'
    BY <2>2, DescribeStep
  <2>3. CASE SourceRefuses
    BY <2>3, RefusesStep DEF SourceRefuses
  <2> QED
    BY <1>2, <2>1, <2>2, <2>3, DriftStep, ClassifyStep, RegisterStep, BindStep, ValidateStep, UnbindStep,
       BrowseStep, ExploreStep, QueryStep, DocumentStep, DocumentOnlyStep DEF SourceNext
<1> QED
  BY <1>1, <1>2

\* What an agent is told of a source is true, for any tables, columns, targets
\* and sizes of pages: a table is called unchanged exactly when the columns read
\* are the ones last documented under that spelling of its name, the false alarm
\* of a table documented in another case has an empty delta, the delta of a
\* changed one leaves nothing out,
\* what is read through a valid binding is what was probed, and a preview says
\* when it does not show every row (mcp/tools.py explore_source, query_source;
\* connectors/change_detection.py).
THEOREM ExplorationTruth == SourceSpec => []ExplorationIsTruthful
<1>1. SourceInit => ExplorationInv
  BY ExplorationBegins
<1>2. ExplorationInv /\ [SourceNext]_sourceVars => ExplorationInv'
  BY ExplorationStep
<1>3. ExplorationInv => ExplorationIsTruthful
  BY VerdictAndDelta DEF ExplorationInv, AnswerIsOfConnection, ExplorationIsTruthful
<1> QED
  BY <1>1, <1>2, <1>3, PTL DEF SourceSpec

(***************************************************************************)
(* 3 NodeVectors.                                                          *)
(*                                                                         *)
(* Nothing but the history relates a text that is held to the text there   *)
(* is.  So the strengthening is that the history is right: what a process  *)
(* holds of a node is the text the node has, unless the process has missed *)
(* a write (EmbedderIsSound, FillerIsSound).                               *)
(***************************************************************************)

USE VectorsAssumption

Texts == Wording \union {NoCard}

EmbedderJob ==
    {AtRest}
    \union [step : {"reread"}, card : Card]
    \union [step : {"store"}, card : Card, text : Wording, missed : SUBSET Card]

\* Only nodes that were there are left to take.
FillerJob ==
    {AtRest}
    \union [step : {"pass"}, left : SUBSET Card, copy : [Card -> Texts], missed : SUBSET Card]
    \union [step : {"fill"}, left : SUBSET Card, copy : [Card -> Texts], missed : SUBSET Card,
            card : Card]

\* Of a job: its shape, and that it holds the texts w of the nodes, but for
\* those whose writes it missed.
EmbedderIsSound(j, w) ==
    /\ j \in EmbedderJob
    /\ j.step = "store" => (j.card \notin j.missed => j.text = w[j.card])

FillerIsSound(j, w) ==
    /\ j \in FillerJob
    /\ j.step \in {"pass", "fill"} =>
          /\ \A n \in j.left : j.copy[n] # NoCard
          /\ \A n \in Card \ j.missed : j.copy[n] = w[n]
    /\ j.step = "fill" => j.copy[j.card] # NoCard

HeldTextsAreCurrent ==
    /\ \A p \in Embedder : EmbedderIsSound(work[p], wording)
    /\ \A p \in Filler : FillerIsSound(work[p], wording)

AtWorkOn(n) == \E p \in Embedder : work[p] # AtRest /\ work[p].card = n

Explained(n) ==
    wording[n] # NoCard /\ vectorOf[n] # wording[n] => n \in bare \union late \/ AtWorkOn(n)

VectorsInv ==
    /\ work = [p \in Embedder \union Filler |-> work[p]]
    /\ HeldTextsAreCurrent
    /\ VectorsAreExplained

-----------------------------------------------------------------------------
(***************************************************************************)
(* What a job carries.                                                     *)
(***************************************************************************)
LEMMA EmbedderJobParts ==
    ASSUME NEW j \in EmbedderJob
    PROVE  /\ j.step \in {"none", "reread", "store"}
           /\ j.step = "none" => j = AtRest
           /\ j.step = "reread" => j \in [step : {"reread"}, card : Card]
           /\ j.step = "store" =>
                 j \in [step : {"store"}, card : Card, text : Wording, missed : SUBSET Card]
<1>1. CASE j = AtRest
  BY <1>1 DEF AtRest
<1>2. CASE j \in [step : {"reread"}, card : Card]
  BY <1>2
<1>3. CASE j \in [step : {"store"}, card : Card, text : Wording, missed : SUBSET Card]
  BY <1>3
<1> QED
  BY <1>1, <1>2, <1>3 DEF EmbedderJob

LEMMA FillerJobParts ==
    ASSUME NEW j \in FillerJob
    PROVE  /\ j.step \in {"none", "pass", "fill"}
           /\ j.step = "none" => j = AtRest
           /\ j.step = "pass" =>
                 j \in [step : {"pass"}, left : SUBSET Card, copy : [Card -> Texts],
                        missed : SUBSET Card]
           /\ j.step = "fill" =>
                 j \in [step : {"fill"}, left : SUBSET Card, copy : [Card -> Texts],
                        missed : SUBSET Card, card : Card]
<1>1. CASE j = AtRest
  BY <1>1 DEF AtRest
<1>2. CASE j \in [step : {"pass"}, left : SUBSET Card, copy : [Card -> Texts], missed : SUBSET Card]
  BY <1>2
<1>3. CASE j \in [step : {"fill"}, left : SUBSET Card, copy : [Card -> Texts], missed : SUBSET Card,
                  card : Card]
  BY <1>3
<1> QED
  BY <1>1, <1>2, <1>3 DEF FillerJob

\* A write is missed by those that hold a text: what they hold stays sound.
Missed(j, n) ==
    IF j.step \in {"store", "pass", "fill"} THEN [j EXCEPT !.missed = @ \union {n}] ELSE j

LEMMA EmbedderMisses ==
    ASSUME NEW w \in [Card -> Texts], NEW n \in Card, NEW t \in Texts, NEW j,
           EmbedderIsSound(j, w)
    PROVE  /\ EmbedderIsSound(Missed(j, n), [w EXCEPT ![n] = t])
           /\ Missed(j, n).step = j.step
           /\ j # AtRest => Missed(j, n) # AtRest /\ Missed(j, n).card = j.card
<1>1. j \in EmbedderJob
  BY DEF EmbedderIsSound
<1>2. CASE j.step = "none"
  BY <1>1, <1>2, EmbedderJobParts DEF EmbedderIsSound, Missed, AtRest
<1>3. CASE j.step = "reread"
  BY <1>1, <1>3, EmbedderJobParts DEF EmbedderIsSound, Missed, AtRest
<1>4. CASE j.step = "store"
  <2>1. j \in [step : {"store"}, card : Card, text : Wording, missed : SUBSET Card]
    BY <1>1, <1>4, EmbedderJobParts
  <2>2. Missed(j, n) = [j EXCEPT !.missed = @ \union {n}]
    BY <1>4 DEF Missed
  <2>3. /\ Missed(j, n) \in [step : {"store"}, card : Card, text : Wording, missed : SUBSET Card]
        /\ Missed(j, n).step = j.step /\ Missed(j, n).card = j.card
        /\ Missed(j, n).text = j.text /\ Missed(j, n).missed = j.missed \union {n}
    BY <2>1, <2>2
  <2>4. Missed(j, n) # AtRest
    BY <2>3, <1>4 DEF AtRest
  <2>5. Missed(j, n) \in EmbedderJob
    BY <2>3 DEF EmbedderJob
  <2> QED
    BY <1>4, <2>1, <2>3, <2>4, <2>5 DEF EmbedderIsSound
<1> QED
  BY <1>1, <1>2, <1>3, <1>4, EmbedderJobParts

LEMMA FillerMisses ==
    ASSUME NEW w \in [Card -> Texts], NEW n \in Card, NEW t \in Texts, NEW j,
           FillerIsSound(j, w)
    PROVE  /\ FillerIsSound(Missed(j, n), [w EXCEPT ![n] = t])
           /\ Missed(j, n).step = j.step
<1>1. j \in FillerJob
  BY DEF FillerIsSound
<1>2. CASE j.step = "none"
  BY <1>1, <1>2, FillerJobParts DEF FillerIsSound, Missed, AtRest
<1>3. CASE j.step = "pass"
  <2>1. j \in [step : {"pass"}, left : SUBSET Card, copy : [Card -> Texts], missed : SUBSET Card]
    BY <1>1, <1>3, FillerJobParts
  <2>2. Missed(j, n) = [j EXCEPT !.missed = @ \union {n}]
    BY <1>3 DEF Missed
  <2>3. /\ Missed(j, n) \in [step : {"pass"}, left : SUBSET Card, copy : [Card -> Texts],
                             missed : SUBSET Card]
        /\ Missed(j, n).step = j.step /\ Missed(j, n).left = j.left
        /\ Missed(j, n).copy = j.copy /\ Missed(j, n).missed = j.missed \union {n}
    BY <2>1, <2>2
  <2>4. Missed(j, n) \in FillerJob
    BY <2>3 DEF FillerJob
  <2> QED
    BY <1>3, <2>1, <2>3, <2>4 DEF FillerIsSound
<1>4. CASE j.step = "fill"
  <2>1. j \in [step : {"fill"}, left : SUBSET Card, copy : [Card -> Texts], missed : SUBSET Card,
               card : Card]
    BY <1>1, <1>4, FillerJobParts
  <2>2. Missed(j, n) = [j EXCEPT !.missed = @ \union {n}]
    BY <1>4 DEF Missed
  <2>3. /\ Missed(j, n) \in [step : {"fill"}, left : SUBSET Card, copy : [Card -> Texts],
                             missed : SUBSET Card, card : Card]
        /\ Missed(j, n).step = j.step /\ Missed(j, n).left = j.left
        /\ Missed(j, n).copy = j.copy /\ Missed(j, n).missed = j.missed \union {n}
        /\ Missed(j, n).card = j.card
    BY <2>1, <2>2
  <2>4. Missed(j, n) \in FillerJob
    BY <2>3 DEF FillerJob
  <2> QED
    BY <1>4, <2>1, <2>3, <2>4 DEF FillerIsSound
<1> QED
  BY <1>1, <1>2, <1>3, <1>4, FillerJobParts

-----------------------------------------------------------------------------
(***************************************************************************)
(* The steps, sorted by what they do to the jobs: a write is missed by all *)
(* that hold a text; any other step changes the job of one process.        *)
(***************************************************************************)
LEMMA WriteKeepsJobs ==
    ASSUME VectorsInv, NEW n \in Card, NEW t \in Texts,
           wording' = [wording EXCEPT ![n] = t],
           \/ work' = Missing(n)
           \/ \E p \in Embedder :
                 /\ work[p] = AtRest
                 /\ work' = [Missing(n) EXCEPT ![p] = [step |-> "reread", card |-> n]]
    PROVE  /\ work' = [p \in Embedder \union Filler |-> work'[p]]
           /\ HeldTextsAreCurrent'
           /\ \A m \in Card : AtWorkOn(m) => AtWorkOn(m)'
<1> USE DEF VectorsInv
<1>1. wording \in [Card -> Texts]
  BY DEF VectorsAreExplained, VectorsTypeOK, Texts
<1>2. wording' = [wording EXCEPT ![n] = t] /\ wording' \in [Card -> Texts]
  BY <1>1
<1>3. Missing(n) = [p \in Embedder \union Filler |-> Missed(work[p], n)]
  BY DEF Missing, Missed
<1>4. /\ work' = [p \in Embedder \union Filler |-> work'[p]]
      /\ \A p \in Embedder : \/ work'[p] = Missed(work[p], n)
                             \/ /\ work[p] = AtRest
                                /\ work'[p] = [step |-> "reread", card |-> n]
      /\ \A p \in Filler : work'[p] = Missed(work[p], n)
  BY <1>3
<1>5. ASSUME NEW p \in Embedder
      PROVE  /\ EmbedderIsSound(work'[p], wording')
             /\ work[p] # AtRest => work'[p] # AtRest /\ work'[p].card = work[p].card
  <2>1. EmbedderIsSound(work[p], wording)
    BY DEF HeldTextsAreCurrent
  <2>2. EmbedderIsSound([step |-> "reread", card |-> n], wording')
    BY DEF EmbedderIsSound, EmbedderJob
  <2>3. EmbedderIsSound(Missed(work[p], n), [wording EXCEPT ![n] = t])
    BY <1>1, <2>1, EmbedderMisses, Zenon
  <2>4. work[p] # AtRest => /\ Missed(work[p], n) # AtRest
                            /\ Missed(work[p], n).card = work[p].card
    BY <1>1, <2>1, EmbedderMisses, SMTT(30)
  <2> QED
    BY <1>2, <1>4, <2>2, <2>3, <2>4
<1>6. ASSUME NEW p \in Filler
      PROVE  FillerIsSound(work'[p], wording')
  <2>1. FillerIsSound(work[p], wording)
    BY DEF HeldTextsAreCurrent
  <2>2. FillerIsSound(Missed(work[p], n), [wording EXCEPT ![n] = t])
    BY <1>1, <2>1, FillerMisses, Zenon
  <2> QED
    BY <1>2, <1>4, <2>2
<1>7. HeldTextsAreCurrent'
  BY <1>5, <1>6 DEF HeldTextsAreCurrent
<1>8. \A m \in Card : AtWorkOn(m) => AtWorkOn(m)'
  BY <1>5 DEF AtWorkOn
<1> QED
  BY <1>4, <1>7, <1>8

LEMMA StepKeepsJobs ==
    ASSUME VectorsInv, NEW p \in Embedder \union Filler, NEW j,
           p \in Embedder => EmbedderIsSound(j, wording),
           p \in Filler => FillerIsSound(j, wording),
           wording' = wording, work' = [work EXCEPT ![p] = j]
    PROVE  /\ work' = [q \in Embedder \union Filler |-> work'[q]]
           /\ HeldTextsAreCurrent'
           /\ \A m \in Card : AtWorkOn(m) =>
                 \/ AtWorkOn(m)'
                 \/ p \in Embedder /\ work[p] # AtRest /\ m = work[p].card
<1> USE DEF VectorsInv
<1>1. /\ work' = [q \in Embedder \union Filler |-> work'[q]]
      /\ work'[p] = j /\ \A q \in Embedder \union Filler : q # p => work'[q] = work[q]
  OBVIOUS
<1>2. \A q \in Embedder : EmbedderIsSound(work'[q], wording')
  BY <1>1 DEF HeldTextsAreCurrent
<1>3. \A q \in Filler : FillerIsSound(work'[q], wording')
  BY <1>1 DEF HeldTextsAreCurrent
<1>4. HeldTextsAreCurrent'
  BY <1>2, <1>3 DEF HeldTextsAreCurrent
<1>5. ASSUME NEW m \in Card, AtWorkOn(m)
      PROVE  AtWorkOn(m)' \/ (p \in Embedder /\ work[p] # AtRest /\ m = work[p].card)
  BY <1>1, <1>5 DEF AtWorkOn
<1> QED
  BY <1>1, <1>4, <1>5

\* A step that at most touches the node n.
TouchesOnly(n) ==
    /\ wording' \in [Card -> Wording \union {NoCard}]
    /\ vectorOf' \in [Card -> Wording \union {NoVector}]
    /\ bare' \subseteq Card /\ late' \subseteq Card
    /\ \A m \in Card : m # n =>
          /\ wording'[m] = wording[m] /\ vectorOf'[m] = vectorOf[m]
          /\ m \in bare => m \in bare'
          /\ m \in late => m \in late'

\* One that explains the node it touches keeps the invariant.
LEMMA RestStaysExplained ==
    ASSUME VectorsInv, NEW n,
           work' = [p \in Embedder \union Filler |-> work'[p]],
           HeldTextsAreCurrent',
           TouchesOnly(n),
           n \in Card => Explained(n)',
           \A m \in Card : m # n /\ AtWorkOn(m) => AtWorkOn(m)'
    PROVE  VectorsInv'
<1>1. \A p \in Embedder : work'[p].step \in {"none", "reread", "store"}
  BY EmbedderJobParts DEF HeldTextsAreCurrent, EmbedderIsSound
<1>2. \A p \in Filler : work'[p].step \in {"none", "pass", "fill"}
  BY FillerJobParts DEF HeldTextsAreCurrent, FillerIsSound
<1>3. VectorsTypeOK'
  BY <1>1, <1>2 DEF VectorsTypeOK, TouchesOnly
<1>4. \A m \in Card : Explained(m)
  BY DEF VectorsInv, VectorsAreExplained, Explained, AtWorkOn
<1>5. \A m \in Card : Explained(m)'
  BY <1>4 DEF Explained, TouchesOnly
<1> QED
  BY <1>3, <1>5 DEF VectorsInv, VectorsAreExplained, Explained, AtWorkOn

\* So does one that touches no node.
LEMMA NoNodeTouched ==
    ASSUME VectorsInv,
           work' = [p \in Embedder \union Filler |-> work'[p]],
           HeldTextsAreCurrent',
           UNCHANGED <<wording, vectorOf, bare, late>>,
           \A m \in Card : AtWorkOn(m) => AtWorkOn(m)'
    PROVE  VectorsInv'
<1>1. \A p \in Embedder : work'[p].step \in {"none", "reread", "store"}
  BY EmbedderJobParts DEF HeldTextsAreCurrent, EmbedderIsSound
<1>2. \A p \in Filler : work'[p].step \in {"none", "pass", "fill"}
  BY FillerJobParts DEF HeldTextsAreCurrent, FillerIsSound
<1>3. VectorsTypeOK'
  BY <1>1, <1>2 DEF VectorsTypeOK, VectorsInv, VectorsAreExplained
<1>4. \A m \in Card : Explained(m)
  BY DEF VectorsInv, VectorsAreExplained, Explained, AtWorkOn
<1>5. \A m \in Card : Explained(m)'
  BY <1>4 DEF Explained
<1> QED
  BY <1>3, <1>5 DEF VectorsInv, VectorsAreExplained, Explained, AtWorkOn

-----------------------------------------------------------------------------
(***************************************************************************)
(* The induction.  What remains for each action is that the node it wrote  *)
(* or made a vector of is explained.                                       *)
(***************************************************************************)
LEMMA VectorsInvInit == VectorsInit => VectorsInv
<1> SUFFICES ASSUME VectorsInit PROVE VectorsInv
  OBVIOUS
<1> USE DEF VectorsInit
<1>1. work = [p \in Embedder \union Filler |-> work[p]]
  OBVIOUS
<1>2. HeldTextsAreCurrent
  BY DEF HeldTextsAreCurrent, EmbedderIsSound, FillerIsSound, EmbedderJob, FillerJob, AtRest
<1>3. VectorsAreExplained
  BY DEF VectorsAreExplained, VectorsTypeOK, AtRest
<1> QED
  BY <1>1, <1>2, <1>3 DEF VectorsInv

LEMMA VectorsInvStep == VectorsInv /\ [VectorsNext]_vectorsVars => VectorsInv'
<1> SUFFICES ASSUME VectorsInv, [VectorsNext]_vectorsVars PROVE VectorsInv'
  OBVIOUS
<1>types. VectorsTypeOK
  BY DEF VectorsInv, VectorsAreExplained
<1>texts. Wording \subseteq Texts /\ NoCard \in Texts /\ wording \in [Card -> Texts]
  BY <1>types DEF Texts, VectorsTypeOK
<1>sound. /\ \A p \in Embedder : EmbedderIsSound(work[p], wording)
          /\ \A p \in Filler : FillerIsSound(work[p], wording)
  BY DEF VectorsInv, HeldTextsAreCurrent
<1>kinds. /\ \A p \in Embedder : p \notin Filler
          /\ \A p \in Filler : p \notin Embedder
  OBVIOUS
<1>1. ASSUME NEW n \in Card, NEW t \in Wording, WritePlainly(n, t)
      PROVE  VectorsInv'
  <2> USE <1>1 DEF WritePlainly, Writes
  <2>1. /\ work' = [p \in Embedder \union Filler |-> work'[p]]
        /\ HeldTextsAreCurrent'
        /\ \A m \in Card : AtWorkOn(m) => AtWorkOn(m)'
    BY <1>texts, WriteKeepsJobs
  <2>2. Explained(n)'
    BY DEF Explained
  <2>3. TouchesOnly(n)
    BY <1>types DEF VectorsTypeOK, TouchesOnly
  <2> QED
    BY <2>1, <2>2, <2>3, RestStaysExplained
<1>2. ASSUME NEW n \in Card, RemoveCard(n)
      PROVE  VectorsInv'
  <2> USE <1>2 DEF RemoveCard, Writes
  <2>1. /\ work' = [p \in Embedder \union Filler |-> work'[p]]
        /\ HeldTextsAreCurrent'
        /\ \A m \in Card : AtWorkOn(m) => AtWorkOn(m)'
    BY <1>texts, WriteKeepsJobs
  <2>2. Explained(n)'
    BY <1>types DEF Explained, VectorsTypeOK
  <2>3. TouchesOnly(n)
    BY <1>types DEF VectorsTypeOK, TouchesOnly
  <2> QED
    BY <2>1, <2>2, <2>3, RestStaysExplained
<1>3. ASSUME NEW p \in Embedder, NEW n \in Card, NEW t \in Wording, UpdateCard(p, n, t)
      PROVE  VectorsInv'
  <2> USE <1>3 DEF UpdateCard, Writes
  <2>1. /\ work' = [q \in Embedder \union Filler |-> work'[q]]
        /\ HeldTextsAreCurrent'
        /\ \A m \in Card : AtWorkOn(m) => AtWorkOn(m)'
    BY <1>texts, WriteKeepsJobs
  <2>2. work'[p] = [step |-> "reread", card |-> n]
    BY DEF Missing
  <2>3. Explained(n)'
    BY <2>2 DEF Explained, AtWorkOn, AtRest
  <2>4. TouchesOnly(n)
    BY <1>types DEF VectorsTypeOK, TouchesOnly
  <2> QED
    BY <2>1, <2>3, <2>4, RestStaysExplained
<1>4. ASSUME NEW p \in Embedder, RereadCard(p)
      PROVE  VectorsInv'
  <2> PICK n : n = work[p].card
    OBVIOUS
  <2> DEFINE j == IF wording[n] = NoCard THEN AtRest
                     ELSE [step |-> "store", card |-> n, text |-> wording[n], missed |-> {}]
  <2>1. work[p].step = "reread" /\ work[p] \in [step : {"reread"}, card : Card]
    BY <1>4, <1>sound, EmbedderJobParts DEF RereadCard, EmbedderIsSound
  <2>2. work' = [work EXCEPT ![p] = j] /\ UNCHANGED <<wording, vectorOf, bare, late>>
    BY <1>4 DEF RereadCard, TextOf
  <2>3. EmbedderIsSound(j, wording)
    <3>1. CASE wording[n] = NoCard
      BY <3>1 DEF EmbedderIsSound, EmbedderJob, AtRest
    <3>2. CASE wording[n] # NoCard
      <4>1. n \in Card /\ wording[n] \in Wording
        BY <2>1, <3>2, <1>types DEF VectorsTypeOK
      <4>2. j = [step |-> "store", card |-> n, text |-> wording[n], missed |-> {}]
        BY <3>2
      <4>3. j \in [step : {"store"}, card : Card, text : Wording, missed : SUBSET Card]
        BY <4>1, <4>2
      <4>4. j.card = n /\ j.text = wording[n]
        BY <4>2
      <4> HIDE DEF j
      <4> QED
        BY <4>3, <4>4 DEF EmbedderIsSound, EmbedderJob
    <3> QED
      BY <3>1, <3>2
  <2>4. wording[n] # NoCard => j # AtRest /\ j.card = n
    BY DEF AtRest
  <2> HIDE DEF j
  <2>5. /\ work' = [q \in Embedder \union Filler |-> work'[q]]
        /\ HeldTextsAreCurrent'
        /\ \A m \in Card : AtWorkOn(m) =>
              AtWorkOn(m)' \/ (p \in Embedder /\ work[p] # AtRest /\ m = work[p].card)
    BY <2>2, <2>3, <1>kinds, StepKeepsJobs
  <2>6. work'[p] = j
    BY <2>2 DEF VectorsInv
  <2>7. Explained(n)'
    BY <2>2, <2>4, <2>6 DEF Explained, AtWorkOn
  <2>8. TouchesOnly(n)
    BY <2>2, <1>types DEF TouchesOnly, VectorsTypeOK
  <2> QED
    BY <2>5, <2>7, <2>8, RestStaysExplained
<1>5. ASSUME NEW p \in Embedder, StoreVector(p)
      PROVE  VectorsInv'
  <2> PICK n : n = work[p].card
    OBVIOUS
  <2>1. /\ work[p].step = "store"
        /\ work[p] \in [step : {"store"}, card : Card, text : Wording, missed : SUBSET Card]
    BY <1>5, <1>sound, EmbedderJobParts DEF StoreVector, EmbedderIsSound
  <2>2. /\ work' = [work EXCEPT ![p] = AtRest] /\ wording' = wording
        /\ vectorOf' = [vectorOf EXCEPT ![n] = work[p].text]
        /\ late' = IF n \in work[p].missed THEN late \union {n} ELSE late \ {n}
        /\ bare' = IF n \in work[p].missed THEN bare ELSE bare \ {n}
    BY <1>5 DEF StoreVector, Stores
  <2>3. EmbedderIsSound(AtRest, wording)
    BY DEF EmbedderIsSound, EmbedderJob, AtRest
  <2>4. /\ work' = [q \in Embedder \union Filler |-> work'[q]]
        /\ HeldTextsAreCurrent'
        /\ \A m \in Card : AtWorkOn(m) =>
              AtWorkOn(m)' \/ (p \in Embedder /\ work[p] # AtRest /\ m = work[p].card)
    BY <2>2, <2>3, <1>kinds, StepKeepsJobs
  <2>5. n \notin work[p].missed => vectorOf'[n] = wording[n]
    BY <2>1, <2>2, <1>sound, <1>types DEF EmbedderIsSound, VectorsTypeOK
  <2>6. Explained(n)'
    BY <2>2, <2>5 DEF Explained
  <2>7. TouchesOnly(n)
    BY <2>1, <2>2, <1>types DEF TouchesOnly, VectorsTypeOK
  <2> QED
    BY <2>4, <2>6, <2>7, RestStaysExplained
<1>6. ASSUME NEW p \in Embedder \union Filler, Slip(p)
      PROVE  VectorsInv'
  <2>1. /\ work' = [work EXCEPT ![p] = AtRest] /\ work[p] # AtRest
        /\ UNCHANGED <<wording, vectorOf, late>>
        /\ bare' = IF work[p].step \in {"reread", "store"} THEN bare \union {work[p].card} ELSE bare
    BY <1>6 DEF Slip
  <2>2. EmbedderIsSound(AtRest, wording) /\ FillerIsSound(AtRest, wording)
    BY DEF EmbedderIsSound, FillerIsSound, EmbedderJob, FillerJob, AtRest
  <2>3. /\ work' = [q \in Embedder \union Filler |-> work'[q]]
        /\ HeldTextsAreCurrent'
        /\ \A m \in Card : AtWorkOn(m) =>
              AtWorkOn(m)' \/ (p \in Embedder /\ work[p] # AtRest /\ m = work[p].card)
    BY <2>1, <2>2, StepKeepsJobs
  <2>4. p \in Embedder => work[p].step \in {"reread", "store"} /\ work[p].card \in Card
    BY <2>1, <1>sound, EmbedderJobParts DEF EmbedderIsSound
  <2>5. p \in Filler => work[p].step \notin {"reread", "store"}
    BY <1>sound, FillerJobParts DEF FillerIsSound
  <2>6. CASE p \in Embedder
    <3> PICK n : n = work[p].card
      OBVIOUS
    <3>1. Explained(n)'
      BY <2>1, <2>4, <2>6 DEF Explained
    <3>2. TouchesOnly(n)
      BY <2>1, <2>4, <2>6, <1>types DEF TouchesOnly, VectorsTypeOK
    <3> QED
      BY <2>3, <3>1, <3>2, RestStaysExplained
  <2>7. CASE p \in Filler
    BY <2>1, <2>3, <2>5, <2>7, <1>kinds, NoNodeTouched
  <2> QED
    BY <2>6, <2>7
<1>7. ASSUME NEW p \in Filler, BeginBackfill(p)
      PROVE  VectorsInv'
  <2> DEFINE j == [step |-> "pass", left |-> {n \in Card : wording[n] # NoCard},
                   copy |-> wording, missed |-> {}]
  <2>1. work' = [work EXCEPT ![p] = j] /\ UNCHANGED <<wording, vectorOf, bare, late>>
    BY <1>7 DEF BeginBackfill
  <2>2. FillerIsSound(j, wording)
    <3>1. j \in [step : {"pass"}, left : SUBSET Card, copy : [Card -> Texts], missed : SUBSET Card]
      BY <1>texts
    <3>2. j.left = {n \in Card : wording[n] # NoCard} /\ j.copy = wording /\ j.step = "pass"
      OBVIOUS
    <3> HIDE DEF j
    <3> QED
      BY <3>1, <3>2 DEF FillerIsSound, FillerJob
  <2> HIDE DEF j
  <2> QED
    BY <2>1, <2>2, <1>kinds, StepKeepsJobs, NoNodeTouched
<1>8. ASSUME NEW p \in Filler, EndBackfill(p)
      PROVE  VectorsInv'
  <2>1. work' = [work EXCEPT ![p] = AtRest] /\ UNCHANGED <<wording, vectorOf, bare, late>>
    BY <1>8 DEF EndBackfill
  <2>2. FillerIsSound(AtRest, wording)
    BY DEF FillerIsSound, FillerJob, AtRest
  <2> QED
    BY <2>1, <2>2, <1>kinds, StepKeepsJobs, NoNodeTouched
<1>9. ASSUME NEW p \in Filler, NEW n \in Card, PassOver(p, n)
      PROVE  VectorsInv'
  <2> DEFINE j == [work[p] EXCEPT !.left = @ \ {n}]
  <2>1. /\ work[p].step = "pass"
        /\ work[p] \in [step : {"pass"}, left : SUBSET Card, copy : [Card -> Texts],
                        missed : SUBSET Card]
    BY <1>9, <1>sound, FillerJobParts DEF PassOver, FillerIsSound
  <2>2. work' = [work EXCEPT ![p] = j] /\ UNCHANGED <<wording, vectorOf, bare, late>>
    BY <1>9 DEF PassOver, VectorsInv
  <2>3. FillerIsSound(j, wording)
    <3>1. j \in [step : {"pass"}, left : SUBSET Card, copy : [Card -> Texts], missed : SUBSET Card]
      BY <2>1
    <3>2. /\ j.left = work[p].left \ {n} /\ j.copy = work[p].copy /\ j.missed = work[p].missed
          /\ j.step = "pass"
      BY <2>1
    <3>3. FillerIsSound(work[p], wording)
      BY <1>sound
    <3> HIDE DEF j
    <3> QED
      BY <2>1, <3>1, <3>2, <3>3 DEF FillerIsSound, FillerJob
  <2> HIDE DEF j
  <2> QED
    BY <2>2, <2>3, <1>kinds, StepKeepsJobs, NoNodeTouched
<1>10. ASSUME NEW p \in Filler, NEW n \in Card, EmbedCopy(p, n)
       PROVE  VectorsInv'
  <2> DEFINE j == [step |-> "fill", left |-> work[p].left \ {n}, copy |-> work[p].copy,
                   missed |-> work[p].missed, card |-> n]
  <2>1. /\ work[p].step = "pass" /\ n \in work[p].left
        /\ work[p] \in [step : {"pass"}, left : SUBSET Card, copy : [Card -> Texts],
                        missed : SUBSET Card]
    BY <1>10, <1>sound, FillerJobParts DEF EmbedCopy, FillerIsSound
  <2>2. work' = [work EXCEPT ![p] = j] /\ UNCHANGED <<wording, vectorOf, bare, late>>
    BY <1>10 DEF EmbedCopy, VectorsInv
  <2>3. FillerIsSound(j, wording)
    <3>1. j \in [step : {"fill"}, left : SUBSET Card, copy : [Card -> Texts], missed : SUBSET Card,
                 card : Card]
      BY <2>1
    <3>2. /\ j.left = work[p].left \ {n} /\ j.copy = work[p].copy /\ j.missed = work[p].missed
          /\ j.step = "fill" /\ j.card = n
      OBVIOUS
    <3>3. FillerIsSound(work[p], wording)
      BY <1>sound
    <3> HIDE DEF j
    <3> QED
      BY <2>1, <3>1, <3>2, <3>3 DEF FillerIsSound, FillerJob
  <2> HIDE DEF j
  <2> QED
    BY <2>2, <2>3, <1>kinds, StepKeepsJobs, NoNodeTouched
<1>11. ASSUME NEW p \in Filler, FillVector(p)
       PROVE  VectorsInv'
  <2> PICK n : n = work[p].card
    OBVIOUS
  <2> DEFINE j == [step |-> "pass", left |-> work[p].left, copy |-> work[p].copy,
                   missed |-> work[p].missed]
  <2>1. /\ work[p].step = "fill"
        /\ work[p] \in [step : {"fill"}, left : SUBSET Card, copy : [Card -> Texts],
                        missed : SUBSET Card, card : Card]
    BY <1>11, <1>sound, FillerJobParts DEF FillVector, FillerIsSound
  <2>2. /\ work' = [work EXCEPT ![p] = j] /\ wording' = wording
        /\ vectorOf' = [vectorOf EXCEPT ![n] = work[p].copy[n]]
        /\ late' = IF n \in work[p].missed THEN late \union {n} ELSE late \ {n}
        /\ bare' = IF n \in work[p].missed THEN bare ELSE bare \ {n}
    BY <1>11 DEF FillVector, Stores, VectorsInv
  <2>3. FillerIsSound(work[p], wording)
    BY <1>sound
  <2>4. FillerIsSound(j, wording)
    <3>1. j \in [step : {"pass"}, left : SUBSET Card, copy : [Card -> Texts], missed : SUBSET Card]
      BY <2>1
    <3>2. /\ j.left = work[p].left /\ j.copy = work[p].copy /\ j.missed = work[p].missed
          /\ j.step = "pass"
      OBVIOUS
    <3> HIDE DEF j
    <3> QED
      BY <2>1, <2>3, <3>1, <3>2 DEF FillerIsSound, FillerJob
  <2> HIDE DEF j
  <2>5. /\ work' = [q \in Embedder \union Filler |-> work'[q]]
        /\ HeldTextsAreCurrent'
        /\ \A m \in Card : AtWorkOn(m) =>
              AtWorkOn(m)' \/ (p \in Embedder /\ work[p] # AtRest /\ m = work[p].card)
    BY <2>2, <2>4, <1>kinds, StepKeepsJobs
  <2>6. work[p].copy[n] \in Wording
    BY <2>1, <2>3 DEF FillerIsSound, Texts
  <2>7. n \notin work[p].missed => vectorOf'[n] = wording[n]
    BY <2>1, <2>2, <2>3, <1>types DEF FillerIsSound, VectorsTypeOK
  <2>8. Explained(n)'
    BY <2>2, <2>7 DEF Explained
  <2>9. TouchesOnly(n)
    BY <2>1, <2>2, <2>6, <1>types DEF TouchesOnly, VectorsTypeOK
  <2> QED
    BY <2>5, <2>8, <2>9, <1>kinds, RestStaysExplained
<1>12. CASE UNCHANGED vectorsVars
  BY <1>12 DEF vectorsVars, VectorsInv, HeldTextsAreCurrent, VectorsAreExplained, VectorsTypeOK
<1> QED
  BY <1>1, <1>2, <1>3, <1>4, <1>5, <1>6, <1>7, <1>8, <1>9, <1>10, <1>11, <1>12 DEF VectorsNext

\* For every number of nodes, texts, servers and backfills, however their steps
\* interleave and whichever of them fail: a node whose vector is not of the
\* text it has was left by its last writer without one, has an embedder at
\* work, or has the vector of a process that missed a later write (update_node,
\* delete_node, embed_graph_nodes).
THEOREM VectorsExplainedAlways == VectorsSpec => []VectorsAreExplained
<1>1. VectorsInv => VectorsAreExplained
  BY DEF VectorsInv
<1> QED
  BY <1>1, VectorsInvInit, VectorsInvStep, PTL DEF VectorsSpec
=============================================================================
