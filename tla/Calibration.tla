---------------------------- MODULE Calibration -----------------------------
(***************************************************************************)
(* How sure an edge must be: the thresholds suggest_connections judges its *)
(* scores by (verify/ledger_calibration.py, verify/edge_calibration.py),   *)
(* the cache each MCP server keeps of them (mcp/grounding.py), and the     *)
(* gates of verify/edge_rollout.py.                                        *)
(*                                                                         *)
(* There is one graph id, and a graph of that id in each store: the cache  *)
(* is by graph id alone.  The servers of one workspace share the ledger of *)
(* its store: of it, calibration reads the latest row of each edge.  A     *)
(* tool call is one step, as a server answers one call at a time and what  *)
(* others append while it calibrates counts as appended after.  Deleting   *)
(* an edge changes neither ledger nor caches; nor does a side write of     *)
(* add_edge that fails.  Weights and scores are in hundredths, thresholds  *)
(* in half hundredths; rates are compared without their rounding to four   *)
(* digits.                                                                 *)
(***************************************************************************)
EXTENDS Integers, FiniteSets

CONSTANTS
    Agent,        \* the MCP servers
    AtRoot,       \* those started in the root of the repository
    Store,        \* the stores of the workspaces
    Home,         \* the store each server opens when it starts
    Claim,        \* ids of edges
    Held,         \* of each store, the edges of its graph
    ClaimLabel,   \* the relationship each states
    Sensitive,    \* edges of ownership that touch a role
    Vocabulary,   \* the relationships (RelationshipType)
    GoldSeed,     \* the gold set of the repository
    NoLabel,      \* label of a row that has none
    Unweighted,   \* weight of a row that has none
    Weights,      \* what add_edge may be given for a weight
    Ruling,       \* what a script may append: [weight, outcome]
    Guess,        \* what may be suggested: [label, score]
    DEFAULT_THRESHOLD,
    MIN_EXAMPLES_PER_TYPE, MIN_HAND_LABELED_PER_TYPE, MIN_HAND_LABELED_TOTAL,
    GROUNDING_EXAMPLES,
    MaxTurns      \* bound: rows appended, graphs created anew, stores swapped

Outcomes == {"valid", "invalid", "abstain"}

\* What _parse_gold_line lets pass: no generated record, for one.
IsGoldLine(r) ==
    /\ r.label \in Vocabulary /\ r.weight \in 0 .. 100
    /\ r.verdict \in Outcomes /\ r.provenance \in {"seed", "hand_labeled"}

ASSUME CalibrationAssumption ==
    /\ AtRoot \subseteq Agent /\ Sensitive \subseteq Claim
    /\ Home \in [Agent -> Store] /\ Held \in [Store -> SUBSET Claim]
    /\ \A r \in GoldSeed : r.id \notin Claim
    /\ NoLabel \notin Vocabulary /\ Unweighted \notin Nat
    /\ \A r \in GoldSeed : IsGoldLine(r)
    /\ Weights \subseteq (0 .. 100) \union {Unweighted}
    /\ \A j \in Ruling :
          j.weight \in 0 .. 100 /\ j.outcome \in {"confirmed", "invalidated", "abstain"}

VARIABLES
    latest,       \* of each store, the latest row of each edge in the ledger
    at,           \* the store each server has open
    cached,       \* _per_graph_calibration_cache of each server
    outdated,     \* history: servers whose cache is not of the rows they have now
    advice,       \* what the last call answered
    turns

calibrationVars == <<latest, at, cached, outdated, advice, turns>>

NoRow == [status |-> "none"]
Unbuilt == [built |-> FALSE]
Silence == [tool |-> "none"]

CalibrationInit ==
    /\ latest = [s \in Store |-> [c \in Claim |-> NoRow]]
    /\ at = Home
    /\ cached = [a \in Agent |-> Unbuilt]
    /\ outdated = {}
    /\ advice = Silence
    /\ turns = 0

-----------------------------------------------------------------------------
\* Gold records: of the ledger, the verdicts; label and weight are those of
\* the verdict's own row.
GoldVerdict == [confirmed |-> "valid", invalidated |-> "invalid", abstain |-> "abstain"]
Judged(rows) == {c \in Claim : rows[c].status \in DOMAIN GoldVerdict}

GoldRecord(c, row) ==
    [id |-> c, label |-> row.label,
     weight |-> IF row.weight = Unweighted THEN 0 ELSE row.weight,
     verdict |-> GoldVerdict[row.status], provenance |-> row.provenance]

LedgerToGold(rows) == {GoldRecord(c, rows[c]) : c \in Judged(rows)}

Labeled(records, label) == {r \in records : r.label = label}
With(records, verdict) == {r \in records : r.verdict = verdict}
SparseLabels(records) ==
    {l \in Vocabulary : Cardinality(Labeled(records, l)) < MIN_EXAMPLES_PER_TYPE}

\* Relationships with too few verdicts take the seed beside them.
MergeGlobalSeed(records) ==
    LET sparse == SparseLabels(records)
    IN  records \union {r \in GoldSeed : r.label \in sparse}

\* A class without a valid or without an invalid example is an error.
OneSided(records) == With(records, "valid") = {} \/ With(records, "invalid") = {}
Labels(records) == {r.label : r \in records}
CanCalibrate(records) == \A l \in Labels(records) : ~OneSided(Labeled(records, l))

Lightest(records) == CHOOSE w \in {r.weight : r \in records} : \A r \in records : w <= r.weight
Heaviest(records) == CHOOSE w \in {r.weight : r \in records} : \A r \in records : w >= r.weight

\* _predict, for a weight.
Predict(weight, band) ==
    IF 2 * weight >= band.accept THEN "valid"
    ELSE IF 2 * weight <= band.reject THEN "invalid" ELSE "abstain"

\* Between the heaviest invalid and the lightest valid example one abstains;
\* where they overlap, within a hundredth of the middle.
Band(records) ==
    LET reject == Heaviest(With(records, "invalid"))
        accept == Lightest(With(records, "valid"))
    IN  IF reject >= accept
        THEN [reject |-> reject + accept - 2, accept |-> reject + accept + 2]
        ELSE [reject |-> 2 * reject, accept |-> 2 * accept]

ConfusionMatrix(records, band) ==
    [actual \in Outcomes |-> [predicted \in Outcomes |->
        Cardinality({r \in With(records, actual) : Predict(r.weight, band) = predicted})]]

CalibrateClass(records) ==
    [band |-> Band(records), examples |-> Cardinality(records),
     matrix |-> ConfusionMatrix(records, Band(records))]

CalibrateEdges(records) ==
    [built |-> TRUE,
     classes |-> [l \in Labels(records) |-> CalibrateClass(Labeled(records, l))],
     seeds |-> Cardinality({r \in records : r.provenance = "seed"})]

\* calibrate_from_ledger; the seed is read only when some label is sparse.
LedgerRecords(rows) == MergeGlobalSeed(LedgerToGold(rows))
CalibrateFromLedger(rows) == CalibrateEdges(LedgerRecords(rows))

-----------------------------------------------------------------------------
\* evaluate_rollout_gates: the gates a calibration fails.  Callers in the
\* program give no second run and no reviewed abstentions.
True(m, actual) == m[actual]["valid"] + m[actual]["invalid"] + m[actual]["abstain"]
AtLeastOne(n) == IF n = 0 THEN 1 ELSE n

ClassFailures(class) ==
    LET m == class.matrix
        falseValid == m["invalid"]["valid"] + m["abstain"]["valid"]
        trueValid == m["valid"]["valid"]
        Fails(reason, condition) == IF condition THEN {reason} ELSE {}
    IN  UNION {
            Fails("insufficient_examples_per_type", class.examples < MIN_EXAMPLES_PER_TYPE),
            Fails("below_precision", 100 * trueValid < 85 * AtLeastOne(trueValid + falseValid)),
            Fails("below_recall", 100 * trueValid < 70 * AtLeastOne(True(m, "valid"))),
            Fails("above_false_positive", 100 * falseValid > 15 * AtLeastOne(True(m, "invalid"))),
            Fails("above_false_negative",
                  100 * m["valid"]["invalid"] > 30 * AtLeastOne(True(m, "valid"))),
            Fails("abstain_band_too_wide", class.band.accept - class.band.reject > 100)}

GateFailures(report, records, runs, reviewed) ==
    LET From(p) == {r \in records : r.provenance = p}
        Fails(reason, condition) == IF condition THEN {reason} ELSE {}
    IN  UNION {
            Fails("seed_only_baseline", From("seed") # {} /\ From("hand_labeled") = {}),
            Fails("generated_records_present", From("generated") # {}),
            Fails("insufficient_hand_labeled",
                  \/ Cardinality(From("hand_labeled")) < MIN_HAND_LABELED_TOTAL
                  \/ \E l \in Vocabulary :
                        Cardinality(Labeled(From("hand_labeled"), l)) < MIN_HAND_LABELED_PER_TYPE),
            Fails("missing_class_metrics", ~(Vocabulary \subseteq DOMAIN report.classes)),
            Fails("consecutive_runs_insufficient", runs < 2),
            Fails("human_abstain_review_insufficient", reviewed < 20),
            UNION {ClassFailures(report.classes[l]) : l \in DOMAIN report.classes}}

\* load_gold_set refuses a gold set that leaves a relationship bare.
GoldSetIsWhole ==
    \A l \in Vocabulary : Cardinality(Labeled(GoldSeed, l)) >= GROUNDING_EXAMPLES

\* The gold set there is (tests/gold/edge_gold_set.jsonl): whole, of every
\* relationship a valid and an invalid example, and no valid one as light as one
\* that is not valid.
GoldSetIsSeparated ==
    /\ \A l \in Vocabulary : ~OneSided(Labeled(GoldSeed, l))
    /\ \A r, s \in GoldSeed :
          r.label = s.label /\ r.verdict = "valid" /\ s.verdict # "valid" => s.weight < r.weight

\* Whatever is suggested is scored, and add_edge knows the relationship.
ASSUME GoldAssumption ==
    /\ IsFiniteSet(GoldSeed) /\ IsFiniteSet(Claim)
    /\ MIN_EXAMPLES_PER_TYPE \in Nat \ {0} /\ GROUNDING_EXAMPLES \in Nat \ 0 .. 2
    /\ GoldSetIsWhole /\ GoldSetIsSeparated
    /\ ClaimLabel \in [Claim -> Vocabulary]
    /\ \A g \in Guess : g.score \in Nat

-----------------------------------------------------------------------------
IsFlagged(c, w) == c \in Sensitive \/ (w # Unweighted /\ 0 < w /\ w < DEFAULT_THRESHOLD)

\* The ledger a server reads and writes: that of the store it has open.
LedgerOf(a) == latest[at[a]]

Turn == turns < MaxTurns /\ turns' = turns + 1

Appends(s, c, row) == Turn /\ latest' = [latest EXCEPT ![s][c] = row]

\* The servers that answer about a store from a cache.
Readers(s) == {b \in Agent : at[b] = s /\ cached[b] # Unbuilt}

\* Mutant of Evicts: a new row leaves the cache.
EvictsNothing(a) == cached' = cached

Evicts(a) == cached' = [cached EXCEPT ![a] = Unbuilt]

\* A server that appends evicts its own cache; the others keep theirs.
EvictsItsOwn(a) ==
    /\ Evicts(a)
    /\ outdated' = (outdated \union Readers(at[a])) \ {a}
    /\ advice' = Silence
    /\ UNCHANGED at

\* add_edge: the seed row.
RecordEdge(a, c, w) ==
    /\ Appends(at[a], c, [status |-> IF IsFlagged(c, w) THEN "needs-confirmation" ELSE "inferred",
                          label |-> ClaimLabel[c], weight |-> w, provenance |-> "seed"])
    /\ EvictsItsOwn(a)

\* resolve_confirmation: the verdict's row names neither label nor weight.
ResolveClaim(a, c, outcome) ==
    /\ LedgerOf(a)[c].status = "needs-confirmation"
    /\ Appends(at[a], c, [status |-> outcome, label |-> NoLabel, weight |-> Unweighted,
                          provenance |-> "hand_labeled"])
    /\ EvictsItsOwn(a)

ResolveNothing(a, c) ==
    /\ LedgerOf(a)[c].status # "needs-confirmation"
    /\ advice' = [tool |-> "resolve", failed |-> TRUE]
    /\ UNCHANGED <<latest, at, cached, outdated, turns>>

\* No server appends: a script does with the store's append_ledger, a verdict
\* with label and weight, and no cache is evicted; or the graph is deleted, its
\* ledger with it, and created anew under its id.
AppendRow(s, c, j) ==
    /\ Appends(s, c, [status |-> j.outcome, label |-> ClaimLabel[c], weight |-> j.weight,
                      provenance |-> "seed"])
    /\ outdated' = outdated \union Readers(s)
    /\ advice' = Silence
    /\ UNCHANGED <<at, cached>>

RecreateGraph(s) ==
    /\ Turn
    /\ latest' = [latest EXCEPT ![s] = [c \in Claim |-> NoRow]]
    /\ outdated' = outdated \union Readers(s)
    /\ advice' = Silence
    /\ UNCHANGED <<at, cached>>

\* open_workspace: another store, the same cache.
SwapStore(a, s) ==
    /\ Turn
    /\ s # at[a]
    /\ at' = [at EXCEPT ![a] = s]
    /\ outdated' = IF cached[a] = Unbuilt THEN outdated ELSE outdated \union {a}
    /\ advice' = Silence
    /\ UNCHANGED <<latest, cached>>

\* suggest_connections: the cached thresholds, or new ones.
Advise(report, guess) ==
    IF guess.label \in DOMAIN report.classes
    THEN Predict(guess.score, report.classes[guess.label].band)
    ELSE "abstain"

SuggestByCache(a, guess) ==
    /\ cached[a] # Unbuilt
    /\ advice' = [tool |-> "suggest", by |-> a, failed |-> FALSE, guess |-> guess,
                  verdict |-> Advise(cached[a], guess)]
    /\ UNCHANGED <<latest, at, cached, outdated, turns>>

SuggestAnew(a, guess) ==
    /\ cached[a] = Unbuilt
    /\ IF CanCalibrate(LedgerRecords(LedgerOf(a)))
       THEN LET report == CalibrateFromLedger(LedgerOf(a))
            IN  /\ cached' = [cached EXCEPT ![a] = report]
                /\ advice' = [tool |-> "suggest", by |-> a, failed |-> FALSE, guess |-> guess,
                              verdict |-> Advise(report, guess)]
       ELSE /\ advice' = [tool |-> "suggest", by |-> a, failed |-> TRUE]
            /\ UNCHANGED cached
    /\ UNCHANGED <<latest, at, outdated, turns>>

\* assess_currency: calibrates each time, from a path relative to the
\* directory the server was started in; open mode reports thin classes.
Thin(report) == {l \in DOMAIN report.classes : report.classes[l].examples < 3}
AssessCalibration(a) ==
    /\ advice' =
        IF /\ a \in AtRoot \/ SparseLabels(LedgerToGold(LedgerOf(a))) = {}
           /\ CanCalibrate(LedgerRecords(LedgerOf(a)))
        THEN [tool |-> "assess", by |-> a, failed |-> FALSE,
              gaps |-> Thin(CalibrateFromLedger(LedgerOf(a)))]
        ELSE [tool |-> "assess", by |-> a, failed |-> TRUE]
    /\ UNCHANGED <<latest, at, cached, outdated, turns>>

SeedReport == CalibrateEdges(GoldSeed)
SeedFailures == GateFailures(SeedReport, GoldSeed, 1, 0)

\* build_calibration_grounding: thresholds and status of the seed alone,
\* cached per process too, to no effect as the seed does not change.
Ground(a) ==
    /\ advice' =
        IF GoldSetIsWhole /\ CanCalibrate(GoldSeed)
        THEN [tool |-> "ground", failed |-> FALSE, failures |-> SeedFailures,
              bands |-> [l \in DOMAIN SeedReport.classes |-> SeedReport.classes[l].band]]
        ELSE [tool |-> "ground", failed |-> TRUE]
    /\ UNCHANGED <<latest, at, cached, outdated, turns>>

RestartAgent(a) ==
    /\ at' = [at EXCEPT ![a] = Home[a]]
    /\ Evicts(a)
    /\ outdated' = outdated \ {a}
    /\ advice' = Silence
    /\ UNCHANGED <<latest, turns>>

CalibrationNext ==
    \/ \E a \in Agent :
        \/ \E c \in Held[at[a]] :
            \/ \E w \in Weights : RecordEdge(a, c, w)
            \/ \E outcome \in DOMAIN GoldVerdict : ResolveClaim(a, c, outcome)
            \/ ResolveNothing(a, c)
        \/ \E guess \in Guess : SuggestByCache(a, guess) \/ SuggestAnew(a, guess)
        \/ AssessCalibration(a)
        \/ Ground(a)
        \/ \E s \in Store : SwapStore(a, s)
        \/ RestartAgent(a)
    \/ \E s \in Store :
        \/ \E c \in Held[s], j \in Ruling : AppendRow(s, c, j)
        \/ RecreateGraph(s)

CalibrationSpec == CalibrationInit /\ [][CalibrationNext]_calibrationVars
-----------------------------------------------------------------------------
\* A cache built before its server changed the store, before the graph was
\* deleted, or before somebody else appended a row is out of date; every other
\* one has the thresholds that the ledger of its server's store gives now.
CachesAreCurrent ==
    \A a \in Agent : cached[a] # Unbuilt /\ a \notin outdated =>
        CanCalibrate(LedgerRecords(LedgerOf(a))) /\ cached[a] = CalibrateFromLedger(LedgerOf(a))

\* Between the thresholds of a class lies a gap, and its confusion matrix
\* counts each of its records once.
ClassesAreSound ==
    \A a \in Agent : cached[a] # Unbuilt =>
        \A l \in DOMAIN cached[a].classes :
            LET class == cached[a].classes[l]
            IN  /\ class.band.reject < class.band.accept
                /\ class.examples = True(class.matrix, "valid") + True(class.matrix, "invalid")
                                      + True(class.matrix, "abstain")

\* The verdicts of a ledger on a relationship, or those that name none.
VerdictsOn(rows, l) == Labeled(LedgerToGold(rows), l)

\* Too few verdicts to stand alone, and each as the gold set would have it.
AgreeWithGold(records, l) ==
    /\ Cardinality(records) < MIN_EXAMPLES_PER_TYPE
    /\ \A r \in records : r.verdict # "abstain" =>
          Predict(r.weight, SeedReport.classes[l].band) = r.verdict

\* A relationship with enough verdicts is judged by these and by no line of the
\* gold set; one with few, or none, is judged as the grounding of the agents
\* says unless one of them speaks against it.  No accepted score is then one of
\* an invalid example or below, no rejected one of a valid example or above.
ExamplesRule ==
    /\ \A a \in Agent : cached[a] # Unbuilt /\ a \notin outdated =>
        \A l \in Vocabulary :
            LET verdicts == VerdictsOn(LedgerOf(a), l)
            IN  /\ Cardinality(verdicts) >= MIN_EXAMPLES_PER_TYPE =>
                      cached[a].classes[l] = CalibrateClass(verdicts)
                /\ AgreeWithGold(verdicts, l) =>
                      cached[a].classes[l].band = SeedReport.classes[l].band
    /\ /\ advice.tool = "suggest" /\ ~advice.failed /\ advice.by \notin outdated
       /\ advice.guess.label \in Vocabulary
       /\ AgreeWithGold(VerdictsOn(LedgerOf(advice.by), advice.guess.label), advice.guess.label)
       => \A r \in Labeled(GoldSeed, advice.guess.label) :
            /\ r.verdict = "invalid" /\ advice.guess.score <= r.weight => advice.verdict = "invalid"
            /\ r.verdict = "valid" /\ advice.guess.score >= r.weight => advice.verdict = "valid"

\* Verdicts that cannot be calibrated: among those that name no relationship, or
\* those that are enough for theirs, is no confirmation or no invalidation.
VerdictsAreOneSided(rows) ==
    \E l \in Vocabulary \union {NoLabel} :
        /\ VerdictsOn(rows, l) # {} /\ OneSided(VerdictsOn(rows, l))
        /\ l # NoLabel => Cardinality(VerdictsOn(rows, l)) >= MIN_EXAMPLES_PER_TYPE

\* A suggestion fails only over such verdicts; an assessment also where the gold
\* set is not found; and a thin class that is reported is one of two verdicts.
FailuresAreExplained ==
    /\ advice.tool = "suggest" /\ advice.failed => VerdictsAreOneSided(LedgerOf(advice.by))
    /\ advice.tool = "assess" =>
        IF advice.failed
        THEN advice.by \notin AtRoot \/ VerdictsAreOneSided(LedgerOf(advice.by))
        ELSE \A l \in advice.gaps : Cardinality(VerdictsOn(LedgerOf(advice.by), l)) = 2

\* The grounding is there for every agent and never says that the judge is
\* ready, though the gold set itself is judged without a miss.
GroundingIsAdvisory ==
    advice.tool = "ground" =>
        /\ ~advice.failed /\ advice.failures # {}
        /\ advice.failures \cap {"below_precision", "below_recall", "above_false_positive",
                                 "above_false_negative", "missing_class_metrics"} = {}

\* The thresholds an agent is advised by are those its ledger and gold set
\* give, and where there are none the verdicts say why.
CalibrationIsSound ==
    /\ CachesAreCurrent
    /\ ClassesAreSound
    /\ ExamplesRule
    /\ FailuresAreExplained
    /\ GroundingIsAdvisory

\* What brain_ds/verify/ledger_calibration.py:106 promises, "Calibrate from
\* per-graph ledger rows with sparse-label seed fallback": however few
\* verdicts there are, a suggestion has thresholds to be judged by.
SuggestionsAreAnswered == advice.tool = "suggest" => ~advice.failed
=============================================================================
