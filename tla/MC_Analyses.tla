---------------------------- MODULE MC_Analyses ----------------------------
(***************************************************************************)
(* What the tools tell an agent: about a source, about the graph, about a  *)
(* long list, about a KPI, about how sure to be of an edge, and by which   *)
(* vectors a search goes.  The six share no state of their own, so that a  *)
(* behaviour is about one of them: `topic` says which, and the variables   *)
(* of the others keep one value.                                           *)
(***************************************************************************)
EXTENDS SourceExploration, Retrieval, Paging, Dossier, MC_Calibration, NodeVectors, TLC

CONSTANTS x1, x2, p1, p2, f1, t1, t2

VARIABLE topic

\* A source: a database or spreadsheet of few rows, and one of many.
Column(n, s, ty, v) == [name |-> n, spelled |-> s, type |-> ty, value |-> v]

MC_Target == {x1, x2}
MC_Layout == {<<Column(2, "name", "varchar(9)", "ann"), Column(1, "ID", "bigint", "7")>>,
              <<Column(1, "id", "", "ann"), Column(1, "id", "INTEGER", "2.5")>>}
MC_FoldCase == [t \in Spelling |-> IF t = "Data" THEN "data" ELSE t]
MC_RowCount == [x \in Target |-> IF x = x1 THEN 4 ELSE 250]

\* A graph of four items, and questions about it.
MC_Link == LET L(i, s, t, w) == [id |-> i, source |-> s, target |-> t, weight |-> w]
           IN  {L(1, 1, 2, 5), L(2, 2, 3, 9), L(3, 4, 3, 7)}
MC_Group == {[id |-> 1, anchor |-> 2, members |-> <<3, 4>>, confidence |-> 50],
             [id |-> 2, anchor |-> 0, members |-> <<4, 1>>, confidence |-> 90]}
MC_Question ==
    LET H(n, s) == [id |-> n, score |-> s]
        Asked(focal, lexical, dense, hits, depth, limit) ==
            [focal : focal, asked : {lexical # {<<>>}}, lexical : lexical, dense : dense,
             hits : hits, depth : depth, limit : limit]
    IN  Asked({0, 1}, {<<2, 1>>, <<4, 3, 1>>}, {<<>>, <<H(4, 2), H(2, 1)>>}, {<<0, 0>>}, {2}, {1, 3})
        \union Asked({1}, {<<>>}, {<<>>}, {<<0, 0>>}, {1, 2}, {1, 3})
        \union Asked({0, 1}, {<<2, 1>>}, {<<>>}, {<<1, 0>>, <<2, 1>>}, {1, 2}, {3})
MC_Search == [lexical : {<<>>, <<2, 1>>, <<4, 3, 1>>}, dense : {<<>>, <<1, 2>>, <<4, 1, 2>>}]
MC_Wish ==
    LET D(n, c) == [id |-> n, cosine |-> c]
    IN  {w \in [focus : {1, 3}, embedded : BOOLEAN,
                dense : {<<>>, <<D(4, 70), D(2, 50), D(3, 58)>>},
                threshold : {3300, 2000}, limit : {1, 3}] :
            /\ ~w.embedded => w.dense = <<>>
            /\ w.limit = 1 <=> w.threshold = 3300}
MC_Kinship ==
    LET K(m, l, s, x, e) == [mapped |-> m, label |-> l, shared |-> s, lexical |-> x, evidence |-> e]
    IN  [p \in {{1, 2}, {1, 3}, {1, 4}, {2, 3}, {2, 4}, {3, 4}} |->
            CASE p = {1, 2} -> K(TRUE, "uses", 1, 1, 5)
              [] p = {1, 3} -> K(TRUE, "high-impact", 2, 2, 0)
              [] p = {1, 4} -> K(FALSE, "review-needed", 0, 0, 5)
              [] p = {2, 3} -> K(FALSE, "review-needed", 4, 2, 0)
              [] p = {2, 4} -> K(TRUE, "shared-with", 2, 1, 5)
              [] p = {3, 4} -> K(TRUE, "shared-with", 3, 2, 0)]
MC_Sections == [n \in Item |-> <<3, 5, 4, 0>>[n]]

\* Three edges, two of one label to begin with.
LabelledSo == \A r \in DOMAIN table : r.label = IF r.id = 2 THEN 1 ELSE 2
MC_EdgeBytes == [e \in Edge |-> 2]
MC_Quality == LET Q(w, n) == [weight |-> w, evidence |-> n]
              IN  {Q(5, 2), Q(9, 0), Q(NoWeight, 1)}
MC_Filter == LET F(l, w, h, n) == [label |-> l, minWeight |-> w, hasEvidence |-> h, neighborhood |-> n]
             IN  {F(0, NoWeight, "any", FALSE), F(2, NoWeight, "yes", FALSE),
                  F(0, 6, "no", TRUE)}

\* A KPI, a source with a container and a field; an actor may join them, one
\* node more than a dossier takes.
MC_Draft ==
    LET D(i, t, p, f, r, b) ==
            [id |-> i, type |-> t, parent |-> p, fit |-> f, ranked |-> r, baseline |-> b]
    IN  {D(3, Keep, 4, Keep, Keep, FALSE), D(4, Keep, 3, Keep, Keep, FALSE),
         D(4, "DataField", 3, TRUE, FALSE, FALSE), D(2, "Other", Keep, Keep, Keep, TRUE),
         D(5, "Actor", 2, Keep, TRUE, FALSE), D(3, Keep, 5, TRUE, TRUE, FALSE)}
MC_Lineage == LET E(i, s, t, l) == [id |-> i, source |-> s, target |-> t, label |-> l]
              IN  {E("k-c", 1, 3, "measured-from"), E("k-f", 1, 4, "measured-from"),
                   E("k-r", 1, 5, "owned-by")}
MC_StartNodes ==
    LET Row(t, p) == [type |-> t, parent |-> p, ranked |-> TRUE, fit |-> TRUE,
                      created |-> 0, modified |-> 0, baseline |-> Keep]
    IN  <<Row("KPI", NoThing), Row("DataSource", NoThing), Row("DataContainer", 2),
          Row("DataField", 3)>>
MC_Window == [t \in Types |-> IF t = "DataSource" THEN 0 ELSE 1]
MC_TypeWeight == [t \in Types |-> CASE t = "DataSource" -> 20 [] t = "KPI" -> 18
                                    [] t = "Actor" -> 13 [] OTHER -> 10]

-----------------------------------------------------------------------------
SourceIdle ==
    /\ live = <<>> /\ entry = None /\ record = None /\ inline = None /\ shown = "none"
    /\ source_kind = "none"
    /\ baseline = <<>> /\ documented = FALSE /\ answer = Idle /\ probed = NoTarget
    /\ moved = FALSE /\ docs = <<>> /\ shapes = {} /\ drifts = 0 /\ changes = 0 /\ writes = 0

RetrievalIdle ==
    items = {} /\ links = {} /\ verdict = <<>> /\ standing = <<>> /\ reply = NoReply

PagingIdle ==
    table = <<>> /\ walk = NoWalk /\ entries = {} /\ listing = NoListing /\ edits = 0

DossierIdle ==
    /\ node = <<>> /\ link = {} /\ verdictOf = <<>> /\ checked = <<>> /\ today = 0
    /\ report = NoReport /\ vouched = {} /\ inherited = {} /\ calls = 0

CalibrationIdle == CalibrationInit

VectorsIdle == VectorsInit

\* Verdicts rank edges, the standing of clusters picks anchors: it is enough
\* that one of the two varies.
JudgedOrRouted ==
    (\A l \in DOMAIN verdict : verdict[l] = "none") \/ (\A g \in DOMAIN standing : standing[g] = "proposed")

\* A source that is bound from the start is a plain one to begin with.
PlainOrUnbound ==
    record = None \/ \A i \in DOMAIN live[x1][CsvTable] : live[x1][CsvTable][i].type # ""

AnalysesInit ==
    \/ /\ topic = "source" /\ SourceInit /\ PlainOrUnbound
       /\ RetrievalIdle /\ PagingIdle /\ DossierIdle /\ CalibrationIdle /\ VectorsIdle
    \/ /\ topic = "graph" /\ RetrievalInit /\ JudgedOrRouted
       /\ SourceIdle /\ PagingIdle /\ DossierIdle /\ CalibrationIdle /\ VectorsIdle
    \/ /\ topic = "list" /\ PagingInit /\ LabelledSo
       /\ SourceIdle /\ RetrievalIdle /\ DossierIdle /\ CalibrationIdle /\ VectorsIdle
    \/ /\ topic = "kpi" /\ DossierInit
       /\ SourceIdle /\ RetrievalIdle /\ PagingIdle /\ CalibrationIdle /\ VectorsIdle
    \/ /\ topic = "trust" /\ CalibrationInit
       /\ SourceIdle /\ RetrievalIdle /\ PagingIdle /\ DossierIdle /\ VectorsIdle
    \/ /\ topic = "vectors" /\ VectorsInit
       /\ SourceIdle /\ RetrievalIdle /\ PagingIdle /\ DossierIdle /\ CalibrationIdle

AnalysesNext ==
    /\ \/ topic = "source" /\ SourceNext
          /\ UNCHANGED <<retrievalVars, pagingVars, dossierVars, calibrationVars, vectorsVars>>
       \/ topic = "graph" /\ RetrievalNext
          /\ UNCHANGED <<sourceVars, pagingVars, dossierVars, calibrationVars, vectorsVars>>
       \/ topic = "list" /\ PagingNext
          /\ UNCHANGED <<sourceVars, retrievalVars, dossierVars, calibrationVars, vectorsVars>>
       \/ topic = "kpi" /\ DossierNext
          /\ UNCHANGED <<sourceVars, retrievalVars, pagingVars, calibrationVars, vectorsVars>>
       \/ topic = "trust" /\ CalibrationNext
          /\ UNCHANGED <<sourceVars, retrievalVars, pagingVars, dossierVars, vectorsVars>>
       \/ topic = "vectors" /\ VectorsNext
          /\ UNCHANGED <<sourceVars, retrievalVars, pagingVars, dossierVars, calibrationVars>>
    /\ UNCHANGED topic

AnalysesSpec ==
    AnalysesInit /\ [][AnalysesNext]_<<topic, sourceVars, retrievalVars, pagingVars, dossierVars,
                                      calibrationVars, vectorsVars>>

\* The two writers of nodes do the same.
Writers == Permutations({p1, p2})
=============================================================================
