------------------------------ MODULE Dossier ------------------------------
(***************************************************************************)
(* What is known of where a KPI comes from, and how fresh it is: the       *)
(* hierarchy of data sources, containers and fields (mcp/tools.py          *)
(* update_node and its checks), the lineage edges with their verdicts, the *)
(* KPI dossier (dossier/assembler.py) and the currency assessment          *)
(* (currency/).                                                            *)
(*                                                                         *)
(* Two processes write nodes, each checking what it has read before it     *)
(* writes; others delete nodes, add, drop and judge edges.  Links, their   *)
(* ids and their verdicts are those of Ledger, one step each here.         *)
(***************************************************************************)
EXTENDS Naturals, Sequences, FiniteSets, Ordering

CONSTANTS
    Writer,       \* processes that call update_node
    Thing,        \* ids of nodes, in the order ids sort
    Draft,        \* what a call writes: [id, type, parent, fit, ranked, baseline]
    Lineage,      \* edges there may be: [id, source, target, label]
    StartNodes,   \* the graph it begins with
    Window,       \* days a node of each type stays current
    TypeWeight,   \* weight of each type, in twentieths
    Hollow,       \* nodes without grounding
    Keep,         \* a field a call does not mention
    NoThing,      \* no parent
    KPI_DOSSIER_NODE_BUDGET, TOP_N,
    MaxDays, MaxCalls     \* bounds: days, calls that write

Types == {"KPI", "DataSource", "DataContainer", "DataField", "Actor", "Process", "Other"}

ASSUME DossierAssumption ==
    /\ Thing \subseteq Nat /\ IsFiniteSet(Thing) /\ NoThing \notin Thing
    /\ IsFiniteSet(Lineage)
    /\ \A l \in Lineage : l.source \in Thing /\ l.target \in Thing
    /\ Keep \notin Nat /\ TOP_N \in Nat
    /\ DOMAIN StartNodes \subseteq Thing
    /\ \A n \in DOMAIN StartNodes :
          /\ StartNodes[n].type \in Types /\ StartNodes[n].modified = 0
          /\ StartNodes[n].baseline \in {Keep, 0}
    /\ \A d \in Draft : d.id \in Thing /\ d.type \in Types \union {Keep}
    /\ Window \in [Types -> Nat] /\ TypeWeight \in [Types -> 0 .. 20]

VARIABLES
    node,        \* the rows: [type, parent, ranked, created, modified, baseline, fit]
    link,        \* ids of the edges there are
    verdictOf,   \* latest ledger status of each edge id
    checked,     \* the draft each process has checked and not yet written
    today,
    report,      \* the last answer
    vouched,     \* history: edges confirmed since they were last added
    inherited,   \* history: edges added without a ledger row of their own
    calls

dossierVars == <<node, link, verdictOf, checked, today, report, vouched, inherited,
                 calls>>

NoDraft == [id |-> NoThing]
NoReport == [tool |-> "none"]

IsInternal(type) == type \in {"DataContainer", "DataField"}
SupportedSupertypes == {"KPI", "DataSource", "DataContainer", "DataField", "Actor", "Process"}

-----------------------------------------------------------------------------
\* The hierarchy.

Parent(rows, n) == IF n \in DOMAIN rows THEN rows[n].parent ELSE NoThing

\* n, its parent and so on, NoThing from where there is none.  The code stops
\* where a node comes again; whoever goes round meets nobody new.
Climb(rows, n) ==
    LET up[k \in 0 .. Cardinality(Thing)] == IF k = 0 THEN n ELSE Parent(rows, up[k - 1])
    IN  up

\* The first Data Source on the way up, or none.
DataSourceAncestor(rows, n) ==
    LET path == Climb(rows, n)
        sources == {k \in DOMAIN path :
                       path[k] \in DOMAIN rows /\ rows[path[k]].type = "DataSource"}
    IN  IF sources = {} THEN NoThing
        ELSE path[CHOOSE k \in sources : \A j \in sources : k <= j]

DescendsFrom(rows, n, source) ==
    LET path == Climb(rows, n) IN \E k \in DOMAIN path : path[k] = source

Field(d, name, old) == IF d[name] # Keep THEN d[name] ELSE old

\* An internal node needs a kind, a depth, a parent, and a Data Source above
\* it; nothing is asked of other nodes, the ones above internal nodes included.
IsValid(rows, d) ==
    LET known == d.id \in DOMAIN rows
        type == Field(d, "type", IF known THEN rows[d.id].type ELSE "Other")
        parent == Field(d, "parent", Parent(rows, d.id))
        fit == Field(d, "fit", known /\ rows[d.id].fit)
        with == [m \in DOMAIN rows \union {d.id} |->
                    IF m # d.id THEN rows[m]
                    ELSE [type |-> type, parent |-> parent]]
    IN  IsInternal(type) => fit /\ parent # NoThing /\ DataSourceAncestor(with, parent) # NoThing

Children(rows, n) == {m \in DOMAIN rows : rows[m].parent = n}

\* The subtree below a source, of internal nodes only, as parent and child.
InternalSubtree(rows, source) ==
    LET inside == {m \in DOMAIN rows : IsInternal(rows[m].type) /\ DescendsFrom(rows, m, source)}
        Below(level) == {m \in inside : rows[m].parent \in level}
        reached[k \in 0 .. Cardinality(Thing)] ==
            IF k = 0 THEN Below({source})
            ELSE LET level == reached[k - 1] IN level \union Below(level)
    IN  {<<rows[m].parent, m>> : m \in reached[Cardinality(Thing)]}

-----------------------------------------------------------------------------
\* Lineage.

Links == {l \in Lineage : l.id \in link}
MeasuredFrom(k) == {l \in Links : l.source = k /\ l.label = "measured-from"}
TypeOfNode(n) == IF n \in DOMAIN node THEN node[n].type ELSE "none"

\* Mutant: what is not invalidated counts as confirmed.
TargetsNotInvalidated(k, type) ==
    {l.target : l \in {m \in MeasuredFrom(k) : TypeOfNode(m.target) = type
                                               /\ verdictOf[m.id] # "invalidated"}}

ConfirmedTargets(k, type) ==
    {l.target : l \in {m \in MeasuredFrom(k) : TypeOfNode(m.target) = type
                                               /\ verdictOf[m.id] = "confirmed"}}

Adjacent(n) == {l.target : l \in {m \in Links : m.source = n}}
                  \union {l.source : l \in {m \in Links : m.target = n}}

\* Two steps away, by edges in either direction; a node written without a
\* supertype does not count, though what lies behind it does.
Reachable(k) ==
    LET one == {k} \union Adjacent(k)
        two == one \union UNION {Adjacent(n) : n \in one}
    IN  {n \in two \intersect DOMAIN node :
            node[n].ranked /\ node[n].type \in SupportedSupertypes}

DossierSources(k) ==
    {n \in Reachable(k) : node[n].type = "DataSource"}
        \union ({DataSourceAncestor(node, c) :
                    c \in ConfirmedTargets(k, "DataContainer") \union ConfirmedTargets(k, "DataField")}
                 \ {NoThing})

\* Edges to judge, whatever their verdict but "confirmed", and containers of the
\* sources that no confirmed edge leads to.
UnconfirmedLineage(k) ==
    {[from |-> k, to |-> l.target, candidate |-> l.id] :
        l \in {m \in MeasuredFrom(k) : IsInternal(TypeOfNode(m.target))
                                       /\ verdictOf[m.id] # "confirmed"}}
    \union
    {[from |-> k, to |-> c, candidate |-> "hierarchy"] :
        c \in {n \in DOMAIN node : /\ node[n].type = "DataContainer"
                                   /\ node[n].parent \in DossierSources(k)
                                   /\ n \notin ConfirmedTargets(k, "DataContainer")}}

\* Pending confirmations, the edges of which may be gone, ...
PendingConfirmations == {l \in Lineage : verdictOf[l.id] = "needs-confirmation"}

\* ... and those about the KPI.
PendingLineage(k) ==
    {[from |-> k, to |-> l.target, candidate |-> l.id] :
        l \in {m \in PendingConfirmations : m.source = k /\ m.label = "measured-from"}}

\* A confirmed field shows below its container if that one is confirmed too.
DossierContainers(k, s) ==
    [c \in {n \in ConfirmedTargets(k, "DataContainer") : DataSourceAncestor(node, n) = s} |->
        {f \in ConfirmedTargets(k, "DataField") : node[f].parent = c}]

HasAnyLabel(k, label) == \E l \in Links : l.source = k /\ l.label = label

HasProcessEdge(k) ==
    \E l \in Links : l.source = k /\ l.label = "depends-on" /\ TypeOfNode(l.target) = "Process"

\* What the assessment says of currency is read under a name it does not use.
KpiDossier(k) ==
    [sources |-> [s \in DossierSources(k) |-> DossierContainers(k, s)],
     actors |-> {n \in Reachable(k) : node[n].type = "Actor"},
     processes |-> {n \in Reachable(k) : node[n].type = "Process"},
     unconfirmed |-> UnconfirmedLineage(k) \union PendingLineage(k),
     unmapped |-> {s \in DossierSources(k) : DOMAIN DossierContainers(k, s) = {}},
     missingOwnership |-> ~HasAnyLabel(k, "owned-by"),
     missingProcess |-> ~HasProcessEdge(k),
     currency |-> {}, truncated |-> FALSE]

EmptyDossier ==
    [sources |-> [s \in {} |-> {}], actors |-> {}, processes |-> {}, unconfirmed |-> {},
     unmapped |-> {}, missingOwnership |-> FALSE, missingProcess |-> FALSE,
     currency |-> {}, truncated |-> TRUE]

-----------------------------------------------------------------------------
\* Currency.

\* No tool writes a ledger row about a node; rows about its edges do not count.
CurrencyEvidence(n) == [documented |-> node[n].baseline, modified |-> node[n].modified]

\* The day its schema was documented counts, if it says so, and else the day of
\* its last write.
LastSeen(n) ==
    LET seen == CurrencyEvidence(n)
    IN  IF seen.documented # Keep THEN seen.documented ELSE seen.modified

Age(n) == today - LastSeen(n)
ClassifyStaleness(n) == IF Age(n) > Window[node[n].type] THEN "stale" ELSE "current"

\* Of 300: 25 for a neighbour up to 15, 30 for an edge towards it up to 10, the
\* weight of its edges taken as whole, and its type.
CriticalityScore(n) ==
    5 * Cardinality(Adjacent(n)) + 6 * Cardinality({l \in Links : l.target = n})
        + (IF \E l \in Links : n \in {l.source, l.target} THEN 60 ELSE 0)
        + 3 * TypeWeight[node[n].type]

\* Older than 60 days counts for more; no shorter window does.
StalenessFactor(n) == IF Age(n) > 60 THEN Age(n) ELSE 60
Priority(n) == StalenessFactor(n) * CriticalityScore(n)

ScopedNodes(scope) ==
    IF scope = NoThing THEN DOMAIN node ELSE ({scope} \union Adjacent(scope)) \intersect DOMAIN node

\* Internal nodes are never found to be without grounding.
Underspecified(n) == n \in Hollow /\ ~IsInternal(node[n].type)

IsGap(n) == ClassifyStaleness(n) = "stale" \/ Underspecified(n)

\* The most pressing gaps first, TOP_N of them; what no node is about, a type
\* that is missing for one, comes last.
RankedGaps(nodes) ==
    LET gaps == {n \in nodes : IsGap(n)}
        Before(m, n) == Priority(m) > Priority(n) \/ (Priority(m) = Priority(n) /\ m < n)
        ranked == Sorted(gaps, Before)
    IN  SubSeq(ranked, 1, IF TOP_N < Len(ranked) THEN TOP_N ELSE Len(ranked))

-----------------------------------------------------------------------------
\* There is no lineage yet, or all of it and nobody has judged it.
DossierInit ==
    /\ node = StartNodes
    /\ link \in {{}, {l.id : l \in Lineage}}
    /\ verdictOf = [i \in {l.id : l \in Lineage} |->
                       IF i \in link THEN "needs-confirmation" ELSE "none"]
    /\ checked = [p \in Writer |-> NoDraft]
    /\ today = 0
    /\ report = NoReport
    /\ vouched = {} /\ inherited = {}
    /\ calls = 0

linkVars == <<link, verdictOf, vouched, inherited>>

Tick ==
    /\ today < MaxDays /\ today' = today + 1
    /\ report' = NoReport
    /\ UNCHANGED <<node, checked, linkVars, calls>>

\* update_node reads the rows and checks the draft against them ...
CheckDraft(p, d) ==
    /\ checked[p] = NoDraft /\ calls < MaxCalls
    /\ calls' = calls + 1
    /\ d.type = Keep => d.id \in DOMAIN node
    /\ checked' = IF IsValid(node, d) THEN [checked EXCEPT ![p] = d] ELSE checked
    /\ report' = NoReport
    /\ UNCHANGED <<node, today, linkVars>>

\* ... and writes it on the row as it is then; a row that is gone is made anew,
\* which fails without a type.
UpsertDraft(p) ==
    LET d == checked[p]
        known == d.id \in DOMAIN node
        old == IF known THEN node[d.id]
               ELSE [type |-> "Other", parent |-> NoThing, ranked |-> FALSE, fit |-> FALSE,
                     created |-> today, modified |-> today, baseline |-> Keep]
        row == [type |-> Field(d, "type", old.type),
                parent |-> Field(d, "parent", old.parent),
                ranked |-> Field(d, "ranked", old.ranked),
                fit |-> Field(d, "fit", old.fit),
                created |-> old.created, modified |-> today,
                baseline |-> IF d.baseline THEN today ELSE old.baseline]
    IN  /\ d # NoDraft
        /\ node' = IF ~known /\ d.type = Keep THEN node
                   ELSE [m \in DOMAIN node \union {d.id} |-> IF m = d.id THEN row ELSE node[m]]
        /\ checked' = [checked EXCEPT ![p] = NoDraft]
        /\ report' = NoReport
        /\ UNCHANGED <<today, linkVars, calls>>

\* Children and edges stay.
DeleteNode(n) ==
    /\ n \in DOMAIN node /\ calls < MaxCalls
    /\ calls' = calls + 1
    /\ node' = [m \in DOMAIN node \ {n} |-> node[m]]
    /\ report' = NoReport
    /\ UNCHANGED <<checked, today, linkVars>>

LinkWrite ==
    /\ calls < MaxCalls /\ calls' = calls + 1
    /\ report' = NoReport
    /\ UNCHANGED <<node, checked, today>>

\* Over MCP an edge gets a ledger row; over HTTP, or if that write fails, none.
AddLink(l, status) ==
    /\ LinkWrite
    /\ l.id \notin link
    /\ link' = link \union {l.id}
    /\ vouched' = vouched \ {l.id}
    /\ IF status = "no row"
       THEN /\ inherited' = inherited \union {l.id}
            /\ UNCHANGED verdictOf
       ELSE /\ verdictOf' = [verdictOf EXCEPT ![l.id] = status]
            /\ inherited' = inherited \ {l.id}

\* Its ledger rows stay.
DropLink(l) ==
    /\ LinkWrite
    /\ l.id \in link
    /\ link' = link \ {l.id}
    /\ UNCHANGED <<verdictOf, vouched, inherited>>

\* resolve_confirmation answers what is pending, on an edge that may be gone.
Judge(l, status) ==
    /\ LinkWrite
    /\ verdictOf[l.id] = "needs-confirmation"
    /\ verdictOf' = [verdictOf EXCEPT ![l.id] = status]
    /\ vouched' = IF status = "confirmed" /\ l.id \in link THEN vouched \union {l.id} ELSE vouched
    /\ UNCHANGED <<link, inherited>>

\* A question changes nothing, so that one at a time is enough.
Tell(r) ==
    /\ report = NoReport
    /\ report' = r
    /\ UNCHANGED <<node, checked, today, linkVars, calls>>

GetKpiDossier(k) ==
    /\ TypeOfNode(k) = "KPI"
    /\ Tell([tool |-> "dossier", kpi |-> k,
             dossier |-> IF Cardinality(DOMAIN node) > KPI_DOSSIER_NODE_BUDGET
                         THEN EmptyDossier ELSE KpiDossier(k)])

\* Only while its calibration answers: see Calibration.
AssessCurrency(scope) ==
    /\ scope # NoThing => scope \in DOMAIN node
    /\ Tell([tool |-> "currency", nodes |-> ScopedNodes(scope),
             gaps |-> RankedGaps(ScopedNodes(scope))])

InternalBundle(s) ==
    /\ TypeOfNode(s) = "DataSource"
    /\ Tell([tool |-> "internal", source |-> s, tree |-> InternalSubtree(node, s)])

\* Only the direct children, whatever their type.
DocBundle(n) ==
    /\ n \in DOMAIN node
    /\ Tell([tool |-> "documentation", source |-> n, tables |-> Children(node, n)])

\* list_nodes below a source: everything that descends from it.
ListBelow(s) ==
    Tell([tool |-> "list", source |-> s,
          rows |-> {m \in DOMAIN node : DescendsFrom(node, m, s)}])

DossierNext ==
    \/ Tick
    \/ \E p \in Writer, d \in Draft : CheckDraft(p, d)
    \/ \E p \in Writer : UpsertDraft(p)
    \/ \E n \in Thing : DeleteNode(n)
    \/ \E l \in Lineage, s \in {"inferred", "needs-confirmation", "no row"} : AddLink(l, s)
    \/ \E l \in Lineage : DropLink(l)
    \/ \E l \in Lineage, s \in {"confirmed", "invalidated"} : Judge(l, s)
    \/ \E n \in Thing : GetKpiDossier(n) \/ InternalBundle(n) \/ DocBundle(n) \/ ListBelow(n)
    \/ \E n \in Thing \union {NoThing} : AssessCurrency(n)

DossierSpec == DossierInit /\ [][DossierNext]_dossierVars

-----------------------------------------------------------------------------
ShownBelow(s) == DOMAIN report.dossier.sources[s]

\* A dossier shows as lineage what was confirmed of the edge that is there, but
\* for an edge added without a ledger row, which has the verdict of an earlier
\* one with its id; a container shows below one source at most, a field below
\* its own container.
LineageWasConfirmed ==
    report.tool = "dossier" =>
        /\ \A s \in DOMAIN report.dossier.sources : \A c \in ShownBelow(s) :
              \A n \in {c} \union report.dossier.sources[s][c] :
                 \E l \in MeasuredFrom(report.kpi) :
                     l.target = n /\ (l.id \in vouched \/ l.id \in inherited)
        /\ \A s, t \in DOMAIN report.dossier.sources : s # t => ShownBelow(s) \intersect ShownBelow(t) = {}
        /\ \A s \in DOMAIN report.dossier.sources : \A c \in ShownBelow(s) :
              \A f \in report.dossier.sources[s][c] : node[f].parent = c

\* No lineage edge of a dossier goes unmentioned, whatever has become of the
\* hierarchy: its target is shown, or offered for confirmation, unless it is
\* confirmed and its target has lost its source, or is a field whose container
\* is not shown.
LineageIsAccountedFor ==
    report.tool = "dossier" /\ ~report.dossier.truncated =>
        \A l \in MeasuredFrom(report.kpi) :
            IsInternal(TypeOfNode(l.target)) =>
                \/ \E u \in report.dossier.unconfirmed : u.candidate = l.id
                \/ \E s \in DOMAIN report.dossier.sources :
                      \E c \in ShownBelow(s) : l.target = c \/ l.target \in report.dossier.sources[s][c]
                \/ verdictOf[l.id] = "confirmed" /\ DataSourceAncestor(node, l.target) = NoThing
                \/ /\ verdictOf[l.id] = "confirmed" /\ TypeOfNode(l.target) = "DataField"
                   /\ DataSourceAncestor(node, l.target) \in DOMAIN report.dossier.sources
                   /\ \A s \in DOMAIN report.dossier.sources :
                         node[l.target].parent \notin ShownBelow(s)

\* The internal bundle is a tree: every node hangs once, below the source or a
\* node of the bundle, whatever cycles concurrent calls have made; what
\* list_nodes finds below the source and the bundle does not show is not
\* internal, or has a node above it that is not.
SubtreeIsATree ==
    report.tool = "internal" =>
        LET hung == {e[2] : e \in report.tree}
            Between(n) ==
                LET path == Climb(node, n)
                IN  {path[i] : i \in {j \in DOMAIN path :
                        \A k \in 0 .. j : path[k] # report.source}}
        IN  /\ Cardinality(hung) = Cardinality(report.tree)
            /\ \A e \in report.tree : e[1] \in hung \union {report.source}
            /\ hung = {n \in DOMAIN node \ {report.source} :
                         /\ DescendsFrom(node, n, report.source)
                         /\ \A m \in Between(n) : IsInternal(node[m].type)}

\* What an assessment does not report of its nodes has been written or
\* documented within its window, or gives way to more pressing gaps: neither
\* questions nor verdicts about edges make a node fresh.
NothingOldIsCalledCurrent ==
    report.tool = "currency" =>
        \A n \in report.nodes \ {report.gaps[i] : i \in DOMAIN report.gaps} :
            \/ today - node[n].modified <= Window[node[n].type]
            \/ /\ Len(report.gaps) = TOP_N
               /\ \A i \in DOMAIN report.gaps : Priority(report.gaps[i]) >= Priority(n)

DossierIsSound ==
    /\ LineageWasConfirmed /\ LineageIsAccountedFor
    /\ SubtreeIsATree /\ NothingOldIsCalledCurrent
=============================================================================
