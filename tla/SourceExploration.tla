------------------------- MODULE SourceExploration -------------------------
(***************************************************************************)
(* Exploring a data source, and deciding whether it has to be documented   *)
(* again (mcp/tools.py explore_source and query_source; the connectors;    *)
(* connectors/change_detection.py; the secret adapters' resolve).          *)
(*                                                                         *)
(* An agent reads a table through the connection its node is entitled to,  *)
(* is given a verdict against the baseline kept on the node, documents,    *)
(* and writes the table it has read back as the new baseline.  Meanwhile   *)
(* the source drifts, the secret is registered anew, the node is bound,    *)
(* validated and unbound.  The calls of SourceBindings are one step each   *)
(* here.                                                                   *)
(*                                                                         *)
(* A target is a file, a database or a spreadsheet; its tables are         *)
(* sequences of columns [name, spelled, type, value]: names are numbers    *)
(* up to case, value stands for what the sampled rows hold.                *)
(***************************************************************************)
EXTENDS Naturals, Sequences, FiniteSets, SequencesExt

CONSTANTS
    Target,      \* files, databases, spreadsheets
    Table,       \* names of tables, as the source spells them
    CsvTable,    \* the one table of a CSV file
    Spelling,    \* names of tables, as agents spell them
    FoldCase,    \* each spelling in lower case
    Layout,      \* the columns a table may have
    RowCount,    \* rows of the tables of each target
    Limits,      \* limits given to query_source (0: none)
    NoTable,     \* a table the target does not have
    NoTarget,    \* no path, no spreadsheet
    QUERY_ROW_CAP, PREVIEW_ROW_CAP, EXPLORE_ROWS,
    PROFILE_SAMPLE_ROW_LIMIT, PROFILE_SAMPLE_COLUMN_LIMIT,
    MaxDrifts,   \* bound: changes of a table
    MaxChanges,  \* bound: changes of the connection, the secret, the binding
    MaxWrites    \* bound: documentation passes

ASSUME ExplorationAssumption ==
    /\ CsvTable \in Table /\ Table \subseteq Spelling
    /\ FoldCase \in [Spelling -> Spelling]
    /\ RowCount \in [Target -> Nat]
    /\ EXPLORE_ROWS \in 1 .. PREVIEW_ROW_CAP
    /\ PREVIEW_ROW_CAP \in Nat /\ PROFILE_SAMPLE_ROW_LIMIT \in Nat
    /\ PREVIEW_ROW_CAP <= PROFILE_SAMPLE_ROW_LIMIT
    /\ EXPLORE_ROWS < PROFILE_SAMPLE_ROW_LIMIT
    /\ QUERY_ROW_CAP \in Nat \ {0} /\ Limits \subseteq Nat

VARIABLES
    live,        \* the tables of each target
    entry,       \* the registered secret: its provider and what it points at
    record,      \* the private binding of the node
    inline,      \* details.connection of the node
    shown,       \* details.secret_binding.provider_kind of the node
    source_kind, \* details.source_kind of the node
    baseline,    \* details.schema_baseline of the node: flat fields and map
    documented,  \* the node has card sections
    answer,      \* what the agent was told last
    probed,      \* history: the target of the last successful validation
    moved,       \* history: the secret was registered anew since then
    docs,        \* history: each table as it was last documented, if it was
    shapes,      \* history: the shapes the baseline was written in
    drifts, changes, writes

sourceVars == <<live, entry, record, inline, shown, source_kind, baseline, documented, answer,
                probed, moved, docs, shapes, drifts, changes, writes>>
connectionVars == <<entry, record, inline, shown, source_kind, probed, moved>>
documentVars == <<baseline, documented, docs, shapes>>

SheetKinds == {"aws-google-sheets", "google-sheets-json"}
ProviderKinds == SheetKinds \union {"aws-postgres"}
FileKinds == {"sqlite", "csv"}

\* What a node may say of itself; a secret that is a key to sheets goes with a
\* sheet, one of AWS with a node that names its provider.
SourceKinds == {"none", "sheets", "aws-postgres", "aws-google-sheets"}
SourceKindOf(kind) == IF kind = "google-sheets-json" THEN "sheets" ELSE kind

Refused == [tool |-> "refused"]
Idle == [tool |-> "none"]
None == [kind |-> "none"]

-----------------------------------------------------------------------------
\* Connectors: the columns [name, type] of a table, or NoTable.

SqliteSchema(x, t) ==
    LET found == {n \in Table : FoldCase[n] = FoldCase[t] /\ live[x][n] # NoTable}
    IN  IF found = {} THEN NoTable
        ELSE LET cols == live[x][CHOOSE n \in found : TRUE]
             IN  [i \in DOMAIN cols |->
                     [name |-> cols[i].name,
                      type |-> IF cols[i].type = "" THEN "TEXT" ELSE cols[i].type]]

InferCsvType(v) == CASE v = "7" -> "INTEGER" [] v = "2.5" -> "REAL" [] OTHER -> "TEXT"

\* A CSV file has one table: its header and rows.
ReadRows(x) == live[x][CsvTable]

\* It is read whatever name it is asked for by.
CsvSchema(x, t) ==
    IF ReadRows(x) = NoTable THEN NoTable
    ELSE [i \in DOMAIN ReadRows(x) |->
             [name |-> ReadRows(x)[i].name, type |-> InferCsvType(ReadRows(x)[i].value)]]

PostgresSchema(x, t) ==
    IF t \notin Table \/ live[x][t] = NoTable THEN NoTable
    ELSE [i \in DOMAIN live[x][t] |->
             [name |-> live[x][t][i].name, type |-> live[x][t][i].type]]

InferSheetType(v) == CASE v = "7" -> "integer" [] v = "2.5" -> "number" [] OTHER -> "string"

\* Of a sheet the columns in the sampled range are read, ...
SampleColumns(cols) == {i \in DOMAIN cols : i <= PROFILE_SAMPLE_COLUMN_LIMIT}

\* ... and rows become dictionaries, in which the last of several columns of one
\* spelling is the one that counts.
SheetProfile(cols) ==
    LET seen == SampleColumns(cols)
        Sample(i) ==
            CHOOSE j \in seen :
                /\ cols[j].spelled = cols[i].spelled
                /\ \A k \in seen : cols[k].spelled = cols[i].spelled => k <= j
    IN  [i \in seen |-> [name |-> cols[i].name, value |-> cols[Sample(i)].value]]

SheetSchema(x, t) ==
    IF t \notin Table \/ live[x][t] = NoTable THEN NoTable
    ELSE LET profile == SheetProfile(live[x][t])
         IN  [i \in DOMAIN profile |->
                 [name |-> profile[i].name, type |-> InferSheetType(profile[i].value)]]

Schema(kind, x, t) ==
    CASE kind = "sqlite" -> SqliteSchema(x, t)
      [] kind = "csv" -> CsvSchema(x, t)
      [] kind = "aws-postgres" -> PostgresSchema(x, t)
      [] OTHER -> SheetSchema(x, t)

ListTables(kind, x) ==
    IF kind = "csv" THEN {CsvTable} ELSE {t \in Table : live[x][t] # NoTable}

AtMost(a, b) == IF a <= b THEN a ELSE b

\* One row more than is shown is fetched, to know whether there are more.
Page(n, cap) ==
    LET fetched == AtMost(n, cap + 1)
    IN  [rows |-> AtMost(fetched, cap), truncated |-> fetched > cap]

\* Of a sheet at most the sample is fetched, the header being a row of it.
SheetPage(n, cap) ==
    LET data == AtMost(n + 1, PROFILE_SAMPLE_ROW_LIMIT + 1) - 1
    IN  [rows |-> AtMost(data, cap), truncated |-> data > cap]

Preview(kind, n) ==
    LET cap == AtMost(EXPLORE_ROWS, PREVIEW_ROW_CAP)
    IN  IF kind \in SheetKinds THEN SheetPage(n, cap) ELSE Page(n, cap)

QueryRows(n, limit) == Page(n, AtMost(IF limit = 0 THEN QUERY_ROW_CAP ELSE limit, QUERY_ROW_CAP))

-----------------------------------------------------------------------------
\* Change detection.

NormalizeType(t) ==
    CASE t \in {"INTEGER", "integer", "bigint"} -> "int"
      [] t \in {"TEXT", "string", "varchar(9)"} -> "text"
      [] t = "REAL" -> "real"
      [] t = "" -> "unknown"
      [] OTHER -> t

\* Columns with their class of type, sorted by name; equal names keep their order.
Canonicalize(cols) ==
    LET Before(i, j) == cols[i].name < cols[j].name \/ (cols[i].name = cols[j].name /\ i < j)
        order == SetToSortSeq(DOMAIN cols, Before)
    IN  [i \in DOMAIN cols |-> [name |-> cols[order[i]].name,
                                type |-> NormalizeType(cols[order[i]].type)]]

\* The hash tells apart whatever the canonical schema does, the table's name included.
SchemaHash(t, canon) == <<t, canon>>
NoHash == <<>>

\* A later column of the same name replaces the earlier one.
ColumnsByName(canon) ==
    [n \in {canon[i].name : i \in DOMAIN canon} |->
        canon[CHOOSE i \in DOMAIN canon :
                  canon[i].name = n /\ \A j \in DOMAIN canon : canon[j].name = n => j <= i].type]

\* A baseline's snapshot maps tables to canonical columns; the live schema has one table.
AlignSnapshot(snapshot, t) ==
    IF Cardinality(DOMAIN snapshot) = 1
    THEN [x \in {t} |-> snapshot[CHOOSE n \in DOMAIN snapshot : TRUE]]
    ELSE snapshot

SchemaDelta(snapshot, t, canon) ==
    LET new == ColumnsByName(canon)
        old == IF t \in DOMAIN snapshot THEN ColumnsByName(snapshot[t]) ELSE new
        both == DOMAIN new \intersect DOMAIN old
    IN  [added |-> {<<n, new[n]>> : n \in DOMAIN new \ DOMAIN old},
         removed |-> {<<n, old[n]>> : n \in DOMAIN old \ DOMAIN new},
         altered |-> {<<n, old[n], new[n]>> : n \in {m \in both : old[m] # new[m]}},
         addedTables |-> {t} \ DOMAIN snapshot,
         removedTables |-> DOMAIN snapshot \ {t}]

\* The flat baseline if there is one; else the table's entry, by its exact
\* name or by the first name that differs in case only.
ScopeBaseline(t) ==
    IF baseline.hash # NoHash THEN [hash |-> baseline.hash, snapshot |-> baseline.snapshot]
    ELSE LET exact == {i \in DOMAIN baseline.map : baseline.map[i].key = t}
             alike == {i \in DOMAIN baseline.map : FoldCase[baseline.map[i].key] = FoldCase[t]}
             found == IF exact # {} THEN exact ELSE alike
         IN  IF found = {} THEN [hash |-> NoHash, snapshot |-> <<>>]
             ELSE LET e == baseline.map[CHOOSE i \in found : \A j \in found : i <= j]
                  IN  [hash |-> SchemaHash(e.key, e.canon),
                       snapshot |-> [k \in {e.key} |-> e.canon]]

ResolveVerdict(hash, liveHash) ==
    CASE hash # NoHash -> IF hash = liveHash THEN "unchanged" ELSE "changed"
      [] hash = NoHash /\ documented -> "unknown-baseline"
      [] OTHER -> "new"

ChangeDetection(t, canon) ==
    LET scoped == ScopeBaseline(t)
        verdict == ResolveVerdict(scoped.hash, SchemaHash(t, canon))
    IN  [verdict |-> verdict,
         delta |-> IF verdict = "changed"
                   THEN <<SchemaDelta(AlignSnapshot(scoped.snapshot, t), t, canon)>>
                   ELSE <<>>]

-----------------------------------------------------------------------------
\* The connection a node is entitled to.

ProviderKind ==
    CASE inline.kind \in ProviderKinds -> inline.kind
      [] inline.kind \notin ProviderKinds /\ shown \in ProviderKinds -> shown
      [] inline.kind \notin ProviderKinds /\ shown \notin ProviderKinds ->
             IF source_kind = "sheets" THEN "google-sheets-json" ELSE "none"

\* Mutant: a binding counts before it is validated.
BindingIsThere(kind) == record.kind = kind

BindingIsValid(kind) ==
    /\ record.kind = kind /\ record.status = "valid"
    /\ kind \in SheetKinds => record.mapping # NoTarget

ConnectionFromBinding == [kind |-> record.kind, target |-> record.mapping]

ValidatedConnection ==
    IF ProviderKind = "none" THEN inline
    ELSE IF BindingIsValid(ProviderKind) THEN ConnectionFromBinding
    ELSE None

\* An adapter resolves the secret as it is registered now; it refuses metadata
\* of another provider.  A database is always the secret's, never the payload's.
AwsPostgresResolve == IF entry.kind = "aws-postgres" THEN entry.target ELSE NoTarget

\* A spreadsheet is the one the connection names.
AwsSheetsResolve(c) == IF entry.kind = "aws-google-sheets" THEN c.target ELSE NoTarget
SheetsJsonResolve(c) == IF entry.kind = "google-sheets-json" THEN c.target ELSE NoTarget

ResolveSecret(c) ==
    CASE c.kind = "aws-postgres" -> AwsPostgresResolve
      [] c.kind = "aws-google-sheets" -> AwsSheetsResolve(c)
      [] c.kind = "google-sheets-json" -> SheetsJsonResolve(c)

ResolveConnector(c) ==
    CASE c.kind \in FileKinds -> c
      [] c.kind \in ProviderKinds /\ ResolveSecret(c) # NoTarget ->
             [c EXCEPT !.target = ResolveSecret(c)]
      [] OTHER -> None

Connector == ResolveConnector(ValidatedConnection)

-----------------------------------------------------------------------------
Unvalidated(kind) == [kind |-> kind, status |-> "unvalidated", mapping |-> NoTarget]

\* Nothing is known of the source yet, or a secret is bound and not validated;
\* each target has one table, of the same columns to begin with.
SourceInit ==
    /\ \E cols \in Layout :
           live = [x \in Target |-> [t \in Table |-> IF t = CsvTable THEN cols ELSE NoTable]]
    /\ \/ entry = None /\ record = None /\ shown = "none"
       \/ \E kind \in ProviderKinds, x \in Target :
              /\ entry = [kind |-> kind, target |-> x]
              /\ record = Unvalidated(kind) /\ shown = kind
    /\ inline = None /\ source_kind \in {"none", "sheets"}
    /\ baseline = [hash |-> NoHash, snapshot |-> <<>>, map |-> <<>>]
    /\ documented = FALSE
    /\ answer = Idle
    /\ probed = NoTarget /\ moved = FALSE
    /\ docs = [t \in Spelling |-> {}]
    /\ shapes = {}
    /\ drifts = 0 /\ changes = 0 /\ writes = 0

\* The source changes: a table is created, altered or dropped.
Drift(x, t, cols) ==
    /\ drifts < MaxDrifts /\ drifts' = drifts + 1
    /\ live[x][t] # cols
    /\ live' = [live EXCEPT ![x][t] = cols]
    /\ UNCHANGED <<connectionVars, documentVars, answer, changes, writes>>

Change ==
    /\ changes < MaxChanges /\ changes' = changes + 1
    /\ answer' = Idle
    /\ UNCHANGED <<live, documentVars, drifts, writes>>

\* An agent writes a connection on the node: a path, or the name of a provider,
\* beside which nothing that it says is used.
Describe(kind, x) ==
    /\ Change
    /\ inline' = [kind |-> kind, target |-> x]
    /\ UNCHANGED <<entry, record, shown, source_kind, probed, moved>>

\* Or says what kind of source it is.
Classify(kind) ==
    /\ Change
    /\ source_kind # kind /\ source_kind' = kind
    /\ UNCHANGED <<entry, record, inline, shown, probed, moved>>

\* A secret is registered, or registered anew.
Register(kind, x) ==
    /\ Change
    /\ entry' = [kind |-> kind, target |-> x]
    /\ moved' = TRUE
    /\ UNCHANGED <<record, inline, shown, source_kind, probed>>

\* A new binding has to be validated.
Bind ==
    /\ Change
    /\ entry # None
    /\ entry.kind \in {inline.kind, shown} \/ source_kind = SourceKindOf(entry.kind)
    /\ record' = Unvalidated(entry.kind)
    /\ inline' = None /\ shown' = entry.kind
    /\ UNCHANGED <<entry, source_kind, probed, moved>>

\* The provider is asked; a spreadsheet that answers is kept in the binding.
Validate(answers) ==
    /\ Change
    /\ record # None /\ entry # None
    /\ record' = IF answers
                 THEN [record EXCEPT !.status = "valid",
                                     !.mapping = IF entry.kind \in SheetKinds THEN entry.target
                                                 ELSE NoTarget]
                 ELSE [record EXCEPT !.status = "invalid"]
    /\ inline' = None /\ shown' = record.kind
    /\ probed' = IF answers THEN entry.target ELSE probed
    /\ moved' = IF answers THEN FALSE ELSE moved
    /\ UNCHANGED <<entry, source_kind>>

Unbind ==
    /\ Change
    /\ record # None
    /\ record' = None /\ inline' = None /\ shown' = "none"
    /\ UNCHANGED <<entry, source_kind, probed, moved>>

\* A question changes nothing, so that one between two changes is enough.
Answer(a) ==
    /\ answer = Idle
    /\ answer' = a
    /\ UNCHANGED <<live, connectionVars, documentVars, drifts, changes, writes>>

\* explore_source with a container: the tables there are.
Browse ==
    /\ Connector # None
    /\ Answer([tool |-> "tables", names |-> ListTables(Connector.kind, Connector.target),
               connector |-> Connector])

\* explore_source with a table: its columns, a few rows, and the verdict.
ExploreTable(t) ==
    /\ Connector # None
    /\ LET c == Connector
           cols == Schema(c.kind, c.target, t)
           canon == Canonicalize(cols)
       IN  IF cols = NoTable THEN Answer(Refused)
           ELSE Answer([tool |-> "explore", connector |-> c, table |-> t, canon |-> canon,
                        detection |-> ChangeDetection(t, canon),
                        preview |-> Preview(c.kind, RowCount[c.target]),
                        probed |-> probed, moved |-> moved])

\* query_source, on a database only.
Query(limit) ==
    /\ Connector.kind \in {"sqlite", "aws-postgres"}
    /\ Answer([tool |-> "query", connector |-> Connector,
               preview |-> QueryRows(RowCount[Connector.target], limit)])

\* No connection, no valid binding, a provider that fails.
SourceRefuses == Answer(Refused)

\* The agent documents the table it has read, unless there is nothing new,
\* and merges the baseline into the node's details.
Document(shape) ==
    /\ writes < MaxWrites /\ writes' = writes + 1
    /\ answer.tool = "explore" /\ answer.detection.verdict # "unchanged"
    /\ LET t == answer.table
           keys == {i \in DOMAIN baseline.map : baseline.map[i].key = t}
           kept == [key |-> t, canon |-> answer.canon]
       IN  /\ baseline' =
                IF shape = "flat"
                THEN [baseline EXCEPT
                         !.hash = SchemaHash(t, answer.canon),
                         !.snapshot = [n \in DOMAIN @ \union {t} |->
                                          IF n = t THEN answer.canon ELSE @[n]]]
                ELSE [baseline EXCEPT
                         !.map = IF keys = {} THEN Append(@, kept)
                                 ELSE [i \in DOMAIN @ |-> IF i \in keys THEN kept ELSE @[i]]]
           /\ docs' = [docs EXCEPT ![t] = {answer.canon}]
           /\ shapes' = shapes \union {<<shape, t>>}
    /\ documented' = TRUE
    /\ answer' = Idle
    /\ UNCHANGED <<live, connectionVars, drifts, changes>>

\* Card sections are written and no baseline.
DocumentOnly ==
    /\ writes < MaxWrites /\ writes' = writes + 1
    /\ documented' = TRUE
    /\ answer' = Idle
    /\ UNCHANGED <<live, connectionVars, baseline, docs, shapes, drifts, changes>>

SourceNext ==
    \/ \E x \in Target, t \in Table, cols \in Layout \union {NoTable} : Drift(x, t, cols)
    \/ \E kind \in FileKinds, x \in Target : Describe(kind, x)
    \/ \E kind \in ProviderKinds : Describe(kind, NoTarget)
    \/ \E kind \in SourceKinds : Classify(kind)
    \/ \E kind \in ProviderKinds, x \in Target : Register(kind, x)
    \/ Bind
    \/ \E ok \in BOOLEAN : Validate(ok)
    \/ Unbind
    \/ Browse
    \/ \E t \in Spelling : ExploreTable(t)
    \/ \E limit \in Limits : Query(limit)
    \/ SourceRefuses
    \/ \E shape \in {"flat", "map"} : Document(shape)
    \/ DocumentOnly

SourceSpec == SourceInit /\ [][SourceNext]_sourceVars

-----------------------------------------------------------------------------
\* The baseline was written in one shape, the flat one for one table only.
OneShape == \/ \A s \in shapes : s[1] = "map"
            \/ Cardinality(shapes) = 1

Patch(old, delta) ==
    LET gone == {p[1] : p \in delta.removed}
        news == delta.added \union {<<p[1], p[3]>> : p \in delta.altered}
    IN  [n \in (DOMAIN old \ gone) \union {p[1] : p \in news} |->
            IF \E p \in news : p[1] = n THEN (CHOOSE p \in news : p[1] = n)[2] ELSE old[n]]

\* The table was documented under some spelling, and under every one as these columns.
DocumentedAlike(t, canon) ==
    LET texts == UNION {docs[s] : s \in {u \in Spelling : FoldCase[u] = FoldCase[t]}}
    IN  texts = {canon}

NothingChanged ==
    [added |-> {}, removed |-> {}, altered |-> {}, addedTables |-> {}, removedTables |-> {}]

\* An exploration says "unchanged" exactly when the columns it read are the ones
\* last documented under that very spelling of the table's name, as long as the
\* baseline was written in one shape.  The spelling tells: "so reordering
\* columns, widening a varchar, or using a type synonym never produces a false
\* changed" (connectors/change_detection.py:16-17) holds of columns and types,
\* but not of what lines 242-243 tolerate, a name of a table that drifts in
\* case: a table documented as 'data' and explored as 'Data' is called changed,
\* since its name is hashed as it is spelled.  Such a false alarm has a delta
\* with nothing in it, by which an agent can tell it.
VerdictIsRight ==
    answer.tool = "explore" /\ OneShape =>
        /\ answer.detection.verdict = "unchanged" <=> answer.canon \in docs[answer.table]
        /\ docs[answer.table] = {} /\ DocumentedAlike(answer.table, answer.canon) =>
              /\ answer.detection.verdict = "changed"
              /\ answer.detection.delta = <<NothingChanged>>

\* The delta of a changed table, applied to what was documented, gives the
\* columns read: a documenter that follows the delta alone misses nothing.
DeltaIsWhole ==
    answer.tool = "explore" /\ OneShape /\ answer.detection.verdict = "changed" =>
        \A canon \in docs[answer.table] :
            Patch(ColumnsByName(canon), answer.detection.delta[1]) = ColumnsByName(answer.canon)

\* What is read through a binding is what was probed when it was found valid,
\* but for a database whose secret was registered anew since.
ReadsWhatWasProbed ==
    answer.tool = "explore" /\ answer.connector.kind \in ProviderKinds =>
        \/ answer.connector.target = answer.probed
        \/ answer.connector.kind = "aws-postgres" /\ answer.moved

\* An answer that does not show every row says so.
TruncationIsTold ==
    answer.tool \in {"explore", "query"} =>
        (answer.preview.truncated <=> RowCount[answer.connector.target] > answer.preview.rows)

ExplorationIsTruthful ==
    VerdictIsRight /\ DeltaIsWhole /\ ReadsWhatWasProbed /\ TruncationIsTold
=============================================================================
