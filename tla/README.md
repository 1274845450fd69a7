# brain_ds in TLA+

A verification development for brain_ds, the workspace knowledge graph that
agents write through MCP tools and people watch in a live viewer. It holds TLA+
modules translated from the source, TLC configurations that check them on small
instances, and proofs checked by TLAPS. `PROJECT.json` is its index: components,
runs, mutants, the line map from definitions to the source, findings, hazards
and theorems. Source paths below are relative to `brain_ds/`.

    tlc -config MC_EventOutbox.cfg MC_EventOutbox.tla
    tlapm LiveSync_proofs.tla

## 1. The system

Three kinds of process share one SQLite file (WAL mode): MCP processes, one per
agent session, which run the tools; the UI server, which serves the page, the
HTTP API and the event WebSocket; the desktop shell, which starts and stops a UI
server. Nothing but SQLite's own locking coordinates them, and nearly every
repository method commits by itself: an operation of three calls is three
transactions, and other processes may come in between. Beside the store, the
processes of a machine share a few JSON files that each rewrites whole.

| component | state | operations | what is hard | what makes it correct | module |
|---|---|---|---|---|---|
| event outbox and poller (`store/repository.py` OutboxRepository, `api/outbox.py`, `api/server.py`) | outbox rows; per server the bus, receipts, the batch in hand | enqueue, fetch, publish, mark, purge | several servers on one table; crash between publish and mark; purge beside polling | no row lost, first deliveries in order, repeats only after a failure | EventOutbox, OrderedDelivery |
| live sync (`api/events.py`, `api/routes.py`, `ui/src/live/live-sync.ts`, `ui/templates/graph_viewer.html`) | subscriber queues; per page nodeMap, bufferQueue, isFetchComplete | write over MCP or HTTP; subscribe, snapshot, buffer, apply, reconnect | snapshot racing events; reconnect; two publication paths | a settled page shows what is stored | LiveSync |
| confidence ledger (`store/repository.py` LedgerRepository, `mcp/tools.py`) | append-only rows per edge id | add_edge's row, list_pending_confirmations, resolve_confirmation | check and append apart; ids from a COUNT, reused, compared as text | verdicts answer questions; rows describe their edge | Ledger |
| calibration (`verify/ledger_calibration.py`, `verify/edge_calibration.py`, `mcp/grounding.py`) | a cached report per MCP process and graph id | calibrate, evict, suggest, assess, ground | caches of several processes, across a store swap or a graph deleted and made anew; sparse labels; one-sided verdicts | caches current or known outdated; thresholds and gates as documented | Calibration |
| graph store (`store/*`) | tables and their counts; a connection per process | upsert and delete of nodes and edges, import, create and delete a graph, clusters | read-modify-write; multi-commit operations; failed calls that keep the lock | counts match tables; no lost update; a server's connection recovers | GraphStore |
| migrations, registry, sessions (`store/migrations.py`, `workspaces.py`, `mcp/server.py`, `ui/server.py`) | version of each file, registry file, the open store of each server | open, migrate, stamp; register, prune; open_workspace; delete | concurrent openers, crash between script and stamp, memory of what was migrated, files deleted while open | a store that is served is whole and the one at its root | Sessions |
| secret catalog and source bindings (`connectors/secrets/*`) | manifest, values, binding file; a copy on the node | add, remove, bind, validate, unbind | two files; one temporary name for all; slow probes | valid means probed; the file survives its writers | SourceBindings |
| sources (`connectors/*`, `connectors/change_detection.py`) | none; baselines on nodes | list, describe, preview, query, explore, detect changes | spelling of names, shapes of baselines, caps | a verdict compares a table with its own baseline | SourceExploration |
| retrieval and suggestions (`retrieval/*`, `scoring/*`) | none | retrieve_context, search_graph, suggest_connections | orders, ties, caps, dangling edges | what is shown is nearest, ranked and allowed | Retrieval |
| embeddings (`scoring/embedder.py`, EmbeddingRepository) | a vector per node | embed on update, backfill | node and vector are committed apart | the vector is of the node's text | NodeVectors |
| edge snapshots, lists (`verify/edge_snapshot.py`, `mcp/tools.py`) | a cursor, an offset | pages of edges and entries | changes between pages; ranked pages | nothing is skipped | Paging |
| currency and dossier (`currency/*`, `dossier/*`, `mcp/tools.py`) | the hierarchy of nodes | update_node's checks, get_kpi_dossier, assess_currency | check and write apart; deleted parents; verdicts of reused ids | lineage shown as confirmed was confirmed | Dossier |
| editing (`ui/src/panels/detail-panel.ts`, `split-pane.ts`, `graph_viewer.html`) | selection, edit flag, copies of nodes | select, type, save, events of agents | saves in flight; one flag for all nodes; two copies | typed text is kept | EditSession |
| desktop shell (`src-tauri/src`) | the sidecar, an instance lock | launch, poll, stop | time-outs, orphans | one sidecar, always stopped | - |
| rendering, physics, panels | DOM, files written whole | draw | - | - | - |

## 2. Modules

`MC_*` modules give constants their values and compose. Two of them put several
modules beside each other: `MC_Hosts` (Sessions, SourceBindings, EditSession) and
`MC_Analyses` (SourceExploration, Retrieval, Paging, Dossier, Calibration,
NodeVectors). These modules share no state in the code's sense either: nothing
one writes is read by another in a way its properties tell apart. A behaviour is
therefore about one of them, which `part` or `topic` names; the variables of the others
keep their initial values. What does interact is composed properly: LiveSync
instantiates EventOutbox, and EventOutbox implements OrderedDelivery.

`Ordering` stands for Python's `sorted` and SQLite's ORDER BY by a key that tells all
elements apart (it is external code). It says what the result is, each element
at the place that follows from how many come before it, rather than how it is
computed, so that it can be reasoned about; Retrieval, Paging and Dossier sort with
it.

### OrderedDelivery, EventOutbox

`OrderedDelivery` is the promise: a log; each position is first handed over in
log order; a position is held until it has been handed over; it may be handed
over again while it is held. `EventOutbox` is the table and the pollers.

| model | code |
|---|---|
| `log`, `rows`, `flagged` | rows ever inserted, ids now in event_outbox, ids with published = 1. AUTOINCREMENT ids never come back after a purge, so the row with id i is position i of `log` |
| `Enqueue` | `OutboxRepository.enqueue_event`, one commit |
| `Start` | the lifespan: `purge_published_events`, then the poller task |
| `Fetch`, `Publish`, `Mark` | `publish_outbox_batch`: the SELECT with LIMIT, one `event_bus.publish` (and `ReceiptStore.add`) per row, the UPDATE |
| `MarkFails` | the UPDATE raises ("database is locked"); `outbox_poller` logs it and polls again |
| `Stop` | the process ends at any point; batch, bus and receipts are gone |
| `bus`, `slipped`, `emitted` | history: what this run of a server has put on its bus, whether one of its marks failed, what was ever put on any bus |

### LiveSync

Instantiates `EventOutbox` with one UI server and adds the nodes table, the MCP
processes, the HTTP handlers and the pages. A node's content is a version number,
new at every commit; 0 is absent. `Fragment` is a body that is not the whole row of
any commit: POST publishes the dict it was sent, while the store merges that dict
into the row it finds, so what pages are sent may be less than what is stored.

| model | code |
|---|---|
| `BeginUpdate`, `UpsertNode`, `Reread`, `EnqueueEvent`, `EnqueueReceipt` | `update_node`: existence check (which decides created or updated), upsert commit, second read, event commit, receipt commit |
| `DeleteNode` | `delete_node` up to its commit; a delete that finds nothing still leaves a receipt |
| `Abort` | the process ends, or log_audit or an enqueue raises, at any of these points |
| `Post`, `BeginPatch`, `PatchUpsert`, `PatchReread`, `HttpPublish` | `create_node`, `patch_node`: they run on the event loop without suspending (`LoopFree`), beside other processes, and publish past the outbox; PATCH the row read back, POST its body |
| `SaveQuietly`, `DeleteQuietly` | commits no event announces: `save_graph`'s nodes and its `delete_nodes`, `delete_graph`, and `_project_binding` with the upserts of bind, unbind and validate (routes and tool) |
| `PollerStep` | the outbox's poller; its publish puts the event in the queue of every subscriber |
| `OpenPage`, `Subscribe`, `Drop` | page rendered from the store; socket accepted (first or again); socket lost with what is in flight |
| `Snapshot`, `ApplySnapshot`, `FetchFails` | `syncWithServer`: the response is read on a worker thread, later seeds the store, then `flushBufferedEvents`; a rejected fetch leaves `isFetchComplete` false |
| `Deliver`, `ApplyEvent` | `queueOrApply` and `applyEvent`, with `_shouldPreserveUnsavedEdits` |
| `StartEdit`, `EndEdit` | edit mode with unsaved edits, as far as live events see it; EditSession has the rest |
| `astray`, `missed` | history: nodes whose last commit was overtaken by an older event, announced with less than the row, or never announced; per page, nodes an event of which it never applied |

The edge routes and tools take the same path through outbox, bus and page and are
left out of this module, as are highlights, placement and presence.

### Ledger

Edges of one source/target pair. An edge added without an id gets `s->t#k`, k one
more than the edges there are; slots are these k, and an id given by the caller is a
slot too. Edge ids are compared as text: `ComesAfter` compares the digits, in
radix `Base` (10 in the code and in every run).

| model | code |
|---|---|
| `Count`, `Insert` | `upsert_edge`: the COUNT, then INSERT ... ON CONFLICT DO UPDATE and its commit |
| `Reread`, `RereadNothing` | `query_edges(...)[-1]` in `add_edge`; on an empty list the tool fails |
| `AppendSeed` | `append_ledger` of the edge read back, pending if `_should_flag_for_confirmation` says so |
| `Abandon` | the ledger write fails (and is logged), or the call or its process ends at any point |
| `DeleteEdges` | `delete_edge`: all edges of the pair, no ledger row |
| `ReadPending`, `AppendVerdict` | `resolve_confirmation`: the SELECT of the latest row, the appended verdict |
| a process in `Server` | POST /api/edges without an id: count and insert, no ledger row |
| `PutById`, `MoveById` | `upsert_edge` with an `edge_id` (POST /api/edges), and `save_edges` of an import: the row of that id becomes an edge of the pair, or leaves it |
| `fact`, `added`, `overlapped`, `unledgered`, `scattered` | history: which edge a row is about, edges added since the last delete, whether two operations ever overlapped, whether an edge was left without its row, whether ids given by callers have left a gap in the numbers |

A label stands for everything `_should_flag_for_confirmation` looks at. The audit
row, event and receipt that end `add_edge` and `delete_edge` are left out: nothing
in this module reads them. So is the merge of an overwritten edge's weight.

### GraphStore

The tables of one graph and the connection of each process. It is about what
commits one by one do to each other, and about what a failed call leaves behind:
no repository method rolls back, so a connection is `auto` (no transaction),
`holding` (a statement failed after it took the write lock), `open` (a statement
found the lock taken), `pinned` (and a SELECT has fixed its snapshot) or `stale`
(and somebody has committed since: every write is refused). Only a commit ends
that, of a later call or of the poller.

| model | code |
|---|---|
| `BeginPatch`, `UpsertNode`, `RefreshNodes`, `Refresh` | `NodeRepository.upsert_node` reads and merges, writes and commits; `_refresh_graph_counts` |
| `BeginDeleteNode`, `DeleteNode`, `BeginAddEdge`, `InsertEdge`, `BeginDeleteEdges`, `DeleteEdges` | the other writers |
| `BeginImport`, `SaveMeta`, `ClearNodes`, `SaveNodes`, `SaveEdges`, `ParentMissing`, `ImportFails` | `GraphStore.save_graph`, one commit each; a missing parent raises before the nodes are written |
| `BeginCreate`, `CreateMeta`, `BeginDeleteGraph`, `DeleteGraph` | create_graph; the HTTP delete with ON DELETE CASCADE |
| `BeginPropose`, `SaveCluster`, `SaveMembers`, `MembersFail`, `BeginLifecycle`, `SetStatus`, `BeginRewrite`, `Rewrite` | `manage_clusters` |
| `Violate`, `Refused`, `Browse`, `PollerCommit`, `Stop` | a constraint fails; a write finds the lock or a stale snapshot; a SELECT of a read; `publish_outbox_batch`; the process ends |
| `expect`, `asked`, `raced`, `racedClusters`, `emptied`, `skewed` | history: the tables had each call been one step, and which named race disturbed them |

### Sessions

Servers, stores and the registry of one machine. A store file has a number, new
for each file; a path cannot tell it from the file that was there before.

| model | code |
|---|---|
| `Connect`, `RunScript`, `Stamp`, `Contended`, `OpenFails` | `GraphStore.open` and `apply_pending`: the cache by path, the read of the version, each migration's statements (the first script commits before its stamp), the stamp; another opener holds the lock |
| `Start`, `OpenedAtStart`, `Setup`, `StoreEnsured` | start of both servers and setup |
| `OpenWorkspace`, `Swap`, `SwapFails` | the MCP tool: open the new store, close the old one (its checkpoint raises inside a transaction that a failed call left open, and the server ends), swap, register; `Call` makes a connection dirty |
| `LoadRegistry`, `Truncate`, `WriteRegistry`, `ListWorkspaces` | `workspaces.py`: load, prune, rewrite, not atomic. A file that is cut (`Partial`), or has the end of one text behind another (`Jumbled`), is read as empty |
| `LoadFails`, `SaveFails`, `AnswerFails`, `RequestFails` | what raises past the `except` clauses: text cut inside a character, an OSError of the write, the list of graphs after the swap, a line that is no JSON object. `Purpose` says for what the registry was loaded, and so whether the server ends (`End`) or only the call (`GiveUp`) |
| `DeleteWorkspace`, `Unlink`, `UnlinkFails`, `RemoveFolder`, `Stop` | the HTTP delete with or without its files; a folder somebody removes; a crash |

### SourceBindings

Two files for the catalog, one for the bindings, one shared temporary name. An
inode stands for a file on disk, so that opening the temporary file truncates
whatever has its name, a write goes over what another has written there since (and
a shorter text leaves the end of a longer one: `Garbled`), and a rename moves
whatever has the name by then.

| model | code |
|---|---|
| `AddSecret`, `RemoveSecret`, `LoadValues`, `RejectSecret`, `SaveManifest`, `SaveValues` | the catalog: load both, change a copy, replace one file after the other |
| `BeginBind`, `LoadForBind`, `BeginUnbind`, `BeginValidate`, `LookUp`, `Probe`, `CallFails` | bind, unbind and validate; validation loads the whole file before its slow probe and writes that copy back |
| `OpenTmp`, `WriteTmp`, `Replace`, `ReplaceFails` | `SecretBindingStore.save` |
| `Project` | the copy on the node (unbinding writes the node twice: one step stands for both) |
| `CutShort` | the process ends anywhere in a call |

### EditSession

The page of a person who edits nodes that agents write. The page has two copies
of a node: the graph data as the page was opened, and the detail index that
events update. Typing writes into both.

| model | code |
|---|---|
| `AgentWrites`, `AgentCreates`, `AgentDeletes`, `PublishNext`, `ReceiveEvent` | an MCP process; the poller; `applyEvent` |
| `SelectNode`, `Deselect`, `ToggleEdit`, `Type`, `SaveEdits` | the detail panel; `hasEdits` is one flag for all nodes |
| `OpenReader`, `TypeInReader`, `SaveReader` | the markdown reader of `split-pane.ts` |
| `PatchNode`, `PanelSaved`, `ReaderSaved` | the server's handler; the answer, which clears the flag whatever was typed since |

A lost answer is one that is never received. The conflict mark and its banner,
which nothing reads, are left out. A node created live has no form, and its edit
button recurses without end (`renderDetailPanel` and `renderDetailPanelEditable`
call each other): the model lets nobody edit it.

### SourceExploration

Targets with tables, rows and columns; the connectors over them; the record of
the binding and the entry of the secret, which resolve to a connector; the
baseline a node keeps. `Drift` changes a source, `Document` writes a baseline as the
documenter would (flat, or a map by table, merged with what is there).
`Describe`, `Register`, `Bind`, `Validate`, `Unbind` and the exploring actions are the
tools. The hash of a schema is the schema itself with the table's name, as
hashing keeps different ones apart. A source whose baseline is flat and by table at once answers from the flat
one (`OneShape` is the precondition where it matters); a CSV source ignores the name
of the table; columns of a sheet beyond the sample are not seen.

A table's name keeps its spelling in the hash, although the map of baselines is
looked up by a name in any case: `VerdictIsRight` says outright what comes of it,
a table documented as 'data' and explored as 'Data' is called changed, and that such
a false alarm has an empty delta (section 4, "Met while modelling").

### Retrieval

A graph as other calls leave it, with dangling edges, verdicts and clusters in
any state; a question with what the text index and the embeddings answered. The
operators are the ranking, routing, expansion, cap and truncation of
`retrieve_context`, the fusion of `search_graph`, the scores of
`suggest_connections`; scores are whole numbers, those of the fusion scaled so
finely that two ranks never score alike (as the code's fractions do not).
`retrieve_context` binds its intermediate results one after the other, as the code
does: routes, anchors, depths, what the cap leaves. The properties state what an
answer must be without those operators: nearest first, reliable edges before
unreliable ones, text cut from afar, ranks that keep the order of both lists,
suggestions that earned their score.

### Paging

A walk through the edges by cursor and through a list by offset, with edits in
between. `EveryEdgeIsShown` is about the edges that were there all along and that
nobody edited. A ranked mode ranks only the rows fetched and takes its cursor from
the ranked page, so that it may pass over an edge, at most one for each page but
the last, and may repeat; a walk in table order passes over none. A row has its place
in the table by its label and its id, and `WriteEdge` may give an id another label, so
that even in table order an edge can be shown twice. `PagesGoForward` says what holds
then: the rows come in order, by labels and ids as shown, and an edge that nobody wrote
is shown under the label it has and no other, so that only one written in between is
repeated or missed.

### Dossier

Nodes with types and parents, written by two processes that check what they
read before they write; lineage edges with their verdicts; time in days.
`CheckDraft` and `UpsertDraft` are `update_node`; `AddLink`, `DropLink`, `Judge` the
ledger's operations in one step each; `GetKpiDossier`, `AssessCurrency`,
`InternalBundle`, `DocBundle`, `ListBelow` the readers. Two concurrent drafts can make
nodes each other's parents, and the readers must survive that.

### Calibration

The latest ledger row of each edge in each store, the store each MCP server has
open, its cache, which is by graph id alone, and the real gold set. `RecordEdge`,
`ResolveClaim`, `ResolveNothing` write and evict the writer's cache. Three actions
change the ledger behind a cache: `AppendRow`, a verdict with label and weight that a
script appends with the store's `append_ledger` (no tool does; the tests do);
`RecreateGraph`, a graph deleted through the UI server, its ledger with it, and created
anew under its id; and `SwapStore`, `open_workspace`, after which a server advises
about one store from the cache of another. `SuggestByCache`, `SuggestAnew`,
`AssessCalibration`, `Ground` read; `RestartAgent` forgets a cache and opens the first
store. A server started outside the repository's root does not find the gold set, which
only suggest_connections provides for. `outdated` is history: the servers whose cache is
not of the rows they have now.

### NodeVectors

The text of each node and the text its vector was made of. `UpdateCard`,
`RereadCard`, `StoreVector` are `update_node` with the model: commit, read again,
embed, commit the vector. `WritePlainly` are the HTTP routes, the bindings and
servers without the model; `RemoveCard` leaves the vector. `BeginBackfill`,
`PassOver`, `EmbedCopy`, `FillVector` are `embed-backfill`, which reads all nodes at
once and passes over every node that has some vector. `bare` and `late` are history:
nodes whose last writer made no vector, and nodes whose vector came after a write
it had missed.

## 3. Runs

| run | bounds | states | shows |
|---|---|---|---|
| outbox_delivery | 2 servers, 3 rows, batches of 2, 1 receipt kept, 2 faults | 125 thousand | safety, refinement and liveness of the outbox |
| live_sync_writers | 2 MCP processes, POST, PATCH, silent commits, 1 page with edits, 1 node, 2 versions, 2 rows | 1.2 million | a settled page is stale only where a named race happened |
| live_sync_faults | 1 MCP process, PATCH, silent commits, 1 page, 2 versions, 2 rows, 1 fault | 0.7 million | the same, and types, under crash, lost socket, failed mark, failed fetch; pages catch up |
| ledger_processes | 2 MCP processes, 1 UI server, 3 edges, 3 rows | 2.2 million | the ledger's safety |
| store_calls | an MCP and a UI process, 2 nodes, 2 clusters, 3 imports, 2 edges, 3 calls, 1 crash | 0.3 million | counts, writes and statuses are as asked but for named races; servers recover |
| hosts | stores: an MCP and a UI server, 2 workspaces, 3 files, 3 migrations, 3 starts, 2 requests, 4 of both, 1 fault (a stop in mid-operation, a failed write, a removed folder); secrets: 2 actors, 1 handle, 2 sources, 3 inodes, 2 uploads, 2 bindings, 4 calls, 1 cut; edits: 2 nodes, 2 versions, 1 save of each editor | 1.1 million | what the machine's files and a person's edits survive |
| analyses | source: 2 targets, 1 drift, 2 changes of the binding, 2 baselines; graph: 4 nodes, 3 edges, 2 clusters, 28 questions, 1 deletion; list: 3 edges, pages of 1, 2 and 3, 1 edit, which may give an edge another label; KPI: 5 nodes, 2 writers, lineage there or not, 3 calls, 1 day; trust: 2 servers, 2 stores, 2 edges, 2 relationships, 4 turns; vectors: 2 nodes, 2 texts, 2 embedders, 1 backfill, 3 writes, 1 failure | 0.8 million | answers are those the state gives |
| live_sync_refresh | 1 MCP process, 1 page, nothing else | (violation) | finding 1 |
| ledger_two_verdicts | 2 MCP processes | (violation) | finding 2 |
| ledger_tenth_edge | 1 MCP process, 10 edges | (violation) | finding 3 |
| calibration_verdicts | 2 MCP servers | (violation) | finding 4 |
| edit_rename | 1 page, an agent | (violation) | finding 5 |

Why the bounds are enough to be interesting.

- Outbox: three rows with batches of two make a second batch start while the
  other server still has the first in hand; two faults allow a failed mark
  followed by a stop, on one server or on two.
- Live sync: two versions are the fewest with an older and a newer event, and
  with two MCP writers and HTTP every pair of publication paths can cross, and a
  POST can meet a row that is there. POST has no fault of its own that PATCH has not
  and is left out beside the faults. With one node nothing about
  other nodes can hide: nodes meet only in the outbox, whose order is checked
  by itself.
- Ledger: three slots give a last, a middle and a reused id; three rows let an
  edge have a question, a verdict and then the row of the edge that got its id, or
  each edge have its row. The
  tenth edge needs ten; its run follows only behaviours in which edges are added
  and nothing fails (`OnlyAdds`), which loses no generality in a counterexample.
- Store: three calls let one process fail with the lock, the other meet the lock
  and then a stale snapshot; two clusters let a split or merge touch both.
- Stores and registry: the third file is one made anew where one was deleted;
  two requests reach a workspace and come back, or race each other from two
  servers; three starts let one of the servers come back; three migrations are a first,
  whose script commits by itself, and two more to stop between.
- Secrets: with two actors and three inodes, one can own the main file while
  another writes the temporary one under the same name. Four calls are a bind, a
  validation, and two that overlap with them.
- Edits: two nodes, because the flag is shared; one save of the panel and one of
  the reader, each of which may be answered late or never.
- Analyses: the inputs are chosen so that each tie, cap, limit and empty case
  occurs (page sizes below, at and above the limit; more nodes than a dossier
  takes; weights on both sides of a threshold). A graph starts with verdicts or
  with clusters of any standing, not both (`JudgedOrRouted`): verdicts rank
  edges, clusters pick anchors. A source that starts bound starts with plain
  columns (`PlainOrUnbound`); it drifts to the others. A KPI starts without
  lineage or with all of it unconfirmed, so that three calls are enough to delete
  an edge with a verdict and draw it again. The gold set of calibration is
  the repository's own for two relationships; 2 verdicts
  instead of 10 (`MIN_EXAMPLES_PER_TYPE`) are enough to judge a relationship without it, so that
  two edges can have too few, enough of both kinds, or enough of one kind only. Four turns build a
  ledger of two verdicts, and change it after a cache was made. Three writes of nodes are a text, its replacement while an
  embedder holds the old one, and one more that repairs it.

The bounds are constants in the guards, and all are named `Max...`. Deadlock is
not checked: every process may idle for ever, and behaviours end where the
bounds are used up. Symmetry (processes, nodes, workspaces or sources that are
alike) is used where no liveness is checked.

Properties worth a word.

- `StaleOnlyIfExplained` is the core of live sync: when nothing is under way to a
  loaded page, it shows what is stored, except for nodes in `astray` or `missed`.
  The two sets are exact about why: overtaken, told in part (a POST with less than
  the row), not told at all (imports, bindings, faults), or not heard by this page. Every other way to be stale (a buffer applied
  out of order, an event lost in the flush, a snapshot applied over newer events)
  is excluded. `ShowsWithoutRefresh` drops `missed` and fails; `PagesCatchUp` is
  the liveness counterpart.
- `QuestionStaysOpen`: although two processes may read back and ledger each
  other's edges, no row about an edge closes that edge's own question.
- `NoAddIsLost` and `LedgerDescribesEdges` are stated for operations that do not
  overlap, because overlapping ones do lose edges (the COUNT is a statement of
  its own). They still range over aborted calls, deletes and reused ids. An edge
  written under an id of its own can leave a gap in the numbers (edge 2 alone, or edge
  1 moved to another pair); the next add then counts to an id that is taken and
  overwrites it, with one writer only, so `NoAddIsLost` excludes that too
  (`scattered`), until the pair is deleted.
- `ServersRecover`: whatever a UI server's connection is in, the poller's next
  commit frees it. An MCP process has no poller: nothing says as much of it, and
  the run has behaviours in which one keeps the write lock until its next call.
- `OpenStoresAreWhole`: a session serves a file that has every migration, though
  openers interleave, stop between script and stamp, and may stamp a lower
  version than the file has.
- `ValidWasProbed`: however calls interleave, a binding is marked valid only if
  that very binding was probed. Validation writes back a copy of the file loaded
  before the probe, and so may undo other writers' changes: `BindingsAreKept` (in
  `BindingFileIsSound`) says that only overlapping writers lose anything. Its other
  half, `ReadableOrExplained`, is exact about a file that cannot be parsed: it is
  being written under the main name, was left so by a writer cut short, or is two
  texts in one, and each of the three takes two writers.
- `ServersEndAsAsked` lists what ends a server besides being stopped. All of it is in
  the MCP server's loop, where nothing catches what `open_workspace` raises outside
  its `try`, except that a server of either kind may meet a spoilt registry at its
  start. An opening that fails, or an error in a route, ends no server.
- `EditsAreSound`: while a node is under edit, text typed and not saved stays in
  the index whatever events arrive, unless a save's answer came after it was
  typed (`disarmed`: the answer clears the flag, and
  `tests/test_ui_runtime_behavior.py:1849` preserves edits only while it is set);
  and no save puts back a text older than an agent's that the page had taken in.
  Leaving edit mode with Escape and the deletion of the node end the edit.
- `DossierIsSound` includes `LineageWasConfirmed`: a source shown as confirmed was
  confirmed for that edge, unless the edge has the id of a deleted one and no
  row of its own (`inherited`).
- `CalibrationIsSound`: a cache is that of its server's ledger unless another server or a
  script appended since, the graph was deleted, or the server changed its store.
  `ExamplesRule`: enough verdicts on a relationship decide its thresholds alone, as
  `tests/test_suggest_connections.py:498` (test_per_graph_differentiation) has it; too
  few move nothing while they agree with the gold set. Suggestions and assessments fail for the
  named reasons only.
- `AnchorsAreRight` (in `RetrievalIsFaithful`): a node that the text search and the
  embeddings both put before another is not ranked after it, as far as the hits of
  the text search are taken. An earlier form spoke of all hits; the attempt to prove it
  failed on two nodes whose hits both lie beyond the first `3 * MAX_ANCHORS`, which
  the code drops before it ranks.
- `LineageIsAccountedFor` (in `DossierIsSound`): no edge the KPI is measured by goes
  unmentioned in a dossier that is not truncated, and the two exceptions are named.
- `VectorsAreExplained`: a vector of another text than the node's has one of
  three causes, and no other interleaving of updates, deletions, re-creations
  and backfills leaves one. None of the three is repaired by a backfill, which
  passes over every node with some vector.

Fairness. The poller is a loop on the server's event loop and continues while
the server is up: weak fairness of its steps. A tool call or request that has
begun runs on: weak fairness of `Continue` in GraphStore, of the handlers in
LiveSync. In the page, the reconnect timer, the two fetches and the socket's
message callbacks run: weak fairness of `Subscribe`, of
`Snapshot \/ ApplySnapshot` and of `Deliver`. Nothing is assumed of writers
beginning to write, of servers starting or of users; `FetchFails` needs no
fairness and excuses a page for good; while the server is up it counts as a
fault.

Every property of a passing run has a mutant in `PROJECT.json`: an operator that
changes one definition the way a plausible bug would, under which TLC finds the
property violated.

## 4. Findings

1. `ShowsWithoutRefresh` (live_sync_refresh). The page starts its socket and its
   snapshot fetch side by side, and the socket's open handler fetches nothing. A
   change committed and published after the snapshot was read and before the
   subscription is never shown, with one writer and no fault. The same happens at
   every reconnect.
2. `VerdictAnswersPending` (ledger_two_verdicts). `resolve_confirmation` checks and
   appends in two statements: two processes can both judge one question, with
   different outcomes.
3. `SensitiveEdgeIsQuestioned` (ledger_tenth_edge). From the tenth parallel edge
   on, `query_edges(...)[-1]` is edge 9, so the new edge gets no ledger row.
4. `SuggestionsAreAnswered` (calibration_verdicts). Verdict rows carry no label and
   no confidence, and calibration reads both from them: from the first verdict to
   the first of the other outcome, `suggest_connections` fails in every server
   without a cached report; and a verdict given with that tool never moves the thresholds
   of its relationship, as one does that a script appends.
5. `SavesKeepRenames` (edit_rename). A save from the panel sends the label of the
   page's first copy, which no event updates, and so undoes an agent's rename.

Met while modelling, part of the models, and not findings of a run:

- the calibration of `assess_currency` reads a relative path and fails unless the
  server was started in the repository's root (`grounding.py:149` cares for that in
  suggest_connections only);
- the dossier's currency is always empty: `_extract_currency_gaps` reads "gaps" or
  "criticality_ranked_gaps" where assess_currency returns "ranked_gaps"; its
  coverage is always 0, as no tool writes ledger rows about nodes;
- the map of baselines is looked up by a table's name in any case "to tolerate
  table-name spelling drift" (`connectors/change_detection.py:242-243`), and
  cosmetic differences are never to give a false "changed" (lines 16-17), but the name
  is hashed as it is spelled: a table documented as 'data' and explored as 'Data' is
  called changed, with an empty delta (`VerdictIsRight` in SourceExploration);
- ranked pages of snapshot_edges skip edges; the cursor's mode is stored and never
  checked; `neighborhood` is validated and filters nothing; an offset listing
  skips after a removal;
- clusters replace the focal anchor; dangling edges use up the limit; a hit of the
  embeddings alone may come before the best lexical hit;
- a confirmed container without a Data Source above it appears nowhere in a
  dossier, and a confirmed field only under a confirmed container;
- the desktop shell's instance lock is checked and then created, and never holds
  where `is_process_alive` always answers false (`src-tauri/src/main.rs:34`).

## 5. Proofs

All theorems are for arbitrary constants. Every invariant and every action property
that a passing run checks is the subject of one; the runs show it on a small
instance.

| module | about | theorems (property, where its name differs) |
|---|---|---|
| Ordering_proofs | Ordering | lemmas: what a sorted set is, and its beginning |
| EventOutbox_proofs | EventOutbox | TypeCorrect, NothingLost (NothingDroppedUnpublished), FirstPublishOrder (FirstPublishInOrder), NoRepeatWithoutFailedMark (RepeatOnlyAfterFailedMark), OutboxDelivers (ImplementsOrderedDelivery) |
| LiveSync_proofs | LiveSync | SyncTypeCorrect (TypeOK), StaleOnlyIfExplainedAlways |
| Ledger_proofs | Ledger | TypeCorrect, VerdictsHaveQuestions (VerdictFollowsQuestion), QuestionsStayOpen, NoAddIsLostAlways, LedgerDescribesEdgesAlways |
| GraphStore_proofs | GraphStore | TypeCorrect, CountsFollowAlways, WritesKeptAlways (WritesAreKept), StatusAsAskedAlways, LockExcludes |
| Hosts_proofs | Sessions | TypeCorrect, ServedStoresAreWhole (OpenStoresAreWhole), SessionsStay, RegistrationsKept, ServersEnd |
| | SourceBindings | BindingsTypeCorrect, ValidWasProbedAlways, BindingFileSoundAlways, CopiesAgreeAlways |
| | EditSession | EditTypeCorrect, EditsAreSoundAlways |
| | MC_Hosts | HostsTypeCorrect (TypesOK) |
| Analyses_proofs | Calibration | CalibrationSoundness (CalibrationIsSound) |
| | SourceExploration | ExplorationTruth (ExplorationIsTruthful) |
| | NodeVectors | VectorsExplainedAlways (VectorsAreExplained) |
| Reports_proofs | Dossier | DossierSoundness (DossierIsSound) |
| | Paging | PagingSoundness (PagesAreWhole) |
| | Retrieval | RetrievalFaithful (RetrievalIsFaithful) |

**Assumptions.** Bounds are numbers; a subset is a subset; the batch limit, the
receipt capacity and the last migration are positive; the radix is above 1. The
markers for nothing are not values (`NoNode`, `NoCard`, `Unset`, `Gone`, `NoEdge`;
for files, `Unwritten`, `Garbled`, `Partial`, `Jumbled`): in the code they are None, an absent row and an absent file.
Sets that are counted are finite: nodes in GraphStore (rows of a table), writers in
LiveSync (processes of a machine; the bound on writes counts those about to
upsert). SourceBindings has more inodes than actors, so that a file can always be
created. Of what the tools read: ids are numbers and name one thing; there are
finitely many nodes, edges, clusters and lines of the gold set (rows and lines of
files), and no line of the gold set has the id of an edge; scores, weights and sizes are not negative; the limits a caller may leave
out have defaults between 1 and their maximum. A hit list names a node once,
because the text index and the vectors have one row per node. A type has a window
and a weight. An exploration shows fewer rows than a sheet is sampled for (5 and
50, `EXPLORE_ROWS < PROFILE_SAMPLE_ROW_LIMIT`): otherwise a sheet with more rows than
the sample would be shown whole as far as the agent can tell. The gold set has enough
lines of each label, and in each the valid ones weigh more than the others; both
are what `GoldSetIsWhole` and `GoldSetIsSeparated` say of the repository's own file. TLC
evaluates every one of these assumptions in the runs, the last ones on that file.

**EventOutbox.** `TypeCorrect` is inductive by itself. The three safety properties
need what is in the pollers' hands. The inductive invariant `OutboxInv` adds to
`TypeOK`, `NothingDroppedUnpublished` and `FirstPublishInOrder`:

- `SentWasEmitted`: ids a server has sent from its batch have been emitted;
- `BatchHasNoGap`: below every id of a batch, each id is in the batch or was
  emitted, so that the next one to publish has all its predecessors emitted;
- `BusIsSettled`: on a server none of whose marks failed, nothing in the batch
  is on the bus already, and what is on the bus and not waiting in `sent` for
  its mark is no longer unpublished, so that no fetch can read it again.

The lemma `FirstOfIsPrefix` (a batch cut by LIMIT skips nothing) carries the
argument. `OutboxDelivers` then maps each step to a step of `OrderedDelivery` or to a
stutter, with `seen <- emitted` and `held <- Unpublished`: `Start` and the
repeats change nothing, `Publish` is `HandOver`, `Mark` is `Forget`.

**LiveSync.** The types need two companions: what a tool or a request is about to
announce is a node and, past its second read, a version that is there
(`WorkIsWhole`), and versions handed out and promised stay within the bound
(`Budget`). `StaleOnlyIfExplained` follows a change on its way to a page, so the
invariant `SyncInv` says where it is at each moment:

- `PollerOrder`: rows go out in id order within a pass, and the poller has
  nothing in hand while a request is served;
- `Traced(n)`: a node that is not astray has at most one announcer, what will be
  announced is what is stored, and with no announcer the last pending row about
  the node says what is stored. This is where `astray` has to be exact;
- `WillShow(v, n, x)`: the last event about n in the channel, else the last one in
  the buffer, else what the page has read, says x; `Follows(v, n)`: for a node whose
  change has been put on the bus, a page that has not missed it will show what
  is stored. This is where `missed` has to be exact.

A settled page has nothing in its channel or buffer, so that what it will show is
what it shows. The steps that matter are `Broadcast` (every commit that makes a
node quiet puts an event that says it on the bus) and `ApplySnapshot`, where the
lemmas on `Flushed` show that a flush ends in the last event about each node.

**Ledger.** `LedgerInv` adds two facts to the types: a process about to write a
verdict has a question on its slot (`VerdictHasQuestion`), and questions are about
sensitive edges only (`QuestionsAreSensitive`). The first gives
`VerdictsHaveQuestions`; the second gives `QuestionsStayOpen`: the row that closes a
question and is no verdict is "inferred", hence about an edge with another
label, hence about another edge. For the other two, `AddInv`: without overlap one
process is at work and the used slots are 1..n, where n + 1 is the slot an insert is
about to fill (`SlotsInOrder`). A write by id that leaves no gap keeps this, and
replaces one edge only, as no edge is in two slots (`ByIdInv`). `DescribedInv` adds the rows: each edge with a
one-digit id has its row, but for the newest while its add goes on, and what that
add has read back is the newest edge, as up to `Base` edges the order of texts is
the order of numbers (the lemmas on `Digits` and `ComesAfter`).

**GraphStore.** `WritesAreKept` and `StatusIsAsAsked` are inductive beside the types:
each call carries the row it read, and the step that merges into another one
names the race. `CountsFollow` is not: an import stores its counts
first and its rows later, each in a commit. `CountsInv` says that between calls
that are moving rows the counts are right (`CountsUnlessMoving`), that an import
that nobody overlaps finds its own rows at each of its steps (`Alone`), and that no
rows exist without a graph (`RowsHangOnGraph`). `LockExcludes` states what a run
shows only through the others: one connection at most holds the write lock, and
rows without a commit are its own.

**Sessions.** `SessionsInv` is the types, the two properties it gives
(`OpenStoresAreWhole`, `SessionsStayInTheirWorkspace`) and three facts. Files are
numbered as they are made and no number above `created` is in use
(`StoresAreNumbered`), so that a new file is nobody's. What an opener believes of
its file is true (`OpenersAreRight`): the migrations below the one it is at are in
the file, and the file is the one at its root or at none. What a process
remembers of a path holds of the file it remembers (`MemoryIsRight`): migrations
are never taken back, so a memory stays right. `RegistrationsKept` needs
`WritersAreAlone` beside it: as long as no two writers of the registry overlapped
and none was cut in the middle, there is at most one, and what it holds is the
registry with its change made. It needs `CutIsKnown`: a registry that is cut has a
writer or had one that was cut short, a jumbled one had two, and a lone writer finds
what it truncated. `ServersEnd` is an action property; it follows from `CutIsKnown`
and from what a process may load the registry for (`PurposesAreRight`).

**SourceBindings.** `ProbedInv` extends `ValidWasProbed` from the files to the
copies and records that calls hold, as any of them may be written back. `FileInv`
has two halves: writers that do not overlap are alone with the files, so that a
copy in hand is the file and the temporary file is the writer's own (`OneWriter`);
where they do overlap, a file without content under the main or the temporary
name is being written, or its writer was cut short beside another
(`MainExplained`, `TmpExplained`), and a garbled one took two (`GarbledByTwo`). `CatalogInv` and `NodeInv` are the same for the two
files of the catalog and for the copy on the node.

**EditSession.** `Armed`: a draft that no answer has disarmed is under edit, with
the flag set and its text in the entry. `KnownTexts`: whoever was shown the text
that an agent wrote last (the index, the reader, a save under way, an answer that
is yet to be applied) holds a text that is not older; with `UpToClock`, no text is
newer than the clock, so that an agent's next one is newer than all.

**Side by side.** `MC_Hosts` gives each behaviour to one of the three modules, by
`part`. `HostsTypeCorrect` shows that their type invariants hold together all the same: each
module's invariant holds at the start of all three, and a step of one leaves the
others' variables alone.

**Ordering.** `OrderedSequence`: in a finite set with a strict total order each element has a
place, each place is taken, and the sequence InOrder holds the elements at their
places, by way of a bijection onto 1..n. `OrderedBeginning` adds LIMIT: what is cut
off comes after everything that is kept.

**NodeVectors.** Nothing but the history relates a text that is held to the text
there is. The strengthening is that the history is right: what a process holds
of a node is the node's text, unless it has missed a write
(`HeldTextsAreCurrent`).

**Calibration.** Nothing but the ledgers and the caches decides an answer.
`CalibrationInv` says that the latest rows are ones the code or a script writes
(`RowsAreKnown`), that the classes of each cache are sound (`CachesAreSound`) and, unless it is
outdated, those of the ledger its server has open (`CachesAreCurrent`). The rest is about the
algorithm, for any finite set of records: the bands leave a gap, the matrix counts
each record once, and verdicts too few to stand alone that are judged by the gold
thresholds as they were given leave these where they are (`AgreementMovesNothing`,
`ReportKeepsRule`): the heaviest invalid and the lightest valid example are still lines of the
gold set.

**SourceExploration.** The baseline tells what was documented only while it is
written in one shape (`OneShape` is a premise of the property). `ExplorationInv` therefore says
what it holds in either shape (`MapIsDocs`: one entry per documented table, with its
columns; `FlatIsDocs`: the hash and snapshot of the one table), that a valid binding
keeps what was probed (`BindingKeepsProbe`), and that the answer last given is the one
this baseline gives (`AnswerIsOfBaseline`). `ScopeOfTable` says which baseline a table is
compared with, its own or that of another spelling, and `DeltaOfTheSame` that the
delta of a false alarm is empty. `PatchGivesNew` is the lemma about the delta: applied
to the documented columns it gives the ones read.

**Dossier.** A report is dropped by the next write, so that `DossierInv` is about the
graph there is: `ReportIsOfNow`, and `ConfirmedIsVouched`, that an edge found confirmed was
confirmed since it was added, or came without a row. Concurrent drafts can make
parents go in circles, and two searches must agree in spite of them: the one down from the
source, level by level, and the one up from a node. The way up is a sequence of
parents (`ClimbsUp`); what is reached in k levels climbs to the source in k steps and the
other way round (`ReachedHangs`, `HangingIsReached`); and a node has one way up.

**Paging.** `WalkInv` follows an edge that was there all along: it has been shown, was
cut by a ranked page, or is ahead of the cursor (`NothingIsBehind`); a page cuts at
most one edge and the last cuts none (`CutsAreFew`), because a row more than the page is
fetched and no more; in table order the cursor is the last edge shown
(`CursorIsLast`). A row is a label and an id, and no two rows have one id (`TableOK`);
writing an id takes its old row away, which is what leaves the rows nobody wrote the
only ones of their ids among those shown. `ListingInv` is its counterpart for offsets: an entry not yet shown has its
place at or after the offset, since entries may only be added while nothing is
removed (`NothingIsSkipped`).

**Retrieval.** An answer leaves the graph alone, so that the invariant is the type
of the graph (`GraphOK`) and the property, and the work is in lemmas about each stage of
an answer, for any graph and question: `AnchorsAreOK` (the routes' anchors, or
the focal node and the hits, none of them twice), `ReachIs` (two levels of the search are the
distance, and members of a route are one hop away), `CapIs` and `NearestIsOK` (what
the cap keeps is no farther than what it cuts, and it is full when it cuts),
`EdgesAreOK` (no tier is the same as invalidated), `TextIsOK` (bytes of disjoint sets add
up, and `LongText`: what is freed counts once for every anchor, so that enough is
freed), `SearchIsRight` (a reciprocal falls at every rank, `ReciprocalFalls`), `SuggestIsOK`.

**What stays with TLC.** Liveness (`EveryRowPublished`, `PagesCatchUp`,
`ServersRecover`) holds under fairness, which is out of TLAPS's reach, as is ENABLED. No
induction principle of the library can be used, as each takes an operator as a
parameter. Where an argument goes step by step (the digits of an id, the flush
of a buffer, levels of a search, the way up to the source), it is by way of a
least counterexample instead (`LeastNumber`): a non-empty set of numbers has a least
element, by the library's theorem on well-founded orders, and the step below that
element contradicts it. The byte size of a page of edges, a fold over it, is the
one number no theorem says anything about: it decides only whether an answer is
refused as too long, which leaves the walk where it was, and the theorem holds whichever it
decides.

## 6. Plan

What could be added, in this order:

1. The desktop shell: launch, readiness, time-out, stop, and the instance lock.
2. Pending questions and the business dossier, which inserts its questions again
   at every call.
3. Edge events in LiveSync, which take the path of node events.

## 7. Not modelled

- Desktop shell: planned. It shares only a port with the rest; its faults are an
  orphaned sidecar after a crash and a child forgotten on time-out.
- Pending questions (plain inserts; no tool resolves one) and the business
  dossier (pure but for them).
- Rendering, theme, physics, layout, HTML and the other panels: one snapshot to
  markup; highlights, placement and presence in the live page.
- Ontology tables, faithfulness scores, evaluation, strength scoring: pure
  functions without branches that a state could reach wrongly, covered by unit
  tests.
- Clients of PostgreSQL, AWS and Google, formulas and charts of sheets, messages of
  errors; repair of stores by hand; evidence rows, the search index, the hidden
  flag.
- Formatting and validation of tool inputs; authentication of the API.
- SQLite itself, taken to serialise writing transactions, to give a transaction
  one snapshot, and to refuse a write to a stale one.
