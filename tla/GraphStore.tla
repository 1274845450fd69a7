----------------------------- MODULE GraphStore -----------------------------
(***************************************************************************)
(* The tables of one graph and the connections that write to them          *)
(* (store/graph_store.py, store/repository.py).  Each process has one      *)
(* SQLite connection.  A call is a sequence of SELECTs and of statements   *)
(* that repository methods commit one by one, so calls interleave at every *)
(* commit; and no method rolls back, so a call that fails leaves its       *)
(* connection inside a transaction:                                        *)
(*                                                                         *)
(*  - a statement that violates a constraint has taken the write lock and  *)
(*    keeps it, with the rows written before it (holding, loose);          *)
(*  - a statement that finds the lock taken leaves an open transaction.    *)
(*    The next SELECT fixes its snapshot (pinned); once another process    *)
(*    has committed (stale), SQLite refuses every write in it.             *)
(*                                                                         *)
(* Only a commit ends that, of a later call or of the UI server's poller.  *)
(*                                                                         *)
(* Covered: nodes, edges of one pair, clusters and their members, counts,  *)
(* import, creation and deletion of the graph.  Left out: evidence, the    *)
(* search index, embeddings, the audit row and the event that end a call   *)
(* (see LiveSync), the hidden flag.                                        *)
(***************************************************************************)
EXTENDS Naturals, FiniteSets

CONSTANTS
    Process,     \* processes with a connection to the store
    Server,      \* those that are UI servers
    Node,        \* node ids
    NoNode,      \* no parent
    Gone,        \* no row with this id
    Cluster,     \* cluster ids
    Payload,     \* graphs that are imported: [nodes, edges, parent]
    MaxEdges,    \* bound: edges of the pair
    MaxCalls,    \* bound: calls begun
    MaxFaults    \* bound: processes that stop

ASSUME StoreAssumption ==
    /\ Server \subseteq Process
    /\ IsFiniteSet(Node)
    /\ Gone \notin [{"label", "details"} -> {0, 1}]
    /\ MaxEdges \in Nat /\ MaxCalls \in Nat /\ MaxFaults \in Nat
    /\ Payload \subseteq [nodes : SUBSET Node, edges : 0 .. MaxEdges,
                          parent : Node \union {NoNode}]

VARIABLES
    graph,      \* the row of the graphs table
    nodes,      \* the nodes table
    edges,      \* the edges table: k stands for the id "s->t#k"
    clusters,   \* status in the metadata of each cluster
    members,    \* the cluster_members table
    conn,       \* state of each connection
    loose,      \* member rows written but not committed, by who holds the lock
    call,       \* what each process is doing
    expect,     \* history: nodes, had each call been one step
    raced,      \* history: nodes written from a row that was out of date
    emptied,    \* history: an import failed after it had deleted the nodes
    asked,      \* history: status each cluster was last given by a call
    racedClusters, \* history: clusters rewritten from a row that was out of date
    skewed,     \* history: the counts were left behind, by a cause named below
    calls, faults

tables == <<graph, nodes, edges, clusters, members>>
history == <<expect, raced, emptied, asked, racedClusters, skewed>>
vars == <<tables, conn, loose, call, history, calls, faults>>

Field == {"label", "details"}

\* A field holds what it was imported with (0) or what a patch wrote (1).
Content == [Field -> {0, 1}]
Blank == [f \in Field |-> 0]
Status == {"proposed", "confirmed", "archived"}

Idle == [step |-> "idle"]
Call ==
    {Idle}
    \union [step : {"upsertNode"}, node : Node, field : Field,
            labelled : BOOLEAN, row : Content \union {Gone}]
    \union [step : {"deleteNode"}, node : Node]
    \union [step : {"insertEdge"}, slot : 1 .. MaxEdges]
    \union [step : {"deleteEdges", "refresh", "createMeta", "deleteGraph"}]
    \union [step : {"saveMeta", "clearNodes", "saveNodes", "saveEdges"},
            payload : Payload, overlapped : BOOLEAN, leftover : BOOLEAN]
    \union [step : {"saveCluster", "saveMembers"}, cluster : Cluster, who : SUBSET Node]
    \union [step : {"setStatus"}, cluster : Cluster, status : Status]
    \union [step : {"rewrite"}, cluster : Cluster, from : Cluster, status : Status]

TypeOK ==
    /\ graph \in [there : BOOLEAN, nodeCount : Nat, edgeCount : Nat]
    /\ nodes \in [Node -> Content \union {Gone}]
    /\ edges \in SUBSET (1 .. MaxEdges)
    /\ clusters \in [Cluster -> Status \union {Gone}]
    /\ members \in SUBSET (Cluster \X Node)
    /\ conn \in [Process -> {"auto", "open", "pinned", "stale", "holding"}]
    /\ loose \in SUBSET (Cluster \X Node)
    /\ call \in [Process -> Call]
    /\ expect \in [Node -> Content \union {Gone}]
    /\ raced \in SUBSET Node
    /\ asked \in [Cluster -> Status \union {Gone}]
    /\ racedClusters \in SUBSET Cluster
    /\ emptied \in BOOLEAN /\ skewed \in BOOLEAN
    /\ calls \in 0 .. MaxCalls /\ faults \in 0 .. MaxFaults

NoNodes == [n \in Node |-> Gone]
NoClusters == [c \in Cluster |-> Gone]
NoGraph == [there |-> FALSE, nodeCount |-> 0, edgeCount |-> 0]

Init ==
    /\ graph = [there |-> TRUE, nodeCount |-> 0, edgeCount |-> 0]
    /\ nodes = NoNodes
    /\ edges = {}
    /\ clusters = NoClusters
    /\ members = {}
    /\ conn = [p \in Process |-> "auto"]
    /\ loose = {}
    /\ call = [p \in Process |-> Idle]
    /\ expect = NoNodes
    /\ raced = {}
    /\ emptied = FALSE
    /\ asked = NoClusters
    /\ racedClusters = {}
    /\ skewed = FALSE
    /\ calls = 0
    /\ faults = 0

-----------------------------------------------------------------------------
(* Connections *)

\* SQLite lets one connection write at a time, and none from an old snapshot.
CanWrite(p) ==
    /\ conn[p] # "stale"
    /\ \A q \in Process \ {p} : conn[q] # "holding"

Stored == {n \in Node : nodes[n] # Gone}

\* Another process committed while an import was under way.
Disturbed(c) ==
    IF c.step \in {"saveMeta", "clearNodes", "saveNodes", "saveEdges"}
       THEN [c EXCEPT !.overlapped = TRUE] ELSE c

\* A statement succeeds and is committed; the call goes on with next.  What an
\* earlier call of this process had left uncommitted is committed with it.
Commit(p, next) ==
    /\ CanWrite(p)
    /\ conn' = [q \in Process |-> IF q = p THEN "auto"
                                  ELSE IF conn[q] = "pinned" THEN "stale" ELSE conn[q]]
    /\ loose' = {}
    /\ call' = [q \in Process |-> IF q = p THEN next ELSE Disturbed(call[q])]

\* A call begins with a SELECT, which fixes the snapshot of an open transaction.
Begin(p, first) ==
    /\ call[p] = Idle
    /\ calls < MaxCalls
    /\ calls' = calls + 1
    /\ call' = [call EXCEPT ![p] = first]
    /\ conn' = [conn EXCEPT ![p] = IF @ = "open" THEN "pinned" ELSE @]
    /\ UNCHANGED <<tables, loose, history, faults>>

\* A constraint stops the call: the lock stays with the connection.
Violate(p, rows) ==
    /\ CanWrite(p)
    /\ conn' = [conn EXCEPT ![p] = "holding"]
    /\ loose' = loose \union rows
    /\ call' = [call EXCEPT ![p] = Idle]

\* What an unfinished call leaves behind, whatever ended it.
LeftUndone(p) ==
    /\ skewed' = (skewed \/ call[p].step \in {"refresh", "clearNodes", "saveNodes", "saveEdges"})
    /\ emptied' = (emptied \/ call[p].step = "saveNodes")
    /\ UNCHANGED <<expect, raced, asked, racedClusters>>

\* "database is locked": after the busy timeout, or at once from an old snapshot.
Refused(p) ==
    /\ call[p] # Idle
    /\ ~CanWrite(p)
    /\ conn' = [conn EXCEPT ![p] = IF @ = "auto" THEN "open" ELSE @]
    /\ call' = [call EXCEPT ![p] = Idle]
    /\ LeftUndone(p)
    /\ UNCHANGED <<tables, loose, calls, faults>>

\* The process ends; SQLite rolls back what it had not committed.
Stop(p) ==
    /\ faults < MaxFaults
    /\ faults' = faults + 1
    /\ conn' = [conn EXCEPT ![p] = "auto"]
    /\ loose' = IF conn[p] = "holding" THEN {} ELSE loose
    /\ call' = [call EXCEPT ![p] = Idle]
    /\ LeftUndone(p)
    /\ UNCHANGED <<tables, calls>>

\* Mutant of PollerCommit: a round that polls without committing first.
PollerReads(s) ==
    /\ call[s] = Idle /\ conn[s] # "auto"
    /\ conn' = [conn EXCEPT ![s] = IF @ = "open" THEN "pinned" ELSE @]
    /\ UNCHANGED <<tables, loose, call, history, calls, faults>>

\* Each round of a server's outbox poller begins with a commit.
PollerCommit(s) ==
    /\ call[s] = Idle /\ conn[s] # "auto"
    /\ conn' = [q \in Process |->
                  IF q = s THEN "auto"
                  ELSE IF conn[q] = "pinned" /\ conn[s] = "holding" /\ loose # {} THEN "stale"
                  ELSE conn[q]]
    /\ members' = IF conn[s] = "holding" THEN members \union loose ELSE members
    /\ loose' = IF conn[s] = "holding" THEN {} ELSE loose
    /\ UNCHANGED <<graph, nodes, edges, clusters, call, history, calls, faults>>

\* A tool that only reads fixes the snapshot of an open transaction as well.
Browse(p) ==
    /\ call[p] = Idle /\ conn[p] = "open"
    /\ conn' = [conn EXCEPT ![p] = "pinned"]
    /\ UNCHANGED <<tables, loose, call, history, calls, faults>>

-----------------------------------------------------------------------------
(* Nodes: update_node, POST and PATCH /api/nodes, delete_node *)

\* Mutant of Patched: a patch is added to what is there.
PatchedTwice(row, f) == [(IF row = Gone THEN Blank ELSE row) EXCEPT ![f] = @ + 1]

\* A node row after a patch of one field (_merge_json for details).
Patched(row, f) == [(IF row = Gone THEN Blank ELSE row) EXCEPT ![f] = 1]

\* upsert_node up to its SELECT of the row.
BeginPatch(p, n, f, labelled) ==
    /\ graph.there
    /\ Begin(p, [step |-> "upsertNode", node |-> n, field |-> f,
                 labelled |-> labelled, row |-> nodes[n]])

\* Mutant of UpsertNode: every column comes from the call.
UpsertRowOnly(p) ==
    LET c == call[p] IN
    /\ c.step = "upsertNode" /\ graph.there /\ (c.row = Gone => c.labelled)
    /\ nodes' = [nodes EXCEPT ![c.node] = Patched(Gone, c.field)]
    /\ expect' = [expect EXCEPT ![c.node] = Patched(@, c.field)]
    /\ raced' = IF c.row # nodes[c.node] THEN raced \union {c.node} ELSE raced
    /\ Commit(p, [step |-> "refresh"])
    /\ members' = members \union loose
    /\ UNCHANGED <<graph, edges, clusters, emptied, asked, racedClusters, skewed, calls, faults>>

\* The row as read, merged with the patch, replaces every column.
UpsertNode(p) ==
    LET c == call[p] IN
    /\ c.step = "upsertNode" /\ graph.there /\ (c.row = Gone => c.labelled)
    /\ nodes' = [nodes EXCEPT ![c.node] = Patched(c.row, c.field)]
    /\ expect' = [expect EXCEPT ![c.node] = Patched(@, c.field)]
    /\ raced' = IF c.row # nodes[c.node] THEN raced \union {c.node} ELSE raced
    /\ Commit(p, [step |-> "refresh"])
    /\ members' = members \union loose
    /\ UNCHANGED <<graph, edges, clusters, emptied, asked, racedClusters, skewed, calls, faults>>

\* No label for a new node (NOT NULL), or no graph any more (FOREIGN KEY).
UpsertFails(p) ==
    LET c == call[p] IN
    /\ c.step = "upsertNode"
    /\ ~graph.there \/ (c.row = Gone /\ ~c.labelled)
    /\ Violate(p, {})
    /\ UNCHANGED <<tables, history, calls, faults>>

BeginDeleteNode(p, n) ==
    graph.there /\ Begin(p, [step |-> "deleteNode", node |-> n])

\* Memberships go with the node (ON DELETE CASCADE).
DeleteNode(p) ==
    LET n == call[p].node IN
    /\ call[p].step = "deleteNode"
    /\ nodes' = [nodes EXCEPT ![n] = Gone]
    /\ members' = {m \in members \union loose : m[2] # n}
    /\ expect' = [expect EXCEPT ![n] = Gone]
    /\ raced' = raced \ {n}
    /\ Commit(p, [step |-> "refresh"])
    /\ UNCHANGED <<graph, edges, clusters, emptied, asked, racedClusters, skewed, calls, faults>>

\* Mutant of Refresh: only the nodes are counted.
RefreshNodes(p) ==
    /\ call[p].step = "refresh"
    /\ graph' = [graph EXCEPT !.nodeCount = Cardinality(Stored)]
    /\ skewed' = FALSE
    /\ Commit(p, Idle)
    /\ members' = members \union loose
    /\ UNCHANGED <<nodes, edges, clusters, expect, raced, emptied, asked, racedClusters, calls, faults>>

\* _refresh_graph_counts, which ends every write to nodes and edges.
Refresh(p) ==
    /\ call[p].step = "refresh"
    /\ graph' = IF graph.there THEN [there |-> TRUE, nodeCount |-> Cardinality(Stored),
                                     edgeCount |-> Cardinality(edges)]
                ELSE graph
    /\ skewed' = FALSE
    /\ Commit(p, Idle)
    /\ members' = members \union loose
    /\ UNCHANGED <<nodes, edges, clusters, expect, raced, emptied, asked, racedClusters, calls, faults>>

-----------------------------------------------------------------------------
(* Edges of the pair: add_edge, POST /api/edges, delete_edge *)

BeginAddEdge(p) ==
    /\ graph.there /\ Cardinality(edges) < MaxEdges
    /\ Begin(p, [step |-> "insertEdge", slot |-> Cardinality(edges) + 1])

\* The id may be taken by now: ON CONFLICT DO UPDATE.
InsertEdge(p) ==
    /\ call[p].step = "insertEdge" /\ graph.there
    /\ edges' = edges \union {call[p].slot}
    /\ Commit(p, [step |-> "refresh"])
    /\ members' = members \union loose
    /\ UNCHANGED <<graph, nodes, clusters, history, calls, faults>>

InsertEdgeFails(p) ==
    /\ call[p].step = "insertEdge" /\ ~graph.there
    /\ Violate(p, {})
    /\ UNCHANGED <<tables, history, calls, faults>>

BeginDeleteEdges(p) == graph.there /\ Begin(p, [step |-> "deleteEdges"])

DeleteEdges(p) ==
    /\ call[p].step = "deleteEdges"
    /\ edges' = {}
    /\ Commit(p, [step |-> "refresh"])
    /\ members' = members \union loose
    /\ UNCHANGED <<graph, nodes, clusters, history, calls, faults>>

-----------------------------------------------------------------------------
(* The graph as a whole: create_graph, import_graph, hard delete *)

BeginCreate(p) == ~graph.there /\ Begin(p, [step |-> "createMeta"])

\* The row is written even if another process has created the graph meanwhile.
CreateMeta(p) ==
    /\ call[p].step = "createMeta"
    /\ graph' = [there |-> TRUE, nodeCount |-> 0, edgeCount |-> 0]
    /\ skewed' = (skewed \/ graph.there)
    /\ Commit(p, Idle)
    /\ members' = members \union loose
    /\ UNCHANGED <<nodes, edges, clusters, expect, raced, emptied, asked, racedClusters, calls, faults>>

BeginDeleteGraph(p) ==
    p \in Server /\ graph.there /\ Begin(p, [step |-> "deleteGraph"])

\* Every table but the search index hangs on the graph (ON DELETE CASCADE).
DeleteGraph(p) ==
    /\ call[p].step = "deleteGraph"
    /\ graph' = NoGraph /\ nodes' = NoNodes /\ edges' = {}
    /\ clusters' = NoClusters /\ members' = {}
    /\ expect' = NoNodes /\ raced' = {} /\ emptied' = FALSE
    /\ asked' = NoClusters /\ racedClusters' = {} /\ skewed' = FALSE
    /\ Commit(p, Idle)
    /\ UNCHANGED <<calls, faults>>

BeginImport(p, pl) ==
    Begin(p, [step |-> "saveMeta", payload |-> pl, overlapped |-> FALSE, leftover |-> FALSE])

\* The counts of the import are stored before anything else is.  Edges it
\* does not name will stay.
SaveMeta(p) ==
    LET pl == call[p].payload IN
    /\ call[p].step = "saveMeta"
    /\ graph' = [there |-> TRUE, nodeCount |-> Cardinality(pl.nodes), edgeCount |-> pl.edges]
    /\ Commit(p, [call[p] EXCEPT !.step = "clearNodes",
                                 !.leftover = ~(edges \subseteq 1 .. pl.edges)])
    /\ members' = members \union loose
    /\ UNCHANGED <<nodes, edges, clusters, history, calls, faults>>

\* The old nodes are deleted, and with them the members of every cluster.
ClearNodes(p) ==
    /\ call[p].step = "clearNodes"
    /\ nodes' = NoNodes
    /\ members' = {}
    /\ Commit(p, [call[p] EXCEPT !.step = "saveNodes"])
    /\ UNCHANGED <<graph, edges, clusters, history, calls, faults>>

\* Every parent is a stored or an incoming node.
ParentsValid(pl) == pl.parent \in {NoNode} \union pl.nodes \union Stored

SaveNodes(p) ==
    LET pl == call[p].payload IN
    /\ call[p].step = "saveNodes" /\ ParentsValid(pl) /\ (graph.there \/ pl.nodes = {})
    /\ nodes' = [n \in Node |-> IF n \in pl.nodes THEN Blank ELSE nodes[n]]
    /\ expect' = [n \in Node |-> IF n \in pl.nodes THEN Blank ELSE Gone]
    /\ raced' = Stored \ pl.nodes
    /\ emptied' = FALSE
    /\ Commit(p, [call[p] EXCEPT !.step = "saveEdges"])
    /\ members' = members \union loose
    /\ UNCHANGED <<graph, edges, clusters, asked, racedClusters, skewed, calls, faults>>

\* A missing parent raises before anything is written: the nodes stay deleted.
ParentMissing(p) ==
    /\ call[p].step = "saveNodes" /\ ~ParentsValid(call[p].payload)
    /\ call' = [call EXCEPT ![p] = Idle]
    /\ LeftUndone(p)
    /\ UNCHANGED <<tables, conn, loose, calls, faults>>

ImportFails(p) ==
    /\ ~graph.there
    /\ \/ /\ call[p].step = "saveNodes"
          /\ call[p].payload.nodes # {} /\ ParentsValid(call[p].payload)
       \/ call[p].step = "saveEdges" /\ call[p].payload.edges > 0
    /\ Violate(p, {})
    /\ LeftUndone(p)
    /\ UNCHANGED <<tables, calls, faults>>

\* Edges are added to those there; the counts are not refreshed.
SaveEdges(p) ==
    LET c == call[p] IN
    /\ c.step = "saveEdges" /\ (graph.there \/ c.payload.edges = 0)
    /\ edges' = edges \union (1 .. c.payload.edges)
    /\ skewed' = (c.overlapped \/ c.leftover)
    /\ Commit(p, Idle)
    /\ members' = members \union loose
    /\ UNCHANGED <<graph, nodes, clusters, expect, raced, emptied, asked, racedClusters, calls, faults>>

-----------------------------------------------------------------------------
(* Clusters: manage_clusters *)

BeginPropose(p, c, who) ==
    graph.there /\ Begin(p, [step |-> "saveCluster", cluster |-> c, who |-> who])

\* A proposal overwrites the cluster of that id, whatever its status.
SaveCluster(p) ==
    LET c == call[p] IN
    /\ c.step = "saveCluster" /\ graph.there
    /\ clusters' = [clusters EXCEPT ![c.cluster] = "proposed"]
    /\ asked' = [asked EXCEPT ![c.cluster] = "proposed"]
    /\ racedClusters' = racedClusters \ {c.cluster}
    /\ Commit(p, IF c.who = {} THEN Idle ELSE [c EXCEPT !.step = "saveMembers"])
    /\ members' = members \union loose
    /\ UNCHANGED <<graph, nodes, edges, expect, raced, emptied, skewed, calls, faults>>

SaveMembers(p) ==
    LET c == call[p] IN
    /\ c.step = "saveMembers"
    /\ c.who \subseteq Stored /\ clusters[c.cluster] # Gone
    /\ members' = members \union loose \union ({c.cluster} \X c.who)
    /\ Commit(p, Idle)
    /\ UNCHANGED <<graph, nodes, edges, clusters, history, calls, faults>>

\* A member that is no node stops the loop: the rows before it stay, uncommitted.
MembersFail(p) ==
    LET c == call[p] IN
    /\ c.step = "saveMembers"
    /\ ~(c.who \subseteq Stored) \/ clusters[c.cluster] = Gone
    /\ \E done \in SUBSET (IF clusters[c.cluster] = Gone THEN {} ELSE c.who \intersect Stored) :
          Violate(p, {c.cluster} \X done)
    /\ UNCHANGED <<tables, history, calls, faults>>

ClusterRefused(p) ==
    /\ call[p].step \in {"saveCluster", "rewrite"} /\ ~graph.there
    /\ Violate(p, {})
    /\ UNCHANGED <<tables, history, calls, faults>>

\* confirm, archive, and the archiving of the other cluster in a merge.
BeginLifecycle(p, c, st) ==
    /\ graph.there /\ clusters[c] # Gone
    /\ Begin(p, [step |-> "setStatus", cluster |-> c, status |-> st])

SetStatus(p) ==
    LET c == call[p] IN
    /\ c.step = "setStatus"
    /\ IF clusters[c.cluster] = Gone
          THEN UNCHANGED <<clusters, asked, racedClusters>>
          ELSE /\ clusters' = [clusters EXCEPT ![c.cluster] = c.status]
               /\ asked' = [asked EXCEPT ![c.cluster] = c.status]
               /\ racedClusters' = racedClusters \ {c.cluster}
    /\ Commit(p, Idle)
    /\ members' = members \union loose
    /\ UNCHANGED <<graph, nodes, edges, expect, raced, emptied, skewed, calls, faults>>

\* reformulate reads the metadata and saves it again; split saves it as another's.
BeginRewrite(p, from, into) ==
    /\ graph.there /\ clusters[from] # Gone
    /\ Begin(p, [step |-> "rewrite", cluster |-> into, from |-> from,
                 status |-> clusters[from]])

\* Mutant of Rewrite: a reformulated cluster is proposed anew.
RewriteProposed(p) ==
    LET c == call[p] IN
    /\ c.step = "rewrite" /\ graph.there
    /\ clusters' = [clusters EXCEPT ![c.cluster] = "proposed"]
    /\ asked' = IF c.from = c.cluster THEN asked ELSE [asked EXCEPT ![c.cluster] = c.status]
    /\ racedClusters' = IF c.from = c.cluster /\ clusters[c.cluster] # c.status
                           THEN racedClusters \union {c.cluster} ELSE racedClusters
    /\ Commit(p, Idle)
    /\ members' = members \union loose
    /\ UNCHANGED <<graph, nodes, edges, expect, raced, emptied, skewed, calls, faults>>

Rewrite(p) ==
    LET c == call[p] IN
    /\ c.step = "rewrite" /\ graph.there
    /\ clusters' = [clusters EXCEPT ![c.cluster] = c.status]
    /\ asked' = IF c.from = c.cluster THEN asked ELSE [asked EXCEPT ![c.cluster] = c.status]
    /\ racedClusters' = IF c.from # c.cluster THEN racedClusters \ {c.cluster}
                        ELSE IF clusters[c.cluster] # c.status
                           THEN racedClusters \union {c.cluster} ELSE racedClusters
    /\ Commit(p, Idle)
    /\ members' = members \union loose
    /\ UNCHANGED <<graph, nodes, edges, expect, raced, emptied, skewed, calls, faults>>

-----------------------------------------------------------------------------
Start(p) ==
    \/ \E n \in Node, f \in Field, l \in BOOLEAN : BeginPatch(p, n, f, l)
    \/ \E n \in Node : BeginDeleteNode(p, n)
    \/ BeginAddEdge(p)
    \/ BeginDeleteEdges(p)
    \/ BeginCreate(p)
    \/ BeginDeleteGraph(p)
    \/ \E pl \in Payload : BeginImport(p, pl)
    \/ \E c \in Cluster, who \in SUBSET Node : BeginPropose(p, c, who)
    \/ \E c \in Cluster, st \in Status \ {"proposed"} : BeginLifecycle(p, c, st)
    \/ \E c, d \in Cluster : BeginRewrite(p, c, d)

Continue(p) ==
    \/ UpsertNode(p) \/ UpsertFails(p) \/ DeleteNode(p) \/ Refresh(p)
    \/ InsertEdge(p) \/ InsertEdgeFails(p) \/ DeleteEdges(p)
    \/ CreateMeta(p) \/ DeleteGraph(p)
    \/ SaveMeta(p) \/ ClearNodes(p) \/ SaveNodes(p) \/ ParentMissing(p)
    \/ ImportFails(p) \/ SaveEdges(p)
    \/ SaveCluster(p) \/ SaveMembers(p) \/ MembersFail(p) \/ ClusterRefused(p)
    \/ SetStatus(p) \/ Rewrite(p) \/ Refused(p)

Next ==
    \/ \E p \in Process : Start(p) \/ Continue(p) \/ Stop(p) \/ Browse(p)
    \/ \E s \in Server : PollerCommit(s)

Spec == Init /\ [][Next]_vars

\* A call that has begun runs on, and the pollers poll.
Fairness ==
    /\ \A p \in Process : WF_vars(Continue(p))
    /\ \A s \in Server : WF_vars(PollerCommit(s))

FairSpec == Spec /\ Fairness

-----------------------------------------------------------------------------
(* Properties *)

Quiet == \A p \in Process : call[p] = Idle

\* Once no call is under way the counts in the graphs table are those of the
\* tables (get_graph_edge_count trusts them), unless an import or a creation
\* overlapped other calls, left old edges, or some call ended between its
\* write and its refresh.
CountsFollow ==
    (Quiet /\ graph.there /\ ~skewed) =>
        /\ graph.nodeCount = Cardinality(Stored)
        /\ graph.edgeCount = Cardinality(edges)

\* A node holds what the calls wrote, one after the other, to every one of its
\* fields, unless an upsert merged into a row that had changed since it was
\* read, or an import died with the nodes deleted (NodeRepository.upsert_node,
\* GraphStore.save_graph).
WritesAreKept ==
    (~emptied /\ \A p \in Process : call[p].step # "saveNodes") =>
        \A n \in Node \ raced : nodes[n] = expect[n]

\* A cluster has the status that a call last gave it, unless a reformulation
\* saved metadata that had changed since it was read (manage_clusters).
StatusIsAsAsked ==
    \A c \in Cluster \ racedClusters : clusters[c] = asked[c]

\* A UI server is never shut out of its own store for good: its connection
\* comes back from a failed call, and so does the lock it may hold
\* (publish_outbox_batch commits before it reads).
ServersRecover ==
    \A s \in Server : conn[s] # "auto" ~> conn[s] = "auto"
=============================================================================
