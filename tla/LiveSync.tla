------------------------------ MODULE LiveSync ------------------------------
(***************************************************************************)
(* The path of a node change from its commit to the open graph viewers.    *)
(*                                                                         *)
(*  - MCP processes (mcp/tools.py) commit the change, then enqueue its     *)
(*    event and a receipt in the outbox, each in a commit of its own;      *)
(*  - the UI server (api/routes.py) commits the changes it is asked for    *)
(*    over HTTP and publishes them on its bus directly, past the outbox:   *)
(*    a PATCH the row it reads back, a POST the body it was sent, which    *)
(*    may say less than the row the store has merged it into;              *)
(*  - imports, deletions of a graph and changes of a source connection     *)
(*    commit node rows and announce nothing;                               *)
(*  - its poller (EventOutbox) publishes the rows of the outbox;           *)
(*  - a viewer (ui/src/live/live-sync.ts, patched by graph_viewer.html)    *)
(*    subscribes, fetches a snapshot, buffers what arrives before it, and  *)
(*    applies the rest as it comes.                                        *)
(*                                                                         *)
(* What the server does between two awaits that suspend is atomic for the  *)
(* other coroutines of its event loop (LoopFree), not for other processes. *)
(* A node's content is a version number, new at every commit; 0 is absent, *)
(* and Fragment is a body that is not the whole row of any commit.         *)
(***************************************************************************)
EXTENDS Naturals, Sequences, FiniteSets, SequencesExt

CONSTANTS
    Node, Writer, Viewer,
    Srv,          \* the UI server process
    NoNode,
    BatchLimit, ReceiptCap, MaxRows,   \* of the outbox
    MaxFaults,    \* bound: stops, failed marks, aborts, drops and failed fetches
    MaxWrites,    \* bound: versions ever committed
    OtherWrites,  \* how nodes are written besides the node tools: by "post" and
                  \* by "patch" over HTTP, and by "silent" commits
    Edits         \* whether a viewer's user edits nodes

ASSUME SyncAssumption ==
    /\ IsFiniteSet(Writer)
    /\ NoNode \notin Node
    /\ BatchLimit \in Nat \ {0} /\ ReceiptCap \in Nat \ {0}
    /\ MaxRows \in Nat /\ MaxFaults \in Nat /\ MaxWrites \in Nat

VARIABLES
    log, rows, flagged, up, batch, sent, bus, slipped, receipts, emitted,
    faults,    \* the outbox, see EventOutbox
    node,      \* the nodes table: version of each node
    clock,     \* versions handed out
    tool,      \* what each MCP process is doing
    http,      \* the write request the event loop is serving
    page,      \* phase of each viewer's page
    conn,      \* the viewer's WebSocket is subscribed to the bus
    channel,   \* events on their way to the viewer
    buffer,    \* bufferQueue of its LiveDataStore
    snap,      \* the nodes response on its way to the viewer (page = "read")
    view,      \* nodeMap of its LiveDataStore
    editing,   \* the node with unsaved edits in edit mode
    astray,    \* history: nodes whose last commit was not cleanly announced:
               \* overtaken by an older event, announced with less than the
               \* row, or not at all
    missed     \* history: nodes an event of which the page did not apply

DataKind == {"node.created", "node.updated"}
Fragment == MaxWrites + 1
Data == [kind : DataKind, node : Node, ver : 1 .. Fragment]
Deleted == [kind : {"node.deleted"}, node : Node, ver : {0}]
Receipts == [kind : {"tool.invoked"}, node : Node, ver : {0}]
Message == Data \union Deleted \union Receipts

Outbox == INSTANCE EventOutbox
    WITH Event <- Message, Receipt <- Receipts, Server <- {Srv}

tableVars  == <<log, rows, flagged>>
serverVars == <<up, batch, sent, bus, slipped, receipts>>
outboxVars == <<tableVars, serverVars, emitted, faults>>
storeVars  == <<node, clock, astray>>
pageVars   == <<page, buffer, snap, view, editing>>
viewerVars == <<pageVars, conn, channel, missed>>
vars == <<outboxVars, storeVars, tool, http, viewerVars>>

IdleTool == [step |-> "idle", node |-> NoNode, kind |-> "tool.invoked", ver |-> 0]
IdleHttp == [step |-> "idle", node |-> NoNode, kind |-> "tool.invoked", ver |-> 0]
Work(steps) ==
    [step : steps, node : Node \union {NoNode},
     kind : DataKind \union {"node.deleted", "tool.invoked"}, ver : 0 .. Fragment]

\* The poller's batch and a write handler each run without suspending.
LoopFree == http.step = "idle" /\ batch[Srv] = {} /\ sent[Srv] = {}

IsNodeEvent(m) == m.kind # "tool.invoked"

NoNodes == [n \in Node |-> 0]

TypeOK ==
    /\ Outbox!TypeOK
    /\ node \in [Node -> 0 .. MaxWrites]
    /\ clock \in 0 .. MaxWrites
    /\ tool \in [Writer -> Work({"idle", "upsert", "reread", "event", "receipt"})]
    /\ http \in Work({"idle", "upsert", "reread", "publish"})
    /\ page \in [Viewer -> {"closed", "loading", "read", "ready", "broken"}]
    /\ conn \in [Viewer -> BOOLEAN]
    /\ channel \in [Viewer -> Seq(Message)]
    /\ buffer \in [Viewer -> Seq(Data \union Deleted)]
    /\ snap \in [Viewer -> [Node -> 0 .. MaxWrites]]
    /\ view \in [Viewer -> [Node -> 0 .. Fragment]]
    /\ editing \in [Viewer -> Node \union {NoNode}]
    /\ astray \in SUBSET Node
    /\ missed \in [Viewer -> SUBSET Node]

Init ==
    /\ Outbox!Init
    /\ node = NoNodes
    /\ clock = 0
    /\ tool = [w \in Writer |-> IdleTool]
    /\ http = IdleHttp
    /\ page = [v \in Viewer |-> "closed"]
    /\ conn = [v \in Viewer |-> FALSE]
    /\ channel = [v \in Viewer |-> <<>>]
    /\ buffer = [v \in Viewer |-> <<>>]
    /\ snap = [v \in Viewer |-> NoNodes]
    /\ view = [v \in Viewer |-> NoNodes]
    /\ editing = [v \in Viewer |-> NoNode]
    /\ astray = {}
    /\ missed = [v \in Viewer |-> {}]

-----------------------------------------------------------------------------
(***************************************************************************)
(* The nodes table.                                                        *)
(***************************************************************************)

\* Somebody has committed a change of n and not yet enqueued or published it.
Announcing(n) ==
    \/ \E w \in Writer : tool[w].node = n /\ tool[w].step \in {"reread", "event"}
    \/ http.node = n /\ http.step \in {"reread", "publish"}

\* A row about n that a poller may still publish.
Queued(n) == \E i \in Outbox!Unpublished : log[i].node = n /\ IsNodeEvent(log[i])

\* A commit on n; overtaken says whether an older event may come after its own.
Commit(n, ver, overtaken) ==
    /\ node' = [node EXCEPT ![n] = ver]
    /\ astray' = IF overtaken THEN astray \union {n} ELSE astray \ {n}

Upsert(n, overtaken) ==
    /\ clock' = clock + 1
    /\ Commit(n, clock + 1, overtaken)

\* The bound on writes: a version is left for one more upsert.
MayBegin ==
    clock + Cardinality({w \in Writer : tool[w].step = "upsert"})
          + Cardinality({s \in {http.step} : s = "upsert"}) < MaxWrites

-----------------------------------------------------------------------------
(***************************************************************************)
(* An MCP process: update_node and delete_node, one step per commit.       *)
(***************************************************************************)
BeginUpdate(w, n) ==
    /\ MayBegin
    /\ tool[w].step = "idle"
    /\ tool' = [tool EXCEPT ![w] =
           [step |-> "upsert", node |-> n, ver |-> 0,
            kind |-> IF node[n] = 0 THEN "node.created" ELSE "node.updated"]]
    /\ UNCHANGED <<outboxVars, storeVars, http, viewerVars>>

UpsertNode(w) ==
    /\ tool[w].step = "upsert"
    /\ Upsert(tool[w].node, Announcing(tool[w].node))
    /\ tool' = [tool EXCEPT ![w].step = "reread"]
    /\ UNCHANGED <<outboxVars, http, viewerVars>>

\* The event carries what a second read finds; if that is nothing the tool
\* fails, without event and without receipt.
Reread(w) ==
    LET n == tool[w].node IN
    /\ tool[w].step = "reread"
    /\ tool' = [tool EXCEPT ![w] =
           IF node[n] = 0 THEN IdleTool ELSE [@ EXCEPT !.step = "event", !.ver = node[n]]]
    /\ UNCHANGED <<outboxVars, storeVars, http, viewerVars>>

\* A delete that finds no row fails, but leaves a receipt.
DeleteNode(w, n) ==
    /\ tool[w].step = "idle"
    /\ IF node[n] = 0
          THEN /\ tool' = [tool EXCEPT ![w] =
                      [step |-> "receipt", node |-> n, kind |-> "tool.invoked", ver |-> 0]]
               /\ UNCHANGED storeVars
          ELSE /\ tool' = [tool EXCEPT ![w] =
                      [step |-> "event", node |-> n, kind |-> "node.deleted", ver |-> 0]]
               /\ Commit(n, 0, Announcing(n))
               /\ UNCHANGED clock
    /\ UNCHANGED <<outboxVars, http, viewerVars>>

EnqueueEvent(w) ==
    /\ tool[w].step = "event"
    /\ Outbox!Enqueue([kind |-> tool[w].kind, node |-> tool[w].node, ver |-> tool[w].ver])
    /\ tool' = [tool EXCEPT ![w].step = "receipt"]
    /\ UNCHANGED <<storeVars, http, viewerVars>>

EnqueueReceipt(w) ==
    /\ tool[w].step = "receipt"
    /\ Outbox!Enqueue([kind |-> "tool.invoked", node |-> tool[w].node, ver |-> 0])
    /\ tool' = [tool EXCEPT ![w] = IdleTool]
    /\ UNCHANGED <<storeVars, http, viewerVars>>

\* The process ends, or log_audit or an enqueue raises: what is committed
\* stays, what was to be announced is not.
Abort(w) ==
    /\ tool[w].step \in {"upsert", "reread", "event", "receipt"}
    /\ faults < MaxFaults
    /\ faults' = faults + 1
    /\ tool' = [tool EXCEPT ![w] = IdleTool]
    /\ astray' = IF tool[w].step \in {"reread", "event"}
                    THEN astray \union {tool[w].node} ELSE astray
    /\ UNCHANGED <<tableVars, serverVars, emitted, node, clock,
                   http, viewerVars>>

\* The steps a tool call takes once it has begun.
ToolContinues(w) ==
    UpsertNode(w) \/ Reread(w) \/ EnqueueEvent(w) \/ EnqueueReceipt(w)

ToolStep(w) ==
    \/ \E n \in Node : BeginUpdate(w, n) \/ DeleteNode(w, n)
    \/ ToolContinues(w)
    \/ Abort(w)

-----------------------------------------------------------------------------
(***************************************************************************)
(* The UI server: EventBus.publish, the poller, POST and PATCH.            *)
(***************************************************************************)

\* The page of v cannot learn of an unheard event on n from its snapshot: that
\* is read already, or an older event on n waits to be applied on top of it.
Exposed(v, n) ==
    \/ page[v] \in {"read", "ready"}
    \/ page[v] = "loading" /\ \E i \in DOMAIN buffer[v] : buffer[v][i].node = n

\* Every subscriber's queue gets m.
Broadcast(m) ==
    /\ channel' = [v \in Viewer |-> IF conn[v] THEN Append(channel[v], m) ELSE channel[v]]
    /\ missed' = [v \in Viewer |->
           IF ~conn[v] /\ IsNodeEvent(m) /\ Exposed(v, m.node)
              THEN missed[v] \union {m.node} ELSE missed[v]]

PollerPublishes ==
    /\ \E i \in batch[Srv] : (\A j \in batch[Srv] : i <= j) /\ Broadcast(log[i])
    /\ Outbox!Publish(Srv)
    /\ UNCHANGED <<storeVars, tool, http, pageVars, conn>>

PollerStep ==
    \/ /\ Outbox!Fetch(Srv) \/ Outbox!Mark(Srv) \/ Outbox!MarkFails(Srv)
       /\ http.step = "idle"
       /\ UNCHANGED <<storeVars, tool, http, viewerVars>>
    \/ PollerPublishes

\* POST upserts without looking, and publishes what it was sent: the whole of
\* the row the upsert merges it into, or less.
Post(n) ==
    /\ MayBegin
    /\ "post" \in OtherWrites /\ up[Srv] /\ LoopFree
    /\ \E whole \in BOOLEAN :
          /\ Upsert(n, Announcing(n) \/ Queued(n) \/ ~whole)
          /\ http' = [step |-> "publish", node |-> n, kind |-> "node.created",
                      ver |-> IF whole THEN clock + 1 ELSE Fragment]
    /\ UNCHANGED <<outboxVars, tool, viewerVars>>

\* PATCH answers 404 for an absent node; it upserts what it then finds.
BeginPatch(n) ==
    /\ MayBegin
    /\ "patch" \in OtherWrites /\ up[Srv] /\ LoopFree
    /\ node[n] # 0
    /\ http' = [step |-> "upsert", node |-> n, kind |-> "node.updated", ver |-> 0]
    /\ UNCHANGED <<outboxVars, storeVars, tool, viewerVars>>

PatchUpsert ==
    /\ http.step = "upsert"
    /\ Upsert(http.node, Announcing(http.node) \/ Queued(http.node))
    /\ http' = [http EXCEPT !.step = "reread"]
    /\ UNCHANGED <<outboxVars, tool, viewerVars>>

\* Mutant of PatchReread: the second 404 check is gone.
PatchRereadUnchecked ==
    /\ http.step = "reread"
    /\ http' = [http EXCEPT !.step = "publish", !.ver = node[http.node]]
    /\ UNCHANGED <<outboxVars, storeVars, tool, viewerVars>>

\* PATCH publishes the row it reads back, or answers 404 if it is gone.
PatchReread ==
    /\ http.step = "reread"
    /\ http' = IF node[http.node] = 0 THEN IdleHttp
               ELSE [http EXCEPT !.step = "publish", !.ver = node[http.node]]
    /\ UNCHANGED <<outboxVars, storeVars, tool, viewerVars>>

HttpPublish ==
    /\ http.step = "publish"
    /\ Broadcast([kind |-> http.kind, node |-> http.node, ver |-> http.ver])
    /\ http' = IdleHttp
    /\ UNCHANGED <<outboxVars, storeVars, tool, pageVars, conn>>

HttpContinues == PatchUpsert \/ PatchReread \/ HttpPublish

\* An import's save_nodes, or the commit of a source's binding, unbinding or
\* validation, by a tool or on a worker thread of the UI server: no event.
SaveQuietly(saved) ==
    /\ "silent" \in OtherWrites /\ MayBegin
    /\ node' = [n \in Node |-> IF n \in saved THEN clock + 1 ELSE node[n]]
    /\ clock' = clock + 1
    /\ astray' = astray \union saved
    /\ UNCHANGED <<outboxVars, tool, http, viewerVars>>

\* The delete_nodes that an import begins with, or delete_graph: no event.
DeleteQuietly ==
    /\ "silent" \in OtherWrites
    /\ node' = NoNodes
    /\ astray' = astray \union {n \in Node : node[n] # 0}
    /\ UNCHANGED <<outboxVars, clock, tool, http, viewerVars>>

SilentCommit == DeleteQuietly \/ \E saved \in SUBSET Node : SaveQuietly(saved)

StartServer ==
    /\ Outbox!Start(Srv)
    /\ UNCHANGED <<storeVars, tool, http, viewerVars>>

\* The nodes whose events the page of v misses when its channel breaks.
Lost(v) ==
    {n \in Node : /\ Exposed(v, n)
                  /\ \E m \in ToSet(channel[v]) : IsNodeEvent(m) /\ m.node = n}

StopServer ==
    /\ Outbox!Stop(Srv)
    /\ http' = IdleHttp
    /\ astray' = IF http.step \in {"reread", "publish"}
                    THEN astray \union {http.node} ELSE astray
    /\ conn' = [v \in Viewer |-> FALSE]
    /\ channel' = [v \in Viewer |-> <<>>]
    /\ missed' = [v \in Viewer |-> missed[v] \union Lost(v)]
    /\ UNCHANGED <<node, clock, tool, pageVars>>

-----------------------------------------------------------------------------
(***************************************************************************)
(* A viewer.                                                               *)
(***************************************************************************)

\* The page is rendered from the store; then connectWebSocket and
\* syncWithServer both start.
OpenPage(v) ==
    /\ page[v] = "closed" /\ up[Srv]
    /\ page' = [page EXCEPT ![v] = "loading"]
    /\ view' = [view EXCEPT ![v] = node]
    /\ UNCHANGED <<outboxVars, storeVars, tool, http, conn, channel,
                   buffer, snap, editing, missed>>

\* The socket opens, for the first time or again: nothing is fetched anew.
Subscribe(v) ==
    /\ page[v] # "closed" /\ ~conn[v]
    /\ up[Srv] /\ LoopFree
    /\ conn' = [conn EXCEPT ![v] = TRUE]
    /\ UNCHANGED <<outboxVars, storeVars, tool, http, pageVars, channel, missed>>

Drop(v) ==
    /\ conn[v]
    /\ faults < MaxFaults
    /\ faults' = faults + 1
    /\ conn' = [conn EXCEPT ![v] = FALSE]
    /\ channel' = [channel EXCEPT ![v] = <<>>]
    /\ missed' = [missed EXCEPT ![v] = @ \union Lost(v)]
    /\ UNCHANGED <<tableVars, serverVars, emitted, storeVars, tool,
                   http, pageVars>>

\* GET /api/nodes runs on a worker thread, beside the event loop.
Snapshot(v) ==
    /\ page[v] = "loading" /\ up[Srv]
    /\ page' = [page EXCEPT ![v] = "read"]
    /\ snap' = [snap EXCEPT ![v] = node]
    /\ UNCHANGED <<outboxVars, storeVars, tool, http, conn, channel,
                   buffer, view, editing, missed>>

\* The fetch rejects: isFetchComplete is never set.  It is a fault of its own
\* unless the server is down.
FetchFails(v) ==
    /\ page[v] \in {"loading", "read"}
    /\ up[Srv] => faults < MaxFaults
    /\ faults' = IF up[Srv] THEN faults + 1 ELSE faults
    /\ page' = [page EXCEPT ![v] = "broken"]
    /\ snap' = [snap EXCEPT ![v] = NoNodes]
    /\ UNCHANGED <<tableVars, serverVars, emitted, storeVars, tool, http, conn,
                   channel, buffer, view, editing, missed>>

\* applyEvent, for a page with nodes known and left unheard of: an update of
\* the node being edited is dropped (and flagged as a conflict).
ApplyEvent(known, m, edited) ==
    IF m.kind = "node.updated" /\ m.node = edited
       THEN [known EXCEPT !.unheard = @ \union {m.node}]
       ELSE [map |-> [known.map EXCEPT ![m.node] = m.ver],
             unheard |-> known.unheard \ {m.node}]

\* Mutant of ApplySnapshot: the buffered events are forgotten.
ApplySnapshotOnly(v) ==
    /\ page[v] = "read"
    /\ page' = [page EXCEPT ![v] = "ready"]
    /\ view' = [view EXCEPT ![v] = snap[v]]
    /\ buffer' = [buffer EXCEPT ![v] = <<>>]
    /\ snap' = [snap EXCEPT ![v] = NoNodes]
    /\ UNCHANGED <<outboxVars, storeVars, tool, http, conn, channel, editing, missed>>

\* Mutant of ApplySnapshot: isFetchComplete is not set.
ApplySnapshotUnmarked(v) ==
    /\ page[v] = "read"
    /\ view' = [view EXCEPT ![v] = snap[v]]
    /\ UNCHANGED <<outboxVars, storeVars, tool, http, conn, channel, page, buffer,
                   snap, editing, missed>>

\* flushBufferedEvents: the events apply one after the other to the page known.
Flushed(known, events, edited) ==
    LET after[i \in 0 .. Len(events)] ==
            IF i = 0 THEN known ELSE ApplyEvent(after[i - 1], events[i], edited)
    IN  after[Len(events)]

\* The response seeds the store, then the buffered events are flushed.
ApplySnapshot(v) ==
    LET flushed == Flushed([map |-> snap[v], unheard |-> {}], buffer[v], editing[v])
    IN
    /\ page[v] = "read"
    /\ page' = [page EXCEPT ![v] = "ready"]
    /\ view' = [view EXCEPT ![v] = flushed.map]
    /\ missed' = [missed EXCEPT ![v] = @ \union flushed.unheard]
    /\ buffer' = [buffer EXCEPT ![v] = <<>>]
    /\ snap' = [snap EXCEPT ![v] = NoNodes]
    /\ UNCHANGED <<outboxVars, storeVars, tool, http, conn, channel, editing>>

\* Mutant of Deliver: events are applied before the snapshot has arrived.
DeliverUnbuffered(v) ==
    /\ channel[v] # <<>>
    /\ LET m == Head(channel[v])
           after == ApplyEvent([map |-> view[v], unheard |-> missed[v]], m, editing[v])
       IN  /\ view' = [view EXCEPT ![v] = IF IsNodeEvent(m) THEN after.map ELSE @]
           /\ missed' = [missed EXCEPT ![v] = IF IsNodeEvent(m) THEN after.unheard ELSE @]
    /\ channel' = [channel EXCEPT ![v] = Tail(@)]
    /\ UNCHANGED <<outboxVars, storeVars, tool, http, page, conn, buffer,
                   snap, editing>>

\* queueOrApply: a receipt is shown at once, a node event is buffered until
\* the snapshot is there and applied from then on.
Deliver(v) ==
    /\ channel[v] # <<>>
    /\ channel' = [channel EXCEPT ![v] = Tail(@)]
    /\ LET m == Head(channel[v])
           after == ApplyEvent([map |-> view[v], unheard |-> missed[v]], m, editing[v])
       IN \/ /\ ~IsNodeEvent(m)
             /\ UNCHANGED <<view, missed, buffer>>
          \/ /\ IsNodeEvent(m) /\ page[v] # "ready"
             /\ buffer' = [buffer EXCEPT ![v] = Append(@, m)]
             /\ missed' = [missed EXCEPT ![v] = @ \ {m.node}]
             /\ UNCHANGED view
          \/ /\ IsNodeEvent(m) /\ page[v] = "ready"
             /\ view' = [view EXCEPT ![v] = after.map]
             /\ missed' = [missed EXCEPT ![v] = after.unheard]
             /\ UNCHANGED buffer
    /\ UNCHANGED <<outboxVars, storeVars, tool, http, page, conn, snap, editing>>

StartEdit(v, n) ==
    /\ Edits /\ page[v] # "closed"
    /\ editing[v] = NoNode /\ view[v][n] # 0
    /\ editing' = [editing EXCEPT ![v] = n]
    /\ UNCHANGED <<outboxVars, storeVars, tool, http, conn, channel, page,
                   buffer, snap, view, missed>>

\* Escape, or the answer to a save.
EndEdit(v) ==
    /\ editing[v] # NoNode
    /\ editing' = [editing EXCEPT ![v] = NoNode]
    /\ UNCHANGED <<outboxVars, storeVars, tool, http, conn, channel, page,
                   buffer, snap, view, missed>>

ViewerStep(v) ==
    \/ OpenPage(v) \/ Subscribe(v) \/ Drop(v)
    \/ Snapshot(v) \/ FetchFails(v) \/ ApplySnapshot(v) \/ Deliver(v)
    \/ EndEdit(v)
    \/ \E n \in Node : StartEdit(v, n)

Next ==
    \/ \E w \in Writer : ToolStep(w)
    \/ PollerStep
    \/ \E n \in Node : Post(n) \/ BeginPatch(n)
    \/ HttpContinues
    \/ SilentCommit
    \/ StartServer \/ StopServer
    \/ \E v \in Viewer : ViewerStep(v)

(***************************************************************************)
(* A tool call and a request that have begun go on, the poller polls, and  *)
(* the browser's timers and callbacks run.                                 *)
(***************************************************************************)
Fairness ==
    /\ \A w \in Writer : WF_vars(ToolContinues(w))
    /\ WF_vars(PollerStep)
    /\ WF_vars(HttpContinues)
    /\ \A v \in Viewer :
          /\ WF_vars(Subscribe(v))
          /\ WF_vars(Snapshot(v) \/ ApplySnapshot(v))
          /\ WF_vars(Deliver(v))

Spec == Init /\ [][Next]_vars
FairSpec == Spec /\ Fairness

-----------------------------------------------------------------------------
(***************************************************************************)
(* Properties.                                                             *)
(***************************************************************************)

\* Nothing about any node is under way to v.
Settled(v) ==
    /\ page[v] = "ready"
    /\ channel[v] = <<>>
    /\ \A n \in Node : ~Announcing(n) /\ ~Queued(n)

\* When nothing is under way, a loaded page shows what is stored, except for
\* nodes whose last commit was overtaken by an older event, announced with less
\* than the row it made or never announced (astray), and nodes an event of which
\* passed the page by (missed).
StaleOnlyIfExplained ==
    \A v \in Viewer : Settled(v) =>
        \A n \in Node \ (astray \union missed[v]) : view[v][n] = node[n]

\* The bound on rows keeps a tool from enqueueing its event.
HeldByBound == Len(log) = MaxRows /\ \E w \in Writer : tool[w].step = "event"

\* While the server is up, every page that does not fail to load comes to
\* show what is stored, with the same exceptions: nothing stays under way for
\* ever.
PagesCatchUp ==
    <>[](up[Srv] /\ ~HeldByBound =>
          \A v \in Viewer :
            /\ page[v] \in {"closed", "ready", "broken"}
            /\ page[v] = "ready" =>
                  \A n \in Node \ (astray \union missed[v]) : view[v][n] = node[n])

\* What an agent writes shows in an open page without a manual refresh: once
\* nothing is under way, a connected page nobody edits in shows every node
\* whose last commit was cleanly announced.
ShowsWithoutRefresh ==
    \A v \in Viewer : Settled(v) /\ conn[v] /\ editing[v] = NoNode =>
        \A n \in Node \ astray : view[v][n] = node[n]
=============================================================================
