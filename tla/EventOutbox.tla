----------------------------- MODULE EventOutbox -----------------------------
(***************************************************************************)
(* The event outbox: the event_outbox table of the SQLite workspace store  *)
(* (store/repository.py, OutboxRepository), filled by any process that     *)
(* writes to the graph, and the poller that each UI server runs in its     *)
(* lifespan (api/server.py, api/outbox.py), which puts the rows on the     *)
(* server's own in-memory EventBus (api/events.py) and keeps the last tool *)
(* receipts (api/receipt_store.py).                                        *)
(*                                                                         *)
(* Writers and servers are separate processes: every commit is a step of   *)
(* its own, a server may stop between any two, and nothing keeps a second  *)
(* server from polling the same store.  SQLite serialises the writing      *)
(* transactions, so AUTOINCREMENT ids are assigned in commit order and the *)
(* row with id i is position i of log.                                     *)
(***************************************************************************)
EXTENDS Naturals, Sequences, FiniteSets

CONSTANTS
    Event,        \* rows a writer may enqueue
    Receipt,      \* those that are tool.invoked receipts
    Server,       \* UI server processes on this store
    BatchLimit,   \* get_unpublished_events(limit): 50 in the code
    ReceiptCap,   \* ReceiptStore(max_receipts): 50 in the code
    MaxRows,      \* bound: rows ever enqueued
    MaxFaults     \* bound: server stops and failed marks

ASSUME OutboxAssumption ==
    /\ Receipt \subseteq Event
    /\ BatchLimit \in Nat \ {0}
    /\ ReceiptCap \in Nat \ {0}
    /\ MaxRows \in Nat
    /\ MaxFaults \in Nat

VARIABLES
    log,       \* every row ever inserted, by id (rows outlives purges here)
    rows,      \* ids present in the table
    flagged,   \* ids whose published column is 1
    up,        \* the server's lifespan is running
    batch,     \* ids the poller fetched and has not yet put on the bus
    sent,      \* ids of this batch already put on the bus (published_ids)
    bus,       \* ids this run of the server has put on its bus
    slipped,   \* a mark_published of this run of the server has failed
    receipts,  \* ReceiptStore of the server: receipt ids, oldest first
    emitted,   \* history: ids ever put on the bus of some server
    faults     \* stops and failed marks so far

tableVars  == <<log, rows, flagged>>
serverVars == <<up, batch, sent, bus, slipped, receipts>>
outboxVars == <<tableVars, serverVars, emitted, faults>>

Id == 1 .. Len(log)
Unpublished == rows \ flagged

\* Mutant of FirstOf: ORDER BY id DESC.
LastOf(ids) == {i \in ids : Cardinality({j \in ids : j > i}) < BatchLimit}

\* The first BatchLimit of these ids, in id order.
FirstOf(ids) == {i \in ids : Cardinality({j \in ids : j < i}) < BatchLimit}

\* Mutant of Push: a deque without maxlen.
PushUnbounded(deque, i) == Append(deque, i)

\* A bounded deque drops its oldest entry when it is full.
Push(deque, i) ==
    IF Len(deque) < ReceiptCap THEN Append(deque, i) ELSE Append(Tail(deque), i)

TypeOK ==
    /\ log \in Seq(Event)
    /\ rows \in SUBSET Id
    /\ flagged \in SUBSET rows
    /\ up \in [Server -> BOOLEAN]
    /\ batch \in [Server -> SUBSET Id]
    /\ sent \in [Server -> SUBSET Id]
    /\ bus \in [Server -> SUBSET Id]
    /\ slipped \in [Server -> BOOLEAN]
    /\ receipts \in [Server -> Seq(Id)]
    /\ \A s \in Server : Len(receipts[s]) <= ReceiptCap
    /\ emitted \in SUBSET Id
    /\ faults \in 0 .. MaxFaults

Init ==
    /\ log = <<>>
    /\ rows = {}
    /\ flagged = {}
    /\ up = [s \in Server |-> FALSE]
    /\ batch = [s \in Server |-> {}]
    /\ sent = [s \in Server |-> {}]
    /\ bus = [s \in Server |-> {}]
    /\ slipped = [s \in Server |-> FALSE]
    /\ receipts = [s \in Server |-> <<>>]
    /\ emitted = {}
    /\ faults = 0

(***************************************************************************)
(* A writer's INSERT and commit.                                           *)
(***************************************************************************)
Enqueue(e) ==
    /\ Len(log) < MaxRows
    /\ log' = Append(log, e)
    /\ rows' = rows \union {Len(log) + 1}
    /\ UNCHANGED <<flagged, serverVars, emitted, faults>>

\* Mutant of Start: the purge deletes every row, published or not.
StartPurgingAll(s) ==
    /\ ~up[s]
    /\ up' = [up EXCEPT ![s] = TRUE]
    /\ rows' = {}
    /\ flagged' = {}
    /\ UNCHANGED <<log, batch, sent, bus, slipped, receipts, emitted, faults>>

(***************************************************************************)
(* The lifespan of a UI server starts: published rows are deleted, then    *)
(* the poller task runs over an empty bus and an empty receipt store.      *)
(***************************************************************************)
Start(s) ==
    /\ ~up[s]
    /\ up' = [up EXCEPT ![s] = TRUE]
    /\ rows' = Unpublished
    /\ flagged' = {}
    /\ UNCHANGED <<log, batch, sent, bus, slipped, receipts, emitted, faults>>

\* Mutant of Fetch: the rows are flagged when they are read.
FetchAndFlag(s) ==
    /\ up[s]
    /\ batch[s] = {} /\ sent[s] = {}
    /\ Unpublished # {}
    /\ batch' = [batch EXCEPT ![s] = FirstOf(Unpublished)]
    /\ flagged' = flagged \union FirstOf(Unpublished)
    /\ UNCHANGED <<log, rows, up, sent, bus, slipped, receipts, emitted, faults>>

(***************************************************************************)
(* publish_outbox_batch: read the first unpublished rows ...               *)
(***************************************************************************)
Fetch(s) ==
    /\ up[s]
    /\ batch[s] = {} /\ sent[s] = {}
    /\ Unpublished # {}
    /\ batch' = [batch EXCEPT ![s] = FirstOf(Unpublished)]
    /\ UNCHANGED <<tableVars, up, sent, bus, slipped, receipts, emitted, faults>>

(***************************************************************************)
(* ... put them on the bus one by one in id order; a receipt also goes to  *)
(* the receipt store ...                                                   *)
(***************************************************************************)
Publish(s) ==
    /\ up[s]
    /\ \E i \in batch[s] :
        /\ \A j \in batch[s] : i <= j
        /\ batch' = [batch EXCEPT ![s] = @ \ {i}]
        /\ sent' = [sent EXCEPT ![s] = @ \union {i}]
        /\ bus' = [bus EXCEPT ![s] = @ \union {i}]
        /\ receipts' = [receipts EXCEPT
               ![s] = IF log[i] \in Receipt THEN Push(@, i) ELSE @]
        /\ emitted' = emitted \union {i}
    /\ UNCHANGED <<tableVars, up, slipped, faults>>

\* Mutant of Mark: the last row of the batch is left out of the UPDATE.
MarkAllButLast(s) ==
    /\ up[s]
    /\ batch[s] = {} /\ sent[s] # {}
    /\ flagged' = flagged \union
           {i \in sent[s] \intersect rows : \E j \in sent[s] : i < j}
    /\ sent' = [sent EXCEPT ![s] = {}]
    /\ UNCHANGED <<log, rows, up, batch, bus, slipped, receipts, emitted, faults>>

\* Mutant of Mark: the UPDATE has no WHERE id IN (...).
MarkEverything(s) ==
    /\ up[s]
    /\ batch[s] = {} /\ sent[s] # {}
    /\ flagged' = rows
    /\ sent' = [sent EXCEPT ![s] = {}]
    /\ UNCHANGED <<log, rows, up, batch, bus, slipped, receipts, emitted, faults>>

(***************************************************************************)
(* ... and flag the whole batch in one UPDATE.  A row another server has   *)
(* purged meanwhile is no longer there to flag.                            *)
(***************************************************************************)
Mark(s) ==
    /\ up[s]
    /\ batch[s] = {} /\ sent[s] # {}
    /\ flagged' = flagged \union (sent[s] \intersect rows)
    /\ sent' = [sent EXCEPT ![s] = {}]
    /\ UNCHANGED <<log, rows, up, batch, bus, slipped, receipts, emitted, faults>>

(***************************************************************************)
(* The UPDATE raises (the database is locked by another process):          *)
(* outbox_poller logs the exception and starts over at the next tick.      *)
(***************************************************************************)
MarkFails(s) ==
    /\ up[s]
    /\ batch[s] = {} /\ sent[s] # {}
    /\ faults < MaxFaults
    /\ faults' = faults + 1
    /\ sent' = [sent EXCEPT ![s] = {}]
    /\ slipped' = [slipped EXCEPT ![s] = TRUE]
    /\ UNCHANGED <<tableVars, up, batch, bus, receipts, emitted>>

(***************************************************************************)
(* The server process ends, wherever its poller is: everything in memory   *)
(* is gone.                                                                *)
(***************************************************************************)
Stop(s) ==
    /\ up[s]
    /\ faults < MaxFaults
    /\ faults' = faults + 1
    /\ up' = [up EXCEPT ![s] = FALSE]
    /\ batch' = [batch EXCEPT ![s] = {}]
    /\ sent' = [sent EXCEPT ![s] = {}]
    /\ bus' = [bus EXCEPT ![s] = {}]
    /\ slipped' = [slipped EXCEPT ![s] = FALSE]
    /\ receipts' = [receipts EXCEPT ![s] = <<>>]
    /\ UNCHANGED <<tableVars, emitted>>

ServerStep(s) ==
    \/ Start(s)
    \/ Fetch(s)
    \/ Publish(s)
    \/ Mark(s)
    \/ MarkFails(s)
    \/ Stop(s)

Next ==
    \/ \E e \in Event : Enqueue(e)
    \/ \E s \in Server : ServerStep(s)

(***************************************************************************)
(* The poller is a loop of the server's event loop: it keeps going while   *)
(* the server is up.  Nothing makes a writer write or a server start.      *)
(***************************************************************************)
Fairness ==
    \A s \in Server : WF_outboxVars(Fetch(s) \/ Publish(s) \/ Mark(s))

Spec == Init /\ [][Next]_outboxVars
FairSpec == Spec /\ Fairness

-----------------------------------------------------------------------------
(***************************************************************************)
(* Properties.                                                             *)
(***************************************************************************)

\* No row is lost: one that is flagged as published, or that is no longer in
\* the table, has been put on the bus of some server.  A row is not flagged
\* before its publish, and the purge at start-up deletes no other row.
NothingDroppedUnpublished ==
    \A i \in Id : i \notin Unpublished => i \in emitted

\* First publishes happen in commit order: whenever a row has been put on a
\* bus, so has every earlier row, whatever servers poll side by side, stop or
\* fail to mark.
FirstPublishInOrder ==
    \A i \in emitted : \A j \in 1 .. i : j \in emitted

\* A server puts a row on its bus a second time only if one of its own
\* mark_published calls failed: servers that poll side by side repeat each
\* other's rows, but none repeats its own.
RepeatOnlyAfterFailedMark ==
    \A s \in Server : batch[s] \intersect bus[s] # {} => slipped[s]

\* The outbox is an ordered at-least-once delivery: rows not yet published
\* are the held ones, rows put on a bus the seen ones.
Delivery == INSTANCE OrderedDelivery WITH seen <- emitted, held <- Unpublished
ImplementsOrderedDelivery == Delivery!Spec

\* Once some server stays up for good, every committed row is put on a bus.
EveryRowPublished ==
    (\E s \in Server : <>[]up[s])
        => \A i \in 1 .. MaxRows : (i <= Len(log)) ~> (i \in emitted)

=============================================================================
