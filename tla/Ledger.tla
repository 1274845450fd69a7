------------------------------- MODULE Ledger -------------------------------
(***************************************************************************)
(* Edges between one pair of nodes and what the confidence ledger says of  *)
(* them.  MCP processes on one store add edges (mcp/tools.py, add_edge),   *)
(* each of which asks for a row in the append-only confidence_ledger; rows *)
(* of sensitive relationships wait for a human verdict                     *)
(* (resolve_confirmation); delete_edge removes all edges of the pair and   *)
(* leaves the ledger alone.  A UI server (api/routes.py, POST /api/edges)  *)
(* adds edges too, without asking for a row, and writes edges under ids it *)
(* is given, as its imports do.                                            *)
(*                                                                         *)
(* An edge added without an id gets "s->t#k", k one more than the edges of *)
(* the pair: a slot here.  An id that is no such number counts as one far  *)
(* up.  The ledger knows an edge by its id only.  Every SELECT and every   *)
(* commit is a step of its own: other processes come in between.           *)
(***************************************************************************)
EXTENDS Naturals, Sequences, FiniteSets

CONSTANTS
    Process,      \* processes that write to this store
    Server,       \* those that are UI servers; the others serve MCP tools
    Label,        \* what edges of the pair may say: relationship and weight
    Sensitive,    \* those _should_flag_for_confirmation flags
    NoLabel,      \* a NULL relationship_label
    NoEdge,       \* an unused slot
    Outcome,      \* human verdicts
    Base,         \* radix of the numerals in edge ids: 10 in the code
    MaxAdds,      \* bound: edges ever added
    MaxRows       \* bound: ledger rows

ASSUME LedgerAssumption ==
    /\ Server \subseteq Process
    /\ Sensitive \subseteq Label
    /\ Outcome \subseteq {"confirmed", "invalidated", "abstain"}
    /\ Base \in Nat /\ Base > 1
    /\ MaxAdds \in Nat
    /\ MaxRows \in Nat

VARIABLES
    edges,       \* the edges table: what occupies each slot
    ledger,      \* the rows of confidence_ledger, by id
    tool,        \* what each process is doing
    added,       \* history: edges added since the pair was last deleted
    adds,        \* number of edges ever added
    overlapped,  \* history: two operations were under way at once
    unledgered,  \* history: an edge was written, or an add ended, without a ledger row
    scattered    \* history: since the pair was last deleted, edges written by id
                 \* have left a gap in the numbers of its edges

history == <<added, adds, overlapped, unledgered, scattered>>
vars == <<edges, ledger, tool, history>>

Slot == 1 .. MaxAdds

\* An edge as a fact: no two adds make the same one.
Fact == [n : 1 .. MaxAdds, label : Label]

ASSUME FactAssumption == NoEdge \notin Fact

\* A row names its target by slot; fact is what it was written about.
Row == [slot : Slot, status : {"inferred", "needs-confirmation"} \union Outcome,
        label : Label \union {NoLabel}, fact : Fact]

Idle == [step |-> "idle"]
Work ==
    {Idle}
    \union [step : {"insert"}, label : Label, slot : Slot]
    \union [step : {"reread"}]
    \union [step : {"seed", "verdict"}, slot : Slot, fact : Fact]

TypeOK ==
    /\ edges \in [Slot -> Fact \union {NoEdge}]
    /\ ledger \in Seq(Row)
    /\ tool \in [Process -> Work]
    /\ added \in SUBSET Fact
    /\ adds \in 0 .. MaxAdds
    /\ overlapped \in BOOLEAN
    /\ unledgered \in BOOLEAN
    /\ scattered \in BOOLEAN

Init ==
    /\ edges = [k \in Slot |-> NoEdge]
    /\ ledger = <<>>
    /\ tool = [p \in Process |-> Idle]
    /\ added = {}
    /\ adds = 0
    /\ overlapped = FALSE
    /\ unledgered = FALSE
    /\ scattered = FALSE

-----------------------------------------------------------------------------
Used == {k \in Slot : edges[k] # NoEdge}

\* The digits of n, most significant first.
Digits[n \in Nat] ==
    IF n < Base THEN <<n>> ELSE Append(Digits[n \div Base], n % Base)

\* The order of edge ids: numerals compared as text.
ComesAfter(k, m) ==
    LET p == Digits[k]
        q == Digits[m]
    IN \/ \E i \in 1 .. Len(p) :
             /\ \A j \in 1 .. (i - 1) : j <= Len(q) /\ p[j] = q[j]
             /\ i <= Len(q) => p[i] > q[i]

\* query_edges(...)[-1]: the last edge of the pair, ORDER BY edge_id.
IsLast(k) == k \in Used /\ \A m \in Used \ {k} : ComesAfter(k, m)

\* The ids of the rows on slot k, and the status the latest one gives it.
RowsOf(k) == {i \in 1 .. Len(ledger) : ledger[i].slot = k}
IsLatest(i, k) == i \in RowsOf(k) /\ \A j \in RowsOf(k) : j <= i

\* The confirmation of slot k is pending: list_pending_confirmations shows it.
Pending(k) ==
    \E i \in RowsOf(k) : IsLatest(i, k) /\ ledger[i].status = "needs-confirmation"

SeedStatus(label) == IF label \in Sensitive THEN "needs-confirmation" ELSE "inferred"

\* Some process other than p is in the middle of something.
OthersBusy(p) == \E q \in Process \ {p} : tool[q] # Idle

Begins(p) ==
    /\ tool[p] = Idle
    /\ overlapped' = (overlapped \/ OthersBusy(p))

-----------------------------------------------------------------------------
\* Mutant of Count: edges are numbered from zero.
CountFromZero(p, label) ==
    /\ Begins(p)
    /\ Cardinality(Used) < MaxAdds
    /\ tool' = [tool EXCEPT ![p] =
           [step |-> "insert", label |-> label, slot |-> Cardinality(Used)]]
    /\ UNCHANGED <<edges, ledger, added, adds, unledgered, scattered>>

(***************************************************************************)
(* add_edge.  upsert_edge counts the edges of the pair ...                 *)
(***************************************************************************)
Count(p, label) ==
    /\ Begins(p)
    /\ Cardinality(Used) < MaxAdds
    /\ tool' = [tool EXCEPT ![p] =
           [step |-> "insert", label |-> label, slot |-> Cardinality(Used) + 1]]
    /\ UNCHANGED <<edges, ledger, added, adds, unledgered, scattered>>

\* ... and inserts the next one; an edge that has got the id meanwhile is
\* overwritten (ON CONFLICT DO UPDATE).  For a UI server that is all.
Insert(p) ==
    /\ tool[p].step = "insert"
    /\ adds < MaxAdds
    /\ adds' = adds + 1
    /\ LET fact == [n |-> adds + 1, label |-> tool[p].label]
       IN  /\ edges' = [edges EXCEPT ![tool[p].slot] = fact]
           /\ added' = added \union {fact}
    /\ tool' = [tool EXCEPT ![p] = IF p \in Server THEN Idle ELSE [step |-> "reread"]]
    /\ unledgered' = (unledgered \/ p \in Server)
    /\ UNCHANGED <<ledger, overlapped, scattered>>

\* Mutant of Reread: the first edge of the pair, not the last one.
RereadFirst(p) ==
    /\ tool[p].step = "reread"
    /\ \E k \in Used :
          /\ \A m \in Used \ {k} : ComesAfter(m, k)
          /\ tool' = [tool EXCEPT ![p] =
                 [step |-> "seed", slot |-> k, fact |-> edges[k]]]
    /\ UNCHANGED <<edges, ledger, history>>

\* The tool reads back the last edge of the pair and takes it for its own.
Reread(p) ==
    /\ tool[p].step = "reread"
    /\ \E k \in Used :
          /\ IsLast(k)
          /\ tool' = [tool EXCEPT ![p] =
                 [step |-> "seed", slot |-> k, fact |-> edges[k]]]
    /\ UNCHANGED <<edges, ledger, history>>

\* The pair has been deleted meanwhile: the tool fails.
RereadNothing(p) ==
    /\ tool[p].step = "reread"
    /\ Used = {}
    /\ tool' = [tool EXCEPT ![p] = Idle]
    /\ UNCHANGED <<edges, ledger, history>>

\* Mutant of AppendSeed: no second question while one is pending.
AppendSeedOnce(p) ==
    /\ tool[p].step = "seed"
    /\ Len(ledger) < MaxRows
    /\ ledger' = Append(ledger,
           [slot |-> tool[p].slot,
            status |-> IF Pending(tool[p].slot) THEN "inferred"
                       ELSE SeedStatus(tool[p].fact.label),
            label |-> tool[p].fact.label, fact |-> tool[p].fact])
    /\ tool' = [tool EXCEPT ![p] = Idle]
    /\ UNCHANGED <<edges, history>>

\* The ledger row of the edge read back.
AppendSeed(p) ==
    /\ tool[p].step = "seed"
    /\ Len(ledger) < MaxRows
    /\ ledger' = Append(ledger,
           [slot |-> tool[p].slot, status |-> SeedStatus(tool[p].fact.label),
            label |-> tool[p].fact.label, fact |-> tool[p].fact])
    /\ tool' = [tool EXCEPT ![p] = Idle]
    /\ UNCHANGED <<edges, history>>

\* The side-write fails and the edge stays, or the call fails or is cut short
\* anywhere.
Abandon(p) ==
    /\ tool[p] # Idle
    /\ tool' = [tool EXCEPT ![p] = Idle]
    /\ unledgered' = (unledgered \/ tool[p].step \in {"reread", "seed"})
    /\ UNCHANGED <<edges, ledger, added, adds, overlapped, scattered>>

\* Mutant of DeleteEdges: one edge of the pair is removed.
DeleteOneEdge(p) ==
    /\ p \notin Server
    /\ Begins(p)
    /\ \E k \in Used :
          /\ edges' = [edges EXCEPT ![k] = NoEdge]
          /\ added' = added \ {edges[k]}
    /\ UNCHANGED <<ledger, tool, adds, unledgered, scattered>>

\* delete_edge removes every edge of the pair.
DeleteEdges(p) ==
    /\ p \notin Server
    /\ Begins(p)
    /\ Used # {}
    /\ edges' = [k \in Slot |-> NoEdge]
    /\ added' = {}
    /\ scattered' = FALSE
    /\ UNCHANGED <<ledger, tool, adds, unledgered>>

(***************************************************************************)
(* upsert_edge with an edge_id, of POST /api/edges and of an import: no    *)
(* count, and no ledger row.                                               *)
(***************************************************************************)
Scatters(table) ==
    LET used == {k \in Slot : table[k] # NoEdge}
    IN  used # 1 .. Cardinality(used)

\* The edge becomes the one of its id, whatever had that before.
PutById(p, k, label) ==
    /\ p \in Server
    /\ Begins(p)
    /\ adds < MaxAdds
    /\ adds' = adds + 1
    /\ LET fact == [n |-> adds + 1, label |-> label]
       IN  /\ edges' = [edges EXCEPT ![k] = fact]
           /\ added' = (added \ {edges[k]}) \union {fact}
    /\ unledgered' = TRUE
    /\ scattered' = (scattered \/ Scatters(edges'))
    /\ UNCHANGED <<ledger, tool>>

\* Written with another source or target, an edge leaves the pair.
MoveById(p, k) ==
    /\ p \in Server
    /\ Begins(p)
    /\ k \in Used
    /\ edges' = [edges EXCEPT ![k] = NoEdge]
    /\ added' = added \ {edges[k]}
    /\ unledgered' = TRUE
    /\ scattered' = (scattered \/ Scatters(edges'))
    /\ UNCHANGED <<ledger, tool, adds>>

(***************************************************************************)
(* resolve_confirmation: the latest row must be pending ...                *)
(***************************************************************************)

\* Mutant of ReadPending: any row of the target will do.
ReadAny(p, k) ==
    /\ p \notin Server
    /\ Begins(p)
    /\ \E i \in RowsOf(k) :
          tool' = [tool EXCEPT ![p] =
              [step |-> "verdict", slot |-> k, fact |-> ledger[i].fact]]
    /\ UNCHANGED <<edges, ledger, added, adds, unledgered, scattered>>

ReadPending(p, k) ==
    /\ p \notin Server
    /\ Begins(p)
    /\ Pending(k)
    /\ \E i \in RowsOf(k) :
          /\ IsLatest(i, k)
          /\ tool' = [tool EXCEPT ![p] =
                 [step |-> "verdict", slot |-> k, fact |-> ledger[i].fact]]
    /\ UNCHANGED <<edges, ledger, added, adds, unledgered, scattered>>

\* ... and the verdict is appended, without the label of the relationship.
AppendVerdict(p) ==
    /\ tool[p].step = "verdict"
    /\ Len(ledger) < MaxRows
    /\ \E outcome \in Outcome :
          ledger' = Append(ledger,
              [slot |-> tool[p].slot, status |-> outcome, label |-> NoLabel,
               fact |-> tool[p].fact])
    /\ tool' = [tool EXCEPT ![p] = Idle]
    /\ UNCHANGED <<edges, history>>

ProcessStep(p) ==
    \/ \E label \in Label : Count(p, label)
    \/ Insert(p)
    \/ Reread(p)
    \/ RereadNothing(p)
    \/ AppendSeed(p)
    \/ Abandon(p)
    \/ DeleteEdges(p)
    \/ \E k \in Slot, label \in Label : PutById(p, k, label)
    \/ \E k \in Slot : MoveById(p, k)
    \/ \E k \in Slot : ReadPending(p, k)
    \/ AppendVerdict(p)

Next == \E p \in Process : ProcessStep(p)

Spec == Init /\ [][Next]_vars

-----------------------------------------------------------------------------
(***************************************************************************)
(* Properties.                                                             *)
(***************************************************************************)

\* Whatever processes do at the same time, a verdict has a question: an
\* earlier row on the same target that asked for confirmation.
VerdictFollowsQuestion ==
    \A i \in 1 .. Len(ledger) : ledger[i].status \in Outcome =>
        \E j \in 1 .. (i - 1) :
            /\ ledger[j].slot = ledger[i].slot
            /\ ledger[j].status = "needs-confirmation"

\* A pending question about an edge is closed by a verdict only, or by a row
\* about another edge that has got its id: never by a row about that edge.
QuestionStaysOpen ==
    [][\A k \in Slot : \A i \in RowsOf(k) :
          (IsLatest(i, k) /\ ledger[i].status = "needs-confirmation" /\ ~Pending(k)')
              => \E j \in RowsOf(k)' :
                    /\ j = Len(ledger')
                    /\ \/ ledger'[j].status \in Outcome
                       \/ ledger'[j].fact # ledger[i].fact]_vars

\* Operations that do not overlap lose no edge, unless edges written by id have
\* left a gap in the numbers: every edge added since the pair was last deleted,
\* and not replaced or moved by its id, has a slot of its own.
NoAddIsLost ==
    ~overlapped /\ ~scattered => {edges[k] : k \in Used} = added

\* When nothing overlaps, every add asks for its row and none is cut short, no
\* edge is written by id, and ids have one digit, the latest row on every edge
\* of the pair is about that edge, also when its id was used before by an edge
\* since deleted: no edge inherits another one's verdict.
LedgerDescribesEdges ==
    (~overlapped /\ ~unledgered /\ (\A p \in Process : tool[p].step \notin {"reread", "seed"}))
        => \A k \in Used : k < Base =>
              \E i \in RowsOf(k) : IsLatest(i, k) /\ ledger[i].fact = edges[k]

\* A verdict is only appended to a target whose latest row is pending.
VerdictAnswersPending ==
    \A i \in 1 .. Len(ledger) : ledger[i].status \in Outcome =>
        \E j \in 1 .. (i - 1) :
            /\ ledger[j].slot = ledger[i].slot
            /\ ledger[j].status = "needs-confirmation"
            /\ \A m \in (j + 1) .. (i - 1) : ledger[m].slot # ledger[i].slot

\* An edge with a sensitive label is put up for confirmation when it is added.
SensitiveEdgeIsQuestioned ==
    (~overlapped /\ ~unledgered /\ (\A p \in Process : tool[p].step \notin {"reread", "seed"}))
        => \A k \in Used : edges[k].label \in Sensitive =>
              \E i \in RowsOf(k) :
                 ledger[i].fact = edges[k] /\ ledger[i].status = "needs-confirmation"
=============================================================================
