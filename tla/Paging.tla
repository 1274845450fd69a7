------------------------------- MODULE Paging -------------------------------
(***************************************************************************)
(* Reading a long list in pages while it changes (mcp/tools.py             *)
(* snapshot_edges with verify/edge_snapshot.py and query_edges; _page      *)
(* behind list_secret_handles, list_source_connections, list_workspaces).  *)
(*                                                                         *)
(* An auditor walks through the edges of a graph by cursor, in an order of *)
(* its choice, and through a list by offset; writers add, delete, relabel  *)
(* and rewrite in between.  Ids of edges, labels and entries are numbers,  *)
(* in the order they sort.  A row of the table is the label and the id of  *)
(* an edge, by which it has its place, and what else is said of the edge.  *)
(***************************************************************************)
EXTENDS Naturals, Sequences, FiniteSets, SequencesExt, Ordering

CONSTANTS
    Edge,         \* ids of edges
    Label,        \* labels of edges
    EdgeBytes,    \* what each edge takes of an answer
    Quality,      \* what may be said of an edge: [weight, evidence]
    NoWeight,     \* weight of an edge that has none
    Filter,       \* filters of a walk: [label, minWeight, hasEvidence, neighborhood]
    PageSize,     \* limits asked for, 0 for none
    Entry,        \* entries of the list
    DEFAULT_EDGE_SNAPSHOT_LIMIT, MAX_EDGE_SNAPSHOT_LIMIT,
    LARGE_GRAPH_EDGE_THRESHOLD, MAX_SNAPSHOT_PAYLOAD_BYTES,
    DEFAULT_LIST_LIMIT, MAX_LIST_LIMIT,
    MaxEdits      \* bound: writes

ASSUME PagingAssumption ==
    /\ Edge \subseteq Nat \ {0} /\ IsFiniteSet(Edge)
    /\ Entry \subseteq Nat /\ IsFiniteSet(Entry)
    /\ \A q \in Quality : q.evidence \in Nat /\ q.weight \in Nat \union {NoWeight}
    /\ PageSize \subseteq Nat
    /\ Label \subseteq Nat \ {0} /\ IsFiniteSet(Label) /\ EdgeBytes \in [Edge -> Nat]
    /\ MAX_EDGE_SNAPSHOT_LIMIT \in Nat /\ DEFAULT_EDGE_SNAPSHOT_LIMIT \in 1 .. MAX_EDGE_SNAPSHOT_LIMIT
    /\ MAX_LIST_LIMIT \in Nat /\ DEFAULT_LIST_LIMIT \in 1 .. MAX_LIST_LIMIT

VARIABLES
    table,    \* the rows there are, with what is said of each edge
    walk,     \* the walk by cursor
    entries,  \* the entries there are
    listing,  \* the walk by offset
    edits

pagingVars == <<table, walk, entries, listing, edits>>

EdgeRow == [label : Label, id : Edge]
NoEdge == [label |-> 0, id |-> 0]

\* after: the label and id the cursor keeps; shown: the pages so far, of rows as
\* they were; cut: history, rows fetched and neither shown nor left for the next
\* page; steady: history, rows nobody wrote since the walk began; ranked:
\* history, a mode was asked for that does not keep the order of the table.
NoWalk == [state |-> "none", filter |-> CHOOSE f \in Filter : TRUE, after |-> NoEdge,
           shown |-> <<>>, cut |-> {}, steady |-> {}, ranked |-> FALSE]

\* steady: entries that were there all along; removed: some entry was removed.
NoListing == [state |-> "none", offset |-> 0, shown |-> <<>>, steady |-> {}, removed |-> FALSE]

\* "anomaly" is another name of "suspicious", and both sort as "sample".
Modes == {"sample", "suspicious", "evidence_ranked", "calibration"}

-----------------------------------------------------------------------------
Smaller(a, b) == IF a <= b THEN a ELSE b

\* The order of the table: by label, then by id.
ByLabel(d, e) == d.label < e.label \/ (d.label = e.label /\ d.id < e.id)

Evidence(e) == table[e].evidence
Weight(e, otherwise) == IF table[e].weight = NoWeight THEN otherwise ELSE table[e].weight

\* A comparison with a missing weight is not true; a neighborhood filters nothing.
Matches(f, e) ==
    /\ f.label # 0 => e.label = f.label
    /\ f.minWeight # NoWeight => table[e].weight # NoWeight /\ table[e].weight >= f.minWeight
    /\ f.hasEvidence = "yes" => Evidence(e) > 0
    /\ f.hasEvidence = "no" => Evidence(e) = 0

\* Mutant: the cursor's label is not compared.
QueryEdgesById(f, after, limit) ==
    LET rows == Sorted({e \in DOMAIN table : Matches(f, e) /\ e.id > after.id}, ByLabel)
    IN  SubSeq(rows, 1, Smaller(limit + 1, Len(rows)))

\* The first rows after the cursor, one more than a page holds.
QueryEdges(f, after, limit) ==
    LET rows == Sorted({e \in DOMAIN table : Matches(f, e) /\ (after # NoEdge => ByLabel(after, e))},
                       ByLabel)
    IN  SubSeq(rows, 1, Smaller(limit + 1, Len(rows)))

\* Edges without evidence first, then those with most of it; weights in tenths.
EvidenceFirst(d, e) ==
    \/ Evidence(d) = 0 /\ Evidence(e) > 0
    \/ (Evidence(d) = 0 <=> Evidence(e) = 0) /\ Evidence(d) > Evidence(e)
    \/ Evidence(d) = Evidence(e) /\ Weight(d, 0) < Weight(e, 0)
    \/ Evidence(d) = Evidence(e) /\ Weight(d, 0) = Weight(e, 0) /\ d.id < e.id

WeakestFirst(d, e) ==
    \/ d.label < e.label
    \/ d.label = e.label /\ Weight(d, 10) < Weight(e, 10)
    \/ d.label = e.label /\ Weight(d, 10) = Weight(e, 10) /\ d.id < e.id

\* Only the rows fetched are ranked.
Rank(rows, mode) ==
    CASE mode = "evidence_ranked" -> Sorted(ToSet(rows), EvidenceFirst)
      [] mode = "calibration" -> Sorted(ToSet(rows), WeakestFirst)
      [] OTHER -> rows

NormalizeLimit(limit) == IF limit = 0 THEN DEFAULT_EDGE_SNAPSHOT_LIMIT ELSE limit

\* A large graph is not read without a limit, a mode or a filter.
LargeGraphGuard(mode, limit, f) ==
    \/ Cardinality(DOMAIN table) <= LARGE_GRAPH_EDGE_THRESHOLD
    \/ mode # "default" \/ limit # 0
    \/ f.label # 0 \/ f.minWeight # NoWeight \/ f.hasEvidence # "any" \/ f.neighborhood

PayloadSize(page) == FoldSeq(LAMBDA e, size : EdgeBytes[e.id] + size, 0, page)

\* The answer to one call: the page, and where the next one begins (no edge: nowhere).
EdgeSnapshot(f, after, limit, mode) ==
    LET rows == QueryEdges(f, after, limit)
        ranked == Rank(rows, mode)
        page == SubSeq(ranked, 1, Smaller(limit, Len(ranked)))
    IN  [page |-> page, rows |-> rows,
         next |-> IF Len(ranked) > limit THEN Last(page) ELSE NoEdge]

-----------------------------------------------------------------------------
IdsAreUnique(R) == \A d, e \in R : d.id = e.id => d = e

\* The two kinds of walk have nothing in common: one of the lists is empty.
PagingInit ==
    /\ \/ entries = {} /\ \E R \in SUBSET EdgeRow : IdsAreUnique(R) /\ table \in [R -> Quality]
       \/ entries \in SUBSET Entry /\ table = <<>>
    /\ walk = NoWalk
    /\ listing = NoListing
    /\ edits = 0

\* The first call, or the next one with the cursor of the last; the mode and
\* the limit are the caller's each time.  A limit out of range, a graph too
\* large, an answer too long: nothing is shown, and the cursor may be used again.
SnapshotEdges(f, limit, mode) ==
    LET size == NormalizeLimit(limit)
        answer == EdgeSnapshot(f, walk.after, size, mode)
    IN  /\ walk.state = "none" \/ (walk.state = "open" /\ f = walk.filter)
        /\ IF /\ size <= MAX_EDGE_SNAPSHOT_LIMIT
              /\ LargeGraphGuard(mode, limit, f)
              /\ PayloadSize(answer.page) <= MAX_SNAPSHOT_PAYLOAD_BYTES
           THEN walk' = [state |-> IF answer.next = NoEdge THEN "done" ELSE "open",
                         filter |-> f,
                         after |-> answer.next,
                         shown |-> Append(walk.shown, answer.page),
                         cut |-> walk.cut \union
                                    {e \in ToSet(answer.rows) \ ToSet(answer.page) :
                                        answer.next # NoEdge /\ ByLabel(e, answer.next)},
                         steady |-> IF walk.state = "none" THEN DOMAIN table ELSE walk.steady,
                         ranked |-> walk.ranked \/ mode \in {"evidence_ranked", "calibration"}]
           ELSE UNCHANGED walk
        /\ UNCHANGED <<table, entries, listing, edits>>

ListLimit(asked) == Smaller(IF asked = 0 THEN DEFAULT_LIST_LIMIT ELSE asked, MAX_LIST_LIMIT)

\* One page of a list by offset; the next offset is none at the end.
ListPage(asked) ==
    LET items == Sorted(entries, <)
        end == listing.offset + ListLimit(asked)
    IN  /\ listing.state # "done"
        /\ listing' = [state |-> IF end < Len(items) THEN "open" ELSE "done",
                       offset |-> end,
                       shown |-> listing.shown \o
                                     SubSeq(items, listing.offset + 1, Smaller(end, Len(items))),
                       steady |-> IF listing.state = "none" THEN entries ELSE listing.steady,
                       removed |-> listing.removed]
        /\ UNCHANGED <<table, walk, entries, edits>>

Edit == edits < MaxEdits /\ edits' = edits + 1

Others(R, i) == {r \in R : r.id # i}

\* An edge is added, or rewritten, and its label may be another one then.
WriteEdge(r, q) ==
    /\ Edit
    /\ walk.state # "done" /\ entries = {}
    /\ r \in DOMAIN table => table[r] # q
    /\ table' = [d \in Others(DOMAIN table, r.id) \union {r} |-> IF d = r THEN q ELSE table[d]]
    /\ walk' = [walk EXCEPT !.steady = Others(@, r.id)]
    /\ UNCHANGED <<entries, listing>>

DropEdge(r) ==
    /\ Edit
    /\ walk.state # "done" /\ r \in DOMAIN table
    /\ table' = [d \in Others(DOMAIN table, r.id) |-> table[d]]
    /\ walk' = [walk EXCEPT !.steady = Others(@, r.id)]
    /\ UNCHANGED <<entries, listing>>

ChangeEntry(x) ==
    /\ Edit
    /\ listing.state # "done" /\ table = <<>>
    /\ IF x \in entries
       THEN /\ entries' = entries \ {x}
            /\ listing' = [listing EXCEPT !.steady = @ \ {x},
                                          !.removed = @ \/ listing.state = "open"]
       ELSE /\ entries' = entries \union {x}
            /\ UNCHANGED listing
    /\ UNCHANGED <<table, walk>>

PagingNext ==
    \/ \E f \in Filter, limit \in PageSize, mode \in Modes \union {"default"} :
           SnapshotEdges(f, limit, mode)
    \/ \E asked \in PageSize : ListPage(asked)
    \/ \E r \in EdgeRow, q \in Quality : WriteEdge(r, q)
    \/ \E r \in EdgeRow : DropEdge(r)
    \/ \E x \in Entry : ChangeEntry(x)

PagingSpec == PagingInit /\ [][PagingNext]_pagingVars

-----------------------------------------------------------------------------
Shown == UNION {ToSet(walk.shown[i]) : i \in DOMAIN walk.shown}
InTableOrder == ~walk.ranked

\* A finished walk has shown every edge that was there all along and matches
\* (verify/edge_snapshot.py), but for those a ranked page has fetched and left
\* before its cursor: at most one of them per page, none in the order of the
\* table.  An edge written in between, its label too, may be missed.
EveryEdgeIsShown ==
    walk.state = "done" =>
        /\ \A r \in walk.steady : Matches(walk.filter, r) => r \in Shown \union walk.cut
        /\ InTableOrder => walk.cut = {}
        /\ Cardinality(walk.cut) < Len(walk.shown)

\* In the order of the table no page goes back behind an earlier one, by labels
\* and ids as they were when it was shown, whatever the writers do.  An edge that
\* nobody wrote is only shown under the label it has, so that one shown twice,
\* which is then under two labels, was written in between.
PagesGoForward ==
    /\ InTableOrder =>
          \A i, j \in DOMAIN walk.shown : \A a \in DOMAIN walk.shown[i], b \in DOMAIN walk.shown[j] :
              i < j \/ (i = j /\ a < b) => ByLabel(walk.shown[i][a], walk.shown[j][b])
    /\ \A d \in walk.steady, e \in Shown : d.id = e.id => d = e

\* A finished listing by offset has shown every entry that was there all along,
\* unless one was removed in the middle of it; additions repeat entries at most.
ListingIsWhole ==
    listing.state = "done" /\ ~listing.removed => listing.steady \subseteq ToSet(listing.shown)

PagesAreWhole == EveryEdgeIsShown /\ PagesGoForward /\ ListingIsWhole
=============================================================================
