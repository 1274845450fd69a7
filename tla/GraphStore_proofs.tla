-------------------------- MODULE GraphStore_proofs --------------------------
(***************************************************************************)
(* Proofs about GraphStore, for any number of processes, calls, nodes,     *)
(* edges and clusters: types, and that the tables hold what the calls      *)
(* wrote, with the excuses that the properties name.                       *)
(***************************************************************************)
EXTENDS GraphStore, FiniteSetTheorems, TLAPS

USE StoreAssumption

-----------------------------------------------------------------------------
(***************************************************************************)
(* What a call carries.                                                    *)
(***************************************************************************)
Upsert == [step : {"upsertNode"}, node : Node, field : Field,
           labelled : BOOLEAN, row : Content \union {Gone}]
Plain == [step : {"deleteEdges", "refresh", "createMeta", "deleteGraph"}]
ImportStep == {"saveMeta", "clearNodes", "saveNodes", "saveEdges"}
Import == [step : ImportStep, payload : Payload, overlapped : BOOLEAN, leftover : BOOLEAN]
Propose == [step : {"saveCluster", "saveMembers"}, cluster : Cluster, who : SUBSET Node]
Lifecycle == [step : {"setStatus"}, cluster : Cluster, status : Status]
Rewriting == [step : {"rewrite"}, cluster : Cluster, from : Cluster, status : Status]

LEMMA CallUnion ==
    Call = {Idle} \union Upsert \union [step : {"deleteNode"}, node : Node]
           \union [step : {"insertEdge"}, slot : 1 .. MaxEdges] \union Plain \union Import
           \union Propose \union Lifecycle \union Rewriting
BY DEF Call, Upsert, Plain, Import, ImportStep, Propose, Lifecycle, Rewriting

LEMMA CallParts ==
    ASSUME NEW c \in Call
    PROVE  /\ c.step = "upsertNode" => c \in Upsert
           /\ c.step = "deleteNode" => c \in [step : {"deleteNode"}, node : Node]
           /\ c.step = "insertEdge" => c \in [step : {"insertEdge"}, slot : 1 .. MaxEdges]
           /\ c.step \in ImportStep => c \in Import
           /\ c.step \in {"saveCluster", "saveMembers"} => c \in Propose
           /\ c.step = "setStatus" => c \in Lifecycle
           /\ c.step = "rewrite" => c \in Rewriting
<1> USE DEF ImportStep
<1>1. CASE c = Idle
  BY <1>1 DEF Idle
<1>2. CASE c \in Upsert
  BY <1>2 DEF Upsert
<1>3. CASE c \in [step : {"deleteNode"}, node : Node]
  BY <1>3
<1>4. CASE c \in [step : {"insertEdge"}, slot : 1 .. MaxEdges]
  BY <1>4
<1>5. CASE c \in Plain
  BY <1>5 DEF Plain
<1>6. CASE c \in Import
  BY <1>6 DEF Import
<1>7. CASE c \in Propose
  BY <1>7 DEF Propose
<1>8. CASE c \in Lifecycle
  BY <1>8 DEF Lifecycle
<1>9. CASE c \in Rewriting
  BY <1>9 DEF Rewriting
<1> QED
  BY <1>1, <1>2, <1>3, <1>4, <1>5, <1>6, <1>7, <1>8, <1>9, CallUnion

\* An import that is told of another's commit is still that import.
LEMMA DisturbedParts ==
    ASSUME NEW c \in Call
    PROVE  /\ Disturbed(c) \in Call /\ Disturbed(c).step = c.step
           /\ c.step \in ImportStep => /\ Disturbed(c).payload = c.payload
                                       /\ Disturbed(c).overlapped = TRUE
                                       /\ Disturbed(c).leftover = c.leftover
           /\ c.step \notin ImportStep => Disturbed(c) = c
<1>1. CASE c.step \in ImportStep
  <2>1. c \in Import
    BY <1>1, CallParts
  <2>2. Disturbed(c) = [c EXCEPT !.overlapped = TRUE]
    BY <1>1 DEF Disturbed, ImportStep
  <2>3. /\ Disturbed(c) \in Import /\ Disturbed(c).step = c.step
        /\ Disturbed(c).payload = c.payload /\ Disturbed(c).overlapped = TRUE
        /\ Disturbed(c).leftover = c.leftover
    BY <2>1, <2>2 DEF Import
  <2> QED
    BY <1>1, <2>3, CallUnion
<1>2. CASE c.step \notin ImportStep
  BY <1>2 DEF Disturbed, ImportStep
<1> QED
  BY <1>1, <1>2

LEMMA IdleIsACall == Idle \in Call /\ Idle.step = "idle"
BY DEF Call, Idle

-----------------------------------------------------------------------------
(***************************************************************************)
(* Connections, by what a statement does to them.                          *)
(***************************************************************************)
ConnTypeOK ==
    /\ conn \in [Process -> {"auto", "open", "pinned", "stale", "holding"}]
    /\ loose \in SUBSET (Cluster \X Node)
    /\ call \in [Process -> Call]

LEMMA CommitTypes ==
    ASSUME ConnTypeOK, NEW p \in Process, NEW next \in Call, Commit(p, next)
    PROVE  ConnTypeOK'
<1>1. call' \in [Process -> Call]
  BY DisturbedParts DEF Commit, ConnTypeOK
<1>2. conn' \in [Process -> {"auto", "open", "pinned", "stale", "holding"}]
  BY DEF Commit, ConnTypeOK
<1> QED
  BY <1>1, <1>2 DEF Commit, ConnTypeOK

LEMMA BeginTypes ==
    ASSUME ConnTypeOK, NEW p \in Process, NEW first \in Call, Begin(p, first)
    PROVE  ConnTypeOK'
<1>1. conn' \in [Process -> {"auto", "open", "pinned", "stale", "holding"}]
  BY DEF Begin, ConnTypeOK
<1> QED
  BY <1>1 DEF Begin, ConnTypeOK

LEMMA ViolateTypes ==
    ASSUME ConnTypeOK, NEW p \in Process, NEW rows \in SUBSET (Cluster \X Node), Violate(p, rows)
    PROVE  ConnTypeOK'
<1>1. call' \in [Process -> Call]
  BY IdleIsACall DEF Violate, ConnTypeOK
<1> QED
  BY <1>1 DEF Violate, ConnTypeOK

\* The counts are numbers: the tables are finite.
LEMMA TablesAreFinite ==
    ASSUME TypeOK
    PROVE  /\ IsFiniteSet(Stored) /\ Cardinality(Stored) \in Nat
           /\ IsFiniteSet(edges) /\ Cardinality(edges) \in Nat
<1>1. IsFiniteSet(Stored)
  BY FS_Subset DEF Stored
<1>2. IsFiniteSet(1 .. MaxEdges)
  BY FS_Interval
<1>3. IsFiniteSet(edges)
  BY <1>2, FS_Subset DEF TypeOK
<1> QED
  BY <1>1, <1>3, FS_CardinalityType

LEMMA PayloadParts ==
    ASSUME NEW pl \in Payload
    PROVE  /\ pl.nodes \subseteq Node /\ pl.edges \in 0 .. MaxEdges
           /\ IsFiniteSet(pl.nodes) /\ Cardinality(pl.nodes) \in Nat
<1>1. pl.nodes \subseteq Node /\ pl.edges \in 0 .. MaxEdges
  OBVIOUS
<1> QED
  BY <1>1, FS_Subset, FS_CardinalityType

LEMMA PatchedType ==
    ASSUME NEW row \in Content \union {Gone}, NEW f \in Field
    PROVE  Patched(row, f) \in Content
BY DEF Patched, Content, Blank, Field

-----------------------------------------------------------------------------
(***************************************************************************)
(* Types.                                                                  *)
(***************************************************************************)
TablesTypeOK ==
    /\ graph \in [there : BOOLEAN, nodeCount : Nat, edgeCount : Nat]
    /\ nodes \in [Node -> Content \union {Gone}]
    /\ edges \in SUBSET (1 .. MaxEdges)
    /\ clusters \in [Cluster -> Status \union {Gone}]
    /\ members \in SUBSET (Cluster \X Node)

HistoryTypeOK ==
    /\ expect \in [Node -> Content \union {Gone}]
    /\ raced \in SUBSET Node
    /\ asked \in [Cluster -> Status \union {Gone}]
    /\ racedClusters \in SUBSET Cluster

LEMMA TypeSplit ==
    TypeOK <=> /\ ConnTypeOK /\ TablesTypeOK /\ HistoryTypeOK
               /\ emptied \in BOOLEAN /\ skewed \in BOOLEAN
               /\ calls \in 0 .. MaxCalls /\ faults \in 0 .. MaxFaults
BY DEF TypeOK, ConnTypeOK, TablesTypeOK, HistoryTypeOK

LEMMA TypeInit == Init => TypeOK
<1> SUFFICES ASSUME Init PROVE TypeOK
  OBVIOUS
<1>1. nodes \in [Node -> Content \union {Gone}] /\ expect = nodes
  BY DEF Init, NoNodes
<1>2. clusters \in [Cluster -> Status \union {Gone}] /\ asked = clusters
  BY DEF Init, NoClusters
<1>3. call \in [Process -> Call]
  BY IdleIsACall DEF Init
<1>4. ConnTypeOK
  BY <1>3 DEF Init, ConnTypeOK
<1>5. TablesTypeOK
  BY <1>1, <1>2 DEF Init, TablesTypeOK
<1>6. HistoryTypeOK
  BY <1>1, <1>2 DEF Init, HistoryTypeOK
<1>7. emptied \in BOOLEAN /\ skewed \in BOOLEAN
  BY Zenon DEF Init
<1>8. calls \in 0 .. MaxCalls /\ faults \in 0 .. MaxFaults
  BY DEF Init
<1> QED
  BY <1>4, <1>5, <1>6, <1>7, <1>8 DEF TypeOK, ConnTypeOK, TablesTypeOK, HistoryTypeOK

\* Starting a call changes no table and no history.
LEMMA StartTypes ==
    ASSUME TypeOK, NEW p \in Process, Start(p)
    PROVE  TypeOK'
<1>1. ASSUME NEW first \in Call, Begin(p, first)
      PROVE  TypeOK'
  <2>1. ConnTypeOK'
    BY <1>1, BeginTypes, TypeSplit
  <2>2. calls' \in 0 .. MaxCalls
    BY <1>1 DEF Begin, TypeOK
  <2> QED
    BY <1>1, <2>1, <2>2 DEF Begin, TypeOK, ConnTypeOK, tables, history
<1>2. ASSUME NEW n \in Node, NEW f \in Field, NEW l \in BOOLEAN, BeginPatch(p, n, f, l)
      PROVE  TypeOK'
  <2>1. [step |-> "upsertNode", node |-> n, field |-> f, labelled |-> l, row |-> nodes[n]] \in Upsert
    BY DEF Upsert, TypeOK
  <2> QED
    BY <1>1, <1>2, <2>1, CallUnion DEF BeginPatch
<1>3. ASSUME NEW n \in Node, BeginDeleteNode(p, n)
      PROVE  TypeOK'
  BY <1>1, <1>3, CallUnion DEF BeginDeleteNode
<1>4. ASSUME BeginAddEdge(p)
      PROVE  TypeOK'
  <2>1. Cardinality(edges) + 1 \in 1 .. MaxEdges
    BY <1>4, TablesAreFinite DEF BeginAddEdge
  <2> QED
    BY <1>1, <1>4, <2>1, CallUnion DEF BeginAddEdge
<1>5. ASSUME BeginDeleteEdges(p) \/ BeginCreate(p) \/ BeginDeleteGraph(p)
      PROVE  TypeOK'
  BY <1>1, <1>5, CallUnion DEF BeginDeleteEdges, BeginCreate, BeginDeleteGraph, Plain
<1>6. ASSUME NEW pl \in Payload, BeginImport(p, pl)
      PROVE  TypeOK'
  BY <1>1, <1>6, CallUnion DEF BeginImport, Import, ImportStep
<1>7. ASSUME NEW c \in Cluster, NEW who \in SUBSET Node, BeginPropose(p, c, who)
      PROVE  TypeOK'
  BY <1>1, <1>7, CallUnion DEF BeginPropose, Propose
<1>8. ASSUME NEW c \in Cluster, NEW st \in Status \ {"proposed"}, BeginLifecycle(p, c, st)
      PROVE  TypeOK'
  BY <1>1, <1>8, CallUnion DEF BeginLifecycle, Lifecycle
<1>9. ASSUME NEW c \in Cluster, NEW d \in Cluster, BeginRewrite(p, c, d)
      PROVE  TypeOK'
  <2>1. clusters[c] \in Status
    BY <1>9 DEF BeginRewrite, TypeOK
  <2> QED
    BY <1>1, <1>9, <2>1, CallUnion DEF BeginRewrite, Rewriting
<1> QED
  BY <1>2, <1>3, <1>4, <1>5, <1>6, <1>7, <1>8, <1>9 DEF Start

LEMMA ConnectionTypes ==
    ASSUME TypeOK, NEW p \in Process, Refused(p) \/ Stop(p) \/ Browse(p) \/ PollerCommit(p)
    PROVE  TypeOK'
<1>1. ConnTypeOK'
  BY IdleIsACall DEF Refused, Stop, Browse, PollerCommit, TypeOK, ConnTypeOK
<1>2. TablesTypeOK'
  BY DEF Refused, Stop, Browse, PollerCommit, TypeOK, TablesTypeOK, tables
<1>3. HistoryTypeOK'
  BY DEF Refused, Stop, Browse, PollerCommit, LeftUndone, TypeOK, HistoryTypeOK, history
<1>4. emptied' \in BOOLEAN /\ skewed' \in BOOLEAN
  BY DEF Refused, Stop, Browse, PollerCommit, LeftUndone, TypeOK, history
<1>5. calls' \in 0 .. MaxCalls /\ faults' \in 0 .. MaxFaults
  BY DEF Refused, Stop, Browse, PollerCommit, TypeOK
<1> QED
  BY <1>1, <1>2, <1>3, <1>4, <1>5
  DEF TypeOK, ConnTypeOK, TablesTypeOK, HistoryTypeOK

\* A statement of a call that is committed, or that a constraint stops.
LEMMA StatementTypes ==
    ASSUME TypeOK, NEW p \in Process,
           ConnTypeOK', TablesTypeOK', HistoryTypeOK',
           emptied' \in BOOLEAN, skewed' \in BOOLEAN, UNCHANGED <<calls, faults>>
    PROVE  TypeOK'
BY DEF TypeOK, ConnTypeOK, TablesTypeOK, HistoryTypeOK

LEMMA ContinueTypes ==
    ASSUME TypeOK, NEW p \in Process, Continue(p)
    PROVE  TypeOK'
<1>types. /\ ConnTypeOK /\ TablesTypeOK /\ HistoryTypeOK
          /\ emptied \in BOOLEAN /\ skewed \in BOOLEAN
  BY TypeSplit
<1>call. call[p] \in Call
  BY DEF TypeOK
<1>idle. Idle \in Call /\ [step |-> "refresh"] \in Call
  BY IdleIsACall, CallUnion DEF Plain
<1>0. ASSUME members' \in SUBSET (Cluster \X Node), UNCHANGED <<graph, nodes, edges, clusters>>
      PROVE  TablesTypeOK'
  BY <1>0, <1>types DEF TablesTypeOK
<1>1. ASSUME UpsertNode(p)
      PROVE  TypeOK'
  <2>1. call[p] \in Upsert
    BY <1>1, <1>call, CallParts DEF UpsertNode
  <2>2. ConnTypeOK'
    BY <1>1, <1>types, <1>idle, CommitTypes DEF UpsertNode
  <2>3. Patched(call[p].row, call[p].field) \in Content
    BY <2>1, PatchedType DEF Upsert
  <2>4. TablesTypeOK'
    BY <1>1, <1>types, <2>3 DEF UpsertNode, TablesTypeOK, ConnTypeOK
  <2>5. Patched(expect[call[p].node], call[p].field) \in Content
    BY <2>1, <1>types, PatchedType DEF Upsert, HistoryTypeOK
  <2>6. HistoryTypeOK'
    BY <1>1, <1>types, <2>1, <2>5 DEF UpsertNode, HistoryTypeOK, Upsert
  <2> QED
    BY <1>1, <1>types, <2>2, <2>4, <2>6, StatementTypes DEF UpsertNode
<1>2. ASSUME UpsertFails(p) \/ InsertEdgeFails(p) \/ ClusterRefused(p)
      PROVE  TypeOK'
  <2>1. Violate(p, {}) /\ UNCHANGED <<tables, history, calls, faults>>
    BY <1>2 DEF UpsertFails, InsertEdgeFails, ClusterRefused
  <2>2. ConnTypeOK'
    BY <2>1, <1>types, ViolateTypes
  <2> QED
    BY <1>types, <2>1, <2>2, StatementTypes DEF tables, history, TablesTypeOK, HistoryTypeOK
<1>3. ASSUME DeleteNode(p)
      PROVE  TypeOK'
  <2>1. call[p].node \in Node
    BY <1>3, <1>call, CallParts DEF DeleteNode
  <2>2. ConnTypeOK'
    BY <1>3, <1>types, <1>idle, CommitTypes DEF DeleteNode
  <2>3. TablesTypeOK'
    BY <1>3, <1>types, <2>1 DEF DeleteNode, TablesTypeOK, ConnTypeOK
  <2>4. HistoryTypeOK'
    BY <1>3, <1>types, <2>1 DEF DeleteNode, HistoryTypeOK
  <2> QED
    BY <1>3, <1>types, <2>2, <2>3, <2>4, StatementTypes DEF DeleteNode
<1>4. ASSUME Refresh(p)
      PROVE  TypeOK'
  <2>1. ConnTypeOK'
    BY <1>4, <1>types, <1>idle, CommitTypes DEF Refresh
  <2>2. TablesTypeOK'
    BY <1>4, <1>types, TablesAreFinite DEF Refresh, TablesTypeOK, ConnTypeOK
  <2>3. HistoryTypeOK'
    BY <1>4, <1>types DEF Refresh, HistoryTypeOK
  <2> QED
    BY <1>4, <1>types, <2>1, <2>2, <2>3, StatementTypes DEF Refresh
<1>5. ASSUME InsertEdge(p)
      PROVE  TypeOK'
  <2>1. call[p].slot \in 1 .. MaxEdges
    BY <1>5, <1>call, CallParts DEF InsertEdge
  <2>2. ConnTypeOK'
    BY <1>5, <1>types, <1>idle, CommitTypes DEF InsertEdge
  <2>3. TablesTypeOK'
    BY <1>5, <1>types, <2>1 DEF InsertEdge, TablesTypeOK, ConnTypeOK
  <2> QED
    BY <1>5, <1>types, <2>2, <2>3, StatementTypes DEF InsertEdge, history, HistoryTypeOK
<1>6. ASSUME DeleteEdges(p)
      PROVE  TypeOK'
  <2>1. ConnTypeOK'
    BY <1>6, <1>types, <1>idle, CommitTypes DEF DeleteEdges
  <2>2. TablesTypeOK'
    BY <1>6, <1>types DEF DeleteEdges, TablesTypeOK, ConnTypeOK
  <2> QED
    BY <1>6, <1>types, <2>1, <2>2, StatementTypes DEF DeleteEdges, history, HistoryTypeOK
<1>7. ASSUME CreateMeta(p)
      PROVE  TypeOK'
  <2>1. ConnTypeOK'
    BY <1>7, <1>types, <1>idle, CommitTypes DEF CreateMeta
  <2>2. TablesTypeOK'
    BY <1>7, <1>types DEF CreateMeta, TablesTypeOK, ConnTypeOK
  <2>3. HistoryTypeOK'
    BY <1>7, <1>types DEF CreateMeta, HistoryTypeOK
  <2> QED
    BY <1>7, <1>types, <2>1, <2>2, <2>3, StatementTypes DEF CreateMeta
<1>8. ASSUME DeleteGraph(p)
      PROVE  TypeOK'
  <2>1. ConnTypeOK'
    BY <1>8, <1>types, <1>idle, CommitTypes DEF DeleteGraph
  <2>2. TablesTypeOK'
    BY <1>8 DEF DeleteGraph, TablesTypeOK, NoGraph, NoNodes, NoClusters
  <2>3. HistoryTypeOK'
    BY <1>8 DEF DeleteGraph, HistoryTypeOK, NoNodes, NoClusters
  <2>4. emptied' \in BOOLEAN /\ skewed' \in BOOLEAN
    BY <1>8, Zenon DEF DeleteGraph
  <2> QED
    BY <1>8, <2>1, <2>2, <2>3, <2>4, StatementTypes DEF DeleteGraph
<1>import. ASSUME call[p].step \in ImportStep
           PROVE  /\ call[p] \in Import /\ call[p].payload \in Payload
                  /\ \A s \in ImportStep : [call[p] EXCEPT !.step = s] \in Call
                  /\ \A b \in BOOLEAN :
                        [call[p] EXCEPT !.step = "clearNodes", !.leftover = b] \in Call
  <2>1. call[p] \in Import
    BY <1>import, <1>call, CallParts
  <2>2. \A s \in ImportStep : [call[p] EXCEPT !.step = s] \in Import
    BY <2>1 DEF Import
  <2>3. \A b \in BOOLEAN : [call[p] EXCEPT !.step = "clearNodes", !.leftover = b] \in Import
    BY <2>1 DEF Import, ImportStep
  <2> QED
    BY <2>1, <2>2, <2>3, CallUnion DEF Import
<1>9. ASSUME SaveMeta(p)
      PROVE  TypeOK'
  <2>1. call[p].step \in ImportStep
    BY <1>9 DEF SaveMeta, ImportStep
  <2>2. PICK b \in BOOLEAN : b = ~(edges \subseteq 1 .. call[p].payload.edges)
    BY Zenon
  <2>3. [call[p] EXCEPT !.step = "clearNodes", !.leftover = b] \in Call
    BY <2>1, <1>import
  <2>4. Commit(p, [call[p] EXCEPT !.step = "clearNodes", !.leftover = b])
    BY <1>9, <2>2, Zenon DEF SaveMeta
  <2>5. ConnTypeOK'
    BY <2>3, <2>4, <1>types, CommitTypes
  <2>6. call[p].payload.edges \in Nat /\ Cardinality(call[p].payload.nodes) \in Nat
    <3>1. call[p].payload \in Payload
      BY <2>1, <1>import
    <3> QED
      BY <3>1, PayloadParts
  <2>7. graph' \in [there : BOOLEAN, nodeCount : Nat, edgeCount : Nat]
    BY <1>9, <2>6 DEF SaveMeta
  <2>8. TablesTypeOK'
    BY <1>9, <1>types, <2>7 DEF SaveMeta, TablesTypeOK, ConnTypeOK
  <2> QED
    BY <1>9, <1>types, <2>5, <2>8, StatementTypes DEF SaveMeta, history, HistoryTypeOK
<1>10. ASSUME ClearNodes(p)
       PROVE  TypeOK'
  <2>1. call[p].step \in ImportStep /\ "saveNodes" \in ImportStep
    BY <1>10 DEF ClearNodes, ImportStep
  <2>2. ConnTypeOK'
    BY <1>10, <2>1, <1>import, <1>types, CommitTypes DEF ClearNodes
  <2>3. TablesTypeOK'
    BY <1>10, <1>types DEF ClearNodes, TablesTypeOK, NoNodes
  <2> QED
    BY <1>10, <1>types, <2>2, <2>3, StatementTypes DEF ClearNodes, history, HistoryTypeOK
<1>11. ASSUME SaveNodes(p)
       PROVE  TypeOK'
  <2>1. call[p].step \in ImportStep /\ "saveEdges" \in ImportStep
    BY <1>11 DEF SaveNodes, ImportStep
  <2>2. ConnTypeOK'
    BY <1>11, <2>1, <1>import, <1>types, CommitTypes DEF SaveNodes
  <2>3. Blank \in Content
    BY DEF Blank, Content
  <2>4. TablesTypeOK'
    BY <1>11, <1>types, <2>3 DEF SaveNodes, TablesTypeOK, ConnTypeOK
  <2>5. HistoryTypeOK'
    BY <1>11, <1>types, <2>3 DEF SaveNodes, HistoryTypeOK, Stored
  <2>6. emptied' \in BOOLEAN /\ skewed' \in BOOLEAN
    BY <1>11, <1>types, Zenon DEF SaveNodes
  <2> QED
    BY <1>11, <2>2, <2>4, <2>5, <2>6, StatementTypes DEF SaveNodes
<1>12. ASSUME ParentMissing(p) \/ ImportFails(p)
       PROVE  TypeOK'
  <2>1. ConnTypeOK'
    <3>1. CASE ParentMissing(p)
      BY <3>1, <1>types, <1>idle DEF ParentMissing, ConnTypeOK
    <3>2. CASE ImportFails(p)
      BY <3>2, <1>types, ViolateTypes DEF ImportFails
    <3> QED
      BY <1>12, <3>1, <3>2
  <2>2. LeftUndone(p) /\ UNCHANGED <<tables, calls, faults>>
    BY <1>12 DEF ParentMissing, ImportFails
  <2>3. emptied' \in BOOLEAN /\ skewed' \in BOOLEAN
    BY <2>2, Zenon DEF LeftUndone
  <2> QED
    BY <1>types, <2>1, <2>2, <2>3, StatementTypes DEF tables, LeftUndone, TablesTypeOK, HistoryTypeOK
<1>13. ASSUME SaveEdges(p)
       PROVE  TypeOK'
  <2>1. call[p].step \in ImportStep
    BY <1>13 DEF SaveEdges, ImportStep
  <2>2. ConnTypeOK'
    BY <1>13, <1>types, <1>idle, CommitTypes DEF SaveEdges
  <2>3. call[p].payload.edges \in 0 .. MaxEdges
    BY <2>1, <1>import, PayloadParts
  <2>4. 1 .. call[p].payload.edges \subseteq 1 .. MaxEdges
    BY <2>3
  <2>5. TablesTypeOK'
    BY <1>13, <2>4, <1>types DEF SaveEdges, TablesTypeOK, ConnTypeOK
  <2>6. skewed' \in BOOLEAN
    BY <1>13, Zenon DEF SaveEdges
  <2> QED
    BY <1>13, <1>types, <2>2, <2>5, <2>6, StatementTypes DEF SaveEdges, HistoryTypeOK
<1>14. ASSUME SaveCluster(p)
       PROVE  TypeOK'
  <2>1. call[p] \in Propose
    BY <1>14, <1>call, CallParts DEF SaveCluster
  <2>2. [call[p] EXCEPT !.step = "saveMembers"] \in Call
    BY <2>1, CallUnion DEF Propose
  <2>3. ConnTypeOK'
    BY <1>14, <2>2, <1>idle, <1>types, CommitTypes DEF SaveCluster
  <2>4. TablesTypeOK'
    BY <1>14, <2>1, <1>types DEF SaveCluster, TablesTypeOK, ConnTypeOK, Propose, Status
  <2>5. HistoryTypeOK'
    BY <1>14, <2>1, <1>types DEF SaveCluster, HistoryTypeOK, Propose, Status
  <2> QED
    BY <1>14, <1>types, <2>3, <2>4, <2>5, StatementTypes DEF SaveCluster
<1>15. ASSUME SaveMembers(p)
       PROVE  TypeOK'
  <2>1. call[p].cluster \in Cluster /\ call[p].who \subseteq Node
    BY <1>15, <1>call, CallParts DEF SaveMembers, Propose
  <2>2. ConnTypeOK'
    BY <1>15, <1>idle, <1>types, CommitTypes DEF SaveMembers
  <2>3. TablesTypeOK'
    BY <1>15, <2>1, <1>types DEF SaveMembers, TablesTypeOK, ConnTypeOK
  <2> QED
    BY <1>15, <1>types, <2>2, <2>3, StatementTypes DEF SaveMembers, history, HistoryTypeOK
<1>16. ASSUME MembersFail(p)
       PROVE  TypeOK'
  <2>1. call[p].cluster \in Cluster /\ call[p].who \subseteq Node
    BY <1>16, <1>call, CallParts DEF MembersFail, Propose
  <2>2. PICK done \in SUBSET Node : Violate(p, {call[p].cluster} \X done)
    BY <1>16, <2>1 DEF MembersFail
  <2>3. {call[p].cluster} \X done \in SUBSET (Cluster \X Node)
    BY <2>1
  <2>4. ConnTypeOK'
    BY <2>2, <2>3, <1>types, ViolateTypes
  <2> QED
    BY <1>16, <1>types, <2>4, StatementTypes
    DEF MembersFail, tables, history, TablesTypeOK, HistoryTypeOK
<1>17. ASSUME SetStatus(p)
       PROVE  TypeOK'
  <2>1. call[p].cluster \in Cluster /\ call[p].status \in Status
    BY <1>17, <1>call, CallParts DEF SetStatus, Lifecycle
  <2>2. ConnTypeOK'
    BY <1>17, <1>idle, <1>types, CommitTypes DEF SetStatus
  <2>3. TablesTypeOK'
    BY <1>17, <2>1, <1>types DEF SetStatus, TablesTypeOK, ConnTypeOK
  <2>4. HistoryTypeOK'
    BY <1>17, <2>1, <1>types DEF SetStatus, HistoryTypeOK
  <2> QED
    BY <1>17, <1>types, <2>2, <2>3, <2>4, StatementTypes DEF SetStatus
<1>18. ASSUME Rewrite(p)
       PROVE  TypeOK'
  <2>1. call[p].cluster \in Cluster /\ call[p].status \in Status
    BY <1>18, <1>call, CallParts DEF Rewrite, Rewriting
  <2>2. ConnTypeOK'
    BY <1>18, <1>idle, <1>types, CommitTypes DEF Rewrite
  <2>3. TablesTypeOK'
    BY <1>18, <2>1, <1>types DEF Rewrite, TablesTypeOK, ConnTypeOK
  <2>4. HistoryTypeOK'
    BY <1>18, <2>1, <1>types DEF Rewrite, HistoryTypeOK
  <2> QED
    BY <1>18, <1>types, <2>2, <2>3, <2>4, StatementTypes DEF Rewrite
<1> QED
  BY <1>1, <1>2, <1>3, <1>4, <1>5, <1>6, <1>7, <1>8, <1>9, <1>10, <1>11, <1>12, <1>13, <1>14,
     <1>15, <1>16, <1>17, <1>18, ConnectionTypes DEF Continue

LEMMA TypeStep == TypeOK /\ [Next]_vars => TypeOK'
<1> SUFFICES ASSUME TypeOK, [Next]_vars PROVE TypeOK'
  OBVIOUS
<1>1. CASE UNCHANGED vars
  BY <1>1 DEF vars, tables, history, TypeOK
<1>2. ASSUME NEW s \in Server, PollerCommit(s)
      PROVE  TypeOK'
  BY <1>2, ConnectionTypes
<1> QED
  BY <1>1, <1>2, StartTypes, ContinueTypes, ConnectionTypes DEF Next

\* The tables, the connections and the calls keep their types: no patch, count
\* or payload takes a row out of its columns.
THEOREM TypeCorrect == Spec => []TypeOK
BY TypeInit, TypeStep, PTL DEF Spec

-----------------------------------------------------------------------------
(***************************************************************************)
(* What the steps leave alone.                                             *)
(***************************************************************************)
\* Steps between two writes that belong together.
Moving == {"refresh", "clearNodes", "saveNodes", "saveEdges"}

LEMMA StartChanges ==
    ASSUME TypeOK, NEW p \in Process, Start(p)
    PROVE  /\ UNCHANGED <<tables, history>>
           /\ call[p] = Idle /\ call'[p].step \notin Moving
           /\ \A q \in Process \ {p} : call'[q] = call[q]
<1>1. ASSUME NEW first, first.step \notin Moving, Begin(p, first)
      PROVE  /\ UNCHANGED <<tables, history>>
             /\ call[p] = Idle /\ call'[p].step \notin Moving
             /\ \A q \in Process \ {p} : call'[q] = call[q]
  BY <1>1 DEF Begin, TypeOK
<1> QED
  BY <1>1 DEF Start, BeginPatch, BeginDeleteNode, BeginAddEdge, BeginDeleteEdges, BeginCreate,
              BeginDeleteGraph, BeginImport, BeginPropose, BeginLifecycle, BeginRewrite, Moving

LEMMA CommitSteps ==
    ASSUME TypeOK, NEW p \in Process, NEW next, Commit(p, next)
    PROVE  /\ call'[p] = next
           /\ \A q \in Process \ {p} : /\ call'[q] = Disturbed(call[q])
                                       /\ call'[q].step = call[q].step
BY DisturbedParts DEF Commit, TypeOK

LEMMA ViolateSteps ==
    ASSUME TypeOK, NEW p \in Process, NEW rows, Violate(p, rows)
    PROVE  call'[p].step = "idle" /\ \A q \in Process \ {p} : call'[q] = call[q]
BY IdleIsACall DEF Violate, TypeOK

-----------------------------------------------------------------------------
(***************************************************************************)
(* Clusters have the status they were last given: inductive as it stands.  *)
(***************************************************************************)
LEMMA StatusInit == Init => StatusIsAsAsked
BY DEF Init, StatusIsAsAsked

LEMMA StatusStep == TypeOK /\ StatusIsAsAsked /\ [Next]_vars => StatusIsAsAsked'
<1> SUFFICES ASSUME TypeOK, StatusIsAsAsked, [Next]_vars PROVE StatusIsAsAsked'
  OBVIOUS
<1>0. ASSUME UNCHANGED <<clusters, asked, racedClusters>>
      PROVE  StatusIsAsAsked'
  BY <1>0 DEF StatusIsAsAsked
<1>1. CASE UNCHANGED vars
  BY <1>0, <1>1 DEF vars, tables, history
<1>2. ASSUME NEW p \in Process, Start(p)
      PROVE  StatusIsAsAsked'
  BY <1>0, <1>2, StartChanges DEF tables, history
<1>3. ASSUME NEW p \in Process, Stop(p) \/ Browse(p) \/ PollerCommit(p) \/ Refused(p)
      PROVE  StatusIsAsAsked'
  BY <1>0, <1>3 DEF Stop, Browse, PollerCommit, Refused, LeftUndone, tables, history
<1>4. ASSUME NEW p \in Process, SaveCluster(p)
      PROVE  StatusIsAsAsked'
  BY <1>4 DEF SaveCluster, StatusIsAsAsked, TypeOK
<1>5. ASSUME NEW p \in Process, SetStatus(p)
      PROVE  StatusIsAsAsked'
  BY <1>5 DEF SetStatus, StatusIsAsAsked, TypeOK
<1>6. ASSUME NEW p \in Process, Rewrite(p)
      PROVE  StatusIsAsAsked'
  BY <1>6 DEF Rewrite, StatusIsAsAsked, TypeOK
<1>7. ASSUME NEW p \in Process, DeleteGraph(p)
      PROVE  StatusIsAsAsked'
  BY <1>7 DEF DeleteGraph, StatusIsAsAsked
<1>8. ASSUME NEW p \in Process,
             \/ UpsertNode(p) \/ UpsertFails(p) \/ DeleteNode(p) \/ Refresh(p)
             \/ InsertEdge(p) \/ InsertEdgeFails(p) \/ DeleteEdges(p) \/ CreateMeta(p)
             \/ SaveMeta(p) \/ ClearNodes(p) \/ SaveNodes(p) \/ ParentMissing(p)
             \/ ImportFails(p) \/ SaveEdges(p)
             \/ SaveMembers(p) \/ MembersFail(p) \/ ClusterRefused(p)
      PROVE  StatusIsAsAsked'
  BY <1>0, <1>8 DEF UpsertNode, UpsertFails, DeleteNode, Refresh, InsertEdge, InsertEdgeFails,
     DeleteEdges, CreateMeta, SaveMeta, ClearNodes, SaveNodes, ParentMissing, ImportFails, SaveEdges,
     SaveMembers, MembersFail, ClusterRefused, LeftUndone, tables, history
<1> QED
  BY <1>1, <1>2, <1>3, <1>4, <1>5, <1>6, <1>7, <1>8 DEF Next, Continue

\* A cluster has the status that a call last gave it: only a reformulation
\* whose copy of the metadata was out of date takes one back.
THEOREM StatusAsAskedAlways == Spec => []StatusIsAsAsked
BY TypeInit, TypeStep, StatusInit, StatusStep, PTL DEF Spec

-----------------------------------------------------------------------------
(***************************************************************************)
(* Nodes hold what was written to them.  While an import is between the    *)
(* deletion of the nodes and their storing nothing is claimed; it ends by  *)
(* storing them, or with emptied.                                          *)
(***************************************************************************)
LEMMA KeptInit == Init => WritesAreKept
BY DEF Init, WritesAreKept

LEMMA KeptStep == TypeOK /\ WritesAreKept /\ [Next]_vars => WritesAreKept'
<1> SUFFICES ASSUME TypeOK, WritesAreKept, [Next]_vars PROVE WritesAreKept'
  OBVIOUS
\* The deletion goes on, or emptied tells of it.
<1> DEFINE StillTold == /\ emptied => emptied'
                        /\ \A q \in Process : call[q].step = "saveNodes" =>
                              emptied' \/ call'[q].step = "saveNodes"
<1>0. ASSUME UNCHANGED <<nodes, expect, raced>>, StillTold
      PROVE  WritesAreKept'
  BY <1>0 DEF WritesAreKept
<1>1. CASE UNCHANGED vars
  BY <1>0, <1>1 DEF vars, tables, history
<1>2. ASSUME NEW p \in Process, Start(p)
      PROVE  WritesAreKept'
  <2>1. StillTold
    BY <1>2, StartChanges, IdleIsACall DEF history
  <2> QED
    BY <1>0, <1>2, <2>1, StartChanges DEF tables, history
<1>3. ASSUME NEW p \in Process, Browse(p) \/ PollerCommit(p)
      PROVE  WritesAreKept'
  BY <1>0, <1>3 DEF Browse, PollerCommit, tables, history
<1>4. ASSUME NEW p \in Process,
             \/ Stop(p) \/ Refused(p) \/ ParentMissing(p)
      PROVE  WritesAreKept'
  <2>1. LeftUndone(p) /\ UNCHANGED tables /\ call' = [call EXCEPT ![p] = Idle]
    BY <1>4 DEF Stop, Refused, ParentMissing
  <2>2. StillTold
    BY <2>1 DEF LeftUndone, TypeOK
  <2> QED
    BY <1>0, <2>1, <2>2 DEF tables, LeftUndone
<1>5. ASSUME NEW p \in Process, ImportFails(p)
      PROVE  WritesAreKept'
  <2>1. StillTold
    BY <1>5, ViolateSteps DEF ImportFails, LeftUndone
  <2> QED
    BY <1>0, <1>5, <2>1 DEF ImportFails, tables, LeftUndone
<1>6. ASSUME NEW p \in Process,
             UpsertFails(p) \/ InsertEdgeFails(p) \/ MembersFail(p) \/ ClusterRefused(p)
      PROVE  WritesAreKept'
  <2>1. call[p].step # "saveNodes" /\ UNCHANGED <<tables, history>> /\ \E rows : Violate(p, rows)
    BY <1>6 DEF UpsertFails, InsertEdgeFails, MembersFail, ClusterRefused
  <2>2. StillTold
    BY <2>1, ViolateSteps DEF history
  <2> QED
    BY <1>0, <2>1, <2>2 DEF tables, history
<1>7. ASSUME NEW p \in Process,
             \/ Refresh(p) \/ InsertEdge(p) \/ DeleteEdges(p) \/ CreateMeta(p) \/ SaveMeta(p)
             \/ SaveEdges(p) \/ SaveCluster(p) \/ SaveMembers(p) \/ SetStatus(p) \/ Rewrite(p)
      PROVE  WritesAreKept'
  <2>1. /\ call[p].step # "saveNodes" /\ UNCHANGED <<nodes, expect, raced, emptied>>
        /\ \E next : Commit(p, next)
    BY <1>7 DEF Refresh, InsertEdge, DeleteEdges, CreateMeta, SaveMeta, SaveEdges, SaveCluster,
       SaveMembers, SetStatus, Rewrite, history
  <2>2. StillTold
    BY <2>1, CommitSteps
  <2> QED
    BY <1>0, <2>1, <2>2
<1>8. ASSUME NEW p \in Process, ClearNodes(p)
      PROVE  WritesAreKept'
  <2>1. call'[p] = [call[p] EXCEPT !.step = "saveNodes"]
    BY <1>8, CommitSteps DEF ClearNodes
  <2>2. call[p] \in Import
    BY <1>8, CallParts DEF ClearNodes, ImportStep, TypeOK
  <2>3. call'[p].step = "saveNodes"
    BY <2>1, <2>2 DEF Import
  <2> QED
    BY <2>3 DEF WritesAreKept
<1>9. ASSUME NEW p \in Process, SaveNodes(p)
      PROVE  WritesAreKept'
  BY <1>9 DEF SaveNodes, WritesAreKept, Stored, TypeOK
<1>10. ASSUME NEW p \in Process, DeleteGraph(p)
       PROVE  WritesAreKept'
  BY <1>10 DEF DeleteGraph, WritesAreKept
<1>11. ASSUME NEW p \in Process, UpsertNode(p)
       PROVE  WritesAreKept'
  <2>1. call[p].step # "saveNodes" /\ UNCHANGED emptied /\ \E next : Commit(p, next)
    BY <1>11 DEF UpsertNode
  <2>2. StillTold
    BY <2>1, CommitSteps
  <2>3. ASSUME NEW n \in Node, n \notin raced', n \notin raced => nodes[n] = expect[n]
        PROVE  nodes'[n] = expect'[n]
    BY <1>11, <2>3 DEF UpsertNode, TypeOK
  <2> QED
    BY <2>2, <2>3, <1>11 DEF WritesAreKept, UpsertNode
<1>12. ASSUME NEW p \in Process, DeleteNode(p)
       PROVE  WritesAreKept'
  <2>1. call[p].step # "saveNodes" /\ UNCHANGED emptied /\ \E next : Commit(p, next)
    BY <1>12 DEF DeleteNode
  <2>2. StillTold
    BY <2>1, CommitSteps
  <2>3. ASSUME NEW n \in Node, n \notin raced', n \notin raced => nodes[n] = expect[n]
        PROVE  nodes'[n] = expect'[n]
    BY <1>12, <2>3 DEF DeleteNode, TypeOK
  <2> QED
    BY <2>2, <2>3, <1>12 DEF WritesAreKept, DeleteNode
<1> QED
  BY <1>1, <1>2, <1>3, <1>4, <1>5, <1>6, <1>7, <1>8, <1>9, <1>10, <1>11, <1>12 DEF Next, Continue

\* A node holds what the calls wrote to each of its fields, in the order of
\* their upserts, however many processes there are and wherever they fail: only
\* an upsert of a row read too early, or an import that dies between its
\* deletes and its inserts, loses a write.
THEOREM WritesKeptAlways == Spec => []WritesAreKept
BY TypeInit, TypeStep, KeptInit, KeptStep, PTL DEF Spec

-----------------------------------------------------------------------------
(***************************************************************************)
(* The counts.  An import stores its counts first and rows after; that its *)
(* last step leaves them right takes two more facts: no rows without the   *)
(* graph, and, while nobody else commits, rows that are the import's own.  *)
(***************************************************************************)
RowsHangOnGraph == ~graph.there => Stored = {} /\ edges = {}

OwnRows(c) ==
    /\ graph = [there |-> TRUE, nodeCount |-> Cardinality(c.payload.nodes),
                edgeCount |-> c.payload.edges]
    /\ ~c.leftover => edges \subseteq 1 .. c.payload.edges
    /\ c.step = "saveNodes" => Stored = {}
    /\ c.step = "saveEdges" => Stored = c.payload.nodes

Alone(p) ==
    call[p].step \in {"clearNodes", "saveNodes", "saveEdges"} /\ ~call[p].overlapped =>
        OwnRows(call[p])

CountsAreRight ==
    graph.nodeCount = Cardinality(Stored) /\ graph.edgeCount = Cardinality(edges)

CountsUnlessMoving ==
    graph.there /\ ~skewed /\ (\A p \in Process : call[p].step \notin Moving) => CountsAreRight

CountsInv ==
    /\ RowsHangOnGraph
    /\ \A p \in Process : Alone(p)
    /\ CountsUnlessMoving

LEMMA CountsInit == Init => CountsInv
<1> SUFFICES ASSUME Init PROVE CountsInv
  OBVIOUS
<1>1. Stored = {} /\ edges = {}
  BY DEF Init, NoNodes, Stored
<1>2. CountsAreRight
  BY <1>1, FS_EmptySet DEF CountsAreRight, Init
<1>3. \A p \in Process : Alone(p)
  BY IdleIsACall DEF Alone, Init
<1> QED
  BY <1>1, <1>2, <1>3 DEF CountsInv, RowsHangOnGraph, CountsUnlessMoving

\* A step that is not committed changes no table that is counted.
LEMMA CountsWithoutCommit ==
    ASSUME TypeOK, CountsInv, NEW p \in Process,
           UNCHANGED <<graph, nodes, edges>>,
           call'[p].step \notin Moving,
           \A q \in Process \ {p} : call'[q] = call[q],
           skewed => skewed', call[p].step \in Moving => skewed'
    PROVE  CountsInv'
<1>1. Stored' = Stored
  BY DEF Stored
<1>2. \A q \in Process : Alone(q)'
  BY <1>1 DEF CountsInv, Alone, OwnRows, Moving
<1>3. CountsUnlessMoving'
  BY <1>1 DEF CountsInv, CountsUnlessMoving, CountsAreRight
<1> QED
  BY <1>1, <1>2, <1>3 DEF CountsInv, RowsHangOnGraph

\* A commit tells every other import that it is not alone.
LEMMA AloneAfterCommit ==
    ASSUME TypeOK, NEW p \in Process, NEW next, Commit(p, next), Alone(p)'
    PROVE  \A q \in Process : Alone(q)'
<1>1. ASSUME NEW q \in Process \ {p}
      PROVE  Alone(q)'
  <2>1. call'[q] = Disturbed(call[q]) /\ call'[q].step = call[q].step
    BY CommitSteps
  <2>2. call[q] \in Call
    BY DEF TypeOK
  <2>3. call[q].step \in ImportStep => call'[q].overlapped = TRUE
    BY <2>1, <2>2, DisturbedParts
  <2> QED
    BY <2>1, <2>3 DEF Alone, ImportStep
<1> QED
  BY <1>1

LEMMA CountsStep == TypeOK /\ CountsInv /\ [Next]_vars => CountsInv'
<1> SUFFICES ASSUME TypeOK, CountsInv, [Next]_vars PROVE CountsInv'
  OBVIOUS
<1>rows. RowsHangOnGraph /\ CountsUnlessMoving /\ \A p \in Process : Alone(p)
  BY DEF CountsInv
<1>0. ASSUME UNCHANGED <<graph, nodes, edges, skewed, call>>
      PROVE  CountsInv'
  <2>1. Stored' = Stored
    BY <1>0 DEF Stored
  <2> QED
    BY <1>0, <2>1 DEF CountsInv, RowsHangOnGraph, Alone, OwnRows, CountsUnlessMoving, CountsAreRight
<1>1. CASE UNCHANGED vars
  BY <1>0, <1>1 DEF vars, tables, history
<1>2. ASSUME NEW p \in Process, Start(p)
      PROVE  CountsInv'
  BY <1>2, StartChanges, IdleIsACall, CountsWithoutCommit DEF tables, history, Moving
<1>3. ASSUME NEW p \in Process, Browse(p) \/ PollerCommit(p)
      PROVE  CountsInv'
  BY <1>0, <1>3 DEF Browse, PollerCommit, tables, history
<1>4. ASSUME NEW p \in Process, Stop(p) \/ Refused(p) \/ ParentMissing(p)
      PROVE  CountsInv'
  <2>1. LeftUndone(p) /\ UNCHANGED tables /\ call' = [call EXCEPT ![p] = Idle]
    BY <1>4 DEF Stop, Refused, ParentMissing
  <2>2. call'[p] = Idle /\ \A q \in Process \ {p} : call'[q] = call[q]
    BY <2>1 DEF TypeOK
  <2> QED
    BY <2>1, <2>2, IdleIsACall, CountsWithoutCommit DEF tables, LeftUndone, Moving
<1>5. ASSUME NEW p \in Process,
             \/ ImportFails(p) \/ UpsertFails(p) \/ InsertEdgeFails(p) \/ MembersFail(p)
             \/ ClusterRefused(p)
      PROVE  CountsInv'
  <2>1. UNCHANGED tables /\ \E rows : Violate(p, rows)
    BY <1>5 DEF ImportFails, UpsertFails, InsertEdgeFails, MembersFail, ClusterRefused
  <2>2. call'[p].step \notin Moving /\ \A q \in Process \ {p} : call'[q] = call[q]
    BY <2>1, ViolateSteps DEF Moving
  <2>3. (skewed => skewed') /\ (call[p].step \in Moving => skewed')
    <3>1. CASE ImportFails(p)
      BY <3>1 DEF ImportFails, LeftUndone, Moving
    <3>2. CASE UpsertFails(p) \/ InsertEdgeFails(p) \/ MembersFail(p) \/ ClusterRefused(p)
      <4>1. UNCHANGED skewed
        BY <3>2 DEF UpsertFails, InsertEdgeFails, MembersFail, ClusterRefused, history
      <4>2. call[p].step \notin Moving
        BY <3>2 DEF UpsertFails, InsertEdgeFails, MembersFail, ClusterRefused, Moving
      <4> QED
        BY <4>1, <4>2
    <3> QED
      BY <1>5, <3>1, <3>2
  <2> QED
    BY <2>1, <2>2, <2>3, CountsWithoutCommit DEF tables
\* A commit after which p has its counts to refresh.
<1>6. ASSUME NEW p \in Process, Commit(p, [step |-> "refresh"]), RowsHangOnGraph'
      PROVE  CountsInv'
  <2>1. call'[p].step = "refresh"
    BY <1>6, CommitSteps
  <2>2. Alone(p)'
    BY <2>1 DEF Alone
  <2> QED
    BY <1>6, <2>1, <2>2, AloneAfterCommit DEF CountsInv, CountsUnlessMoving, Moving
<1>7. ASSUME NEW p \in Process, UpsertNode(p) \/ DeleteNode(p) \/ InsertEdge(p) \/ DeleteEdges(p)
      PROVE  CountsInv'
  <2>1. Commit(p, [step |-> "refresh"])
    BY <1>7 DEF UpsertNode, DeleteNode, InsertEdge, DeleteEdges
  <2>2. graph' = graph
    BY <1>7 DEF UpsertNode, DeleteNode, InsertEdge, DeleteEdges
  <2>3. UpsertNode(p) \/ InsertEdge(p) => RowsHangOnGraph'
    BY <2>2 DEF UpsertNode, InsertEdge, RowsHangOnGraph
  <2>4. DeleteNode(p) => RowsHangOnGraph'
    <3> HAVE DeleteNode(p)
    <3>1. nodes' = [nodes EXCEPT ![call[p].node] = Gone] /\ (edges = {} => edges' = {})
      BY DEF DeleteNode
    <3>2. Stored' \subseteq Stored
      BY <3>1 DEF Stored, TypeOK
    <3> QED
      BY <1>rows, <2>2, <3>1, <3>2 DEF RowsHangOnGraph
  <2>5. DeleteEdges(p) => RowsHangOnGraph'
    <3> HAVE DeleteEdges(p)
    <3>1. UNCHANGED nodes /\ edges' = {}
      BY DEF DeleteEdges
    <3> QED
      BY <1>rows, <2>2, <3>1 DEF RowsHangOnGraph, Stored
  <2>6. RowsHangOnGraph'
    BY <1>7, <2>3, <2>4, <2>5
  <2> QED
    BY <1>6, <2>1, <2>6
\* A commit after which p is done, and which leaves what is counted alone.
<1>8. ASSUME NEW p \in Process,
             SaveCluster(p) \/ SaveMembers(p) \/ SetStatus(p) \/ Rewrite(p)
      PROVE  CountsInv'
  <2>1. PICK next : next.step \notin Moving /\ Commit(p, next)
    <3>1. CASE SaveCluster(p)
      <4>1. call[p] \in Propose
        BY <3>1, CallParts DEF SaveCluster, TypeOK
      <4>2. [call[p] EXCEPT !.step = "saveMembers"].step = "saveMembers"
        BY <4>1 DEF Propose
      <4> QED
        BY <3>1, <4>2, IdleIsACall DEF SaveCluster, Moving
    <3> QED
      BY <1>8, <3>1, IdleIsACall DEF SaveMembers, SetStatus, Rewrite, Moving
  <2>2. UNCHANGED <<graph, nodes, edges, skewed>> /\ call[p].step \notin Moving
    BY <1>8 DEF SaveCluster, SaveMembers, SetStatus, Rewrite, history, Moving
  <2>3. call'[p] = next /\ \A q \in Process \ {p} : call'[q].step = call[q].step
    BY <2>1, CommitSteps
  <2>4. \A q \in Process : Alone(q)'
    BY <2>1, <2>3, AloneAfterCommit DEF Alone, Moving
  <2>5. Stored' = Stored
    BY <2>2 DEF Stored
  <2> QED
    BY <1>rows, <2>1, <2>2, <2>3, <2>4, <2>5
    DEF CountsInv, RowsHangOnGraph, CountsUnlessMoving, CountsAreRight
<1>import. ASSUME NEW p \in Process, call[p].step \in ImportStep
           PROVE  call[p] \in Import /\ call[p].payload \in Payload
  BY <1>import, CallParts DEF Import, TypeOK
<1>9. ASSUME NEW p \in Process, Commit(p, Idle), RowsHangOnGraph',
             graph'.there /\ ~skewed' => CountsAreRight'
      PROVE  CountsInv'
  <2>1. call'[p] = Idle
    BY <1>9, CommitSteps
  <2>2. \A q \in Process : Alone(q)'
    BY <1>9, <2>1, IdleIsACall, AloneAfterCommit DEF Alone
  <2> QED
    BY <1>9, <2>2 DEF CountsInv, CountsUnlessMoving
<1>10. ASSUME NEW p \in Process, Refresh(p)
       PROVE  CountsInv'
  <2>1. Stored' = Stored /\ edges' = edges
    BY <1>10 DEF Refresh, Stored
  <2>2. RowsHangOnGraph'
    BY <1>10, <1>rows, <2>1 DEF Refresh, RowsHangOnGraph
  <2>3. graph'.there => CountsAreRight'
    BY <1>10, <2>1 DEF Refresh, CountsAreRight
  <2> QED
    BY <1>9, <1>10, <2>2, <2>3 DEF Refresh
<1>11. ASSUME NEW p \in Process, CreateMeta(p)
       PROVE  CountsInv'
  <2>1. Stored' = Stored /\ edges' = edges
    BY <1>11 DEF CreateMeta, Stored
  <2>2. RowsHangOnGraph'
    BY <1>11 DEF CreateMeta, RowsHangOnGraph
  <2>3. ~skewed' => Stored = {} /\ edges = {}
    BY <1>11, <1>rows DEF CreateMeta, RowsHangOnGraph
  <2>4. ~skewed' => CountsAreRight'
    BY <1>11, <2>1, <2>3, FS_EmptySet DEF CreateMeta, CountsAreRight
  <2> QED
    BY <1>9, <1>11, <2>2, <2>4 DEF CreateMeta
<1>12. ASSUME NEW p \in Process, DeleteGraph(p)
       PROVE  CountsInv'
  <2>1. ~graph'.there
    BY <1>12 DEF DeleteGraph, NoGraph
  <2>2. RowsHangOnGraph'
    BY <1>12 DEF DeleteGraph, RowsHangOnGraph, Stored, NoNodes
  <2> QED
    BY <1>9, <1>12, <2>1, <2>2 DEF DeleteGraph
\* A commit after which p has a part of its import to write.
<1>13. ASSUME NEW p \in Process, NEW next, Commit(p, next),
              next.step \in {"clearNodes", "saveNodes", "saveEdges"},
              RowsHangOnGraph', ~next.overlapped => OwnRows(next)'
       PROVE  CountsInv'
  <2>1. call'[p] = next
    BY <1>13, CommitSteps
  <2>2. Alone(p)'
    BY <1>13, <2>1 DEF Alone, OwnRows
  <2> QED
    BY <1>13, <2>1, <2>2, AloneAfterCommit DEF CountsInv, CountsUnlessMoving, Moving
<1>14. ASSUME NEW p \in Process, SaveMeta(p)
       PROVE  CountsInv'
  <2>1. call[p] \in Import
    BY <1>14, <1>import DEF SaveMeta, ImportStep
  <2>2. PICK next : /\ next = [call[p] EXCEPT !.step = "clearNodes",
                                 !.leftover = ~(edges \subseteq 1 .. call[p].payload.edges)]
                    /\ Commit(p, next)
    BY <1>14 DEF SaveMeta
  <2>3. /\ next.step = "clearNodes" /\ next.payload = call[p].payload
        /\ next.leftover = ~(edges \subseteq 1 .. call[p].payload.edges)
    BY <2>1, <2>2 DEF Import
  <2>4. ~next.leftover => edges \subseteq 1 .. next.payload.edges
    BY <2>3
  <2>5. OwnRows(next)'
    BY <1>14, <2>3, <2>4 DEF SaveMeta, OwnRows
  <2>6. RowsHangOnGraph'
    BY <1>14 DEF SaveMeta, RowsHangOnGraph
  <2> QED
    BY <1>13, <2>2, <2>3, <2>5, <2>6
<1>15. ASSUME NEW p \in Process, ClearNodes(p)
       PROVE  CountsInv'
  <2>1. call[p] \in Import
    BY <1>15, <1>import DEF ClearNodes, ImportStep
  <2>2. PICK next : next = [call[p] EXCEPT !.step = "saveNodes"] /\ Commit(p, next)
    BY <1>15 DEF ClearNodes
  <2>3. /\ next.step = "saveNodes" /\ next.payload = call[p].payload
        /\ next.overlapped = call[p].overlapped /\ next.leftover = call[p].leftover
    BY <2>1, <2>2 DEF Import
  <2>4. Stored' = {} /\ UNCHANGED <<graph, edges>>
    BY <1>15 DEF ClearNodes, NoNodes, Stored
  <2>5. ~next.overlapped => OwnRows(call[p])
    BY <1>15, <1>rows, <2>3 DEF Alone, ClearNodes
  <2>6. ~next.overlapped => OwnRows(next)'
    BY <2>3, <2>4, <2>5 DEF OwnRows
  <2>7. RowsHangOnGraph'
    BY <1>rows, <2>4 DEF RowsHangOnGraph
  <2> QED
    BY <1>13, <2>2, <2>3, <2>6, <2>7
<1>16. ASSUME NEW p \in Process, SaveNodes(p)
       PROVE  CountsInv'
  <2>1. call[p] \in Import /\ call[p].payload.nodes \subseteq Node
    BY <1>16, <1>import, PayloadParts DEF SaveNodes, ImportStep
  <2>2. PICK next : next = [call[p] EXCEPT !.step = "saveEdges"] /\ Commit(p, next)
    BY <1>16 DEF SaveNodes
  <2>3. /\ next.step = "saveEdges" /\ next.payload = call[p].payload
        /\ next.overlapped = call[p].overlapped /\ next.leftover = call[p].leftover
    BY <2>1, <2>2 DEF Import
  <2>4. Blank # Gone
    BY DEF Blank, Field
  <2>5. Stored' = Stored \union call[p].payload.nodes /\ UNCHANGED <<graph, edges>>
    BY <1>16, <2>1, <2>4 DEF SaveNodes, Stored
  <2>6. ~next.overlapped => OwnRows(call[p]) /\ Stored = {}
    BY <1>16, <1>rows, <2>3 DEF Alone, SaveNodes, OwnRows
  <2>7. ~next.overlapped => OwnRows(next)'
    BY <2>3, <2>5, <2>6 DEF OwnRows
  <2>8. RowsHangOnGraph'
    BY <1>16, <1>rows, <2>5 DEF SaveNodes, RowsHangOnGraph
  <2> QED
    BY <1>13, <2>2, <2>3, <2>7, <2>8
<1>17. ASSUME NEW p \in Process, SaveEdges(p)
       PROVE  CountsInv'
  <2> DEFINE k == call[p].payload.edges
  <2>1. k \in Nat
    <3>1. call[p].payload \in Payload
      BY <1>17, <1>import DEF SaveEdges, ImportStep
    <3> QED
      BY <3>1, PayloadParts
  <2>2. edges' = edges \union (1 .. k) /\ Stored' = Stored /\ UNCHANGED graph
    BY <1>17 DEF SaveEdges, Stored
  <2>3. Cardinality(1 .. k) = k
    BY <2>1, FS_Interval
  <2>4. ~skewed' => OwnRows(call[p]) /\ ~call[p].leftover
    BY <1>17, <1>rows DEF SaveEdges, Alone
  <2>5. ~skewed' => CountsAreRight'
    <3> SUFFICES ASSUME ~skewed' PROVE CountsAreRight'
      OBVIOUS
    <3>1. /\ graph.nodeCount = Cardinality(call[p].payload.nodes) /\ graph.edgeCount = k
          /\ edges \subseteq 1 .. k /\ Stored = call[p].payload.nodes
      BY <1>17, <2>4 DEF OwnRows, SaveEdges
    <3>2. edges' = 1 .. k
      BY <2>2, <3>1
    <3> QED
      BY <2>2, <2>3, <3>1, <3>2 DEF CountsAreRight
  <2>6. RowsHangOnGraph'
    BY <1>17, <1>rows, <2>2 DEF SaveEdges, RowsHangOnGraph
  <2> QED
    BY <1>9, <1>17, <2>5, <2>6 DEF SaveEdges
<1> QED
  BY <1>1, <1>2, <1>3, <1>4, <1>5, <1>7, <1>8, <1>10, <1>11, <1>12, <1>14, <1>15, <1>16, <1>17
  DEF Next, Continue

\* The counts in the graphs table are those of the tables whenever no call is
\* under way, but for the causes that skewed names: a refresh that never came,
\* an import that overlapped other calls or left old edges, and a creation of a
\* graph that was there.  Concurrent upserts, deletes and refreshes in any
\* order are no cause (_refresh_graph_counts, save_graph).
THEOREM CountsFollowAlways == Spec => []CountsFollow
<1>1. CountsInv => CountsFollow
  BY IdleIsACall DEF CountsInv, CountsUnlessMoving, CountsAreRight, CountsFollow, Quiet, Moving
<1> QED
  BY <1>1, TypeInit, TypeStep, CountsInit, CountsStep, PTL DEF Spec

-----------------------------------------------------------------------------
(***************************************************************************)
(* The write lock.                                                         *)
(***************************************************************************)
\* One connection at most holds the lock, and only one that does has rows that
\* are not committed: what a commit takes along is the process's own.
LooseRowsAreHeld ==
    /\ \A p, q \in Process : conn[p] = "holding" /\ conn[q] = "holding" => p = q
    /\ loose # {} => \E p \in Process : conn[p] = "holding"

LEMMA LockInit == Init => LooseRowsAreHeld
BY DEF Init, LooseRowsAreHeld

LEMMA LockStep == TypeOK /\ LooseRowsAreHeld /\ [Next]_vars => LooseRowsAreHeld'
<1> SUFFICES ASSUME TypeOK, LooseRowsAreHeld, [Next]_vars PROVE LooseRowsAreHeld'
  OBVIOUS
<1>1. CASE UNCHANGED vars
  BY <1>1 DEF vars, LooseRowsAreHeld
<1>2. ASSUME NEW p \in Process, Start(p)
      PROVE  LooseRowsAreHeld'
  <2>1. \E first : Begin(p, first)
    BY <1>2 DEF Start, BeginPatch, BeginDeleteNode, BeginAddEdge, BeginDeleteEdges, BeginCreate,
       BeginDeleteGraph, BeginImport, BeginPropose, BeginLifecycle, BeginRewrite
  <2> QED
    BY <2>1 DEF Begin, LooseRowsAreHeld, TypeOK
<1>3. ASSUME NEW p \in Process, Stop(p) \/ Refused(p) \/ Browse(p) \/ PollerCommit(p)
      PROVE  LooseRowsAreHeld'
  <2>1. CASE Stop(p)
    BY <2>1 DEF Stop, LooseRowsAreHeld, TypeOK
  <2>2. CASE Refused(p)
    BY <2>2 DEF Refused, LooseRowsAreHeld, TypeOK
  <2>3. CASE Browse(p)
    BY <2>3 DEF Browse, LooseRowsAreHeld, TypeOK
  <2>4. CASE PollerCommit(p)
    BY <2>4 DEF PollerCommit, LooseRowsAreHeld, TypeOK
  <2> QED
    BY <1>3, <2>1, <2>2, <2>3, <2>4
<1>4. ASSUME NEW p \in Process, NEW next, Commit(p, next)
      PROVE  LooseRowsAreHeld'
  BY <1>4 DEF Commit, CanWrite, LooseRowsAreHeld, TypeOK
<1>5. ASSUME NEW p \in Process, NEW rows, Violate(p, rows)
      PROVE  LooseRowsAreHeld'
  BY <1>5 DEF Violate, CanWrite, LooseRowsAreHeld, TypeOK
<1>6. ASSUME NEW p \in Process, ParentMissing(p)
      PROVE  LooseRowsAreHeld'
  BY <1>6 DEF ParentMissing, LooseRowsAreHeld
<1>7. ASSUME NEW p \in Process, Continue(p)
      PROVE  LooseRowsAreHeld'
  <2>1. \/ Refused(p) \/ ParentMissing(p)
        \/ \E next : Commit(p, next)
        \/ \E rows : Violate(p, rows)
    BY <1>7 DEF Continue, UpsertNode, UpsertFails, DeleteNode, Refresh, InsertEdge, InsertEdgeFails,
       DeleteEdges, CreateMeta, DeleteGraph, SaveMeta, ClearNodes, SaveNodes, ImportFails, SaveEdges,
       SaveCluster, SaveMembers, MembersFail, ClusterRefused, SetStatus, Rewrite
  <2> QED
    BY <2>1, <1>3, <1>4, <1>5, <1>6
<1> QED
  BY <1>1, <1>2, <1>3, <1>7 DEF Next

\* The lock excludes: no two connections hold it, whatever calls fail while
\* they do, and rows without a commit are always those of its holder (the
\* repositories never roll back).
THEOREM LockExcludes == Spec => []LooseRowsAreHeld
BY TypeInit, TypeStep, LockInit, LockStep, PTL DEF Spec
=============================================================================
