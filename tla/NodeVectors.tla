---------------------------- MODULE NodeVectors -----------------------------
(***************************************************************************)
(* The embeddings beside the nodes: which text of a node its vector is of. *)
(*                                                                         *)
(* update_node (mcp/tools.py) commits the node, reads it again, embeds it  *)
(* and commits the vector, each on its own; what fails after the first is  *)
(* swallowed.  The HTTP routes and the bindings of sources write nodes and *)
(* embed nothing, as does a server without the model; delete_node leaves   *)
(* the vector.  `embed-backfill` (scoring/embedder.py) reads all nodes and *)
(* embeds those that have no vector.  A text stands for all that node_text *)
(* puts together.                                                          *)
(***************************************************************************)
EXTENDS Naturals, FiniteSets

CONSTANTS
    Card,         \* ids of nodes
    Wording,      \* texts a node may have
    Embedder,     \* MCP servers that have the model
    Filler,       \* runs of embed-backfill
    NoCard,       \* text of a node that is not there
    NoVector,
    MaxWordings,  \* bound: writes of nodes
    MaxSlips      \* bound: embeddings that fail, processes that end

ASSUME VectorsAssumption ==
    /\ NoCard \notin Wording /\ NoVector \notin Wording
    /\ Embedder \intersect Filler = {}
    /\ MaxWordings \in Nat /\ MaxSlips \in Nat

VARIABLES
    wording,      \* the text of each node
    vectorOf,     \* the text its vector was made of
    work,         \* what each embedder and filler is at
    bare,         \* history: nodes whose last writer made no vector
    late,         \* history: nodes whose vector came after a write it missed
    wordings,     \* bounded counters
    slips

vectorsVars == <<wording, vectorOf, work, bare, late, wordings, slips>>

AtRest == [step |-> "none"]

VectorsInit ==
    /\ wording = [n \in Card |-> NoCard]
    /\ vectorOf = [n \in Card |-> NoVector]
    /\ work = [p \in Embedder \union Filler |-> AtRest]
    /\ bare = {} /\ late = {}
    /\ wordings = 0 /\ slips = 0

-----------------------------------------------------------------------------
\* What node_text makes of the row there is.
TextOf(n) == wording[n]

HasVector(n) == vectorOf[n] # NoVector

\* Every write is missed by those that hold a text of the node.
Missing(n) ==
    [p \in Embedder \union Filler |->
        IF work[p].step \in {"store", "pass", "fill"}
        THEN [work[p] EXCEPT !.missed = @ \union {n}] ELSE work[p]]

Writes(n, t) ==
    /\ wordings < MaxWordings /\ wordings' = wordings + 1
    /\ wording' = [wording EXCEPT ![n] = t]
    /\ UNCHANGED <<vectorOf, late, slips>>

\* Mutant of UpdateCard: only a node that is new is embedded.
UpdateEmbedsNew(p, n, t) ==
    /\ work[p] = AtRest
    /\ Writes(n, t)
    /\ work' = [Missing(n) EXCEPT ![p] =
            IF wording[n] = NoCard THEN [step |-> "reread", card |-> n] ELSE AtRest]
    /\ bare' = bare \ {n}

\* update_node, with the model: the node.
UpdateCard(p, n, t) ==
    /\ work[p] = AtRest
    /\ Writes(n, t)
    /\ work' = [Missing(n) EXCEPT ![p] = [step |-> "reread", card |-> n]]
    /\ bare' = bare \ {n}

\* Nodes written over HTTP, by a binding, or without the model.
WritePlainly(n, t) ==
    /\ Writes(n, t)
    /\ work' = Missing(n)
    /\ bare' = bare \union {n}

RemoveCard(n) ==
    /\ wording[n] # NoCard
    /\ Writes(n, NoCard)
    /\ work' = Missing(n)
    /\ bare' = bare \ {n}

\* The node is read again and embedded; one that is gone is not.
RereadCard(p) ==
    /\ work[p].step = "reread"
    /\ LET n == work[p].card
       IN  work' = [work EXCEPT ![p] =
                IF TextOf(n) = NoCard THEN AtRest
                ELSE [step |-> "store", card |-> n, text |-> TextOf(n), missed |-> {}]]
    /\ UNCHANGED <<wording, vectorOf, bare, late, wordings, slips>>

\* upsert_embedding replaces the vector there is.
Stores(n, t, missed) ==
    /\ vectorOf' = [vectorOf EXCEPT ![n] = t]
    /\ late' = IF n \in missed THEN late \union {n} ELSE late \ {n}
    /\ bare' = IF n \in missed THEN bare ELSE bare \ {n}
    /\ UNCHANGED <<wording, wordings, slips>>

StoreVector(p) ==
    /\ work[p].step = "store"
    /\ Stores(work[p].card, work[p].text, work[p].missed)
    /\ work' = [work EXCEPT ![p] = AtRest]

\* Embedding fails, or the process ends: the node stays as written.
Slip(p) ==
    /\ work[p] # AtRest
    /\ slips < MaxSlips /\ slips' = slips + 1
    /\ bare' = IF work[p].step \in {"reread", "store"} THEN bare \union {work[p].card} ELSE bare
    /\ work' = [work EXCEPT ![p] = AtRest]
    /\ UNCHANGED <<wording, vectorOf, late, wordings>>

-----------------------------------------------------------------------------
\* embed_graph_nodes: all nodes are read at once, then taken one by one.
BeginBackfill(p) ==
    /\ work[p] = AtRest
    /\ work' = [work EXCEPT ![p] =
            [step |-> "pass", left |-> {n \in Card : wording[n] # NoCard},
             copy |-> wording, missed |-> {}]]
    /\ UNCHANGED <<wording, vectorOf, bare, late, wordings, slips>>

\* A node that has a vector is passed over, whatever the vector is of.
PassOver(p, n) ==
    /\ work[p].step = "pass" /\ n \in work[p].left
    /\ HasVector(n)
    /\ work' = [work EXCEPT ![p].left = @ \ {n}]
    /\ UNCHANGED <<wording, vectorOf, bare, late, wordings, slips>>

\* has_embedding, then the text of the copy, then upsert_embedding.
EmbedCopy(p, n) ==
    /\ work[p].step = "pass" /\ n \in work[p].left
    /\ ~HasVector(n)
    /\ work' = [work EXCEPT ![p] =
            [step |-> "fill", left |-> @.left \ {n}, copy |-> @.copy, missed |-> @.missed,
             card |-> n]]
    /\ UNCHANGED <<wording, vectorOf, bare, late, wordings, slips>>

FillVector(p) ==
    /\ work[p].step = "fill"
    /\ LET n == work[p].card IN Stores(n, work[p].copy[n], work[p].missed)
    /\ work' = [work EXCEPT ![p] =
            [step |-> "pass", left |-> @.left, copy |-> @.copy, missed |-> @.missed]]

EndBackfill(p) ==
    /\ work[p].step = "pass" /\ work[p].left = {}
    /\ work' = [work EXCEPT ![p] = AtRest]
    /\ UNCHANGED <<wording, vectorOf, bare, late, wordings, slips>>

-----------------------------------------------------------------------------
VectorsNext ==
    \/ \E n \in Card, t \in Wording : WritePlainly(n, t)
    \/ \E n \in Card : RemoveCard(n)
    \/ \E p \in Embedder :
        \/ \E n \in Card, t \in Wording : UpdateCard(p, n, t)
        \/ RereadCard(p)
        \/ StoreVector(p)
    \/ \E p \in Filler :
        \/ BeginBackfill(p)
        \/ \E n \in Card : PassOver(p, n) \/ EmbedCopy(p, n)
        \/ FillVector(p)
        \/ EndBackfill(p)
    \/ \E p \in Embedder \union Filler : Slip(p)

VectorsSpec == VectorsInit /\ [][VectorsNext]_vectorsVars

-----------------------------------------------------------------------------
VectorsTypeOK ==
    /\ wording \in [Card -> Wording \union {NoCard}]
    /\ vectorOf \in [Card -> Wording \union {NoVector}]
    /\ bare \subseteq Card /\ late \subseteq Card
    /\ \A p \in Embedder : work[p].step \in {"none", "reread", "store"}
    /\ \A p \in Filler : work[p].step \in {"none", "pass", "fill"}

\* A node is found by meaning under the text it has, with three excuses: an
\* embedder that wrote it is still at work, its last writer made no vector, or
\* its vector was stored by a process that had read the node before a later
\* write.  Every other interleaving of updates, deletions, re-creations and
\* backfills ends with the vector of the text.
VectorsAreExplained ==
    /\ VectorsTypeOK
    /\ \A n \in Card : wording[n] # NoCard /\ vectorOf[n] # wording[n] =>
        \/ n \in bare \union late
        \/ \E p \in Embedder : work[p] # AtRest /\ work[p].card = n
=============================================================================
