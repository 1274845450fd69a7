--------------------------- MODULE MC_GraphStore ---------------------------
(***************************************************************************)
(* A small instance of GraphStore.                                         *)
(***************************************************************************)
EXTENDS GraphStore

CONSTANTS mcp, ui, n1, n2, c1, c2

MC_Process == {mcp, ui}
MC_Server == {ui}
MC_Node == {n1, n2}
MC_Cluster == {c1, c2}
\* One node and one edge; two nodes, a child of the other; an orphan.
MC_Payload == {[nodes |-> {n1}, edges |-> 1, parent |-> NoNode],
               [nodes |-> {n1, n2}, edges |-> 0, parent |-> n1],
               [nodes |-> {n1}, edges |-> 0, parent |-> n2]}
=============================================================================
