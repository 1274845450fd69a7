--------------------------- MODULE MC_EditSession ---------------------------
(***************************************************************************)
(* A small instance of EditSession on its own.                             *)
(***************************************************************************)
EXTENDS EditSession, TLC

CONSTANTS n1, n2

MC_Node == {n1, n2}
MC_Symmetry == Permutations(MC_Node)
=============================================================================
