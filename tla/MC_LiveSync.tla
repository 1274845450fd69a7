---------------------------- MODULE MC_LiveSync ----------------------------
(***************************************************************************)
(* Small instances of LiveSync.                                            *)
(***************************************************************************)
EXTENDS LiveSync, TLC

CONSTANTS n1, w1, w2, v1, server

MC_Node == {n1}
OneWriter == {w1}
TwoWriters == {w1, w2}
MC_Viewer == {v1}
WriterSymmetry == Permutations(TwoWriters)
=============================================================================
