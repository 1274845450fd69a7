----------------------------- MODULE MC_Ledger -----------------------------
(***************************************************************************)
(* Small instances of Ledger: one sensitive label, one that is not.        *)
(***************************************************************************)
EXTENDS Ledger, TLC

CONSTANTS owns, feeds, p1, p2, ui

MC_Label == {owns, feeds}
MC_Sensitive == {owns}
OneProcess == {p1}
TwoProcesses == {p1, p2}
WithServer == {p1, p2, ui}
MC_Server == {ui}
NoServer == {}
MC_Outcome == {"confirmed"}
\* Search only behaviours in which edges are added, none is deleted and nothing fails.
OnlyAdds == ~unledgered /\ Cardinality(Used) = adds /\ Len(ledger) <= adds
ProcessSymmetry == Permutations(TwoProcesses)
=============================================================================
