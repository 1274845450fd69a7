------------------------------ MODULE Ordering ------------------------------
(***************************************************************************)
(* What sorting by a key that tells all elements apart gives: the elements *)
(* of a finite set, each at the place that follows from how many come      *)
(* before it (Python's sorted, SQLite's ORDER BY).                         *)
(***************************************************************************)
EXTENDS Naturals, FiniteSets

\* `before` is a strict total order on S, as a set of pairs.
InOrder(S, before) ==
    [i \in 1 .. Cardinality(S) |->
        CHOOSE e \in S : Cardinality({d \in S : <<d, e>> \in before}) = i - 1]

Sorted(S, Before(_, _)) == InOrder(S, {p \in S \X S : Before(p[1], p[2])})
=============================================================================
