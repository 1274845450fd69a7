--------------------------- MODULE OrderedDelivery ---------------------------
(***************************************************************************)
(* What the event outbox promises to the live viewers, without saying how: *)
(* a log of messages each of which is first handed over in log order, with *)
(* no gap, and is held for another hand-over until it has been handed over *)
(* at least once.  A repeated hand-over changes nothing here, so the       *)
(* promise is at-least-once delivery with first deliveries in order.       *)
(***************************************************************************)
EXTENDS Naturals, Sequences

CONSTANT Event

VARIABLES
    log,    \* every message ever committed, in commit order
    seen,   \* positions handed over at least once
    held    \* positions that may still be handed over (again)

abstractVars == <<log, seen, held>>

Init ==
    /\ log = <<>>
    /\ seen = {}
    /\ held = {}

\* A writer commits one more message.
Commit(e) ==
    /\ log' = Append(log, e)
    /\ held' = held \union {Len(log) + 1}
    /\ UNCHANGED seen

\* The first hand-over of position i: everything before it was handed over.
HandOver(i) ==
    /\ i \in held
    /\ 1 .. (i - 1) \subseteq seen
    /\ seen' = seen \union {i}
    /\ UNCHANGED <<log, held>>

\* Positions already handed over may be forgotten, and only those.
Forget(S) ==
    /\ S \subseteq seen
    /\ held' = held \ S
    /\ UNCHANGED <<log, seen>>

Next ==
    \/ \E e \in Event : Commit(e)
    \/ \E i \in held : HandOver(i)
    \/ \E S \in SUBSET seen : Forget(S)

Spec == Init /\ [][Next]_abstractVars
=============================================================================
