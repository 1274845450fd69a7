------------------------- MODULE EventOutbox_proofs -------------------------
(***************************************************************************)
(* Proofs about EventOutbox: its type invariant, the three safety          *)
(* properties the runs check, and that it implements OrderedDelivery, for  *)
(* every set of events and servers, every batch limit and every bound.     *)
(***************************************************************************)
EXTENDS EventOutbox, FiniteSetTheorems, TLAPS

-----------------------------------------------------------------------------
(***************************************************************************)
(* Lemmas about the operators.                                             *)
(***************************************************************************)

\* A sequence over a set is one over any larger set.
LEMMA SeqGrows ==
    ASSUME NEW S, NEW T, S \subseteq T, NEW q \in Seq(S)
    PROVE  q \in Seq(T)
  OBVIOUS

\* The receipt store keeps its type and its capacity.
LEMMA PushKeepsType ==
    ASSUME NEW S, NEW q \in Seq(S), NEW i \in S, Len(q) <= ReceiptCap
    PROVE  Push(q, i) \in Seq(S) /\ Len(Push(q, i)) <= ReceiptCap
  BY OutboxAssumption DEF Push

\* A batch holds only ids of the set it is taken from, and with an id every
\* smaller one of that set: ORDER BY id LIMIT n skips nothing.
LEMMA FirstOfIsPrefix ==
    ASSUME NEW n \in Nat, NEW U \in SUBSET (1 .. n)
    PROVE  /\ FirstOf(U) \subseteq U
           /\ \A i \in FirstOf(U) : \A j \in U : j < i => j \in FirstOf(U)
  <1>1. FirstOf(U) \subseteq U
    BY DEF FirstOf
  <1>2. ASSUME NEW i \in FirstOf(U), NEW j \in U, j < i
        PROVE  j \in FirstOf(U)
    <2> DEFINE Below(k) == {m \in U : m < k}
    <2>1. i \in U /\ Cardinality(Below(i)) < BatchLimit
      BY DEF FirstOf
    <2>2. IsFiniteSet(1 .. n)
      BY FS_Interval
    <2>3. IsFiniteSet(U)
      BY <2>2, FS_Subset
    <2>4. IsFiniteSet(Below(i))
      BY <2>3, FS_Subset
    <2>5. Below(j) \subseteq Below(i)
      <3>1. ASSUME NEW m \in U, m < j
            PROVE  m < i
        <4>1. m \in Int /\ i \in Int /\ j \in Int
          BY <2>1
        <4> QED
          BY <1>2, <3>1, <4>1
      <3> QED
        BY <3>1
    <2>6. /\ Cardinality(Below(j)) <= Cardinality(Below(i))
          /\ IsFiniteSet(Below(j))
      BY <2>4, <2>5, FS_Subset
    <2>7. Cardinality(Below(j)) \in Nat /\ Cardinality(Below(i)) \in Nat
      BY <2>4, <2>6, FS_CardinalityType
    <2>8. Cardinality(Below(j)) < BatchLimit
      BY <2>1, <2>6, <2>7, OutboxAssumption
    <2> QED
      BY <2>8 DEF FirstOf
  <1> QED
    BY <1>1, <1>2

-----------------------------------------------------------------------------
(***************************************************************************)
(* Type correctness.                                                       *)
(***************************************************************************)

\* Every step of a writer or of a server keeps the types.
LEMMA TypeOKStep == TypeOK /\ [Next]_outboxVars => TypeOK'
  <1> SUFFICES ASSUME TypeOK, [Next]_outboxVars
               PROVE  TypeOK'
    OBVIOUS
  <1> USE OutboxAssumption
  <1>1. ASSUME NEW e \in Event, Enqueue(e)
        PROVE  TypeOK'
    <2>1. Len(log') = Len(log) + 1 /\ log' \in Seq(Event) /\ Len(log) \in Nat
      BY <1>1 DEF Enqueue, TypeOK
    <2>2. Id \subseteq Id' /\ Len(log) + 1 \in Id'
      BY <2>1 DEF Id
    <2>3. receipts' \in [Server -> Seq(Id')]
      <3>1. ASSUME NEW s \in Server
            PROVE  receipts[s] \in Seq(Id')
        <4>1. receipts[s] \in Seq(Id)
          BY DEF TypeOK
        <4> QED
          BY <4>1, <2>2, SeqGrows
      <3> QED
        BY <3>1, <1>1 DEF Enqueue, serverVars, TypeOK
    <2> QED
      BY <1>1, <2>1, <2>2, <2>3 DEF TypeOK, Enqueue, serverVars
  <1>2. ASSUME NEW s \in Server, Start(s)
        PROVE  TypeOK'
    BY <1>2 DEF TypeOK, Start, Unpublished, Id
  <1>3. ASSUME NEW s \in Server, Fetch(s)
        PROVE  TypeOK'
    <2>1. FirstOf(Unpublished) \subseteq Id
      BY DEF TypeOK, Unpublished, FirstOf
    <2> QED
      BY <1>3, <2>1 DEF TypeOK, Fetch, tableVars, Id
  <1>4. ASSUME NEW s \in Server, Publish(s)
        PROVE  TypeOK'
    <2>1. PICK i \in batch[s] :
            /\ batch' = [batch EXCEPT ![s] = @ \ {i}]
            /\ sent' = [sent EXCEPT ![s] = @ \union {i}]
            /\ bus' = [bus EXCEPT ![s] = @ \union {i}]
            /\ receipts' = [receipts EXCEPT
                   ![s] = IF log[i] \in Receipt THEN Push(@, i) ELSE @]
            /\ emitted' = emitted \union {i}
      BY <1>4 DEF Publish
    <2>2. i \in Id /\ Id' = Id
      BY <1>4 DEF TypeOK, Publish, tableVars, Id
    <2>3. Push(receipts[s], i) \in Seq(Id) /\ Len(Push(receipts[s], i)) <= ReceiptCap
      <3>1. receipts[s] \in Seq(Id) /\ Len(receipts[s]) <= ReceiptCap
        BY DEF TypeOK
      <3> QED
        BY <2>2, <3>1, PushKeepsType
    <2>4. /\ receipts' \in [Server -> Seq(Id)]
          /\ \A t \in Server : Len(receipts'[t]) <= ReceiptCap
      BY <2>1, <2>3 DEF TypeOK
    <2>5. batch' \in [Server -> SUBSET Id]
      BY <2>1 DEF TypeOK
    <2>6. sent' \in [Server -> SUBSET Id]
      BY <2>1, <2>2 DEF TypeOK
    <2>7. bus' \in [Server -> SUBSET Id]
      BY <2>1, <2>2 DEF TypeOK
    <2>8. emitted' \in SUBSET Id
      BY <2>1, <2>2 DEF TypeOK
    <2>9. UNCHANGED <<log, rows, flagged, up, slipped, faults>>
      BY <1>4 DEF Publish, tableVars
    <2> QED
      BY <2>2, <2>4, <2>5, <2>6, <2>7, <2>8, <2>9 DEF TypeOK
  <1>5. ASSUME NEW s \in Server, Mark(s)
        PROVE  TypeOK'
    BY <1>5 DEF TypeOK, Mark, Id
  <1>6. ASSUME NEW s \in Server, MarkFails(s)
        PROVE  TypeOK'
    BY <1>6 DEF TypeOK, MarkFails, tableVars, Id
  <1>7. ASSUME NEW s \in Server, Stop(s)
        PROVE  TypeOK'
    BY <1>7 DEF TypeOK, Stop, tableVars, Id
  <1>8. CASE UNCHANGED outboxVars
    BY <1>8 DEF outboxVars, tableVars, serverVars, TypeOK, Id
  <1> QED
    BY <1>1, <1>2, <1>3, <1>4, <1>5, <1>6, <1>7, <1>8 DEF Next, ServerStep

\* In every reachable state the table, the servers' memories and the receipt
\* store have their types, and no receipt store exceeds its capacity.
THEOREM TypeCorrect == Spec => []TypeOK
  <1>1. Init => TypeOK
    BY OutboxAssumption DEF Init, TypeOK, Id
  <1> QED
    BY <1>1, TypeOKStep, PTL DEF Spec

-----------------------------------------------------------------------------
(***************************************************************************)
(* The inductive invariant.  What is on the bus of a server that has not   *)
(* slipped is either already flagged or purged, or waits in sent for the   *)
(* mark of the batch: that is why no fetch can read it again.  And below   *)
(* every id of a batch only ids of that batch were never published.        *)
(***************************************************************************)
SentWasEmitted ==
    \A s \in Server : sent[s] \subseteq emitted

BatchHasNoGap ==
    \A s \in Server : \A i \in batch[s] : \A j \in 1 .. i :
        j \in batch[s] \/ j \in emitted

BusIsSettled ==
    \A s \in Server : ~slipped[s] =>
        /\ batch[s] \intersect bus[s] = {}
        /\ (bus[s] \ sent[s]) \intersect Unpublished = {}

OutboxInv ==
    /\ TypeOK
    /\ NothingDroppedUnpublished
    /\ FirstPublishInOrder
    /\ SentWasEmitted
    /\ BatchHasNoGap
    /\ BusIsSettled

LEMMA OutboxInvInit == Init => OutboxInv
  BY OutboxAssumption
  DEF Init, OutboxInv, TypeOK, Id, NothingDroppedUnpublished,
      FirstPublishInOrder, SentWasEmitted, BatchHasNoGap, BusIsSettled,
      Unpublished

\* Every step of a writer or of a server keeps the inductive invariant.
LEMMA OutboxInvStep == OutboxInv /\ [Next]_outboxVars => OutboxInv'
  <1> SUFFICES ASSUME OutboxInv, [Next]_outboxVars
               PROVE  OutboxInv'
    OBVIOUS
  <1> USE OutboxAssumption
  <1>0. TypeOK /\ TypeOK'
    BY TypeOKStep DEF OutboxInv
  <1>1. ASSUME NEW e \in Event, Enqueue(e)
        PROVE  OutboxInv'
    <2>1. /\ Len(log) \in Nat /\ Len(log)' = Len(log) + 1
          /\ Id' = Id \union {Len(log) + 1}
      BY <1>0, <1>1 DEF TypeOK, Enqueue, Id
    <2>2. Unpublished' = Unpublished \union {Len(log) + 1}
      <3>1. Len(log) + 1 \notin flagged
        BY <1>0, <2>1 DEF TypeOK, Id
      <3> QED
        BY <1>1, <3>1 DEF Enqueue, Unpublished
    <2>3. UNCHANGED <<batch, sent, bus, slipped, emitted>>
      BY <1>1 DEF Enqueue, serverVars
    <2>4. NothingDroppedUnpublished'
      BY <2>1, <2>2, <2>3 DEF OutboxInv, NothingDroppedUnpublished
    <2>5. BusIsSettled'
      <3>1. ASSUME NEW s \in Server
            PROVE  Len(log) + 1 \notin bus[s]
        BY <1>0, <2>1 DEF TypeOK, Id
      <3> QED
        BY <2>2, <2>3, <3>1 DEF OutboxInv, BusIsSettled
    <2> QED
      BY <1>0, <2>3, <2>4, <2>5
      DEF OutboxInv, FirstPublishInOrder, SentWasEmitted, BatchHasNoGap
  <1>2. ASSUME NEW s \in Server, Start(s)
        PROVE  OutboxInv'
    <2>1. /\ Unpublished' = Unpublished /\ Id' = Id
          /\ UNCHANGED <<batch, sent, bus, slipped, emitted>>
      BY <1>2 DEF Start, Unpublished, Id
    <2> QED
      BY <1>0, <2>1
      DEF OutboxInv, NothingDroppedUnpublished, FirstPublishInOrder,
          SentWasEmitted, BatchHasNoGap, BusIsSettled
  <1>3. ASSUME NEW s \in Server, Fetch(s)
        PROVE  OutboxInv'
    <2>1. /\ Unpublished' = Unpublished /\ Id' = Id
          /\ UNCHANGED <<sent, bus, slipped, emitted>>
          /\ sent[s] = {}
      BY <1>3 DEF Fetch, tableVars, Unpublished, Id
    <2>2. /\ batch'[s] = FirstOf(Unpublished)
          /\ \A t \in Server \ {s} : batch'[t] = batch[t]
      BY <1>0, <1>3 DEF Fetch, TypeOK
    <2>3. /\ FirstOf(Unpublished) \subseteq Unpublished
          /\ \A i \in FirstOf(Unpublished) : \A j \in Unpublished :
                j < i => j \in FirstOf(Unpublished)
      <3>1. Len(log) \in Nat /\ Unpublished \in SUBSET (1 .. Len(log))
        BY <1>0 DEF TypeOK, Unpublished, Id
      <3> QED
        BY <3>1, FirstOfIsPrefix
    <2>4. BatchHasNoGap'
      <3>1. ASSUME NEW i \in FirstOf(Unpublished), NEW j \in 1 .. i
            PROVE  j \in FirstOf(Unpublished) \/ j \in emitted
        <4>1. i \in 1 .. Len(log) /\ Len(log) \in Nat
          <5>1. i \in Unpublished
            BY <2>3, <3>1
          <5>2. Unpublished \subseteq 1 .. Len(log) /\ log \in Seq(Event)
            BY <1>0 DEF TypeOK, Unpublished, Id
          <5> QED
            BY <5>1, <5>2
        <4>2. j \in Id
          BY <3>1, <4>1 DEF Id
        <4>3. CASE j \notin Unpublished
          BY <4>2, <4>3 DEF OutboxInv, NothingDroppedUnpublished
        <4>4. CASE j \in Unpublished
          <5>1. j < i \/ j = i
            BY <3>1, <4>1
          <5> QED
            BY <2>3, <3>1, <4>4, <5>1
        <4> QED
          BY <4>3, <4>4
      <3> QED
        BY <2>1, <2>2, <3>1 DEF OutboxInv, BatchHasNoGap
    <2>5. BusIsSettled'
      BY <2>1, <2>2, <2>3 DEF OutboxInv, BusIsSettled
    <2> QED
      BY <1>0, <2>1, <2>4, <2>5
      DEF OutboxInv, NothingDroppedUnpublished, FirstPublishInOrder,
          SentWasEmitted
  <1>4. ASSUME NEW s \in Server, Publish(s)
        PROVE  OutboxInv'
    <2>1. PICK i \in batch[s] :
            /\ \A j \in batch[s] : i <= j
            /\ batch' = [batch EXCEPT ![s] = @ \ {i}]
            /\ sent' = [sent EXCEPT ![s] = @ \union {i}]
            /\ bus' = [bus EXCEPT ![s] = @ \union {i}]
            /\ emitted' = emitted \union {i}
      BY <1>4 DEF Publish
    <2>2. /\ Unpublished' = Unpublished /\ Id' = Id
          /\ slipped' = slipped
          /\ i \in Nat
      BY <1>0, <1>4 DEF Publish, tableVars, Unpublished, Id, TypeOK
    <2>3. /\ batch'[s] = batch[s] \ {i}
          /\ sent'[s] = sent[s] \union {i}
          /\ bus'[s] = bus[s] \union {i}
          /\ \A t \in Server \ {s} :
                batch'[t] = batch[t] /\ sent'[t] = sent[t] /\ bus'[t] = bus[t]
      BY <1>0, <2>1 DEF TypeOK
    <2>4. FirstPublishInOrder'
      <3>1. \A j \in 1 .. i : j \in emitted'
        <4>1. ASSUME NEW j \in 1 .. i, j # i
              PROVE  j \notin batch[s]
          BY <2>1, <2>2, <4>1
        <4> QED
          BY <2>1, <4>1 DEF OutboxInv, BatchHasNoGap
      <3> QED
        BY <2>1, <3>1 DEF OutboxInv, FirstPublishInOrder
    <2>5. SentWasEmitted'
      BY <2>1, <2>3 DEF OutboxInv, SentWasEmitted
    <2>6. BatchHasNoGap'
      BY <2>1, <2>3 DEF OutboxInv, BatchHasNoGap
    <2>7. BusIsSettled'
      BY <2>2, <2>3 DEF OutboxInv, BusIsSettled
    <2>8. NothingDroppedUnpublished'
      BY <2>1, <2>2 DEF OutboxInv, NothingDroppedUnpublished
    <2> QED
      BY <1>0, <2>4, <2>5, <2>6, <2>7, <2>8 DEF OutboxInv
  <1>5. ASSUME NEW s \in Server, Mark(s)
        PROVE  OutboxInv'
    <2>1. /\ Unpublished' = Unpublished \ sent[s]
          /\ Id' = Id
          /\ UNCHANGED <<batch, bus, slipped, emitted>>
          /\ sent'[s] = {}
          /\ \A t \in Server \ {s} : sent'[t] = sent[t]
      BY <1>0, <1>5 DEF Mark, TypeOK, Unpublished, Id
    <2>2. NothingDroppedUnpublished'
      BY <2>1
      DEF OutboxInv, NothingDroppedUnpublished, SentWasEmitted
    <2>3. BusIsSettled'
      BY <2>1 DEF OutboxInv, BusIsSettled
    <2>4. SentWasEmitted'
      BY <2>1 DEF OutboxInv, SentWasEmitted
    <2> QED
      BY <1>0, <2>1, <2>2, <2>3, <2>4
      DEF OutboxInv, FirstPublishInOrder, BatchHasNoGap
  <1>6. ASSUME NEW s \in Server, MarkFails(s)
        PROVE  OutboxInv'
    <2>1. /\ Unpublished' = Unpublished /\ Id' = Id
          /\ UNCHANGED <<batch, bus, emitted>>
          /\ sent'[s] = {} /\ slipped'[s] = TRUE
          /\ \A t \in Server \ {s} : sent'[t] = sent[t] /\ slipped'[t] = slipped[t]
      BY <1>0, <1>6 DEF MarkFails, tableVars, TypeOK, Unpublished, Id
    <2>2. BusIsSettled'
      BY <2>1 DEF OutboxInv, BusIsSettled
    <2>3. SentWasEmitted'
      BY <2>1 DEF OutboxInv, SentWasEmitted
    <2> QED
      BY <1>0, <2>1, <2>2, <2>3
      DEF OutboxInv, NothingDroppedUnpublished, FirstPublishInOrder,
          BatchHasNoGap
  <1>7. ASSUME NEW s \in Server, Stop(s)
        PROVE  OutboxInv'
    <2>1. /\ Unpublished' = Unpublished /\ Id' = Id
          /\ emitted' = emitted
          /\ batch'[s] = {} /\ sent'[s] = {} /\ bus'[s] = {}
          /\ \A t \in Server \ {s} :
                /\ batch'[t] = batch[t] /\ sent'[t] = sent[t]
                /\ bus'[t] = bus[t] /\ slipped'[t] = slipped[t]
      BY <1>0, <1>7 DEF Stop, tableVars, TypeOK, Unpublished, Id
    <2>2. BusIsSettled'
      BY <2>1 DEF OutboxInv, BusIsSettled
    <2>3. SentWasEmitted' /\ BatchHasNoGap'
      BY <2>1 DEF OutboxInv, SentWasEmitted, BatchHasNoGap
    <2> QED
      BY <1>0, <2>1, <2>2, <2>3
      DEF OutboxInv, NothingDroppedUnpublished, FirstPublishInOrder
  <1>8. CASE UNCHANGED outboxVars
    BY <1>0, <1>8
    DEF outboxVars, tableVars, serverVars, OutboxInv, Unpublished, Id,
        NothingDroppedUnpublished, FirstPublishInOrder, SentWasEmitted,
        BatchHasNoGap, BusIsSettled
  <1> QED
    BY <1>1, <1>2, <1>3, <1>4, <1>5, <1>6, <1>7, <1>8 DEF Next, ServerStep

LEMMA OutboxInvariant == Spec => []OutboxInv
  BY OutboxInvInit, OutboxInvStep, PTL DEF Spec

\* No committed event is lost: a row that is flagged, or that the purge of a
\* starting server has deleted, was put on the bus of some server before.
THEOREM NothingLost == Spec => []NothingDroppedUnpublished
  <1>1. OutboxInv => NothingDroppedUnpublished
    BY DEF OutboxInv
  <1> QED
    BY <1>1, OutboxInvariant, PTL

\* Rows are first published in the order their writers committed them.
THEOREM FirstPublishOrder == Spec => []FirstPublishInOrder
  <1>1. OutboxInv => FirstPublishInOrder
    BY DEF OutboxInv
  <1> QED
    BY <1>1, OutboxInvariant, PTL

\* A server none of whose marks failed never publishes a row twice.
THEOREM NoRepeatWithoutFailedMark == Spec => []RepeatOnlyAfterFailedMark
  <1>1. OutboxInv => RepeatOnlyAfterFailedMark
    BY DEF OutboxInv, BusIsSettled, RepeatOnlyAfterFailedMark
  <1> QED
    BY <1>1, OutboxInvariant, PTL

-----------------------------------------------------------------------------
(***************************************************************************)
(* The outbox implements OrderedDelivery.                                  *)
(***************************************************************************)
LEMMA DeliveryInit == Init => Delivery!Init
  BY DEF Init, Delivery!Init, Unpublished

\* A writer's insert is a commit; a publish is a first hand-over, or nothing
\* when the row was published before; a mark forgets the rows of its batch;
\* everything else is invisible.
LEMMA DeliveryStep ==
    OutboxInv /\ [Next]_outboxVars => [Delivery!Next]_(Delivery!abstractVars)
  <1> SUFFICES ASSUME OutboxInv, [Next]_outboxVars
               PROVE  [Delivery!Next]_(Delivery!abstractVars)
    OBVIOUS
  <1> USE OutboxAssumption
  <1>0. TypeOK
    BY DEF OutboxInv
  <1>1. ASSUME NEW e \in Event, Enqueue(e)
        PROVE  Delivery!Commit(e)
    <2>1. Len(log) + 1 \notin flagged
      BY <1>0 DEF TypeOK, Id
    <2> QED
      BY <1>1, <2>1 DEF Enqueue, Delivery!Commit, Unpublished
  <1>2. ASSUME NEW s \in Server, Start(s)
        PROVE  UNCHANGED Delivery!abstractVars
    BY <1>2 DEF Start, Delivery!abstractVars, Unpublished
  <1>3. ASSUME NEW s \in Server, Fetch(s)
        PROVE  UNCHANGED Delivery!abstractVars
    BY <1>3 DEF Fetch, tableVars, Delivery!abstractVars, Unpublished
  <1>4. ASSUME NEW s \in Server, Publish(s)
        PROVE  [Delivery!Next]_(Delivery!abstractVars)
    <2>1. PICK i \in batch[s] :
            /\ \A j \in batch[s] : i <= j
            /\ emitted' = emitted \union {i}
      BY <1>4 DEF Publish
    <2>2. UNCHANGED <<log, Unpublished>> /\ i \in Id
      BY <1>0, <1>4 DEF Publish, tableVars, Unpublished, TypeOK
    <2>3. CASE i \in Unpublished
      <3>1. ASSUME NEW j \in 1 .. (i - 1)
            PROVE  j \in emitted
        <4>1. j \in 1 .. i /\ ~(i <= j)
          BY <2>2 DEF Id
        <4> QED
          BY <2>1, <4>1 DEF OutboxInv, BatchHasNoGap
      <3>2. Delivery!HandOver(i)
        BY <2>1, <2>2, <2>3, <3>1 DEF Delivery!HandOver
      <3> QED
        BY <2>3, <3>2 DEF Delivery!Next
    <2>4. CASE i \notin Unpublished
      <3>1. i \in emitted
        BY <2>2, <2>4 DEF OutboxInv, NothingDroppedUnpublished
      <3> QED
        BY <2>1, <2>2, <3>1 DEF Delivery!abstractVars
    <2> QED
      BY <2>3, <2>4
  <1>5. ASSUME NEW s \in Server, Mark(s)
        PROVE  Delivery!Next
    <2>1. sent[s] \subseteq emitted
      BY DEF OutboxInv, SentWasEmitted
    <2>2. Delivery!Forget(sent[s])
      BY <1>5, <2>1 DEF Mark, Delivery!Forget, Unpublished
    <2> QED
      BY <2>1, <2>2 DEF Delivery!Next
  <1>6. ASSUME NEW s \in Server, MarkFails(s)
        PROVE  UNCHANGED Delivery!abstractVars
    BY <1>6 DEF MarkFails, tableVars, Delivery!abstractVars, Unpublished
  <1>7. ASSUME NEW s \in Server, Stop(s)
        PROVE  UNCHANGED Delivery!abstractVars
    BY <1>7 DEF Stop, tableVars, Delivery!abstractVars, Unpublished
  <1>8. CASE UNCHANGED outboxVars
    BY <1>8 DEF outboxVars, tableVars, Delivery!abstractVars, Unpublished
  <1> QED
    BY <1>1, <1>2, <1>3, <1>4, <1>5, <1>6, <1>7, <1>8
    DEF Next, ServerStep, Delivery!Next

\* The outbox with its pollers is an ordered at-least-once delivery.
THEOREM OutboxDelivers == Spec => ImplementsOrderedDelivery
  BY DeliveryInit, DeliveryStep, OutboxInvariant, PTL
  DEF Spec, ImplementsOrderedDelivery, Delivery!Spec
=============================================================================
