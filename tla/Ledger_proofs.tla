---------------------------- MODULE Ledger_proofs ----------------------------
(***************************************************************************)
(* Proofs about Ledger, for any number of processes, labels, edges, rows   *)
(* and any radix: types, that a verdict follows a question, that a question*)
(* about an edge is not closed by another row about that edge, and that,   *)
(* while operations do not overlap, no edge is lost and every row describes*)
(* its edge.                                                               *)
(*                                                                         *)
(* A process about to write a verdict has seen a question on its slot      *)
(* (VerdictHasQuestion); questions are only ever about sensitive edges     *)
(* (QuestionsAreSensitive), so that an inferred row that supersedes one is *)
(* about another edge.  Without overlap the used slots are 1 .. n and a    *)
(* single process is at work (AddInv); what it has counted, inserted and   *)
(* read back is then the last edge of the pair, and its row goes to that   *)
(* edge (DescribedInv).  Edges written by id keep this as long as they     *)
(* leave no gap in the numbers; they have no row (ByIdInv).                *)
(***************************************************************************)
EXTENDS Ledger, FiniteSetTheorems, WellFoundedInduction, TLAPS

USE LedgerAssumption, FactAssumption

VerdictHasQuestion ==
    \A p \in Process : tool[p].step = "verdict" =>
        \E j \in 1 .. Len(ledger) :
            /\ ledger[j].slot = tool[p].slot
            /\ ledger[j].status = "needs-confirmation"

QuestionsAreSensitive ==
    \A i \in 1 .. Len(ledger) :
        ledger[i].status = "needs-confirmation" => ledger[i].fact.label \in Sensitive

LedgerInv ==
    /\ TypeOK
    /\ VerdictHasQuestion
    /\ VerdictFollowsQuestion
    /\ QuestionsAreSensitive

-----------------------------------------------------------------------------
(***************************************************************************)
(* Lemmas on the data.                                                     *)
(***************************************************************************)

\* The number of used slots is a number.
LEMMA UsedIsFinite ==
    ASSUME TypeOK
    PROVE  Cardinality(Used) \in Nat
<1>1. Used \subseteq Slot
  BY DEF Used
<1>2. IsFiniteSet(Slot)
  BY FS_Interval DEF Slot
<1> QED
  BY <1>1, <1>2, FS_Subset, FS_CardinalityType

\* What a process at each step carries.
LEMMA WorkFields ==
    ASSUME NEW w \in Work
    PROVE  /\ w.step = "insert" => w.label \in Label /\ w.slot \in Slot
           /\ w.step \in {"seed", "verdict"} => w.slot \in Slot /\ w.fact \in Fact
<1>1. CASE w = Idle
  BY <1>1 DEF Idle
<1>2. CASE w \in [step : {"insert"}, label : Label, slot : Slot]
  BY <1>2
<1>3. CASE w \in [step : {"reread"}]
  BY <1>3
<1>4. CASE w \in [step : {"seed", "verdict"}, slot : Slot, fact : Fact]
  BY <1>4
<1> QED
  BY <1>1, <1>2, <1>3, <1>4 DEF Work

\* An appended row leaves the others where they are.
LEMMA AppendKeepsRows ==
    ASSUME NEW S, NEW s \in Seq(S), NEW r \in S, NEW t, t = Append(s, r)
    PROVE  /\ t \in Seq(S)
           /\ Len(t) = Len(s) + 1
           /\ Len(s) \in Nat
           /\ \A i \in 1 .. Len(s) : t[i] = s[i]
           /\ t[Len(s) + 1] = r
  OBVIOUS

-----------------------------------------------------------------------------
(***************************************************************************)
(* Types.                                                                  *)
(***************************************************************************)
LEMMA TypeStep == TypeOK /\ [Next]_vars => TypeOK'
<1> SUFFICES ASSUME TypeOK, [Next]_vars PROVE TypeOK'
  OBVIOUS
<1>1. CASE UNCHANGED vars
  BY <1>1 DEF TypeOK, vars, history
<1>2. ASSUME NEW p \in Process, NEW label \in Label, Count(p, label)
      PROVE  TypeOK'
  <2>1. Cardinality(Used) + 1 \in Slot
    BY <1>2, UsedIsFinite DEF Count, Slot
  <2>2. [step |-> "insert", label |-> label, slot |-> Cardinality(Used) + 1] \in Work
    BY <2>1, <1>2 DEF Work
  <2>3. overlapped' \in BOOLEAN
    BY <1>2, Zenon DEF Count, Begins, TypeOK, OthersBusy
  <2> QED
    BY <1>2, <2>2, <2>3 DEF Count, Begins, TypeOK
<1>3. ASSUME NEW p \in Process, Insert(p) PROVE TypeOK'
  <2> DEFINE fact == [n |-> adds + 1, label |-> tool[p].label]
  <2>1. tool[p].label \in Label /\ tool[p].slot \in Slot
    BY <1>3, WorkFields DEF Insert, TypeOK
  <2>2. fact \in Fact
    BY <1>3, <2>1 DEF Insert, TypeOK, Fact
  <2>3. [step |-> "reread"] \in Work /\ Idle \in Work
    BY DEF Work
  <2>4. adds' \in 0 .. MaxAdds
    BY <1>3 DEF Insert, TypeOK
  <2>5. edges' \in [Slot -> Fact \union {NoEdge}] /\ added' \in SUBSET Fact
    BY <1>3, <2>1, <2>2 DEF Insert, TypeOK
  <2>6. tool' \in [Process -> Work]
    BY <1>3, <2>3 DEF Insert, TypeOK
  <2>7. unledgered' \in BOOLEAN
    BY <1>3, Zenon DEF Insert, TypeOK
  <2> QED
    BY <1>3, <2>4, <2>5, <2>6, <2>7 DEF Insert, TypeOK
<1>4. ASSUME NEW p \in Process, Reread(p) PROVE TypeOK'
  <2>1. PICK k \in Used : tool' = [tool EXCEPT ![p] =
                 [step |-> "seed", slot |-> k, fact |-> edges[k]]]
    BY <1>4 DEF Reread
  <2>2. k \in Slot /\ edges[k] \in Fact
    BY DEF Used, TypeOK
  <2>3. [step |-> "seed", slot |-> k, fact |-> edges[k]] \in Work
    BY <2>2 DEF Work
  <2>4. tool' \in [Process -> Work]
    BY <1>4, <2>1, <2>3 DEF TypeOK
  <2> QED
    BY <1>4, <2>4 DEF Reread, TypeOK, history
<1>5. ASSUME NEW p \in Process, RereadNothing(p) \/ Abandon(p) PROVE TypeOK'
  <2>1. Idle \in Work
    BY DEF Work
  <2>2. tool' \in [Process -> Work]
    BY <1>5, <2>1 DEF RereadNothing, Abandon, TypeOK
  <2>3. unledgered' \in BOOLEAN
    BY <1>5, Zenon DEF RereadNothing, Abandon, TypeOK, history
  <2> QED
    BY <1>5, <2>2, <2>3 DEF RereadNothing, Abandon, TypeOK, history
<1>6. ASSUME NEW p \in Process, AppendSeed(p) \/ AppendVerdict(p) PROVE TypeOK'
  <2>1. tool[p].slot \in Slot /\ tool[p].fact \in Fact
    BY <1>6, WorkFields DEF AppendSeed, AppendVerdict, TypeOK
  <2>2. tool[p].fact.label \in Label
    BY <2>1 DEF Fact
  <2>3. PICK status \in {"inferred", "needs-confirmation"} \union Outcome,
             label \in Label \union {NoLabel} :
           ledger' = Append(ledger, [slot |-> tool[p].slot, status |-> status,
                                     label |-> label, fact |-> tool[p].fact])
    <3>1. CASE AppendSeed(p)
      BY <3>1, <2>2 DEF AppendSeed, SeedStatus
    <3>2. CASE AppendVerdict(p)
      BY <3>2 DEF AppendVerdict
    <3> QED BY <3>1, <3>2, <1>6
  <2>4. [slot |-> tool[p].slot, status |-> status, label |-> label,
         fact |-> tool[p].fact] \in Row
    BY <2>1 DEF Row
  <2>5. ledger' \in Seq(Row)
    BY <2>3, <2>4, AppendKeepsRows DEF TypeOK
  <2>6. tool' \in [Process -> Work]
    BY <1>6 DEF AppendSeed, AppendVerdict, TypeOK, Work
  <2> QED
    BY <1>6, <2>5, <2>6 DEF AppendSeed, AppendVerdict, TypeOK, history
<1>7. ASSUME NEW p \in Process, DeleteEdges(p) PROVE TypeOK'
  <2>1. overlapped' \in BOOLEAN
    BY <1>7, Zenon DEF DeleteEdges, Begins, TypeOK, OthersBusy
  <2> QED
    BY <1>7, <2>1 DEF DeleteEdges, Begins, TypeOK
<1>8. ASSUME NEW p \in Process, NEW k \in Slot, ReadPending(p, k) PROVE TypeOK'
  <2>1. PICK i \in RowsOf(k) : tool' = [tool EXCEPT ![p] =
                 [step |-> "verdict", slot |-> k, fact |-> ledger[i].fact]]
    BY <1>8 DEF ReadPending
  <2>2. ledger[i] \in Row
    BY DEF RowsOf, TypeOK
  <2>3. [step |-> "verdict", slot |-> k, fact |-> ledger[i].fact] \in Work
    BY <1>8, <2>2 DEF Work, Row
  <2>4. tool' \in [Process -> Work]
    BY <1>8, <2>1, <2>3 DEF TypeOK
  <2>5. overlapped' \in BOOLEAN
    BY <1>8, Zenon DEF ReadPending, Begins, TypeOK, OthersBusy
  <2> QED
    BY <1>8, <2>4, <2>5 DEF ReadPending, TypeOK
<1>9. ASSUME NEW p \in Process, NEW k \in Slot, NEW label \in Label, PutById(p, k, label)
      PROVE  TypeOK'
  <2>1. [n |-> adds + 1, label |-> label] \in Fact /\ adds' \in 0 .. MaxAdds
    BY <1>9 DEF PutById, TypeOK, Fact
  <2>2. edges' \in [Slot -> Fact \union {NoEdge}] /\ added' \in SUBSET Fact
    BY <1>9, <2>1 DEF PutById, TypeOK
  <2>3. overlapped' \in BOOLEAN /\ scattered' \in BOOLEAN
    BY <1>9, Zenon DEF PutById, Begins, TypeOK, OthersBusy, Scatters
  <2> QED
    BY <1>9, <2>1, <2>2, <2>3 DEF PutById, TypeOK
<1>10. ASSUME NEW p \in Process, NEW k \in Slot, MoveById(p, k)
       PROVE  TypeOK'
  <2>1. edges' \in [Slot -> Fact \union {NoEdge}] /\ added' \in SUBSET Fact
    BY <1>10 DEF MoveById, TypeOK
  <2>2. overlapped' \in BOOLEAN /\ scattered' \in BOOLEAN
    BY <1>10, Zenon DEF MoveById, Begins, TypeOK, OthersBusy, Scatters
  <2> QED
    BY <1>10, <2>1, <2>2 DEF MoveById, TypeOK
<1> QED
  BY <1>1, <1>2, <1>3, <1>4, <1>5, <1>6, <1>7, <1>8, <1>9, <1>10 DEF Next, ProcessStep

LEMMA TypeInit == Init => TypeOK
<1> SUFFICES ASSUME Init PROVE TypeOK
  OBVIOUS
<1>1. Idle \in Work
  BY DEF Work
<1>2. edges \in [Slot -> Fact \union {NoEdge}] /\ tool \in [Process -> Work]
  BY <1>1 DEF Init
<1>3. ledger \in Seq(Row) /\ added \in SUBSET Fact /\ adds \in 0 .. MaxAdds
  BY DEF Init
<1>4. overlapped \in BOOLEAN /\ unledgered \in BOOLEAN /\ scattered \in BOOLEAN
  BY DEF Init
<1> QED
  BY <1>2, <1>3, <1>4 DEF TypeOK

-----------------------------------------------------------------------------
(***************************************************************************)
(* The strengthened invariant.                                             *)
(***************************************************************************)
LEMMA LedgerInvInit == Init => LedgerInv
<1> SUFFICES ASSUME Init PROVE LedgerInv
  OBVIOUS
<1>1. TypeOK
  BY TypeInit
<1>2. VerdictHasQuestion
  BY DEF Init, VerdictHasQuestion, Idle
<1>3. VerdictFollowsQuestion /\ QuestionsAreSensitive
  BY DEF Init, VerdictFollowsQuestion, QuestionsAreSensitive
<1> QED
  BY <1>1, <1>2, <1>3 DEF LedgerInv

\* An append keeps the invariant if its process goes idle, if a question is
\* about a sensitive edge and if a verdict has a question on its slot.
LEMMA AppendKeepsInv ==
    ASSUME LedgerInv, NEW p \in Process, NEW row \in Row,
           ledger' = Append(ledger, row),
           tool' = [tool EXCEPT ![p] = Idle],
           row.status = "needs-confirmation" => row.fact.label \in Sensitive,
           row.status \in Outcome =>
               \E j \in 1 .. Len(ledger) :
                  /\ ledger[j].slot = row.slot
                  /\ ledger[j].status = "needs-confirmation"
    PROVE  VerdictHasQuestion' /\ VerdictFollowsQuestion' /\ QuestionsAreSensitive'
<1>1. ledger \in Seq(Row)
  BY DEF LedgerInv, TypeOK
<1>2. /\ Len(ledger') = Len(ledger) + 1
      /\ Len(ledger) \in Nat
      /\ \A i \in 1 .. Len(ledger) : ledger'[i] = ledger[i]
      /\ ledger'[Len(ledger) + 1] = row
  BY <1>1, AppendKeepsRows
<1>3. VerdictHasQuestion'
  <2> SUFFICES ASSUME NEW q \in Process, tool'[q].step = "verdict"
               PROVE  \E j \in 1 .. Len(ledger') :
                         /\ ledger'[j].slot = tool'[q].slot
                         /\ ledger'[j].status = "needs-confirmation"
    BY DEF VerdictHasQuestion
  <2>1. tool'[q] = tool[q]
    BY DEF Idle, LedgerInv, TypeOK
  <2>2. PICK j \in 1 .. Len(ledger) :
           ledger[j].slot = tool[q].slot /\ ledger[j].status = "needs-confirmation"
    BY <2>1 DEF LedgerInv, VerdictHasQuestion
  <2> QED
    BY <2>1, <2>2, <1>2
<1>4. VerdictFollowsQuestion'
  <2> SUFFICES ASSUME NEW i \in 1 .. Len(ledger'), ledger'[i].status \in Outcome
               PROVE  \E j \in 1 .. (i - 1) :
                         /\ ledger'[j].slot = ledger'[i].slot
                         /\ ledger'[j].status = "needs-confirmation"
    BY DEF VerdictFollowsQuestion
  <2>1. CASE i = Len(ledger) + 1
    BY <2>1, <1>2
  <2>2. CASE i \in 1 .. Len(ledger)
    <3>1. PICK j \in 1 .. (i - 1) :
             ledger[j].slot = ledger[i].slot /\ ledger[j].status = "needs-confirmation"
      BY <2>2, <1>2 DEF LedgerInv, VerdictFollowsQuestion
    <3>2. ledger'[j] = ledger[j] /\ ledger'[i] = ledger[i]
      BY <2>2, <1>2
    <3> QED
      BY <3>1, <3>2
  <2> QED
    BY <2>1, <2>2, <1>2
<1>5. QuestionsAreSensitive'
  <2> SUFFICES ASSUME NEW i \in 1 .. Len(ledger'),
                      ledger'[i].status = "needs-confirmation"
               PROVE  ledger'[i].fact.label \in Sensitive
    BY DEF QuestionsAreSensitive
  <2>1. CASE i = Len(ledger) + 1
    BY <2>1, <1>2
  <2>2. CASE i \in 1 .. Len(ledger)
    BY <2>2, <1>2 DEF LedgerInv, QuestionsAreSensitive
  <2> QED
    BY <2>1, <2>2, <1>2
<1> QED
  BY <1>3, <1>4, <1>5

\* A step that leaves the ledger alone keeps the invariant if a process it
\* makes ready for a verdict has a question on its slot.
LEMMA SameLedgerKeepsInv ==
    ASSUME LedgerInv, ledger' = ledger,
           \A q \in Process : tool'[q].step = "verdict" =>
               \/ tool'[q] = tool[q]
               \/ \E j \in 1 .. Len(ledger) :
                     /\ ledger[j].slot = tool'[q].slot
                     /\ ledger[j].status = "needs-confirmation"
    PROVE  VerdictHasQuestion' /\ VerdictFollowsQuestion' /\ QuestionsAreSensitive'
<1>1. VerdictHasQuestion'
  BY DEF LedgerInv, VerdictHasQuestion
<1>2. VerdictFollowsQuestion' /\ QuestionsAreSensitive'
  BY DEF LedgerInv, VerdictFollowsQuestion, QuestionsAreSensitive
<1> QED
  BY <1>1, <1>2

LEMMA LedgerInvStep == LedgerInv /\ [Next]_vars => LedgerInv'
<1> SUFFICES ASSUME LedgerInv, [Next]_vars PROVE LedgerInv'
  OBVIOUS
<1> DEFINE Goal ==
       VerdictHasQuestion' /\ VerdictFollowsQuestion' /\ QuestionsAreSensitive'
<1>1. TypeOK'
  BY TypeStep DEF LedgerInv
<1>2. CASE UNCHANGED vars
  <2>1. ledger' = ledger /\ tool' = tool
    BY <1>2 DEF vars
  <2> QED
    BY <2>1, SameLedgerKeepsInv, <1>1 DEF LedgerInv
<1>3. ASSUME NEW p \in Process,
             \/ \E label \in Label : Count(p, label)
             \/ Insert(p) \/ Reread(p) \/ RereadNothing(p) \/ Abandon(p)
             \/ DeleteEdges(p)
             \/ \E k \in Slot, label \in Label : PutById(p, k, label)
             \/ \E k \in Slot : MoveById(p, k)
      PROVE  Goal
  <2>1. ledger' = ledger
    BY <1>3 DEF Count, Insert, Reread, RereadNothing, Abandon, DeleteEdges, PutById, MoveById
  <2>2. \/ tool' = tool
        \/ \E w : w.step # "verdict" /\ tool' = [tool EXCEPT ![p] = w]
    BY <1>3 DEF Count, Insert, Reread, RereadNothing, Abandon, DeleteEdges, PutById, MoveById, Idle
  <2>3. ASSUME NEW q \in Process, tool'[q].step = "verdict"
        PROVE  tool'[q] = tool[q]
    BY <2>2, <2>3 DEF LedgerInv, TypeOK
  <2> QED
    BY <2>1, <2>3, SameLedgerKeepsInv
<1>4. ASSUME NEW p \in Process, NEW k \in Slot, ReadPending(p, k) PROVE Goal
  <2>1. ledger' = ledger
    BY <1>4 DEF ReadPending
  <2>2. PICK i \in RowsOf(k) :
           /\ IsLatest(i, k)
           /\ tool' = [tool EXCEPT ![p] =
                 [step |-> "verdict", slot |-> k, fact |-> ledger[i].fact]]
    BY <1>4 DEF ReadPending
  <2>3. PICK j \in RowsOf(k) : IsLatest(j, k) /\ ledger[j].status = "needs-confirmation"
    BY <1>4 DEF ReadPending, Pending
  <2>4. j \in 1 .. Len(ledger) /\ ledger[j].slot = k
    BY <2>3 DEF RowsOf
  <2>5. ASSUME NEW q \in Process
        PROVE  tool'[q] = tool[q] \/ tool'[q].slot = k
    BY <2>2 DEF LedgerInv, TypeOK
  <2> QED
    BY <2>1, <2>3, <2>4, <2>5, SameLedgerKeepsInv
<1>5. ASSUME NEW p \in Process, AppendSeed(p) PROVE Goal
  <2> DEFINE row == [slot |-> tool[p].slot, status |-> SeedStatus(tool[p].fact.label),
                     label |-> tool[p].fact.label, fact |-> tool[p].fact]
  <2>1. tool[p].slot \in Slot /\ tool[p].fact \in Fact
    BY <1>5, WorkFields DEF AppendSeed, LedgerInv, TypeOK
  <2>2. tool[p].fact.label \in Label
    BY <2>1 DEF Fact
  <2>3. row \in Row
    BY <2>1, <2>2 DEF Row, SeedStatus
  <2>4. row.status = "needs-confirmation" => row.fact.label \in Sensitive
    BY DEF SeedStatus
  <2>5. row.status \notin Outcome
    BY DEF SeedStatus
  <2>6. ledger' = Append(ledger, row) /\ tool' = [tool EXCEPT ![p] = Idle]
    BY <1>5 DEF AppendSeed
  <2> HIDE DEF row
  <2> QED
    BY <2>3, <2>4, <2>5, <2>6, AppendKeepsInv
<1>6. ASSUME NEW p \in Process, AppendVerdict(p) PROVE Goal
  <2>1. PICK outcome \in Outcome :
           ledger' = Append(ledger, [slot |-> tool[p].slot, status |-> outcome,
                                     label |-> NoLabel, fact |-> tool[p].fact])
    BY <1>6 DEF AppendVerdict
  <2> DEFINE row == [slot |-> tool[p].slot, status |-> outcome,
                     label |-> NoLabel, fact |-> tool[p].fact]
  <2>2. tool[p].slot \in Slot /\ tool[p].fact \in Fact
    BY <1>6, WorkFields DEF AppendVerdict, LedgerInv, TypeOK
  <2>3. row \in Row /\ row.slot = tool[p].slot
    BY <2>2 DEF Row
  <2>4. row.status # "needs-confirmation"
    OBVIOUS
  <2>5. \E j \in 1 .. Len(ledger) :
           ledger[j].slot = tool[p].slot /\ ledger[j].status = "needs-confirmation"
    BY <1>6 DEF AppendVerdict, LedgerInv, VerdictHasQuestion
  <2>6. ledger' = Append(ledger, row) /\ tool' = [tool EXCEPT ![p] = Idle]
    BY <1>6, <2>1 DEF AppendVerdict
  <2> HIDE DEF row
  <2> QED
    BY <2>3, <2>4, <2>5, <2>6, AppendKeepsInv
<1> QED
  BY <1>1, <1>2, <1>3, <1>4, <1>5, <1>6 DEF Next, ProcessStep, LedgerInv

LEMMA LedgerInvariant == Spec => []LedgerInv
<1>1. Init => LedgerInv
  BY LedgerInvInit
<1>2. LedgerInv /\ [Next]_vars => LedgerInv'
  BY LedgerInvStep
<1> QED
  BY <1>1, <1>2, PTL DEF Spec

-----------------------------------------------------------------------------
(***************************************************************************)
(* The theorems.                                                           *)
(***************************************************************************)

\* Every variable keeps its type.
THEOREM TypeCorrect == Spec => []TypeOK
<1>1. LedgerInv => TypeOK
  BY DEF LedgerInv
<1> QED
  BY <1>1, LedgerInvariant, PTL

\* A verdict in the ledger was asked for: whatever runs at the same time,
\* resolve_confirmation writes only on a target that had a question.
THEOREM VerdictsHaveQuestions == Spec => []VerdictFollowsQuestion
<1>1. LedgerInv => VerdictFollowsQuestion
  BY DEF LedgerInv
<1> QED
  BY <1>1, LedgerInvariant, PTL

\* What an append of a row on slot k, or elsewhere, does to its latest row.
LEMMA LatestAfterAppend ==
    ASSUME TypeOK, NEW row \in Row, ledger' = Append(ledger, row),
           NEW k \in Slot, NEW i \in RowsOf(k), IsLatest(i, k),
           ledger[i].status = "needs-confirmation", ~Pending(k)'
    PROVE  /\ Len(ledger') \in RowsOf(k)'
           /\ ledger'[Len(ledger')] = row
           /\ row.status # "needs-confirmation"
<1>1. ledger \in Seq(Row)
  BY DEF TypeOK
<1>2. /\ Len(ledger') = Len(ledger) + 1
      /\ Len(ledger) \in Nat
      /\ \A j \in 1 .. Len(ledger) : ledger'[j] = ledger[j]
      /\ ledger'[Len(ledger) + 1] = row
  BY <1>1, AppendKeepsRows
<1>3. RowsOf(k)' = RowsOf(k) \union (IF row.slot = k THEN {Len(ledger')} ELSE {})
  BY <1>2 DEF RowsOf
<1>4. row.slot = k
  <2> SUFFICES ASSUME row.slot # k PROVE FALSE
    OBVIOUS
  <2>1. RowsOf(k)' = RowsOf(k)
    BY <1>3
  <2>2. i \in 1 .. Len(ledger)
    BY DEF RowsOf
  <2>3. IsLatest(i, k)'
    BY <2>1 DEF IsLatest
  <2>4. ledger'[i].status = "needs-confirmation"
    BY <2>2, <1>2
  <2> QED
    BY <2>1, <2>3, <2>4 DEF Pending
<1>5. Len(ledger') \in RowsOf(k)'
  BY <1>3, <1>4
<1>6. row.status # "needs-confirmation"
  <2> SUFFICES ASSUME row.status = "needs-confirmation" PROVE FALSE
    OBVIOUS
  <2>1. PICK n : n = Len(ledger')
    OBVIOUS
  <2>2. n \in RowsOf(k)' /\ \A j \in RowsOf(k)' : j <= n
    BY <2>1, <1>2, <1>5 DEF RowsOf
  <2>3. IsLatest(n, k)'
    BY <2>2 DEF IsLatest
  <2>4. ledger'[n].status = "needs-confirmation"
    BY <2>1, <1>2
  <2> QED
    BY <2>2, <2>3, <2>4 DEF Pending
<1> QED
  BY <1>2, <1>5, <1>6

\* A pending question is closed by a verdict or by a row about another edge
\* that has got its id: no row about the same edge closes it.
THEOREM QuestionsStayOpen == Spec => QuestionStaysOpen
<1> DEFINE Closed(k, i) ==
       \E j \in RowsOf(k)' :
          /\ j = Len(ledger')
          /\ \/ ledger'[j].status \in Outcome
             \/ ledger'[j].fact # ledger[i].fact
<1> DEFINE StaysOpen ==
       \A k \in Slot : \A i \in RowsOf(k) :
          (IsLatest(i, k) /\ ledger[i].status = "needs-confirmation" /\ ~Pending(k)')
             => Closed(k, i)
<1>1. LedgerInv /\ [Next]_vars => [StaysOpen]_vars
  <2> SUFFICES ASSUME LedgerInv, [Next]_vars,
                      NEW k \in Slot, NEW i \in RowsOf(k), IsLatest(i, k),
                      ledger[i].status = "needs-confirmation", ~Pending(k)'
               PROVE  Closed(k, i)
    OBVIOUS
  <2>1. CASE ledger' = ledger
    <3>1. RowsOf(k)' = RowsOf(k) /\ IsLatest(i, k)'
      BY <2>1 DEF RowsOf, IsLatest
    <3> QED
      BY <2>1, <3>1 DEF Pending
  <2>2. ASSUME NEW p \in Process, AppendSeed(p) PROVE Closed(k, i)
    <3> DEFINE row == [slot |-> tool[p].slot, status |-> SeedStatus(tool[p].fact.label),
                       label |-> tool[p].fact.label, fact |-> tool[p].fact]
    <3>1. tool[p].slot \in Slot /\ tool[p].fact \in Fact
      BY <2>2, WorkFields DEF AppendSeed, LedgerInv, TypeOK
    <3>2. tool[p].fact.label \in Label
      BY <3>1 DEF Fact
    <3>3. row \in Row
      BY <3>1, <3>2 DEF Row, SeedStatus
    <3>4. ledger' = Append(ledger, row)
      BY <2>2 DEF AppendSeed
    <3>5. row.status # "needs-confirmation" => row.fact.label \notin Sensitive
      BY DEF SeedStatus
    <3> HIDE DEF row
    <3>6. /\ Len(ledger') \in RowsOf(k)'
          /\ ledger'[Len(ledger')] = row
          /\ row.status # "needs-confirmation"
      BY <3>3, <3>4, LatestAfterAppend DEF LedgerInv
    <3>7. ledger[i].fact.label \in Sensitive
      BY DEF LedgerInv, QuestionsAreSensitive, RowsOf
    <3> QED
      BY <3>5, <3>6, <3>7
  <2>3. ASSUME NEW p \in Process, AppendVerdict(p) PROVE Closed(k, i)
    <3>1. PICK outcome \in Outcome :
             ledger' = Append(ledger, [slot |-> tool[p].slot, status |-> outcome,
                                       label |-> NoLabel, fact |-> tool[p].fact])
      BY <2>3 DEF AppendVerdict
    <3> DEFINE row == [slot |-> tool[p].slot, status |-> outcome,
                       label |-> NoLabel, fact |-> tool[p].fact]
    <3>2. tool[p].slot \in Slot /\ tool[p].fact \in Fact
      BY <2>3, WorkFields DEF AppendVerdict, LedgerInv, TypeOK
    <3>3. row \in Row /\ row.status \in Outcome
      BY <3>2 DEF Row
    <3>4. ledger' = Append(ledger, row)
      BY <3>1
    <3> HIDE DEF row
    <3>5. Len(ledger') \in RowsOf(k)' /\ ledger'[Len(ledger')] = row
      BY <3>3, <3>4, LatestAfterAppend DEF LedgerInv
    <3> QED
      BY <3>3, <3>5
  <2> QED
    BY <2>1, <2>2, <2>3 DEF Next, ProcessStep, vars, Count, Insert, Reread,
       RereadNothing, Abandon, DeleteEdges, PutById, MoveById, ReadPending
<1> QED
  BY <1>1, LedgerInvariant, PTL DEF Spec, QuestionStaysOpen

-----------------------------------------------------------------------------
(***************************************************************************)
(* The numerals of edge ids.  Digits is recursive: that it has the values  *)
(* its definition says is shown by extending it one number after the other *)
(* (NumeralsExist), with the least number for which that fails.            *)
(***************************************************************************)
LEMMA LeastNumber ==
    ASSUME NEW T \in SUBSET Nat, T # {}
    PROVE  \E x \in T : \A y \in T : x <= y
<1>1. PICK R : R = OpToRel(<, Nat)
  OBVIOUS
<1>2. IsWellFoundedOn(R, Nat)
  BY <1>1, NatLessThanWellFounded
<1>3. PICK x \in T : \A y \in T : ~ (<<y, x>> \in R)
  BY <1>2, WFMin
<1>4. \A y \in T : <<y, x>> \in R <=> y < x
  BY <1>1 DEF OpToRel
<1>5. \A y \in T : ~(y < x)
  BY <1>3, <1>4, Zenon
<1>6. T \subseteq Nat
  OBVIOUS
<1> QED
  BY <1>5, <1>6

LEMMA QuotientIsSmaller ==
    ASSUME NEW n \in Nat, n >= Base
    PROVE  n \div Base \in Nat /\ n \div Base < n
<1>1. PICK q \in Nat, r \in Nat : q = n \div Base /\ r = n % Base /\ n = Base * q + r
  OBVIOUS
<1>2. Base * q >= 2 * q
  OBVIOUS
<1>3. q < n
  BY <1>1, <1>2
<1> QED
  BY <1>1, <1>3

Numeral(g, n) == IF n < Base THEN <<n>> ELSE Append(g[n \div Base], n % Base)
NumeralsUpTo(g, m) == \A n \in Nat : n <= m => g[n] = Numeral(g, n)

LEMMA SameNumeral ==
    ASSUME NEW g, NEW h, NEW n \in Nat, \A i \in Nat : i < n => g[i] = h[i]
    PROVE  Numeral(g, n) = Numeral(h, n)
BY QuotientIsSmaller DEF Numeral

LEMMA NumeralsAreUnique ==
    ASSUME NEW g, NEW h, NEW k \in Nat, NEW m \in Nat, NumeralsUpTo(g, k), NumeralsUpTo(h, m)
    PROVE  \A n \in Nat : n <= k /\ n <= m => g[n] = h[n]
<1> SUFFICES ASSUME NEW e \in Nat, e <= k, e <= m, g[e] # h[e] PROVE FALSE
  OBVIOUS
<1>1. PICK T : T = {n \in Nat : n <= k /\ n <= m /\ g[n] # h[n]}
  OBVIOUS
<1>2. PICK x \in T : \A y \in T : x <= y
  <2>1. T \in SUBSET Nat /\ T # {}
    BY <1>1
  <2> QED
    BY <2>1, LeastNumber
<1>3. x \in Nat /\ x <= k /\ x <= m /\ g[x] # h[x]
  BY <1>1
<1>4. \A i \in Nat : i < x => g[i] = h[i]
  BY <1>1, <1>2, <1>3
<1>5. g[x] = Numeral(g, x) /\ h[x] = Numeral(h, x)
  BY <1>3 DEF NumeralsUpTo
<1> QED
  BY <1>3, <1>4, <1>5, SameNumeral

LEMMA NumeralsExist == \A m \in Nat : \E g : NumeralsUpTo(g, m)
<1> SUFFICES ASSUME NEW e \in Nat, ~\E g : NumeralsUpTo(g, e) PROVE FALSE
  OBVIOUS
<1>1. PICK T : T = {n \in Nat : ~\E g : NumeralsUpTo(g, n)}
  OBVIOUS
<1>2. PICK x \in T : \A y \in T : x <= y
  <2>1. T \in SUBSET Nat /\ T # {}
    BY <1>1
  <2> QED
    BY <2>1, LeastNumber
<1>3. x \in Nat /\ ~\E g : NumeralsUpTo(g, x)
  BY <1>1
<1>4. PICK g : \A n \in Nat : n < x => g[n] = Numeral(g, n)
  <2>1. CASE x = 0
    BY <2>1
  <2>2. CASE x # 0
    <3>1. x - 1 \in Nat /\ x - 1 \notin T
      BY <1>2, <1>3, <2>2
    <3>2. PICK g : NumeralsUpTo(g, x - 1)
      BY <1>1, <3>1
    <3>3. \A n \in Nat : n < x => g[n] = Numeral(g, n)
      BY <1>3, <3>2 DEF NumeralsUpTo
    <3> QED
      BY <3>3
  <2> QED
    BY <2>1, <2>2
<1>5. PICK h : h = [n \in 0 .. x |-> Numeral(g, n)]
  OBVIOUS
<1>6. \A n \in Nat : n < x => h[n] = g[n]
  BY <1>3, <1>4, <1>5
<1>7. ASSUME NEW n \in Nat, n <= x
      PROVE  h[n] = Numeral(h, n)
  <2>1. Numeral(h, n) = Numeral(g, n)
    BY <1>3, <1>6, <1>7, SameNumeral
  <2> QED
    BY <1>5, <1>7, <2>1
<1>8. NumeralsUpTo(h, x)
  BY <1>7 DEF NumeralsUpTo
<1> QED
  BY <1>3, <1>8

LEMMA DigitsUnfold == \A n \in Nat : Digits[n] = Numeral(Digits, n)
<1>1. PICK G : G = [m \in Nat |-> CHOOSE g : NumeralsUpTo(g, m)]
  OBVIOUS
<1>2. \A m \in Nat : NumeralsUpTo(G[m], m)
  BY <1>1, NumeralsExist
<1>3. PICK d : d = [n \in Nat |-> G[n][n]]
  OBVIOUS
<1>4. ASSUME NEW n \in Nat
      PROVE  d[n] = Numeral(d, n)
  <2>1. d[n] = Numeral(G[n], n)
    BY <1>2, <1>3 DEF NumeralsUpTo
  <2>2. \A i \in Nat : i < n => G[n][i] = d[i]
    BY <1>2, <1>3, NumeralsAreUnique
  <2> QED
    BY <2>1, <2>2, SameNumeral
<1>5. d = [n \in Nat |-> Numeral(d, n)]
  BY <1>3, <1>4
<1>6. Digits = CHOOSE f : f = [n \in Nat |-> Numeral(f, n)]
  BY DEF Digits, Numeral
<1>7. Digits = [n \in Nat |-> Numeral(Digits, n)]
  BY <1>5, <1>6
<1> QED
  BY <1>7

\* Ids of one digit are in the order of their numbers: the last of the edges
\* 1 .. n is edge n.
LEMMA LastOfOneDigit ==
    ASSUME NEW n \in Nat, n < Base, Used = 1 .. n, NEW k, IsLast(k)
    PROVE  k = n
<1> SUFFICES ASSUME k # n PROVE FALSE
  OBVIOUS
<1>1. k \in 1 .. n /\ n \in Used \ {k}
  BY DEF IsLast
<1>2. ComesAfter(k, n)
  BY <1>1 DEF IsLast
<1>3. Digits[k] = <<k>> /\ Digits[n] = <<n>>
  <2>1. k \in Nat /\ k < Base
    BY <1>1
  <2>2. Digits[k] = Numeral(Digits, k) /\ Digits[n] = Numeral(Digits, n)
    BY <2>1, DigitsUnfold
  <2>3. Numeral(Digits, k) = <<k>> /\ Numeral(Digits, n) = <<n>>
    BY <2>1 DEF Numeral
  <2> QED
    BY <2>2, <2>3
<1>4. k > n
  BY <1>1, <1>2, <1>3 DEF ComesAfter
<1> QED
  BY <1>1, <1>4

-----------------------------------------------------------------------------
(***************************************************************************)
(* Operations that do not overlap.  The edges of the pair are then the     *)
(* first so many slots, and an add that has counted them is to fill the    *)
(* next one.                                                               *)
(***************************************************************************)
OneBusy == \A p, q \in Process : tool[p] # Idle /\ tool[q] # Idle => p = q

SlotsInOrder ==
    \E n \in Nat :
        /\ Used = 1 .. n
        /\ \A p \in Process : tool[p].step = "insert" => tool[p].slot = n + 1

AddInv ==
    ~overlapped /\ ~scattered => OneBusy /\ SlotsInOrder /\ {edges[k] : k \in Used} = added

\* No edge is in two slots; where edges written by id left a gap, no row was
\* asked for.
ByIdInv ==
    /\ \A k \in Used : edges[k].n <= adds
    /\ \A j, k \in Used : edges[j] = edges[k] => j = k
    /\ scattered => unledgered

LEMMA CountOfSlots == \A n \in Nat : Cardinality(1 .. n) = n
BY FS_Interval

LEMMA IdleStep == Idle.step = "idle"
BY DEF Idle

LEMMA AddInvInit == Init => AddInv
<1> SUFFICES ASSUME Init PROVE AddInv
  OBVIOUS
<1>1. Used = 1 .. 0 /\ 0 \in Nat /\ Used = {}
  BY DEF Init, Used
<1>2. \A p \in Process : tool[p] = Idle
  BY DEF Init
<1>3. SlotsInOrder
  BY <1>1, <1>2, IdleStep DEF SlotsInOrder
<1> QED
  BY <1>1, <1>2, <1>3 DEF AddInv, OneBusy, Init

\* A step in an operation of p changes no other process; one that begins an
\* operation is an overlap unless all others are idle.
LEMMA OneBusyStep ==
    ASSUME TypeOK, OneBusy, NEW p \in Process, NEW w, tool' = [tool EXCEPT ![p] = w],
           tool[p] # Idle \/ ~OthersBusy(p)
    PROVE  OneBusy'
<1>1. \A q \in Process \ {p} : tool'[q] = tool[q] /\ tool[q] = Idle
  BY DEF TypeOK, OneBusy, OthersBusy
<1> QED
  BY <1>1 DEF OneBusy

LEMMA ByIdInvInit == Init => ByIdInv
BY DEF Init, ByIdInv, Used

LEMMA ByIdInvStep == TypeOK /\ ByIdInv /\ [Next]_vars => ByIdInv'
<1> SUFFICES ASSUME TypeOK, ByIdInv, [Next]_vars PROVE ByIdInv'
  OBVIOUS
<1>1. CASE UNCHANGED <<edges, adds, scattered>> /\ (unledgered => unledgered')
  BY <1>1 DEF ByIdInv, Used
\* A new edge is put into a slot.
<1>2. ASSUME NEW k \in Slot, NEW fact \in Fact, fact.n = adds + 1, adds' = adds + 1,
             edges' = [edges EXCEPT ![k] = fact], scattered' => unledgered'
      PROVE  ByIdInv'
  <2>1. \A j \in Slot : edges'[j] = IF j = k THEN fact ELSE edges[j]
    BY <1>2 DEF TypeOK
  <2>2. adds \in Nat /\ \A j \in Used : edges[j].n \in Nat
    BY DEF TypeOK, Used, Fact
  <2>3. \A j \in Used' : j = k \/ j \in Used
    BY <2>1 DEF Used
  <2>4. \A j \in Used' : edges'[j].n <= adds'
    BY <1>2, <2>1, <2>2, <2>3 DEF ByIdInv, Used
  <2>5. ASSUME NEW i \in Used', NEW j \in Used', edges'[i] = edges'[j], i # j
        PROVE  FALSE
    <3>1. i \in Slot /\ j \in Slot
      BY DEF Used
    <3>2. \A m \in Used : edges[m].n < fact.n
      BY <1>2, <2>2 DEF ByIdInv
    <3> QED
      BY <2>1, <2>3, <2>5, <3>1, <3>2, <2>2 DEF ByIdInv
  <2> QED
    BY <1>2, <2>4, <2>5 DEF ByIdInv
\* Slots are emptied.
<1>3. ASSUME \A k \in Slot : edges'[k] \in {edges[k], NoEdge}, UNCHANGED adds,
             scattered' => unledgered'
      PROVE  ByIdInv'
  <2>1. \A k \in Used' : k \in Used /\ edges'[k] = edges[k]
    BY <1>3 DEF Used
  <2> QED
    BY <1>3, <2>1 DEF ByIdInv
<1>4. ASSUME NEW p \in Process, Insert(p)
      PROVE  ByIdInv'
  <2>1. PICK fact : fact = [n |-> adds + 1, label |-> tool[p].label]
    OBVIOUS
  <2>2. tool[p].label \in Label /\ tool[p].slot \in Slot
    BY <1>4, WorkFields DEF Insert, TypeOK
  <2>3. fact \in Fact /\ fact.n = adds + 1
    BY <1>4, <2>1, <2>2 DEF Insert, TypeOK, Fact
  <2>4. adds' = adds + 1 /\ edges' = [edges EXCEPT ![tool[p].slot] = fact]
    BY <1>4, <2>1 DEF Insert
  <2>5. scattered' => unledgered'
    BY <1>4 DEF Insert, ByIdInv
  <2> QED
    BY <1>2, <2>2, <2>3, <2>4, <2>5
<1>5. ASSUME NEW p \in Process, NEW k \in Slot, NEW label \in Label, PutById(p, k, label)
      PROVE  ByIdInv'
  <2>1. PICK fact : fact = [n |-> adds + 1, label |-> label]
    OBVIOUS
  <2>2. fact \in Fact /\ fact.n = adds + 1
    BY <1>5, <2>1 DEF PutById, TypeOK, Fact
  <2>3. adds' = adds + 1 /\ edges' = [edges EXCEPT ![k] = fact] /\ unledgered'
    BY <1>5, <2>1 DEF PutById
  <2> QED
    BY <1>2, <2>2, <2>3
<1>6. ASSUME NEW p \in Process, NEW k \in Slot, MoveById(p, k)
      PROVE  ByIdInv'
  BY <1>3, <1>6 DEF MoveById, TypeOK
<1>7. ASSUME NEW p \in Process, DeleteEdges(p)
      PROVE  ByIdInv'
  BY <1>3, <1>7 DEF DeleteEdges
<1>8. ASSUME NEW p \in Process,
             \/ \E label \in Label : Count(p, label)
             \/ Reread(p) \/ RereadNothing(p) \/ AppendSeed(p) \/ Abandon(p)
             \/ \E k \in Slot : ReadPending(p, k)
             \/ AppendVerdict(p)
      PROVE  UNCHANGED <<edges, adds, scattered>> /\ (unledgered => unledgered')
  <2>1. UNCHANGED <<edges, adds, scattered>>
    BY <1>8 DEF Count, Reread, RereadNothing, AppendSeed, Abandon, ReadPending, AppendVerdict, history
  <2>2. unledgered' = unledgered \/ unledgered' = (unledgered \/ tool[p].step \in {"reread", "seed"})
    BY <1>8 DEF Count, Reread, RereadNothing, AppendSeed, Abandon, ReadPending, AppendVerdict, history
  <2>3. unledgered => unledgered'
    BY <2>2, Zenon
  <2> QED
    BY <2>1, <2>3, Zenon
<1>9. CASE UNCHANGED vars
  BY <1>1, <1>9 DEF vars, history
<1> QED
  BY <1>1, <1>4, <1>5, <1>6, <1>7, <1>8, <1>9 DEF Next, ProcessStep

LEMMA AddInvStep == TypeOK /\ ByIdInv /\ AddInv /\ [Next]_vars => AddInv'
<1> SUFFICES ASSUME TypeOK, ByIdInv, AddInv, [Next]_vars PROVE AddInv'
  OBVIOUS
<1>1. CASE UNCHANGED vars
  BY <1>1 DEF vars, history, AddInv, OneBusy, SlotsInOrder, Used
\* A step that changes no edge and prepares no insert.
<1>2. ASSUME NEW p \in Process, NEW w, tool' = [tool EXCEPT ![p] = w], w.step # "insert",
             UNCHANGED <<edges, added, scattered>>,
             ~overlapped' => ~overlapped /\ (tool[p] # Idle \/ ~OthersBusy(p))
      PROVE  AddInv'
  <2> SUFFICES ASSUME ~overlapped', ~scattered
               PROVE  OneBusy' /\ SlotsInOrder' /\ {edges[k] : k \in Used} = added
    BY <1>2 DEF AddInv, Used
  <2>1. OneBusy /\ SlotsInOrder /\ {edges[k] : k \in Used} = added
    BY <1>2 DEF AddInv
  <2>2. OneBusy'
    BY <1>2, <2>1, OneBusyStep
  <2>3. PICK n \in Nat :
           /\ Used = 1 .. n
           /\ \A q \in Process : tool[q].step = "insert" => tool[q].slot = n + 1
    BY <2>1 DEF SlotsInOrder
  <2>4. Used' = 1 .. n
    BY <1>2, <2>3 DEF Used
  <2>5. \A q \in Process : tool'[q] = w \/ tool'[q] = tool[q]
    BY <1>2 DEF TypeOK
  <2>6. SlotsInOrder'
    BY <1>2, <2>3, <2>4, <2>5 DEF SlotsInOrder
  <2> QED
    BY <2>1, <2>2, <2>6
<1>3. ASSUME NEW p \in Process, NEW label \in Label, Count(p, label)
      PROVE  AddInv'
  <2>1. PICK c : c = Cardinality(Used)
    OBVIOUS
  <2>2. PICK w : w = [step |-> "insert", label |-> label, slot |-> c + 1]
    OBVIOUS
  <2>3. /\ tool' = [tool EXCEPT ![p] = w] /\ UNCHANGED <<edges, added, scattered>>
        /\ ~overlapped' => ~overlapped /\ ~OthersBusy(p)
    BY <1>3, <2>1, <2>2 DEF Count, Begins
  <2> SUFFICES ASSUME ~overlapped', ~scattered
               PROVE  OneBusy' /\ SlotsInOrder' /\ {edges[k] : k \in Used} = added
    BY <2>3 DEF AddInv, Used
  <2>4. OneBusy /\ SlotsInOrder /\ {edges[k] : k \in Used} = added
    BY <2>3 DEF AddInv
  <2>5. OneBusy'
    BY <2>3, <2>4, OneBusyStep
  <2>6. PICK n \in Nat : Used = 1 .. n
    BY <2>4 DEF SlotsInOrder
  <2>7. c = n /\ Used' = 1 .. n
    BY <2>1, <2>3, <2>6, CountOfSlots DEF Used
  <2>8. \A q \in Process : tool'[q] = w \/ tool'[q] = Idle
    BY <2>3 DEF TypeOK, OthersBusy
  <2>9. SlotsInOrder'
    BY <2>2, <2>7, <2>8, IdleStep DEF SlotsInOrder
  <2> QED
    BY <2>4, <2>5, <2>9
<1>4. ASSUME NEW p \in Process, Insert(p)
      PROVE  AddInv'
  <2>1. PICK w : /\ w = (IF p \in Server THEN Idle ELSE [step |-> "reread"])
                 /\ tool' = [tool EXCEPT ![p] = w]
    BY <1>4 DEF Insert
  <2>2. w.step # "insert"
    BY <2>1, IdleStep
  <2>3. PICK fact \in Fact, slot \in Slot :
           /\ slot = tool[p].slot /\ edges' = [edges EXCEPT ![slot] = fact]
           /\ added' = added \union {fact} /\ UNCHANGED <<overlapped, scattered>> /\ tool[p].step = "insert"
    <3>1. tool[p].label \in Label /\ tool[p].slot \in Slot
      BY <1>4, WorkFields DEF Insert, TypeOK
    <3>2. [n |-> adds + 1, label |-> tool[p].label] \in Fact
      BY <1>4, <3>1 DEF Insert, TypeOK, Fact
    <3> QED
      BY <1>4, <3>1, <3>2 DEF Insert
  <2> SUFFICES ASSUME ~overlapped, ~scattered PROVE OneBusy' /\ SlotsInOrder' /\ {edges[k] : k \in Used}' = added'
    BY <2>3 DEF AddInv
  <2>4. OneBusy /\ SlotsInOrder /\ {edges[k] : k \in Used} = added
    BY DEF AddInv
  <2>5. tool[p] # Idle
    BY <2>3, IdleStep
  <2>6. OneBusy'
    BY <2>1, <2>4, <2>5, OneBusyStep
  <2>7. PICK n \in Nat : Used = 1 .. n /\ slot = n + 1
    BY <2>3, <2>4 DEF SlotsInOrder
  <2>8. \A k \in Slot : edges'[k] = IF k = slot THEN fact ELSE edges[k]
    BY <2>3 DEF TypeOK
  <2>9. Used' = Used \union {slot} /\ slot \notin Used
    <3>1. \A k \in Slot : edges'[k] # NoEdge <=> k = slot \/ edges[k] # NoEdge
      BY <2>8
    <3>2. slot \notin 1 .. n
      BY <2>7
    <3> QED
      BY <2>7, <3>1, <3>2 DEF Used
  <2>10. Used' = 1 .. (n + 1)
    BY <2>7, <2>9
  <2>11. \A q \in Process : tool'[q].step # "insert"
    BY <2>1, <2>2, <2>4, <2>5, IdleStep DEF OneBusy, TypeOK
  <2>12. SlotsInOrder'
    BY <2>10, <2>11 DEF SlotsInOrder
  <2>13. Used \subseteq Slot
    BY DEF Used
  <2>14. {edges'[k] : k \in Used'} = {edges[k] : k \in Used} \union {fact}
    BY <2>8, <2>9, <2>13
  <2> QED
    BY <2>3, <2>4, <2>6, <2>12, <2>14
<1>5. ASSUME NEW p \in Process, Reread(p) \/ RereadNothing(p) \/ AppendSeed(p) \/ Abandon(p) \/ AppendVerdict(p)
      PROVE  AddInv'
  <2>1. PICK w : tool' = [tool EXCEPT ![p] = w] /\ w.step # "insert"
    BY <1>5, IdleStep DEF Reread, RereadNothing, AppendSeed, Abandon, AppendVerdict
  <2>2. UNCHANGED <<edges, added, overlapped, scattered>> /\ tool[p] # Idle
    BY <1>5, IdleStep DEF Reread, RereadNothing, AppendSeed, Abandon, AppendVerdict, history
  <2> QED
    BY <1>2, <2>1, <2>2
<1>6. ASSUME NEW p \in Process, NEW k \in Slot, ReadPending(p, k)
      PROVE  AddInv'
  <2>1. PICK i : tool' = [tool EXCEPT ![p] =
                     [step |-> "verdict", slot |-> k, fact |-> ledger[i].fact]]
    BY <1>6 DEF ReadPending
  <2>2. UNCHANGED <<edges, added, scattered>> /\ (~overlapped' => ~overlapped /\ ~OthersBusy(p))
    BY <1>6 DEF ReadPending, Begins
  <2>3. PICK w : w = [step |-> "verdict", slot |-> k, fact |-> ledger[i].fact]
    OBVIOUS
  <2>4. tool' = [tool EXCEPT ![p] = w] /\ w.step # "insert"
    BY <2>1, <2>3
  <2> QED
    BY <1>2, <2>2, <2>4
<1>7. ASSUME NEW p \in Process, DeleteEdges(p)
      PROVE  AddInv'
  <2>1. /\ UNCHANGED tool /\ edges' = [k \in Slot |-> NoEdge] /\ added' = {}
        /\ ~overlapped' => ~overlapped /\ ~OthersBusy(p) /\ tool[p] = Idle
    BY <1>7 DEF DeleteEdges, Begins
  <2>2. Used' = 1 .. 0 /\ 0 \in Nat /\ Used' = {}
    BY <2>1 DEF Used
  <2>3. ~overlapped' => \A q \in Process : tool'[q] = Idle
    BY <2>1 DEF OthersBusy
  <2>4. ~overlapped' => SlotsInOrder'
    BY <2>2, <2>3, IdleStep DEF SlotsInOrder
  <2>5. ~overlapped' => OneBusy'
    BY <2>3 DEF OneBusy
  <2> QED
    BY <2>1, <2>2, <2>4, <2>5 DEF AddInv
\* An edge is written by its id: it takes the place of what had that.
<1>8. ASSUME NEW p \in Process, NEW k \in Slot, NEW e \in Fact \union {NoEdge}, Begins(p),
             UNCHANGED tool, edges' = [edges EXCEPT ![k] = e],
             added' = (added \ {edges[k]}) \union ({e} \ {NoEdge}),
             scattered' = (scattered \/ Scatters(edges'))
      PROVE  AddInv'
  <2> SUFFICES ASSUME ~overlapped', ~scattered'
               PROVE  OneBusy' /\ SlotsInOrder' /\ {edges[j] : j \in Used}' = added'
    BY DEF AddInv
  <2>1. ~overlapped /\ ~scattered /\ ~Scatters(edges') /\ ~OthersBusy(p) /\ tool[p] = Idle
    BY <1>8 DEF Begins
  <2>2. \A q \in Process : tool'[q] = Idle
    BY <1>8, <2>1 DEF OthersBusy
  <2>3. Used' = 1 .. Cardinality(Used')
    BY <2>1 DEF Scatters, Used
  <2>4. Cardinality(Used') \in Nat
    <3>1. Used' \subseteq Slot
      BY DEF Used
    <3>2. IsFiniteSet(Slot)
      BY FS_Interval DEF Slot
    <3> QED
      BY <3>1, <3>2, FS_Subset, FS_CardinalityType
  <2>5. OneBusy' /\ SlotsInOrder'
    BY <2>2, <2>3, <2>4, IdleStep DEF OneBusy, SlotsInOrder
  <2>6. \A j \in Slot : edges'[j] = IF j = k THEN e ELSE edges[j]
    BY <1>8 DEF TypeOK
  <2>7. {edges[j] : j \in Used} = added
    BY <2>1 DEF AddInv
  <2>8. {edges'[j] : j \in Used'} = {edges[j] : j \in Used \ {k}} \union ({e} \ {NoEdge})
    BY <1>8, <2>6 DEF Used
  <2>9. {edges[j] : j \in Used \ {k}} = added \ {edges[k]}
    <3>1. \A j \in Used \ {k} : edges[j] # edges[k]
      BY DEF ByIdInv, Used
    <3> QED
      BY <2>7, <3>1
  <2>10. NoEdge \notin added
    BY <2>7 DEF Used
  <2> QED
    BY <1>8, <2>5, <2>8, <2>9, <2>10
<1>9. ASSUME NEW p \in Process, NEW k \in Slot, NEW label \in Label, PutById(p, k, label)
      PROVE  AddInv'
  <2>1. PICK e : e = [n |-> adds + 1, label |-> label]
    OBVIOUS
  <2>2. e \in Fact
    BY <1>9, <2>1 DEF PutById, TypeOK, Fact
  <2>3. /\ Begins(p) /\ UNCHANGED tool /\ edges' = [edges EXCEPT ![k] = e]
        /\ added' = (added \ {edges[k]}) \union {e}
        /\ scattered' = (scattered \/ Scatters(edges'))
    BY <1>9, <2>1 DEF PutById
  <2>4. {e} = {e} \ {NoEdge}
    BY <2>2
  <2> QED
    BY <1>8, <2>2, <2>3, <2>4
<1>10. ASSUME NEW p \in Process, NEW k \in Slot, MoveById(p, k)
       PROVE  AddInv'
  <2>1. /\ Begins(p) /\ UNCHANGED tool /\ edges' = [edges EXCEPT ![k] = NoEdge]
        /\ added' = added \ {edges[k]}
        /\ scattered' = (scattered \/ Scatters(edges'))
    BY <1>10 DEF MoveById
  <2>2. added' = (added \ {edges[k]}) \union ({NoEdge} \ {NoEdge})
    BY <2>1
  <2> QED
    BY <1>8, <2>1, <2>2
<1> QED
  BY <1>1, <1>3, <1>4, <1>5, <1>6, <1>7, <1>9, <1>10 DEF Next, ProcessStep

\* Operations that do not overlap lose no edge, unless edges written by id left
\* a gap: a count is still right when its insert comes (upsert_edge), also
\* after others were deleted, and after writes by id that left no gap.
THEOREM NoAddIsLostAlways == Spec => []NoAddIsLost
<1>1. AddInv => NoAddIsLost
  BY DEF AddInv, NoAddIsLost
<1> QED
  BY <1>1, TypeInit, TypeStep, ByIdInvInit, ByIdInvStep, AddInvInit, AddInvStep, PTL DEF Spec

-----------------------------------------------------------------------------
(***************************************************************************)
(* What the ledger says of the edges, when operations do not overlap and   *)
(* every add gets its row.  The newest edge may still be without one.      *)
(***************************************************************************)
Described(k) == \E i \in RowsOf(k) : IsLatest(i, k) /\ ledger[i].fact = edges[k]

\* The call w of a process, when the pair has edges 1 .. n.
Knows(w, n) ==
    /\ w.step = "reread" => n > 0
    /\ w.step = "seed" => /\ w.slot \in 1 .. n /\ w.fact = edges[w.slot]
                          /\ n < Base => w.slot = n
    /\ w.step = "verdict" => (w.slot <= n /\ w.slot < Base => w.fact = edges[w.slot])

DescribedUpTo(n) ==
    /\ Used = 1 .. n
    /\ \A k \in 1 .. n : k < Base =>
          \/ Described(k)
          \/ k = n /\ \E p \in Process : tool[p].step \in {"reread", "seed"}
    /\ \A p \in Process : Knows(tool[p], n)

DescribedInv == (~overlapped /\ ~unledgered) => \E n \in Nat : DescribedUpTo(n)

LEMMA DescribedInit == Init => DescribedInv
<1> SUFFICES ASSUME Init PROVE DescribedInv
  OBVIOUS
<1>1. Used = 1 .. 0 /\ 0 \in Nat
  BY DEF Init, Used
<1>2. \A p \in Process : tool[p] = Idle
  BY DEF Init
<1>3. \A k \in 1 .. 0 : FALSE
  OBVIOUS
<1>4. DescribedUpTo(0)
  BY <1>1, <1>2, <1>3, IdleStep DEF DescribedUpTo, Knows
<1> QED
  BY <1>1, <1>4 DEF DescribedInv

\* An append describes the slot of its row by its fact, and changes what is
\* said of no other slot.
LEMMA DescribedAfterAppend ==
    ASSUME TypeOK, NEW row \in Row, ledger' = Append(ledger, row), UNCHANGED edges,
           NEW k \in Slot
    PROVE  /\ row.slot # k /\ Described(k) => Described(k)'
           /\ row.slot = k /\ row.fact = edges[k] => Described(k)'
<1>1. ledger \in Seq(Row)
  BY DEF TypeOK
<1>2. /\ Len(ledger') = Len(ledger) + 1
      /\ Len(ledger) \in Nat
      /\ \A j \in 1 .. Len(ledger) : ledger'[j] = ledger[j]
      /\ ledger'[Len(ledger) + 1] = row
  BY <1>1, AppendKeepsRows
<1>3. RowsOf(k)' = RowsOf(k) \union (IF row.slot = k THEN {Len(ledger')} ELSE {})
  BY <1>2 DEF RowsOf
<1>4. ASSUME row.slot # k, Described(k)
      PROVE  Described(k)'
  <2>1. RowsOf(k)' = RowsOf(k)
    BY <1>3, <1>4
  <2>2. PICK i \in RowsOf(k) : IsLatest(i, k) /\ ledger[i].fact = edges[k]
    BY <1>4 DEF Described
  <2>3. i \in RowsOf(k)' /\ IsLatest(i, k)'
    BY <2>1, <2>2 DEF IsLatest
  <2>4. ledger'[i].fact = edges'[k]
    BY <1>2, <2>2 DEF RowsOf
  <2> QED
    BY <2>3, <2>4 DEF Described
<1>5. ASSUME row.slot = k, row.fact = edges[k]
      PROVE  Described(k)'
  <2>1. PICK n : n = Len(ledger')
    OBVIOUS
  <2>2. n \in RowsOf(k)' /\ \A j \in RowsOf(k)' : j <= n
    BY <1>2, <1>3, <1>5, <2>1 DEF RowsOf
  <2>3. IsLatest(n, k)'
    BY <2>2 DEF IsLatest
  <2>4. ledger'[n].fact = edges'[k]
    BY <1>2, <1>5, <2>1
  <2> QED
    BY <2>2, <2>3, <2>4 DEF Described
<1> QED
  BY <1>4, <1>5

LEMMA DescribedKept ==
    ASSUME TypeOK, NEW n \in Nat, DescribedUpTo(n), NEW p \in Process, NEW w,
           tool' = [tool EXCEPT ![p] = w], UNCHANGED <<edges, ledger>>, Knows(w, n),
           tool[p].step \in {"reread", "seed"} => w.step \in {"reread", "seed"}
    PROVE  DescribedUpTo(n)'
<1>1. tool'[p] = w /\ \A q \in Process \ {p} : tool'[q] = tool[q]
  BY DEF TypeOK
<1>2. Used' = 1 .. n
  BY DEF DescribedUpTo, Used
<1>3. \A k : Described(k) => Described(k)'
  BY DEF Described, RowsOf, IsLatest
<1>4. (\E q \in Process : tool[q].step \in {"reread", "seed"})
         => \E q \in Process : tool'[q].step \in {"reread", "seed"}
  BY <1>1
<1>5. \A k \in 1 .. n : k < Base =>
         \/ Described(k)'
         \/ k = n /\ \E q \in Process : tool'[q].step \in {"reread", "seed"}
  BY <1>3, <1>4 DEF DescribedUpTo
<1>6. \A q \in Process : Knows(tool[q], n)
  BY DEF DescribedUpTo
<1>7. \A q \in Process : Knows(tool[q], n)'
  BY <1>1, <1>6 DEF Knows
<1> QED
  BY <1>2, <1>5, <1>7 DEF DescribedUpTo

LEMMA DescribedStep == TypeOK /\ ByIdInv /\ AddInv /\ DescribedInv /\ [Next]_vars => DescribedInv'
<1> SUFFICES ASSUME TypeOK, ByIdInv, AddInv, DescribedInv, [Next]_vars PROVE DescribedInv'
  OBVIOUS
<1>1. CASE UNCHANGED vars
  <2>1. UNCHANGED <<edges, ledger, tool, overlapped, unledgered>>
    BY <1>1 DEF vars, history
  <2>2. \A k : Described(k) => Described(k)'
    BY <2>1 DEF Described, RowsOf, IsLatest
  <2>3. ASSUME NEW n \in Nat, DescribedUpTo(n)
        PROVE  DescribedUpTo(n)'
    <3>1. Used' = 1 .. n /\ \A q \in Process : Knows(tool[q], n)'
      BY <2>1, <2>3 DEF DescribedUpTo, Used, Knows
    <3> QED
      BY <2>1, <2>2, <2>3, <3>1 DEF DescribedUpTo
  <2> QED
    BY <2>1, <2>3 DEF DescribedInv
\* A call goes on that changes neither edges nor ledger.
<1>2. ASSUME NEW p \in Process, NEW w, tool' = [tool EXCEPT ![p] = w],
             UNCHANGED <<edges, ledger>>,
             ~overlapped' => ~overlapped, ~unledgered' => ~unledgered,
             tool[p].step \in {"reread", "seed"} => w.step \in {"reread", "seed"},
             \A n \in Nat : ~overlapped' /\ ~unledgered' /\ DescribedUpTo(n) => Knows(w, n)
      PROVE  DescribedInv'
  <2> SUFFICES ASSUME ~overlapped', ~unledgered' PROVE \E n \in Nat : DescribedUpTo(n)'
    BY DEF DescribedInv
  <2>1. PICK n \in Nat : DescribedUpTo(n)
    BY <1>2 DEF DescribedInv
  <2>2. Knows(w, n)
    BY <1>2, <2>1
  <2>3. DescribedUpTo(n)'
    BY <1>2, <2>1, <2>2, DescribedKept
  <2> QED
    BY <2>3
<1>3. ASSUME NEW p \in Process, NEW label \in Label, Count(p, label)
      PROVE  DescribedInv'
  <2>1. PICK w : /\ w.step = "insert" /\ tool' = [tool EXCEPT ![p] = w]
                 /\ UNCHANGED <<edges, ledger, unledgered>> /\ tool[p] = Idle
                 /\ (~overlapped' => ~overlapped)
    BY <1>3 DEF Count, Begins
  <2>2. \A n \in Nat : Knows(w, n)
    BY <2>1 DEF Knows
  <2> QED
    BY <1>2, <2>1, <2>2, IdleStep
<1>4. ASSUME NEW p \in Process, Insert(p)
      PROVE  DescribedInv'
  <2> SUFFICES ASSUME ~overlapped', ~unledgered' PROVE \E n \in Nat : DescribedUpTo(n)'
    BY DEF DescribedInv
  <2>1. ~overlapped /\ ~unledgered /\ ~scattered /\ p \notin Server
    BY <1>4 DEF Insert, ByIdInv
  <2>2. PICK w : w.step = "reread" /\ tool' = [tool EXCEPT ![p] = w]
    BY <1>4, <2>1 DEF Insert
  <2>3. PICK slot, fact : /\ edges' = [edges EXCEPT ![slot] = fact] /\ slot = tool[p].slot
                          /\ slot \in Slot /\ fact \in Fact
                          /\ UNCHANGED ledger /\ tool[p].step = "insert"
    <3>1. tool[p].label \in Label /\ tool[p].slot \in Slot
      BY <1>4, WorkFields DEF Insert, TypeOK
    <3>2. [n |-> adds + 1, label |-> tool[p].label] \in Fact
      BY <1>4, <3>1 DEF Insert, TypeOK, Fact
    <3> QED
      BY <1>4, <3>1, <3>2 DEF Insert
  <2>4. PICK n \in Nat : DescribedUpTo(n)
    BY <2>1 DEF DescribedInv
  <2>5. slot = n + 1
    <3>1. PICK m \in Nat : Used = 1 .. m /\ slot = m + 1
      BY <2>1, <2>3 DEF AddInv, SlotsInOrder
    <3>2. Cardinality(1 .. m) = m /\ Cardinality(1 .. n) = n /\ 1 .. m = 1 .. n
      BY <2>4, <3>1, CountOfSlots DEF DescribedUpTo
    <3> QED
      BY <3>1, <3>2
  <2>6. tool'[p] = w /\ \A q \in Process \ {p} : tool'[q] = tool[q] /\ tool[q] = Idle
    BY <2>1, <2>2, <2>3, IdleStep DEF AddInv, OneBusy, TypeOK
  <2>7. \A k \in Slot : edges'[k] = IF k = n + 1 THEN fact ELSE edges[k]
    BY <2>3, <2>5 DEF TypeOK
  <2>8. Used' = 1 .. (n + 1)
    <3>1. \A k \in Slot : edges'[k] # NoEdge <=> k = n + 1 \/ edges[k] # NoEdge
      BY <2>3, <2>7
    <3>2. Used' = Used \union {n + 1}
      BY <2>3, <2>5, <3>1 DEF Used
    <3> QED
      BY <2>4, <3>2 DEF DescribedUpTo
  <2>9. ASSUME NEW k \in 1 .. n, k < Base
        PROVE  Described(k)'
    <3>1. \A q \in Process : tool[q].step \notin {"reread", "seed"}
      BY <2>3, <2>6, IdleStep
    <3>2. Described(k)
      BY <2>4, <2>9, <3>1 DEF DescribedUpTo
    <3>3. k \in Slot /\ edges'[k] = edges[k]
      BY <2>3, <2>5, <2>7 DEF Slot
    <3> QED
      BY <2>3, <3>2, <3>3 DEF Described, RowsOf, IsLatest
  <2>10. \A q \in Process : tool'[q].step \in {"reread", "idle"}
    BY <2>2, <2>6, IdleStep
  <2>11. \A k \in 1 .. (n + 1) : k \in 1 .. n \/ k = n + 1
    OBVIOUS
  <2>12. tool'[p].step \in {"reread", "seed"}
    BY <2>2, <2>6
  <2>13. \A q \in Process : Knows(tool[q], n + 1)'
    <3>1. n + 1 > 0
      OBVIOUS
    <3> QED
      BY <2>10, <3>1 DEF Knows
  <2>14. DescribedUpTo(n + 1)'
    BY <2>8, <2>9, <2>11, <2>12, <2>13 DEF DescribedUpTo
  <2> QED
    BY <2>14
<1>5. ASSUME NEW p \in Process, Reread(p)
      PROVE  DescribedInv'
  <2>1. PICK k \in Used : /\ IsLast(k)
                          /\ tool' = [tool EXCEPT ![p] =
                                 [step |-> "seed", slot |-> k, fact |-> edges[k]]]
                          /\ UNCHANGED <<edges, ledger, overlapped, unledgered>>
    BY <1>5 DEF Reread, history
  <2>2. PICK w : w = [step |-> "seed", slot |-> k, fact |-> edges[k]]
    OBVIOUS
  <2>3. ASSUME NEW n \in Nat, DescribedUpTo(n)
        PROVE  Knows(w, n)
    <3>1. Used = 1 .. n
      BY <2>3 DEF DescribedUpTo
    <3>2. n < Base => k = n
      BY <2>1, <3>1, LastOfOneDigit
    <3> QED
      BY <2>1, <2>2, <3>1, <3>2 DEF Knows
  <2>4. tool' = [tool EXCEPT ![p] = w] /\ w.step \in {"reread", "seed"}
    BY <2>1, <2>2
  <2> QED
    BY <1>2, <2>1, <2>3, <2>4
<1>6. ASSUME NEW p \in Process, RereadNothing(p)
      PROVE  DescribedInv'
  <2> SUFFICES ASSUME ~overlapped', ~unledgered' PROVE FALSE
    BY DEF DescribedInv
  <2>1. PICK n \in Nat : DescribedUpTo(n)
    BY <1>6 DEF RereadNothing, history, DescribedInv
  <2>2. n > 0 /\ 1 .. n = {}
    BY <1>6, <2>1 DEF RereadNothing, DescribedUpTo, Knows
  <2>3. 1 \in 1 .. n
    BY <2>2
  <2> QED
    BY <2>2, <2>3
<1>7. ASSUME NEW p \in Process, Abandon(p)
      PROVE  DescribedInv'
  <2>1. /\ tool' = [tool EXCEPT ![p] = Idle] /\ UNCHANGED <<edges, ledger, overlapped>>
        /\ ~unledgered' => ~unledgered /\ tool[p].step \notin {"reread", "seed"}
    BY <1>7 DEF Abandon
  <2>2. \A n \in Nat : Knows(Idle, n)
    BY IdleStep DEF Knows
  <2>3. CASE unledgered'
    BY <2>3 DEF DescribedInv
  <2>4. CASE ~unledgered'
    BY <1>2, <2>1, <2>2, <2>4
  <2> QED
    BY <2>3, <2>4
<1>8. ASSUME NEW p \in Process, DeleteEdges(p)
      PROVE  DescribedInv'
  <2>1. /\ UNCHANGED tool /\ edges' = [k \in Slot |-> NoEdge]
        /\ ~overlapped' => ~OthersBusy(p) /\ tool[p] = Idle
    BY <1>8 DEF DeleteEdges, Begins
  <2>2. Used' = 1 .. 0 /\ 0 \in Nat
    BY <2>1 DEF Used
  <2>3. ~overlapped' => \A q \in Process : tool'[q] = Idle
    BY <2>1 DEF OthersBusy
  <2>4. \A k \in 1 .. 0 : FALSE
    OBVIOUS
  <2>5. ~overlapped' => DescribedUpTo(0)'
    BY <2>2, <2>3, <2>4, IdleStep DEF DescribedUpTo, Knows
  <2> QED
    BY <2>2, <2>5 DEF DescribedInv
<1>9. ASSUME NEW p \in Process, NEW k \in Slot, ReadPending(p, k)
      PROVE  DescribedInv'
  <2>1. PICK i \in RowsOf(k) :
           /\ IsLatest(i, k)
           /\ tool' = [tool EXCEPT ![p] =
                  [step |-> "verdict", slot |-> k, fact |-> ledger[i].fact]]
    BY <1>9 DEF ReadPending
  <2>2. /\ UNCHANGED <<edges, ledger, unledgered>> /\ tool[p] = Idle
        /\ ~overlapped' => ~overlapped /\ ~OthersBusy(p)
    BY <1>9 DEF ReadPending, Begins
  <2>3. PICK w : w = [step |-> "verdict", slot |-> k, fact |-> ledger[i].fact]
    OBVIOUS
  <2>4. ASSUME NEW n \in Nat, DescribedUpTo(n), ~overlapped', k <= n, k < Base
        PROVE  ledger[i].fact = edges[k]
    <3>1. \A q \in Process : tool[q].step \notin {"reread", "seed"}
      BY <2>2, <2>4, IdleStep DEF OthersBusy
    <3>2. Described(k)
      BY <2>4, <3>1 DEF DescribedUpTo, Slot
    <3>3. PICK j \in RowsOf(k) : IsLatest(j, k) /\ ledger[j].fact = edges[k]
      BY <3>2 DEF Described
    <3>4. i = j
      BY <2>1, <3>3 DEF IsLatest, RowsOf
    <3> QED
      BY <3>3, <3>4
  <2>5. \A n \in Nat : ~overlapped' /\ DescribedUpTo(n) => Knows(w, n)
    BY <2>3, <2>4 DEF Knows
  <2>6. tool' = [tool EXCEPT ![p] = w]
    BY <2>1, <2>3
  <2> QED
    BY <1>2, <2>2, <2>5, <2>6, IdleStep
\* A row is appended about the edge the process has read.
<1>10. ASSUME NEW p \in Process, NEW row \in Row, ledger' = Append(ledger, row),
              tool' = [tool EXCEPT ![p] = Idle], UNCHANGED <<edges, overlapped, unledgered>>,
              tool[p].step \in {"seed", "verdict"}, row.slot = tool[p].slot, row.fact = tool[p].fact
       PROVE  DescribedInv'
  <2> SUFFICES ASSUME ~overlapped, ~unledgered PROVE \E n \in Nat : DescribedUpTo(n)'
    BY <1>10 DEF DescribedInv
  <2>1. PICK n \in Nat : DescribedUpTo(n)
    BY DEF DescribedInv
  <2>2. Used' = 1 .. n /\ 1 .. n \subseteq Slot
    BY <1>10, <2>1 DEF DescribedUpTo, Used
  <2>3. \A q \in Process : tool'[q] = Idle /\ (q # p => tool[q] = Idle)
    BY <1>10, IdleStep DEF AddInv, ByIdInv, OneBusy, TypeOK
  <2>4. Knows(tool[p], n)
    BY <2>1 DEF DescribedUpTo
  <2>5. ASSUME NEW k \in 1 .. n, k < Base
        PROVE  Described(k)'
    <3>1. k \in Slot
      BY <2>2
    <3>2. CASE row.slot = k
      <4>1. row.fact = edges[k]
        BY <1>10, <2>4, <2>5, <3>2 DEF Knows
      <4> QED
        BY <1>10, <3>1, <3>2, <4>1, DescribedAfterAppend
    <3>3. CASE row.slot # k
      <4>1. k # n \/ tool[p].step = "verdict"
        BY <1>10, <2>4, <2>5, <3>3 DEF Knows
      <4>2. Described(k)
        BY <2>1, <2>3, <2>5, <4>1, IdleStep DEF DescribedUpTo
      <4> QED
        BY <1>10, <3>1, <3>3, <4>2, DescribedAfterAppend
    <3> QED
      BY <3>2, <3>3
  <2>6. \A q \in Process : Knows(tool[q], n)'
    BY <2>3, IdleStep DEF Knows
  <2>7. DescribedUpTo(n)'
    BY <2>2, <2>5, <2>6 DEF DescribedUpTo
  <2> QED
    BY <2>7
<1>11. ASSUME NEW p \in Process, AppendSeed(p)
       PROVE  DescribedInv'
  <2>1. PICK row : row = [slot |-> tool[p].slot, status |-> SeedStatus(tool[p].fact.label),
                          label |-> tool[p].fact.label, fact |-> tool[p].fact]
    OBVIOUS
  <2>2. tool[p].slot \in Slot /\ tool[p].fact \in Fact /\ tool[p].fact.label \in Label
    BY <1>11, WorkFields DEF AppendSeed, TypeOK, Fact
  <2>3. row \in Row
    BY <2>1, <2>2 DEF Row, SeedStatus
  <2>4. ledger' = Append(ledger, row) /\ row.slot = tool[p].slot /\ row.fact = tool[p].fact
    BY <1>11, <2>1 DEF AppendSeed
  <2>5. /\ tool' = [tool EXCEPT ![p] = Idle] /\ UNCHANGED <<edges, overlapped, unledgered>>
        /\ tool[p].step = "seed"
    BY <1>11 DEF AppendSeed, history
  <2> QED
    BY <1>10, <2>3, <2>4, <2>5
<1>12. ASSUME NEW p \in Process, AppendVerdict(p)
       PROVE  DescribedInv'
  <2>1. PICK outcome \in Outcome :
           ledger' = Append(ledger, [slot |-> tool[p].slot, status |-> outcome,
                                     label |-> NoLabel, fact |-> tool[p].fact])
    BY <1>12 DEF AppendVerdict
  <2>2. PICK row : row = [slot |-> tool[p].slot, status |-> outcome,
                          label |-> NoLabel, fact |-> tool[p].fact]
    OBVIOUS
  <2>3. tool[p].slot \in Slot /\ tool[p].fact \in Fact
    BY <1>12, WorkFields DEF AppendVerdict, TypeOK
  <2>4. row \in Row
    BY <2>2, <2>3 DEF Row
  <2>5. ledger' = Append(ledger, row) /\ row.slot = tool[p].slot /\ row.fact = tool[p].fact
    BY <2>1, <2>2
  <2>6. /\ tool' = [tool EXCEPT ![p] = Idle] /\ UNCHANGED <<edges, overlapped, unledgered>>
        /\ tool[p].step = "verdict"
    BY <1>12 DEF AppendVerdict, history
  <2> QED
    BY <1>10, <2>4, <2>5, <2>6
\* An edge written by id has no row.
<1>13. ASSUME NEW p \in Process,
              \/ \E k \in Slot, label \in Label : PutById(p, k, label)
              \/ \E k \in Slot : MoveById(p, k)
       PROVE  DescribedInv'
  BY <1>13 DEF PutById, MoveById, DescribedInv
<1> QED
  BY <1>1, <1>3, <1>4, <1>5, <1>6, <1>7, <1>8, <1>9, <1>11, <1>12, <1>13 DEF Next, ProcessStep

\* When nothing overlaps, every add asks for its row and none is cut short,
\* and no edge is written by id, the latest row on each edge with a one-digit number is about that edge: no
\* edge inherits the verdict on one that had its id before (add_edge takes the
\* last edge of the pair for its own, by ORDER BY edge_id).
THEOREM LedgerDescribesEdgesAlways == Spec => []LedgerDescribesEdges
<1>1. DescribedInv => LedgerDescribesEdges
  <2> SUFFICES ASSUME DescribedInv, ~overlapped, ~unledgered,
                      \A p \in Process : tool[p].step \notin {"reread", "seed"},
                      NEW k \in Used, k < Base
               PROVE  Described(k)
    BY DEF LedgerDescribesEdges, Described
  <2> QED
    BY DEF DescribedInv, DescribedUpTo
<1> QED
  BY <1>1, TypeInit, TypeStep, ByIdInvInit, ByIdInvStep, AddInvInit, AddInvStep, DescribedInit, DescribedStep, PTL DEF Spec
=============================================================================
