-------------------------- MODULE LiveSync_proofs --------------------------
(***************************************************************************)
(* Proofs about LiveSync, for every set of nodes, MCP processes and        *)
(* viewers and every bound: its types, and that a page with nothing under  *)
(* way shows what is stored, except for the nodes the model explains.      *)
(***************************************************************************)
EXTENDS LiveSync, FiniteSetTheorems, WellFoundedInduction, TLAPS

-----------------------------------------------------------------------------
(***************************************************************************)
(* Numbers and sequences of messages.                                      *)
(***************************************************************************)
LEMMA LeastNumber ==
    ASSUME NEW T \in SUBSET Nat, T # {}
    PROVE  \E x \in T : \A y \in T : x <= y
<1>1. PICK R : R = OpToRel(<, Nat)
  OBVIOUS
<1>2. IsWellFoundedOn(R, Nat)
  BY <1>1, NatLessThanWellFounded
<1>3. PICK x \in T : \A y \in T : ~ (<<y, x>> \in R)
  BY <1>2, WFMin
<1>4. \A y \in T : <<y, x>> \in R <=> y < x
  BY <1>1 DEF OpToRel
<1>5. \A y \in T : ~(y < x)
  BY <1>3, <1>4, Zenon
<1>6. T \subseteq Nat
  OBVIOUS
<1> QED
  BY <1>5, <1>6

\* m is a node event about n; q holds none; the last one q holds says x.
About(m, n) == IsNodeEvent(m) /\ m.node = n
Silent(q, n) == \A i \in DOMAIN q : ~About(q[i], n)
LastSays(q, n, x) ==
    \E i \in DOMAIN q :
        /\ About(q[i], n) /\ q[i].ver = x
        /\ \A j \in DOMAIN q : About(q[j], n) => j <= i

\* A queue that gets one more message ...
LEMMA AppendAbout ==
    ASSUME NEW S, NEW q \in Seq(S), NEW m \in S, NEW n, About(m, n)
    PROVE  LastSays(Append(q, m), n, m.ver) /\ ~Silent(Append(q, m), n)
<1>1. PICK r : r = Append(q, m)
  OBVIOUS
<1>2. /\ Len(q) \in Nat /\ DOMAIN r = 1 .. Len(q) + 1
      /\ r[Len(q) + 1] = m
  BY <1>1
<1>3. LastSays(r, n, m.ver) /\ ~Silent(r, n)
  BY <1>2 DEF LastSays, Silent
<1> QED
  BY <1>1, <1>3

LEMMA AppendOther ==
    ASSUME NEW S, NEW q \in Seq(S), NEW m \in S, NEW n, ~About(m, n)
    PROVE  /\ \A x : LastSays(q, n, x) => LastSays(Append(q, m), n, x)
           /\ Silent(Append(q, m), n) <=> Silent(q, n)
<1>1. PICK r : r = Append(q, m)
  OBVIOUS
<1>2. /\ Len(q) \in Nat /\ DOMAIN q = 1 .. Len(q) /\ DOMAIN r = 1 .. Len(q) + 1
      /\ r[Len(q) + 1] = m
      /\ \A i \in 1 .. Len(q) : r[i] = q[i]
  BY <1>1
<1>3. ASSUME NEW x, LastSays(q, n, x) PROVE LastSays(r, n, x)
  <2>1. PICK i \in DOMAIN q :
          /\ About(q[i], n) /\ q[i].ver = x
          /\ \A j \in DOMAIN q : About(q[j], n) => j <= i
    BY <1>3 DEF LastSays
  <2>2. i \in DOMAIN r /\ About(r[i], n) /\ r[i].ver = x
    BY <1>2, <2>1
  <2>3. \A j \in DOMAIN r : About(r[j], n) => j <= i
    BY <1>2, <2>1
  <2> QED
    BY <2>2, <2>3 DEF LastSays
<1>4. Silent(r, n) <=> Silent(q, n)
  <2>1. \A i \in 1 .. Len(q) + 1 : i \in 1 .. Len(q) \/ i = Len(q) + 1
    BY <1>2
  <2> QED
    BY <1>2, <2>1 DEF Silent
<1> QED
  BY <1>1, <1>3, <1>4

\* ... and one that loses its first.
LEMMA TailAbout ==
    ASSUME NEW S, NEW q \in Seq(S), q # <<>>, NEW n, NEW x, LastSays(q, n, x)
    PROVE  \/ LastSays(Tail(q), n, x)
           \/ Silent(Tail(q), n) /\ About(Head(q), n) /\ Head(q).ver = x
<1>1. PICK r : r = Tail(q)
  OBVIOUS
<1>2. /\ Len(q) \in Nat /\ DOMAIN q = 1 .. Len(q) /\ DOMAIN r = 1 .. Len(q) - 1
      /\ Head(q) = q[1] /\ Len(q) >= 1
      /\ \A i \in 1 .. Len(q) - 1 : r[i] = q[i + 1]
  BY <1>1
<1>3. PICK i \in DOMAIN q :
          /\ About(q[i], n) /\ q[i].ver = x
          /\ \A j \in DOMAIN q : About(q[j], n) => j <= i
  BY DEF LastSays
<1>4. CASE i = 1
  <2>1. \A j \in DOMAIN r : ~About(r[j], n)
    <3>1. ASSUME NEW j \in DOMAIN r, About(r[j], n) PROVE FALSE
      <4>1. j + 1 \in DOMAIN q /\ About(q[j + 1], n)
        BY <1>2, <3>1
      <4> QED
        BY <1>2, <1>3, <1>4, <4>1
    <3> QED
      BY <3>1
  <2> QED
    BY <1>1, <1>2, <1>3, <1>4, <2>1 DEF Silent
<1>5. CASE i # 1
  <2>1. i - 1 \in DOMAIN r /\ r[i - 1] = q[i]
    BY <1>2, <1>3, <1>5
  <2>2. ASSUME NEW j \in DOMAIN r, About(r[j], n) PROVE j <= i - 1
    <3>1. j + 1 \in DOMAIN q /\ About(q[j + 1], n)
      BY <1>2, <2>2
    <3> QED
      BY <1>2, <1>3, <3>1
  <2> QED
    BY <1>1, <1>3, <2>1, <2>2 DEF LastSays
<1> QED
  BY <1>4, <1>5

LEMMA TailSilent ==
    ASSUME NEW S, NEW q \in Seq(S), q # <<>>, NEW n
    PROVE  Silent(q, n) <=> Silent(Tail(q), n) /\ ~About(Head(q), n)
<1>1. PICK r : r = Tail(q)
  OBVIOUS
<1>2. /\ Len(q) \in Nat /\ DOMAIN q = 1 .. Len(q) /\ DOMAIN r = 1 .. Len(q) - 1
      /\ Head(q) = q[1] /\ Len(q) >= 1
      /\ \A i \in 1 .. Len(q) - 1 : r[i] = q[i + 1]
  BY <1>1
<1>3. \A i \in DOMAIN q : i = 1 \/ (i - 1 \in DOMAIN r /\ q[i] = r[i - 1])
  BY <1>2
<1>4. \A i \in DOMAIN r : i + 1 \in DOMAIN q /\ r[i] = q[i + 1]
  BY <1>2
<1>5. 1 \in DOMAIN q
  BY <1>2
<1> QED
  BY <1>1, <1>2, <1>3, <1>4, <1>5 DEF Silent

LEMMA LastIsNotSilent ==
    ASSUME NEW q, NEW n, NEW x, LastSays(q, n, x)
    PROVE  ~Silent(q, n)
BY DEF LastSays, Silent

-----------------------------------------------------------------------------
(***************************************************************************)
(* Flushed, by induction on the number of events already applied.          *)
(***************************************************************************)
FlushAt(g, known, q, e, i) == IF i = 0 THEN known ELSE ApplyEvent(g[i - 1], q[i], e)
FlushUpTo(g, known, q, e, k) == \A i \in 0 .. k : g[i] = FlushAt(g, known, q, e, i)

LEMMA FlushExists ==
    ASSUME NEW known, NEW q, NEW e
    PROVE  \A k \in Nat : \E g : FlushUpTo(g, known, q, e, k)
<1> SUFFICES ASSUME NEW b \in Nat, ~\E g : FlushUpTo(g, known, q, e, b) PROVE FALSE
  OBVIOUS
<1>1. PICK T : T = {k \in Nat : ~\E g : FlushUpTo(g, known, q, e, k)}
  OBVIOUS
<1>2. PICK x \in T : \A y \in T : x <= y
  <2>1. T \in SUBSET Nat /\ T # {}
    BY <1>1
  <2> QED
    BY <2>1, LeastNumber
<1>3. x \in Nat /\ ~\E g : FlushUpTo(g, known, q, e, x)
  BY <1>1
<1>4. CASE x = 0
  <2>1. PICK g : g = [i \in 0 .. 0 |-> known]
    OBVIOUS
  <2>2. FlushUpTo(g, known, q, e, 0)
    BY <2>1 DEF FlushUpTo, FlushAt
  <2> QED
    BY <1>3, <1>4, <2>2
<1>5. CASE x # 0
  <2>1. x - 1 \in Nat /\ x - 1 \notin T
    BY <1>2, <1>3, <1>5
  <2>2. PICK g : FlushUpTo(g, known, q, e, x - 1)
    BY <1>1, <2>1
  <2>3. PICK a : a = ApplyEvent(g[x - 1], q[x], e)
    OBVIOUS
  <2>4. PICK h : h = [i \in 0 .. x |-> IF i < x THEN g[i] ELSE a]
    OBVIOUS
  <2>5. /\ h[x] = a /\ h[x - 1] = g[x - 1]
        /\ \A i \in 0 .. x - 1 : h[i] = g[i]
    BY <1>3, <2>1, <2>4
  <2>6. h[x] = FlushAt(h, known, q, e, x)
    BY <1>5, <2>3, <2>5 DEF FlushAt
  <2>7. ASSUME NEW i \in 0 .. x - 1 PROVE h[i] = FlushAt(h, known, q, e, i)
    <3>1. g[i] = FlushAt(g, known, q, e, i)
      BY <2>2, <2>7 DEF FlushUpTo
    <3>2. FlushAt(h, known, q, e, i) = FlushAt(g, known, q, e, i)
      <4>1. CASE i = 0
        BY <4>1 DEF FlushAt
      <4>2. CASE i # 0
        <5>1. i - 1 \in 0 .. x - 1
          BY <1>3, <4>2
        <5>2. h[i - 1] = g[i - 1]
          BY <2>5, <5>1
        <5> QED
          BY <5>2 DEF FlushAt
      <4> QED
        BY <4>1, <4>2
    <3> QED
      BY <2>5, <3>1, <3>2
  <2>8. \A i \in 0 .. x : i = x \/ i \in 0 .. x - 1
    BY <1>3
  <2>9. FlushUpTo(h, known, q, e, x)
    BY <2>6, <2>7, <2>8 DEF FlushUpTo
  <2> QED
    BY <1>3, <2>9
<1> QED
  BY <1>4, <1>5

LEMMA FlushUnfold ==
    ASSUME NEW known, NEW q, Len(q) \in Nat, NEW e
    PROVE  \E g : FlushUpTo(g, known, q, e, Len(q)) /\ Flushed(known, q, e) = g[Len(q)]
<1>1. PICK n \in Nat : n = Len(q)
  OBVIOUS
<1>2. PICK g : FlushUpTo(g, known, q, e, n)
  BY FlushExists
<1>3. PICK d : d = [i \in 0 .. n |-> g[i]]
  OBVIOUS
<1>4. ASSUME NEW i \in 0 .. n PROVE d[i] = FlushAt(d, known, q, e, i)
  <2>1. g[i] = FlushAt(g, known, q, e, i)
    BY <1>2 DEF FlushUpTo
  <2>2. CASE i = 0
    BY <1>3, <2>1, <2>2 DEF FlushAt
  <2>3. CASE i # 0
    <3>1. i - 1 \in 0 .. n
      BY <2>3
    <3>2. d[i - 1] = g[i - 1] /\ d[i] = g[i]
      BY <1>3, <3>1
    <3> QED
      BY <2>1, <2>3, <3>2 DEF FlushAt
  <2> QED
    BY <2>2, <2>3
<1>5. d = [i \in 0 .. n |-> FlushAt(d, known, q, e, i)]
  BY <1>3, <1>4
<1>6. PICK c : c = CHOOSE f : f = [i \in 0 .. n |-> FlushAt(f, known, q, e, i)]
  OBVIOUS
<1>7. c = [i \in 0 .. n |-> FlushAt(c, known, q, e, i)]
  BY <1>5, <1>6
<1>8. FlushUpTo(c, known, q, e, n)
  BY <1>7 DEF FlushUpTo
<1>9. Flushed(known, q, e) = c[n]
  BY <1>1, <1>6 DEF Flushed, FlushAt
<1> QED
  BY <1>1, <1>8, <1>9

\* A flush keeps the types, and leaves every node either unheard of or as the
\* last event about it says, or as it was when there is none.
PageState == [map : [Node -> 0 .. Fragment], unheard : SUBSET Node]

LEMMA ApplyKeepsType ==
    ASSUME NEW known \in PageState, NEW m \in Data \union Deleted, NEW e
    PROVE  ApplyEvent(known, m, e) \in PageState
<1>1. m.node \in Node /\ m.ver \in 0 .. Fragment
  BY SyncAssumption DEF Data, Deleted, Fragment
<1> QED
  BY <1>1 DEF ApplyEvent, PageState

LEMMA FlushedIs ==
    ASSUME NEW known \in PageState, NEW q \in Seq(Data \union Deleted), NEW e
    PROVE  /\ Flushed(known, q, e) \in PageState
           /\ \A n \in Node :
                 \/ n \in Flushed(known, q, e).unheard
                 \/ Silent(q, n) /\ Flushed(known, q, e).map[n] = known.map[n]
                 \/ LastSays(q, n, Flushed(known, q, e).map[n])
<1>1. PICK l \in Nat : l = Len(q) /\ DOMAIN q = 1 .. l
  OBVIOUS
<1>2. PICK g : FlushUpTo(g, known, q, e, l) /\ Flushed(known, q, e) = g[l]
  BY <1>1, FlushUnfold
<1> DEFINE Fits(i) ==
      /\ g[i] \in PageState
      /\ \A n \in Node :
            \/ n \in g[i].unheard
            \/ /\ g[i].map[n] = known.map[n]
               /\ \A j \in 1 .. i : q[j].node # n
            \/ \E j \in 1 .. i :
                  /\ q[j].node = n /\ q[j].ver = g[i].map[n]
                  /\ \A k \in 1 .. i : q[k].node = n => k <= j
<1>3. Fits(0)
  <2>1. g[0] = known
    BY <1>1, <1>2 DEF FlushUpTo, FlushAt
  <2> QED
    BY <2>1
<1>4. ASSUME NEW i \in 0 .. l, i # 0, Fits(i - 1) PROVE Fits(i)
  <2>1. g[i] = ApplyEvent(g[i - 1], q[i], e)
    BY <1>2, <1>4 DEF FlushUpTo, FlushAt
  <2>2. q[i] \in Data \union Deleted
    BY <1>1, <1>4
  <2>3. g[i] \in PageState
    BY <1>4, <2>1, <2>2, ApplyKeepsType
  <2>4. PICK before : before = g[i - 1]
    OBVIOUS
  <2>5. before \in PageState
    BY <1>4, <2>4
  <2>6. ASSUME NEW n \in Node, q[i].node = n
        PROVE  n \in g[i].unheard \/ q[i].ver = g[i].map[n]
    BY <2>1, <2>2, <2>4, <2>5, <2>6 DEF ApplyEvent, PageState
  <2>7. ASSUME NEW n \in Node, q[i].node # n
        PROVE  g[i].map[n] = before.map[n] /\ (n \in g[i].unheard <=> n \in before.unheard)
    BY <2>1, <2>2, <2>4, <2>5, <2>7 DEF ApplyEvent, PageState
  <2>8. ASSUME NEW n \in Node, n \notin g[i].unheard, q[i].node # n
        PROVE  \/ /\ g[i].map[n] = known.map[n]
                  /\ \A j \in 1 .. i : q[j].node # n
               \/ \E j \in 1 .. i :
                     /\ q[j].node = n /\ q[j].ver = g[i].map[n]
                     /\ \A k \in 1 .. i : q[k].node = n => k <= j
    <3>1. \A j \in 1 .. i : j = i \/ j \in 1 .. i - 1
      BY <1>4
    <3>2. 1 .. i - 1 \subseteq 1 .. i
      BY <1>4
    <3>3. \/ /\ before.map[n] = known.map[n]
             /\ \A j \in 1 .. i - 1 : q[j].node # n
          \/ \E j \in 1 .. i - 1 :
                /\ q[j].node = n /\ q[j].ver = before.map[n]
                /\ \A k \in 1 .. i - 1 : q[k].node = n => k <= j
      BY <1>4, <2>4, <2>7, <2>8
    <3> QED
      BY <2>7, <2>8, <3>1, <3>2, <3>3
  <2>9. ASSUME NEW n \in Node, n \notin g[i].unheard, q[i].node = n
        PROVE  \E j \in 1 .. i :
                     /\ q[j].node = n /\ q[j].ver = g[i].map[n]
                     /\ \A k \in 1 .. i : q[k].node = n => k <= j
    <3>1. i \in 1 .. i /\ \A k \in 1 .. i : k <= i
      BY <1>4
    <3> QED
      BY <2>6, <2>9, <3>1
  <2> QED
    BY <2>3, <2>8, <2>9
<1> HIDE DEF Fits
<1>5. Fits(l)
  <2> SUFFICES ASSUME ~Fits(l) PROVE FALSE
    OBVIOUS
  <2>1. PICK T : T = {i \in Nat : i <= l /\ ~Fits(i)}
    OBVIOUS
  <2>2. PICK x \in T : \A y \in T : x <= y
    <3>1. T \in SUBSET Nat /\ T # {}
      BY <2>1
    <3> QED
      BY <3>1, LeastNumber
  <2>3. x \in Nat /\ x <= l /\ ~Fits(x)
    BY <2>1
  <2>4. x # 0
    BY <1>3, <2>3
  <2>5. x - 1 \in Nat /\ x - 1 \notin T /\ x \in 0 .. l
    BY <2>2, <2>3, <2>4
  <2>6. Fits(x - 1)
    BY <2>1, <2>3, <2>5
  <2> QED
    BY <1>4, <2>3, <2>4, <2>5, <2>6
<1>6. \A j \in 1 .. l : IsNodeEvent(q[j])
  <2>1. \A m \in Data \union Deleted : m.kind # "tool.invoked"
    BY DEF Data, Deleted, DataKind
  <2>2. \A j \in 1 .. l : q[j] \in Data \union Deleted
    BY <1>1
  <2> QED
    BY <2>1, <2>2 DEF IsNodeEvent
<1>7. \A n \in Node :
         \/ n \in g[l].unheard
         \/ Silent(q, n) /\ g[l].map[n] = known.map[n]
         \/ LastSays(q, n, g[l].map[n])
  BY <1>1, <1>5, <1>6 DEF Fits, Silent, LastSays, About
<1> QED
  BY <1>2, <1>5, <1>7 DEF Fits

-----------------------------------------------------------------------------
(***************************************************************************)
(* The outbox: what a step of the whole may do to it, and its types.       *)
(***************************************************************************)

\* Every work in progress is about a node, and has the event it will make.
ToolIsWhole(t) ==
    /\ t.step # "idle" => t.node \in Node
    /\ t.step \in {"upsert", "reread"} => t.kind \in DataKind
    /\ t.step = "event" => \/ t.kind = "node.deleted" /\ t.ver = 0
                           \/ t.kind \in DataKind /\ t.ver # 0

HttpIsWhole(h) ==
    /\ h.step # "idle" => h.node \in Node /\ h.kind \in DataKind
    /\ h.step = "publish" => h.ver # 0

WorkIsWhole == (\A w \in Writer : ToolIsWhole(tool[w])) /\ HttpIsWhole(http)

ToolMessage(w) == [kind |-> tool[w].kind, node |-> tool[w].node, ver |-> tool[w].ver]
ReceiptMessage(w) == [kind |-> "tool.invoked", node |-> tool[w].node, ver |-> 0]
HttpMessage == [kind |-> http.kind, node |-> http.node, ver |-> http.ver]

LEMMA MessagesAreTyped ==
    ASSUME TypeOK, WorkIsWhole
    PROVE  /\ \A w \in Writer : tool[w].step = "event" => ToolMessage(w) \in Data \union Deleted
           /\ \A w \in Writer : tool[w].step = "receipt" => ReceiptMessage(w) \in Message
           /\ http.step = "publish" => HttpMessage \in Data
<1> USE SyncAssumption DEF Fragment
<1>1. ASSUME NEW w \in Writer, tool[w].step = "event"
      PROVE  ToolMessage(w) \in Data \union Deleted
  <2>1. tool[w].node \in Node /\ tool[w].ver \in 0 .. Fragment
    BY <1>1 DEF TypeOK, WorkIsWhole, ToolIsWhole, Work
  <2>2. CASE tool[w].kind = "node.deleted" /\ tool[w].ver = 0
    BY <2>1, <2>2 DEF ToolMessage, Deleted
  <2>3. CASE tool[w].kind \in DataKind /\ tool[w].ver # 0
    BY <2>1, <2>3 DEF ToolMessage, Data
  <2> QED
    BY <1>1, <2>2, <2>3 DEF WorkIsWhole, ToolIsWhole
<1>2. ASSUME NEW w \in Writer, tool[w].step = "receipt"
      PROVE  ReceiptMessage(w) \in Message
  <2>1. tool[w].node \in Node
    BY <1>2 DEF WorkIsWhole, ToolIsWhole
  <2> QED
    BY <2>1 DEF ReceiptMessage, Message, Receipts
<1>3. ASSUME http.step = "publish" PROVE HttpMessage \in Data
  <2>1. /\ http.node \in Node /\ http.kind \in DataKind
        /\ http.ver \in 0 .. Fragment /\ http.ver # 0
    BY <1>3 DEF TypeOK, WorkIsWhole, HttpIsWhole, Work
  <2> QED
    BY <2>1 DEF HttpMessage, Data
<1> QED
  BY <1>1, <1>2, <1>3

OutboxStep ==
    \/ \E m \in Message : Outbox!Enqueue(m)
    \/ Outbox!Fetch(Srv) \/ Outbox!Publish(Srv) \/ Outbox!Mark(Srv) \/ Outbox!MarkFails(Srv)
    \/ Outbox!Start(Srv) \/ Outbox!Stop(Srv)
    \/ /\ faults' = faults \/ (faults < MaxFaults /\ faults' = faults + 1)
       /\ UNCHANGED <<tableVars, serverVars, emitted>>

LEMMA OutboxSteps == TypeOK /\ WorkIsWhole /\ [Next]_vars => OutboxStep
<1> SUFFICES ASSUME TypeOK, WorkIsWhole, [Next]_vars PROVE OutboxStep
  OBVIOUS
<1>1. ASSUME NEW w \in Writer, EnqueueEvent(w) PROVE OutboxStep
  <2>1. tool[w].step = "event" /\ Outbox!Enqueue(ToolMessage(w))
    BY <1>1 DEF EnqueueEvent, ToolMessage
  <2>2. ToolMessage(w) \in Message
    BY <2>1, MessagesAreTyped DEF Message
  <2> QED
    BY <2>1, <2>2 DEF OutboxStep
<1>2. ASSUME NEW w \in Writer, EnqueueReceipt(w) PROVE OutboxStep
  <2>1. tool[w].step = "receipt" /\ Outbox!Enqueue(ReceiptMessage(w))
    BY <1>2 DEF EnqueueReceipt, ReceiptMessage
  <2>2. ReceiptMessage(w) \in Message
    BY <2>1, MessagesAreTyped
  <2> QED
    BY <2>1, <2>2 DEF OutboxStep
<1>3. ASSUME NEW w \in Writer, UpsertNode(w) \/ Reread(w) \/ Abort(w)
             \/ \E n \in Node : BeginUpdate(w, n) \/ DeleteNode(w, n)
      PROVE  OutboxStep
  BY <1>3 DEF OutboxStep, UpsertNode, Reread, Abort, BeginUpdate, DeleteNode, outboxVars
<1>4. CASE PollerStep
  BY <1>4 DEF OutboxStep, PollerStep, PollerPublishes
<1>5. ASSUME NEW n \in Node, Post(n) \/ BeginPatch(n)
      PROVE  OutboxStep
  BY <1>5 DEF OutboxStep, Post, BeginPatch, outboxVars
<1>6. CASE HttpContinues
  BY <1>6 DEF OutboxStep, HttpContinues, PatchUpsert, PatchReread, HttpPublish, outboxVars
<1>7. CASE StartServer \/ StopServer
  BY <1>7 DEF OutboxStep, StartServer, StopServer
<1>10. CASE SilentCommit
  BY <1>10 DEF OutboxStep, SilentCommit, SaveQuietly, DeleteQuietly, outboxVars
<1>8. ASSUME NEW v \in Viewer, ViewerStep(v)
      PROVE  OutboxStep
  <2>1. CASE Drop(v) \/ FetchFails(v)
    BY <2>1 DEF OutboxStep, Drop, FetchFails
  <2>2. CASE OpenPage(v) \/ Subscribe(v) \/ Snapshot(v) \/ ApplySnapshot(v)
    BY <2>2 DEF OutboxStep, OpenPage, Subscribe, Snapshot, ApplySnapshot, outboxVars
  <2>3. CASE Deliver(v) \/ EndEdit(v) \/ \E n \in Node : StartEdit(v, n)
    BY <2>3 DEF OutboxStep, Deliver, EndEdit, StartEdit, outboxVars
  <2> QED
    BY <1>8, <2>1, <2>2, <2>3 DEF ViewerStep
<1>9. CASE UNCHANGED vars
  BY <1>9 DEF OutboxStep, vars, outboxVars
<1> QED
  BY <1>1, <1>2, <1>3, <1>4, <1>5, <1>6, <1>7, <1>8, <1>9, <1>10
  DEF Next, ToolStep, ToolContinues

LEMMA SeqGrows ==
    ASSUME NEW S, NEW T, S \subseteq T, NEW q \in Seq(S)
    PROVE  q \in Seq(T)
OBVIOUS

LEMMA OutboxTypes == Outbox!TypeOK /\ OutboxStep => (Outbox!TypeOK)'
<1> SUFFICES ASSUME Outbox!TypeOK, OutboxStep PROVE (Outbox!TypeOK)'
  OBVIOUS
<1> USE SyncAssumption
<1>1. ASSUME NEW m \in Message, Outbox!Enqueue(m) PROVE (Outbox!TypeOK)'
  <2>1. Len(log') = Len(log) + 1 /\ log' \in Seq(Message) /\ Len(log) \in Nat
    BY <1>1 DEF Outbox!Enqueue, Outbox!TypeOK
  <2>2. Outbox!Id \subseteq (Outbox!Id)' /\ Len(log) + 1 \in (Outbox!Id)'
    BY <2>1 DEF Outbox!Id
  <2>3. receipts' \in [{Srv} -> Seq((Outbox!Id)')]
    <3>1. receipts[Srv] \in Seq((Outbox!Id)')
      <4>1. receipts[Srv] \in Seq(Outbox!Id)
        BY DEF Outbox!TypeOK
      <4> QED
        BY <4>1, <2>2, SeqGrows
    <3> QED
      BY <3>1, <1>1 DEF Outbox!Enqueue, Outbox!serverVars, Outbox!TypeOK
  <2> QED
    BY <1>1, <2>1, <2>2, <2>3 DEF Outbox!TypeOK, Outbox!Enqueue, Outbox!serverVars
<1>2. CASE Outbox!Start(Srv)
  BY <1>2 DEF Outbox!TypeOK, Outbox!Start, Outbox!Unpublished, Outbox!Id
<1>3. CASE Outbox!Fetch(Srv)
  <2>1. Outbox!FirstOf(Outbox!Unpublished) \subseteq Outbox!Id
    BY DEF Outbox!TypeOK, Outbox!Unpublished, Outbox!FirstOf
  <2> QED
    BY <1>3, <2>1 DEF Outbox!TypeOK, Outbox!Fetch, Outbox!tableVars, Outbox!Id
<1>4. CASE Outbox!Publish(Srv)
  <2>1. PICK i \in batch[Srv] :
          /\ batch' = [batch EXCEPT ![Srv] = @ \ {i}]
          /\ sent' = [sent EXCEPT ![Srv] = @ \union {i}]
          /\ bus' = [bus EXCEPT ![Srv] = @ \union {i}]
          /\ receipts' = [receipts EXCEPT
                 ![Srv] = IF log[i] \in Receipts THEN Outbox!Push(@, i) ELSE @]
          /\ emitted' = emitted \union {i}
    BY <1>4 DEF Outbox!Publish
  <2>2. i \in Outbox!Id /\ (Outbox!Id)' = Outbox!Id
    BY <1>4 DEF Outbox!TypeOK, Outbox!Publish, Outbox!tableVars, Outbox!Id
  <2>3. /\ Outbox!Push(receipts[Srv], i) \in Seq(Outbox!Id)
        /\ Len(Outbox!Push(receipts[Srv], i)) <= ReceiptCap
    <3>1. receipts[Srv] \in Seq(Outbox!Id) /\ Len(receipts[Srv]) <= ReceiptCap
      BY DEF Outbox!TypeOK
    <3>2. ASSUME NEW S, NEW q \in Seq(S), i \in S, Len(q) <= ReceiptCap
          PROVE  Outbox!Push(q, i) \in Seq(S) /\ Len(Outbox!Push(q, i)) <= ReceiptCap
      BY <3>2 DEF Outbox!Push
    <3> QED
      BY <2>2, <3>1, <3>2
  <2>4. /\ receipts' \in [{Srv} -> Seq(Outbox!Id)]
        /\ \A t \in {Srv} : Len(receipts'[t]) <= ReceiptCap
    BY <2>1, <2>3 DEF Outbox!TypeOK
  <2>5. /\ batch' \in [{Srv} -> SUBSET Outbox!Id]
        /\ sent' \in [{Srv} -> SUBSET Outbox!Id]
        /\ bus' \in [{Srv} -> SUBSET Outbox!Id]
    BY <2>1, <2>2 DEF Outbox!TypeOK
  <2>6. emitted' \in SUBSET Outbox!Id
    BY <2>1, <2>2 DEF Outbox!TypeOK
  <2>7. UNCHANGED <<log, rows, flagged, up, slipped, faults>>
    BY <1>4 DEF Outbox!Publish, Outbox!tableVars
  <2> QED
    BY <2>2, <2>4, <2>5, <2>6, <2>7 DEF Outbox!TypeOK
<1>5. CASE Outbox!Mark(Srv)
  BY <1>5 DEF Outbox!TypeOK, Outbox!Mark, Outbox!Id
<1>6. CASE Outbox!MarkFails(Srv)
  BY <1>6 DEF Outbox!TypeOK, Outbox!MarkFails, Outbox!tableVars, Outbox!Id
<1>7. CASE Outbox!Stop(Srv)
  BY <1>7 DEF Outbox!TypeOK, Outbox!Stop, Outbox!tableVars, Outbox!Id
<1>8. CASE /\ faults' = faults \/ (faults < MaxFaults /\ faults' = faults + 1)
           /\ UNCHANGED <<tableVars, serverVars, emitted>>
  <2>1. faults' \in 0 .. MaxFaults
    BY <1>8 DEF Outbox!TypeOK
  <2> QED
    BY <1>8, <2>1 DEF Outbox!TypeOK, tableVars, serverVars, Outbox!Id
<1> QED
  BY <1>1, <1>2, <1>3, <1>4, <1>5, <1>6, <1>7, <1>8 DEF OutboxStep

-----------------------------------------------------------------------------
(***************************************************************************)
(* The work in progress and the nodes table.  A version is left for every  *)
(* upsert that has begun (Budget): that is why the clock keeps its bound.  *)
(***************************************************************************)
ToolWork == Work({"idle", "upsert", "reread", "event", "receipt"})
HttpWork == Work({"idle", "upsert", "reread", "publish"})

Upserting == {w \in Writer : tool[w].step = "upsert"}
HttpCount(step) == Cardinality({s \in {step} : s = "upsert"})
Budget == clock + Cardinality(Upserting) + HttpCount(http.step) <= MaxWrites

LEMMA HttpCounts == \A step : HttpCount(step) = IF step = "upsert" THEN 1 ELSE 0
<1> SUFFICES ASSUME NEW step PROVE HttpCount(step) = IF step = "upsert" THEN 1 ELSE 0
  OBVIOUS
<1>1. CASE step = "upsert"
  <2>1. {s \in {step} : s = "upsert"} = {"upsert"}
    BY <1>1
  <2> QED
    BY <1>1, <2>1, FS_Singleton DEF HttpCount
<1>2. CASE step # "upsert"
  <2>1. {s \in {step} : s = "upsert"} = {}
    BY <1>2
  <2> QED
    BY <1>2, <2>1, FS_EmptySet DEF HttpCount
<1> QED
  BY <1>1, <1>2

\* Counting the tools that are about to upsert after one has moved.
LEMMA UpsertingMoves ==
    ASSUME TypeOK, NEW w \in Writer, NEW t, tool' = [tool EXCEPT ![w] = t]
    PROVE  /\ Cardinality(Upserting) \in Nat /\ Cardinality(Upserting') \in Nat
           /\ t.step = "upsert" => Cardinality(Upserting') <= Cardinality(Upserting) + 1
           /\ t.step # "upsert" => Cardinality(Upserting') <= Cardinality(Upserting)
           /\ t.step # "upsert" /\ tool[w].step = "upsert" =>
                 Cardinality(Upserting') = Cardinality(Upserting) - 1
           /\ tool[w].step = "upsert" => Cardinality(Upserting) >= 1
<1>1. IsFiniteSet(Upserting)
  BY SyncAssumption, FS_Subset DEF Upserting
<1>2. Upserting' = IF t.step = "upsert" THEN Upserting \union {w} ELSE Upserting \ {w}
  BY DEF Upserting, TypeOK
<1>3. w \in Upserting <=> tool[w].step = "upsert"
  BY DEF Upserting
<1>4. PICK U : U = Upserting
  OBVIOUS
<1>5. IsFiniteSet(U) /\ Cardinality(U) \in Nat
  BY <1>1, <1>4, FS_CardinalityType
<1>6. Cardinality(U \union {w}) = IF w \in U THEN Cardinality(U) ELSE Cardinality(U) + 1
  BY <1>5, FS_AddElement
<1>7. Cardinality(U \ {w}) = IF w \in U THEN Cardinality(U) - 1 ELSE Cardinality(U)
  BY <1>5, FS_RemoveElement
<1>8. IsFiniteSet(U \ {w}) /\ Cardinality(U \ {w}) \in Nat
  BY <1>5, FS_RemoveElement, FS_CardinalityType
<1> QED
  BY <1>2, <1>3, <1>4, <1>5, <1>6, <1>7, <1>8

WorkTypes ==
    /\ node \in [Node -> 0 .. MaxWrites]
    /\ clock \in 0 .. MaxWrites
    /\ tool \in [Writer -> ToolWork]
    /\ http \in HttpWork
    /\ astray \in SUBSET Node

\* A tool or the server moves, and commits or not.
LEMMA ToolMoves ==
    ASSUME TypeOK, WorkIsWhole, Budget,
           NEW w \in Writer, NEW t \in ToolWork, ToolIsWhole(t),
           tool' = [tool EXCEPT ![w] = t], http' = http,
           \/ clock' = clock /\ t.step # "upsert"
           \/ clock' = clock /\ MayBegin
           \/ clock' = clock + 1 /\ t.step # "upsert" /\ tool[w].step = "upsert"
    PROVE  /\ clock' \in 0 .. MaxWrites
           /\ tool' \in [Writer -> ToolWork] /\ http' \in HttpWork
           /\ WorkIsWhole' /\ Budget'
<1>1. tool' \in [Writer -> ToolWork] /\ http' \in HttpWork
  BY DEF TypeOK, ToolWork, HttpWork
<1>2. WorkIsWhole'
  BY DEF WorkIsWhole, TypeOK
<1>3. HttpCount(http.step) \in Nat
  BY HttpCounts
<1>4. clock \in Nat /\ clock <= MaxWrites /\ MaxWrites \in Nat
  BY SyncAssumption DEF TypeOK
<1>5. MayBegin => clock + Cardinality(Upserting) + HttpCount(http.step) < MaxWrites
  BY DEF MayBegin, Upserting, HttpCount
<1>6. Budget <=> clock + Cardinality(Upserting) + HttpCount(http.step) <= MaxWrites
  BY DEF Budget
<1>7. Budget' <=> clock' + Cardinality(Upserting') + HttpCount(http.step) <= MaxWrites
  BY DEF Budget
<1>8. /\ Cardinality(Upserting) \in Nat /\ Cardinality(Upserting') \in Nat
      /\ t.step = "upsert" => Cardinality(Upserting') <= Cardinality(Upserting) + 1
      /\ t.step # "upsert" => Cardinality(Upserting') <= Cardinality(Upserting)
      /\ t.step # "upsert" /\ tool[w].step = "upsert" =>
            Cardinality(Upserting') = Cardinality(Upserting) - 1
      /\ tool[w].step = "upsert" => Cardinality(Upserting) >= 1
  BY UpsertingMoves
<1>9. Budget' /\ clock' \in 0 .. MaxWrites
  BY <1>3, <1>4, <1>5, <1>6, <1>7, <1>8
<1> QED
  BY <1>1, <1>2, <1>9

LEMMA HttpMoves ==
    ASSUME TypeOK, WorkIsWhole, Budget,
           NEW h \in HttpWork, HttpIsWhole(h), http' = h, tool' = tool,
           \/ clock' = clock /\ h.step # "upsert"
           \/ clock' = clock /\ MayBegin /\ http.step # "upsert"
           \/ clock' = clock + 1 /\ h.step # "upsert" /\ (MayBegin \/ http.step = "upsert")
    PROVE  /\ clock' \in 0 .. MaxWrites
           /\ tool' \in [Writer -> ToolWork] /\ http' \in HttpWork
           /\ WorkIsWhole' /\ Budget'
<1>1. tool' \in [Writer -> ToolWork] /\ http' \in HttpWork
  BY DEF TypeOK, ToolWork
<1>2. WorkIsWhole'
  BY DEF WorkIsWhole
<1>3. /\ HttpCount(http.step) = IF http.step = "upsert" THEN 1 ELSE 0
      /\ HttpCount(h.step) = IF h.step = "upsert" THEN 1 ELSE 0
  BY HttpCounts
<1>4. clock \in Nat /\ clock <= MaxWrites /\ MaxWrites \in Nat
  BY SyncAssumption DEF TypeOK
<1>5. MayBegin => clock + Cardinality(Upserting) + HttpCount(http.step) < MaxWrites
  BY DEF MayBegin, Upserting, HttpCount
<1>6. Budget <=> clock + Cardinality(Upserting) + HttpCount(http.step) <= MaxWrites
  BY DEF Budget
<1>7. Budget' <=> clock' + Cardinality(Upserting') + HttpCount(h.step) <= MaxWrites
  BY DEF Budget
<1>8. Upserting' = Upserting
  BY DEF Upserting
<1>9. Cardinality(Upserting) \in Nat
  BY SyncAssumption, FS_Subset, FS_CardinalityType DEF Upserting
<1>10. Budget' /\ clock' \in 0 .. MaxWrites
  BY <1>3, <1>4, <1>5, <1>6, <1>7, <1>8, <1>9
<1> QED
  BY <1>1, <1>2, <1>10

\* A commit keeps the types of the nodes table and of the history.
LEMMA UpsertKeepsTypes ==
    ASSUME TypeOK, NEW n \in Node, NEW o, Upsert(n, o), clock' \in 0 .. MaxWrites
    PROVE  /\ node' \in [Node -> 0 .. MaxWrites] /\ astray' \in SUBSET Node
           /\ clock' = clock + 1
BY DEF Upsert, Commit, TypeOK

LEMMA IdleIsWork ==
    /\ IdleTool \in ToolWork /\ ToolIsWhole(IdleTool)
    /\ IdleHttp \in HttpWork /\ HttpIsWhole(IdleHttp)
BY SyncAssumption
DEF IdleTool, IdleHttp, ToolWork, HttpWork, Work, ToolIsWhole, HttpIsWhole, DataKind, Fragment

LEMMA ToolWorkStep ==
    ASSUME TypeOK, WorkIsWhole, Budget, NEW w \in Writer, ToolStep(w)
    PROVE  WorkTypes' /\ WorkIsWhole' /\ Budget'
<1>0. tool[w] \in ToolWork /\ ToolIsWhole(tool[w])
  BY DEF TypeOK, ToolWork, WorkIsWhole
<1>1. ASSUME NEW n \in Node, BeginUpdate(w, n)
      PROVE  WorkTypes' /\ WorkIsWhole' /\ Budget'
  <2>1. PICK t : t = [step |-> "upsert", node |-> n, ver |-> 0,
                      kind |-> IF node[n] = 0 THEN "node.created" ELSE "node.updated"]
    OBVIOUS
  <2>2. t \in ToolWork /\ ToolIsWhole(t)
    BY <2>1, SyncAssumption DEF ToolWork, Work, ToolIsWhole, DataKind, Fragment
  <2>3. tool' = [tool EXCEPT ![w] = t] /\ http' = http /\ clock' = clock /\ MayBegin
    BY <1>1, <2>1 DEF BeginUpdate, storeVars
  <2>4. UNCHANGED <<node, astray>>
    BY <1>1 DEF BeginUpdate, storeVars
  <2> QED
    BY <2>2, <2>3, <2>4, ToolMoves DEF WorkTypes, TypeOK
<1>2. CASE UpsertNode(w)
  <2>1. PICK t : t = [tool[w] EXCEPT !.step = "reread"]
    OBVIOUS
  <2>2. tool[w].step = "upsert" /\ tool[w].node \in Node
    BY <1>0, <1>2 DEF UpsertNode, ToolIsWhole
  <2>3. t \in ToolWork /\ ToolIsWhole(t) /\ t.step = "reread"
    BY <1>0, <2>1, <2>2 DEF ToolWork, Work, ToolIsWhole
  <2>4. tool' = [tool EXCEPT ![w] = t] /\ http' = http
    BY <1>2, <2>1 DEF UpsertNode, TypeOK
  <2>5. PICK n \in Node, o \in BOOLEAN : Upsert(n, o)
    <3>1. PICK o \in BOOLEAN : o = Announcing(tool[w].node)
      BY DEF Announcing
    <3> QED
      BY <1>2, <2>2, <3>1 DEF UpsertNode
  <2>6. clock' = clock + 1
    BY <2>5 DEF Upsert
  <2>7. clock' \in 0 .. MaxWrites /\ tool' \in [Writer -> ToolWork]
        /\ http' \in HttpWork /\ WorkIsWhole' /\ Budget'
    BY <2>2, <2>3, <2>4, <2>6, ToolMoves
  <2> QED
    BY <2>5, <2>7, UpsertKeepsTypes DEF WorkTypes
<1>3. CASE Reread(w)
  <2>1. PICK k : k = node[tool[w].node]
    OBVIOUS
  <2>2. PICK t : t = IF k = 0 THEN IdleTool
                     ELSE [tool[w] EXCEPT !.step = "event", !.ver = k]
    OBVIOUS
  <2>3. /\ tool[w].step = "reread" /\ tool[w].node \in Node
        /\ k \in 0 .. MaxWrites /\ k \in 0 .. Fragment
    BY <1>0, <1>3, <2>1, SyncAssumption DEF Reread, ToolIsWhole, TypeOK, Fragment
  <2>4. t \in ToolWork /\ ToolIsWhole(t) /\ t.step # "upsert"
    <3>1. CASE k = 0
      BY <2>2, <3>1, IdleIsWork DEF IdleTool
    <3>2. CASE k # 0
      BY <1>0, <2>2, <2>3, <3>2 DEF ToolWork, Work, ToolIsWhole
    <3> QED
      BY <3>1, <3>2
  <2>5. tool' = [tool EXCEPT ![w] = t] /\ http' = http /\ clock' = clock
    BY <1>3, <2>1, <2>2 DEF Reread, TypeOK, storeVars
  <2>6. UNCHANGED <<node, astray>>
    BY <1>3 DEF Reread, storeVars
  <2> QED
    BY <2>4, <2>5, <2>6, ToolMoves DEF WorkTypes, TypeOK
<1>4. ASSUME NEW n \in Node, DeleteNode(w, n)
      PROVE  WorkTypes' /\ WorkIsWhole' /\ Budget'
  <2>1. PICK t : t = IF node[n] = 0
              THEN [step |-> "receipt", node |-> n, kind |-> "tool.invoked", ver |-> 0]
              ELSE [step |-> "event", node |-> n, kind |-> "node.deleted", ver |-> 0]
    OBVIOUS
  <2>2. t \in ToolWork /\ ToolIsWhole(t) /\ t.step # "upsert"
    BY <2>1, SyncAssumption DEF ToolWork, Work, ToolIsWhole, DataKind, Fragment
  <2>3. tool' = [tool EXCEPT ![w] = t] /\ http' = http /\ clock' = clock
    BY <1>4, <2>1 DEF DeleteNode, storeVars
  <2>4. node' \in [Node -> 0 .. MaxWrites] /\ astray' \in SUBSET Node
    <3>1. CASE node[n] = 0
      BY <1>4, <3>1 DEF DeleteNode, TypeOK, storeVars
    <3>2. CASE node[n] # 0
      <4>1. PICK o \in BOOLEAN : o = Announcing(n)
        BY DEF Announcing
      <4>2. Commit(n, 0, o)
        BY <1>4, <3>2, <4>1 DEF DeleteNode
      <4> QED
        BY <4>2, SyncAssumption DEF Commit, TypeOK
    <3> QED
      BY <3>1, <3>2
  <2> QED
    BY <2>2, <2>3, <2>4, ToolMoves DEF WorkTypes
<1>5. CASE EnqueueEvent(w)
  <2>1. PICK t : t = [tool[w] EXCEPT !.step = "receipt"]
    OBVIOUS
  <2>2. tool[w].node \in Node
    BY <1>0, <1>5 DEF EnqueueEvent, ToolIsWhole
  <2>3. t \in ToolWork /\ ToolIsWhole(t) /\ t.step # "upsert"
    BY <1>0, <2>1, <2>2 DEF ToolWork, Work, ToolIsWhole
  <2>4. tool' = [tool EXCEPT ![w] = t] /\ http' = http /\ clock' = clock
    BY <1>5, <2>1 DEF EnqueueEvent, TypeOK, storeVars
  <2>5. UNCHANGED <<node, astray>>
    BY <1>5 DEF EnqueueEvent, storeVars
  <2> QED
    BY <2>3, <2>4, <2>5, ToolMoves DEF WorkTypes, TypeOK
<1>6. CASE EnqueueReceipt(w)
  <2>1. tool' = [tool EXCEPT ![w] = IdleTool] /\ http' = http /\ clock' = clock
    BY <1>6 DEF EnqueueReceipt, storeVars
  <2>2. UNCHANGED <<node, astray>>
    BY <1>6 DEF EnqueueReceipt, storeVars
  <2>3. IdleTool.step # "upsert"
    BY DEF IdleTool
  <2> QED
    BY <2>1, <2>2, <2>3, IdleIsWork, ToolMoves DEF WorkTypes, TypeOK
<1>7. CASE Abort(w)
  <2>1. tool' = [tool EXCEPT ![w] = IdleTool] /\ http' = http /\ clock' = clock /\ node' = node
    BY <1>7 DEF Abort
  <2>2. tool[w].node \in Node
    BY <1>0, <1>7 DEF Abort, ToolIsWhole
  <2>3. astray' \in SUBSET Node
    BY <1>7, <2>2 DEF Abort, TypeOK
  <2>4. IdleTool.step # "upsert"
    BY DEF IdleTool
  <2> QED
    BY <2>1, <2>3, <2>4, IdleIsWork, ToolMoves DEF WorkTypes, TypeOK
<1> QED
  BY <1>1, <1>2, <1>3, <1>4, <1>5, <1>6, <1>7 DEF ToolStep, ToolContinues

LEMMA HttpWorkStep ==
    ASSUME TypeOK, WorkIsWhole, Budget,
           (\E n \in Node : Post(n) \/ BeginPatch(n)) \/ HttpContinues \/ StopServer
    PROVE  WorkTypes' /\ WorkIsWhole' /\ Budget'
<1>0. http \in HttpWork /\ HttpIsWhole(http)
  BY DEF TypeOK, HttpWork, WorkIsWhole
<1>1. ASSUME NEW n \in Node, Post(n)
      PROVE  WorkTypes' /\ WorkIsWhole' /\ Budget'
  <2>0. PICK whole \in BOOLEAN :
          /\ Upsert(n, Announcing(n) \/ Queued(n) \/ ~whole)
          /\ http' = [step |-> "publish", node |-> n, kind |-> "node.created",
                      ver |-> IF whole THEN clock + 1 ELSE Fragment]
    BY <1>1 DEF Post
  <2>1. PICK h : h = [step |-> "publish", node |-> n, kind |-> "node.created",
                      ver |-> IF whole THEN clock + 1 ELSE Fragment]
    OBVIOUS
  <2>2. MayBegin /\ http' = h /\ tool' = tool
    BY <1>1, <2>0, <2>1 DEF Post
  <2>3. PICK o \in BOOLEAN : Upsert(n, o)
    <3>1. PICK o \in BOOLEAN : o = (Announcing(n) \/ Queued(n) \/ ~whole)
      OBVIOUS
    <3> QED
      BY <2>0, <3>1
  <2>4. clock' = clock + 1
    BY <2>3 DEF Upsert
  <2>5. clock + 1 \in 1 .. MaxWrites
    <3>1. Cardinality(Upserting) \in Nat /\ HttpCount(http.step) \in Nat
      BY SyncAssumption, FS_Subset, FS_CardinalityType, HttpCounts DEF Upserting
    <3>2. clock + Cardinality(Upserting) + HttpCount(http.step) < MaxWrites
      BY <2>2 DEF MayBegin, Upserting, HttpCount
    <3> QED
      BY <3>1, <3>2, SyncAssumption DEF TypeOK
  <2>6. h \in HttpWork /\ HttpIsWhole(h) /\ h.step # "upsert"
    BY <2>1, <2>5, SyncAssumption DEF HttpWork, Work, HttpIsWhole, DataKind, Fragment
  <2>7. clock' \in 0 .. MaxWrites /\ tool' \in [Writer -> ToolWork]
        /\ http' \in HttpWork /\ WorkIsWhole' /\ Budget'
    BY <2>2, <2>4, <2>6, HttpMoves
  <2> QED
    BY <2>3, <2>7, UpsertKeepsTypes DEF WorkTypes
<1>2. ASSUME NEW n \in Node, BeginPatch(n)
      PROVE  WorkTypes' /\ WorkIsWhole' /\ Budget'
  <2>1. PICK h : h = [step |-> "upsert", node |-> n, kind |-> "node.updated", ver |-> 0]
    OBVIOUS
  <2>2. MayBegin /\ http.step # "upsert" /\ http' = h /\ tool' = tool /\ clock' = clock
    BY <1>2, <2>1 DEF BeginPatch, LoopFree, storeVars
  <2>3. h \in HttpWork /\ HttpIsWhole(h)
    BY <2>1, SyncAssumption DEF HttpWork, Work, HttpIsWhole, DataKind, Fragment
  <2>4. UNCHANGED <<node, astray>>
    BY <1>2 DEF BeginPatch, storeVars
  <2> QED
    BY <2>2, <2>3, <2>4, HttpMoves DEF WorkTypes, TypeOK
<1>3. CASE PatchUpsert
  <2>1. PICK h : h = [http EXCEPT !.step = "reread"]
    OBVIOUS
  <2>2. http.step = "upsert" /\ http.node \in Node /\ http' = h /\ tool' = tool
    BY <1>0, <1>3, <2>1 DEF PatchUpsert, HttpIsWhole
  <2>3. h \in HttpWork /\ HttpIsWhole(h) /\ h.step # "upsert"
    BY <1>0, <2>1, <2>2 DEF HttpWork, Work, HttpIsWhole
  <2>4. PICK n \in Node, o \in BOOLEAN : Upsert(n, o)
    <3>1. PICK o \in BOOLEAN : o = (Announcing(http.node) \/ Queued(http.node))
      OBVIOUS
    <3> QED
      BY <1>3, <2>2, <3>1 DEF PatchUpsert
  <2>5. clock' = clock + 1
    BY <2>4 DEF Upsert
  <2>6. clock' \in 0 .. MaxWrites /\ tool' \in [Writer -> ToolWork]
        /\ http' \in HttpWork /\ WorkIsWhole' /\ Budget'
    BY <2>2, <2>3, <2>5, HttpMoves
  <2> QED
    BY <2>4, <2>6, UpsertKeepsTypes DEF WorkTypes
<1>4. CASE PatchReread
  <2>1. PICK k : k = node[http.node]
    OBVIOUS
  <2>2. PICK h : h = IF k = 0 THEN IdleHttp
                     ELSE [http EXCEPT !.step = "publish", !.ver = k]
    OBVIOUS
  <2>3. /\ http.step = "reread" /\ http.node \in Node
        /\ k \in 0 .. MaxWrites /\ k \in 0 .. Fragment
    BY <1>0, <1>4, <2>1, SyncAssumption DEF PatchReread, HttpIsWhole, TypeOK, Fragment
  <2>4. h \in HttpWork /\ HttpIsWhole(h) /\ h.step # "upsert"
    <3>1. CASE k = 0
      BY <2>2, <3>1, IdleIsWork DEF IdleHttp
    <3>2. CASE k # 0
      BY <1>0, <2>2, <2>3, <3>2 DEF HttpWork, Work, HttpIsWhole
    <3> QED
      BY <3>1, <3>2
  <2>5. http' = h /\ tool' = tool /\ clock' = clock
    BY <1>4, <2>1, <2>2 DEF PatchReread, storeVars
  <2>6. UNCHANGED <<node, astray>>
    BY <1>4 DEF PatchReread, storeVars
  <2> QED
    BY <2>4, <2>5, <2>6, HttpMoves DEF WorkTypes, TypeOK
<1>5. CASE HttpPublish
  <2>1. http' = IdleHttp /\ tool' = tool /\ clock' = clock /\ IdleHttp.step # "upsert"
    BY <1>5 DEF HttpPublish, storeVars, IdleHttp
  <2>2. UNCHANGED <<node, astray>>
    BY <1>5 DEF HttpPublish, storeVars
  <2> QED
    BY <2>1, <2>2, IdleIsWork, HttpMoves DEF WorkTypes, TypeOK
<1>6. CASE StopServer
  <2>1. http' = IdleHttp /\ tool' = tool /\ clock' = clock /\ IdleHttp.step # "upsert"
        /\ node' = node
    BY <1>6 DEF StopServer, IdleHttp
  <2>2. astray' \in SUBSET Node
    BY <1>0, <1>6 DEF StopServer, TypeOK, HttpIsWhole
  <2> QED
    BY <2>1, <2>2, IdleIsWork, HttpMoves DEF WorkTypes, TypeOK
<1> QED
  BY <1>1, <1>2, <1>3, <1>4, <1>5, <1>6 DEF HttpContinues

\* A commit without an event: a node that is not astray after it was not before,
\* and is as it was.
LEMMA SilentFrame ==
    ASSUME TypeOK, SilentCommit
    PROVE  /\ \A n \in Node : n \notin astray' => n \notin astray /\ node'[n] = node[n]
           /\ UNCHANGED <<outboxVars, tool, http, viewerVars>>
<1>1. CASE DeleteQuietly
  BY <1>1 DEF DeleteQuietly, NoNodes, TypeOK
<1>2. ASSUME NEW saved \in SUBSET Node, SaveQuietly(saved)
      PROVE  /\ \A n \in Node : n \notin astray' => n \notin astray /\ node'[n] = node[n]
             /\ UNCHANGED <<outboxVars, tool, http, viewerVars>>
  BY <1>2 DEF SaveQuietly, TypeOK
<1> QED
  BY <1>1, <1>2 DEF SilentCommit

LEMMA SilentWorkStep ==
    ASSUME TypeOK, WorkIsWhole, Budget, SilentCommit
    PROVE  WorkTypes' /\ WorkIsWhole' /\ Budget'
<1>0. /\ clock \in 0 .. MaxWrites /\ MaxWrites \in Nat /\ astray \in SUBSET Node
      /\ node \in [Node -> 0 .. MaxWrites]
      /\ Cardinality(Upserting) \in Nat /\ HttpCount(http.step) \in Nat
  BY SyncAssumption, FS_Subset, FS_CardinalityType, HttpCounts DEF TypeOK, Upserting
<1>1. tool' = tool /\ http' = http
  BY SilentFrame
<1>2. WorkIsWhole' /\ tool' \in [Writer -> ToolWork] /\ http' \in HttpWork
  BY <1>1 DEF WorkIsWhole, TypeOK, ToolWork, HttpWork
<1>3. Budget' <=> clock' + Cardinality(Upserting) + HttpCount(http.step) <= MaxWrites
  BY <1>1 DEF Budget, Upserting
<1>4. CASE DeleteQuietly
  <2>1. clock' = clock /\ node' = NoNodes
        /\ astray' = astray \union {n \in Node : node[n] # 0}
    BY <1>4 DEF DeleteQuietly
  <2>2. node' \in [Node -> 0 .. MaxWrites] /\ astray' \in SUBSET Node
    BY <1>0, <2>1 DEF NoNodes
  <2>3. Budget'
    BY <1>3, <2>1 DEF Budget
  <2> QED
    BY <1>0, <1>2, <2>1, <2>2, <2>3 DEF WorkTypes
<1>5. ASSUME NEW saved \in SUBSET Node, SaveQuietly(saved)
      PROVE  WorkTypes' /\ WorkIsWhole' /\ Budget'
  <2>1. /\ clock' = clock + 1 /\ astray' = astray \union saved
        /\ node' = [n \in Node |-> IF n \in saved THEN clock + 1 ELSE node[n]]
        /\ clock + Cardinality(Upserting) + HttpCount(http.step) < MaxWrites
    BY <1>5 DEF SaveQuietly, MayBegin, Upserting, HttpCount
  <2>2. clock' \in 0 .. MaxWrites /\ clock + 1 \in 0 .. MaxWrites /\ Budget'
    BY <1>0, <1>3, <2>1
  <2>3. node' \in [Node -> 0 .. MaxWrites] /\ astray' \in SUBSET Node
    BY <1>0, <2>1, <2>2
  <2> QED
    BY <1>2, <2>2, <2>3 DEF WorkTypes
<1> QED
  BY <1>4, <1>5 DEF SilentCommit

\* The steps that neither commit nor move a tool call or a request.
LEMMA OtherSteps ==
    ASSUME PollerStep \/ StartServer \/ (\E v \in Viewer : ViewerStep(v)) \/ UNCHANGED vars
    PROVE  UNCHANGED <<storeVars, tool, http>>
<1>1. CASE PollerStep
  BY <1>1 DEF PollerStep, PollerPublishes
<1>2. CASE StartServer
  BY <1>2 DEF StartServer
<1>3. ASSUME NEW v \in Viewer, ViewerStep(v)
      PROVE  UNCHANGED <<storeVars, tool, http>>
  BY <1>3 DEF ViewerStep, OpenPage, Subscribe, Drop, Snapshot, FetchFails, ApplySnapshot,
              Deliver, EndEdit, StartEdit
<1>4. CASE UNCHANGED vars
  BY <1>4 DEF vars
<1> QED
  BY <1>1, <1>2, <1>3, <1>4

LEMMA WorkTypesStep ==
    ASSUME TypeOK, WorkIsWhole, Budget, [Next]_vars
    PROVE  WorkTypes' /\ WorkIsWhole' /\ Budget'
<1>1. CASE UNCHANGED <<storeVars, tool, http>>
  <2>1. UNCHANGED <<node, clock, astray, tool, http>>
    BY <1>1 DEF storeVars
  <2>2. WorkTypes'
    BY <2>1 DEF WorkTypes, TypeOK, ToolWork, HttpWork
  <2>3. WorkIsWhole' /\ Budget'
    BY <2>1 DEF WorkIsWhole, Budget, Upserting
  <2> QED
    BY <2>2, <2>3
<1> QED
  BY <1>1, ToolWorkStep, HttpWorkStep, SilentWorkStep, OtherSteps DEF Next

-----------------------------------------------------------------------------
(***************************************************************************)
(* The viewers.                                                            *)
(***************************************************************************)
PageTypes ==
    /\ page \in [Viewer -> {"closed", "loading", "read", "ready", "broken"}]
    /\ conn \in [Viewer -> BOOLEAN]
    /\ channel \in [Viewer -> Seq(Message)]
    /\ buffer \in [Viewer -> Seq(Data \union Deleted)]
    /\ snap \in [Viewer -> [Node -> 0 .. MaxWrites]]
    /\ view \in [Viewer -> [Node -> 0 .. Fragment]]
    /\ editing \in [Viewer -> Node \union {NoNode}]
    /\ missed \in [Viewer -> SUBSET Node]

LEMMA TypeOKParts == TypeOK <=> Outbox!TypeOK /\ WorkTypes /\ PageTypes
BY DEF TypeOK, WorkTypes, PageTypes, ToolWork, HttpWork

\* The steps of which no viewer sees anything.
LEMMA UnseenSteps ==
    ASSUME \/ \E w \in Writer : ToolStep(w)
           \/ \E n \in Node : Post(n) \/ BeginPatch(n)
           \/ PatchUpsert \/ PatchReread \/ SilentCommit \/ StartServer
           \/ PollerStep /\ ~PollerPublishes
           \/ UNCHANGED vars
    PROVE  UNCHANGED viewerVars
<1>1. ASSUME NEW w \in Writer, ToolStep(w) PROVE UNCHANGED viewerVars
  BY <1>1 DEF ToolStep, ToolContinues, BeginUpdate, UpsertNode, Reread, DeleteNode,
              EnqueueEvent, EnqueueReceipt, Abort
<1>2. ASSUME NEW n \in Node, Post(n) \/ BeginPatch(n) PROVE UNCHANGED viewerVars
  BY <1>2 DEF Post, BeginPatch
<1>3. CASE PatchUpsert \/ PatchReread \/ SilentCommit \/ StartServer
  BY <1>3 DEF PatchUpsert, PatchReread, SilentCommit, SaveQuietly, DeleteQuietly, StartServer
<1>4. CASE PollerStep /\ ~PollerPublishes
  BY <1>4 DEF PollerStep
<1>5. CASE UNCHANGED vars
  BY <1>5 DEF vars
<1> QED
  BY <1>1, <1>2, <1>3, <1>4, <1>5

LEMMA MessageShape ==
    \A m \in Message :
        /\ m.node \in Node /\ m.ver \in 0 .. Fragment
        /\ IsNodeEvent(m) => m \in Data \union Deleted
BY SyncAssumption DEF Fragment, Message, Data, Deleted, Receipts, IsNodeEvent

LEMMA BroadcastKeepsTypes ==
    ASSUME PageTypes, NEW m \in Message, Broadcast(m), UNCHANGED <<pageVars, conn>>
    PROVE  PageTypes'
<1>1. channel' \in [Viewer -> Seq(Message)]
  BY DEF Broadcast, PageTypes
<1>2. m.node \in Node
  BY MessageShape
<1>3. missed' \in [Viewer -> SUBSET Node]
  BY <1>2 DEF Broadcast, PageTypes
<1> QED
  BY <1>1, <1>3 DEF PageTypes, pageVars

\* The poller broadcasts the first row of its batch.
LEMMA PollerBroadcasts ==
    ASSUME TypeOK, PollerPublishes
    PROVE  \E i \in batch[Srv], m \in Message :
              /\ \A j \in batch[Srv] : i <= j
              /\ i \in 1 .. Len(log) /\ m = log[i] /\ Broadcast(m)
              /\ batch' = [batch EXCEPT ![Srv] = @ \ {i}]
              /\ sent' = [sent EXCEPT ![Srv] = @ \union {i}]
              /\ UNCHANGED <<log, rows, flagged, up>>
<1>0. batch[Srv] \subseteq 1 .. Len(log) /\ log \in Seq(Message)
  BY DEF TypeOK, Outbox!TypeOK, Outbox!Id
<1>1. PICK i \in batch[Srv], m \in Message :
          (\A j \in batch[Srv] : i <= j) /\ m = log[i] /\ Broadcast(m)
  <2>1. PICK i \in batch[Srv] : (\A j \in batch[Srv] : i <= j) /\ Broadcast(log[i])
    BY Zenon DEF PollerPublishes
  <2>2. PICK m \in Message : m = log[i]
    BY <1>0
  <2>3. Broadcast(m)
    BY <2>1, <2>2, Zenon DEF Broadcast
  <2> QED
    BY <2>1, <2>2, <2>3
<1>2. Outbox!Publish(Srv)
  BY DEF PollerPublishes
<1>3. PICK k \in batch[Srv] :
          /\ \A j \in batch[Srv] : k <= j
          /\ batch' = [batch EXCEPT ![Srv] = @ \ {k}]
          /\ sent' = [sent EXCEPT ![Srv] = @ \union {k}]
  BY <1>2 DEF Outbox!Publish
<1>5. k = i
  BY <1>0, <1>1, <1>3
<1>6. UNCHANGED <<log, rows, flagged, up>>
  BY <1>2 DEF Outbox!Publish, Outbox!tableVars
<1> QED
  BY <1>0, <1>1, <1>3, <1>5, <1>6

LEMMA PageTypesStep ==
    ASSUME TypeOK, WorkIsWhole, [Next]_vars
    PROVE  PageTypes'
<1>0. PageTypes
  BY TypeOKParts
<1>1. CASE UNCHANGED viewerVars
  BY <1>0, <1>1 DEF PageTypes, viewerVars, pageVars
<1>2. CASE PollerPublishes
  <2>1. PICK m \in Message : Broadcast(m)
    BY <1>2, PollerBroadcasts
  <2> QED
    BY <1>0, <1>2, <2>1, BroadcastKeepsTypes DEF PollerPublishes
<1>3. CASE HttpPublish
  <2>1. HttpMessage \in Message /\ Broadcast(HttpMessage)
    BY <1>3, MessagesAreTyped DEF HttpPublish, HttpMessage, Message
  <2> QED
    BY <1>0, <1>3, <2>1, BroadcastKeepsTypes DEF HttpPublish
<1>4. CASE StopServer
  BY <1>0, <1>4 DEF StopServer, PageTypes, pageVars, Lost
<1>5. ASSUME NEW v \in Viewer, ViewerStep(v) PROVE PageTypes'
  <2>0. node \in [Node -> 0 .. MaxWrites] /\ 0 .. MaxWrites \subseteq 0 .. Fragment
        /\ [Node -> 0 .. MaxWrites] \subseteq [Node -> 0 .. Fragment]
    BY SyncAssumption DEF TypeOK, Fragment
  <2>1. CASE OpenPage(v) \/ Snapshot(v)
    <3>1. CASE OpenPage(v)
      BY <1>0, <2>0, <3>1 DEF OpenPage, PageTypes
    <3>2. CASE Snapshot(v)
      BY <1>0, <2>0, <3>2 DEF Snapshot, PageTypes
    <3> QED
      BY <2>1, <3>1, <3>2
  <2>2. CASE Subscribe(v) \/ Drop(v)
    <3>1. CASE Subscribe(v)
      BY <1>0, <3>1 DEF Subscribe, PageTypes, pageVars
    <3>2. CASE Drop(v)
      <4>1. PICK L \in SUBSET Node : L = Lost(v)
        BY DEF Lost
      <4>2. /\ conn' = [conn EXCEPT ![v] = FALSE]
            /\ channel' = [channel EXCEPT ![v] = <<>>]
            /\ missed' = [missed EXCEPT ![v] = @ \union L]
            /\ UNCHANGED pageVars
        BY <3>2, <4>1 DEF Drop
      <4> QED
        BY <1>0, <4>2 DEF PageTypes, pageVars
    <3> QED
      BY <2>2, <3>1, <3>2
  <2>3. CASE FetchFails(v)
    <3>1. NoNodes \in [Node -> 0 .. MaxWrites]
      BY SyncAssumption DEF NoNodes
    <3> QED
      BY <1>0, <2>3, <3>1 DEF FetchFails, PageTypes
  <2>4. CASE ApplySnapshot(v)
    <3>1. NoNodes \in [Node -> 0 .. MaxWrites]
      BY SyncAssumption DEF NoNodes
    <3>2. PICK q \in Seq(Data \union Deleted) : q = buffer[v]
      BY <1>0 DEF PageTypes
    <3>3. PICK k \in PageState : k = [map |-> snap[v], unheard |-> {}]
      BY <1>0, <2>0 DEF PageTypes, PageState
    <3>4. PICK e : e = editing[v]
      OBVIOUS
    <3>5. PICK f : f = Flushed(k, q, e)
      OBVIOUS
    <3>6. f \in PageState
      BY <3>5, FlushedIs
    <3>7. /\ page' = [page EXCEPT ![v] = "ready"]
          /\ view' = [view EXCEPT ![v] = f.map]
          /\ missed' = [missed EXCEPT ![v] = @ \union f.unheard]
          /\ buffer' = [buffer EXCEPT ![v] = <<>>]
          /\ snap' = [snap EXCEPT ![v] = NoNodes]
          /\ UNCHANGED <<conn, channel, editing>>
      BY <2>4, <3>2, <3>3, <3>4, <3>5 DEF ApplySnapshot
    <3> QED
      BY <1>0, <3>1, <3>6, <3>7 DEF PageTypes, PageState
  <2>5. CASE Deliver(v)
    <3>1. PICK m \in Message : m = Head(channel[v])
      BY <1>0, <2>5 DEF Deliver, PageTypes
    <3>2. channel' \in [Viewer -> Seq(Message)]
      BY <1>0, <2>5 DEF Deliver, PageTypes
    <3>3. UNCHANGED <<page, conn, snap, editing>>
      BY <2>5 DEF Deliver
    <3>4. CASE UNCHANGED <<view, missed, buffer>>
      BY <1>0, <3>2, <3>3, <3>4 DEF PageTypes
    <3>5. CASE /\ IsNodeEvent(m) /\ page[v] # "ready"
               /\ buffer' = [buffer EXCEPT ![v] = Append(@, m)]
               /\ missed' = [missed EXCEPT ![v] = @ \ {m.node}]
               /\ UNCHANGED view
      <4>1. m \in Data \union Deleted
        BY <3>5, MessageShape
      <4>2. buffer' \in [Viewer -> Seq(Data \union Deleted)]
        BY <1>0, <3>5, <4>1 DEF PageTypes
      <4> QED
        BY <1>0, <3>2, <3>3, <3>5, <4>2 DEF PageTypes
    <3>6. CASE /\ IsNodeEvent(m) /\ page[v] = "ready"
               /\ view' = [view EXCEPT ![v] =
                    ApplyEvent([map |-> view[v], unheard |-> missed[v]], m, editing[v]).map]
               /\ missed' = [missed EXCEPT ![v] =
                    ApplyEvent([map |-> view[v], unheard |-> missed[v]], m, editing[v]).unheard]
               /\ UNCHANGED buffer
      <4>1. PICK k \in PageState : k = [map |-> view[v], unheard |-> missed[v]]
        BY <1>0 DEF PageTypes, PageState
      <4>2. PICK e : e = editing[v]
        OBVIOUS
      <4>3. PICK a : a = ApplyEvent(k, m, e)
        OBVIOUS
      <4>4. a \in PageState
        BY <3>6, <4>3, MessageShape, ApplyKeepsType
      <4>5. /\ view' = [view EXCEPT ![v] = a.map]
            /\ missed' = [missed EXCEPT ![v] = a.unheard]
            /\ UNCHANGED buffer
        BY <3>6, <4>1, <4>2, <4>3
      <4> QED
        BY <1>0, <3>2, <3>3, <4>4, <4>5 DEF PageTypes, PageState
    <3> QED
      BY <2>5, <3>1, <3>4, <3>5, <3>6 DEF Deliver
  <2>6. CASE EndEdit(v) \/ \E n \in Node : StartEdit(v, n)
    BY <1>0, <2>6, ZenonT(30) DEF EndEdit, StartEdit, PageTypes
  <2> QED
    BY <1>5, <2>1, <2>2, <2>3, <2>4, <2>5, <2>6 DEF ViewerStep
<1> QED
  BY <1>1, <1>2, <1>3, <1>4, <1>5, UnseenSteps DEF Next, HttpContinues

-----------------------------------------------------------------------------
SyncTypes == TypeOK /\ WorkIsWhole /\ Budget

LEMMA SyncTypesInit == Init => SyncTypes
<1> SUFFICES ASSUME Init PROVE SyncTypes
  OBVIOUS
<1> USE SyncAssumption
<1>1. Outbox!TypeOK
  BY DEF Init, Outbox!Init, Outbox!TypeOK, Outbox!Id
<1>2. WorkTypes
  BY IdleIsWork DEF Init, WorkTypes, NoNodes
<1>3. PageTypes
  BY DEF Init, PageTypes, NoNodes, Fragment
<1>4. WorkIsWhole
  BY IdleIsWork DEF Init, WorkIsWhole
<1>5. Budget
  <2>1. Upserting = {}
    BY DEF Init, Upserting, IdleTool
  <2>2. HttpCount(http.step) = 0
    BY HttpCounts DEF Init, IdleHttp
  <2> QED
    BY <2>1, <2>2, FS_EmptySet DEF Init, Budget
<1> QED
  BY <1>1, <1>2, <1>3, <1>4, <1>5, TypeOKParts DEF SyncTypes

LEMMA SyncTypesStep == SyncTypes /\ [Next]_vars => SyncTypes'
<1> SUFFICES ASSUME SyncTypes, [Next]_vars PROVE SyncTypes'
  OBVIOUS
<1>1. TypeOK /\ WorkIsWhole /\ Budget
  BY DEF SyncTypes
<1>2. (Outbox!TypeOK)'
  BY <1>1, OutboxSteps, OutboxTypes, TypeOKParts
<1>3. WorkTypes' /\ WorkIsWhole' /\ Budget'
  BY <1>1, WorkTypesStep
<1>4. PageTypes'
  BY <1>1, PageTypesStep
<1>5. TypeOK'
  BY <1>2, <1>3, <1>4 DEF TypeOK, WorkTypes, PageTypes, ToolWork, HttpWork
<1> QED
  BY <1>3, <1>5 DEF SyncTypes

\* In every reachable state the outbox, the nodes table, the work in progress
\* and every page have their types; no version beyond the bound is handed out.
THEOREM SyncTypeCorrect == Spec => []TypeOK
<1>1. SyncTypes => TypeOK
  BY DEF SyncTypes
<1> QED
  BY <1>1, SyncTypesInit, SyncTypesStep, PTL DEF Spec

-----------------------------------------------------------------------------
(***************************************************************************)
(* The poller publishes the pending rows in id order: those sent come      *)
(* before those of the batch, and these before all others.  While a write  *)
(* request is served, or the server is down, it has nothing in hand.       *)
(***************************************************************************)
Pending == rows \ flagged

PollerOrder ==
    /\ ~up[Srv] \/ http.step # "idle" => batch[Srv] = {} /\ sent[Srv] = {}
    /\ batch[Srv] \subseteq Pending \ sent[Srv]
    /\ sent[Srv] \subseteq Pending
    /\ \A i \in sent[Srv] : \A j \in Pending \ sent[Srv] : i < j
    /\ \A i \in batch[Srv] : \A j \in Pending \ (sent[Srv] \union batch[Srv]) : i < j

\* The outbox counts as this module does.
LEMMA SameCardinality == \A S : Outbox!Cardinality(S) = Cardinality(S)
BY DEF Cardinality, Outbox!Cardinality

LEMMA FirstOfIsPrefix ==
    ASSUME NEW n \in Nat, NEW U \in SUBSET (1 .. n)
    PROVE  /\ Outbox!FirstOf(U) \subseteq U
           /\ \A i \in Outbox!FirstOf(U) : \A j \in U \ Outbox!FirstOf(U) : i < j
<1> DEFINE Below(k) == {m \in U : m < k}
<1>1. \A k : k \in Outbox!FirstOf(U) <=> k \in U /\ Cardinality(Below(k)) < BatchLimit
  BY SameCardinality DEF Outbox!FirstOf
<1>2. Outbox!FirstOf(U) \subseteq U
  BY <1>1
<1>3. ASSUME NEW i \in Outbox!FirstOf(U), NEW j \in U, j < i
      PROVE  j \in Outbox!FirstOf(U)
  <2>1. i \in U /\ Cardinality(Below(i)) < BatchLimit
    BY <1>1
  <2>2. IsFiniteSet(1 .. n)
    BY FS_Interval
  <2>3. IsFiniteSet(U)
    BY <2>2, FS_Subset
  <2>4. IsFiniteSet(Below(i))
    BY <2>3, FS_Subset
  <2>5. Below(j) \subseteq Below(i)
    <3>1. ASSUME NEW m \in U, m < j PROVE m < i
      <4>1. m \in 1 .. n /\ j \in 1 .. n /\ i \in 1 .. n
        BY <2>1
      <4> QED
        BY <1>3, <3>1, <4>1
    <3> QED
      BY <3>1
  <2>6. /\ Cardinality(Below(j)) <= Cardinality(Below(i))
        /\ IsFiniteSet(Below(j))
    BY <2>4, <2>5, FS_Subset
  <2>7. Cardinality(Below(j)) \in Nat /\ Cardinality(Below(i)) \in Nat
    BY <2>4, <2>6, FS_CardinalityType
  <2>8. Cardinality(Below(j)) < BatchLimit
    BY <2>1, <2>6, <2>7, SyncAssumption
  <2> QED
    BY <1>1, <2>8
<1>4. ASSUME NEW i \in Outbox!FirstOf(U), NEW j \in U \ Outbox!FirstOf(U)
      PROVE  i < j
  <2>1. i \in U /\ i # j /\ ~(j < i)
    BY <1>2, <1>3
  <2>2. i \in 1 .. n /\ j \in 1 .. n
    BY <2>1
  <2> QED
    BY <2>1, <2>2
<1> QED
  BY <1>2, <1>4

\* A step and what it does to the rows, the poller and the write request.
PollerMoves ==
    \/ /\ UNCHANGED <<log, rows, flagged, up, batch, sent>>
       /\ http.step # "idle" \/ http'.step = "idle" \/ LoopFree
    \/ (\E m \in Message : Outbox!Enqueue(m)) /\ UNCHANGED http
    \/ Outbox!Fetch(Srv) /\ http.step = "idle" /\ UNCHANGED http
    \/ PollerPublishes
    \/ (Outbox!Mark(Srv) \/ Outbox!MarkFails(Srv) \/ Outbox!Start(Srv)) /\ UNCHANGED http
    \/ Outbox!Stop(Srv) /\ http' = IdleHttp

LEMMA PollerMovesStep == TypeOK /\ WorkIsWhole /\ [Next]_vars => PollerMoves
<1> SUFFICES ASSUME TypeOK, WorkIsWhole, [Next]_vars PROVE PollerMoves
  OBVIOUS
<1>1. ASSUME NEW w \in Writer, ToolStep(w) PROVE PollerMoves
  <2>1. CASE EnqueueEvent(w)
    <3>1. tool[w].step = "event" /\ Outbox!Enqueue(ToolMessage(w)) /\ UNCHANGED http
      BY <2>1 DEF EnqueueEvent, ToolMessage
    <3> QED
      BY <3>1, MessagesAreTyped DEF PollerMoves, Message
  <2>2. CASE EnqueueReceipt(w)
    <3>1. tool[w].step = "receipt" /\ Outbox!Enqueue(ReceiptMessage(w)) /\ UNCHANGED http
      BY <2>2 DEF EnqueueReceipt, ReceiptMessage
    <3> QED
      BY <3>1, MessagesAreTyped DEF PollerMoves
  <2>3. CASE UpsertNode(w) \/ Reread(w) \/ Abort(w)
             \/ \E n \in Node : BeginUpdate(w, n) \/ DeleteNode(w, n)
    BY <2>3 DEF PollerMoves, UpsertNode, Reread, Abort, BeginUpdate, DeleteNode,
                outboxVars, tableVars, serverVars
  <2> QED
    BY <1>1, <2>1, <2>2, <2>3 DEF ToolStep, ToolContinues
<1>2. CASE PollerStep
  BY <1>2 DEF PollerMoves, PollerStep
<1>3. ASSUME NEW n \in Node, Post(n) \/ BeginPatch(n) PROVE PollerMoves
  BY <1>3 DEF PollerMoves, Post, BeginPatch, outboxVars, tableVars, serverVars
<1>9. CASE SilentCommit
  BY <1>9 DEF PollerMoves, SilentCommit, SaveQuietly, DeleteQuietly, outboxVars, tableVars,
              serverVars
<1>4. CASE HttpContinues
  BY <1>4 DEF PollerMoves, HttpContinues, PatchUpsert, PatchReread, HttpPublish,
              outboxVars, tableVars, serverVars
<1>5. CASE StartServer \/ StopServer
  BY <1>5 DEF PollerMoves, StartServer, StopServer
<1>6. ASSUME NEW v \in Viewer, ViewerStep(v) PROVE PollerMoves
  <2>1. UNCHANGED <<log, rows, flagged, up, batch, sent, http>>
    BY <1>6 DEF ViewerStep, OpenPage, Subscribe, Drop, Snapshot, FetchFails, ApplySnapshot,
                Deliver, EndEdit, StartEdit, outboxVars, tableVars, serverVars
  <2> QED
    BY <2>1 DEF PollerMoves
<1>7. CASE UNCHANGED vars
  BY <1>7 DEF PollerMoves, vars, outboxVars, tableVars, serverVars
<1> QED
  BY <1>1, <1>2, <1>3, <1>4, <1>5, <1>6, <1>7, <1>9 DEF Next

LEMMA PollerOrderStep ==
    ASSUME TypeOK, WorkIsWhole, PollerOrder, [Next]_vars
    PROVE  PollerOrder'
<1>0. /\ log \in Seq(Message) /\ Len(log) \in Nat
      /\ rows \in SUBSET (1 .. Len(log)) /\ flagged \in SUBSET rows
      /\ batch \in [{Srv} -> SUBSET (1 .. Len(log))] /\ sent \in [{Srv} -> SUBSET (1 .. Len(log))]
      /\ up \in [{Srv} -> BOOLEAN]
  BY DEF TypeOK, Outbox!TypeOK, Outbox!Id
<1>1. PICK b \in SUBSET (1 .. Len(log)), s \in SUBSET (1 .. Len(log)), P \in SUBSET (1 .. Len(log)) :
        b = batch[Srv] /\ s = sent[Srv] /\ P = Pending
  BY <1>0 DEF Pending
<1>2. /\ ~up[Srv] \/ http.step # "idle" => b = {} /\ s = {}
      /\ b \subseteq P \ s /\ s \subseteq P
      /\ \A i \in s : \A j \in P \ s : i < j
      /\ \A i \in b : \A j \in P \ (s \union b) : i < j
  BY <1>1 DEF PollerOrder
<1>3. CASE /\ UNCHANGED <<log, rows, flagged, up, batch, sent>>
           /\ http.step # "idle" \/ http'.step = "idle" \/ LoopFree
  BY <1>3 DEF PollerOrder, Pending, LoopFree
<1>4. ASSUME NEW m \in Message, Outbox!Enqueue(m), UNCHANGED http PROVE PollerOrder'
  <2>1. /\ Pending' = P \union {Len(log) + 1}
        /\ batch' = batch /\ sent' = sent /\ up' = up
    BY <1>0, <1>1, <1>4 DEF Outbox!Enqueue, Outbox!serverVars, Pending
  <2>2. \A i \in s \union b : i < Len(log) + 1 /\ i # Len(log) + 1
    BY <1>0
  <2> QED
    BY <1>1, <1>2, <1>4, <2>1, <2>2 DEF PollerOrder
<1>5. CASE Outbox!Fetch(Srv) /\ http.step = "idle" /\ UNCHANGED http
  <2>1. PICK F : F = Outbox!FirstOf(P)
    OBVIOUS
  <2>2. F \subseteq P /\ \A i \in F : \A j \in P \ F : i < j
    BY <1>0, <2>1, FirstOfIsPrefix
  <2>3. /\ Pending' = P /\ sent' = sent /\ s = {} /\ up' = up /\ up[Srv]
        /\ batch' = [batch EXCEPT ![Srv] = F]
    BY <1>1, <1>5, <2>1 DEF Outbox!Fetch, Outbox!tableVars, Pending, Outbox!Unpublished
  <2>4. batch'[Srv] = F /\ sent'[Srv] = {}
    BY <1>0, <1>1, <2>3
  <2> QED
    BY <1>5, <2>2, <2>3, <2>4 DEF PollerOrder
<1>6. CASE PollerPublishes
  <2>1. PICK i \in b :
          /\ \A j \in b : i <= j
          /\ batch' = [batch EXCEPT ![Srv] = @ \ {i}]
          /\ sent' = [sent EXCEPT ![Srv] = @ \union {i}]
          /\ UNCHANGED <<log, rows, flagged, up>>
    BY <1>1, <1>6, PollerBroadcasts
  <2>2. /\ batch'[Srv] = b \ {i} /\ sent'[Srv] = s \union {i} /\ Pending' = P
        /\ http' = http /\ up' = up
    BY <1>0, <1>1, <1>6, <2>1 DEF Pending, PollerPublishes
  <2>3. ~(~up[Srv] \/ http.step # "idle")
    BY <1>2, <2>1
  <2>4. \A j \in P \ (s \union {i}) : i < j
    BY <1>2, <2>1
  <2>5. /\ b \ {i} \subseteq P \ (s \union {i}) /\ s \union {i} \subseteq P
        /\ \A k \in s \union {i} : \A j \in P \ (s \union {i}) : k < j
        /\ \A k \in b \ {i} : \A j \in P \ ((s \union {i}) \union (b \ {i})) : k < j
    BY <1>2, <2>4
  <2> QED
    BY <2>2, <2>3, <2>5 DEF PollerOrder
<1>7. CASE Outbox!Mark(Srv) /\ UNCHANGED http
  <2>1. /\ b = {} /\ batch' = batch /\ up' = up
        /\ sent' = [sent EXCEPT ![Srv] = {}]
    BY <1>1, <1>7 DEF Outbox!Mark
  <2>2. batch'[Srv] = {} /\ sent'[Srv] = {}
    BY <1>0, <1>1, <2>1
  <2> QED
    BY <2>2 DEF PollerOrder
<1>8. CASE Outbox!MarkFails(Srv) /\ UNCHANGED http
  <2>1. /\ b = {} /\ batch' = batch /\ up' = up
        /\ sent' = [sent EXCEPT ![Srv] = {}]
    BY <1>1, <1>8 DEF Outbox!MarkFails
  <2>2. batch'[Srv] = {} /\ sent'[Srv] = {}
    BY <1>0, <1>1, <2>1
  <2> QED
    BY <2>2 DEF PollerOrder
<1>9. CASE Outbox!Start(Srv) /\ UNCHANGED http
  <2>1. batch' = batch /\ sent' = sent /\ ~up[Srv]
    BY <1>9 DEF Outbox!Start
  <2>2. batch'[Srv] = {} /\ sent'[Srv] = {}
    BY <1>1, <1>2, <2>1
  <2> QED
    BY <2>2 DEF PollerOrder
<1>10. CASE Outbox!Stop(Srv) /\ http' = IdleHttp
  <2>1. batch'[Srv] = {} /\ sent'[Srv] = {}
    BY <1>0, <1>10 DEF Outbox!Stop
  <2> QED
    BY <2>1 DEF PollerOrder
<1> QED
  BY <1>3, <1>4, <1>5, <1>6, <1>7, <1>8, <1>9, <1>10, PollerMovesStep DEF PollerMoves

-----------------------------------------------------------------------------
(***************************************************************************)
(* Who announces a commit.  A node that is not astray has at most one      *)
(* announcer; what it will announce is what is stored; with nobody         *)
(* announcing, the last pending row about the node says what is stored.    *)
(* Stated for one node at a time.                                          *)
(***************************************************************************)
Announces(w, n) == tool[w].node = n /\ tool[w].step \in {"reread", "event"}
HttpAnnounces(n) == http.node = n /\ http.step \in {"reread", "publish"}
Says(work, n) == IF work.step = "reread" THEN node[n] # 0 ELSE work.ver = node[n]

Traced(n) ==
    n \notin astray =>
        /\ \A w, x \in Writer : Announces(w, n) /\ Announces(x, n) => w = x
        /\ \A w \in Writer : Announces(w, n) => Says(tool[w], n)
        /\ HttpAnnounces(n) =>
              /\ \A w \in Writer : ~Announces(w, n)
              /\ \A i \in Pending : ~About(log[i], n)
              /\ Says(http, n)
        /\ ~HttpAnnounces(n) /\ (\A w \in Writer : ~Announces(w, n)) =>
              \A i \in Pending :
                 About(log[i], n) /\ (\A j \in Pending : About(log[j], n) => j <= i)
                    => log[i].ver = node[n]

LEMMA AnnouncingIs ==
    \A n : Announcing(n) <=> HttpAnnounces(n) \/ \E w \in Writer : Announces(w, n)
BY DEF Announcing, HttpAnnounces, Announces

LEMMA QueuedIs == \A n : Queued(n) <=> \E i \in Pending : About(log[i], n)
BY DEF Queued, Outbox!Unpublished, Pending, About

\* A step after which the pending rows about n are those before, the first of
\* them perhaps gone.
RowsFollow(n) ==
    /\ \A i \in Pending' : About(log'[i], n) => i \in Pending /\ log'[i] = log[i]
    /\ \A j \in Pending : About(log[j], n) =>
          \/ j \in Pending' /\ log'[j] = log[j]
          \/ \A i \in Pending' : About(log'[i], n) => j < i

LEMMA RowsStay ==
    ASSUME UNCHANGED <<log, rows, flagged>>
    PROVE  \A n : RowsFollow(n)
BY DEF RowsFollow, Pending

\* What a step does to the rows about n, if it is no enqueue about n.
LEMMA RowsFollowStep ==
    ASSUME TypeOK, PollerOrder, NEW n \in Node, PollerMoves,
           \A m \in Message : Outbox!Enqueue(m) => ~About(m, n)
    PROVE  RowsFollow(n)
<1>0. /\ log \in Seq(Message) /\ Len(log) \in Nat
      /\ rows \in SUBSET (1 .. Len(log)) /\ flagged \in SUBSET rows
      /\ batch \in [{Srv} -> SUBSET (1 .. Len(log))] /\ sent \in [{Srv} -> SUBSET (1 .. Len(log))]
  BY DEF TypeOK, Outbox!TypeOK, Outbox!Id
<1>1. CASE UNCHANGED <<log, rows, flagged>>
  BY <1>1, RowsStay
<1>2. ASSUME NEW m \in Message, Outbox!Enqueue(m) PROVE RowsFollow(n)
  <2>1. ~About(m, n)
    BY <1>2
  <2>2. /\ log' = Append(log, m) /\ rows' = rows \union {Len(log) + 1} /\ flagged' = flagged
    BY <1>2 DEF Outbox!Enqueue
  <2>3. log'[Len(log) + 1] = m /\ \A i \in 1 .. Len(log) : log'[i] = log[i]
    BY <1>0, <2>2
  <2>4. Pending' = Pending \union {Len(log) + 1} /\ Pending \subseteq 1 .. Len(log)
    BY <1>0, <2>2 DEF Pending
  <2> QED
    BY <2>1, <2>3, <2>4 DEF RowsFollow
<1>3. CASE Outbox!Fetch(Srv) \/ Outbox!MarkFails(Srv) \/ Outbox!Stop(Srv)
  BY <1>3, RowsStay DEF Outbox!Fetch, Outbox!MarkFails, Outbox!Stop, Outbox!tableVars
<1>4. CASE PollerPublishes
  BY <1>4, PollerBroadcasts, RowsStay
<1>5. CASE Outbox!Mark(Srv)
  <2>1. Pending' = Pending \ sent[Srv] /\ log' = log
    BY <1>0, <1>5 DEF Outbox!Mark, Pending
  <2>2. \A i \in sent[Srv] : \A j \in Pending \ sent[Srv] : i < j
    BY DEF PollerOrder
  <2> QED
    BY <2>1, <2>2 DEF RowsFollow
<1>6. CASE Outbox!Start(Srv)
  <2>1. Pending' = Pending /\ log' = log
    BY <1>0, <1>6 DEF Outbox!Start, Outbox!Unpublished, Pending
  <2> QED
    BY <2>1 DEF RowsFollow
<1> QED
  BY <1>1, <1>2, <1>3, <1>4, <1>5, <1>6 DEF PollerMoves

\* Nothing about n is written, announced or enqueued.
LEMMA TracedFrame ==
    ASSUME TypeOK, NEW n \in Node, Traced(n), node'[n] = node[n],
           n \notin astray' => n \notin astray,
           \A w \in Writer : Announces(w, n)' <=> Announces(w, n),
           \A w \in Writer : Announces(w, n) => tool'[w] = tool[w],
           HttpAnnounces(n)' <=> HttpAnnounces(n),
           HttpAnnounces(n) => http' = http,
           RowsFollow(n)
    PROVE  Traced(n)'
<1> SUFFICES ASSUME n \notin astray' PROVE Traced(n)'
  BY DEF Traced
<1>0. n \notin astray
  OBVIOUS
<1>1. \A w, x \in Writer : Announces(w, n)' /\ Announces(x, n)' => w = x
  BY <1>0 DEF Traced
<1>2. ASSUME NEW w \in Writer, Announces(w, n)' PROVE Says(tool[w], n)'
  <2>1. Announces(w, n) /\ tool'[w] = tool[w] /\ Says(tool[w], n)
    BY <1>0, <1>2 DEF Traced
  <2> QED
    BY <2>1 DEF Says
<1>3. ASSUME HttpAnnounces(n)'
      PROVE  /\ \A w \in Writer : ~Announces(w, n)'
             /\ \A i \in Pending' : ~About(log'[i], n)
             /\ Says(http, n)'
  <2>1. /\ HttpAnnounces(n) /\ http' = http
        /\ \A w \in Writer : ~Announces(w, n)
        /\ \A i \in Pending : ~About(log[i], n)
        /\ Says(http, n)
    BY <1>0, <1>3 DEF Traced
  <2>2. Says(http, n)'
    BY <2>1 DEF Says
  <2>3. \A i \in Pending' : ~About(log'[i], n)
    BY <2>1 DEF RowsFollow
  <2> QED
    BY <2>1, <2>2, <2>3
<1>4. ASSUME ~HttpAnnounces(n)', \A w \in Writer : ~Announces(w, n)',
             NEW i \in Pending', About(log'[i], n),
             \A j \in Pending' : About(log'[j], n) => j <= i
      PROVE  log'[i].ver = node'[n]
  <2>1. i \in Pending /\ log'[i] = log[i] /\ About(log[i], n)
    BY <1>4 DEF RowsFollow
  <2>2. ASSUME NEW j \in Pending, About(log[j], n) PROVE j <= i
    <3>1. i \in Nat /\ j \in Nat
      BY <2>1 DEF Pending, TypeOK, Outbox!TypeOK, Outbox!Id
    <3>2. CASE j \in Pending' /\ log'[j] = log[j]
      BY <1>4, <2>2, <3>2
    <3>3. CASE j < i
      BY <3>1, <3>3
    <3> QED
      BY <1>4, <2>2, <3>2, <3>3 DEF RowsFollow
  <2>3. log[i].ver = node[n]
    BY <1>0, <1>4, <2>1, <2>2 DEF Traced
  <2> QED
    BY <2>1, <2>3
<1> QED
  BY <1>1, <1>2, <1>3, <1>4 DEF Traced

\* One tool moves: the announcements of the others are not touched.
LEMMA AnnouncesMoves ==
    ASSUME TypeOK, NEW w \in Writer, NEW t, tool' = [tool EXCEPT ![w] = t], NEW n
    PROVE  /\ Announces(w, n)' <=> t.node = n /\ t.step \in {"reread", "event"}
           /\ tool'[w] = t
           /\ \A x \in Writer : x # w =>
                 (Announces(x, n)' <=> Announces(x, n)) /\ tool'[x] = tool[x]
BY DEF TypeOK, Announces

\* A tool commits, with nobody else announcing ...
LEMMA TracedToolCommit ==
    ASSUME TypeOK, NEW n \in Node, NEW w \in Writer, NEW t,
           ~HttpAnnounces(n), \A x \in Writer : ~Announces(x, n),
           tool' = [tool EXCEPT ![w] = t], http' = http,
           t.node = n, t.step \in {"reread", "event"},
           IF t.step = "reread" THEN node'[n] # 0 ELSE t.ver = node'[n]
    PROVE  Traced(n)'
<1>1. ~HttpAnnounces(n)'
  BY DEF HttpAnnounces
<1>2. /\ Announces(w, n)' /\ tool'[w] = t
      /\ \A x \in Writer : x # w => ~Announces(x, n)'
  BY AnnouncesMoves
<1>3. Says(tool[w], n)'
  BY <1>2 DEF Says
<1> QED
  BY <1>1, <1>2, <1>3 DEF Traced

\* ... or ends its announcement of a node that is not astray.
LEMMA TracedToolEnds ==
    ASSUME TypeOK, NEW n \in Node, Traced(n), n \notin astray, NEW w \in Writer, NEW t,
           Announces(w, n), tool' = [tool EXCEPT ![w] = t], t.step \notin {"reread", "event"},
           http' = http, node'[n] = node[n],
           \E m \in Message : Outbox!Enqueue(m) /\ About(m, n) /\ m.ver = node[n]
    PROVE  Traced(n)'
<1>0. log \in Seq(Message) /\ rows \in SUBSET (1 .. Len(log))
  BY DEF TypeOK, Outbox!TypeOK, Outbox!Id
<1>1. ~HttpAnnounces(n)'
  <2>1. ~HttpAnnounces(n)
    BY DEF Traced
  <2> QED
    BY <2>1 DEF HttpAnnounces
<1>2. \A x \in Writer : ~Announces(x, n)'
  <2>1. \A x \in Writer : x # w => ~Announces(x, n)
    BY DEF Traced
  <2> QED
    BY <2>1, AnnouncesMoves
<1>3. PICK m \in Message : Outbox!Enqueue(m) /\ About(m, n) /\ m.ver = node[n]
  OBVIOUS
<1>4. /\ log' = Append(log, m) /\ flagged' = flagged
      /\ rows' = rows \union {Len(log) + 1}
  BY <1>3 DEF Outbox!Enqueue
<1>5. PICK l \in Nat : l = Len(log)
  BY <1>0
<1>6. log'[l + 1] = m /\ l + 1 \in Pending' /\ \A i \in Pending' : i <= l + 1
  <2>1. flagged \in SUBSET (1 .. l)
    BY <1>5 DEF TypeOK, Outbox!TypeOK, Outbox!Id
  <2>2. log'[l + 1] = m
    BY <1>0, <1>4, <1>5
  <2>3. Pending' = (rows \union {l + 1}) \ flagged
    BY <1>4, <1>5 DEF Pending
  <2> QED
    BY <1>0, <1>5, <2>1, <2>2, <2>3
<1>7. ASSUME NEW i \in Pending', About(log'[i], n),
             \A j \in Pending' : About(log'[j], n) => j <= i
      PROVE  log'[i].ver = node'[n]
  <2>1. i \in Nat
    <3>1. i \in rows \union {l + 1}
      BY <1>4, <1>5, <1>7 DEF Pending
    <3> QED
      BY <1>0, <1>5, <3>1
  <2>2. l + 1 <= i /\ i <= l + 1
    BY <1>3, <1>6, <1>7
  <2>3. i = l + 1
    BY <2>1, <2>2
  <2> QED
    BY <1>3, <1>6, <2>3
<1> QED
  BY <1>1, <1>2, <1>7 DEF Traced

\* A tool moves, and has nothing to do with the announcements of n.
LEMMA TracedToolQuiet ==
    ASSUME TypeOK, NEW n \in Node, Traced(n), NEW w \in Writer, NEW t,
           ~Announces(w, n), ~(t.node = n /\ t.step \in {"reread", "event"}),
           tool' = [tool EXCEPT ![w] = t], http' = http, node'[n] = node[n],
           n \notin astray' => n \notin astray, RowsFollow(n)
    PROVE  Traced(n)'
<1>1. ~Announces(w, n)'
  BY AnnouncesMoves
<1>2. \A x \in Writer : x # w =>
         (Announces(x, n)' <=> Announces(x, n)) /\ tool'[x] = tool[x]
  BY AnnouncesMoves
<1>3. \A x \in Writer : Announces(x, n)' <=> Announces(x, n)
  BY <1>1, <1>2
<1>4. \A x \in Writer : Announces(x, n) => tool'[x] = tool[x]
  BY <1>2
<1>5. HttpAnnounces(n)' <=> HttpAnnounces(n)
  BY DEF HttpAnnounces
<1> QED
  BY <1>3, <1>4, <1>5, TracedFrame

LEMMA AppendTells ==
    ASSUME NEW S, NEW q \in Seq(S), NEW x \in S, NEW y \in S, Append(q, x) = Append(q, y)
    PROVE  x = y
<1>1. Append(q, x)[Len(q) + 1] = x /\ Append(q, y)[Len(q) + 1] = y
  OBVIOUS
<1> QED
  BY <1>1

LEMMA TracedToolStep ==
    ASSUME SyncTypes, PollerOrder, NEW n \in Node, Traced(n), NEW w \in Writer, ToolStep(w),
           PollerMoves
    PROVE  Traced(n)'
<1> SUFFICES ASSUME n \notin astray' PROVE Traced(n)'
  BY DEF Traced
<1>0. TypeOK /\ WorkIsWhole /\ node \in [Node -> 0 .. MaxWrites]
      /\ tool[w] \in ToolWork /\ ToolIsWhole(tool[w])
  BY DEF SyncTypes, TypeOK, ToolWork, WorkIsWhole
<1>1. ASSUME NEW k \in Node, BeginUpdate(w, k) PROVE Traced(n)'
  <2>1. PICK t : t = [step |-> "upsert", node |-> k, ver |-> 0,
                      kind |-> IF node[k] = 0 THEN "node.created" ELSE "node.updated"]
    OBVIOUS
  <2>2. tool' = [tool EXCEPT ![w] = t] /\ tool[w].step = "idle" /\ t.step = "upsert"
    BY <1>1, <2>1 DEF BeginUpdate
  <2>3. UNCHANGED <<log, rows, flagged, node, astray, http>>
    BY <1>1 DEF BeginUpdate, outboxVars, tableVars, storeVars
  <2>4. ~Announces(w, n)
    BY <2>2 DEF Announces
  <2>5. RowsFollow(n)
    BY <2>3, RowsStay
  <2> QED
    BY <1>0, <2>2, <2>3, <2>4, <2>5, TracedToolQuiet
<1>2. CASE UpsertNode(w)
  <2>1. PICK t : t = [tool[w] EXCEPT !.step = "reread"]
    OBVIOUS
  <2>2. PICK k \in Node : k = tool[w].node
    BY <1>0, <1>2 DEF UpsertNode, ToolIsWhole
  <2>3. PICK o \in BOOLEAN : o = Announcing(k)
    BY DEF Announcing
  <2>4. Upsert(k, o)
    BY <1>2, <2>2, <2>3 DEF UpsertNode
  <2>5. /\ tool' = [tool EXCEPT ![w] = t] /\ tool[w].step = "upsert"
        /\ t.step = "reread" /\ t.node = k
    BY <1>0, <1>2, <2>1, <2>2 DEF UpsertNode, TypeOK, ToolWork, Work
  <2>6. UNCHANGED <<log, rows, flagged, http>>
    BY <1>2 DEF UpsertNode, outboxVars, tableVars
  <2>7. ~Announces(w, n)
    BY <2>5 DEF Announces
  <2>8. CASE k = n
    <3>1. ~o /\ node'[n] # 0
      BY <1>0, <2>4, <2>8 DEF Upsert, Commit, TypeOK
    <3>2. ~HttpAnnounces(n) /\ \A x \in Writer : ~Announces(x, n)
      BY <2>3, <2>8, <3>1, AnnouncingIs
    <3> QED
      BY <1>0, <2>5, <2>6, <2>8, <3>1, <3>2, TracedToolCommit
  <2>9. CASE k # n
    <3>1. node'[n] = node[n] /\ n \notin astray
      BY <1>0, <2>4, <2>9 DEF Upsert, Commit
    <3>2. RowsFollow(n)
      BY <2>6, RowsStay
    <3> QED
      BY <1>0, <2>5, <2>6, <2>7, <2>9, <3>1, <3>2, TracedToolQuiet
  <2> QED
    BY <2>8, <2>9
<1>3. CASE Reread(w)
  <2>1. PICK k \in Node : k = tool[w].node
    BY <1>0, <1>3 DEF Reread, ToolIsWhole
  <2>2. PICK t : t = IF node[k] = 0 THEN IdleTool
                     ELSE [tool[w] EXCEPT !.step = "event", !.ver = node[k]]
    OBVIOUS
  <2>3. tool[w].step = "reread" /\ tool' = [tool EXCEPT ![w] = t]
    BY <1>0, <1>3, <2>1, <2>2 DEF Reread, TypeOK
  <2>4. UNCHANGED <<log, rows, flagged, node, astray, http>>
    BY <1>3 DEF Reread, outboxVars, tableVars, storeVars
  <2>5. CASE k = n
    <3>1. Announces(w, n) /\ n \notin astray
      BY <2>1, <2>3, <2>4, <2>5 DEF Announces
    <3>2. node[n] # 0
      BY <2>3, <3>1 DEF Traced, Says
    <3>3. t.step = "event" /\ t.node = n /\ t.ver = node[n]
      BY <1>0, <2>1, <2>2, <2>5, <3>2 DEF ToolWork, Work
    <3>4. Announces(w, n)' /\ tool'[w] = t
      BY <1>0, <2>3, <3>3, AnnouncesMoves
    <3>5. \A x \in Writer : x # w => ~Announces(x, n) /\ ~Announces(x, n)'
      BY <1>0, <2>3, <3>1, AnnouncesMoves DEF Traced
    <3>6. Says(tool[w], n)'
      BY <2>4, <3>3, <3>4 DEF Says
    <3>7. ~HttpAnnounces(n)'
      BY <2>4, <3>1 DEF Traced, HttpAnnounces
    <3> QED
      BY <3>4, <3>5, <3>6, <3>7 DEF Traced
  <2>6. CASE k # n
    <3>1. ~Announces(w, n)
      BY <2>1, <2>6 DEF Announces
    <3>2. t.step \in {"reread", "event"} => t.node = k
      BY <1>0, <2>1, <2>2 DEF ToolWork, Work, IdleTool
    <3>3. RowsFollow(n)
      BY <2>4, RowsStay
    <3>4. node'[n] = node[n] /\ n \notin astray
      BY <2>4
    <3> QED
      BY <1>0, <2>3, <2>4, <2>6, <3>1, <3>2, <3>3, <3>4, TracedToolQuiet
  <2> QED
    BY <2>5, <2>6
<1>4. ASSUME NEW k \in Node, DeleteNode(w, k) PROVE Traced(n)'
  <2>1. PICK t : t = IF node[k] = 0
              THEN [step |-> "receipt", node |-> k, kind |-> "tool.invoked", ver |-> 0]
              ELSE [step |-> "event", node |-> k, kind |-> "node.deleted", ver |-> 0]
    OBVIOUS
  <2>2. tool' = [tool EXCEPT ![w] = t] /\ tool[w].step = "idle"
    BY <1>4, <2>1 DEF DeleteNode
  <2>3. UNCHANGED <<log, rows, flagged, http>>
    BY <1>4 DEF DeleteNode, outboxVars, tableVars
  <2>4. ~Announces(w, n)
    BY <2>2 DEF Announces
  <2>5. PICK o \in BOOLEAN : o = Announcing(k)
    BY DEF Announcing
  <2>6. IF node[k] = 0 THEN UNCHANGED storeVars ELSE Commit(k, 0, o)
    BY <1>4, <2>5 DEF DeleteNode
  <2>7. CASE node[k] # 0 /\ k = n
    <3>1. ~o /\ node'[n] = 0
      BY <1>0, <2>6, <2>7 DEF Commit
    <3>2. ~HttpAnnounces(n) /\ \A x \in Writer : ~Announces(x, n)
      BY <2>5, <2>7, <3>1, AnnouncingIs
    <3>3. t.node = n /\ t.step = "event" /\ t.ver = 0
      BY <2>1, <2>7
    <3> QED
      BY <1>0, <2>2, <2>3, <3>1, <3>2, <3>3, TracedToolCommit
  <2>8. CASE node[k] = 0 \/ k # n
    <3>1. node'[n] = node[n] /\ n \notin astray
      BY <1>0, <2>6, <2>8 DEF Commit, storeVars
    <3>2. ~(t.node = n /\ t.step \in {"reread", "event"})
      BY <2>1, <2>8
    <3>3. RowsFollow(n)
      BY <2>3, RowsStay
    <3> QED
      BY <1>0, <2>2, <2>3, <2>4, <3>1, <3>2, <3>3, TracedToolQuiet
  <2> QED
    BY <2>7, <2>8
<1>5. CASE EnqueueEvent(w)
  <2>1. PICK k \in Node : k = tool[w].node
    BY <1>0, <1>5 DEF EnqueueEvent, ToolIsWhole
  <2>2. PICK t : t = [tool[w] EXCEPT !.step = "receipt"]
    OBVIOUS
  <2>3. PICK m \in Message : m = ToolMessage(w)
    BY <1>0, <1>5, MessagesAreTyped DEF EnqueueEvent, Message
  <2>4. /\ tool[w].step = "event" /\ Outbox!Enqueue(m)
        /\ tool' = [tool EXCEPT ![w] = t] /\ t.step = "receipt"
    BY <1>0, <1>5, <2>2, <2>3 DEF EnqueueEvent, ToolMessage, TypeOK, ToolWork, Work
  <2>5. UNCHANGED <<node, astray, http>>
    BY <1>5 DEF EnqueueEvent, storeVars
  <2>6. m.node = k /\ m.ver = tool[w].ver /\ IsNodeEvent(m)
    <3>1. ToolMessage(w) \in Data \union Deleted
      BY <1>0, <2>4, MessagesAreTyped
    <3>2. \A x \in Data \union Deleted : IsNodeEvent(x)
      BY DEF Data, Deleted, DataKind, IsNodeEvent
    <3> QED
      BY <2>1, <2>3, <3>1, <3>2 DEF ToolMessage
  <2>7. CASE k = n
    <3>1. Announces(w, n) /\ n \notin astray
      BY <2>1, <2>4, <2>5, <2>7 DEF Announces
    <3>2. tool[w].ver = node[n]
      BY <2>4, <3>1 DEF Traced, Says
    <3>3. About(m, n) /\ m.ver = node[n]
      BY <2>6, <2>7, <3>2 DEF About
    <3> QED
      BY <1>0, <2>4, <2>5, <3>1, <3>3, TracedToolEnds
  <2>8. CASE k # n
    <3>1. ~Announces(w, n)
      BY <2>1, <2>8 DEF Announces
    <3>2. node'[n] = node[n] /\ n \notin astray
      BY <2>5
    <3>3. ASSUME NEW x \in Message, Outbox!Enqueue(x) PROVE ~About(x, n)
      <4>1. log' = Append(log, x) /\ log' = Append(log, m) /\ log \in Seq(Message)
        BY <1>0, <2>4, <3>3 DEF Outbox!Enqueue, TypeOK, Outbox!TypeOK
      <4>2. x = m
        <5>1. Append(log, x) = Append(log, m)
          BY <4>1
        <5> QED
          BY <4>1, <5>1, AppendTells
      <4> QED
        BY <2>6, <2>8, <4>2 DEF About
    <3>4. RowsFollow(n)
      BY <1>0, <3>3, RowsFollowStep
    <3> QED
      BY <1>0, <2>4, <2>5, <3>1, <3>2, <3>4, TracedToolQuiet
  <2> QED
    BY <2>7, <2>8
<1>6. CASE EnqueueReceipt(w)
  <2>1. PICK m \in Message : m = ReceiptMessage(w)
    BY <1>0, <1>6, MessagesAreTyped DEF EnqueueReceipt
  <2>2. /\ tool[w].step = "receipt" /\ Outbox!Enqueue(m)
        /\ tool' = [tool EXCEPT ![w] = IdleTool]
    BY <1>6, <2>1 DEF EnqueueReceipt, ReceiptMessage
  <2>3. UNCHANGED <<node, astray, http>>
    BY <1>6 DEF EnqueueReceipt, storeVars
  <2>4. ~Announces(w, n)
    BY <2>2 DEF Announces
  <2>5. PICK t : t = IdleTool /\ t.step = "idle"
    <3>1. IdleTool.step = "idle"
      BY DEF IdleTool
    <3> QED
      BY <3>1
  <2>6. ASSUME NEW x \in Message, Outbox!Enqueue(x) PROVE ~About(x, n)
    <3>1. log' = Append(log, x) /\ log' = Append(log, m) /\ log \in Seq(Message)
      BY <1>0, <2>2, <2>6 DEF Outbox!Enqueue, TypeOK, Outbox!TypeOK
    <3>2. Append(log, x) = Append(log, m)
      BY <3>1
    <3>3. x = m
      BY <3>1, <3>2, AppendTells
    <3> QED
      BY <2>1, <3>3 DEF ReceiptMessage, About, IsNodeEvent
  <2>7. RowsFollow(n)
    BY <1>0, <2>6, RowsFollowStep
  <2> QED
    BY <1>0, <2>2, <2>3, <2>4, <2>5, <2>7, TracedToolQuiet
<1>7. CASE Abort(w)
  <2>1. /\ tool' = [tool EXCEPT ![w] = IdleTool]
        /\ UNCHANGED <<log, rows, flagged, node, http>>
        /\ astray' = IF tool[w].step \in {"reread", "event"}
                        THEN astray \union {tool[w].node} ELSE astray
    BY <1>7 DEF Abort, tableVars
  <2>2. ~Announces(w, n) /\ n \notin astray
    BY <2>1 DEF Announces
  <2>3. PICK t : t = IdleTool /\ t.step = "idle"
    <3>1. IdleTool.step = "idle"
      BY DEF IdleTool
    <3> QED
      BY <3>1
  <2>4. RowsFollow(n)
    BY <2>1, RowsStay
  <2> QED
    BY <1>0, <2>1, <2>2, <2>3, <2>4, TracedToolQuiet
<1> QED
  BY <1>1, <1>2, <1>3, <1>4, <1>5, <1>6, <1>7 DEF ToolStep, ToolContinues

\* The server commits, with nobody announcing n and no row about it pending.
LEMMA TracedHttpCommit ==
    ASSUME TypeOK, NEW n \in Node, ~Announcing(n), ~Queued(n),
           tool' = tool, UNCHANGED <<log, rows, flagged>>,
           IF http'.step = "reread" THEN node'[n] # 0 ELSE http'.ver = node'[n],
           HttpAnnounces(n)'
    PROVE  Traced(n)'
<1>1. \A w \in Writer : ~Announces(w, n)'
  BY AnnouncingIs DEF Announces
<1>2. \A i \in Pending' : ~About(log'[i], n)
  BY QueuedIs DEF Pending
<1>3. Says(http, n)'
  BY DEF Says
<1> QED
  BY <1>1, <1>2, <1>3 DEF Traced

\* The server moves, and has nothing to do with the announcements of n.
LEMMA TracedHttpQuiet ==
    ASSUME TypeOK, NEW n \in Node, Traced(n), ~HttpAnnounces(n), ~HttpAnnounces(n)',
           tool' = tool, node'[n] = node[n], n \notin astray' => n \notin astray,
           RowsFollow(n)
    PROVE  Traced(n)'
<1>1. \A w \in Writer : (Announces(w, n)' <=> Announces(w, n)) /\ tool'[w] = tool[w]
  BY DEF Announces
<1> QED
  BY <1>1, TracedFrame

LEMMA TracedHttpStep ==
    ASSUME SyncTypes, NEW n \in Node, Traced(n),
           (\E k \in Node : Post(k) \/ BeginPatch(k)) \/ HttpContinues \/ StopServer
    PROVE  Traced(n)'
<1> SUFFICES ASSUME n \notin astray' PROVE Traced(n)'
  BY DEF Traced
<1>0. TypeOK /\ WorkIsWhole /\ node \in [Node -> 0 .. MaxWrites]
      /\ http \in HttpWork /\ HttpIsWhole(http)
  BY DEF SyncTypes, TypeOK, HttpWork, WorkIsWhole
<1>1. ASSUME NEW k \in Node, Post(k) PROVE Traced(n)'
  <2>0. PICK whole \in BOOLEAN :
          /\ Upsert(k, Announcing(k) \/ Queued(k) \/ ~whole)
          /\ http' = [step |-> "publish", node |-> k, kind |-> "node.created",
                      ver |-> IF whole THEN clock + 1 ELSE Fragment]
    BY <1>1 DEF Post
  <2>1. PICK o \in BOOLEAN : o = (Announcing(k) \/ Queued(k) \/ ~whole)
    OBVIOUS
  <2>2. Upsert(k, o)
    BY <2>0, <2>1
  <2>3. /\ http.step = "idle" /\ tool' = tool
        /\ http' = [step |-> "publish", node |-> k, kind |-> "node.created",
                    ver |-> IF whole THEN clock + 1 ELSE Fragment]
        /\ UNCHANGED <<log, rows, flagged>>
    BY <1>1, <2>0 DEF Post, LoopFree, outboxVars, tableVars
  <2>4. ~HttpAnnounces(n)
    BY <2>3 DEF HttpAnnounces
  <2>5. CASE k = n
    <3>1. ~o /\ node'[n] = clock + 1
      BY <1>0, <2>2, <2>5 DEF Upsert, Commit
    <3>2. ~Announcing(n) /\ ~Queued(n) /\ whole
      BY <2>1, <2>5, <3>1
    <3>3. http'.step = "publish" /\ http'.ver = node'[n] /\ http'.node = n
      BY <2>3, <2>5, <3>1, <3>2
    <3>4. HttpAnnounces(n)'
      BY <3>3 DEF HttpAnnounces
    <3> QED
      BY <1>0, <2>3, <3>2, <3>3, <3>4, TracedHttpCommit
  <2>6. CASE k # n
    <3>1. node'[n] = node[n] /\ n \notin astray
      BY <1>0, <2>2, <2>6 DEF Upsert, Commit
    <3>2. ~HttpAnnounces(n)'
      BY <2>3, <2>6 DEF HttpAnnounces
    <3>3. RowsFollow(n)
      BY <2>3, RowsStay
    <3> QED
      BY <1>0, <2>3, <2>4, <3>1, <3>2, <3>3, TracedHttpQuiet
  <2> QED
    BY <2>5, <2>6
<1>2. ASSUME NEW k \in Node, BeginPatch(k) PROVE Traced(n)'
  <2>1. /\ http.step = "idle" /\ tool' = tool /\ http'.step = "upsert"
        /\ UNCHANGED <<log, rows, flagged, node, astray>>
    BY <1>2 DEF BeginPatch, LoopFree, outboxVars, tableVars, storeVars
  <2>2. ~HttpAnnounces(n) /\ ~HttpAnnounces(n)'
    BY <2>1 DEF HttpAnnounces
  <2>3. RowsFollow(n)
    BY <2>1, RowsStay
  <2> QED
    BY <1>0, <2>1, <2>2, <2>3, TracedHttpQuiet
<1>3. CASE PatchUpsert
  <2>1. PICK k \in Node : k = http.node
    BY <1>0, <1>3 DEF PatchUpsert, HttpIsWhole
  <2>2. PICK o \in BOOLEAN : o = (Announcing(k) \/ Queued(k))
    OBVIOUS
  <2>3. Upsert(k, o)
    BY <1>3, <2>1, <2>2 DEF PatchUpsert
  <2>4. /\ http.step = "upsert" /\ tool' = tool
        /\ http'.step = "reread" /\ http'.node = k
        /\ UNCHANGED <<log, rows, flagged>>
    BY <1>0, <1>3, <2>1 DEF PatchUpsert, HttpWork, Work, outboxVars, tableVars
  <2>5. ~HttpAnnounces(n)
    BY <2>4 DEF HttpAnnounces
  <2>6. CASE k = n
    <3>1. ~o /\ node'[n] # 0
      BY <1>0, <2>3, <2>6 DEF Upsert, Commit, TypeOK
    <3>2. ~Announcing(n) /\ ~Queued(n)
      BY <2>2, <2>6, <3>1
    <3>3. HttpAnnounces(n)'
      BY <2>4, <2>6 DEF HttpAnnounces
    <3> QED
      BY <1>0, <2>4, <3>1, <3>2, <3>3, TracedHttpCommit
  <2>7. CASE k # n
    <3>1. node'[n] = node[n] /\ n \notin astray
      BY <1>0, <2>3, <2>7 DEF Upsert, Commit
    <3>2. ~HttpAnnounces(n)'
      BY <2>4, <2>7 DEF HttpAnnounces
    <3>3. RowsFollow(n)
      BY <2>4, RowsStay
    <3> QED
      BY <1>0, <2>4, <2>5, <3>1, <3>2, <3>3, TracedHttpQuiet
  <2> QED
    BY <2>6, <2>7
<1>4. CASE PatchReread
  <2>1. PICK k \in Node : k = http.node
    BY <1>0, <1>4 DEF PatchReread, HttpIsWhole
  <2>2. /\ http.step = "reread" /\ tool' = tool
        /\ UNCHANGED <<log, rows, flagged, node, astray>>
    BY <1>4 DEF PatchReread, outboxVars, tableVars, storeVars
  <2>3. PICK h : h = IF node[k] = 0 THEN IdleHttp
                     ELSE [http EXCEPT !.step = "publish", !.ver = node[k]]
    OBVIOUS
  <2>4. http' = h
    BY <1>4, <2>1, <2>3 DEF PatchReread
  <2>5. CASE k = n
    <3>1. HttpAnnounces(n) /\ n \notin astray
      BY <2>1, <2>2, <2>5 DEF HttpAnnounces
    <3>2. node[n] # 0
      BY <2>2, <3>1 DEF Traced, Says
    <3>3. h.step = "publish" /\ h.ver = node[n] /\ h.node = n
      BY <1>0, <2>1, <2>3, <2>5, <3>2 DEF HttpWork, Work
    <3>4. /\ HttpAnnounces(n)' /\ Says(http, n)'
      BY <2>2, <2>4, <3>3 DEF HttpAnnounces, Says
    <3>5. (\A w \in Writer : ~Announces(w, n)) /\ (\A i \in Pending : ~About(log[i], n))
      BY <3>1 DEF Traced
    <3>6. (\A w \in Writer : ~Announces(w, n)') /\ (\A i \in Pending' : ~About(log'[i], n))
      BY <2>2, <3>5 DEF Announces, Pending
    <3> QED
      BY <3>4, <3>6 DEF Traced
  <2>6. CASE k # n
    <3>1. ~HttpAnnounces(n)
      BY <2>1, <2>6 DEF HttpAnnounces
    <3>2. h.step \in {"reread", "publish"} => h.node = k
      BY <1>0, <2>1, <2>3 DEF HttpWork, Work, IdleHttp
    <3>3. ~HttpAnnounces(n)'
      BY <2>4, <2>6, <3>2 DEF HttpAnnounces
    <3>4. RowsFollow(n) /\ node'[n] = node[n] /\ n \notin astray
      BY <2>2, RowsStay
    <3> QED
      BY <1>0, <2>2, <3>1, <3>3, <3>4, TracedHttpQuiet
  <2> QED
    BY <2>5, <2>6
<1>5. CASE HttpPublish
  <2>1. /\ http.step = "publish" /\ tool' = tool /\ http' = IdleHttp
        /\ UNCHANGED <<log, rows, flagged, node, astray>>
    BY <1>5 DEF HttpPublish, outboxVars, tableVars, storeVars
  <2>2. ~HttpAnnounces(n)'
    BY <2>1 DEF HttpAnnounces, IdleHttp
  <2>3. CASE HttpAnnounces(n)
    <3>1. (\A w \in Writer : ~Announces(w, n)) /\ (\A i \in Pending : ~About(log[i], n))
      BY <2>1, <2>3 DEF Traced
    <3>2. (\A w \in Writer : ~Announces(w, n)') /\ (\A i \in Pending' : ~About(log'[i], n))
      BY <2>1, <3>1 DEF Announces, Pending
    <3> QED
      BY <2>2, <3>2 DEF Traced
  <2>4. CASE ~HttpAnnounces(n)
    <3>1. RowsFollow(n) /\ node'[n] = node[n] /\ n \notin astray
      BY <2>1, RowsStay
    <3> QED
      BY <1>0, <2>1, <2>2, <2>4, <3>1, TracedHttpQuiet
  <2> QED
    BY <2>3, <2>4
<1>6. CASE StopServer
  <2>1. /\ tool' = tool /\ http' = IdleHttp
        /\ UNCHANGED <<log, rows, flagged, node>>
        /\ astray' = IF http.step \in {"reread", "publish"}
                        THEN astray \union {http.node} ELSE astray
    BY <1>6 DEF StopServer, Outbox!Stop, Outbox!tableVars
  <2>2. ~HttpAnnounces(n)'
    BY <2>1 DEF HttpAnnounces, IdleHttp
  <2>3. ~HttpAnnounces(n) /\ n \notin astray
    BY <2>1 DEF HttpAnnounces
  <2>4. RowsFollow(n) /\ node'[n] = node[n]
    BY <2>1, RowsStay
  <2> QED
    BY <1>0, <2>1, <2>2, <2>3, <2>4, TracedHttpQuiet
<1> QED
  BY <1>1, <1>2, <1>3, <1>4, <1>5, <1>6 DEF HttpContinues

LEMMA TracedSilent ==
    ASSUME TypeOK, NEW n \in Node, Traced(n), SilentCommit
    PROVE  Traced(n)'
<1> SUFFICES ASSUME n \notin astray' PROVE Traced(n)'
  BY DEF Traced
<1>1. /\ n \notin astray /\ node'[n] = node[n]
      /\ UNCHANGED <<log, rows, flagged, tool, http>>
  BY SilentFrame DEF outboxVars, tableVars
<1>2. RowsFollow(n)
  BY <1>1, RowsStay
<1>3. /\ \A w \in Writer : (Announces(w, n)' <=> Announces(w, n)) /\ tool'[w] = tool[w]
      /\ HttpAnnounces(n)' <=> HttpAnnounces(n)
  BY <1>1 DEF Announces, HttpAnnounces
<1> QED
  BY <1>1, <1>2, <1>3, TracedFrame

LEMMA TracedStep ==
    ASSUME SyncTypes, PollerOrder, NEW n \in Node, Traced(n), [Next]_vars
    PROVE  Traced(n)'
<1>1. TypeOK /\ PollerMoves
  BY PollerMovesStep DEF SyncTypes
<1>2. CASE PollerStep \/ StartServer \/ (\E v \in Viewer : ViewerStep(v)) \/ UNCHANGED vars
  <2>1. UNCHANGED <<node, astray, tool, http>>
    BY <1>2, OtherSteps DEF storeVars
  <2>2. ASSUME NEW m \in Message, Outbox!Enqueue(m) PROVE FALSE
    <3>1. log' = Append(log, m) /\ log \in Seq(Message)
      BY <1>1, <2>2 DEF Outbox!Enqueue, TypeOK, Outbox!TypeOK
    <3>2. log' = log
      <4>1. CASE PollerStep
        BY <1>1, <4>1, PollerBroadcasts
        DEF PollerStep, Outbox!Fetch, Outbox!Mark, Outbox!MarkFails, Outbox!tableVars
      <4>2. CASE StartServer
        BY <4>2 DEF StartServer, Outbox!Start
      <4>3. ASSUME NEW v \in Viewer, ViewerStep(v) PROVE log' = log
        BY <4>3 DEF ViewerStep, OpenPage, Subscribe, Drop, Snapshot, FetchFails, ApplySnapshot,
                    Deliver, EndEdit, StartEdit, outboxVars, tableVars
      <4>4. CASE UNCHANGED vars
        BY <4>4 DEF vars, outboxVars, tableVars
      <4> QED
        BY <1>2, <4>1, <4>2, <4>3, <4>4
    <3>3. Append(log, m) # log
      BY <3>1
    <3> QED
      BY <3>1, <3>2, <3>3
  <2>3. RowsFollow(n)
    BY <1>1, <2>2, RowsFollowStep
  <2>4. /\ \A w \in Writer : (Announces(w, n)' <=> Announces(w, n)) /\ tool'[w] = tool[w]
        /\ HttpAnnounces(n)' <=> HttpAnnounces(n)
    BY <2>1 DEF Announces, HttpAnnounces
  <2> QED
    BY <1>1, <2>1, <2>3, <2>4, TracedFrame
<1>3. ASSUME NEW w \in Writer, ToolStep(w) PROVE Traced(n)'
  BY <1>1, <1>3, TracedToolStep
<1>4. CASE (\E k \in Node : Post(k) \/ BeginPatch(k)) \/ HttpContinues \/ StopServer
  BY <1>4, TracedHttpStep
<1>5. CASE SilentCommit
  BY <1>1, <1>5, TracedSilent
<1> QED
  BY <1>2, <1>3, <1>4, <1>5 DEF Next

-----------------------------------------------------------------------------
(***************************************************************************)
(* A node is quiet when its last commit has been announced and every row   *)
(* about it has gone out in this pass of the poller.  A step after which a *)
(* node is quiet leaves it as it was, or puts on the bus an event that     *)
(* says what is stored.                                                    *)
(***************************************************************************)
Quiet(n) ==
    /\ n \notin astray
    /\ ~Announcing(n)
    /\ \A i \in Pending \ sent[Srv] : ~About(log[i], n)

\* The rows about n that the poller has yet to publish in this pass stay so.
UnsentStay(n) ==
    \A i \in Pending \ sent[Srv] : About(log[i], n) =>
        i \in Pending' \ sent'[Srv] /\ log'[i] = log[i]

LEMMA QuietFrame ==
    ASSUME NEW n \in Node, Quiet(n)', n \notin astray' => n \notin astray,
           node'[n] = node[n], Announcing(n) => Announcing(n)', UnsentStay(n)
    PROVE  Quiet(n) /\ node'[n] = node[n]
<1>1. n \notin astray /\ ~Announcing(n)
  BY DEF Quiet
<1>2. \A i \in Pending \ sent[Srv] : ~About(log[i], n)
  BY DEF Quiet, UnsentStay
<1> QED
  BY <1>1, <1>2 DEF Quiet

LEMMA UnsentStayStep ==
    ASSUME TypeOK, NEW n \in Node, PollerMoves, ~PollerPublishes
    PROVE  UnsentStay(n)
<1>0. /\ log \in Seq(Message) /\ Len(log) \in Nat
      /\ rows \in SUBSET (1 .. Len(log)) /\ flagged \in SUBSET rows
      /\ batch \in [{Srv} -> SUBSET (1 .. Len(log))] /\ sent \in [{Srv} -> SUBSET (1 .. Len(log))]
  BY DEF TypeOK, Outbox!TypeOK, Outbox!Id
<1>1. CASE UNCHANGED <<log, rows, flagged, sent>>
  BY <1>1 DEF UnsentStay, Pending
<1>2. ASSUME NEW m \in Message, Outbox!Enqueue(m) PROVE UnsentStay(n)
  <2>1. /\ log' = Append(log, m) /\ rows' = rows \union {Len(log) + 1}
        /\ flagged' = flagged /\ sent' = sent
    BY <1>2 DEF Outbox!Enqueue, Outbox!serverVars
  <2>2. \A i \in 1 .. Len(log) : log'[i] = log[i]
    BY <1>0, <2>1
  <2>3. Pending \subseteq Pending' /\ Pending \subseteq 1 .. Len(log)
    BY <1>0, <2>1 DEF Pending
  <2> QED
    BY <2>1, <2>2, <2>3 DEF UnsentStay
<1>3. CASE Outbox!Fetch(Srv)
  BY <1>1, <1>3 DEF Outbox!Fetch, Outbox!tableVars
<1>4. CASE Outbox!Mark(Srv)
  <2>1. Pending' = Pending \ sent[Srv] /\ log' = log /\ sent'[Srv] = {}
    BY <1>0, <1>4 DEF Outbox!Mark, Pending
  <2> QED
    BY <2>1 DEF UnsentStay
<1>5. CASE Outbox!MarkFails(Srv) \/ Outbox!Stop(Srv)
  <2>1. Pending' = Pending /\ log' = log /\ sent'[Srv] = {}
    BY <1>0, <1>5 DEF Outbox!MarkFails, Outbox!Stop, Outbox!tableVars, Pending
  <2> QED
    BY <2>1 DEF UnsentStay
<1>6. CASE Outbox!Start(Srv)
  <2>1. Pending' = Pending /\ log' = log /\ sent' = sent
    BY <1>0, <1>6 DEF Outbox!Start, Outbox!Unpublished, Pending
  <2> QED
    BY <2>1 DEF UnsentStay
<1> QED
  BY <1>1, <1>2, <1>3, <1>4, <1>5, <1>6 DEF PollerMoves

\* A tool moves that does not announce n.
LEMMA QuietToolMoves ==
    ASSUME TypeOK, NEW n \in Node, NEW w \in Writer, NEW t,
           ~Announces(w, n), tool' = [tool EXCEPT ![w] = t], http' = http
    PROVE  Announcing(n) => Announcing(n)'
<1>1. \A x \in Writer : x # w => (Announces(x, n)' <=> Announces(x, n))
  BY AnnouncesMoves
<1>2. HttpAnnounces(n)' <=> HttpAnnounces(n)
  BY DEF HttpAnnounces
<1>3. Announcing(n)' <=> HttpAnnounces(n)' \/ \E x \in Writer : Announces(x, n)'
  BY DEF Announcing, HttpAnnounces, Announces
<1> QED
  BY <1>1, <1>2, <1>3, AnnouncingIs

\* A tool that announces n after the step keeps n from being quiet.
LEMMA AnnouncedIsNotQuiet ==
    ASSUME NEW n \in Node, HttpAnnounces(n)' \/ \E w \in Writer : Announces(w, n)'
    PROVE  ~Quiet(n)'
<1>1. Announcing(n)'
  BY DEF Announcing, HttpAnnounces, Announces
<1> QED
  BY <1>1 DEF Quiet

LEMMA QuietToolStep ==
    ASSUME SyncTypes, NEW n \in Node, Traced(n), NEW w \in Writer, ToolStep(w), Quiet(n)',
           PollerMoves, ~PollerPublishes
    PROVE  Quiet(n) /\ node'[n] = node[n]
<1>0. TypeOK /\ WorkIsWhole /\ node \in [Node -> 0 .. MaxWrites]
      /\ tool[w] \in ToolWork /\ ToolIsWhole(tool[w]) /\ n \notin astray'
  BY DEF SyncTypes, TypeOK, ToolWork, WorkIsWhole, Quiet
<1>1. UnsentStay(n)
  BY <1>0, UnsentStayStep
<1>2. ASSUME NEW k \in Node, BeginUpdate(w, k) PROVE Quiet(n) /\ node'[n] = node[n]
  <2>1. PICK t : t = [step |-> "upsert", node |-> k, ver |-> 0,
                      kind |-> IF node[k] = 0 THEN "node.created" ELSE "node.updated"]
    OBVIOUS
  <2>2. /\ tool' = [tool EXCEPT ![w] = t] /\ tool[w].step = "idle"
        /\ UNCHANGED <<node, astray, http>>
    BY <1>2, <2>1 DEF BeginUpdate, storeVars
  <2>3. ~Announces(w, n)
    BY <2>2 DEF Announces
  <2>4. Announcing(n) => Announcing(n)'
    BY <1>0, <2>2, <2>3, QuietToolMoves
  <2> QED
    BY <1>1, <2>2, <2>4, QuietFrame
<1>3. CASE UpsertNode(w)
  <2>1. PICK t : t = [tool[w] EXCEPT !.step = "reread"]
    OBVIOUS
  <2>2. PICK k \in Node : k = tool[w].node
    BY <1>0, <1>3 DEF UpsertNode, ToolIsWhole
  <2>3. PICK o \in BOOLEAN : o = Announcing(k)
    BY DEF Announcing
  <2>4. Upsert(k, o)
    BY <1>3, <2>2, <2>3 DEF UpsertNode
  <2>5. /\ tool' = [tool EXCEPT ![w] = t] /\ tool[w].step = "upsert" /\ http' = http
        /\ t.step = "reread" /\ t.node = k
    BY <1>0, <1>3, <2>1, <2>2 DEF UpsertNode, TypeOK, ToolWork, Work
  <2>6. k # n
    <3>1. k = n => Announces(w, n)'
      BY <1>0, <2>5, AnnouncesMoves
    <3> QED
      BY <3>1, AnnouncedIsNotQuiet
  <2>7. node'[n] = node[n] /\ n \notin astray
    BY <1>0, <2>4, <2>6 DEF Upsert, Commit
  <2>8. ~Announces(w, n)
    BY <2>5 DEF Announces
  <2>9. Announcing(n) => Announcing(n)'
    BY <1>0, <2>5, <2>8, QuietToolMoves
  <2> QED
    BY <1>1, <2>7, <2>9, QuietFrame
<1>4. CASE Reread(w)
  <2>1. PICK k \in Node : k = tool[w].node
    BY <1>0, <1>4 DEF Reread, ToolIsWhole
  <2>2. PICK t : t = IF node[k] = 0 THEN IdleTool
                     ELSE [tool[w] EXCEPT !.step = "event", !.ver = node[k]]
    OBVIOUS
  <2>3. /\ tool[w].step = "reread" /\ tool' = [tool EXCEPT ![w] = t]
        /\ UNCHANGED <<node, astray, http>>
    BY <1>0, <1>4, <2>1, <2>2 DEF Reread, TypeOK, storeVars
  <2>4. k # n
    <3> SUFFICES ASSUME k = n PROVE FALSE
      OBVIOUS
    <3>1. Announces(w, n) /\ n \notin astray
      BY <1>0, <2>1, <2>3 DEF Announces
    <3>2. node[n] # 0
      BY <2>3, <3>1 DEF Traced, Says
    <3>3. t.step = "event" /\ t.node = n
      BY <1>0, <2>1, <2>2, <3>2 DEF ToolWork, Work
    <3>4. Announces(w, n)'
      BY <1>0, <2>3, <3>3, AnnouncesMoves
    <3> QED
      BY <3>4, AnnouncedIsNotQuiet
  <2>5. ~Announces(w, n)
    BY <2>1, <2>4 DEF Announces
  <2>6. Announcing(n) => Announcing(n)'
    BY <1>0, <2>3, <2>5, QuietToolMoves
  <2> QED
    BY <1>1, <2>3, <2>6, QuietFrame
<1>5. ASSUME NEW k \in Node, DeleteNode(w, k) PROVE Quiet(n) /\ node'[n] = node[n]
  <2>1. PICK t : t = IF node[k] = 0
              THEN [step |-> "receipt", node |-> k, kind |-> "tool.invoked", ver |-> 0]
              ELSE [step |-> "event", node |-> k, kind |-> "node.deleted", ver |-> 0]
    OBVIOUS
  <2>2. tool' = [tool EXCEPT ![w] = t] /\ tool[w].step = "idle" /\ http' = http
    BY <1>5, <2>1 DEF DeleteNode
  <2>3. PICK o \in BOOLEAN : o = Announcing(k)
    BY DEF Announcing
  <2>4. IF node[k] = 0 THEN UNCHANGED storeVars ELSE Commit(k, 0, o)
    BY <1>5, <2>3 DEF DeleteNode
  <2>5. node[k] = 0 \/ k # n
    <3>1. node[k] # 0 /\ k = n => t.node = n /\ t.step = "event"
      BY <2>1
    <3>2. node[k] # 0 /\ k = n => Announces(w, n)'
      BY <1>0, <2>2, <3>1, AnnouncesMoves, ZenonT(30)
    <3> QED
      BY <3>2, AnnouncedIsNotQuiet
  <2>6. node'[n] = node[n] /\ n \notin astray
    BY <1>0, <2>4, <2>5 DEF Commit, storeVars
  <2>7. ~Announces(w, n)
    BY <2>2 DEF Announces
  <2>8. Announcing(n) => Announcing(n)'
    BY <1>0, <2>2, <2>7, QuietToolMoves
  <2> QED
    BY <1>1, <2>6, <2>8, QuietFrame
<1>6. CASE EnqueueEvent(w)
  <2>1. PICK k \in Node : k = tool[w].node
    BY <1>0, <1>6 DEF EnqueueEvent, ToolIsWhole
  <2>2. PICK t : t = [tool[w] EXCEPT !.step = "receipt"]
    OBVIOUS
  <2>3. PICK m \in Data \union Deleted : m = ToolMessage(w)
    BY <1>0, <1>6, MessagesAreTyped DEF EnqueueEvent
  <2>4. /\ tool' = [tool EXCEPT ![w] = t] /\ Outbox!Enqueue(m)
        /\ UNCHANGED <<node, astray, http>>
    BY <1>0, <1>6, <2>2, <2>3 DEF EnqueueEvent, ToolMessage, TypeOK, storeVars
  <2>5. k # n
    <3> SUFFICES ASSUME k = n PROVE FALSE
      OBVIOUS
    <3>1. m \in Message /\ About(m, n)
      BY <2>1, <2>3 DEF ToolMessage, About, IsNodeEvent, Data, Deleted, DataKind, Message
    <3>2. /\ log' = Append(log, m) /\ rows' = rows \union {Len(log) + 1}
          /\ flagged' = flagged /\ sent' = sent
      BY <2>4 DEF Outbox!Enqueue, Outbox!serverVars
    <3>3. PICK l \in Nat : l = Len(log) /\ log \in Seq(Message)
      BY <1>0 DEF TypeOK, Outbox!TypeOK
    <3>4. flagged \subseteq 1 .. l /\ sent[Srv] \subseteq 1 .. l
      BY <1>0, <3>3 DEF TypeOK, Outbox!TypeOK, Outbox!Id
    <3>5. log'[l + 1] = m
      BY <3>1, <3>2, <3>3
    <3>6. l + 1 \in Pending' \ sent'[Srv]
      BY <3>2, <3>3, <3>4 DEF Pending
    <3> QED
      BY <3>1, <3>5, <3>6 DEF Quiet
  <2>6. ~Announces(w, n)
    BY <2>1, <2>5 DEF Announces
  <2>7. Announcing(n) => Announcing(n)'
    BY <1>0, <2>4, <2>6, QuietToolMoves
  <2> QED
    BY <1>1, <2>4, <2>7, QuietFrame
<1>7. CASE EnqueueReceipt(w) \/ Abort(w)
  <2>1. /\ tool' = [tool EXCEPT ![w] = IdleTool] /\ UNCHANGED <<node, http>>
    BY <1>7 DEF EnqueueReceipt, Abort, storeVars
  <2>2. ~Announces(w, n) /\ n \notin astray
    BY <1>0, <1>7 DEF EnqueueReceipt, Abort, Announces, storeVars
  <2>3. Announcing(n) => Announcing(n)'
    BY <1>0, <2>1, <2>2, QuietToolMoves
  <2> QED
    BY <1>1, <2>1, <2>2, <2>3, QuietFrame
<1> QED
  BY <1>2, <1>3, <1>4, <1>5, <1>6, <1>7 DEF ToolStep, ToolContinues

\* The server moves, and did not announce n.
LEMMA QuietHttpMoves ==
    ASSUME NEW n \in Node, ~HttpAnnounces(n), tool' = tool
    PROVE  Announcing(n) => Announcing(n)'
<1>1. \A w \in Writer : Announces(w, n)' <=> Announces(w, n)
  BY DEF Announces
<1>2. Announcing(n)' <=> HttpAnnounces(n)' \/ \E w \in Writer : Announces(w, n)'
  BY DEF Announcing, HttpAnnounces, Announces
<1> QED
  BY <1>1, <1>2, AnnouncingIs

\* A message on the bus that says what is stored of n.
Confirms(m, n) ==
    /\ Broadcast(m) /\ UNCHANGED <<pageVars, conn>>
    /\ About(m, n) /\ m.ver = node[n] /\ node'[n] = node[n]

LEMMA QuietHttpStep ==
    ASSUME SyncTypes, NEW n \in Node, Traced(n), Quiet(n)', PollerMoves, ~PollerPublishes,
           (\E k \in Node : Post(k) \/ BeginPatch(k)) \/ HttpContinues \/ StopServer
    PROVE  \/ Quiet(n) /\ node'[n] = node[n]
           \/ \E m \in Message : Confirms(m, n)
<1>0. TypeOK /\ WorkIsWhole /\ node \in [Node -> 0 .. MaxWrites]
      /\ http \in HttpWork /\ HttpIsWhole(http) /\ n \notin astray'
  BY DEF SyncTypes, TypeOK, HttpWork, WorkIsWhole, Quiet
<1>1. UnsentStay(n)
  BY <1>0, UnsentStayStep
<1>2. ASSUME NEW k \in Node, Post(k) PROVE Quiet(n) /\ node'[n] = node[n]
  <2>0. PICK whole \in BOOLEAN :
          /\ Upsert(k, Announcing(k) \/ Queued(k) \/ ~whole)
          /\ http' = [step |-> "publish", node |-> k, kind |-> "node.created",
                      ver |-> IF whole THEN clock + 1 ELSE Fragment]
    BY <1>2 DEF Post
  <2>1. PICK o \in BOOLEAN : o = (Announcing(k) \/ Queued(k) \/ ~whole)
    OBVIOUS
  <2>2. Upsert(k, o)
    BY <2>0, <2>1
  <2>3. http.step = "idle" /\ tool' = tool /\ http'.step = "publish" /\ http'.node = k
    BY <1>2, <2>0 DEF Post, LoopFree
  <2>4. k # n
    BY <2>3, AnnouncedIsNotQuiet DEF HttpAnnounces
  <2>5. node'[n] = node[n] /\ n \notin astray
    BY <1>0, <2>2, <2>4 DEF Upsert, Commit
  <2>6. Announcing(n) => Announcing(n)'
    BY <2>3, QuietHttpMoves DEF HttpAnnounces
  <2> QED
    BY <1>1, <2>5, <2>6, QuietFrame
<1>3. ASSUME NEW k \in Node, BeginPatch(k) PROVE Quiet(n) /\ node'[n] = node[n]
  <2>1. http.step = "idle" /\ tool' = tool /\ UNCHANGED <<node, astray>>
    BY <1>3 DEF BeginPatch, LoopFree, storeVars
  <2>2. Announcing(n) => Announcing(n)'
    BY <2>1, QuietHttpMoves DEF HttpAnnounces
  <2> QED
    BY <1>1, <2>1, <2>2, QuietFrame
<1>4. CASE PatchUpsert
  <2>1. PICK k \in Node : k = http.node
    BY <1>0, <1>4 DEF PatchUpsert, HttpIsWhole
  <2>2. PICK o \in BOOLEAN : o = (Announcing(k) \/ Queued(k))
    OBVIOUS
  <2>3. Upsert(k, o)
    BY <1>4, <2>1, <2>2 DEF PatchUpsert
  <2>4. /\ http.step = "upsert" /\ tool' = tool
        /\ http'.step = "reread" /\ http'.node = k
    BY <1>0, <1>4, <2>1 DEF PatchUpsert, HttpWork, Work
  <2>5. k # n
    BY <2>4, AnnouncedIsNotQuiet DEF HttpAnnounces
  <2>6. node'[n] = node[n] /\ n \notin astray
    BY <1>0, <2>3, <2>5 DEF Upsert, Commit
  <2>7. Announcing(n) => Announcing(n)'
    BY <2>4, QuietHttpMoves DEF HttpAnnounces
  <2> QED
    BY <1>1, <2>6, <2>7, QuietFrame
<1>5. CASE PatchReread
  <2>1. PICK k \in Node : k = http.node
    BY <1>0, <1>5 DEF PatchReread, HttpIsWhole
  <2>2. http.step = "reread" /\ tool' = tool /\ UNCHANGED <<node, astray>>
    BY <1>5 DEF PatchReread, storeVars
  <2>3. PICK h : h = IF node[k] = 0 THEN IdleHttp
                     ELSE [http EXCEPT !.step = "publish", !.ver = node[k]]
    OBVIOUS
  <2>4. http' = h
    BY <1>5, <2>1, <2>3 DEF PatchReread
  <2>5. k # n
    <3> SUFFICES ASSUME k = n PROVE FALSE
      OBVIOUS
    <3>1. HttpAnnounces(n) /\ n \notin astray
      BY <1>0, <2>1, <2>2 DEF HttpAnnounces
    <3>2. node[n] # 0
      BY <2>2, <3>1 DEF Traced, Says
    <3>3. h.step = "publish" /\ h.node = n
      BY <1>0, <2>1, <2>3, <3>2 DEF HttpWork, Work
    <3> QED
      BY <2>4, <3>3, AnnouncedIsNotQuiet DEF HttpAnnounces
  <2>6. ~HttpAnnounces(n)
    BY <2>1, <2>5 DEF HttpAnnounces
  <2>7. Announcing(n) => Announcing(n)'
    BY <2>2, <2>6, QuietHttpMoves
  <2> QED
    BY <1>1, <2>2, <2>7, QuietFrame
<1>6. CASE HttpPublish
  <2>1. /\ http.step = "publish" /\ tool' = tool
        /\ UNCHANGED <<node, astray, pageVars, conn>>
    BY <1>6 DEF HttpPublish, storeVars
  <2>2. CASE ~HttpAnnounces(n)
    <3>1. Announcing(n) => Announcing(n)'
      BY <2>1, <2>2, QuietHttpMoves
    <3> QED
      BY <1>1, <2>1, <3>1, QuietFrame
  <2>3. CASE HttpAnnounces(n)
    <3>1. PICK m \in Data : m = HttpMessage
      BY <1>0, <2>1, MessagesAreTyped
    <3>2. Broadcast(m)
      BY <1>6, <3>1 DEF HttpPublish, HttpMessage
    <3>3. http.ver = node[n]
      BY <1>0, <2>1, <2>3 DEF Traced, Says
    <3>4. About(m, n) /\ m.ver = node[n] /\ m \in Message
      BY <2>3, <3>1, <3>3
      DEF HttpAnnounces, HttpMessage, About, IsNodeEvent, Data, DataKind, Message
    <3> QED
      BY <2>1, <3>2, <3>4 DEF Confirms
  <2> QED
    BY <2>2, <2>3
<1>7. CASE StopServer
  <2>1. /\ tool' = tool /\ node' = node
        /\ astray' = IF http.step \in {"reread", "publish"}
                        THEN astray \union {http.node} ELSE astray
    BY <1>7 DEF StopServer
  <2>2. ~HttpAnnounces(n) /\ n \notin astray
    BY <1>0, <2>1 DEF HttpAnnounces
  <2>3. Announcing(n) => Announcing(n)'
    BY <2>1, <2>2, QuietHttpMoves
  <2> QED
    BY <1>1, <2>1, <2>2, <2>3, QuietFrame
<1> QED
  BY <1>2, <1>3, <1>4, <1>5, <1>6, <1>7 DEF HttpContinues

LEMMA QuietPollerStep ==
    ASSUME SyncTypes, PollerOrder, NEW n \in Node, Traced(n), Quiet(n)', PollerPublishes
    PROVE  \E m \in Message :
              /\ Broadcast(m) /\ UNCHANGED <<pageVars, conn>>
              /\ \/ ~About(m, n) /\ Quiet(n) /\ node'[n] = node[n]
                 \/ Confirms(m, n)
<1>0. TypeOK
  BY DEF SyncTypes
<1>1. UNCHANGED <<node, astray, tool, http, pageVars, conn>>
  BY DEF PollerPublishes, storeVars
<1>2. PICK i \in batch[Srv], m \in Message :
          /\ i \in 1 .. Len(log) /\ m = log[i] /\ Broadcast(m)
          /\ sent' = [sent EXCEPT ![Srv] = @ \union {i}]
          /\ UNCHANGED <<log, rows, flagged, up>>
  BY <1>0, PollerBroadcasts
<1>3. sent'[Srv] = sent[Srv] \union {i} /\ Pending' = Pending /\ log' = log
  BY <1>0, <1>2 DEF TypeOK, Outbox!TypeOK, Pending
<1>4. Announcing(n) <=> Announcing(n)'
  BY <1>1 DEF Announcing
<1>5. n \notin astray /\ ~Announcing(n)
  BY <1>1, <1>4 DEF Quiet
<1>6. \A j \in Pending \ (sent[Srv] \union {i}) : ~About(log[j], n)
  BY <1>3 DEF Quiet
<1>7. CASE ~About(m, n)
  <2>1. Quiet(n)
    BY <1>2, <1>5, <1>6, <1>7 DEF Quiet
  <2> QED
    BY <1>1, <1>2, <1>7, <2>1
<1>8. CASE About(m, n)
  <2>1. i \in Pending \ sent[Srv]
    BY DEF PollerOrder
  <2>2. ASSUME NEW j \in Pending, About(log[j], n) PROVE j <= i
    <3>1. i \in Nat /\ j \in Nat
      BY <1>0, <1>2 DEF Pending, TypeOK, Outbox!TypeOK, Outbox!Id
    <3>2. j \in sent[Srv] => j < i
      BY <2>1 DEF PollerOrder
    <3> QED
      BY <1>6, <2>2, <3>1, <3>2
  <2>3. ~HttpAnnounces(n) /\ \A w \in Writer : ~Announces(w, n)
    BY <1>5, AnnouncingIs
  <2>4. m.ver = node[n]
    BY <1>2, <1>5, <1>8, <2>1, <2>2, <2>3 DEF Traced
  <2> QED
    BY <1>1, <1>2, <1>8, <2>4 DEF Confirms
<1> QED
  BY <1>7, <1>8

LEMMA QuietSilent ==
    ASSUME TypeOK, NEW n \in Node, Quiet(n)', PollerMoves, ~PollerPublishes, SilentCommit
    PROVE  Quiet(n) /\ node'[n] = node[n]
<1>1. n \notin astray /\ node'[n] = node[n] /\ UNCHANGED <<tool, http>>
  BY SilentFrame DEF Quiet
<1>2. Announcing(n) => Announcing(n)'
  BY <1>1 DEF Announcing
<1>3. UnsentStay(n)
  BY UnsentStayStep
<1> QED
  BY <1>1, <1>2, <1>3, QuietFrame

\* A step of a viewer, of the poller between publishes, or none.
LEMMA QuietOtherStep ==
    ASSUME SyncTypes, NEW n \in Node, Quiet(n)', PollerMoves, ~PollerPublishes,
           UNCHANGED <<storeVars, tool, http>>
    PROVE  Quiet(n) /\ node'[n] = node[n]
<1>1. UNCHANGED <<node, astray, tool, http>> /\ TypeOK
  BY DEF storeVars, SyncTypes
<1>2. Announcing(n) => Announcing(n)'
  BY <1>1 DEF Announcing
<1>3. UnsentStay(n)
  BY <1>1, UnsentStayStep
<1> QED
  BY <1>1, <1>2, <1>3, QuietFrame

-----------------------------------------------------------------------------
(***************************************************************************)
(* What a page will show of n once its channel is drained and its snapshot *)
(* applied: the last event about n on the way to it, else the last one     *)
(* buffered, else what it has read.  A quiet node that the page has not    *)
(* missed, or of which an event is on its way, will be shown as stored.    *)
(***************************************************************************)
WillShow(v, n, x) ==
    \/ LastSays(channel[v], n, x)
    \/ Silent(channel[v], n) /\ LastSays(buffer[v], n, x)
    \/ /\ Silent(channel[v], n) /\ Silent(buffer[v], n)
       /\ page[v] = "read" => snap[v][n] = x
       /\ page[v] = "ready" => view[v][n] = x

Expects(v, n) ==
    /\ page[v] \in {"loading", "read", "ready"}
    /\ n \notin missed[v] \/ ~Silent(channel[v], n)

Follows(v, n) == Quiet(n) /\ Expects(v, n) => WillShow(v, n, node[n])

PageShape(v) ==
    /\ ~conn[v] => channel[v] = <<>>
    /\ page[v] = "closed" => ~conn[v] /\ buffer[v] = <<>>
    /\ page[v] = "ready" => buffer[v] = <<>>

LEMMA EmptyIsSilent == \A n : Silent(<<>>, n)
BY DEF Silent

LEMMA LastSaysOne ==
    ASSUME NEW S, NEW q \in Seq(S), NEW n, NEW x, NEW y, LastSays(q, n, x), LastSays(q, n, y)
    PROVE  x = y
<1>1. PICK i \in 1 .. Len(q) :
        /\ About(q[i], n) /\ q[i].ver = x
        /\ \A j \in DOMAIN q : About(q[j], n) => j <= i
  BY DEF LastSays
<1>2. PICK k \in 1 .. Len(q) :
        /\ About(q[k], n) /\ q[k].ver = y
        /\ \A j \in DOMAIN q : About(q[j], n) => j <= k
  BY DEF LastSays
<1>3. i <= k /\ k <= i
  BY <1>1, <1>2
<1>4. i = k
  BY <1>3
<1> QED
  BY <1>1, <1>2, <1>4

\* The viewer v is not touched.
LEMMA FollowsFrame ==
    ASSUME NEW v \in Viewer, NEW n \in Node, Follows(v, n), Quiet(n), node'[n] = node[n],
           channel'[v] = channel[v], buffer'[v] = buffer[v], page'[v] = page[v],
           snap'[v] = snap[v], view'[v] = view[v], missed'[v] = missed[v]
    PROVE  Follows(v, n)'
<1>1. Expects(v, n)' => Expects(v, n)
  BY DEF Expects
<1>2. WillShow(v, n, node[n]) => WillShow(v, n, node[n])'
  BY DEF WillShow
<1> QED
  BY <1>1, <1>2 DEF Follows

LEMMA FollowsBroadcast ==
    ASSUME TypeOK, NEW v \in Viewer, NEW n \in Node, PageShape(v), Follows(v, n),
           NEW m \in Message, Broadcast(m), UNCHANGED <<pageVars, conn>>,
           Confirms(m, n) \/ (~About(m, n) /\ Quiet(n) /\ node'[n] = node[n])
    PROVE  Follows(v, n)'
<1>0. UNCHANGED <<page, buffer, snap, view, conn>>
  BY DEF pageVars
<1>1. PICK q \in Seq(Message) : q = channel[v]
  BY DEF TypeOK
<1>2. /\ channel'[v] = IF conn[v] THEN Append(q, m) ELSE q
      /\ missed'[v] = IF ~conn[v] /\ IsNodeEvent(m) /\ Exposed(v, m.node)
                         THEN missed[v] \union {m.node} ELSE missed[v]
  BY <1>1 DEF Broadcast
<1>3. node'[n] = node[n]
  BY DEF Confirms
<1>4. CASE About(m, n)
  <2>1. m.ver = node[n]
    BY <1>4 DEF Confirms
  <2>2. CASE conn[v]
    <3>1. LastSays(channel'[v], n, node[n])
      BY <1>2, <1>4, <2>1, <2>2, AppendAbout
    <3> QED
      BY <1>3, <3>1 DEF Follows, WillShow
  <2>3. CASE ~conn[v]
    <3>1. q = <<>> /\ channel'[v] = <<>>
      BY <1>1, <1>2, <2>3 DEF PageShape
    <3>2. Silent(channel'[v], n)
      BY <3>1, EmptyIsSilent
    <3>3. CASE Exposed(v, n)
      <4>1. n \in missed'[v]
        BY <1>2, <1>4, <2>3, <3>3 DEF About
      <4> QED
        BY <3>2, <4>1 DEF Follows, Expects
    <3>4. CASE ~Exposed(v, n)
      <4>1. Expects(v, n)' => page'[v] = "loading" /\ Silent(buffer'[v], n)
        BY <1>0, <3>4 DEF Expects, Exposed, Silent, About
      <4> QED
        BY <3>2, <4>1 DEF Follows, WillShow
    <3> QED
      BY <3>3, <3>4
  <2> QED
    BY <2>2, <2>3
<1>5. CASE ~About(m, n)
  <2>0. Quiet(n)
    BY <1>5 DEF Confirms
  <2>1. n \in missed'[v] <=> n \in missed[v]
    BY <1>2, <1>5 DEF About
  <2>2. /\ Silent(channel'[v], n) <=> Silent(q, n)
        /\ \A x : LastSays(q, n, x) => LastSays(channel'[v], n, x)
    BY <1>2, <1>5, AppendOther
  <2>3. Expects(v, n)' => Expects(v, n)
    BY <1>0, <1>1, <2>1, <2>2 DEF Expects
  <2>4. WillShow(v, n, node[n]) => WillShow(v, n, node[n])'
    BY <1>0, <1>1, <1>3, <2>2 DEF WillShow
  <2> QED
    BY <2>0, <2>3, <2>4 DEF Follows
<1> QED
  BY <1>4, <1>5

\* The socket of v breaks, for one or for all viewers.
LEMMA FollowsBreak ==
    ASSUME TypeOK, NEW v \in Viewer, NEW n \in Node, Follows(v, n),
           Quiet(n), node'[n] = node[n], UNCHANGED pageVars,
           channel'[v] = <<>>, missed'[v] = missed[v] \union Lost(v)
    PROVE  Follows(v, n)'
<1>0. UNCHANGED <<page, buffer, snap, view>>
  BY DEF pageVars
<1>1. Silent(channel'[v], n)
  BY EmptyIsSilent
<1> SUFFICES ASSUME Expects(v, n)' PROVE WillShow(v, n, node[n])'
  BY DEF Follows
<1>2. n \notin missed[v] /\ n \notin Lost(v)
  BY <1>1 DEF Expects
<1>3. CASE ~Exposed(v, n)
  <2>1. page'[v] = "loading" /\ Silent(buffer'[v], n)
    BY <1>0, <1>3 DEF Expects, Exposed, Silent, About
  <2> QED
    BY <1>1, <2>1 DEF WillShow
<1>4. CASE Exposed(v, n)
  <2>1. Silent(channel[v], n)
    BY <1>2, <1>4 DEF Lost, ToSet, Silent, About
  <2>2. Expects(v, n)
    BY <1>0, <1>2 DEF Expects
  <2>3. WillShow(v, n, node[n]) /\ \A x : ~LastSays(channel[v], n, x)
    BY <2>1, <2>2, LastIsNotSilent DEF Follows
  <2> QED
    BY <1>0, <1>1, <2>3 DEF WillShow
<1> QED
  BY <1>3, <1>4

LEMMA FollowsSnapshotApplied ==
    ASSUME TypeOK, NEW v \in Viewer, NEW n \in Node, Follows(v, n),
           Quiet(n), node'[n] = node[n], ApplySnapshot(v)
    PROVE  Follows(v, n)'
<1>1. PICK q \in Seq(Data \union Deleted) : q = buffer[v]
  BY DEF TypeOK
<1>2. PICK k \in PageState : k = [map |-> snap[v], unheard |-> {}]
  <2>1. snap[v] \in [Node -> 0 .. MaxWrites] /\ 0 .. MaxWrites \subseteq 0 .. Fragment
    BY SyncAssumption DEF TypeOK, Fragment
  <2>2. snap[v] \in [Node -> 0 .. Fragment]
    BY <2>1
  <2> QED
    BY <2>2 DEF PageState
<1>3. PICK e : e = editing[v]
  OBVIOUS
<1>4. PICK f : f = Flushed(k, q, e)
  OBVIOUS
<1>5. /\ n \notin f.unheard => \/ Silent(q, n) /\ f.map[n] = snap[v][n]
                               \/ LastSays(q, n, f.map[n])
  BY <1>2, <1>4, FlushedIs
<1>6. /\ page[v] = "read" /\ page'[v] = "ready" /\ view'[v] = f.map
      /\ missed'[v] = missed[v] \union f.unheard
      /\ buffer'[v] = <<>> /\ channel'[v] = channel[v]
  BY <1>1, <1>2, <1>3, <1>4 DEF ApplySnapshot, TypeOK
<1>7. Silent(buffer'[v], n)
  BY <1>6, EmptyIsSilent
<1> SUFFICES ASSUME Expects(v, n)' PROVE WillShow(v, n, node[n])'
  BY DEF Follows
<1>8. WillShow(v, n, node[n])
  BY <1>6 DEF Expects, Follows
<1>9. CASE LastSays(channel[v], n, node[n])
  BY <1>6, <1>9 DEF WillShow
<1>10. CASE ~LastSays(channel[v], n, node[n])
  <2>1. Silent(channel[v], n) /\ Silent(channel'[v], n)
    BY <1>6, <1>8, <1>10 DEF WillShow
  <2>2. n \notin f.unheard
    BY <1>6, <2>1 DEF Expects
  <2>3. f.map[n] = node[n]
    <3>1. CASE LastSays(q, n, node[n])
      BY <1>5, <2>2, <3>1, LastIsNotSilent, LastSaysOne
    <3>2. CASE Silent(q, n) /\ snap[v][n] = node[n]
      BY <1>5, <2>2, <3>2, LastIsNotSilent
    <3> QED
      BY <1>1, <1>6, <1>8, <1>10, <3>1, <3>2 DEF WillShow
  <2> QED
    BY <1>6, <1>7, <2>1, <2>3 DEF WillShow
<1> QED
  BY <1>9, <1>10

LEMMA FollowsDeliver ==
    ASSUME TypeOK, NEW v \in Viewer, NEW n \in Node, PageShape(v), Follows(v, n),
           Quiet(n), node'[n] = node[n], Deliver(v)
    PROVE  Follows(v, n)'
<1>1. PICK q \in Seq(Message) : q = channel[v] /\ q # <<>>
  BY DEF TypeOK, Deliver
<1>2. PICK m \in Message : m = Head(q)
  BY <1>1
<1>3. PICK b \in Seq(Data \union Deleted) : b = buffer[v]
  BY DEF TypeOK
<1>4. channel'[v] = Tail(q) /\ UNCHANGED <<page, snap>>
  BY <1>1 DEF Deliver, TypeOK
<1>5. /\ Silent(q, n) <=> Silent(Tail(q), n) /\ ~About(m, n)
      /\ \A x : LastSays(q, n, x) =>
            LastSays(Tail(q), n, x) \/ (Silent(Tail(q), n) /\ About(m, n) /\ m.ver = x)
  BY <1>1, <1>2, TailSilent, TailAbout
<1> SUFFICES ASSUME Expects(v, n)' PROVE WillShow(v, n, node[n])'
  BY DEF Follows
<1>6. page[v] \in {"loading", "read", "ready"}
  BY <1>4 DEF Expects
<1>7. \* An event about n was on its way: it counts, or a later one does.
      CASE About(m, n)
  <2>1. LastSays(q, n, node[n])
    <3>1. ~Silent(q, n)
      BY <1>5, <1>7
    <3>2. WillShow(v, n, node[n])
      BY <1>1, <1>6, <3>1 DEF Follows, Expects
    <3> QED
      BY <1>1, <3>1, <3>2 DEF WillShow
  <2>2. CASE LastSays(Tail(q), n, node[n])
    BY <1>4, <2>2 DEF WillShow
  <2>3. CASE Silent(Tail(q), n) /\ m.ver = node[n]
    <3>1. m \in Data \union Deleted /\ IsNodeEvent(m) /\ m.node = n
      BY <1>7, MessageShape DEF About
    <3>2. CASE page[v] # "ready"
      <4>1. buffer'[v] = Append(b, m)
        BY <1>1, <1>2, <1>3, <3>1, <3>2 DEF Deliver, TypeOK
      <4>2. LastSays(buffer'[v], n, node[n])
        BY <1>7, <2>3, <3>1, <4>1, AppendAbout
      <4> QED
        BY <1>4, <2>3, <4>2 DEF WillShow
    <3>3. CASE page[v] = "ready"
      <4>1. PICK k \in PageState : k = [map |-> view[v], unheard |-> missed[v]]
        BY DEF TypeOK, PageState
      <4>2. PICK e : e = editing[v]
        OBVIOUS
      <4>3. PICK a : a = ApplyEvent(k, m, e)
        OBVIOUS
      <4>4. view'[v] = a.map /\ missed'[v] = a.unheard /\ buffer' = buffer
        BY <1>1, <1>2, <3>1, <3>3, <4>1, <4>2, <4>3 DEF Deliver, TypeOK
      <4>5. n \notin a.unheard
        BY <1>4, <2>3, <4>4 DEF Expects
      <4>6. a.map[n] = node[n]
        BY <2>3, <3>1, <4>1, <4>3, <4>5 DEF ApplyEvent, PageState
      <4>7. Silent(buffer'[v], n)
        BY <3>3, <4>4, EmptyIsSilent DEF PageShape
      <4> QED
        BY <1>4, <2>3, <3>3, <4>4, <4>6, <4>7 DEF WillShow
    <3> QED
      BY <3>2, <3>3
  <2> QED
    BY <1>5, <2>1, <2>2, <2>3
<1>8. \* A receipt, or an event about another node.
      CASE ~About(m, n)
  <2>1. Silent(channel'[v], n) <=> Silent(q, n)
    BY <1>4, <1>5, <1>8
  <2>2. \A x : LastSays(q, n, x) => LastSays(channel'[v], n, x)
    BY <1>4, <1>5, <1>8
  <2>3. /\ n \in missed[v] => n \in missed'[v]
        /\ view'[v][n] = view[v][n]
        /\ Silent(buffer'[v], n) <=> Silent(buffer[v], n)
        /\ \A x : LastSays(buffer[v], n, x) => LastSays(buffer'[v], n, x)
    <3>1. CASE ~IsNodeEvent(m)
      BY <1>1, <1>2, <3>1 DEF Deliver
    <3>2. CASE IsNodeEvent(m) /\ page[v] # "ready"
      <4>1. /\ buffer'[v] = Append(b, m) /\ missed'[v] = missed[v] \ {m.node} /\ view' = view
        BY <1>1, <1>2, <1>3, <3>2 DEF Deliver, TypeOK
      <4>2. m \in Data \union Deleted /\ m.node # n
        BY <1>8, <3>2, MessageShape DEF About
      <4>3. /\ Silent(Append(b, m), n) <=> Silent(b, n)
            /\ \A x : LastSays(b, n, x) => LastSays(Append(b, m), n, x)
        BY <1>8, <4>2, AppendOther
      <4> QED
        BY <1>3, <4>1, <4>2, <4>3
    <3>3. CASE IsNodeEvent(m) /\ page[v] = "ready"
      <4>1. PICK k \in PageState : k = [map |-> view[v], unheard |-> missed[v]]
        BY DEF TypeOK, PageState
      <4>2. PICK e : e = editing[v]
        OBVIOUS
      <4>3. PICK a : a = ApplyEvent(k, m, e)
        OBVIOUS
      <4>4. view'[v] = a.map /\ missed'[v] = a.unheard /\ buffer' = buffer
        BY <1>1, <1>2, <3>3, <4>1, <4>2, <4>3 DEF Deliver, TypeOK
      <4>5. m.node # n
        BY <1>8, <3>3 DEF About
      <4>6. a.map[n] = k.map[n] /\ (n \in k.unheard => n \in a.unheard)
        BY <4>1, <4>3, <4>5 DEF ApplyEvent, PageState
      <4> QED
        BY <4>1, <4>4, <4>6
    <3> QED
      BY <3>1, <3>2, <3>3
  <2>4. Expects(v, n)
    BY <1>1, <1>6, <2>1, <2>3 DEF Expects
  <2>5. WillShow(v, n, node[n])
    BY <2>4 DEF Follows
  <2> QED
    BY <1>1, <1>4, <2>1, <2>2, <2>3, <2>5 DEF WillShow
<1> QED
  BY <1>7, <1>8

LEMMA PageShapeStep ==
    ASSUME TypeOK, NEW v \in Viewer, PageShape(v), [Next]_vars
    PROVE  PageShape(v)'
<1>0. /\ page \in [Viewer -> {"closed", "loading", "read", "ready", "broken"}]
      /\ conn \in [Viewer -> BOOLEAN] /\ channel \in [Viewer -> Seq(Message)]
      /\ buffer \in [Viewer -> Seq(Data \union Deleted)]
  BY DEF TypeOK
<1>1. CASE UNCHANGED viewerVars
  BY <1>1 DEF PageShape, viewerVars, pageVars
<1>2. CASE PollerPublishes \/ HttpPublish
  <2>1. UNCHANGED <<page, buffer, conn>>
    BY <1>2 DEF PollerPublishes, HttpPublish, pageVars
  <2>2. ~conn[v] => channel'[v] = channel[v]
    BY <1>2 DEF PollerPublishes, HttpPublish, Broadcast
  <2> QED
    BY <2>1, <2>2 DEF PageShape
<1>3. CASE StopServer
  BY <1>3 DEF PageShape, StopServer, pageVars
<1>4. ASSUME NEW u \in Viewer, ViewerStep(u) PROVE PageShape(v)'
  <2>1. CASE OpenPage(u) \/ Snapshot(u) \/ FetchFails(u)
    <3>1. /\ UNCHANGED <<conn, channel, buffer>>
          /\ page'[v] = page[v] \/ (page'[v] # "closed" /\ page'[v] # "ready")
      BY <1>0, <2>1 DEF OpenPage, Snapshot, FetchFails
    <3> QED
      BY <3>1 DEF PageShape
  <2>2. CASE Subscribe(u)
    BY <1>0, <2>2 DEF Subscribe, PageShape, pageVars
  <2>3. CASE Drop(u)
    BY <1>0, <2>3 DEF Drop, PageShape, pageVars
  <2>4. CASE ApplySnapshot(u)
    <3>1. /\ page' = [page EXCEPT ![u] = "ready"]
          /\ buffer' = [buffer EXCEPT ![u] = <<>>]
          /\ UNCHANGED <<conn, channel>>
      BY <2>4 DEF ApplySnapshot
    <3> QED
      BY <1>0, <3>1 DEF PageShape
  <2>5. CASE Deliver(u)
    <3>1. /\ channel[u] # <<>> /\ channel' = [channel EXCEPT ![u] = Tail(@)]
          /\ UNCHANGED <<page, conn>>
          /\ buffer' = buffer \/ (page[u] # "ready" /\ \A x \in Viewer : x # u => buffer'[x] = buffer[x])
      BY <1>0, <2>5 DEF Deliver
    <3>2. CASE v = u
      BY <1>0, <3>1, <3>2 DEF PageShape
    <3>3. CASE v # u
      BY <1>0, <3>1, <3>3 DEF PageShape
    <3> QED
      BY <3>2, <3>3
  <2>6. CASE EndEdit(u) \/ \E k \in Node : StartEdit(u, k)
    BY <2>6 DEF EndEdit, StartEdit, PageShape
  <2> QED
    BY <1>4, <2>1, <2>2, <2>3, <2>4, <2>5, <2>6 DEF ViewerStep
<1> QED
  BY <1>1, <1>2, <1>3, <1>4, UnseenSteps DEF Next, HttpContinues

\* A viewer's own step, or another's.
LEMMA FollowsViewerStep ==
    ASSUME TypeOK, NEW v \in Viewer, NEW n \in Node, PageShape(v), Follows(v, n),
           Quiet(n), node' = node, NEW u \in Viewer, ViewerStep(u)
    PROVE  Follows(v, n)'
<1>0. node \in [Node -> 0 .. MaxWrites]
      /\ page \in [Viewer -> {"closed", "loading", "read", "ready", "broken"}]
      /\ view \in [Viewer -> [Node -> 0 .. Fragment]]
      /\ snap \in [Viewer -> [Node -> 0 .. MaxWrites]]
      /\ channel \in [Viewer -> Seq(Message)] /\ missed \in [Viewer -> SUBSET Node]
      /\ buffer \in [Viewer -> Seq(Data \union Deleted)]
  BY DEF TypeOK
<1>1. CASE u # v
  <2>1. /\ channel'[v] = channel[v] /\ buffer'[v] = buffer[v] /\ page'[v] = page[v]
        /\ snap'[v] = snap[v] /\ view'[v] = view[v] /\ missed'[v] = missed[v]
    <3>1. CASE OpenPage(u) \/ Subscribe(u) \/ Drop(u) \/ Snapshot(u) \/ FetchFails(u)
               \/ EndEdit(u) \/ \E k \in Node : StartEdit(u, k)
      BY <1>1, <1>0, <3>1 DEF OpenPage, Subscribe, Drop, Snapshot, FetchFails, EndEdit,
                              StartEdit, pageVars
    <3>2. CASE ApplySnapshot(u)
      BY <1>1, <1>0, <3>2 DEF ApplySnapshot
    <3>3. CASE Deliver(u)
      BY <1>1, <1>0, <3>3 DEF Deliver
    <3> QED
      BY <3>1, <3>2, <3>3 DEF ViewerStep
  <2> QED
    BY <2>1, FollowsFrame
<1>2. CASE u = v
  <2>1. CASE OpenPage(v)
    <3>1. /\ page[v] = "closed" /\ page'[v] = "loading"
          /\ UNCHANGED <<channel, buffer>>
      BY <1>0, <2>1 DEF OpenPage
    <3>2. channel'[v] = <<>> /\ buffer'[v] = <<>>
      BY <3>1 DEF PageShape
    <3>3. Silent(channel'[v], n) /\ Silent(buffer'[v], n)
      BY <3>2, EmptyIsSilent
    <3> QED
      BY <3>1, <3>3 DEF Follows, WillShow
  <2>2. CASE Subscribe(v) \/ EndEdit(v) \/ \E k \in Node : StartEdit(v, k)
    <3>1. UNCHANGED <<channel, buffer, page, snap, view, missed>>
      BY <2>2 DEF Subscribe, EndEdit, StartEdit, pageVars
    <3> QED
      BY <3>1, FollowsFrame
  <2>3. CASE Drop(v)
    <3>1. PICK L : L = Lost(v)
      OBVIOUS
    <3>2. /\ channel' = [channel EXCEPT ![v] = <<>>] /\ missed' = [missed EXCEPT ![v] = @ \union L]
          /\ UNCHANGED pageVars
      BY <2>3, <3>1 DEF Drop
    <3>3. channel'[v] = <<>> /\ missed'[v] = missed[v] \union Lost(v)
      BY <1>0, <3>1, <3>2
    <3> QED
      BY <3>2, <3>3, FollowsBreak
  <2>4. CASE Snapshot(v)
    <3>1. /\ page[v] = "loading" /\ page'[v] = "read" /\ snap'[v] = node
          /\ UNCHANGED <<channel, buffer, view, missed>>
      BY <1>0, <2>4 DEF Snapshot
    <3>2. Expects(v, n)' => Expects(v, n)
      BY <3>1 DEF Expects
    <3>3. WillShow(v, n, node[n]) => WillShow(v, n, node[n])'
      BY <3>1 DEF WillShow
    <3> QED
      BY <3>2, <3>3 DEF Follows
  <2>5. CASE FetchFails(v)
    <3>1. page'[v] = "broken"
      BY <1>0, <2>5 DEF FetchFails
    <3> QED
      BY <3>1 DEF Follows, Expects
  <2>6. CASE ApplySnapshot(v)
    BY <2>6, FollowsSnapshotApplied
  <2>7. CASE Deliver(v)
    BY <2>7, FollowsDeliver
  <2> QED
    BY <1>2, <2>1, <2>2, <2>3, <2>4, <2>5, <2>6, <2>7 DEF ViewerStep
<1> QED
  BY <1>1, <1>2

LEMMA FollowsStep ==
    ASSUME SyncTypes, PollerOrder, NEW v \in Viewer, NEW n \in Node, Traced(n),
           PageShape(v), Follows(v, n), [Next]_vars
    PROVE  Follows(v, n)'
<1> SUFFICES ASSUME Quiet(n)' PROVE Follows(v, n)'
  BY DEF Follows
<1>0. TypeOK /\ WorkIsWhole /\ PollerMoves
  BY PollerMovesStep DEF SyncTypes
<1>1. CASE PollerPublishes
  <2>1. PICK m \in Message :
          /\ Broadcast(m) /\ UNCHANGED <<pageVars, conn>>
          /\ \/ ~About(m, n) /\ Quiet(n) /\ node'[n] = node[n]
             \/ Confirms(m, n)
    BY <1>1, QuietPollerStep
  <2> QED
    BY <1>0, <2>1, FollowsBroadcast
<1>2. CASE ~PollerPublishes /\ UNCHANGED viewerVars
  <2>1. UNCHANGED <<channel, buffer, page, snap, view, missed>>
    BY <1>2 DEF viewerVars, pageVars
  <2>2. (Quiet(n) /\ node'[n] = node[n]) \/ (\E m \in Message : Confirms(m, n))
    <3>1. ASSUME NEW w \in Writer, ToolStep(w) PROVE Quiet(n) /\ node'[n] = node[n]
      BY <1>0, <1>2, <3>1, QuietToolStep
    <3>2. CASE (\E k \in Node : Post(k) \/ BeginPatch(k)) \/ HttpContinues \/ StopServer
      BY <1>0, <1>2, <3>2, QuietHttpStep
    <3>3. CASE PollerStep \/ StartServer \/ (\E u \in Viewer : ViewerStep(u)) \/ UNCHANGED vars
      BY <1>0, <1>2, <3>3, OtherSteps, QuietOtherStep
    <3>4. CASE SilentCommit
      BY <1>0, <1>2, <3>4, QuietSilent
    <3> QED
      BY <3>1, <3>2, <3>3, <3>4 DEF Next
  <2>3. ASSUME NEW m \in Message, Confirms(m, n) PROVE Follows(v, n)'
    BY <1>0, <2>3, FollowsBroadcast DEF Confirms
  <2> QED
    BY <2>1, <2>2, <2>3, FollowsFrame
<1>3. CASE HttpPublish /\ ~PollerPublishes
  <2>1. PICK x : x = HttpMessage
    OBVIOUS
  <2>2. x \in Message /\ Broadcast(x) /\ UNCHANGED <<pageVars, conn>>
    BY <1>0, <1>3, <2>1, MessagesAreTyped DEF HttpPublish, HttpMessage, Message
  <2>3. UNCHANGED node
    BY <1>3 DEF HttpPublish, storeVars
  <2>4. CASE HttpAnnounces(n)
    <3>1. n \notin astray /\ http.step = "publish" /\ IsNodeEvent(x)
      <4>1. x \in Data
        BY <1>0, <1>3, <2>1, MessagesAreTyped DEF HttpPublish
      <4> QED
        BY <1>3, <4>1 DEF Quiet, HttpPublish, storeVars, Data, DataKind, IsNodeEvent
    <3>2. About(x, n) /\ x.ver = node[n]
      BY <2>1, <2>4, <3>1 DEF HttpMessage, About, Traced, Says, HttpAnnounces
    <3> QED
      BY <1>0, <2>2, <2>3, <3>2, FollowsBroadcast DEF Confirms
  <2>5. CASE ~HttpAnnounces(n)
    <3>1. ~About(x, n)
      BY <1>3, <2>1, <2>5 DEF HttpPublish, HttpAnnounces, HttpMessage, About
    <3>2. UNCHANGED tool /\ UNCHANGED astray
      BY <1>3 DEF HttpPublish, storeVars
    <3>3. Announcing(n) => Announcing(n)'
      BY <2>5, <3>2, QuietHttpMoves
    <3>4. UnsentStay(n)
      BY <1>0, <1>3, UnsentStayStep
    <3>5. Quiet(n) /\ node'[n] = node[n]
      BY <2>3, <3>2, <3>3, <3>4, QuietFrame
    <3> QED
      BY <1>0, <2>2, <3>1, <3>5, FollowsBroadcast
  <2> QED
    BY <2>4, <2>5
<1>4. CASE StopServer /\ ~PollerPublishes
  <2>1. (Quiet(n) /\ node'[n] = node[n]) \/ (\E m \in Message : Confirms(m, n))
    BY <1>0, <1>4, QuietHttpStep
  <2>2. UNCHANGED pageVars /\ channel'[v] = <<>> /\ missed'[v] = missed[v] \union Lost(v)
    BY <1>4 DEF StopServer
  <2>3. ASSUME NEW m \in Message, Confirms(m, n) PROVE Follows(v, n)'
    BY <1>0, <2>3, FollowsBroadcast DEF Confirms
  <2> QED
    BY <1>0, <2>1, <2>2, <2>3, FollowsBreak
<1>5. ASSUME NEW u \in Viewer, ViewerStep(u), ~PollerPublishes PROVE Follows(v, n)'
  <2>1. UNCHANGED <<storeVars, tool, http>>
    BY <1>5, OtherSteps
  <2>2. Quiet(n) /\ node' = node
    BY <1>0, <1>5, <2>1, QuietOtherStep DEF storeVars
  <2> QED
    BY <1>0, <1>5, <2>2, FollowsViewerStep
<1> QED
  BY <1>1, <1>2, <1>3, <1>4, <1>5, UnseenSteps DEF Next, HttpContinues

-----------------------------------------------------------------------------
(***************************************************************************)
(* The inductive invariant of the whole.                                   *)
(***************************************************************************)
SyncInv ==
    /\ SyncTypes
    /\ PollerOrder
    /\ \A n \in Node : Traced(n)
    /\ \A v \in Viewer : PageShape(v)
    /\ \A v \in Viewer : \A n \in Node : Follows(v, n)

LEMMA SyncInvInit == Init => SyncInv
<1> SUFFICES ASSUME Init PROVE SyncInv
  OBVIOUS
<1>1. rows = {} /\ batch[Srv] = {} /\ sent[Srv] = {}
  BY DEF Init, Outbox!Init
<1>2. PollerOrder
  BY <1>1 DEF PollerOrder, Pending
<1>3. ASSUME NEW n \in Node PROVE Traced(n)
  <2>1. /\ \A w \in Writer : ~Announces(w, n)
        /\ ~HttpAnnounces(n)
    BY DEF Init, Announces, HttpAnnounces, IdleTool, IdleHttp
  <2> QED
    BY <1>1, <2>1 DEF Traced, Pending
<1>4. ASSUME NEW v \in Viewer PROVE PageShape(v)
  BY DEF Init, PageShape
<1>5. ASSUME NEW v \in Viewer, NEW n \in Node PROVE Follows(v, n)
  BY DEF Init, Follows, Expects
<1> QED
  BY <1>2, <1>3, <1>4, <1>5, SyncTypesInit DEF SyncInv

LEMMA SyncInvStep == SyncInv /\ [Next]_vars => SyncInv'
<1> SUFFICES ASSUME SyncInv, [Next]_vars PROVE SyncInv'
  OBVIOUS
<1>1. SyncTypes /\ TypeOK /\ WorkIsWhole /\ PollerOrder
  BY DEF SyncInv, SyncTypes
<1>2. SyncTypes' /\ PollerOrder'
  BY <1>1, SyncTypesStep, PollerOrderStep
<1>3. ASSUME NEW n \in Node PROVE Traced(n)'
  BY <1>1, TracedStep DEF SyncInv
<1>4. ASSUME NEW v \in Viewer PROVE PageShape(v)'
  BY <1>1, PageShapeStep DEF SyncInv
<1>5. ASSUME NEW v \in Viewer, NEW n \in Node PROVE Follows(v, n)'
  BY <1>1, FollowsStep DEF SyncInv
<1> QED
  BY <1>2, <1>3, <1>4, <1>5 DEF SyncInv

LEMMA SyncInvExplains == SyncInv => StaleOnlyIfExplained
<1> SUFFICES ASSUME SyncInv, NEW v \in Viewer, Settled(v),
                    NEW n \in Node \ (astray \union missed[v])
             PROVE  view[v][n] = node[n]
  BY DEF StaleOnlyIfExplained
<1>1. page[v] = "ready" /\ channel[v] = <<>> /\ ~Announcing(n) /\ ~Queued(n)
  BY DEF Settled
<1>2. Quiet(n)
  BY <1>1, QueuedIs DEF Quiet
<1>3. buffer[v] = <<>>
  BY <1>1 DEF SyncInv, PageShape
<1>4. Silent(channel[v], n) /\ Silent(buffer[v], n)
  BY <1>1, <1>3, EmptyIsSilent
<1>5. Expects(v, n)
  BY <1>1 DEF Expects
<1>6. WillShow(v, n, node[n])
  BY <1>2, <1>5 DEF SyncInv, Follows
<1> QED
  BY <1>1, <1>4, <1>6, LastIsNotSilent DEF WillShow

\* Whatever tools, server, poller and browsers do, and wherever they stop or
\* fail: a loaded page with nothing under way shows every node as stored,
\* except those whose last commit was overtaken, announced with less than its
\* row or never announced, and those an event of which passed the page by.
THEOREM StaleOnlyIfExplainedAlways == Spec => []StaleOnlyIfExplained
<1> QED
  BY SyncInvInit, SyncInvStep, SyncInvExplains, PTL DEF Spec
=============================================================================
