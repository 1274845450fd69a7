---------------------------- MODULE EditSession ----------------------------
(***************************************************************************)
(* A person edits nodes in a page while agents write them                  *)
(* (panels/detail-panel.ts, panels/split-pane.ts, the patched applyEvent   *)
(* and saveReaderMarkdown of graph_viewer.html, patch_node of routes.py).  *)
(*                                                                         *)
(* A node has a label and a text (its card sections).  The page keeps two  *)
(* copies of a node, and typing writes straight into them: the text is     *)
(* that of the detail index, whose entries events replace; the label that  *)
(* of the copy of the graph the page was opened with, which only typing    *)
(* changes.  There is one flag for unsaved edits.  Save sends label and    *)
(* text and clears the flag when the answer comes, whatever was done       *)
(* meanwhile.  The markdown reader has an editor of its own, for the text, *)
(* without a flag.                                                         *)
(*                                                                         *)
(* Contents are version numbers; every write and every change typed has a  *)
(* new one.  Agents' events come through the outbox, in order; a PATCH     *)
(* publishes its own at once.                                              *)
(***************************************************************************)
EXTENDS Naturals, Sequences, FiniteSets

CONSTANTS
    Node,
    NoNode,        \* nothing is selected
    MaxVersions,   \* bound: writes and changes typed
    MaxSaves       \* bound: requests sent by each editor

ASSUME EditAssumption ==
    /\ NoNode \notin Node
    /\ {MaxVersions, MaxSaves} \subseteq Nat

VARIABLES
    record,        \* the nodes table
    outbox,        \* events of agents not yet published
    socket,        \* events on their way to the page
    onPage,        \* nodes drawn
    entry,         \* texts in the detail index
    form,          \* labels in the page's copy of the graph
    selected, editMode, hasEdits,
    reader,        \* what the reader edits, as a set of at most one
    requests,      \* PATCH requests and answers on their way
    draft,         \* history: the text typed in this edit and not yet saved, or 0
    disarmed,      \* history: an answer came while there was a draft
    seen,          \* history: what the last event put in the index
    authored,      \* history: fields that were last written by an agent
    clock, saves

panel == <<selected, editMode, hasEdits, draft, disarmed>>
server == <<record, outbox, authored>>
editVars == <<server, socket, onPage, entry, form, panel, reader,
              requests, seen, clock, saves>>

Field == {"label", "text"}
Editor == {"panel", "reader"}
Version == 0 .. MaxVersions
Content == [Field -> Version]
Original == [f \in Field |-> 0]

Partly(S) == UNION {[N -> S] : N \in SUBSET Node}
Message == [kind : {"created", "updated", "deleted"}, node : Node, row : Content]

EditTypeOK ==
    /\ record \in Partly(Content) /\ entry \in Partly(Version)
    /\ form \in Partly(Version)
    /\ \A i \in DOMAIN outbox : outbox[i] \in Message
    /\ \A i \in DOMAIN socket : socket[i] \in Message
    /\ onPage \subseteq DOMAIN entry /\ DOMAIN form \subseteq DOMAIN entry
    /\ selected \in DOMAIN entry \union {NoNode}
    /\ {editMode, hasEdits, disarmed} \subseteq BOOLEAN
    /\ editMode => selected # NoNode
    /\ Cardinality(reader) <= 1
    /\ \A e \in reader : e \in [node : Node, text : Version, seen : Content]
    /\ \A r \in requests :
           r \in [id : 1 .. MaxSaves, from : Editor, node : Node, row : Content,
                  seen : Content, step : {"sent", "done"}, ok : BOOLEAN, attached : BOOLEAN]
    /\ draft \in Version
    /\ seen \in [Node -> Content]
    /\ authored \subseteq Node \X Field
    /\ clock \in Version /\ saves \in [Editor -> 0 .. MaxSaves]

EditInit ==
    \E N \in SUBSET Node \ {{}} :
        /\ record = [n \in N |-> Original]
        /\ entry = [n \in N |-> 0] /\ form = entry /\ onPage = N
        /\ outbox = <<>> /\ socket = <<>>
        /\ selected = NoNode /\ editMode = FALSE /\ hasEdits = FALSE
        /\ reader = {} /\ requests = {}
        /\ draft = 0 /\ disarmed = FALSE
        /\ seen = [n \in Node |-> Original]
        /\ authored = {}
        /\ clock = 0 /\ saves = [e \in Editor |-> 0]

With(f, n, x) == [m \in DOMAIN f \union {n} |-> IF m = n THEN x ELSE f[m]]

-----------------------------------------------------------------------------
(* Agents, and the way of their events *)

NewVersion == clock < MaxVersions /\ clock' = clock + 1

Announce(kind, n, row) ==
    outbox' = Append(outbox, [kind |-> kind, node |-> n, row |-> row])

AgentWrites(n, f) ==
    /\ n \in DOMAIN record
    /\ NewVersion
    /\ LET row == [record[n] EXCEPT ![f] = clock + 1]
       IN  record' = With(record, n, row) /\ Announce("updated", n, row)
    /\ authored' = authored \union {<<n, f>>}
    /\ UNCHANGED <<socket, onPage, entry, form, panel, reader, requests, seen, saves>>

AgentCreates(n) ==
    /\ n \notin DOMAIN record
    /\ NewVersion
    /\ LET row == [f \in Field |-> clock + 1]
       IN  record' = With(record, n, row) /\ Announce("created", n, row)
    /\ authored' = authored \union {<<n, f>> : f \in Field}
    /\ UNCHANGED <<socket, onPage, entry, form, panel, reader, requests, seen, saves>>

AgentDeletes(n) ==
    /\ n \in DOMAIN record
    /\ NewVersion
    /\ record' = [m \in DOMAIN record \ {n} |-> record[m]]
    /\ Announce("deleted", n, record[n])
    /\ UNCHANGED <<socket, onPage, entry, form, panel, reader, requests, seen,
                   authored, saves>>

PublishNext ==
    /\ outbox # <<>>
    /\ outbox' = Tail(outbox)
    /\ socket' = Append(socket, Head(outbox))
    /\ UNCHANGED <<record, authored, onPage, entry, form, panel, reader, requests, seen,
                   clock, saves>>

-----------------------------------------------------------------------------
(* An event reaches the page: applyEvent *)

\* Mutant of Preserve: the flag is not looked at.
PreserveNever(n) == FALSE

Preserve(n) == editMode /\ hasEdits /\ selected = n

\* The entry is replaced by a new one: who still holds the old writes into nothing.
Detach(n) == requests' = {[r EXCEPT !.attached = @ /\ r.node # n] : r \in requests}

Adopt(e) ==
    /\ entry' = With(entry, e.node, e.row.text)
    /\ seen' = [seen EXCEPT ![e.node] = e.row]
    /\ Detach(e.node)

ApplyUpsert(e) ==
    /\ e.kind \in {"created", "updated"}
    /\ IF Preserve(e.node) THEN UNCHANGED <<entry, seen, requests>> ELSE Adopt(e)
    /\ onPage' = IF Preserve(e.node) /\ e.kind = "updated" THEN onPage
                 ELSE onPage \union {e.node}
    /\ UNCHANGED panel

\* The panel is emptied, and hasEdits stays what it was.
CloseEdit ==
    editMode' = FALSE /\ draft' = 0 /\ disarmed' = FALSE

\* The index keeps the sections, in a new entry.
ApplyDelete(e) ==
    /\ e.kind = "deleted"
    /\ IF Preserve(e.node) THEN UNCHANGED requests ELSE Detach(e.node)
    /\ onPage' = onPage \ {e.node}
    /\ IF selected = e.node
       THEN selected' = NoNode /\ CloseEdit
       ELSE UNCHANGED <<selected, editMode, draft, disarmed>>
    /\ UNCHANGED <<entry, seen, hasEdits>>

ReceiveEvent ==
    /\ socket # <<>>
    /\ socket' = Tail(socket)
    /\ ApplyUpsert(Head(socket)) \/ ApplyDelete(Head(socket))
    /\ UNCHANGED <<server, form, reader, clock, saves>>

-----------------------------------------------------------------------------
(* The detail panel *)

\* Another node is shown; edit mode goes on with it.
SelectNode(n) ==
    /\ n \in onPage /\ n # selected
    /\ selected' = n /\ draft' = 0 /\ disarmed' = FALSE
    /\ UNCHANGED <<server, socket, onPage, entry, form, editMode, hasEdits, reader,
                   requests, seen, clock, saves>>

Deselect ==
    /\ selected # NoNode
    /\ selected' = NoNode /\ CloseEdit
    /\ UNCHANGED <<server, socket, onPage, entry, form, hasEdits, reader, requests,
                   seen, clock, saves>>

\* The edit button; Escape leaves edit mode in the same way.
ToggleEdit ==
    /\ selected # NoNode
    /\ editMode' = ~editMode /\ draft' = 0 /\ disarmed' = FALSE
    /\ UNCHANGED <<server, socket, onPage, entry, form, selected, hasEdits, reader,
                   requests, seen, clock, saves>>

\* A node the page was not opened with has no form, and nothing to type in.
Type(f) ==
    /\ editMode /\ selected \in DOMAIN form
    /\ NewVersion
    /\ IF f = "text"
       THEN /\ entry' = [entry EXCEPT ![selected] = clock + 1]
            /\ draft' = clock + 1
            /\ UNCHANGED form
       ELSE /\ form' = [form EXCEPT ![selected] = clock + 1]
            /\ UNCHANGED <<entry, draft>>
    /\ hasEdits' = TRUE
    /\ UNCHANGED <<server, socket, onPage, selected, editMode, disarmed, reader,
                   requests, seen, saves>>

-----------------------------------------------------------------------------
(* Saving: a PATCH from the panel or the reader *)

Send(from, n, row, shown) ==
    /\ saves[from] < MaxSaves /\ saves' = [saves EXCEPT ![from] = @ + 1]
    /\ requests' = requests \union
           {[id |-> saves[from] + 1, from |-> from, node |-> n, row |-> row, seen |-> shown,
             step |-> "sent", ok |-> FALSE, attached |-> from = "reader"]}
    /\ UNCHANGED <<server, socket, onPage, entry, form, panel, reader, seen, clock>>

SaveEdits ==
    /\ editMode /\ hasEdits /\ selected \in DOMAIN form
    /\ Send("panel", selected,
            [label |-> form[selected], text |-> entry[selected]], seen[selected])

\* The reader shows a node; what it shows is what its editor starts from.
OpenReader ==
    /\ selected \in onPage
    /\ reader' = {[node |-> selected, text |-> entry[selected], seen |-> seen[selected]]}
    /\ UNCHANGED <<server, socket, onPage, entry, form, panel, requests, seen,
                   clock, saves>>

TypeInReader(e) ==
    /\ NewVersion
    /\ reader' = {[e EXCEPT !.text = clock + 1]}
    /\ UNCHANGED <<server, socket, onPage, entry, form, panel, requests, seen,
                   saves>>

SaveReader(e) ==
    /\ \A r \in requests : r.from # "reader"
    /\ Send("reader", e.node, [label |-> 0, text |-> e.text], e.seen)

\* patch_node: existence check, upsert, re-read, publish; it does not suspend.
\* What other processes commit in between is in LiveSync.
PatchNode(r) ==
    /\ r.step = "sent"
    /\ LET found == r.node \in DOMAIN record
           row == IF r.from = "panel" THEN r.row
                  ELSE [record[r.node] EXCEPT !.text = r.row.text]
       IN  /\ record' = IF found THEN With(record, r.node, row) ELSE record
           /\ socket' = IF found
                        THEN Append(socket, [kind |-> "updated", node |-> r.node, row |-> row])
                        ELSE socket
           /\ requests' = (requests \ {r}) \union
                  {[r EXCEPT !.step = "done", !.ok = found, !.seen = Original]}
    /\ authored' = authored \
           {<<r.node, f>> : f \in IF r.from = "panel" THEN Field ELSE {"text"}}
    /\ UNCHANGED <<outbox, onPage, entry, form, panel, reader, seen, clock, saves>>

\* The draft, unless this request has saved it.
Unsaved(r) == IF selected = r.node /\ draft = r.row.text THEN 0 ELSE draft

PanelSaved(r) ==
    /\ r.from = "panel"
    /\ hasEdits' = FALSE
    /\ draft' = Unsaved(r)
    /\ disarmed' = (draft' # 0)
    /\ UNCHANGED <<entry, reader>>

ReaderSaved(r) ==
    /\ r.from = "reader"
    /\ entry' = IF r.attached THEN [entry EXCEPT ![r.node] = r.row.text] ELSE entry
    /\ disarmed' = (disarmed \/ (selected = r.node /\ draft # 0))
    /\ reader' = {}
    /\ UNCHANGED <<hasEdits, draft>>

Answered(r) ==
    /\ r.step = "done"
    /\ requests' = requests \ {r}
    /\ \/ r.ok /\ (PanelSaved(r) \/ ReaderSaved(r))
       \/ ~r.ok /\ UNCHANGED <<hasEdits, draft, disarmed, entry, reader>>
    /\ UNCHANGED <<server, socket, onPage, form, selected, editMode, seen,
                   clock, saves>>

-----------------------------------------------------------------------------
EditNext ==
    \/ \E n \in Node : \/ \E f \in Field : AgentWrites(n, f)
                       \/ AgentCreates(n) \/ AgentDeletes(n)
                       \/ SelectNode(n)
    \/ PublishNext \/ ReceiveEvent
    \/ Deselect \/ OpenReader \/ ToggleEdit \/ SaveEdits
    \/ \E f \in Field : Type(f)
    \/ \E e \in reader : TypeInReader(e) \/ SaveReader(e)
    \/ \E r \in requests : PatchNode(r) \/ Answered(r)

EditSpec == EditInit /\ [][EditNext]_editVars

-----------------------------------------------------------------------------
(* Properties *)

\* The text typed in the node under edit and not yet saved is still there to be
\* saved, whatever events arrive, unless an answer came after it was typed: that
\* answer takes the protection away from edits it knows nothing of.
TypedIsKept ==
    (draft # 0 /\ ~disarmed) => entry[selected] = draft

\* A request under way would undo a field an agent wrote and this page was shown.
Undoes(r, f) ==
    /\ r.step = "sent" /\ r.node \in DOMAIN record
    /\ <<r.node, f>> \in authored
    /\ record[r.node][f] = r.seen[f]
    /\ r.row[f] < record[r.node][f]

\* A save never puts back a text older than one of an agent's that the index
\* (or the reader, when it was opened) had already taken in: to undo an agent's
\* text it must be one the person has not been shown.
SavesKeepSeenText == \A r \in requests : ~Undoes(r, "text")

\* What is typed stays, and what agents write is not undone unseen.
EditsAreSound == TypedIsKept /\ SavesKeepSeenText

\* The same of names.  The panel is to follow what agents write, without a
\* refresh (ui/e2e/README.md:62), so that a save undoes no rename the page was
\* sent.  But the form keeps the label the page was opened with, and every save
\* sends it.
SavesKeepRenames == \A r \in requests : r.from = "panel" => ~Undoes(r, "label")
=============================================================================
