--------------------------- MODULE SourceBindings ---------------------------
(***************************************************************************)
(* The secret catalog and the bindings of data sources to secrets          *)
(* (connectors/secrets/catalog.py, binding_store.py, source_connections.py;*)
(* the routes of api/routes.py and the tool list_source_connections).      *)
(*                                                                         *)
(* A call loads whole files, changes its copy and writes whole files:      *)
(*  - the catalog is two files, manifest and values, each replaced at      *)
(*    once, one after the other;                                           *)
(*  - the bindings are one file, written under a temporary name that every *)
(*    writer shares and then renamed.  An inode stands for a file on disk: *)
(*    opening the temporary file truncates whatever inode has its name, a  *)
(*    write starts at its beginning, over what another has written since,  *)
(*    and the rename moves the inode that has the name by then.            *)
(* A copy of each binding is kept on the node, for the viewer.             *)
(*                                                                         *)
(* Actors are request threads of the UI server and MCP processes.  Handles *)
(* are of a kind that needs an uploaded value (google-sheets-json).        *)
(***************************************************************************)
EXTENDS Naturals, FiniteSets

CONSTANTS
    Actor,       \* threads and processes
    Handle,      \* secret handles
    Source,      \* data source nodes
    Inode,       \* files on disk: the binding file and temporary files
    Unset,       \* no record, no file, no handle
    Unwritten,   \* content of a file that is truncated and not yet written
    Garbled,     \* content that is the end of one text behind another
    MaxAdds,     \* bound: secrets uploaded
    MaxBinds,    \* bound: bindings made
    MaxCalls,    \* bound: calls begun
    MaxCuts      \* bound: actors that stop in mid-call

ASSUME BindingAssumption ==
    /\ Cardinality(Inode) > Cardinality(Actor)
    /\ Unset \notin Inode \union Handle
    /\ {MaxAdds, MaxBinds, MaxCalls, MaxCuts} \subseteq Nat

VARIABLES
    manifest,    \* secrets.json: which upload each entry is of (0: no entry)
    values,      \* secrets.values.json: which upload each value is of
    file,        \* content of each inode
    main, tmp,   \* the inodes named secret_bindings.json and ....json.tmp
    node,        \* details.secret_binding of each source
    call,        \* what each actor is doing
    probed,      \* history: bindings for which a probe has succeeded
    meant,       \* history: the bindings, had each call been one step
    raced,       \* history: writers of the bindings (of the catalog) overlapped
    cut,         \* history: what a call that was cut short left behind
    adds, binds, calls, cuts

disk == <<manifest, values, file, main, tmp>>
limits == <<adds, binds, calls, cuts>>
bindingsVars == <<disk, node, call, probed, meant, raced, cut, limits>>

Uploads == [Handle -> 0 .. MaxAdds]
Record == [handle : Handle, number : 1 .. MaxBinds,
           status : {"unvalidated", "valid", "invalid"}, checked : BOOLEAN]
Bindings == [Source -> Record \union {Unset}]

\* What no binding can be read from.
Spoilt == {Unwritten, Garbled}

ASSUME ContentAssumption ==
    Unset \notin Record /\ (\A B \in Bindings : B \notin Spoilt) /\ Unwritten # Garbled

NoCall == [step |-> "idle"]

SecretCall ==
    {NoCall}
    \union [step : {"values", "manifest", "writeValues"}, handle : Handle,
            upload : 0 .. MaxAdds, m : Uploads, v : Uploads]
    \union [step : {"entry"}, source : Source, was : Record, copy : Bindings]
    \union [step : {"probe"}, source : Source, was : Record, copy : Bindings]
    \union [step : {"records"}, source : Source, new : Record]
    \union [step : {"open", "project"}, source : Source, new : Record \union {Unset},
            copy : Bindings]
    \union [step : {"write", "replace"}, source : Source, new : Record \union {Unset},
            copy : Bindings, inode : Inode]

BindingsTypeOK ==
    /\ manifest \in Uploads /\ values \in Uploads
    /\ file \in [Inode -> Bindings \union Spoilt]
    /\ main \in Inode /\ tmp \in Inode \union {Unset} /\ main # tmp
    /\ node \in Bindings
    /\ call \in [Actor -> SecretCall]
    /\ probed \in SUBSET (Source \X (1 .. MaxBinds))
    /\ meant \in Bindings
    /\ raced \in [bindings : BOOLEAN, catalog : BOOLEAN]
    /\ cut \in [values : BOOLEAN, shared : BOOLEAN, projection : BOOLEAN]
    /\ adds \in 0 .. MaxAdds /\ binds \in 0 .. MaxBinds
    /\ calls \in 0 .. MaxCalls /\ cuts \in 0 .. MaxCuts

Unbound == [s \in Source |-> Unset]

BindingsInit ==
    /\ manifest = [h \in Handle |-> 0]
    /\ values = manifest
    /\ file = [i \in Inode |-> Unbound]
    /\ main \in Inode
    /\ tmp = Unset
    /\ node = Unbound
    /\ call = [a \in Actor |-> NoCall]
    /\ probed = {}
    /\ meant = Unbound
    /\ raced = [bindings |-> FALSE, catalog |-> FALSE]
    /\ cut = [values |-> FALSE, shared |-> FALSE, projection |-> FALSE]
    /\ adds = 0 /\ binds = 0 /\ calls = 0 /\ cuts = 0

-----------------------------------------------------------------------------
Proceed(a, next) == call' = [call EXCEPT ![a] = next]

\* An actor that holds a copy of the bindings it will write back.
HasBindings(a) == call[a].step \in {"entry", "probe", "open", "write", "replace", "project"}

\* An actor that holds a copy of the catalog it will write back.
HasCatalog(a) == call[a].step \in {"values", "manifest", "writeValues"}

BeginCall == calls < MaxCalls /\ calls' = calls + 1

\* The bindings are loaded; from now on the actor works on its copy.
MixBindings(a) ==
    raced' = [raced EXCEPT !.bindings = @ \/ \E b \in Actor \ {a} : HasBindings(b)]

Readable == file[main] \notin Spoilt

-----------------------------------------------------------------------------
(* The catalog: POST /api/secrets, DELETE /api/secrets/{handle} *)

\* Load the manifest; the upload is 0 if the handle is to be removed.
BeginCatalog(a, h, upload) ==
    /\ call[a] = NoCall /\ BeginCall
    /\ Proceed(a, [step |-> "values", handle |-> h, upload |-> upload,
                   m |-> manifest, v |-> manifest])
    /\ raced' = [raced EXCEPT !.catalog = @ \/ \E b \in Actor \ {a} : HasCatalog(b)]
    /\ UNCHANGED <<disk, node, probed, meant, cut, binds, cuts>>

AddSecret(a, h) ==
    /\ adds < MaxAdds /\ adds' = adds + 1
    /\ BeginCatalog(a, h, adds + 1)

RemoveSecret(a, h) ==
    /\ manifest[h] # 0
    /\ BeginCatalog(a, h, 0)
    /\ UNCHANGED adds

LoadValues(a) ==
    /\ call[a].step = "values"
    /\ Proceed(a, [call[a] EXCEPT !.step = "manifest", !.v = values])
    /\ UNCHANGED <<disk, node, probed, meant, raced, cut, limits>>

\* The payload is invalid, or the probe that was asked for fails.
RejectSecret(a) ==
    /\ call[a].step = "manifest" /\ call[a].upload # 0
    /\ Proceed(a, NoCall)
    /\ UNCHANGED <<disk, node, probed, meant, raced, cut, limits>>

SaveManifest(a) ==
    LET c == call[a] IN
    /\ c.step = "manifest"
    /\ manifest' = [c.m EXCEPT ![c.handle] = c.upload]
    /\ Proceed(a, [c EXCEPT !.step = "writeValues"])
    /\ UNCHANGED <<values, file, main, tmp, node, probed, meant, raced, cut, limits>>

SaveValues(a) ==
    LET c == call[a] IN
    /\ c.step = "writeValues"
    /\ values' = [c.v EXCEPT ![c.handle] = c.upload]
    /\ Proceed(a, NoCall)
    /\ UNCHANGED <<manifest, file, main, tmp, node, probed, meant, raced, cut, limits>>

-----------------------------------------------------------------------------
(* Bindings: the actions bind, validate and unbind *)

\* The entry behind the secret_ref is looked up in the catalog.
BeginBind(a, s, h) ==
    /\ call[a] = NoCall /\ BeginCall
    /\ manifest[h] # 0
    /\ binds < MaxBinds /\ binds' = binds + 1
    /\ Proceed(a, [step |-> "records", source |-> s,
                   new |-> [handle |-> h, number |-> binds + 1,
                            status |-> "unvalidated", checked |-> FALSE]])
    /\ UNCHANGED <<disk, node, probed, meant, raced, cut, adds, cuts>>

LoadForBind(a) ==
    /\ call[a].step = "records" /\ Readable
    /\ Proceed(a, [step |-> "open", source |-> call[a].source, new |-> call[a].new,
                   copy |-> file[main]])
    /\ MixBindings(a)
    /\ UNCHANGED <<disk, node, probed, meant, cut, limits>>

BeginUnbind(a, s) ==
    /\ call[a] = NoCall /\ BeginCall
    /\ Readable
    /\ Proceed(a, [step |-> "open", source |-> s, new |-> Unset, copy |-> file[main]])
    /\ MixBindings(a)
    /\ UNCHANGED <<disk, node, probed, meant, cut, adds, binds, cuts>>

BeginValidate(a, s) ==
    /\ call[a] = NoCall /\ BeginCall
    /\ Readable /\ file[main][s] # Unset
    /\ Proceed(a, [step |-> "entry", source |-> s, was |-> file[main][s],
                   copy |-> file[main]])
    /\ MixBindings(a)
    /\ UNCHANGED <<disk, node, probed, meant, cut, adds, binds, cuts>>

\* The bound secret must still be in the catalog.
LookUp(a) ==
    LET c == call[a] IN
    /\ c.step = "entry" /\ manifest[c.was.handle] # 0
    /\ Proceed(a, [c EXCEPT !.step = "probe"])
    /\ UNCHANGED <<disk, node, probed, meant, raced, cut, limits>>

Checked(r, ok) == [r EXCEPT !.status = IF ok THEN "valid" ELSE "invalid", !.checked = TRUE]

\* Mutant of Probe: the result is put on the binding as it is now.
ProbeCurrent(a, ok) ==
    LET c == call[a] IN
    /\ c.step = "probe" /\ Readable /\ file[main][c.source] # Unset
    /\ probed' = IF ok THEN probed \union {<<c.source, c.was.number>>} ELSE probed
    /\ Proceed(a, [step |-> "open", source |-> c.source,
                   new |-> Checked(file[main][c.source], ok), copy |-> c.copy])
    /\ UNCHANGED <<disk, node, meant, raced, cut, limits>>

\* The provider answers.
Probe(a, ok) ==
    LET c == call[a] IN
    /\ c.step = "probe"
    /\ probed' = IF ok THEN probed \union {<<c.source, c.was.number>>} ELSE probed
    /\ Proceed(a, [step |-> "open", source |-> c.source, new |-> Checked(c.was, ok),
                   copy |-> c.copy])
    /\ UNCHANGED <<disk, node, meant, raced, cut, limits>>

\* The binding file cannot be read, or the bound secret is gone.
CallFails(a) ==
    /\ \/ call[a].step = "records" /\ ~Readable
       \/ call[a].step = "entry" /\ manifest[call[a].was.handle] = 0
    /\ Proceed(a, NoCall)
    /\ UNCHANGED <<disk, node, probed, meant, raced, cut, limits>>

-----------------------------------------------------------------------------
(* SecretBindingStore.save, and the projection onto the node.  Unbinding   *)
(* writes the node twice, and only the second write takes the projection   *)
(* away: Project stands for both.                                          *)

Free == {i \in Inode : i # main /\ \A b \in Actor :
            call[b].step \in {"write", "replace"} => call[b].inode # i}

\* Mutant of OpenTmp: the file is opened under its own name.
OpenMain(a) ==
    LET c == call[a] IN
    /\ c.step = "open"
    /\ tmp' = tmp
    /\ file' = [file EXCEPT ![main] = Unwritten]
    /\ Proceed(a, [step |-> "write", source |-> c.source, new |-> c.new,
                   copy |-> c.copy, inode |-> main])
    /\ UNCHANGED <<manifest, values, main, node, probed, meant, raced, cut, limits>>

\* Open for writing: the file of that name is truncated, or a new one made.
OpenTmp(a) ==
    LET c == call[a] IN
    /\ c.step = "open"
    /\ \E i \in (IF tmp = Unset THEN Free ELSE {tmp}) :
          /\ tmp' = i
          /\ file' = [file EXCEPT ![i] = Unwritten]
          /\ Proceed(a, [step |-> "write", source |-> c.source, new |-> c.new,
                         copy |-> c.copy, inode |-> i])
    /\ UNCHANGED <<manifest, values, main, node, probed, meant, raced, cut, limits>>

\* A shorter text leaves the end of a longer one that was written since the
\* file was opened.
WriteTmp(a) ==
    LET c == call[a]
        text == [c.copy EXCEPT ![c.source] = c.new]
    IN
    /\ c.step = "write"
    /\ \E content \in {text} \union
             (IF file[c.inode] \in {Unwritten, text} THEN {} ELSE {Garbled}) :
          file' = [file EXCEPT ![c.inode] = content]
    /\ Proceed(a, [c EXCEPT !.step = "replace"])
    /\ UNCHANGED <<manifest, values, main, tmp, node, probed, meant, raced, cut, limits>>

\* Mutant of Replace: the file is copied over the main one, the name stays.
ReplaceByCopy(a) ==
    LET c == call[a] IN
    /\ c.step = "replace" /\ tmp # Unset
    /\ main' = tmp /\ tmp' = tmp
    /\ meant' = [meant EXCEPT ![c.source] = c.new]
    /\ Proceed(a, [step |-> "project", source |-> c.source, new |-> c.new, copy |-> c.copy])
    /\ UNCHANGED <<manifest, values, file, node, probed, raced, cut, limits>>

Replace(a) ==
    LET c == call[a] IN
    /\ c.step = "replace" /\ tmp # Unset
    /\ main' = tmp /\ tmp' = Unset
    /\ meant' = [meant EXCEPT ![c.source] = c.new]
    /\ Proceed(a, [step |-> "project", source |-> c.source, new |-> c.new, copy |-> c.copy])
    /\ UNCHANGED <<manifest, values, file, node, probed, raced, cut, limits>>

\* Another writer has renamed the temporary file: the call fails.
ReplaceFails(a) ==
    /\ call[a].step = "replace" /\ tmp = Unset
    /\ Proceed(a, NoCall)
    /\ UNCHANGED <<disk, node, probed, meant, raced, cut, limits>>

\* The projection is merged into the node's details: what validation left
\* there stays when the new binding has none.
Merged(old, new) ==
    IF old = Unset \/ new = Unset THEN new
    ELSE [new EXCEPT !.checked = @ \/ old.checked]

\* Mutant of Project: unbinding leaves the projection (one upsert without the
\* key merges to what was there).
ProjectByMerge(a) ==
    LET c == call[a] IN
    /\ c.step = "project"
    /\ node' = IF c.new = Unset THEN node ELSE [node EXCEPT ![c.source] = Merged(@, c.new)]
    /\ Proceed(a, NoCall)
    /\ UNCHANGED <<disk, probed, meant, raced, cut, limits>>

Project(a) ==
    LET c == call[a] IN
    /\ c.step = "project"
    /\ node' = [node EXCEPT ![c.source] = Merged(@, c.new)]
    /\ Proceed(a, NoCall)
    /\ UNCHANGED <<disk, probed, meant, raced, cut, limits>>

\* The process ends in mid-call.
CutShort(a) ==
    /\ call[a] # NoCall
    /\ cuts < MaxCuts /\ cuts' = cuts + 1
    /\ cut' = [values |-> cut.values \/ call[a].step = "writeValues",
               shared |-> cut.shared \/
                   (/\ call[a].step = "write"
                    /\ \/ call[a].inode = main
                       \/ \E b \in Actor \ {a} : call[b].step \in {"write", "replace"}),
               projection |-> cut.projection \/ call[a].step = "project"]
    /\ Proceed(a, NoCall)
    /\ UNCHANGED <<disk, node, probed, meant, raced, adds, binds, calls>>

-----------------------------------------------------------------------------
BindingsNext ==
    \E a \in Actor :
        \/ \E h \in Handle : AddSecret(a, h) \/ RemoveSecret(a, h)
        \/ LoadValues(a) \/ RejectSecret(a) \/ SaveManifest(a) \/ SaveValues(a)
        \/ \E s \in Source : \/ BeginUnbind(a, s) \/ BeginValidate(a, s)
                             \/ \E h \in Handle : BeginBind(a, s, h)
        \/ LoadForBind(a) \/ LookUp(a) \/ CallFails(a)
        \/ \E ok \in BOOLEAN : Probe(a, ok)
        \/ OpenTmp(a) \/ WriteTmp(a) \/ Replace(a) \/ ReplaceFails(a) \/ Project(a)
        \/ CutShort(a)

BindingsSpec == BindingsInit /\ [][BindingsNext]_bindingsVars

-----------------------------------------------------------------------------
(* Properties *)

\* A binding is valid only if a probe of this very binding succeeded, however
\* calls interleave, fail or stop: a probe that was slow never validates the
\* binding that replaced the probed one (validate_source_connection).
ValidWasProbed ==
    \A i \in Inode, s \in Source :
        (file[i] \notin Spoilt /\ file[i][s] # Unset /\ file[i][s].status = "valid")
            => <<s, file[i][s].number>> \in probed

\* The binding file can be parsed at every moment, unless writers overlapped.  One
\* may give the main name to the file the other is writing: it is empty until the
\* other has written, or for good if that one stops there.  And it may keep the end
\* of the longer of their texts behind the shorter.
ReadableOrExplained ==
    \/ Readable
    \/ raced.bindings /\ file[main] = Garbled
    \/ raced.bindings /\ cut.shared
    \/ raced.bindings /\ \E a \in Actor : call[a].step = "write" /\ call[a].inode = main

\* As long as writers of the bindings do not overlap, the file holds what each
\* finished save made of it, whatever stopped in between.
BindingsAreKept ==
    ~raced.bindings => file[main] = meant

\* Both: the binding file survives its writers.
BindingFileIsSound == ReadableOrExplained /\ BindingsAreKept

\* A handle has the value that was uploaded with its entry, once no catalog
\* call is under way, unless two overlapped or one was cut between its files.
ValueBesideHandle ==
    (~raced.catalog /\ ~cut.values /\ \A a \in Actor : call[a].step # "writeValues")
        => values = manifest

\* With no binding call under way, none cut short before its last step and
\* none overlapping, every node shows the state of its own binding.
NodesShowBindings ==
    (~raced.bindings /\ ~cut.projection /\ \A a \in Actor : ~HasBindings(a)) =>
        \A s \in Source :
            LET r == file[main][s] IN
            /\ (node[s] = Unset) <=> (r = Unset)
            /\ r # Unset => /\ node[s].handle = r.handle
                            /\ node[s].status = r.status
                            /\ r.checked => node[s].checked

\* Both: what two files say of one thing agrees.
CopiesAgree == ValueBesideHandle /\ NodesShowBindings
=============================================================================
