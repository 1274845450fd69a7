------------------------------ MODULE Sessions ------------------------------
(***************************************************************************)
(* Workspaces, their registry, and the processes that open their stores    *)
(* (workspaces.py, mcp/server.py, ui/server.py, ui/setup.py,               *)
(* store/migrations.py and the opening of a GraphStore).                   *)
(*                                                                         *)
(* A workspace is a folder with a store in it.  The registry is one file   *)
(* that every process loads, changes and writes back: it truncates the     *)
(* file, then writes from its start, over what another has written there   *)
(* meanwhile.                                                              *)
(* Opening a store creates it if need be and applies pending migrations:   *)
(* the first runs as a script, outside its transaction, and is stamped     *)
(* afterwards; each other one and its stamp are one transaction.           *)
(*                                                                         *)
(* An MCP server serves one workspace at a time and swaps its store in     *)
(* open_workspace.  A UI server serves one workspace for good; it can      *)
(* unregister any workspace and delete its store.  An error that nothing   *)
(* catches ends a server.                                                  *)
(***************************************************************************)
EXTENDS Naturals, FiniteSets

CONSTANTS
    Mcp, Ui,       \* server processes
    Workspace,     \* project folders
    Latest,        \* number of migrations the program knows
    None,          \* no session
    Partial,       \* content of a registry file that is truncated
    Jumbled,       \* content that is the end of one text behind another
    MaxStores,     \* bound: store files created
    MaxStarts,     \* bound: servers started
    MaxSwitches,   \* bound: requests that open, delete, list or set up
    MaxFaults      \* bound: processes stopped in mid-operation, writes that fail,
                   \* folders removed

ASSUME SessionAssumption ==
    /\ Mcp \intersect Ui = {}
    /\ Latest \in Nat \ {0}
    /\ \A R \in SUBSET Workspace : R # Partial /\ R # Jumbled
    /\ Partial # Jumbled
    /\ {MaxStores, MaxStarts, MaxSwitches, MaxFaults} \subseteq Nat

VARIABLES
    folder,      \* project folders that exist
    registry,    \* workspaces.json: the registered workspaces
    stored,      \* number of the store file in each workspace, 0 if there is none
    version,     \* recorded schema version of each store file
    applied,     \* migrations whose effects each store file has
    session,     \* what each server serves
    op,          \* what each process is doing
    cache,       \* _migrated_paths of each process, with the file it was about
    left,        \* history: UI servers that closed their store to delete it
    expect,      \* history: the registry, had each change been one step
    mixed, torn, \* history: registry writers overlapped; one was cut short in its write
    created, starts, switches, faults

Process == Mcp \union Ui
Store == 1 .. MaxStores
files == <<stored, version, applied, created>>
reg == <<registry, expect, mixed, torn>>
vars == <<folder, files, reg, session, op, cache, left, starts, switches, faults>>

Idle == [step |-> "idle"]

\* What the registry is loaded for: a server's start, open_workspace (once it
\* has swapped, or to word its refusal), or a call whose errors are caught.
Purpose == {"start", "switch", "refusal", "route"}

Operation ==
    {Idle}
    \union [step : {"migrate", "stamp"}, why : {"start", "switch", "setup"},
            root : Workspace, store : Store, done : 0 .. Latest, known : BOOLEAN]
    \union [step : {"unlink"}, root : Workspace]
    \union [step : {"load"}, why : Purpose, change : {"add", "drop", "prune"},
            root : Workspace]
    \union [step : {"truncate", "write"}, why : Purpose,
            change : {"add", "drop", "prune"}, root : Workspace, copy : SUBSET Workspace]

Session == [root : Workspace, store : Store, conn : {"open", "dirty", "closed"}]

ASSUME NoneIsNoSession == None \notin Session

TypeOK ==
    /\ folder \subseteq Workspace
    /\ registry \in (SUBSET Workspace) \union {Partial, Jumbled}
    /\ stored \in [Workspace -> 0 .. MaxStores]
    /\ \A w, x \in Workspace : w # x /\ stored[w] = stored[x] => stored[w] = 0
    /\ version \in [Store -> 0 .. Latest]
    /\ applied \in [Store -> SUBSET (1 .. Latest)]
    /\ session \in [Process -> Session \union {None}]
    /\ op \in [Process -> Operation]
    /\ cache \in [Process -> SUBSET (Workspace \X Store)]
    /\ left \subseteq Ui /\ expect \subseteq Workspace
    /\ mixed \in BOOLEAN /\ torn \in BOOLEAN
    /\ created \in 0 .. MaxStores /\ starts \in 0 .. MaxStarts
    /\ switches \in 0 .. MaxSwitches /\ faults \in 0 .. MaxFaults

Init ==
    /\ folder = Workspace
    /\ registry = {}
    /\ stored = [w \in Workspace |-> 0]
    /\ version = [s \in Store |-> 0]
    /\ applied = [s \in Store |-> {}]
    /\ session = [p \in Process |-> None]
    /\ op = [p \in Process |-> Idle]
    /\ cache = [p \in Process |-> {}]
    /\ left = {} /\ expect = {} /\ mixed = FALSE /\ torn = FALSE
    /\ created = 0 /\ starts = 0 /\ switches = 0 /\ faults = 0

-----------------------------------------------------------------------------
Goto(p, next) == op' = [op EXCEPT ![p] = next]

Serving(p) == session[p] # None /\ op[p] = Idle

Request(p) == Serving(p) /\ switches < MaxSwitches /\ switches' = switches + 1

\* Nothing catches an error: the server ends.
End(p) ==
    /\ session' = [session EXCEPT ![p] = None]
    /\ cache' = [cache EXCEPT ![p] = {}]
    /\ Goto(p, Idle)

\* The call ends, with an error for an answer or none.
GiveUp(p) == Goto(p, Idle) /\ UNCHANGED <<session, cache>>

\* A registry that cannot be parsed is read as an empty one.
Registered == IF registry \in {Partial, Jumbled} THEN {} ELSE registry

-----------------------------------------------------------------------------
(* GraphStore.__init__ and apply_pending *)

\* Mutant of Cached: the path alone is remembered.
CachedPath(p, w, s) == \E t \in Store : <<w, t>> \in cache[p]

\* The process has migrated this path before, and the file has not changed.
Cached(p, w, s) == <<w, s>> \in cache[p]

\* Connect, creating the file if there is none, and read the schema version.
Connect(p, w, why) ==
    LET s == IF stored[w] = 0 THEN created + 1 ELSE stored[w] IN
    /\ w \in folder
    /\ s \in Store
    /\ stored' = [stored EXCEPT ![w] = s]
    /\ created' = IF stored[w] = 0 THEN s ELSE created
    /\ \E done \in {version[s]} \union (IF Cached(p, w, s) THEN {Latest} ELSE {}) :
          Goto(p, [step |-> "migrate", why |-> why, root |-> w, store |-> s,
                   done |-> done, known |-> stored[w] # 0])
    /\ UNCHANGED <<version, applied>>

\* The script of the first migration commits as it goes.
RunScript(p) ==
    /\ op[p].step = "migrate" /\ op[p].done = 0
    /\ applied' = [applied EXCEPT ![op[p].store] = @ \union {1}]
    /\ Goto(p, [op[p] EXCEPT !.step = "stamp"])
    /\ UNCHANGED <<folder, stored, version, created, reg, session, cache, left, starts, switches, faults>>

Stamp(p) ==
    /\ op[p].step = "stamp"
    /\ version' = [version EXCEPT ![op[p].store] = 1]
    /\ Goto(p, [op[p] EXCEPT !.step = "migrate", !.done = 1])
    /\ UNCHANGED <<folder, stored, applied, created, reg, session, cache, left, starts, switches, faults>>

\* Versions are stamped in the order of this opener, whatever another has done.
Migrate(p) ==
    LET i == op[p].done + 1 IN
    /\ op[p].step = "migrate" /\ op[p].done \in 1 .. Latest - 1
    /\ applied' = [applied EXCEPT ![op[p].store] = @ \union {i}]
    /\ version' = [version EXCEPT ![op[p].store] = i]
    /\ Goto(p, [op[p] EXCEPT !.done = i])
    /\ UNCHANGED <<folder, stored, created, reg, session, cache, left, starts, switches, faults>>

\* A lock held by another process, or its newer commit, fails the migration.
Contended(p) ==
    \E q \in Process \ {p} :
        \/ op[q].step \in {"migrate", "stamp"} /\ op[q].store = op[p].store
        \/ session[q] # None /\ session[q].store = op[p].store

\* Mutant of OpenFails: the error is not caught in open_workspace.
OpenFailsHard(p) ==
    /\ op[p].step \in {"migrate", "stamp"} /\ op[p].done < Latest /\ Contended(p)
    /\ Goto(p, Idle)
    /\ session' = [session EXCEPT ![p] = None]
    /\ UNCHANGED <<folder, files, reg, cache, left, starts, switches, faults>>

\* The connection is closed.  A server that was starting ends; one that serves
\* goes on with the store it has.
OpenFails(p) ==
    /\ op[p].step \in {"migrate", "stamp"} /\ op[p].done < Latest /\ Contended(p)
    /\ Goto(p, Idle)
    /\ UNCHANGED <<folder, files, reg, session, cache, left, starts, switches, faults>>

\* An MCP server that created the store at start does not register it.
AfterOpen(p) ==
    IF op[p].why = "start" /\ p \in Mcp /\ ~op[p].known
    THEN Idle
    ELSE [step |-> "load", change |-> "add", root |-> op[p].root,
          why |-> IF op[p].why = "setup" THEN "route" ELSE op[p].why]

Remember(p) == cache' = [cache EXCEPT ![p] = @ \union {<<op[p].root, op[p].store>>}]

Opened(p, why) ==
    op[p].step = "migrate" /\ op[p].done = Latest /\ op[p].why = why

NewSession(p) == [root |-> op[p].root, store |-> op[p].store, conn |-> "open"]

OpenedAtStart(p) ==
    /\ Opened(p, "start")
    /\ session' = [session EXCEPT ![p] = NewSession(p)]
    /\ Remember(p)
    /\ Goto(p, AfterOpen(p))
    /\ UNCHANGED <<folder, files, reg, left, starts, switches, faults>>

\* Mutant of Swap: the root is set and the store is not.
SwapRoot(p) ==
    /\ Opened(p, "switch") /\ session[p].conn # "dirty"
    /\ session' = [session EXCEPT ![p].root = op[p].root]
    /\ Remember(p)
    /\ Goto(p, AfterOpen(p))
    /\ UNCHANGED <<folder, files, reg, left, starts, switches, faults>>

\* The old connection is closed, the new one takes its place.
Swap(p) ==
    /\ Opened(p, "switch") /\ session[p].conn # "dirty"
    /\ session' = [session EXCEPT ![p] = NewSession(p)]
    /\ Remember(p)
    /\ Goto(p, AfterOpen(p))
    /\ UNCHANGED <<folder, files, reg, left, starts, switches, faults>>

\* Closing checkpoints the log, which fails in a transaction that a failed call
\* has left open.  Nothing catches it.
SwapFails(p) ==
    /\ Opened(p, "switch") /\ session[p].conn = "dirty"
    /\ End(p)
    /\ UNCHANGED <<folder, files, reg, left, starts, switches, faults>>

StoreEnsured(p) ==
    /\ Opened(p, "setup")
    /\ Remember(p)
    /\ Goto(p, AfterOpen(p))
    /\ UNCHANGED <<folder, files, reg, session, left, starts, switches, faults>>

-----------------------------------------------------------------------------
(* The registry *)

\* Mutant of Live: a workspace without a store is dropped.
LiveWithStore(copy) == {w \in copy : stored[w] # 0}

\* The workspaces that list_workspaces keeps, of those in the file.
Live(copy) == copy \intersect folder

Changed(copy, change, w) ==
    CASE change = "add" -> copy \union {w}
      [] change = "drop" -> copy \ {w}
      [] change = "prune" -> Live(copy)

\* Registering always writes; the others only what they changed.
LoadRegistry(p) ==
    LET o == op[p]
        copy == Changed(Registered, o.change, o.root)
        writes == o.change = "add" \/ copy # Registered
    IN
    /\ o.step = "load"
    /\ Goto(p, IF writes THEN [step |-> "truncate", why |-> o.why, change |-> o.change,
                               root |-> o.root, copy |-> copy]
               ELSE Idle)
    /\ mixed' = (mixed \/ \E q \in Process \ {p} : op[q].step \in {"truncate", "write"})
    /\ UNCHANGED <<folder, files, registry, expect, torn, session, cache, left, starts, switches, faults>>

Truncate(p) ==
    /\ op[p].step = "truncate"
    /\ registry' = Partial
    /\ Goto(p, [op[p] EXCEPT !.step = "write"])
    /\ UNCHANGED <<folder, files, expect, mixed, torn, session, cache, left, starts, switches, faults>>

\* A shorter text leaves the end of a longer one that was written since the
\* file was truncated.
Written(p) ==
    LET o == op[p] IN
    /\ o.step = "write"
    /\ registry' \in {o.copy} \union (IF registry \in {Partial, o.copy} THEN {} ELSE {Jumbled})
    /\ expect' = CASE o.change = "add" -> expect \union {o.root}
                   [] o.change = "drop" -> expect \ {o.root}
                   [] o.change = "prune" -> expect \intersect (folder \union o.copy)

WriteRegistry(p) ==
    /\ Written(p)
    /\ Goto(p, Idle)
    /\ UNCHANGED <<folder, files, mixed, torn, session, cache, left, starts, switches, faults>>

Fault == faults < MaxFaults /\ faults' = faults + 1

\* Text cut inside a character: the UnicodeDecodeError is caught in calls only.
LoadFails(p) ==
    /\ op[p].step = "load" /\ registry \in {Partial, Jumbled}
    /\ IF op[p].why = "route" THEN GiveUp(p) ELSE End(p)
    /\ UNCHANGED <<folder, files, reg, left, starts, switches, faults>>

\* The file cannot be opened, or the write fails and leaves it cut: an OSError,
\* which is caught at start too.
SaveFails(p) ==
    /\ op[p].step \in {"truncate", "write"} /\ Fault
    /\ torn' = (torn \/ op[p].step = "write")
    /\ IF op[p].why \in {"start", "route"} THEN GiveUp(p) ELSE End(p)
    /\ UNCHANGED <<folder, files, registry, expect, mixed, left, starts, switches>>

\* open_workspace has registered the workspace and cannot list its graphs.
AnswerFails(p) ==
    /\ Written(p) /\ op[p].why = "switch" /\ Fault
    /\ End(p)
    /\ UNCHANGED <<folder, files, mixed, torn, left, starts, switches>>

-----------------------------------------------------------------------------
(* Servers *)

\* run_mcp_server over a folder, or run_server of the UI.
Start(p, w) ==
    /\ session[p] = None /\ op[p] = Idle
    /\ starts < MaxStarts /\ starts' = starts + 1
    /\ Connect(p, w, "start")
    /\ UNCHANGED <<folder, reg, session, cache, left, switches, faults>>

\* open_workspace: only a registered workspace, by the registry as it is now.
OpenWorkspace(p, w) ==
    /\ p \in Mcp /\ Request(p)
    /\ w \in Registered
    /\ Connect(p, w, "switch")
    /\ UNCHANGED <<folder, reg, session, cache, left, starts, faults>>

\* list_workspaces: asked for, or called to word the refusal of open_workspace.
ListWorkspaces(p) ==
    /\ p \in Mcp /\ Request(p)
    /\ \E why \in {"refusal", "route"} :
          Goto(p, [step |-> "load", why |-> why, change |-> "prune",
                   root |-> session[p].root])
    /\ UNCHANGED <<folder, files, reg, session, cache, left, starts, faults>>

\* A line that is no JSON object; or find_workspace of open_workspace meets text
\* cut inside a character.
RequestFails(p) ==
    /\ p \in Mcp /\ Request(p)
    /\ End(p)
    /\ UNCHANGED <<folder, files, reg, left, starts, faults>>

\* A write that violates a constraint leaves its transaction open; a later
\* write commits it.
Call(p) ==
    /\ Serving(p) /\ session[p].conn # "closed"
    /\ session' = [session EXCEPT ![p].conn = IF @ = "dirty" THEN "open" ELSE "dirty"]
    /\ UNCHANGED <<folder, files, reg, op, cache, left, starts, switches, faults>>

\* DELETE /api/workspaces/{path}, with its store or without.  A server that is
\* asked to delete its own store closes it first, which may fail.
DeleteWorkspace(p, w, withStore) ==
    /\ p \in Ui /\ Request(p)
    /\ IF withStore
       THEN /\ ~(session[p].root = w /\ session[p].conn = "dirty")
            /\ Goto(p, [step |-> "unlink", root |-> w])
            /\ IF session[p].root = w
               THEN /\ session' = [session EXCEPT ![p].conn = "closed"]
                    /\ left' = left \union {p}
               ELSE UNCHANGED <<session, left>>
       ELSE /\ Goto(p, [step |-> "load", why |-> "route", change |-> "drop", root |-> w])
            /\ UNCHANGED <<session, left>>
    /\ UNCHANGED <<folder, files, reg, cache, starts, faults>>

\* delete_workspace_store: other processes may have the file open.
Unlink(p) ==
    /\ op[p].step = "unlink"
    /\ stored' = [stored EXCEPT ![op[p].root] = 0]
    /\ Goto(p, [step |-> "load", why |-> "route", change |-> "drop", root |-> op[p].root])
    /\ UNCHANGED <<folder, version, applied, created, reg, session, cache, left, starts, switches, faults>>

\* On a system that does not unlink open files.
UnlinkFails(p) ==
    /\ op[p].step = "unlink"
    /\ \E q \in Process \ {p} : session[q] # None /\ session[q].store = stored[op[p].root]
    /\ Goto(p, Idle)
    /\ UNCHANGED <<folder, files, reg, session, cache, left, starts, switches, faults>>

\* POST /api/setup-mcp: make the store if there is none, then register.
Setup(p) ==
    LET w == session[p].root IN
    /\ p \in Ui /\ Request(p)
    /\ IF stored[w] = 0
       THEN Connect(p, w, "setup")
       ELSE /\ Goto(p, [step |-> "load", why |-> "route", change |-> "add", root |-> w])
            /\ UNCHANGED files
    /\ UNCHANGED <<folder, reg, session, cache, left, starts, faults>>

\* The process ends: asked to when it is idle, cut short otherwise.
Stop(p) ==
    /\ session[p] # None \/ op[p] # Idle
    /\ IF op[p] = Idle THEN UNCHANGED faults ELSE Fault
    /\ torn' = (torn \/ op[p].step = "write")
    /\ End(p)
    /\ left' = left \ {p}
    /\ UNCHANGED <<folder, files, registry, expect, mixed, starts, switches>>

\* The user removes a project folder.
RemoveFolder(w) ==
    /\ w \in folder /\ Fault
    /\ folder' = folder \ {w}
    /\ stored' = [stored EXCEPT ![w] = 0]
    /\ UNCHANGED <<version, applied, created, reg, session, op, cache, left, starts, switches>>

-----------------------------------------------------------------------------
Next ==
    \/ \E p \in Process :
          \/ \E w \in Workspace : \/ Start(p, w) \/ OpenWorkspace(p, w)
                                  \/ \E b \in BOOLEAN : DeleteWorkspace(p, w, b)
          \/ RunScript(p) \/ Stamp(p) \/ Migrate(p) \/ OpenFails(p)
          \/ OpenedAtStart(p) \/ Swap(p) \/ SwapFails(p) \/ StoreEnsured(p)
          \/ LoadRegistry(p) \/ Truncate(p) \/ WriteRegistry(p)
          \/ LoadFails(p) \/ SaveFails(p) \/ AnswerFails(p) \/ RequestFails(p)
          \/ ListWorkspaces(p) \/ Call(p) \/ Unlink(p) \/ UnlinkFails(p)
          \/ Setup(p) \/ Stop(p)
    \/ \E w \in Workspace : RemoveFolder(w)

Spec == Init /\ [][Next]_vars

-----------------------------------------------------------------------------
(* Properties *)

\* A store that is served has every migration, and a recorded version has all
\* up to it, though openers migrate one file side by side, stop half-way, and
\* stamp versions lower than what is there (apply_pending, _migrated_paths).
OpenStoresAreWhole ==
    /\ \A p \in Process : session[p] # None => applied[session[p].store] = 1 .. Latest
    /\ \A s \in Store : 1 .. version[s] \subseteq applied[s]

\* A registration stays until it is withdrawn, or pruned with its folder, as
\* long as no two writers of the registry overlapped and none was cut short
\* with the file truncated (_save_registry).
RegistrationsAreKept ==
    (~mixed /\ ~torn /\ \A p \in Process : op[p].step # "write") => registry = expect

\* What a server writes goes to the store at the root it reports, or to a file
\* that was deleted under it; its connection is open, unless it closed it to
\* delete its own workspace (_handle_open_workspace, delete_workspace).
SessionsStayInTheirWorkspace ==
    \A p \in Process : session[p] # None =>
        LET s == session[p] IN
        IF s.conn = "closed" THEN p \in left
        ELSE s.store = stored[s.root] \/ \A w \in Workspace : stored[w] # s.store

\* Somebody's write of the registry is under way, was cut short, or was mixed
\* with another's.
RegistryIsSpoilt == torn \/ mixed \/ \E q \in Process : op[q].step = "write"

\* A server ends because it was stopped, or by an error that nothing catches: an
\* MCP server on a request it cannot read, or past the try of open_workspace (a
\* transaction left open by a failed call, a registry that cannot be read or
\* written, an answer that fails); and any server that meets, at its start, a
\* registry spoilt by the writes of others.  A UI server that serves ends in no other
\* way, nor does a store that fails to open end a server (_handle_open_workspace,
\* run_mcp_server, _load_registry).
ServersEndAsAsked ==
    [][\A p \in Process :
          session[p] # None /\ session'[p] = None =>
              \/ Stop(p)
              \/ p \in Mcp /\ op[p] = Idle /\ switches' > switches
              \/ op[p].step = "migrate" /\ op[p].why = "switch" /\ session[p].conn = "dirty"
              \/ /\ op[p].step \in {"load", "truncate", "write"}
                 /\ \/ p \in Mcp /\ op[p].why \in {"switch", "refusal"}
                    \/ op[p].why = "start" /\ op[p].step = "load"
                 /\ RegistryIsSpoilt \/ faults' > faults]_vars
=============================================================================
