----------------------------- MODULE Hosts_proofs -----------------------------
(***************************************************************************)
(* Proofs about what the processes of one machine keep in files or on a    *)
(* page: Sessions (part 1), SourceBindings (part 2) and EditSession (part  *)
(* 3), each for any number of processes, actors, nodes and files, and that *)
(* the three side by side are still the three (part 4).                    *)
(***************************************************************************)
EXTENDS MC_Hosts, FiniteSetTheorems, TLAPS

-----------------------------------------------------------------------------
(***************************************************************************)
(* 1. Sessions, for any number of servers, workspaces, stores and          *)
(* migrations: types; that a store that is served has every migration;     *)
(* that a server's store is the one at its root; that registrations are    *)
(* kept; that servers end as asked.  A file that is created has a number   *)
(* no file had (StoresAreNumbered).  What an opener believes of its file is *)
(* true (OpenersAreRight), and so is what a process remembers of a file    *)
(* (MemoryIsRight).  While no two writers of the registry have overlapped  *)
(* there is one of them at most, and it holds the registry with its change *)
(* made (WritersAreAlone).  A registry that is cut is being written, or its *)
(* writer was cut short, and one that is jumbled had two (CutIsKnown).     *)
(***************************************************************************)
USE SessionAssumption

Opening == [step : {"migrate", "stamp"}, why : {"start", "switch", "setup"},
            root : Workspace, store : Store, done : 0 .. Latest, known : BOOLEAN]
Loading == [step : {"load"}, why : Purpose, change : {"add", "drop", "prune"},
            root : Workspace]
Writing == [step : {"truncate", "write"}, why : Purpose,
            change : {"add", "drop", "prune"}, root : Workspace, copy : SUBSET Workspace]

IsOpening(o) == o.step \in {"migrate", "stamp"}
IsWriting(o) == o.step \in {"truncate", "write"}

StoresAreNumbered ==
    /\ \A w \in Workspace : stored[w] <= created
    /\ \A p \in Process : session[p] # None => session[p].store <= created
    /\ \A p \in Process : IsOpening(op[p]) => op[p].store <= created

\* Store s is the one of workspace w, or of none any more.
InPlace(s, w) == s = stored[w] \/ \A x \in Workspace : stored[x] # s

OpenersAreRight ==
    \A p \in Process : IsOpening(op[p]) =>
        /\ 1 .. op[p].done \subseteq applied[op[p].store]
        /\ op[p].step = "stamp" => 1 \in applied[op[p].store]
        /\ InPlace(op[p].store, op[p].root)

MemoryIsRight ==
    \A p \in Process : \A s \in Store : \A w \in Workspace :
        Cached(p, w, s) => applied[s] = 1 .. Latest

\* What a writer that loaded the registry as it is may hold.
ChangeOf(o) ==
    /\ o.change = "add" => o.copy = expect \union {o.root}
    /\ o.change = "drop" => o.copy = expect \ {o.root}
    /\ o.change = "prune" => o.copy \subseteq expect /\ expect \intersect folder \subseteq o.copy

WritersAreAlone ==
    (~mixed /\ ~torn) =>
        /\ \A p, q \in Process : IsWriting(op[p]) /\ IsWriting(op[q]) => p = q
        /\ \A p \in Process : IsWriting(op[p]) => ChangeOf(op[p])
        /\ (\A p \in Process : op[p].step # "write") => registry = expect

CutIsKnown ==
    /\ registry = Partial => torn \/ \E q \in Process : op[q].step = "write"
    /\ registry = Jumbled => mixed
    /\ ~mixed => /\ \A p, q \in Process : IsWriting(op[p]) /\ IsWriting(op[q]) => p = q
                 /\ \A p \in Process : op[p].step = "write" => registry = Partial

\* Only an MCP server switches workspaces, or is refused one.
MayDo(p, o) == o.step \notin {"idle", "unlink"} /\ o.why \in {"switch", "refusal"} => p \in Mcp
PurposesAreRight == \A p \in Process : MayDo(p, op[p])

SessionsInv ==
    /\ TypeOK
    /\ StoresAreNumbered
    /\ OpenersAreRight
    /\ MemoryIsRight
    /\ OpenStoresAreWhole
    /\ SessionsStayInTheirWorkspace

-----------------------------------------------------------------------------
(***************************************************************************)
(* What a process that is busy carries.                                    *)
(***************************************************************************)
LEMMA OperationParts ==
    ASSUME NEW o \in Operation
    PROVE  /\ IsOpening(o) => o \in Opening
           /\ o.step = "unlink" => o.root \in Workspace
           /\ o.step = "load" => o \in Loading
           /\ IsWriting(o) => o \in Writing
<1>1. CASE o = Idle
  BY <1>1 DEF Idle, IsOpening, IsWriting
<1>2. CASE o \in Opening
  BY <1>2 DEF Opening, IsOpening, IsWriting
<1>3. CASE o \in [step : {"unlink"}, root : Workspace]
  BY <1>3 DEF IsOpening, IsWriting
<1>4. CASE o \in Loading
  BY <1>4 DEF Loading, IsOpening, IsWriting
<1>5. CASE o \in Writing
  BY <1>5 DEF Writing, IsOpening, IsWriting
<1> QED
  BY <1>1, <1>2, <1>3, <1>4, <1>5 DEF Operation, Opening, Loading, Writing

LEMMA PartsOfOperation ==
    /\ Idle \in Operation
    /\ Opening \subseteq Operation
    /\ Loading \subseteq Operation
    /\ Writing \subseteq Operation
    /\ \A w \in Workspace : [step |-> "unlink", root |-> w] \in Operation
  BY DEF Operation, Opening, Loading, Writing

\* What opening a store does: it is the file at w, or a new one with the next
\* number, and the opener continues from its version or, by memory, at the end.
Connects(p, w, why, s, done, known) ==
    /\ s \in Store /\ s <= created' /\ created <= created' /\ created' \in 0 .. MaxStores
    /\ stored' = [stored EXCEPT ![w] = s]
    /\ (stored[w] = s /\ created' = created) \/ (stored[w] = 0 /\ s = created + 1)
    /\ op' = [op EXCEPT ![p] = [step |-> "migrate", why |-> why, root |-> w, store |-> s,
                               done |-> done, known |-> known]]
    /\ done \in 0 .. Latest
    /\ done = version[s] \/ (Cached(p, w, s) /\ done = Latest)
    /\ version' = version /\ applied' = applied

LEMMA ConnectOpens ==
    ASSUME TypeOK, StoresAreNumbered, NEW p \in Process, NEW w \in Workspace,
           NEW why \in {"start", "switch", "setup"}, Connect(p, w, why)
    PROVE  \E s \in Store, done \in 0 .. Latest, known \in BOOLEAN :
               Connects(p, w, why, s, done, known)
<1> DEFINE s == IF stored[w] = 0 THEN created + 1 ELSE stored[w]
           known == stored[w] # 0
<1>1. s \in Store
  BY DEF Connect
<1>2. PICK done \in {version[s]} \union (IF Cached(p, w, s) THEN {Latest} ELSE {}) :
         op' = [op EXCEPT ![p] = [step |-> "migrate", why |-> why, root |-> w, store |-> s,
                                done |-> done, known |-> known]]
  BY DEF Connect, Goto
<1>3. done = version[s] \/ (Cached(p, w, s) /\ done = Latest)
  <2>1. CASE Cached(p, w, s)
    BY <2>1, <1>2
  <2>2. CASE ~Cached(p, w, s)
    BY <2>2, <1>2
  <2> QED BY <2>1, <2>2
<1>4. done \in 0 .. Latest
  BY <1>1, <1>3 DEF TypeOK
<1>5. /\ stored' = [stored EXCEPT ![w] = s]
      /\ created' = IF stored[w] = 0 THEN s ELSE created
      /\ version' = version /\ applied' = applied
  BY DEF Connect
<1>6. stored[w] \in 0 .. MaxStores /\ created \in 0 .. MaxStores /\ stored[w] <= created
  BY DEF TypeOK, StoresAreNumbered
<1>7. /\ s <= created' /\ created <= created' /\ created' \in 0 .. MaxStores
      /\ (stored[w] = s /\ created' = created) \/ (stored[w] = 0 /\ s = created + 1)
  BY <1>1, <1>5, <1>6 DEF Store
<1>8. known \in BOOLEAN
  OBVIOUS
<1>9. Connects(p, w, why, s, done, known)
  BY <1>1, <1>2, <1>3, <1>4, <1>5, <1>7 DEF Connects
<1> QED
  BY <1>1, <1>4, <1>8, <1>9

-----------------------------------------------------------------------------
(***************************************************************************)
(* Types.                                                                  *)
(***************************************************************************)
\* The part of the types that is about the files, with their numbers.
FilesOK ==
    /\ stored \in [Workspace -> 0 .. MaxStores]
    /\ \A w, x \in Workspace : w # x /\ stored[w] = stored[x] => stored[w] = 0
    /\ version \in [Store -> 0 .. Latest]
    /\ applied \in [Store -> SUBSET (1 .. Latest)]
    /\ created \in 0 .. MaxStores

LEMMA ConnectKeepsTypes ==
    ASSUME TypeOK, StoresAreNumbered, NEW p \in Process, NEW w \in Workspace,
           NEW why \in {"start", "switch", "setup"}, Connect(p, w, why)
    PROVE  FilesOK' /\ op' \in [Process -> Operation]
<1>1. PICK s \in Store, done \in 0 .. Latest, known \in BOOLEAN :
         Connects(p, w, why, s, done, known)
  BY ConnectOpens
<1>2. [step |-> "migrate", why |-> why, root |-> w, store |-> s,
       done |-> done, known |-> known] \in Operation
  BY PartsOfOperation DEF Opening
<1>3. op' \in [Process -> Operation]
  BY <1>1, <1>2 DEF Connects, TypeOK
<1>4. stored' \in [Workspace -> 0 .. MaxStores]
  BY <1>1 DEF Connects, TypeOK, Store
<1>5. \A x, y \in Workspace : x # y /\ stored'[x] = stored'[y] => stored'[x] = 0
  <2>1. stored'[w] = s /\ \A x \in Workspace : x # w => stored'[x] = stored[x]
    BY <1>1 DEF Connects, TypeOK
  <2>2. s # 0 /\ (stored[w] = s \/ s = created + 1)
    BY <1>1 DEF Connects, Store
  <2>3. \A x \in Workspace : x # w => stored[x] # s
    BY <2>2 DEF TypeOK, StoresAreNumbered
  <2> QED
    BY <2>1, <2>3 DEF TypeOK
<1>6. version' \in [Store -> 0 .. Latest] /\ applied' \in [Store -> SUBSET (1 .. Latest)]
  BY <1>1 DEF Connects, TypeOK
<1> QED
  BY <1>1, <1>3, <1>4, <1>5, <1>6 DEF Connects, TypeOK, FilesOK

LEMMA TypeStep == TypeOK /\ StoresAreNumbered /\ [Next]_vars => TypeOK'
<1> SUFFICES ASSUME TypeOK, StoresAreNumbered, [Next]_vars PROVE TypeOK'
  OBVIOUS
<1> USE PartsOfOperation
<1>1. CASE UNCHANGED vars
  BY <1>1 DEF TypeOK, vars, files, reg
<1>2. ASSUME NEW p \in Process, NEW w \in Workspace,
             Start(p, w) \/ OpenWorkspace(p, w)
      PROVE  TypeOK'
  <2>1. FilesOK' /\ op' \in [Process -> Operation]
    BY <1>2, ConnectKeepsTypes DEF Start, OpenWorkspace
  <2>2. starts' \in 0 .. MaxStarts /\ switches' \in 0 .. MaxSwitches
    BY <1>2 DEF Start, OpenWorkspace, Request, TypeOK
  <2>3. UNCHANGED <<folder, reg, session, cache, left, faults>>
    BY <1>2 DEF Start, OpenWorkspace
  <2> QED
    BY <2>1, <2>2, <2>3 DEF TypeOK, FilesOK, reg
<1>3. ASSUME NEW p \in Process, NEW w \in Workspace, NEW b \in BOOLEAN,
             DeleteWorkspace(p, w, b)
      PROVE  TypeOK'
  <2>1. switches' \in 0 .. MaxSwitches
    BY <1>3 DEF DeleteWorkspace, Request, TypeOK
  <2>2. UNCHANGED <<folder, files, reg, cache, starts, faults>>
    BY <1>3 DEF DeleteWorkspace
  <2>3. session[p] \in Session
    BY <1>3 DEF DeleteWorkspace, Request, Serving, TypeOK
  <2>4. [step |-> "load", why |-> "route", change |-> "drop", root |-> w] \in Operation
    BY DEF Loading, Purpose
  <2>5. op' \in [Process -> Operation]
    BY <1>3, <2>4 DEF DeleteWorkspace, Goto, TypeOK
  <2>6. session' \in [Process -> Session \union {None}] /\ left' \subseteq Ui
    BY <1>3, <2>3 DEF DeleteWorkspace, TypeOK, Session
  <2> QED
    BY <2>1, <2>2, <2>5, <2>6 DEF TypeOK, reg, files
<1>4. ASSUME NEW p \in Process, RunScript(p) \/ Stamp(p) \/ Migrate(p)
      PROVE  TypeOK'
  <2>1. op[p] \in Opening
    BY <1>4, OperationParts DEF RunScript, Stamp, Migrate, IsOpening, TypeOK
  <2>2. CASE RunScript(p)
    <3>1. [op[p] EXCEPT !.step = "stamp"] \in Opening
      BY <2>1 DEF Opening
    <3>2. op' \in [Process -> Operation]
      BY <2>2, <3>1 DEF RunScript, Goto, TypeOK
    <3> QED
      BY <2>1, <2>2, <3>2 DEF RunScript, TypeOK, reg, Opening
  <2>3. CASE Stamp(p)
    <3> DEFINE next == [op[p] EXCEPT !.step = "migrate", !.done = 1]
    <3>1. next \in Opening
      <4>1. 1 \in 0 .. Latest
        OBVIOUS
      <4>2. [op[p] EXCEPT !.step = "migrate"] \in Opening
        BY <2>1 DEF Opening
      <4>3. [[op[p] EXCEPT !.step = "migrate"] EXCEPT !.done = 1] \in Opening
        BY <4>1, <4>2 DEF Opening
      <4> QED
        BY <4>3
    <3>2. op' \in [Process -> Operation]
      BY <2>3, <3>1 DEF Stamp, Goto, TypeOK
    <3> QED
      BY <2>1, <2>3, <3>2 DEF Stamp, TypeOK, reg, Opening
  <2>4. CASE Migrate(p)
    <3>1. op[p].done + 1 \in 1 .. Latest /\ op[p].store \in Store
      BY <2>1, <2>4 DEF Opening, Migrate
    <3>2. [op[p] EXCEPT !.done = op[p].done + 1] \in Opening
      BY <2>1, <3>1 DEF Opening
    <3>3. op' \in [Process -> Operation]
      BY <2>4, <3>2 DEF Migrate, Goto, TypeOK
    <3>4. version' \in [Store -> 0 .. Latest] /\ applied' \in [Store -> SUBSET (1 .. Latest)]
      BY <2>4, <3>1 DEF Migrate, TypeOK
    <3> QED
      BY <2>4, <3>3, <3>4 DEF Migrate, TypeOK, reg
  <2> QED
    BY <1>4, <2>2, <2>3, <2>4
<1>5. ASSUME NEW p \in Process, OpenFails(p) \/ UnlinkFails(p)
      PROVE  TypeOK'
  <2>1. op' \in [Process -> Operation]
    BY <1>5 DEF OpenFails, UnlinkFails, Goto, TypeOK
  <2> QED
    BY <1>5, <2>1 DEF OpenFails, UnlinkFails, TypeOK, reg, files
<1>6. ASSUME NEW p \in Process, OpenedAtStart(p) \/ Swap(p) \/ StoreEnsured(p)
      PROVE  TypeOK'
  <2>1. op[p] \in Opening
    BY <1>6, OperationParts DEF OpenedAtStart, Swap, StoreEnsured, Opened, IsOpening, TypeOK
  <2>2. AfterOpen(p) \in Operation
    BY <2>1 DEF AfterOpen, Opening, Loading, Purpose
  <2>3. op' \in [Process -> Operation]
    BY <1>6, <2>2 DEF OpenedAtStart, Swap, StoreEnsured, Goto, TypeOK
  <2>4. NewSession(p) \in Session
    BY <2>1 DEF NewSession, Session, Opening
  <2>5. session' \in [Process -> Session \union {None}]
    BY <1>6, <2>4 DEF OpenedAtStart, Swap, StoreEnsured, TypeOK
  <2>6. cache' \in [Process -> SUBSET (Workspace \X Store)]
    BY <1>6, <2>1 DEF OpenedAtStart, Swap, StoreEnsured, Remember, TypeOK, Opening
  <2> QED
    BY <1>6, <2>3, <2>5, <2>6 DEF OpenedAtStart, Swap, StoreEnsured, TypeOK, reg, files
<1>7. ASSUME NEW p \in Process, SwapFails(p)
      PROVE  TypeOK'
  <2>1. op' \in [Process -> Operation]
    BY <1>7 DEF SwapFails, End, Goto, TypeOK
  <2> QED
    BY <1>7, <2>1 DEF SwapFails, End, TypeOK, reg, files
<1>8. ASSUME NEW p \in Process, LoadRegistry(p)
      PROVE  TypeOK'
  <2> DEFINE copy == Changed(Registered, op[p].change, op[p].root)
  <2>1. op[p] \in Loading
    BY <1>8, OperationParts DEF LoadRegistry, TypeOK
  <2>2. copy \in SUBSET Workspace
    BY <2>1 DEF Changed, Registered, Live, TypeOK, Loading
  <2>3. [step |-> "truncate", why |-> op[p].why, change |-> op[p].change,
         root |-> op[p].root, copy |-> copy] \in Operation
    BY <2>1, <2>2 DEF Loading, Writing
  <2>4. op' \in [Process -> Operation]
    BY <1>8, <2>3 DEF LoadRegistry, Goto, TypeOK
  <2>5. mixed' \in BOOLEAN
    BY <1>8, Zenon DEF LoadRegistry, TypeOK
  <2> QED
    BY <1>8, <2>4, <2>5 DEF LoadRegistry, TypeOK, files
<1>9. ASSUME NEW p \in Process, Truncate(p) \/ WriteRegistry(p)
      PROVE  TypeOK'
  <2>1. op[p] \in Writing
    BY <1>9, OperationParts DEF Truncate, WriteRegistry, Written, IsWriting, TypeOK
  <2>2. [op[p] EXCEPT !.step = "write"] \in Writing
    BY <2>1 DEF Writing
  <2>3. op' \in [Process -> Operation]
    BY <1>9, <2>2 DEF Truncate, WriteRegistry, Goto, TypeOK
  <2>4. registry' \in (SUBSET Workspace) \union {Partial, Jumbled} /\ expect' \subseteq Workspace
    BY <1>9, <2>1 DEF Truncate, WriteRegistry, Written, TypeOK, Writing
  <2> QED
    BY <1>9, <2>3, <2>4 DEF Truncate, WriteRegistry, TypeOK, files
<1>10. ASSUME NEW p \in Process, ListWorkspaces(p)
       PROVE  TypeOK'
  <2>1. session[p] \in Session
    BY <1>10 DEF ListWorkspaces, Request, Serving, TypeOK
  <2>2. \A why \in {"refusal", "route"} :
           [step |-> "load", why |-> why, change |-> "prune", root |-> session[p].root] \in Operation
    BY <2>1 DEF Session, Loading, Purpose
  <2>3. op' \in [Process -> Operation]
    BY <1>10, <2>2 DEF ListWorkspaces, Goto, TypeOK
  <2>4. switches' \in 0 .. MaxSwitches
    BY <1>10 DEF ListWorkspaces, Request, TypeOK
  <2> QED
    BY <1>10, <2>3, <2>4 DEF ListWorkspaces, TypeOK, reg, files
<1>11. ASSUME NEW p \in Process, Call(p)
       PROVE  TypeOK'
  <2>1. session[p] \in Session
    BY <1>11 DEF Call, Serving, TypeOK
  <2>2. session' \in [Process -> Session \union {None}]
    BY <1>11, <2>1 DEF Call, TypeOK, Session
  <2> QED
    BY <1>11, <2>2 DEF Call, TypeOK, reg, files
<1>12. ASSUME NEW p \in Process, Unlink(p)
       PROVE  TypeOK'
  <2>1. op[p].root \in Workspace
    BY <1>12, OperationParts DEF Unlink, TypeOK
  <2>2. [step |-> "load", why |-> "route", change |-> "drop", root |-> op[p].root] \in Operation
    BY <2>1 DEF Loading, Purpose
  <2>3. op' \in [Process -> Operation]
    BY <1>12, <2>2 DEF Unlink, Goto, TypeOK
  <2>4. stored' = [stored EXCEPT ![op[p].root] = 0] /\ stored' \in [Workspace -> 0 .. MaxStores]
    BY <1>12, <2>1 DEF Unlink, TypeOK
  <2>5. \A w, x \in Workspace : w # x /\ stored'[w] = stored'[x] => stored'[w] = 0
    BY <2>1, <2>4 DEF TypeOK
  <2> QED
    BY <1>12, <2>3, <2>4, <2>5 DEF Unlink, TypeOK, reg
<1>13. ASSUME NEW p \in Process, Setup(p)
       PROVE  TypeOK'
  <2>1. session[p] \in Session
    BY <1>13 DEF Setup, Request, Serving, TypeOK
  <2>2. session[p].root \in Workspace
    BY <2>1 DEF Session
  <2>3. FilesOK' /\ op' \in [Process -> Operation]
    <3>1. CASE stored[session[p].root] = 0
      BY <1>13, <2>2, <3>1, ConnectKeepsTypes DEF Setup
    <3>2. CASE stored[session[p].root] # 0
      <4>1. [step |-> "load", why |-> "route", change |-> "add",
             root |-> session[p].root] \in Operation
        BY <2>2 DEF Loading, Purpose
      <4> QED
        BY <1>13, <3>2, <4>1 DEF Setup, Goto, TypeOK, FilesOK, files
    <3> QED BY <3>1, <3>2
  <2>4. switches' \in 0 .. MaxSwitches
    BY <1>13 DEF Setup, Request, TypeOK
  <2> QED
    BY <1>13, <2>3, <2>4 DEF Setup, TypeOK, FilesOK, reg
<1>14. ASSUME NEW p \in Process, Stop(p)
       PROVE  TypeOK'
  <2>1. op' \in [Process -> Operation]
    BY <1>14 DEF Stop, End, Goto, TypeOK
  <2>2. torn' \in BOOLEAN
    BY <1>14, Zenon DEF Stop, TypeOK
  <2>3. faults' \in 0 .. MaxFaults
    BY <1>14 DEF Stop, Fault, TypeOK
  <2> QED
    BY <1>14, <2>1, <2>2, <2>3 DEF Stop, End, TypeOK, files
<1>15. ASSUME NEW w \in Workspace, RemoveFolder(w)
       PROVE  TypeOK'
  <2>1. /\ stored' \in [Workspace -> 0 .. MaxStores]
        /\ \A x, y \in Workspace : x # y /\ stored'[x] = stored'[y] => stored'[x] = 0
    BY <1>15 DEF RemoveFolder, TypeOK
  <2> QED
    BY <1>15, <2>1 DEF RemoveFolder, Fault, TypeOK, reg
\* An error ends a call, and the server if nothing catches it.
<1>16. ASSUME NEW p \in Process,
              LoadFails(p) \/ SaveFails(p) \/ AnswerFails(p) \/ RequestFails(p)
       PROVE  TypeOK'
  <2>1. End(p) \/ GiveUp(p)
    BY <1>16 DEF LoadFails, SaveFails, AnswerFails, RequestFails
  <2>2. op' \in [Process -> Operation]
    BY <2>1 DEF End, GiveUp, Goto, TypeOK
  <2>3. /\ session' \in [Process -> Session \union {None}]
        /\ cache' \in [Process -> SUBSET (Workspace \X Store)]
    BY <2>1 DEF End, GiveUp, TypeOK
  <2>4. faults' \in 0 .. MaxFaults /\ switches' \in 0 .. MaxSwitches
    BY <1>16 DEF LoadFails, SaveFails, AnswerFails, RequestFails, Fault, Request, TypeOK
  <2>5. torn' \in BOOLEAN
    BY <1>16, Zenon DEF LoadFails, SaveFails, AnswerFails, RequestFails, TypeOK, reg
  <2>6. registry' \in (SUBSET Workspace) \union {Partial, Jumbled} /\ expect' \subseteq Workspace
    <3>1. CASE AnswerFails(p)
      <4>1. op[p] \in Writing
        BY <3>1, OperationParts DEF AnswerFails, Written, IsWriting, TypeOK
      <4> QED
        BY <3>1, <4>1 DEF AnswerFails, Written, TypeOK, Writing
    <3>2. CASE ~AnswerFails(p)
      BY <1>16, <3>2 DEF LoadFails, SaveFails, RequestFails, TypeOK, reg
    <3> QED
      BY <3>1, <3>2
  <2>7. UNCHANGED <<folder, files, mixed, left, starts>>
    BY <1>16 DEF LoadFails, SaveFails, AnswerFails, RequestFails, reg
  <2> QED
    BY <2>2, <2>3, <2>4, <2>5, <2>6, <2>7 DEF TypeOK, files
<1> QED
  BY <1>1, <1>2, <1>3, <1>4, <1>5, <1>6, <1>7, <1>8, <1>9, <1>10, <1>11, <1>12, <1>13,
     <1>14, <1>15, <1>16 DEF Next

-----------------------------------------------------------------------------
(***************************************************************************)
(* Stores and sessions.                                                    *)
(***************************************************************************)
Rest ==
    /\ StoresAreNumbered
    /\ OpenersAreRight
    /\ MemoryIsRight
    /\ OpenStoresAreWhole
    /\ SessionsStayInTheirWorkspace

LEMMA TypeInit == Init => TypeOK
<1> SUFFICES ASSUME Init PROVE TypeOK
  OBVIOUS
<1>1. op \in [Process -> Operation]
  BY PartsOfOperation DEF Init
<1>2. mixed \in BOOLEAN /\ torn \in BOOLEAN
  BY DEF Init
<1>3. /\ stored \in [Workspace -> 0 .. MaxStores]
      /\ version \in [Store -> 0 .. Latest]
      /\ applied \in [Store -> SUBSET (1 .. Latest)]
      /\ created \in 0 .. MaxStores
  BY DEF Init
<1> QED
  BY <1>1, <1>2, <1>3 DEF Init, TypeOK

LEMMA InvInit == Init => SessionsInv
<1> SUFFICES ASSUME Init PROVE SessionsInv
  OBVIOUS
<1>1. \A p \in Process : session[p] = None /\ op[p] = Idle /\ cache[p] = {}
  BY DEF Init
<1>2. StoresAreNumbered /\ OpenersAreRight
  BY <1>1 DEF Init, StoresAreNumbered, OpenersAreRight, IsOpening, Idle
<1>3. MemoryIsRight
  BY <1>1 DEF MemoryIsRight, Cached
<1>4. OpenStoresAreWhole
  BY <1>1 DEF Init, OpenStoresAreWhole
<1>5. SessionsStayInTheirWorkspace
  BY <1>1 DEF SessionsStayInTheirWorkspace
<1> QED
  BY <1>2, <1>3, <1>4, <1>5, TypeInit DEF SessionsInv

\* Steps that leave the files alone and begin no opening: sessions end or keep
\* what they serve, and memory is lost at most.
LEMMA QuietKeepsInv ==
    ASSUME SessionsInv, TypeOK',
           stored' = stored, version' = version, applied' = applied, created' = created,
           \A q \in Process : op'[q] = op[q] \/ ~IsOpening(op'[q]),
           \A q \in Process : cache'[q] \subseteq cache[q],
           \A q \in Process : session'[q] # None =>
               /\ session[q] # None
               /\ session'[q].root = session[q].root
               /\ session'[q].store = session[q].store
               /\ session'[q].conn = "closed" => q \in left'
               /\ session'[q].conn # "closed" => session[q].conn # "closed"
    PROVE  Rest'
<1>1. StoresAreNumbered'
  BY DEF SessionsInv, StoresAreNumbered, IsOpening
<1>2. OpenersAreRight'
  BY DEF SessionsInv, OpenersAreRight, IsOpening, InPlace
<1>3. MemoryIsRight'
  BY DEF SessionsInv, MemoryIsRight, Cached
<1>4. OpenStoresAreWhole'
  BY DEF SessionsInv, OpenStoresAreWhole
<1>5. SessionsStayInTheirWorkspace'
  BY DEF SessionsInv, SessionsStayInTheirWorkspace
<1> QED
  BY <1>1, <1>2, <1>3, <1>4, <1>5 DEF Rest

\* A store is found or created: its number is that of no other file.
LEMMA ConnectKeepsInv ==
    ASSUME SessionsInv, NEW p \in Process, NEW w \in Workspace,
           NEW why \in {"start", "switch", "setup"}, Connect(p, w, why),
           UNCHANGED <<session, cache, left>>
    PROVE  Rest'
<1>1. PICK s \in Store, done \in 0 .. Latest, known \in BOOLEAN :
         Connects(p, w, why, s, done, known)
  BY ConnectOpens DEF SessionsInv
<1>2. /\ stored \in [Workspace -> 0 .. MaxStores] /\ stored' = [stored EXCEPT ![w] = s]
      /\ created \in 0 .. MaxStores /\ created' \in 0 .. MaxStores
      /\ s \in 1 .. MaxStores
      /\ \A x \in Workspace : stored[x] <= created
  BY <1>1 DEF Connects, SessionsInv, TypeOK, StoresAreNumbered, Store
<1>3. op'[p].store = s /\ op'[p].root = w /\ op'[p].done = done /\ op'[p].step = "migrate"
  BY <1>1 DEF Connects, SessionsInv, TypeOK
<1>4. \A q \in Process : q # p => op'[q] = op[q]
  BY <1>1 DEF Connects, SessionsInv, TypeOK
<1>5. \A q \in Process : IsOpening(op[q]) => op[q].store \in 1 .. MaxStores /\ op[q].root \in Workspace
  BY OperationParts DEF SessionsInv, TypeOK, Opening, Store
<1>6. \A q \in Process : session[q] # None =>
         session[q].store \in 1 .. MaxStores /\ session[q].root \in Workspace
  BY DEF SessionsInv, TypeOK, Session, Store
<1>7. ASSUME NEW t \in 1 .. MaxStores, t <= created, NEW x \in Workspace, InPlace(t, x)
      PROVE  InPlace(t, x)'
  <2>1. CASE stored[w] = s
    <3>1. stored' = stored
      BY <1>2, <2>1
    <3> QED
      BY <1>7, <3>1 DEF InPlace
  <2>2. CASE stored[w] = 0 /\ s = created + 1
    <3>1. CASE t = stored[x]
      BY <1>2, <1>7, <2>2, <3>1 DEF InPlace
    <3>2. CASE \A y \in Workspace : stored[y] # t
      BY <1>2, <1>7, <2>2, <3>2 DEF InPlace
    <3> QED
      BY <1>7, <3>1, <3>2 DEF InPlace
  <2> QED
    BY <1>1, <2>1, <2>2 DEF Connects
<1>8. StoresAreNumbered'
  <2>1. \A x \in Workspace : stored'[x] <= created'
    BY <1>1, <1>2 DEF Connects
  <2>2. \A q \in Process : session[q] # None => session[q].store <= created'
    BY <1>1, <1>2, <1>6 DEF Connects, SessionsInv, StoresAreNumbered
  <2>3. \A q \in Process : IsOpening(op'[q]) => op'[q].store <= created'
    BY <1>1, <1>2, <1>3, <1>4, <1>5 DEF Connects, SessionsInv, StoresAreNumbered, IsOpening
  <2> QED
    BY <2>1, <2>2, <2>3 DEF StoresAreNumbered, IsOpening
<1>9. 1 .. done \subseteq applied[s]
  <2>1. CASE done = version[s]
    BY <2>1 DEF SessionsInv, OpenStoresAreWhole
  <2>2. CASE Cached(p, w, s) /\ done = Latest
    BY <2>2 DEF SessionsInv, MemoryIsRight
  <2> QED
    BY <1>1, <2>1, <2>2 DEF Connects
<1>10. OpenersAreRight'
  <2> SUFFICES ASSUME NEW q \in Process, IsOpening(op'[q])
               PROVE  /\ 1 .. op'[q].done \subseteq applied'[op'[q].store]
                      /\ op'[q].step = "stamp" => 1 \in applied'[op'[q].store]
                      /\ InPlace(op[q].store, op[q].root)'
    BY DEF OpenersAreRight, IsOpening, InPlace
  <2>1. applied' = applied
    BY <1>1 DEF Connects
  <2>2. CASE q = p
    <3>1. InPlace(op[p].store, op[p].root)'
      BY <1>2, <1>3 DEF InPlace
    <3> QED
      BY <1>3, <1>9, <2>1, <2>2, <3>1
  <2>3. CASE q # p
    <3>1. op'[q] = op[q] /\ IsOpening(op[q])
      BY <1>4, <2>3 DEF IsOpening
    <3>2. /\ 1 .. op[q].done \subseteq applied[op[q].store]
          /\ op[q].step = "stamp" => 1 \in applied[op[q].store]
          /\ InPlace(op[q].store, op[q].root)
      BY <3>1 DEF SessionsInv, OpenersAreRight
    <3>3. op[q].store <= created
      BY <3>1 DEF SessionsInv, StoresAreNumbered
    <3>4. InPlace(op[q].store, op[q].root)'
      BY <1>5, <1>7, <3>1, <3>2, <3>3 DEF InPlace
    <3> QED
      BY <2>1, <3>1, <3>2, <3>4 DEF InPlace
  <2> QED
    BY <2>2, <2>3
<1>11. MemoryIsRight' /\ OpenStoresAreWhole'
  BY <1>1 DEF Connects, SessionsInv, MemoryIsRight, Cached, OpenStoresAreWhole
<1>12. SessionsStayInTheirWorkspace'
  <2> SUFFICES ASSUME NEW q \in Process, session[q] # None, session[q].conn # "closed"
               PROVE  InPlace(session[q].store, session[q].root)'
    BY DEF SessionsInv, SessionsStayInTheirWorkspace, InPlace
  <2>1. InPlace(session[q].store, session[q].root)
    BY DEF SessionsInv, SessionsStayInTheirWorkspace, InPlace
  <2>2. session[q].store <= created
    BY DEF SessionsInv, StoresAreNumbered
  <2> QED
    BY <1>6, <1>7, <2>1, <2>2 DEF InPlace
<1> QED
  BY <1>8, <1>10, <1>11, <1>12 DEF Rest

\* A store is unlinked: its file is nobody's.
LEMMA ForgetKeepsInv ==
    ASSUME SessionsInv, NEW w \in Workspace, stored' = [stored EXCEPT ![w] = 0],
           version' = version, applied' = applied, created' = created,
           UNCHANGED <<session, cache, left>>,
           \A q \in Process : op'[q] = op[q] \/ ~IsOpening(op'[q])
    PROVE  Rest'
<1>1. /\ stored \in [Workspace -> 0 .. MaxStores]
      /\ \A x, y \in Workspace : x # y /\ stored[x] = stored[y] => stored[x] = 0
      /\ created \in Nat
  BY DEF SessionsInv, TypeOK
<1>2. ASSUME NEW t \in Store, NEW x \in Workspace, InPlace(t, x)
      PROVE  InPlace(t, x)'
  BY <1>1, <1>2 DEF InPlace, Store
<1>3. \A q \in Process : IsOpening(op[q]) => op[q].store \in Store /\ op[q].root \in Workspace
  BY OperationParts DEF SessionsInv, TypeOK, Opening
<1>4. \A q \in Process : session[q] # None => session[q].store \in Store /\ session[q].root \in Workspace
  BY DEF SessionsInv, TypeOK, Session
<1>5. StoresAreNumbered'
  BY <1>1 DEF SessionsInv, StoresAreNumbered, IsOpening
<1>6. OpenersAreRight'
  <2> SUFFICES ASSUME NEW q \in Process, IsOpening(op'[q])
               PROVE  /\ 1 .. op'[q].done \subseteq applied'[op'[q].store]
                      /\ op'[q].step = "stamp" => 1 \in applied'[op'[q].store]
                      /\ InPlace(op[q].store, op[q].root)'
    BY DEF OpenersAreRight, IsOpening, InPlace
  <2>1. op'[q] = op[q] /\ IsOpening(op[q])
    BY DEF IsOpening
  <2>2. InPlace(op[q].store, op[q].root)
    BY <2>1 DEF SessionsInv, OpenersAreRight
  <2>3. InPlace(op[q].store, op[q].root)'
    BY <1>2, <1>3, <2>1, <2>2 DEF InPlace
  <2> QED
    BY <2>1, <2>3 DEF SessionsInv, OpenersAreRight
<1>7. MemoryIsRight' /\ OpenStoresAreWhole'
  BY DEF SessionsInv, MemoryIsRight, Cached, OpenStoresAreWhole
<1>8. SessionsStayInTheirWorkspace'
  <2> SUFFICES ASSUME NEW q \in Process, session[q] # None, session[q].conn # "closed"
               PROVE  InPlace(session[q].store, session[q].root)'
    BY DEF SessionsInv, SessionsStayInTheirWorkspace, InPlace
  <2>1. InPlace(session[q].store, session[q].root)
    BY DEF SessionsInv, SessionsStayInTheirWorkspace, InPlace
  <2> QED
    BY <1>2, <1>4, <2>1 DEF InPlace
<1> QED
  BY <1>5, <1>6, <1>7, <1>8 DEF Rest

\* A migration adds to the effects in a file; what is recorded or counted of
\* them is there.
LEMMA MigrationKeepsInv ==
    ASSUME SessionsInv, NEW p \in Process, RunScript(p) \/ Stamp(p) \/ Migrate(p),
           TypeOK'
    PROVE  Rest'
<1>1. op[p] \in Opening
  BY OperationParts DEF RunScript, Stamp, Migrate, IsOpening, SessionsInv, TypeOK
<1>2. /\ op[p].store \in Store /\ op[p].done \in 0 .. Latest
      /\ IsOpening(op[p])
  BY <1>1 DEF Opening, IsOpening
<1>3. /\ stored' = stored /\ created' = created /\ session' = session
      /\ cache' = cache /\ left' = left
  BY DEF RunScript, Stamp, Migrate
<1>4. \A q \in Process : q # p => op'[q] = op[q]
  BY DEF RunScript, Stamp, Migrate, Goto, SessionsInv, TypeOK
<1>5. op'[p].store = op[p].store /\ op'[p].root = op[p].root
  <2>1. \/ op'[p] = [op[p] EXCEPT !.step = "stamp"]
        \/ op'[p] = [op[p] EXCEPT !.step = "migrate", !.done = 1]
        \/ op'[p] = [op[p] EXCEPT !.done = op[p].done + 1]
    BY DEF RunScript, Stamp, Migrate, Goto, SessionsInv, TypeOK
  <2> QED
    BY <1>1, <2>1 DEF Opening
<1>6. \A s \in Store : applied[s] \subseteq applied'[s] /\ applied'[s] \subseteq 1 .. Latest
  <2>1. \A s \in Store : applied'[s] \subseteq 1 .. Latest
    BY DEF TypeOK
  <2>2. \A s \in Store : applied[s] \subseteq applied'[s]
    BY <1>2 DEF RunScript, Stamp, Migrate, SessionsInv, TypeOK
  <2> QED
    BY <2>1, <2>2
<1>7. StoresAreNumbered'
  BY <1>2, <1>3, <1>4, <1>5 DEF SessionsInv, StoresAreNumbered, IsOpening
<1>8. /\ 1 .. op[p].done \subseteq applied[op[p].store]
      /\ op[p].step = "stamp" => 1 \in applied[op[p].store]
      /\ InPlace(op[p].store, op[p].root)
  BY <1>2 DEF SessionsInv, OpenersAreRight
<1>9. /\ 1 .. op'[p].done \subseteq applied'[op[p].store]
      /\ op'[p].step = "stamp" => 1 \in applied'[op[p].store]
      /\ version' = version \/ version' = [version EXCEPT ![op[p].store] = op'[p].done]
  <2>1. CASE RunScript(p)
    <3>1. op'[p] = [op[p] EXCEPT !.step = "stamp"] /\ version' = version
      BY <2>1 DEF RunScript, Goto, SessionsInv, TypeOK
    <3>2. op'[p].done = 0
      BY <1>1, <2>1, <3>1 DEF RunScript, Opening
    <3>3. 1 \in applied'[op[p].store]
      BY <1>2, <2>1 DEF RunScript, SessionsInv, TypeOK
    <3> QED
      BY <3>1, <3>2, <3>3
  <2>2. CASE Stamp(p)
    <3>1. op'[p] = [op[p] EXCEPT !.step = "migrate", !.done = 1] /\ applied' = applied
      BY <2>2 DEF Stamp, Goto, SessionsInv, TypeOK
    <3>2. op'[p].done = 1 /\ op'[p].step = "migrate"
      BY <1>1, <3>1 DEF Opening
    <3>3. 1 \in applied[op[p].store]
      BY <1>8, <2>2 DEF Stamp
    <3> QED
      BY <2>2, <3>1, <3>2, <3>3 DEF Stamp
  <2>3. CASE Migrate(p)
    <3> DEFINE i == op[p].done + 1
    <3>1. op'[p] = [op[p] EXCEPT !.done = i]
      BY <2>3 DEF Migrate, Goto, SessionsInv, TypeOK
    <3>2. op'[p].done = i /\ op'[p].step = "migrate"
      BY <1>1, <2>3, <3>1 DEF Migrate, Opening
    <3>3. applied'[op[p].store] = applied[op[p].store] \union {i}
      BY <1>2, <2>3 DEF Migrate, SessionsInv, TypeOK
    <3>4. 1 .. i \subseteq applied'[op[p].store]
      BY <1>2, <1>8, <3>3
    <3> QED
      BY <2>3, <3>2, <3>4 DEF Migrate
  <2> QED
    BY <2>1, <2>2, <2>3
<1>10. OpenersAreRight'
  <2> SUFFICES ASSUME NEW q \in Process, IsOpening(op'[q])
               PROVE  /\ 1 .. op'[q].done \subseteq applied'[op'[q].store]
                      /\ op'[q].step = "stamp" => 1 \in applied'[op'[q].store]
                      /\ InPlace(op[q].store, op[q].root)'
    BY DEF OpenersAreRight, IsOpening, InPlace
  <2>1. CASE q = p
    BY <1>3, <1>5, <1>8, <1>9, <2>1 DEF InPlace
  <2>2. CASE q # p
    <3>1. op'[q] = op[q] /\ IsOpening(op[q])
      BY <1>4, <2>2 DEF IsOpening
    <3>2. op[q].store \in Store
      BY <3>1, OperationParts DEF SessionsInv, TypeOK, Opening
    <3>3. /\ 1 .. op[q].done \subseteq applied[op[q].store]
          /\ op[q].step = "stamp" => 1 \in applied[op[q].store]
          /\ InPlace(op[q].store, op[q].root)
      BY <3>1 DEF SessionsInv, OpenersAreRight
    <3> QED
      BY <1>3, <1>6, <3>1, <3>2, <3>3 DEF InPlace
  <2> QED
    BY <2>1, <2>2
<1>11. MemoryIsRight'
  BY <1>3, <1>6 DEF SessionsInv, MemoryIsRight, Cached
<1>12. OpenStoresAreWhole'
  <2>1. \A q \in Process : session[q] # None => session[q].store \in Store
    BY DEF SessionsInv, TypeOK, Session
  <2>2. \A q \in Process : session'[q] # None => applied'[session'[q].store] = 1 .. Latest
    BY <1>3, <1>6, <2>1 DEF SessionsInv, OpenStoresAreWhole
  <2>3. \A s \in Store : 1 .. version'[s] \subseteq applied'[s]
    <3> SUFFICES ASSUME NEW s \in Store PROVE 1 .. version'[s] \subseteq applied'[s]
      OBVIOUS
    <3>1. 1 .. version[s] \subseteq applied'[s]
      BY <1>6 DEF SessionsInv, OpenStoresAreWhole
    <3>2. version'[s] = version[s] \/ (s = op[p].store /\ version'[s] = op'[p].done)
      BY <1>9 DEF SessionsInv, TypeOK
    <3> QED
      BY <1>9, <3>1, <3>2
  <2> QED
    BY <2>2, <2>3 DEF OpenStoresAreWhole
<1>13. SessionsStayInTheirWorkspace'
  BY <1>3 DEF SessionsInv, SessionsStayInTheirWorkspace
<1> QED
  BY <1>7, <1>10, <1>11, <1>12, <1>13 DEF Rest

\* A store that has been migrated to the end is served, or remembered.
LEMMA AdoptKeepsInv ==
    ASSUME SessionsInv, NEW p \in Process,
           OpenedAtStart(p) \/ Swap(p) \/ StoreEnsured(p)
    PROVE  Rest'
<1>1. op[p] \in Opening /\ IsOpening(op[p])
  BY OperationParts DEF OpenedAtStart, Swap, StoreEnsured, Opened, IsOpening, SessionsInv, TypeOK
<1>2. op[p].store \in Store /\ op[p].root \in Workspace
  BY <1>1 DEF Opening
<1>3. applied[op[p].store] = 1 .. Latest
  <2>1. 1 .. Latest \subseteq applied[op[p].store]
    BY <1>1 DEF OpenedAtStart, Swap, StoreEnsured, Opened, SessionsInv, OpenersAreRight
  <2>2. applied[op[p].store] \subseteq 1 .. Latest
    BY <1>2 DEF SessionsInv, TypeOK
  <2> QED
    BY <2>1, <2>2
<1>4. UNCHANGED <<stored, version, applied, created, left>>
  BY DEF OpenedAtStart, Swap, StoreEnsured, files
<1>5. ~IsOpening(AfterOpen(p)) /\ \A q \in Process : op'[q] = op[q] \/ ~IsOpening(op'[q])
  <2>1. ~IsOpening(AfterOpen(p))
    BY DEF AfterOpen, IsOpening, Idle
  <2>2. op' = [op EXCEPT ![p] = AfterOpen(p)]
    BY DEF OpenedAtStart, Swap, StoreEnsured, Goto
  <2> QED
    BY <2>1, <2>2 DEF SessionsInv, TypeOK
<1>6. \A q \in Process : session'[q] = session[q] \/ (q = p /\ session'[q] = NewSession(p))
  BY DEF OpenedAtStart, Swap, StoreEnsured, SessionsInv, TypeOK
<1>7. \A q \in Process : cache'[q] = cache[q]
         \/ (q = p /\ cache'[q] = cache[q] \union {<<op[p].root, op[p].store>>})
  BY DEF OpenedAtStart, Swap, StoreEnsured, Remember, SessionsInv, TypeOK
<1>8. /\ NewSession(p).store = op[p].store /\ NewSession(p).root = op[p].root
      /\ NewSession(p).conn = "open"
  BY DEF NewSession
<1>9. op[p].store <= created /\ InPlace(op[p].store, op[p].root)
  BY <1>1 DEF SessionsInv, StoresAreNumbered, OpenersAreRight
<1>10. StoresAreNumbered'
  BY <1>4, <1>5, <1>6, <1>8, <1>9 DEF SessionsInv, StoresAreNumbered, IsOpening
<1>11. OpenersAreRight'
  BY <1>4, <1>5 DEF SessionsInv, OpenersAreRight, IsOpening, InPlace
<1>12. MemoryIsRight'
  BY <1>3, <1>4, <1>7 DEF SessionsInv, MemoryIsRight, Cached
<1>13. OpenStoresAreWhole'
  BY <1>3, <1>4, <1>6, <1>8 DEF SessionsInv, OpenStoresAreWhole
<1>14. SessionsStayInTheirWorkspace'
  BY <1>4, <1>6, <1>8, <1>9 DEF SessionsInv, SessionsStayInTheirWorkspace, InPlace
<1> QED
  BY <1>10, <1>11, <1>12, <1>13, <1>14 DEF Rest

LEMMA InvStep == SessionsInv /\ [Next]_vars => SessionsInv'
<1> SUFFICES ASSUME SessionsInv, [Next]_vars PROVE SessionsInv'
  OBVIOUS
<1> TypeOK'
  BY TypeStep DEF SessionsInv
<1> TypeOK
  BY DEF SessionsInv
<1>1. ASSUME UNCHANGED vars
      PROVE  Rest'
  <2>1. UNCHANGED <<stored, version, applied, created, session, op, cache, left>>
    BY <1>1 DEF vars, files
  <2> QED
    BY <2>1, QuietKeepsInv DEF SessionsInv, SessionsStayInTheirWorkspace
<1>2. ASSUME NEW p \in Process, NEW w \in Workspace, Start(p, w) \/ OpenWorkspace(p, w)
      PROVE  Rest'
  BY <1>2, ConnectKeepsInv DEF Start, OpenWorkspace
<1>3. ASSUME NEW p \in Process, NEW w \in Workspace, NEW b \in BOOLEAN,
             DeleteWorkspace(p, w, b)
      PROVE  Rest'
  <2>1. UNCHANGED <<stored, version, applied, created, cache>>
    BY <1>3 DEF DeleteWorkspace, files
  <2>2. \A q \in Process : op'[q] = op[q] \/ ~IsOpening(op'[q])
    BY <1>3 DEF DeleteWorkspace, Goto, IsOpening, TypeOK
  <2>3. \A q \in Process : session'[q] # None =>
           /\ session[q] # None
           /\ session'[q].root = session[q].root
           /\ session'[q].store = session[q].store
           /\ session'[q].conn = "closed" => q \in left'
           /\ session'[q].conn # "closed" => session[q].conn # "closed"
    <3>1. CASE UNCHANGED <<session, left>>
      BY <3>1 DEF SessionsInv, SessionsStayInTheirWorkspace
    <3>2. CASE session' = [session EXCEPT ![p].conn = "closed"] /\ left' = left \union {p}
      <4>1. session[p] \in Session /\ session[p] # None
        BY <1>3 DEF DeleteWorkspace, Request, Serving, TypeOK
      <4>2. /\ session'[p].root = session[p].root /\ session'[p].store = session[p].store
            /\ session'[p].conn = "closed"
        BY <3>2, <4>1 DEF TypeOK, Session
      <4>3. \A q \in Process : q # p => session'[q] = session[q]
        BY <3>2 DEF TypeOK
      <4> QED
        BY <3>2, <4>1, <4>2, <4>3 DEF SessionsInv, SessionsStayInTheirWorkspace
    <3> QED
      BY <1>3, <3>1, <3>2 DEF DeleteWorkspace
  <2> QED
    BY <2>1, <2>2, <2>3, QuietKeepsInv
<1>4. ASSUME NEW p \in Process, RunScript(p) \/ Stamp(p) \/ Migrate(p)
      PROVE  Rest'
  BY <1>4, MigrationKeepsInv
<1>5. ASSUME NEW p \in Process,
             \/ OpenFails(p) \/ UnlinkFails(p) \/ LoadRegistry(p) \/ Truncate(p)
             \/ WriteRegistry(p) \/ ListWorkspaces(p)
      PROVE  Rest'
  <2>1. UNCHANGED <<stored, version, applied, created, session, cache, left>>
    BY <1>5 DEF OpenFails, UnlinkFails, LoadRegistry, Truncate, WriteRegistry, ListWorkspaces, files
  <2>2. \A q \in Process : op'[q] = op[q] \/ ~IsOpening(op'[q])
    <3>1. CASE Truncate(p)
      <4>1. op[p] \in Writing
        BY <3>1, OperationParts DEF Truncate, IsWriting, TypeOK
      <4>2. op'[p].step = "write"
        BY <3>1, <4>1 DEF Truncate, Goto, TypeOK, Writing
      <4> QED
        BY <3>1, <4>2 DEF Truncate, Goto, IsOpening, TypeOK
    <3>2. CASE ~Truncate(p)
      BY <1>5, <3>2 DEF OpenFails, UnlinkFails, LoadRegistry, WriteRegistry,
                        ListWorkspaces, Goto, IsOpening, Idle, TypeOK
    <3> QED
      BY <3>1, <3>2
  <2> QED
    BY <2>1, <2>2, QuietKeepsInv DEF SessionsInv, SessionsStayInTheirWorkspace
<1>6. ASSUME NEW p \in Process, OpenedAtStart(p) \/ Swap(p) \/ StoreEnsured(p)
      PROVE  Rest'
  BY <1>6, AdoptKeepsInv
<1>7. ASSUME NEW p \in Process,
             \/ SwapFails(p) \/ Stop(p) \/ LoadFails(p) \/ SaveFails(p) \/ AnswerFails(p)
             \/ RequestFails(p)
      PROVE  Rest'
  <2>1. UNCHANGED <<stored, version, applied, created>>
    BY <1>7 DEF SwapFails, Stop, LoadFails, SaveFails, AnswerFails, RequestFails, files
  <2>2. End(p) \/ GiveUp(p)
    BY <1>7 DEF SwapFails, Stop, LoadFails, SaveFails, AnswerFails, RequestFails
  <2>3. \A q \in Process : op'[q] = op[q] \/ ~IsOpening(op'[q])
    BY <2>2 DEF End, GiveUp, Goto, IsOpening, Idle, TypeOK
  <2>4. \A q \in Process : cache'[q] \subseteq cache[q]
    BY <2>2 DEF End, GiveUp, TypeOK
  <2>5. \A q \in Process : session'[q] # None => session'[q] = session[q]
    BY <2>2 DEF End, GiveUp, TypeOK
  <2>6. \A q \in Process : session'[q] # None /\ q \in left => q \in left'
    BY <1>7, <2>5 DEF SwapFails, Stop, LoadFails, SaveFails, AnswerFails, RequestFails, End, TypeOK
  <2> QED
    BY <2>1, <2>3, <2>4, <2>5, <2>6, QuietKeepsInv DEF SessionsInv, SessionsStayInTheirWorkspace
<1>8. ASSUME NEW p \in Process, Call(p)
      PROVE  Rest'
  <2>1. UNCHANGED <<stored, version, applied, created, op, cache, left>>
    BY <1>8 DEF Call, files
  <2>2. session[p] \in Session /\ session[p] # None /\ session[p].conn # "closed"
    BY <1>8 DEF Call, Serving, TypeOK
  <2>3. /\ session'[p].root = session[p].root /\ session'[p].store = session[p].store
        /\ session'[p].conn # "closed"
    BY <1>8, <2>2 DEF Call, TypeOK, Session
  <2>4. \A q \in Process : q # p => session'[q] = session[q]
    BY <1>8 DEF Call, TypeOK
  <2> QED
    BY <2>1, <2>2, <2>3, <2>4, QuietKeepsInv DEF SessionsInv, SessionsStayInTheirWorkspace
<1>9. ASSUME NEW p \in Process, Unlink(p)
      PROVE  Rest'
  <2>1. op[p].root \in Workspace
    BY <1>9, OperationParts DEF Unlink, TypeOK
  <2>2. \A q \in Process : op'[q] = op[q] \/ ~IsOpening(op'[q])
    BY <1>9 DEF Unlink, Goto, IsOpening, TypeOK
  <2> QED
    BY <1>9, <2>1, <2>2, ForgetKeepsInv DEF Unlink
<1>10. ASSUME NEW p \in Process, Setup(p)
       PROVE  Rest'
  <2>1. session[p].root \in Workspace
    BY <1>10 DEF Setup, Request, Serving, TypeOK, Session
  <2>2. CASE stored[session[p].root] = 0
    BY <1>10, <2>1, <2>2, ConnectKeepsInv DEF Setup
  <2>3. CASE stored[session[p].root] # 0
    <3>1. UNCHANGED <<stored, version, applied, created, session, cache, left>>
      BY <1>10, <2>3 DEF Setup, files
    <3>2. \A q \in Process : op'[q] = op[q] \/ ~IsOpening(op'[q])
      BY <1>10, <2>3 DEF Setup, Goto, IsOpening, TypeOK
    <3> QED
      BY <3>1, <3>2, QuietKeepsInv DEF SessionsInv, SessionsStayInTheirWorkspace
  <2> QED
    BY <2>2, <2>3
<1>11. ASSUME NEW w \in Workspace, RemoveFolder(w)
       PROVE  Rest'
  BY <1>11, ForgetKeepsInv DEF RemoveFolder
<1> QED
  BY <1>1, <1>2, <1>3, <1>4, <1>5, <1>6, <1>7, <1>8, <1>9, <1>10, <1>11
  DEF Next, Rest, SessionsInv

LEMMA SessionsInvariant == Spec => []SessionsInv
  BY InvInit, InvStep, PTL DEF Spec

-----------------------------------------------------------------------------
(***************************************************************************)
(* The registry.                                                           *)
(***************************************************************************)

\* No process begins or ends to write the registry, nor changes its contents.
LEMMA OthersKeepWriters ==
    ASSUME WritersAreAlone,
           UNCHANGED <<registry, expect>>, folder' \subseteq folder,
           mixed => mixed', torn => torn',
           \A q \in Process : op'[q] = op[q] \/ ~IsWriting(op'[q]),
           \A q \in Process : op[q].step = "write" => op'[q].step = "write" \/ torn'
    PROVE  WritersAreAlone'
<1> SUFFICES ASSUME ~mixed', ~torn'
             PROVE  /\ \A p, q \in Process : IsWriting(op'[p]) /\ IsWriting(op'[q]) => p = q
                    /\ \A p \in Process : IsWriting(op'[p]) => ChangeOf(op[p])'
                    /\ (\A p \in Process : op'[p].step # "write") => registry' = expect'
  BY DEF WritersAreAlone, IsWriting, ChangeOf
<1>1. ~mixed /\ ~torn
  OBVIOUS
<1>2. \A p, q \in Process : IsWriting(op'[p]) /\ IsWriting(op'[q]) => p = q
  BY <1>1 DEF WritersAreAlone
<1>3. ASSUME NEW p \in Process, IsWriting(op'[p])
      PROVE  ChangeOf(op[p])'
  <2>1. op'[p] = op[p]
    BY <1>3
  <2>2. ChangeOf(op[p])
    BY <1>1, <1>3, <2>1 DEF WritersAreAlone
  <2> QED
    BY <2>1, <2>2 DEF ChangeOf
<1>4. (\A p \in Process : op'[p].step # "write") => registry' = expect'
  BY <1>1 DEF WritersAreAlone
<1> QED
  BY <1>2, <1>3, <1>4

\* The steps that do not touch the registry.
WritesNothing(p) ==
    \/ \E w \in Workspace : \/ Start(p, w) \/ OpenWorkspace(p, w)
                            \/ \E b \in BOOLEAN : DeleteWorkspace(p, w, b)
    \/ RunScript(p) \/ Stamp(p) \/ Migrate(p) \/ OpenFails(p)
    \/ OpenedAtStart(p) \/ Swap(p) \/ SwapFails(p) \/ StoreEnsured(p)
    \/ ListWorkspaces(p) \/ Call(p) \/ Unlink(p) \/ UnlinkFails(p) \/ Setup(p)
    \/ LoadFails(p) \/ RequestFails(p)

LEMMA OthersDoNotWrite ==
    ASSUME TypeOK, NEW p \in Process, WritesNothing(p)
    PROVE  /\ UNCHANGED <<folder, registry, expect, mixed, torn>>
           /\ \A q \in Process : q # p => op'[q] = op[q]
           /\ op[p].step # "write"
           /\ op'[p] = op[p] \/ ~IsWriting(op'[p])
<1>1. UNCHANGED <<folder, registry, expect, mixed, torn>>
  BY DEF WritesNothing, Start, OpenWorkspace, DeleteWorkspace, RunScript, Stamp, Migrate,
     OpenFails, OpenedAtStart, Swap, SwapFails, StoreEnsured, ListWorkspaces, Call, Unlink,
     UnlinkFails, Setup, LoadFails, RequestFails, reg
<1>2. \A q \in Process : q # p => op'[q] = op[q]
  <2>1. ASSUME NEW next, Goto(p, next)
        PROVE  \A q \in Process : q # p => op'[q] = op[q]
    BY <2>1 DEF Goto, TypeOK
  <2>2. ASSUME NEW w, NEW why, Connect(p, w, why)
        PROVE  \A q \in Process : q # p => op'[q] = op[q]
    BY <2>1, <2>2 DEF Connect
  <2>3. CASE \/ \E w \in Workspace : \/ Start(p, w) \/ OpenWorkspace(p, w)
                                       \/ \E b \in BOOLEAN : DeleteWorkspace(p, w, b)
             \/ Setup(p)
    BY <2>1, <2>2, <2>3 DEF Start, OpenWorkspace, DeleteWorkspace, Setup
  <2>4. CASE RunScript(p) \/ Stamp(p) \/ Migrate(p) \/ OpenFails(p) \/ OpenedAtStart(p)
    BY <2>1, <2>4 DEF RunScript, Stamp, Migrate, OpenFails, OpenedAtStart
  <2>5. CASE Swap(p) \/ SwapFails(p) \/ StoreEnsured(p) \/ ListWorkspaces(p)
    BY <2>1, <2>5 DEF Swap, SwapFails, End, StoreEnsured, ListWorkspaces
  <2>6. CASE Call(p) \/ Unlink(p) \/ UnlinkFails(p) \/ LoadFails(p) \/ RequestFails(p)
    BY <2>1, <2>6 DEF Call, Unlink, UnlinkFails, LoadFails, RequestFails, End, GiveUp
  <2> QED
    BY <2>3, <2>4, <2>5, <2>6 DEF WritesNothing
<1>3. op[p].step # "write"
  <2>1. CASE op[p] = Idle
    BY <2>1 DEF Idle
  <2>2. CASE op[p] # Idle
    <3>1. op[p].step \in {"migrate", "stamp", "unlink", "load"}
      BY <2>2 DEF WritesNothing, Start, OpenWorkspace, DeleteWorkspace, RunScript, Stamp, Migrate,
         OpenFails, OpenedAtStart, Swap, SwapFails, StoreEnsured, ListWorkspaces, Call,
         Unlink, UnlinkFails, Setup, LoadFails, RequestFails, Request, Serving, Opened
    <3> QED
      BY <3>1
  <2> QED
    BY <2>1, <2>2
<1>4. op'[p] = op[p] \/ ~IsWriting(op'[p])
  <2>1. CASE \/ \E w \in Workspace : \/ Start(p, w) \/ OpenWorkspace(p, w)
                                       \/ \E b \in BOOLEAN : DeleteWorkspace(p, w, b)
             \/ OpenFails(p) \/ SwapFails(p) \/ ListWorkspaces(p) \/ Call(p)
             \/ Unlink(p) \/ UnlinkFails(p) \/ Setup(p)
    BY <2>1, SMTT(30) DEF Start, OpenWorkspace, DeleteWorkspace, OpenFails, SwapFails, End,
       ListWorkspaces, Call, Unlink, UnlinkFails, Setup, Connect, Goto, Idle, IsWriting, TypeOK
  <2>2. CASE OpenedAtStart(p) \/ Swap(p) \/ StoreEnsured(p)
    BY <2>2 DEF OpenedAtStart, Swap, StoreEnsured, AfterOpen, Goto, Idle, IsWriting, TypeOK
  <2>3. CASE RunScript(p) \/ Stamp(p) \/ Migrate(p)
    <3>1. op[p] \in Opening
      BY <2>3, OperationParts DEF RunScript, Stamp, Migrate, IsOpening, TypeOK
    <3>2. \/ op'[p] = [op[p] EXCEPT !.step = "stamp"]
          \/ op'[p] = [op[p] EXCEPT !.step = "migrate", !.done = 1]
          \/ op'[p] = [op[p] EXCEPT !.done = op[p].done + 1]
      BY <2>3 DEF RunScript, Stamp, Migrate, Goto, TypeOK
    <3> QED
      BY <3>1, <3>2 DEF Opening, IsWriting
  <2>4. CASE LoadFails(p) \/ RequestFails(p)
    BY <2>4 DEF LoadFails, RequestFails, End, GiveUp, Goto, Idle, IsWriting, TypeOK
  <2> QED
    BY <2>1, <2>2, <2>3, <2>4 DEF WritesNothing
<1> QED
  BY <1>1, <1>2, <1>3, <1>4

\* Only a writer cuts the registry, and it stays cut until a writer has written
\* or was cut short; a lone writer finds what it has truncated.
LEMMA CutStep ==
    ASSUME TypeOK, CutIsKnown, [Next]_vars
    PROVE  CutIsKnown'
<1>1. ASSUME registry' = registry, torn => torn', (mixed => mixed'),
             \A q \in Process : op[q].step = "write" => op'[q].step = "write" \/ torn',
             \A q \in Process : IsWriting(op'[q]) => op'[q] = op[q]
      PROVE  CutIsKnown'
  <2>1. ~mixed' => /\ \A p, q \in Process : IsWriting(op'[p]) /\ IsWriting(op'[q]) => p = q
                   /\ \A p \in Process : op'[p].step = "write" => registry' = Partial
    BY <1>1 DEF CutIsKnown, IsWriting
  <2> QED
    BY <1>1, <2>1 DEF CutIsKnown, IsWriting
<1>2. ASSUME NEW p \in Process, WriteRegistry(p) \/ AnswerFails(p)
      PROVE  CutIsKnown'
  <2>1. op[p] \in Writing /\ op[p].step = "write" /\ (mixed => mixed')
    BY <1>2, OperationParts DEF WriteRegistry, AnswerFails, Written, IsWriting, TypeOK
  <2>2. op'[p] = Idle /\ \A q \in Process : q # p => op'[q] = op[q]
    BY <1>2 DEF WriteRegistry, AnswerFails, End, Goto, TypeOK
  <2>3. /\ registry' \in {op[p].copy, Jumbled}
        /\ registry = Partial => registry' = op[p].copy
    BY <1>2 DEF WriteRegistry, AnswerFails, Written
  <2>4. op[p].copy # Partial /\ op[p].copy # Jumbled
    BY <2>1 DEF Writing
  <2>5. registry' # Partial
    BY <2>3, <2>4
  <2>6. ~mixed => registry' # Jumbled /\ \A q \in Process : ~IsWriting(op'[q])
    BY <2>1, <2>2, <2>3, <2>4 DEF CutIsKnown, IsWriting, Idle
  <2> QED
    BY <2>1, <2>5, <2>6 DEF CutIsKnown, IsWriting
<1>3. ASSUME NEW p \in Process, Truncate(p)
      PROVE  CutIsKnown'
  <2>1. op[p] \in Writing /\ IsWriting(op[p]) /\ registry' = Partial /\ (mixed => mixed')
    BY <1>3, OperationParts DEF Truncate, IsWriting, TypeOK
  <2>2. op'[p].step = "write" /\ \A q \in Process : q # p => op'[q] = op[q]
    BY <1>3, <2>1 DEF Truncate, Goto, TypeOK, Writing
  <2>3. ~mixed' => \A q, r \in Process : IsWriting(op'[q]) /\ IsWriting(op'[r]) => q = r
    BY <2>1, <2>2 DEF CutIsKnown, IsWriting
  <2>4. registry' # Jumbled
    BY <2>1
  <2> QED
    BY <2>1, <2>2, <2>3, <2>4 DEF CutIsKnown, IsWriting
<1>4. ASSUME NEW p \in Process, Stop(p) \/ SaveFails(p)
      PROVE  CutIsKnown'
  <2>1. op'[p] = Idle /\ \A q \in Process : q # p => op'[q] = op[q]
    BY <1>4 DEF Stop, SaveFails, End, GiveUp, Goto, TypeOK
  <2>2. registry' = registry
    BY <1>4 DEF Stop, SaveFails
  <2>4. (torn => torn') /\ (op[p].step = "write" => torn') /\ (mixed => mixed')
    <3>1. CASE Stop(p)
      BY <3>1, Zenon DEF Stop
    <3>2. CASE SaveFails(p)
      BY <3>2, Zenon DEF SaveFails
    <3> QED
      BY <1>4, <3>1, <3>2
  <2>3. ~IsWriting(op'[p])
    BY <2>1 DEF Idle, IsWriting
  <2> QED
    BY <1>1, <2>1, <2>2, <2>3, <2>4
\* A writer that comes while another writes is known.
<1>8. ASSUME NEW p \in Process, LoadRegistry(p)
      PROVE  CutIsKnown'
  <2>1. PICK next : Goto(p, next) /\ next.step \in {"idle", "truncate"}
    BY <1>8 DEF LoadRegistry, Idle
  <2>2. op[p].step = "load" /\ registry' = registry /\ torn' = torn
    BY <1>8 DEF LoadRegistry
  <2>3. op'[p] = next /\ \A q \in Process : q # p => op'[q] = op[q]
    BY <2>1 DEF Goto, TypeOK
  <2>4. ~mixed' => ~mixed /\ \A q \in Process \ {p} : ~IsWriting(op[q])
    BY <1>8 DEF LoadRegistry, IsWriting
  <2>5. mixed => mixed'
    BY <1>8, Zenon DEF LoadRegistry
  <2>6. \A q \in Process : op[q].step = "write" => op'[q].step = "write"
    BY <2>2, <2>3
  <2>7. registry' = Partial => torn' \/ \E q \in Process : op'[q].step = "write"
    BY <2>2, <2>6 DEF CutIsKnown
  <2>8. ~mixed' => /\ \A q, x \in Process : IsWriting(op'[q]) /\ IsWriting(op'[x]) => q = x
                   /\ \A q \in Process : op'[q].step # "write"
    BY <2>1, <2>3, <2>4 DEF IsWriting
  <2> QED
    BY <2>2, <2>5, <2>7, <2>8 DEF CutIsKnown
<1>5. ASSUME NEW p \in Process, WritesNothing(p)
      PROVE  CutIsKnown'
  <2>1. /\ UNCHANGED <<registry, mixed, torn>> /\ op[p].step # "write"
        /\ op'[p] = op[p] \/ ~IsWriting(op'[p])
        /\ \A q \in Process : q # p => op'[q] = op[q]
    BY <1>5, OthersDoNotWrite
  <2> QED
    BY <1>1, <2>1
<1>6. ASSUME NEW w \in Workspace, RemoveFolder(w)
      PROVE  CutIsKnown'
  BY <1>1, <1>6 DEF RemoveFolder, reg
<1>7. CASE UNCHANGED vars
  BY <1>1, <1>7 DEF vars, reg
<1> QED
  BY <1>2, <1>3, <1>4, <1>5, <1>6, <1>7, <1>8 DEF Next, WritesNothing

LEMMA WritersStep ==
    ASSUME TypeOK, CutIsKnown, WritersAreAlone, [Next]_vars
    PROVE  WritersAreAlone'
<1>1. CASE UNCHANGED vars
  BY <1>1, OthersKeepWriters DEF vars, reg
<1>2. ASSUME NEW p \in Process, LoadRegistry(p)
      PROVE  WritersAreAlone'
  <2> SUFFICES ASSUME ~mixed', ~torn'
               PROVE  /\ \A q, r \in Process : IsWriting(op'[q]) /\ IsWriting(op'[r]) => q = r
                      /\ \A q \in Process : IsWriting(op'[q]) => ChangeOf(op[q])'
                      /\ (\A q \in Process : op'[q].step # "write") => registry' = expect'
    BY DEF WritersAreAlone, IsWriting, ChangeOf
  <2> DEFINE copy == Changed(Registered, op[p].change, op[p].root)
  <2>1. /\ ~mixed /\ ~torn /\ \A q \in Process \ {p} : ~IsWriting(op[q])
    BY <1>2 DEF LoadRegistry, IsWriting
  <2>2. registry = expect
    BY <1>2, <2>1 DEF WritersAreAlone, LoadRegistry, IsWriting
  <2>3. Registered = expect
    <3>1. expect # Partial /\ expect # Jumbled
      BY DEF TypeOK
    <3> QED
      BY <2>2, <3>1 DEF Registered
  <2>4. \A q \in Process : q # p => op'[q] = op[q]
    BY <1>2 DEF LoadRegistry, Goto, TypeOK
  <2>5. op[p] \in Loading
    BY <1>2, OperationParts DEF LoadRegistry, TypeOK
  <2>6. \/ op'[p] = Idle
        \/ op'[p] = [step |-> "truncate", why |-> op[p].why, change |-> op[p].change,
                     root |-> op[p].root, copy |-> copy]
    BY <1>2 DEF LoadRegistry, Goto, TypeOK
  <2>7. UNCHANGED <<folder, registry, expect>>
    BY <1>2 DEF LoadRegistry
  <2>8. IsWriting(op'[p]) => ChangeOf(op[p])'
    <3>1. CASE op'[p] = Idle
      BY <3>1 DEF Idle, IsWriting
    <3>2. CASE op'[p] = [step |-> "truncate", why |-> op[p].why, change |-> op[p].change,
                         root |-> op[p].root, copy |-> copy]
      <4>1. /\ op'[p].change = op[p].change /\ op'[p].root = op[p].root
            /\ op'[p].copy = Changed(expect, op[p].change, op[p].root)
        BY <2>3, <3>2
      <4> QED
        BY <2>5, <2>7, <4>1 DEF ChangeOf, Changed, Live, Loading
    <3> QED
      BY <2>6, <3>1, <3>2
  <2>9. \A q \in Process : IsWriting(op'[q]) => q = p
    BY <2>1, <2>4
  <2> QED
    BY <2>2, <2>7, <2>8, <2>9
<1>3. ASSUME NEW p \in Process, Truncate(p)
      PROVE  WritersAreAlone'
  <2>1. op[p] \in Writing /\ IsWriting(op[p])
    BY <1>3, OperationParts DEF Truncate, IsWriting, TypeOK
  <2>2. /\ op'[p] = [op[p] EXCEPT !.step = "write"]
        /\ \A q \in Process : q # p => op'[q] = op[q]
    BY <1>3 DEF Truncate, Goto, TypeOK
  <2>3. /\ op'[p].step = "write" /\ op'[p].change = op[p].change
        /\ op'[p].root = op[p].root /\ op'[p].copy = op[p].copy
    BY <2>1, <2>2 DEF Writing
  <2>4. UNCHANGED <<folder, expect, mixed, torn>>
    BY <1>3 DEF Truncate
  <2>5. \A q \in Process : IsWriting(op'[q]) => IsWriting(op[q])
    BY <2>1, <2>2
  <2>6. ASSUME ~mixed, ~torn, NEW q \in Process, IsWriting(op'[q])
        PROVE  ChangeOf(op[q])'
    <3>1. ChangeOf(op[q])
      BY <2>5, <2>6 DEF WritersAreAlone
    <3> QED
      BY <2>2, <2>3, <2>4, <3>1 DEF ChangeOf
  <2> QED
    BY <2>3, <2>4, <2>5, <2>6 DEF WritersAreAlone, IsWriting, ChangeOf
<1>4. ASSUME NEW p \in Process, WriteRegistry(p) \/ AnswerFails(p)
      PROVE  WritersAreAlone'
  <2>1. op[p] \in Writing /\ IsWriting(op[p])
    BY <1>4, OperationParts DEF WriteRegistry, AnswerFails, Written, IsWriting, TypeOK
  <2>2. op'[p] = Idle /\ \A q \in Process : q # p => op'[q] = op[q]
    BY <1>4 DEF WriteRegistry, AnswerFails, End, Goto, TypeOK
  <2>3. UNCHANGED <<folder, mixed, torn>> /\ (~mixed => registry' = op[p].copy)
    BY <1>4 DEF WriteRegistry, AnswerFails, Written, CutIsKnown
  <2> SUFFICES ASSUME ~mixed', ~torn'
               PROVE  /\ \A q, r \in Process : IsWriting(op'[q]) /\ IsWriting(op'[r]) => q = r
                      /\ \A q \in Process : IsWriting(op'[q]) => ChangeOf(op[q])'
                      /\ (\A q \in Process : op'[q].step # "write") => registry' = expect'
    BY DEF WritersAreAlone, IsWriting, ChangeOf
  <2>4. /\ ~mixed /\ ~torn /\ ChangeOf(op[p])
        /\ \A q \in Process : IsWriting(op[q]) => q = p
    BY <2>1, <2>3 DEF WritersAreAlone
  <2>5. \A q \in Process : ~IsWriting(op'[q])
    BY <2>2, <2>4 DEF IsWriting, Idle
  <2>6. expect' = op[p].copy
    <3>1. CASE op[p].change = "add"
      BY <1>4, <2>4, <3>1 DEF WriteRegistry, AnswerFails, Written, ChangeOf
    <3>2. CASE op[p].change = "drop"
      BY <1>4, <2>4, <3>2 DEF WriteRegistry, AnswerFails, Written, ChangeOf
    <3>3. CASE op[p].change = "prune"
      <4>1. expect' = expect \intersect (folder \union op[p].copy)
        BY <1>4, <3>3 DEF WriteRegistry, AnswerFails, Written
      <4>2. op[p].copy \subseteq expect /\ expect \intersect folder \subseteq op[p].copy
        BY <2>4, <3>3 DEF ChangeOf
      <4> QED
        BY <4>1, <4>2
    <3> QED
      BY <2>1, <3>1, <3>2, <3>3 DEF Writing
  <2> QED
    BY <2>3, <2>4, <2>5, <2>6
<1>5. ASSUME NEW p \in Process, Stop(p) \/ SaveFails(p)
      PROVE  WritersAreAlone'
  <2>1. op'[p] = Idle /\ \A q \in Process : q # p => op'[q] = op[q]
    BY <1>5 DEF Stop, SaveFails, End, GiveUp, Goto, TypeOK
  <2>2. UNCHANGED <<folder, registry, expect, mixed>> /\ torn' = (torn \/ op[p].step = "write")
    BY <1>5 DEF Stop, SaveFails
  <2>3. ~IsWriting(op'[p])
    BY <2>1 DEF Idle, IsWriting
  <2> QED
    BY <2>1, <2>2, <2>3, OthersKeepWriters
<1>6. ASSUME NEW p \in Process, WritesNothing(p)
      PROVE  WritersAreAlone'
  BY <1>6, OthersDoNotWrite, OthersKeepWriters
<1>7. ASSUME NEW w \in Workspace, RemoveFolder(w)
      PROVE  WritersAreAlone'
  BY <1>7, OthersKeepWriters DEF RemoveFolder, reg
<1> QED
  BY <1>1, <1>2, <1>3, <1>4, <1>5, <1>6, <1>7 DEF Next, WritesNothing

\* What a process does next is of a purpose it may have.
LEMMA PurposeKept ==
    ASSUME TypeOK, PurposesAreRight, NEW p \in Process, NEW next,
           MayDo(p, next), op' = [op EXCEPT ![p] = next]
    PROVE  PurposesAreRight'
  BY DEF PurposesAreRight, TypeOK

LEMMA PurposesStep ==
    ASSUME TypeOK, PurposesAreRight, [Next]_vars
    PROVE  PurposesAreRight'
<1>1. ASSUME op' = op PROVE PurposesAreRight'
  BY <1>1 DEF PurposesAreRight
<1>2. ASSUME NEW p \in Process, NEW next, MayDo(p, next), Goto(p, next)
      PROVE  PurposesAreRight'
  BY <1>2, PurposeKept DEF Goto
<1>3. ASSUME NEW p \in Process, NEW w \in Workspace, NEW why,
             Connect(p, w, why), why = "switch" => p \in Mcp, why # "refusal"
      PROVE  PurposesAreRight'
  <2>1. \E s, done, known :
           Goto(p, [step |-> "migrate", why |-> why, root |-> w, store |-> s,
                    done |-> done, known |-> known])
    BY <1>3 DEF Connect
  <2>2. \A s, done, known :
           MayDo(p, [step |-> "migrate", why |-> why, root |-> w, store |-> s,
                     done |-> done, known |-> known])
    BY <1>3 DEF MayDo
  <2> QED
    BY <1>2, <2>1, <2>2
<1>4. \A p \in Process : MayDo(p, Idle) /\ MayDo(p, op[p])
  BY DEF MayDo, Idle, PurposesAreRight
<1>5. ASSUME NEW p \in Process, NEW w \in Workspace,
             \/ Start(p, w) \/ OpenWorkspace(p, w)
             \/ \E b \in BOOLEAN : DeleteWorkspace(p, w, b)
      PROVE  PurposesAreRight'
  <2>1. CASE Start(p, w) \/ OpenWorkspace(p, w)
    BY <1>3, <2>1 DEF Start, OpenWorkspace
  <2>2. CASE \E b \in BOOLEAN : DeleteWorkspace(p, w, b)
    <3>1. /\ MayDo(p, [step |-> "unlink", root |-> w])
          /\ MayDo(p, [step |-> "load", why |-> "route", change |-> "drop", root |-> w])
      BY DEF MayDo
    <3> QED
      BY <1>2, <2>2, <3>1 DEF DeleteWorkspace
  <2> QED
    BY <1>5, <2>1, <2>2
<1>6. ASSUME NEW p \in Process, RunScript(p) \/ Stamp(p) \/ Migrate(p)
      PROVE  PurposesAreRight'
  <2>1. op[p] \in Opening
    BY <1>6, OperationParts DEF RunScript, Stamp, Migrate, IsOpening, TypeOK
  <2>2. ASSUME NEW step, NEW done
        PROVE  MayDo(p, [[op[p] EXCEPT !.step = step] EXCEPT !.done = done])
    BY <1>4, <2>1 DEF MayDo, Opening
  <2>3. CASE RunScript(p)
    <3>1. MayDo(p, [op[p] EXCEPT !.step = "stamp"])
      BY <1>4, <2>1 DEF MayDo, Opening
    <3> QED
      BY <1>2, <2>3, <3>1 DEF RunScript
  <2>4. CASE Stamp(p)
    <3>1. MayDo(p, [op[p] EXCEPT !.step = "migrate", !.done = 1])
      BY <2>2
    <3> QED
      BY <1>2, <2>4, <3>1 DEF Stamp
  <2>5. CASE Migrate(p)
    <3>1. MayDo(p, [op[p] EXCEPT !.done = op[p].done + 1])
      BY <1>4, <2>1 DEF MayDo, Opening
    <3> QED
      BY <1>2, <2>5, <3>1 DEF Migrate
  <2> QED
    BY <1>6, <2>3, <2>4, <2>5
<1>7. ASSUME NEW p \in Process, OpenedAtStart(p) \/ Swap(p) \/ StoreEnsured(p)
      PROVE  PurposesAreRight'
  <2>1. op[p].step = "migrate"
    BY <1>7 DEF OpenedAtStart, Swap, StoreEnsured, Opened
  <2>2. MayDo(p, AfterOpen(p))
    BY <1>4, <2>1 DEF AfterOpen, MayDo, Idle
  <2> QED
    BY <1>2, <1>7, <2>2 DEF OpenedAtStart, Swap, StoreEnsured
<1>8. ASSUME NEW p \in Process, LoadRegistry(p) \/ Truncate(p)
      PROVE  PurposesAreRight'
  <2>1. CASE LoadRegistry(p)
    <3>1. PICK next : Goto(p, next) /\ (next = Idle \/ next.why = op[p].why)
      BY <2>1 DEF LoadRegistry
    <3>2. MayDo(p, next)
      BY <1>4, <2>1, <3>1 DEF MayDo, LoadRegistry
    <3> QED
      BY <1>2, <3>1, <3>2
  <2>2. CASE Truncate(p)
    <3>1. op[p] \in Writing
      BY <2>2, OperationParts DEF Truncate, IsWriting, TypeOK
    <3>2. MayDo(p, [op[p] EXCEPT !.step = "write"])
      BY <1>4, <2>2, <3>1 DEF MayDo, Truncate, Writing
    <3> QED
      BY <1>2, <2>2, <3>2 DEF Truncate
  <2> QED
    BY <1>8, <2>1, <2>2
<1>9. ASSUME NEW p \in Process,
             \/ OpenFails(p) \/ SwapFails(p) \/ WriteRegistry(p) \/ UnlinkFails(p) \/ Stop(p)
             \/ LoadFails(p) \/ SaveFails(p) \/ AnswerFails(p) \/ RequestFails(p)
      PROVE  PurposesAreRight'
  <2>1. Goto(p, Idle)
    BY <1>9 DEF OpenFails, SwapFails, WriteRegistry, UnlinkFails, Stop, LoadFails, SaveFails,
       AnswerFails, RequestFails, End, GiveUp
  <2> QED
    BY <1>2, <1>4, <2>1
<1>10. ASSUME NEW p \in Process, ListWorkspaces(p) \/ Unlink(p) \/ Setup(p)
       PROVE  PurposesAreRight'
  <2>1. CASE ListWorkspaces(p)
    <3>1. \A why : MayDo(p, [step |-> "load", why |-> why, change |-> "prune",
                             root |-> session[p].root])
      BY <2>1 DEF ListWorkspaces, MayDo
    <3> QED
      BY <1>2, <2>1, <3>1 DEF ListWorkspaces
  <2>2. CASE Unlink(p)
    <3>1. MayDo(p, [step |-> "load", why |-> "route", change |-> "drop", root |-> op[p].root])
      BY DEF MayDo
    <3> QED
      BY <1>2, <2>2, <3>1 DEF Unlink
  <2>3. CASE Setup(p)
    <3>1. session[p].root \in Workspace
      BY <2>3 DEF Setup, Request, Serving, TypeOK, Session
    <3>2. MayDo(p, [step |-> "load", why |-> "route", change |-> "add", root |-> session[p].root])
      BY DEF MayDo
    <3> QED
      BY <1>2, <1>3, <2>3, <3>1, <3>2 DEF Setup
  <2> QED
    BY <1>10, <2>1, <2>2, <2>3
<1>11. ASSUME NEW p \in Process, Call(p)
       PROVE  PurposesAreRight'
  BY <1>1, <1>11 DEF Call
<1>12. ASSUME NEW w \in Workspace, RemoveFolder(w)
       PROVE  PurposesAreRight'
  BY <1>1, <1>12 DEF RemoveFolder
<1>13. CASE UNCHANGED vars
  BY <1>1, <1>13 DEF vars
<1> QED
  BY <1>5, <1>6, <1>7, <1>8, <1>9, <1>10, <1>11, <1>12, <1>13 DEF Next

-----------------------------------------------------------------------------
(***************************************************************************)
(* The theorems.                                                           *)
(***************************************************************************)

\* Every value a variable takes is of its type: the workspaces' stores are
\* different files, and servers and processes are in states the code knows.
THEOREM TypeCorrect == Spec => []TypeOK
<1>1. SessionsInv => TypeOK
  BY DEF SessionsInv
<1> QED
  BY <1>1, SessionsInvariant, PTL

\* A store that is served has every migration, whatever the openers of a file
\* do side by side and wherever they stop (apply_pending, _migrated_paths).
THEOREM ServedStoresAreWhole == Spec => []OpenStoresAreWhole
<1>1. SessionsInv => OpenStoresAreWhole
  BY DEF SessionsInv
<1> QED
  BY <1>1, SessionsInvariant, PTL

\* A server writes to the store at the root it reports, or to a file that was
\* deleted under it (_handle_open_workspace, delete_workspace).
THEOREM SessionsStay == Spec => []SessionsStayInTheirWorkspace
<1>1. SessionsInv => SessionsStayInTheirWorkspace
  BY DEF SessionsInv
<1> QED
  BY <1>1, SessionsInvariant, PTL

\* A registration stays until it is withdrawn or pruned with its folder, while
\* writers of the registry do not overlap and none stops in its write.
THEOREM RegistrationsKept == Spec => []RegistrationsAreKept
<1>1. Init => CutIsKnown /\ WritersAreAlone
  BY DEF Init, CutIsKnown, WritersAreAlone, IsWriting, Idle
<1>2. SessionsInv /\ CutIsKnown /\ WritersAreAlone /\ [Next]_vars => (CutIsKnown /\ WritersAreAlone)'
  BY CutStep, WritersStep DEF SessionsInv
<1>3. WritersAreAlone => RegistrationsAreKept
  BY DEF WritersAreAlone, RegistrationsAreKept
<1> QED
  BY <1>1, <1>2, <1>3, SessionsInvariant, PTL DEF Spec

\* A server ends because it was stopped or by one of the errors that nothing
\* catches: a request it cannot read, what follows the try of open_workspace, a
\* registry spoilt by the writes of others.  An opening that fails is none of these
\* (run_mcp_server, _handle_open_workspace).
THEOREM ServersEnd == Spec => ServersEndAsAsked
<1> DEFINE Cause(p) ==
       \/ Stop(p)
       \/ p \in Mcp /\ op[p] = Idle /\ switches' > switches
       \/ op[p].step = "migrate" /\ op[p].why = "switch" /\ session[p].conn = "dirty"
       \/ /\ op[p].step \in {"load", "truncate", "write"}
          /\ \/ p \in Mcp /\ op[p].why \in {"switch", "refusal"}
             \/ op[p].why = "start" /\ op[p].step = "load"
          /\ RegistryIsSpoilt \/ faults' > faults
<1> DEFINE Ends == \A p \in Process : session[p] # None /\ session'[p] = None => Cause(p)
<1>1. SessionsInv /\ PurposesAreRight /\ CutIsKnown /\ [Next]_vars => [Ends]_vars
  <2> SUFFICES ASSUME TypeOK, PurposesAreRight, CutIsKnown, Next, NEW p \in Process,
                      session[p] # None, session'[p] = None
               PROVE  Cause(p)
    BY DEF SessionsInv
  <2> USE DEF TypeOK
  <2>1. session[p] \in Session /\ session' # session
    OBVIOUS
  <2>2. ASSUME NEW q \in Process, SwapFails(q)
        PROVE  Cause(p)
    BY <2>2 DEF SwapFails, End, Opened
  <2>3. ASSUME NEW q \in Process, Stop(q)
        PROVE  Cause(p)
    <3>1. q = p
      BY <2>3 DEF Stop, End
    <3> QED
      BY <2>3, <3>1
  <2>4. ASSUME NEW q \in Process, OpenedAtStart(q) \/ Swap(q)
        PROVE  FALSE
    <3>1. op[q] \in Opening
      BY <2>4, OperationParts DEF OpenedAtStart, Swap, Opened, IsOpening
    <3>2. NewSession(q) \in Session
      BY <3>1 DEF NewSession, Session, Opening
    <3>3. session'[q] # None /\ \A r \in Process : r # q => session'[r] = session[r]
      BY <2>4, <3>2, NoneIsNoSession DEF OpenedAtStart, Swap
    <3> QED
      BY <3>3
  <2>5. ASSUME NEW q \in Process, NEW c \in {"open", "dirty", "closed"}, Serving(q),
               session' = [session EXCEPT ![q].conn = c]
        PROVE  FALSE
    <3>1. session[q] \in Session
      BY <2>5 DEF Serving
    <3>2. [session[q] EXCEPT !.conn = c] \in Session
      BY <3>1 DEF Session
    <3>3. session'[q] # None /\ \A r \in Process : r # q => session'[r] = session[r]
      BY <2>5, <3>2, NoneIsNoSession
    <3> QED
      BY <3>3
  <2>6. ASSUME NEW q \in Process, NEW w \in Workspace, NEW b \in BOOLEAN, DeleteWorkspace(q, w, b)
        PROVE  FALSE
    BY <2>1, <2>5, <2>6 DEF DeleteWorkspace, Request
  <2>7. ASSUME NEW q \in Process, Call(q)
        PROVE  FALSE
    BY <2>5, <2>7 DEF Call
  <2>9. ASSUME NEW q \in Process, RequestFails(q)
        PROVE  Cause(p)
    <3>1. q = p /\ switches' = switches + 1 /\ op[q] = Idle /\ q \in Mcp
      BY <2>9 DEF RequestFails, Request, Serving, End
    <3> QED
      BY <3>1
  <2>10. ASSUME NEW q \in Process, LoadFails(q) \/ SaveFails(q) \/ AnswerFails(q)
         PROVE  Cause(p)
    <3>1. q = p /\ End(p)
      BY <2>1, <2>10 DEF LoadFails, SaveFails, AnswerFails, End, GiveUp
    <3>2. op[p].step = "load" \/ IsWriting(op[p])
      BY <2>10, <3>1 DEF LoadFails, SaveFails, AnswerFails, Written, IsWriting
    <3>3. op[p].why \in Purpose
      BY <3>2, OperationParts DEF Loading, Writing
    <3>4. \/ op[p].step = "load" /\ registry \in {Partial, Jumbled} /\ op[p].why # "route"
          \/ IsWriting(op[p]) /\ op[p].why \notin {"start", "route"} /\ faults' > faults
      BY <2>10, <3>1, <2>1 DEF LoadFails, SaveFails, AnswerFails, Written, GiveUp, Fault, IsWriting
    <3>5. op[p].why \in {"switch", "refusal"} => p \in Mcp
      BY <3>2 DEF PurposesAreRight, MayDo, IsWriting
    <3> QED
      BY <3>2, <3>3, <3>4, <3>5 DEF CutIsKnown, RegistryIsSpoilt, Purpose, IsWriting
  <2> HIDE DEF TypeOK
  <2>8. ASSUME NEW q \in Process,
               \/ \E w \in Workspace : Start(q, w) \/ OpenWorkspace(q, w) \/ RemoveFolder(w)
               \/ RunScript(q) \/ Stamp(q) \/ Migrate(q) \/ OpenFails(q) \/ StoreEnsured(q)
               \/ LoadRegistry(q) \/ Truncate(q) \/ WriteRegistry(q) \/ ListWorkspaces(q)
               \/ Unlink(q) \/ UnlinkFails(q) \/ Setup(q)
        PROVE  FALSE
    BY <2>1, <2>8 DEF Start, OpenWorkspace, RemoveFolder, RunScript, Stamp, Migrate,
       OpenFails, StoreEnsured, LoadRegistry, Truncate, WriteRegistry, ListWorkspaces,
       Unlink, UnlinkFails, Setup
  <2> QED
    BY <2>2, <2>3, <2>4, <2>6, <2>7, <2>8, <2>9, <2>10 DEF Next
<1>2. Init => PurposesAreRight /\ CutIsKnown
  BY DEF Init, PurposesAreRight, MayDo, CutIsKnown, IsWriting, Idle
<1>3. SessionsInv /\ PurposesAreRight /\ CutIsKnown /\ [Next]_vars => (PurposesAreRight /\ CutIsKnown)'
  BY PurposesStep, CutStep DEF SessionsInv
<1> QED
  BY <1>1, <1>2, <1>3, SessionsInvariant, PTL DEF Spec, ServersEndAsAsked

HIDE SessionAssumption

-----------------------------------------------------------------------------
(***************************************************************************)
(* 2. SourceBindings, for any number of actors, secrets, sources and       *)
(* files: types, that a valid binding was probed, that the binding file    *)
(* survives its writers, and that copies agree.                            *)
(***************************************************************************)
USE BindingAssumption, ContentAssumption

-----------------------------------------------------------------------------
(***************************************************************************)
(* What a call carries.                                                    *)
(***************************************************************************)
CatalogStep == {"values", "manifest", "writeValues"}
CatalogCall == [step : CatalogStep, handle : Handle, upload : 0 .. MaxAdds, m : Uploads, v : Uploads]
ProbeCall == [step : {"entry", "probe"}, source : Source, was : Record, copy : Bindings]
BindCall == [step : {"records"}, source : Source, new : Record]
OutsideCall == [step : {"open", "project"}, source : Source, new : Record \union {Unset},
                copy : Bindings]
InsideCall == [step : {"write", "replace"}, source : Source, new : Record \union {Unset},
               copy : Bindings, inode : Inode]

LEMMA SecretCallUnion ==
    SecretCall = {NoCall} \union CatalogCall \union ProbeCall \union BindCall \union OutsideCall
                 \union InsideCall
<1>1. ProbeCall = [step : {"entry"}, source : Source, was : Record, copy : Bindings]
                  \union [step : {"probe"}, source : Source, was : Record, copy : Bindings]
  BY DEF ProbeCall
<1> QED
  BY <1>1 DEF SecretCall, CatalogCall, CatalogStep, BindCall, OutsideCall, InsideCall

LEMMA SecretCallParts ==
    ASSUME NEW c \in SecretCall
    PROVE  /\ c.step \in CatalogStep => c \in CatalogCall
           /\ c.step \in {"entry", "probe"} => c \in ProbeCall
           /\ c.step = "records" => c \in BindCall
           /\ c.step \in {"open", "project"} => c \in OutsideCall
           /\ c.step \in {"write", "replace"} => c \in InsideCall
<1> USE DEF CatalogStep
<1>1. CASE c = NoCall
  BY <1>1 DEF NoCall
<1>2. CASE c \in CatalogCall
  BY <1>2 DEF CatalogCall
<1>3. CASE c \in ProbeCall
  BY <1>3 DEF ProbeCall
<1>4. CASE c \in BindCall
  BY <1>4 DEF BindCall
<1>5. CASE c \in OutsideCall
  BY <1>5 DEF OutsideCall
<1>6. CASE c \in InsideCall
  BY <1>6 DEF InsideCall
<1> QED
  BY <1>1, <1>2, <1>3, <1>4, <1>5, <1>6, SecretCallUnion

LEMMA NoCallParts == NoCall \in SecretCall /\ NoCall.step = "idle"
BY DEF SecretCall, NoCall

LEMMA CheckedParts ==
    ASSUME NEW r \in Record, NEW ok \in BOOLEAN
    PROVE  /\ Checked(r, ok) \in Record
           /\ Checked(r, ok).number = r.number
           /\ Checked(r, ok).status = "valid" => ok
BY DEF Checked, Record

LEMMA MergedParts ==
    ASSUME NEW old \in Record \union {Unset}, NEW new \in Record \union {Unset}
    PROVE  /\ Merged(old, new) \in Record \union {Unset}
           /\ Merged(old, new) = Unset <=> new = Unset
           /\ new # Unset => /\ Merged(old, new).handle = new.handle
                             /\ Merged(old, new).status = new.status
                             /\ new.checked => Merged(old, new).checked
<1>1. CASE old = Unset \/ new = Unset
  BY <1>1 DEF Merged
<1>2. CASE old # Unset /\ new # Unset
  <2>1. old \in Record /\ new \in Record
    BY <1>2
  <2>2. PICK b \in BOOLEAN : b = (new.checked \/ old.checked)
    BY Zenon
  <2>3. Merged(old, new) = [new EXCEPT !.checked = b]
    BY <1>2, <2>2, Zenon DEF Merged
  <2>4. Merged(old, new) \in Record
    BY <2>1, <2>3 DEF Record
  <2>5. /\ Merged(old, new).handle = new.handle /\ Merged(old, new).status = new.status
        /\ Merged(old, new).checked = b
    BY <2>1, <2>3 DEF Record
  <2>6. new.checked => Merged(old, new).checked
    BY <2>2, <2>5
  <2> QED
    BY <1>2, <2>4, <2>5, <2>6
<1> QED
  BY <1>1, <1>2

-----------------------------------------------------------------------------
(***************************************************************************)
(* Types.                                                                  *)
(***************************************************************************)
LEMMA BindingsTypeInit == BindingsInit => BindingsTypeOK
<1> SUFFICES ASSUME BindingsInit PROVE BindingsTypeOK
  OBVIOUS
<1> USE DEF BindingsInit
<1>1. Unbound \in Bindings
  BY DEF Unbound, Bindings
<1>2. manifest \in Uploads /\ values \in Uploads /\ file \in [Inode -> Bindings \union Spoilt]
  BY <1>1 DEF Uploads, Spoilt
<1>3. main \in Inode /\ tmp \in Inode \union {Unset} /\ main # tmp /\ node \in Bindings /\ meant \in Bindings
  BY <1>1
<1>4. call \in [Actor -> SecretCall]
  BY NoCallParts
<1>5. probed \in SUBSET (Source \X (1 .. MaxBinds))
  OBVIOUS
<1>6. raced \in [bindings : BOOLEAN, catalog : BOOLEAN]
  BY Zenon
<1>7. cut \in [values : BOOLEAN, shared : BOOLEAN, projection : BOOLEAN]
  BY Zenon
<1>8. /\ adds \in 0 .. MaxAdds /\ binds \in 0 .. MaxBinds
      /\ calls \in 0 .. MaxCalls /\ cuts \in 0 .. MaxCuts
  OBVIOUS
<1> QED
  BY <1>2, <1>3, <1>4, <1>5, <1>6, <1>7, <1>8 DEF BindingsTypeOK

LEMMA ProceedTypes ==
    ASSUME BindingsTypeOK, NEW a \in Actor, NEW next \in SecretCall, Proceed(a, next)
    PROVE  call' \in [Actor -> SecretCall]
BY DEF Proceed, BindingsTypeOK

LEMMA RacedTypes ==
    ASSUME BindingsTypeOK, NEW b \in BOOLEAN,
           \/ raced' = [raced EXCEPT !.bindings = @ \/ b]
           \/ raced' = [raced EXCEPT !.catalog = @ \/ b]
    PROVE  raced' \in [bindings : BOOLEAN, catalog : BOOLEAN]
<1>1. raced \in [bindings : BOOLEAN, catalog : BOOLEAN]
  BY DEF BindingsTypeOK
<1>2. PICK b1 \in BOOLEAN : b1 = (raced.bindings \/ b)
  BY Zenon
<1>3. PICK b2 \in BOOLEAN : b2 = (raced.catalog \/ b)
  BY Zenon
<1>4. raced' = [raced EXCEPT !.bindings = b1] \/ raced' = [raced EXCEPT !.catalog = b2]
  BY <1>2, <1>3, Zenon
<1> QED
  BY <1>1, <1>4

LEMMA ReadableContent ==
    ASSUME BindingsTypeOK, Readable
    PROVE  file[main] \in Bindings
BY DEF BindingsTypeOK, Readable

\* A write leaves the writer's text, or over the text of another what is neither.
LEMMA WriteLeaves ==
    ASSUME BindingsTypeOK, NEW a \in Actor, WriteTmp(a), NEW text,
           text = [call[a].copy EXCEPT ![call[a].source] = call[a].new]
    PROVE  \E content \in {text, Garbled} :
               /\ file' = [file EXCEPT ![call[a].inode] = content]
               /\ file[call[a].inode] = Unwritten => content = text
BY DEF WriteTmp

LEMMA BindingsTypeStep == BindingsTypeOK /\ [BindingsNext]_bindingsVars => BindingsTypeOK'
<1> SUFFICES ASSUME BindingsTypeOK, [BindingsNext]_bindingsVars PROVE BindingsTypeOK'
  OBVIOUS
<1>1. CASE UNCHANGED bindingsVars
  BY <1>1 DEF bindingsVars, disk, limits, BindingsTypeOK
\* Most steps change nothing but a call and a counter.
<1>2. ASSUME NEW a \in Actor, NEW next \in SecretCall, Proceed(a, next), UNCHANGED <<disk, node, meant>>,
             probed' \in SUBSET (Source \X (1 .. MaxBinds)),
             raced' \in [bindings : BOOLEAN, catalog : BOOLEAN],
             cut' \in [values : BOOLEAN, shared : BOOLEAN, projection : BOOLEAN],
             adds' \in 0 .. MaxAdds, binds' \in 0 .. MaxBinds,
             calls' \in 0 .. MaxCalls, cuts' \in 0 .. MaxCuts
      PROVE  BindingsTypeOK'
  <2>1. call' \in [Actor -> SecretCall]
    BY <1>2, ProceedTypes
  <2> QED
    BY <1>2, <2>1 DEF BindingsTypeOK, disk
<1>3. ASSUME NEW a \in Actor
      PROVE  call[a] \in SecretCall
  BY <1>3 DEF BindingsTypeOK
<1>4. BeginCall => calls' \in 0 .. MaxCalls
  BY DEF BeginCall, BindingsTypeOK
<1>5. ASSUME NEW a \in Actor, MixBindings(a)
      PROVE  raced' \in [bindings : BOOLEAN, catalog : BOOLEAN]
  <2>1. PICK b \in BOOLEAN : b = \E q \in Actor \ {a} : HasBindings(q)
    BY Zenon
  <2>2. raced' = [raced EXCEPT !.bindings = @ \/ b]
    BY <1>5, <2>1, Zenon DEF MixBindings
  <2> QED
    BY <2>2, RacedTypes
<1>6. ASSUME NEW a \in Actor, NEW h \in Handle, NEW u \in 0 .. MaxAdds, BeginCatalog(a, h, u),
             adds' \in 0 .. MaxAdds
      PROVE  BindingsTypeOK'
  <2>1. PICK b \in BOOLEAN : b = \E q \in Actor \ {a} : HasCatalog(q)
    BY Zenon
  <2>2. raced' = [raced EXCEPT !.catalog = @ \/ b]
    BY <1>6, <2>1, Zenon DEF BeginCatalog
  <2>3. raced' \in [bindings : BOOLEAN, catalog : BOOLEAN]
    BY <2>2, RacedTypes
  <2>4. [step |-> "values", handle |-> h, upload |-> u, m |-> manifest, v |-> manifest] \in SecretCall
    BY SecretCallUnion DEF CatalogCall, CatalogStep, BindingsTypeOK
  <2> QED
    BY <1>2, <1>4, <1>6, <2>3, <2>4 DEF BeginCatalog, BindingsTypeOK
<1>7. ASSUME NEW a \in Actor, NEW h \in Handle, AddSecret(a, h) \/ RemoveSecret(a, h)
      PROVE  BindingsTypeOK'
  BY <1>6, <1>7 DEF AddSecret, RemoveSecret, BindingsTypeOK
<1>8. ASSUME NEW a \in Actor, LoadValues(a)
      PROVE  BindingsTypeOK'
  <2>1. call[a] \in CatalogCall
    BY <1>3, <1>8, SecretCallParts DEF LoadValues, CatalogStep
  <2>2. [call[a] EXCEPT !.step = "manifest", !.v = values] \in CatalogCall
    BY <2>1 DEF CatalogCall, CatalogStep, BindingsTypeOK
  <2> QED
    BY <1>2, <1>8, <2>2, SecretCallUnion DEF LoadValues, limits, BindingsTypeOK
<1>9. ASSUME NEW a \in Actor, RejectSecret(a) \/ CallFails(a) \/ ReplaceFails(a)
      PROVE  BindingsTypeOK'
  BY <1>2, <1>9, NoCallParts DEF RejectSecret, CallFails, ReplaceFails, limits, BindingsTypeOK
<1>10. ASSUME NEW a \in Actor, SaveManifest(a)
       PROVE  BindingsTypeOK'
  <2>1. call[a] \in CatalogCall
    BY <1>3, <1>10, SecretCallParts DEF SaveManifest, CatalogStep
  <2>2. [call[a] EXCEPT !.step = "writeValues"] \in SecretCall
    BY <2>1, SecretCallUnion DEF CatalogCall, CatalogStep
  <2>3. call' \in [Actor -> SecretCall]
    BY <1>10, <2>2, ProceedTypes DEF SaveManifest
  <2>4. manifest' \in Uploads
    BY <1>10, <2>1 DEF SaveManifest, CatalogCall, Uploads
  <2> QED
    BY <1>10, <2>3, <2>4 DEF SaveManifest, limits, BindingsTypeOK
<1>11. ASSUME NEW a \in Actor, SaveValues(a)
       PROVE  BindingsTypeOK'
  <2>1. call[a] \in CatalogCall
    BY <1>3, <1>11, SecretCallParts DEF SaveValues, CatalogStep
  <2>2. call' \in [Actor -> SecretCall]
    BY <1>11, NoCallParts, ProceedTypes DEF SaveValues
  <2>3. values' \in Uploads
    BY <1>11, <2>1 DEF SaveValues, CatalogCall, Uploads
  <2> QED
    BY <1>11, <2>2, <2>3 DEF SaveValues, limits, BindingsTypeOK
<1>12. ASSUME NEW a \in Actor, NEW s \in Source, NEW h \in Handle, BeginBind(a, s, h)
       PROVE  BindingsTypeOK'
  <2>1. binds + 1 \in 1 .. MaxBinds /\ binds' \in 0 .. MaxBinds
    BY <1>12 DEF BeginBind, BindingsTypeOK
  <2>2. [handle |-> h, number |-> binds + 1, status |-> "unvalidated", checked |-> FALSE] \in Record
    BY <2>1 DEF Record
  <2>3. [step |-> "records", source |-> s,
         new |-> [handle |-> h, number |-> binds + 1,
                  status |-> "unvalidated", checked |-> FALSE]] \in SecretCall
    BY <2>2, SecretCallUnion DEF BindCall
  <2> QED
    BY <1>2, <1>4, <1>12, <2>1, <2>3 DEF BeginBind, BindingsTypeOK
<1>13. ASSUME NEW a \in Actor, LoadForBind(a)
       PROVE  BindingsTypeOK'
  <2>1. call[a] \in BindCall
    BY <1>3, <1>13, SecretCallParts DEF LoadForBind
  <2>2. [step |-> "open", source |-> call[a].source, new |-> call[a].new,
         copy |-> file[main]] \in OutsideCall
    BY <1>13, <2>1, ReadableContent DEF LoadForBind, BindCall, OutsideCall
  <2> QED
    BY <1>2, <1>5, <1>13, <2>2, SecretCallUnion DEF LoadForBind, limits, BindingsTypeOK
<1>14. ASSUME NEW a \in Actor, NEW s \in Source, BeginUnbind(a, s)
       PROVE  BindingsTypeOK'
  <2>1. [step |-> "open", source |-> s, new |-> Unset, copy |-> file[main]] \in OutsideCall
    BY <1>14, ReadableContent DEF BeginUnbind, OutsideCall
  <2> QED
    BY <1>2, <1>4, <1>5, <1>14, <2>1, SecretCallUnion DEF BeginUnbind, BindingsTypeOK
<1>15. ASSUME NEW a \in Actor, NEW s \in Source, BeginValidate(a, s)
       PROVE  BindingsTypeOK'
  <2>1. file[main] \in Bindings /\ file[main][s] \in Record
    BY <1>15, ReadableContent DEF BeginValidate, Bindings
  <2>2. [step |-> "entry", source |-> s, was |-> file[main][s], copy |-> file[main]] \in ProbeCall
    BY <2>1 DEF ProbeCall
  <2> QED
    BY <1>2, <1>4, <1>5, <1>15, <2>2, SecretCallUnion DEF BeginValidate, BindingsTypeOK
<1>16. ASSUME NEW a \in Actor, LookUp(a)
       PROVE  BindingsTypeOK'
  <2>1. call[a] \in ProbeCall
    BY <1>3, <1>16, SecretCallParts DEF LookUp
  <2>2. [call[a] EXCEPT !.step = "probe"] \in ProbeCall
    BY <2>1 DEF ProbeCall
  <2> QED
    BY <1>2, <1>16, <2>2, SecretCallUnion DEF LookUp, limits, BindingsTypeOK
<1>17. ASSUME NEW a \in Actor, NEW ok \in BOOLEAN, Probe(a, ok)
       PROVE  BindingsTypeOK'
  <2>1. call[a] \in ProbeCall
    BY <1>3, <1>17, SecretCallParts DEF Probe
  <2>2. [step |-> "open", source |-> call[a].source, new |-> Checked(call[a].was, ok),
         copy |-> call[a].copy] \in OutsideCall
    BY <2>1, CheckedParts DEF ProbeCall, OutsideCall
  <2>3. probed' \in SUBSET (Source \X (1 .. MaxBinds))
    BY <1>17, <2>1 DEF Probe, ProbeCall, Record, BindingsTypeOK
  <2> QED
    BY <1>2, <1>17, <2>2, <2>3, SecretCallUnion DEF Probe, limits, BindingsTypeOK
<1>18. ASSUME NEW a \in Actor, OpenTmp(a)
       PROVE  BindingsTypeOK'
  <2>1. call[a] \in OutsideCall
    BY <1>3, <1>18, SecretCallParts DEF OpenTmp
  <2>2. PICK i \in (IF tmp = Unset THEN Free ELSE {tmp}) :
           /\ tmp' = i /\ file' = [file EXCEPT ![i] = Unwritten]
           /\ Proceed(a, [step |-> "write", source |-> call[a].source, new |-> call[a].new,
                          copy |-> call[a].copy, inode |-> i])
    BY <1>18 DEF OpenTmp
  <2>3. i \in Inode /\ i # main
    BY <2>2 DEF Free, BindingsTypeOK
  <2>4. [step |-> "write", source |-> call[a].source, new |-> call[a].new,
         copy |-> call[a].copy, inode |-> i] \in InsideCall
    BY <2>1, <2>3 DEF OutsideCall, InsideCall
  <2>5. call' \in [Actor -> SecretCall]
    BY <2>2, <2>4, ProceedTypes, SecretCallUnion
  <2>6. file' \in [Inode -> Bindings \union Spoilt]
    BY <2>2, <2>3 DEF BindingsTypeOK, Spoilt
  <2> QED
    BY <1>18, <2>2, <2>3, <2>5, <2>6 DEF OpenTmp, limits, BindingsTypeOK
<1>19. ASSUME NEW a \in Actor, WriteTmp(a)
       PROVE  BindingsTypeOK'
  <2>1. call[a] \in InsideCall
    BY <1>3, <1>19, SecretCallParts DEF WriteTmp
  <2>2. [call[a] EXCEPT !.step = "replace"] \in InsideCall
    BY <2>1 DEF InsideCall
  <2>3. call' \in [Actor -> SecretCall]
    BY <1>19, <2>2, ProceedTypes, SecretCallUnion DEF WriteTmp
  <2>4. PICK text \in Bindings : text = [call[a].copy EXCEPT ![call[a].source] = call[a].new]
    BY <2>1 DEF InsideCall, Bindings
  <2>5. file' \in [Inode -> Bindings \union Spoilt]
    BY <1>19, <2>1, <2>4, WriteLeaves DEF Spoilt, InsideCall, BindingsTypeOK
  <2> QED
    BY <1>19, <2>3, <2>5 DEF WriteTmp, limits, BindingsTypeOK
<1>20. ASSUME NEW a \in Actor, Replace(a)
       PROVE  BindingsTypeOK'
  <2>1. call[a] \in InsideCall
    BY <1>3, <1>20, SecretCallParts DEF Replace
  <2>2. [step |-> "project", source |-> call[a].source, new |-> call[a].new,
         copy |-> call[a].copy] \in OutsideCall
    BY <2>1 DEF InsideCall, OutsideCall
  <2>3. call' \in [Actor -> SecretCall]
    BY <1>20, <2>2, ProceedTypes, SecretCallUnion DEF Replace
  <2>4. meant' \in Bindings
    BY <1>20, <2>1 DEF Replace, InsideCall, Bindings, BindingsTypeOK
  <2>5. main' \in Inode /\ tmp' = Unset /\ main' # tmp'
    BY <1>20 DEF Replace, BindingsTypeOK
  <2> QED
    BY <1>20, <2>3, <2>4, <2>5 DEF Replace, limits, BindingsTypeOK
<1>21. ASSUME NEW a \in Actor, Project(a)
       PROVE  BindingsTypeOK'
  <2>1. call[a] \in OutsideCall
    BY <1>3, <1>21, SecretCallParts DEF Project
  <2>2. call' \in [Actor -> SecretCall]
    BY <1>21, NoCallParts, ProceedTypes DEF Project
  <2>3. node \in Bindings
    BY DEF BindingsTypeOK
  <2>4. Merged(node[call[a].source], call[a].new) \in Record \union {Unset}
    BY <2>1, <2>3, MergedParts DEF OutsideCall, Bindings
  <2>5. node' \in Bindings
    BY <1>21, <2>1, <2>3, <2>4 DEF Project, OutsideCall, Bindings
  <2> QED
    BY <1>21, <2>2, <2>5 DEF Project, disk, limits, BindingsTypeOK
<1>22. ASSUME NEW a \in Actor, CutShort(a)
       PROVE  BindingsTypeOK'
  <2>1. cut' \in [values : BOOLEAN, shared : BOOLEAN, projection : BOOLEAN]
    BY <1>22, Zenon DEF CutShort
  <2>2. cuts' \in 0 .. MaxCuts
    BY <1>22 DEF CutShort, BindingsTypeOK
  <2> QED
    BY <1>2, <1>22, <2>1, <2>2, NoCallParts DEF CutShort, BindingsTypeOK
<1> QED
  BY <1>1, <1>7, <1>8, <1>9, <1>10, <1>11, <1>12, <1>13, <1>14, <1>15, <1>16, <1>17, <1>18, <1>19,
     <1>20, <1>21, <1>22 DEF BindingsNext

\* The files, the calls and the copies they hold keep their types; the binding
\* file and the temporary one are never the same file.
THEOREM BindingsTypeCorrect == BindingsSpec => []BindingsTypeOK
BY BindingsTypeInit, BindingsTypeStep, PTL DEF BindingsSpec

-----------------------------------------------------------------------------
(***************************************************************************)
(* Valid bindings were probed.  The copies that calls hold and the records *)
(* they are about to store are vouched for as the files are.               *)
(***************************************************************************)
Vouched(s, r, P) == r # Unset /\ r.status = "valid" => <<s, r.number>> \in P

AllVouched(b, P) == \A s \in Source : Vouched(s, b[s], P)

CallVouched(c, P) ==
    /\ c.step \in {"entry", "probe", "open", "write", "replace", "project"} => AllVouched(c.copy, P)
    /\ c.step \in {"entry", "probe"} => Vouched(c.source, c.was, P)
    /\ c.step \in {"records", "open", "write", "replace", "project"} => Vouched(c.source, c.new, P)

ProbedInv ==
    /\ \A i \in Inode : file[i] \notin Spoilt => AllVouched(file[i], probed)
    /\ \A a \in Actor : CallVouched(call[a], probed)

LEMMA ProbedInit == BindingsInit => ProbedInv
<1> SUFFICES ASSUME BindingsInit PROVE ProbedInv
  OBVIOUS
<1>1. AllVouched(Unbound, probed)
  BY DEF AllVouched, Vouched, Unbound
<1>2. CallVouched(NoCall, probed)
  BY NoCallParts DEF CallVouched
<1> QED
  BY <1>1, <1>2 DEF ProbedInv, BindingsInit

\* One call goes on, and a file is as it was, spoilt or vouched for.
LEMMA ProbedOneCall ==
    ASSUME BindingsTypeOK, ProbedInv, NEW a \in Actor, NEW next, Proceed(a, next),
           probed \subseteq probed', CallVouched(next, probed'),
           \A i \in Inode : \/ file'[i] = file[i] \/ file'[i] \in Spoilt
                            \/ AllVouched(file'[i], probed')
    PROVE  ProbedInv'
<1>1. \A i \in Inode : file'[i] \notin Spoilt => AllVouched(file'[i], probed')
  BY DEF ProbedInv, AllVouched, Vouched
<1>2. \A b \in Actor : CallVouched(call[b], probed')
  BY DEF ProbedInv, CallVouched, AllVouched, Vouched
<1>3. \A b \in Actor : CallVouched(call'[b], probed')
  BY <1>2 DEF Proceed, BindingsTypeOK
<1> QED
  BY <1>1, <1>3 DEF ProbedInv

LEMMA ProbedStep == BindingsTypeOK /\ ProbedInv /\ [BindingsNext]_bindingsVars => ProbedInv'
<1> SUFFICES ASSUME BindingsTypeOK, ProbedInv, [BindingsNext]_bindingsVars PROVE ProbedInv'
  OBVIOUS
<1>1. CASE UNCHANGED bindingsVars
  BY <1>1 DEF bindingsVars, disk, ProbedInv
<1>2. ASSUME NEW a \in Actor
      PROVE  call[a] \in SecretCall /\ CallVouched(call[a], probed)
  BY <1>2 DEF BindingsTypeOK, ProbedInv
<1>3. Readable => file[main] \in Bindings /\ AllVouched(file[main], probed)
  BY ReadableContent DEF Readable, ProbedInv, BindingsTypeOK
\* Steps of the catalog, and the ends of calls.
<1>4. ASSUME NEW a \in Actor, NEW next, Proceed(a, next), UNCHANGED <<file, probed>>,
             next.step \in CatalogStep \union {"idle"}
      PROVE  ProbedInv'
  <2>1. CallVouched(next, probed')
    BY <1>4 DEF CallVouched, CatalogStep
  <2> QED
    BY <1>4, <2>1, ProbedOneCall
<1>5. ASSUME NEW a \in Actor, NEW h \in Handle, AddSecret(a, h) \/ RemoveSecret(a, h)
      PROVE  ProbedInv'
  <2>1. PICK next : /\ next.step = "values" /\ Proceed(a, next) /\ UNCHANGED <<file, probed>>
    BY <1>5 DEF AddSecret, RemoveSecret, BeginCatalog, disk
  <2> QED
    BY <2>1, <1>4 DEF CatalogStep
<1>6. ASSUME NEW a \in Actor, LoadValues(a) \/ SaveManifest(a)
      PROVE  ProbedInv'
  <2>1. call[a] \in CatalogCall
    BY <1>2, <1>6, SecretCallParts DEF LoadValues, SaveManifest, CatalogStep
  <2>2. PICK next : /\ Proceed(a, next) /\ UNCHANGED <<file, probed>>
                    /\ \/ next = [call[a] EXCEPT !.step = "manifest", !.v = values]
                       \/ next = [call[a] EXCEPT !.step = "writeValues"]
    BY <1>6 DEF LoadValues, SaveManifest, disk
  <2>3. next.step \in CatalogStep
    BY <2>1, <2>2 DEF CatalogCall, CatalogStep
  <2> QED
    BY <2>2, <2>3, <1>4
<1>7. ASSUME NEW a \in Actor,
             \/ RejectSecret(a) \/ SaveValues(a) \/ CallFails(a) \/ ReplaceFails(a)
             \/ Project(a) \/ CutShort(a)
      PROVE  ProbedInv'
  <2>1. Proceed(a, NoCall) /\ UNCHANGED <<file, probed>>
    BY <1>7 DEF RejectSecret, SaveValues, CallFails, ReplaceFails, Project, CutShort, disk
  <2> QED
    BY <1>4, <2>1, NoCallParts
<1>8. ASSUME NEW a \in Actor, NEW s \in Source, NEW h \in Handle, BeginBind(a, s, h)
      PROVE  ProbedInv'
  <2>1. PICK next : /\ Proceed(a, next) /\ next.step = "records"
                    /\ next.new.status = "unvalidated" /\ UNCHANGED <<file, probed>>
    BY <1>8 DEF BeginBind, disk
  <2>2. CallVouched(next, probed')
    BY <2>1 DEF CallVouched, Vouched
  <2> QED
    BY <2>1, <2>2, ProbedOneCall
<1>9. ASSUME NEW a \in Actor, LoadForBind(a)
      PROVE  ProbedInv'
  <2>1. PICK next : /\ next = [step |-> "open", source |-> call[a].source, new |-> call[a].new,
                               copy |-> file[main]]
                    /\ Proceed(a, next) /\ UNCHANGED <<file, probed>>
    BY <1>9 DEF LoadForBind, disk
  <2>2. CallVouched(next, probed')
    BY <1>2, <1>3, <1>9, <2>1 DEF LoadForBind, CallVouched
  <2> QED
    BY <2>1, <2>2, ProbedOneCall
<1>10. ASSUME NEW a \in Actor, NEW s \in Source, BeginUnbind(a, s)
       PROVE  ProbedInv'
  <2>1. PICK next : /\ next = [step |-> "open", source |-> s, new |-> Unset, copy |-> file[main]]
                    /\ Proceed(a, next) /\ UNCHANGED <<file, probed>>
    BY <1>10 DEF BeginUnbind, disk
  <2>2. CallVouched(next, probed')
    BY <1>3, <1>10, <2>1 DEF BeginUnbind, CallVouched, Vouched
  <2> QED
    BY <2>1, <2>2, ProbedOneCall
<1>11. ASSUME NEW a \in Actor, NEW s \in Source, BeginValidate(a, s)
       PROVE  ProbedInv'
  <2>1. PICK next : /\ next = [step |-> "entry", source |-> s, was |-> file[main][s],
                               copy |-> file[main]]
                    /\ Proceed(a, next) /\ UNCHANGED <<file, probed>>
    BY <1>11 DEF BeginValidate, disk
  <2>2. CallVouched(next, probed')
    BY <1>3, <1>11, <2>1 DEF BeginValidate, CallVouched, AllVouched
  <2> QED
    BY <2>1, <2>2, ProbedOneCall
<1>12. ASSUME NEW a \in Actor, LookUp(a)
       PROVE  ProbedInv'
  <2>1. call[a] \in ProbeCall
    BY <1>2, <1>12, SecretCallParts DEF LookUp
  <2>2. PICK next : /\ next = [call[a] EXCEPT !.step = "probe"]
                    /\ Proceed(a, next) /\ UNCHANGED <<file, probed>>
    BY <1>12 DEF LookUp, disk
  <2>3. /\ next.step = "probe" /\ next.source = call[a].source
        /\ next.was = call[a].was /\ next.copy = call[a].copy
    BY <2>1, <2>2 DEF ProbeCall
  <2>4. CallVouched(next, probed')
    BY <1>2, <1>12, <2>2, <2>3 DEF LookUp, CallVouched
  <2> QED
    BY <2>2, <2>4, ProbedOneCall
<1>13. ASSUME NEW a \in Actor, NEW ok \in BOOLEAN, Probe(a, ok)
       PROVE  ProbedInv'
  <2>1. call[a] \in ProbeCall
    BY <1>2, <1>13, SecretCallParts DEF Probe
  <2>2. PICK next : /\ next = [step |-> "open", source |-> call[a].source,
                               new |-> Checked(call[a].was, ok), copy |-> call[a].copy]
                    /\ Proceed(a, next) /\ UNCHANGED file
    BY <1>13 DEF Probe, disk
  <2>3. probed' = IF ok THEN probed \union {<<call[a].source, call[a].was.number>>} ELSE probed
    BY <1>13 DEF Probe
  <2>4. /\ Checked(call[a].was, ok).number = call[a].was.number
        /\ Checked(call[a].was, ok).status = "valid" => ok
    BY <2>1, CheckedParts DEF ProbeCall
  <2>5. Vouched(next.source, next.new, probed')
    BY <2>2, <2>3, <2>4 DEF Vouched
  <2>6. AllVouched(next.copy, probed')
    BY <1>2, <1>13, <2>2, <2>3 DEF Probe, CallVouched, AllVouched, Vouched
  <2>7. CallVouched(next, probed')
    BY <2>2, <2>5, <2>6 DEF CallVouched
  <2> QED
    BY <2>2, <2>3, <2>7, ProbedOneCall
<1>14. ASSUME NEW a \in Actor, OpenTmp(a)
       PROVE  ProbedInv'
  <2>1. PICK i : /\ file' = [file EXCEPT ![i] = Unwritten] /\ UNCHANGED probed
                 /\ Proceed(a, [step |-> "write", source |-> call[a].source, new |-> call[a].new,
                                copy |-> call[a].copy, inode |-> i])
    BY <1>14 DEF OpenTmp
  <2>2. PICK next : /\ next = [step |-> "write", source |-> call[a].source, new |-> call[a].new,
                               copy |-> call[a].copy, inode |-> i]
                    /\ Proceed(a, next)
    BY <2>1
  <2>3. CallVouched(next, probed')
    BY <1>2, <1>14, <2>1, <2>2 DEF OpenTmp, CallVouched
  <2>4. \A k \in Inode : file'[k] = file[k] \/ file'[k] \in Spoilt
    BY <2>1 DEF BindingsTypeOK, Spoilt
  <2> QED
    BY <2>1, <2>2, <2>3, <2>4, ProbedOneCall
<1>15. ASSUME NEW a \in Actor, WriteTmp(a)
       PROVE  ProbedInv'
  <2>1. call[a] \in InsideCall
    BY <1>2, <1>15, SecretCallParts DEF WriteTmp
  <2>2. PICK next : /\ next = [call[a] EXCEPT !.step = "replace"]
                    /\ Proceed(a, next) /\ UNCHANGED probed
    BY <1>15 DEF WriteTmp
  <2>3. /\ next.step = "replace" /\ next.source = call[a].source
        /\ next.new = call[a].new /\ next.copy = call[a].copy
    BY <2>1, <2>2 DEF InsideCall
  <2>4. AllVouched(call[a].copy, probed) /\ Vouched(call[a].source, call[a].new, probed)
    BY <1>2, <1>15 DEF WriteTmp, CallVouched
  <2>5. CallVouched(next, probed')
    BY <2>2, <2>3, <2>4 DEF CallVouched
  <2>6. PICK b : b = [call[a].copy EXCEPT ![call[a].source] = call[a].new]
    OBVIOUS
  <2>7. AllVouched(b, probed')
    BY <2>1, <2>2, <2>4, <2>6 DEF AllVouched, InsideCall, Bindings
  <2>8. \A k \in Inode : file'[k] = file[k] \/ file'[k] \in Spoilt \/ file'[k] = b
    BY <1>15, <2>6, WriteLeaves DEF Spoilt, BindingsTypeOK
  <2> QED
    BY <2>2, <2>5, <2>7, <2>8, ProbedOneCall
<1>16. ASSUME NEW a \in Actor, Replace(a)
       PROVE  ProbedInv'
  <2>1. PICK next : /\ next = [step |-> "project", source |-> call[a].source, new |-> call[a].new,
                               copy |-> call[a].copy]
                    /\ Proceed(a, next) /\ UNCHANGED <<file, probed>>
    BY <1>16 DEF Replace
  <2>2. CallVouched(next, probed')
    BY <1>2, <1>16, <2>1 DEF Replace, CallVouched
  <2> QED
    BY <2>1, <2>2, ProbedOneCall
<1> QED
  BY <1>1, <1>5, <1>6, <1>7, <1>8, <1>9, <1>10, <1>11, <1>12, <1>13, <1>14, <1>15, <1>16
  DEF BindingsNext

\* A binding is valid only if a probe of this very binding has succeeded,
\* whatever calls interleave, fail or stop, and even where writers lose each
\* other's bindings (validate_source_connection).
THEOREM ValidWasProbedAlways == BindingsSpec => []ValidWasProbed
<1>1. BindingsTypeOK /\ ProbedInv => ValidWasProbed
  BY DEF ProbedInv, ValidWasProbed, AllVouched, Vouched
<1> QED
  BY <1>1, BindingsTypeInit, BindingsTypeStep, ProbedInit, ProbedStep, PTL DEF BindingsSpec

-----------------------------------------------------------------------------
(***************************************************************************)
(* The binding file.  Writers that do not overlap are alone with the files *)
(* (OwnCall); where they do overlap, a file under the main or the          *)
(* temporary name that has no content is being written, or its writer was  *)
(* cut short beside another one; and only there is a file garbled.         *)
(***************************************************************************)
WriterStep == {"entry", "probe", "open", "write", "replace", "project"}

OwnCall(c, f, m, t) ==
    /\ c.step \in {"entry", "probe", "open", "write", "replace"} => c.copy = f[m]
    /\ c.step \in {"write", "replace"} => c.inode = t
    /\ c.step = "write" => f[t] = Unwritten
    /\ c.step = "replace" => f[t] = [c.copy EXCEPT ![c.source] = c.new]
    /\ c.step = "project" => c.new = f[m][c.source]

OneWriter ==
    /\ \A a, b \in Actor : HasBindings(a) /\ HasBindings(b) => a = b
    /\ \A a \in Actor : OwnCall(call[a], file, main, tmp)
    /\ file[main] = meant

BeingWritten(i) ==
    cut.shared \/ \E a \in Actor : call[a].step = "write" /\ call[a].inode = i

TmpExplained ==
    (tmp # Unset /\ file[tmp] = Unwritten /\ \E a \in Actor : call[a].step \in {"write", "replace"})
        => BeingWritten(tmp)

MainExplained == file[main] = Unwritten => BeingWritten(main)

GarbledByTwo == \A i \in Inode : file[i] = Garbled => raced.bindings

FileInv ==
    /\ ~raced.bindings => OneWriter
    /\ cut.shared => raced.bindings
    /\ TmpExplained
    /\ MainExplained
    /\ GarbledByTwo

LEMMA FileInit == BindingsInit => FileInv
<1> SUFFICES ASSUME BindingsInit PROVE FileInv
  OBVIOUS
<1> USE DEF BindingsInit
<1>1. \A a \in Actor : call[a].step = "idle"
  BY NoCallParts
<1>2. OneWriter
  BY <1>1 DEF OneWriter, OwnCall, HasBindings
<1>3. Unbound \in Bindings
  BY DEF Unbound, Bindings
<1> QED
  BY <1>1, <1>2, <1>3 DEF FileInv, TmpExplained, MainExplained, GarbledByTwo, Spoilt

\* A call goes on that opens, writes and renames nothing.
LEMMA FileKept ==
    ASSUME BindingsTypeOK, FileInv, NEW a \in Actor, NEW next, Proceed(a, next),
           UNCHANGED <<file, main, tmp, meant>>, UNCHANGED cut,
           raced.bindings => raced'.bindings,
           call[a].step # "write", next.step \notin {"write", "replace"},
           ~raced'.bindings => /\ OwnCall(next, file, main, tmp)
                               /\ next.step \in WriterStep =>
                                     \A b \in Actor \ {a} : ~HasBindings(b)
    PROVE  FileInv'
<1>1. call'[a] = next /\ \A b \in Actor \ {a} : call'[b] = call[b]
  BY DEF Proceed, BindingsTypeOK
<1>2. ~raced'.bindings => OneWriter'
  BY <1>1 DEF FileInv, OneWriter, HasBindings, WriterStep
<1>3. \A i : BeingWritten(i) => BeingWritten(i)'
  BY <1>1 DEF BeingWritten
<1>4. TmpExplained'
  BY <1>1, <1>3 DEF FileInv, TmpExplained, BeingWritten
<1>5. MainExplained'
  BY <1>1, <1>3 DEF FileInv, MainExplained, BeingWritten
<1>6. GarbledByTwo'
  BY DEF FileInv, GarbledByTwo
<1> QED
  BY <1>2, <1>4, <1>5, <1>6 DEF FileInv

LEMMA FileStep == BindingsTypeOK /\ FileInv /\ [BindingsNext]_bindingsVars => FileInv'
<1> SUFFICES ASSUME BindingsTypeOK, FileInv, [BindingsNext]_bindingsVars PROVE FileInv'
  OBVIOUS
<1>1. CASE UNCHANGED bindingsVars
  BY <1>1 DEF bindingsVars, disk, FileInv, OneWriter, HasBindings, TmpExplained, MainExplained,
     BeingWritten, GarbledByTwo
<1>2. ASSUME NEW a \in Actor
      PROVE  /\ call[a] \in SecretCall
             /\ ~raced.bindings => OwnCall(call[a], file, main, tmp)
  BY <1>2 DEF BindingsTypeOK, FileInv, OneWriter
<1>3. raced \in [bindings : BOOLEAN, catalog : BOOLEAN]
  BY DEF BindingsTypeOK
\* A step to a call that holds no bindings.
<1>4. ASSUME NEW a \in Actor, NEW next, Proceed(a, next),
             UNCHANGED <<file, main, tmp, meant>>, UNCHANGED cut,
             raced'.bindings = raced.bindings,
             call[a].step # "write", next.step \notin WriterStep
      PROVE  FileInv'
  <2>1. OwnCall(next, file, main, tmp)
    BY <1>4 DEF OwnCall, WriterStep
  <2>2. next.step \notin {"write", "replace"}
    BY <1>4 DEF WriterStep
  <2> QED
    BY <1>4, <2>1, <2>2, FileKept
<1>5. ASSUME NEW a \in Actor, NEW h \in Handle, AddSecret(a, h) \/ RemoveSecret(a, h)
      PROVE  FileInv'
  <2>1. PICK next : /\ next.step = "values" /\ Proceed(a, next) /\ UNCHANGED <<disk, meant, cut>>
                    /\ call[a] = NoCall
    BY <1>5 DEF AddSecret, RemoveSecret, BeginCatalog
  <2>2. raced'.bindings = raced.bindings
    BY <1>3, <1>5 DEF AddSecret, RemoveSecret, BeginCatalog
  <2> QED
    BY <1>4, <2>1, <2>2, NoCallParts DEF WriterStep, disk
<1>6. ASSUME NEW a \in Actor, LoadValues(a) \/ SaveManifest(a)
      PROVE  FileInv'
  <2>1. call[a] \in CatalogCall
    BY <1>2, <1>6, SecretCallParts DEF LoadValues, SaveManifest, CatalogStep
  <2>2. PICK next : /\ Proceed(a, next) /\ UNCHANGED <<file, main, tmp, meant, cut, raced>>
                    /\ \/ next = [call[a] EXCEPT !.step = "manifest", !.v = values]
                       \/ next = [call[a] EXCEPT !.step = "writeValues"]
    BY <1>6 DEF LoadValues, SaveManifest, disk
  <2>3. next.step \notin WriterStep /\ call[a].step # "write"
    BY <2>1, <2>2 DEF CatalogCall, CatalogStep, WriterStep
  <2> QED
    BY <2>2, <2>3, <1>4
<1>7. ASSUME NEW a \in Actor,
             \/ RejectSecret(a) \/ SaveValues(a) \/ CallFails(a) \/ ReplaceFails(a) \/ Project(a)
      PROVE  FileInv'
  <2>1. Proceed(a, NoCall) /\ UNCHANGED <<file, main, tmp, meant, cut, raced>>
    BY <1>7 DEF RejectSecret, SaveValues, CallFails, ReplaceFails, Project, disk
  <2>2. call[a].step # "write"
    BY <1>7 DEF RejectSecret, SaveValues, CallFails, ReplaceFails, Project
  <2> QED
    BY <1>4, <2>1, <2>2, NoCallParts DEF WriterStep
<1>8. ASSUME NEW a \in Actor, NEW s \in Source, NEW h \in Handle, BeginBind(a, s, h)
      PROVE  FileInv'
  <2>1. PICK next : /\ Proceed(a, next) /\ next.step = "records" /\ call[a] = NoCall
                    /\ UNCHANGED <<disk, meant, cut, raced>>
    BY <1>8 DEF BeginBind
  <2> QED
    BY <1>4, <2>1, NoCallParts DEF WriterStep, disk
\* The bindings are loaded.
<1>9. ASSUME NEW a \in Actor, NEW next, Proceed(a, next), MixBindings(a),
             UNCHANGED <<disk, meant, cut>>,
             call[a].step # "write", next.step \in {"entry", "open"}, next.copy = file[main]
      PROVE  FileInv'
  <2>1. raced'.bindings = (raced.bindings \/ \E b \in Actor \ {a} : HasBindings(b))
    BY <1>3, <1>9 DEF MixBindings
  <2>2. OwnCall(next, file, main, tmp)
    BY <1>9 DEF OwnCall
  <2>3. next.step \notin {"write", "replace"}
    BY <1>9
  <2> QED
    BY <1>9, <2>1, <2>2, <2>3, FileKept DEF disk
<1>10. ASSUME NEW a \in Actor, LoadForBind(a)
       PROVE  FileInv'
  <2>1. PICK next : /\ next = [step |-> "open", source |-> call[a].source, new |-> call[a].new,
                               copy |-> file[main]]
                    /\ Proceed(a, next)
    BY <1>10 DEF LoadForBind
  <2> QED
    BY <1>9, <1>10, <2>1 DEF LoadForBind
<1>11. ASSUME NEW a \in Actor, NEW s \in Source, BeginUnbind(a, s)
       PROVE  FileInv'
  <2>1. PICK next : /\ next = [step |-> "open", source |-> s, new |-> Unset, copy |-> file[main]]
                    /\ Proceed(a, next)
    BY <1>11 DEF BeginUnbind
  <2> QED
    BY <1>9, <1>11, <2>1, NoCallParts DEF BeginUnbind
<1>12. ASSUME NEW a \in Actor, NEW s \in Source, BeginValidate(a, s)
       PROVE  FileInv'
  <2>1. PICK next : /\ next = [step |-> "entry", source |-> s, was |-> file[main][s],
                               copy |-> file[main]]
                    /\ Proceed(a, next)
    BY <1>12 DEF BeginValidate
  <2> QED
    BY <1>9, <1>12, <2>1, NoCallParts DEF BeginValidate
\* A writer goes on with the copy it has.
<1>13. ASSUME NEW a \in Actor, NEW next, Proceed(a, next), UNCHANGED <<disk, meant, cut, raced>>,
              call[a].step \in {"entry", "probe"}, next.step \in {"probe", "open"},
              next.copy = call[a].copy
       PROVE  FileInv'
  <2>1. ~raced.bindings => OwnCall(next, file, main, tmp)
    BY <1>2, <1>13 DEF OwnCall
  <2>2. ~raced.bindings => \A b \in Actor \ {a} : ~HasBindings(b)
    BY <1>13 DEF FileInv, OneWriter, HasBindings
  <2>3. next.step \notin {"write", "replace"} /\ call[a].step # "write"
    BY <1>13
  <2> QED
    BY <1>13, <2>1, <2>2, <2>3, FileKept DEF disk
<1>14. ASSUME NEW a \in Actor, LookUp(a)
       PROVE  FileInv'
  <2>1. call[a] \in ProbeCall
    BY <1>2, <1>14, SecretCallParts DEF LookUp
  <2>2. PICK next : /\ next = [call[a] EXCEPT !.step = "probe"] /\ Proceed(a, next)
                    /\ UNCHANGED <<disk, meant, cut, raced>> /\ call[a].step = "entry"
    BY <1>14 DEF LookUp
  <2>3. next.step = "probe" /\ next.copy = call[a].copy
    BY <2>1, <2>2 DEF ProbeCall
  <2> QED
    BY <1>13, <2>2, <2>3
<1>15. ASSUME NEW a \in Actor, NEW ok \in BOOLEAN, Probe(a, ok)
       PROVE  FileInv'
  <2>1. PICK next : /\ next = [step |-> "open", source |-> call[a].source,
                               new |-> Checked(call[a].was, ok), copy |-> call[a].copy]
                    /\ Proceed(a, next) /\ UNCHANGED <<disk, meant, cut, raced>>
                    /\ call[a].step = "probe"
    BY <1>15 DEF Probe
  <2> QED
    BY <1>13, <2>1
<1>16. ASSUME NEW a \in Actor, OpenTmp(a)
       PROVE  FileInv'
  <2>1. PICK i \in (IF tmp = Unset THEN Free ELSE {tmp}) :
           /\ tmp' = i /\ file' = [file EXCEPT ![i] = Unwritten]
           /\ Proceed(a, [step |-> "write", source |-> call[a].source, new |-> call[a].new,
                          copy |-> call[a].copy, inode |-> i])
    BY <1>16 DEF OpenTmp
  <2>2. i # main
    BY <2>1 DEF Free, BindingsTypeOK
  <2>3. /\ call'[a] = [step |-> "write", source |-> call[a].source, new |-> call[a].new,
                       copy |-> call[a].copy, inode |-> i]
        /\ \A b \in Actor \ {a} : call'[b] = call[b]
    BY <2>1 DEF Proceed, BindingsTypeOK
  <2>4. UNCHANGED <<main, meant, cut, raced>> /\ call[a].step = "open" /\ file'[main] = file[main]
    BY <1>16, <2>1, <2>2 DEF OpenTmp, BindingsTypeOK
  <2>5. ~raced'.bindings => OneWriter'
    <3> SUFFICES ASSUME ~raced.bindings PROVE OneWriter'
      BY <2>4
    <3>1. OneWriter
      BY DEF FileInv
    <3>2. \A b \in Actor \ {a} : call[b].step \notin WriterStep
      BY <2>4, <3>1 DEF OneWriter, HasBindings, WriterStep
    <3>3. OwnCall(call'[a], file', main', tmp')
      <4>1. call[a].copy = file'[main'] /\ tmp' = i
        BY <2>1, <2>4, <3>1 DEF OwnCall, OneWriter
      <4>2. file'[i] = Unwritten
        BY <2>1 DEF Free, BindingsTypeOK
      <4> QED
        BY <2>3, <4>1, <4>2 DEF OwnCall
    <3>4. \A b \in Actor : OwnCall(call'[b], file', main', tmp')
      BY <2>3, <3>2, <3>3 DEF OwnCall, WriterStep
    <3>5. \A b, c \in Actor : HasBindings(b)' /\ HasBindings(c)' => b = c
      BY <2>3, <3>2 DEF HasBindings, WriterStep
    <3> QED
      BY <2>4, <3>1, <3>4, <3>5 DEF OneWriter
  <2>6. TmpExplained'
    BY <2>1, <2>3 DEF TmpExplained, BeingWritten
  <2>7. MainExplained'
    BY <2>3, <2>4 DEF FileInv, MainExplained, BeingWritten
  <2>8. GarbledByTwo'
    BY <2>1, <2>4 DEF FileInv, GarbledByTwo, BindingsTypeOK, Spoilt
  <2> QED
    BY <2>4, <2>5, <2>6, <2>7, <2>8 DEF FileInv
<1>17. ASSUME NEW a \in Actor, WriteTmp(a)
       PROVE  FileInv'
  <2>1. call[a] \in InsideCall /\ call[a].step = "write"
    BY <1>2, <1>17, SecretCallParts DEF WriteTmp
  <2>2. PICK next : next = [call[a] EXCEPT !.step = "replace"]
    OBVIOUS
  <2>3. /\ next.step = "replace" /\ next.inode = call[a].inode
        /\ next.source = call[a].source /\ next.new = call[a].new /\ next.copy = call[a].copy
    BY <2>1, <2>2 DEF InsideCall
  <2>4. /\ call'[a] = next /\ \A b \in Actor \ {a} : call'[b] = call[b]
        /\ UNCHANGED <<main, tmp, meant, cut, raced>>
    BY <1>17, <2>2 DEF WriteTmp, Proceed, BindingsTypeOK
  <2>5. PICK w : w = [call[a].copy EXCEPT ![call[a].source] = call[a].new]
    OBVIOUS
  <2>6. w \notin Spoilt
    <3>1. w \in Bindings
      BY <2>1, <2>5 DEF InsideCall, Bindings
    <3> QED
      BY <3>1
  <2>7. /\ file'[call[a].inode] \in {w, Garbled}
        /\ file[call[a].inode] = Unwritten => file'[call[a].inode] = w
        /\ \A i \in Inode : i # call[a].inode => file'[i] = file[i]
    BY <1>17, <2>1, <2>5, WriteLeaves DEF InsideCall, BindingsTypeOK
  <2>8. ~raced'.bindings => OneWriter'
    <3> SUFFICES ASSUME ~raced.bindings PROVE OneWriter'
      BY <2>4
    <3>1. OneWriter
      BY DEF FileInv
    <3>2. \A b \in Actor \ {a} : call[b].step \notin WriterStep
      BY <2>1, <3>1 DEF OneWriter, HasBindings, WriterStep
    <3>3. /\ call[a].inode = tmp /\ call[a].copy = file[main] /\ file'[main] = file[main]
          /\ file'[tmp] = w
      <4>1. call[a].inode = tmp /\ call[a].copy = file[main]
        BY <2>1, <3>1 DEF OneWriter, OwnCall
      <4>2. main \in Inode /\ main # tmp
        BY DEF BindingsTypeOK
      <4>3. file[tmp] = Unwritten
        BY <2>1, <3>1 DEF OneWriter, OwnCall
      <4> QED
        BY <2>7, <4>1, <4>2, <4>3
    <3>4. OwnCall(call'[a], file', main', tmp')
      BY <2>3, <2>4, <2>5, <2>7, <3>3 DEF OwnCall
    <3>5. \A b \in Actor : OwnCall(call'[b], file', main', tmp')
      BY <2>4, <3>2, <3>4 DEF OwnCall, WriterStep
    <3>6. \A b, c \in Actor : HasBindings(b)' /\ HasBindings(c)' => b = c
      BY <2>4, <3>2 DEF HasBindings, WriterStep
    <3> QED
      BY <2>4, <3>1, <3>3, <3>5, <3>6 DEF OneWriter
  <2>12. Unwritten # Garbled
    OBVIOUS
  <2>13. GarbledByTwo'
    <3>1. ASSUME ~raced.bindings
          PROVE  file'[call[a].inode] = w
      BY <2>1, <2>7, <3>1 DEF FileInv, OneWriter, OwnCall
    <3> QED
      BY <2>4, <2>6, <2>7, <3>1 DEF FileInv, GarbledByTwo, Spoilt
  <2>9. \A i \in Inode : file'[i] = Unwritten =>
           file[i] = Unwritten /\ (BeingWritten(i) => BeingWritten(i)')
    BY <2>1, <2>4, <2>6, <2>7, <2>12 DEF BeingWritten, Spoilt
  <2>10. TmpExplained'
    BY <2>1, <2>4, <2>9 DEF FileInv, TmpExplained, BindingsTypeOK, BeingWritten
  <2>11. MainExplained'
    BY <2>4, <2>9 DEF FileInv, MainExplained, BindingsTypeOK, BeingWritten
  <2> QED
    BY <2>4, <2>8, <2>10, <2>11, <2>13 DEF FileInv
<1>18. ASSUME NEW a \in Actor, Replace(a)
       PROVE  FileInv'
  <2>1. call[a] \in InsideCall /\ call[a].step = "replace" /\ tmp # Unset
    BY <1>2, <1>18, SecretCallParts DEF Replace
  <2>2. PICK next : next = [step |-> "project", source |-> call[a].source, new |-> call[a].new,
                            copy |-> call[a].copy]
    OBVIOUS
  <2>3. /\ call'[a] = next /\ \A b \in Actor \ {a} : call'[b] = call[b]
        /\ main' = tmp /\ tmp' = Unset /\ UNCHANGED <<file, cut, raced>>
        /\ meant' = [meant EXCEPT ![call[a].source] = call[a].new]
    BY <1>18, <2>2 DEF Replace, Proceed, BindingsTypeOK
  <2>4. ~raced'.bindings => OneWriter'
    <3> SUFFICES ASSUME ~raced.bindings PROVE OneWriter'
      BY <2>3
    <3>1. OneWriter
      BY DEF FileInv
    <3>2. \A b \in Actor \ {a} : call[b].step \notin WriterStep
      BY <2>1, <3>1 DEF OneWriter, HasBindings, WriterStep
    <3>3. /\ file[tmp] = [call[a].copy EXCEPT ![call[a].source] = call[a].new]
          /\ call[a].copy = meant
      BY <2>1, <3>1 DEF OneWriter, OwnCall
    <3>4. file'[main'] = meant'
      BY <2>3, <3>3
    <3>5. file[tmp][call[a].source] = call[a].new
      BY <2>1, <3>3 DEF InsideCall, Bindings
    <3>6. OwnCall(call'[a], file', main', tmp')
      BY <2>2, <2>3, <3>5 DEF OwnCall
    <3>7. \A b \in Actor : OwnCall(call'[b], file', main', tmp')
      BY <2>3, <3>2, <3>6 DEF OwnCall, WriterStep
    <3>8. \A b, c \in Actor : HasBindings(b)' /\ HasBindings(c)' => b = c
      BY <2>3, <3>2 DEF HasBindings, WriterStep
    <3> QED
      BY <3>4, <3>7, <3>8 DEF OneWriter
  <2>5. TmpExplained'
    BY <2>3 DEF TmpExplained
  <2>6. file[tmp] = Unwritten => BeingWritten(tmp)
    BY <2>1 DEF FileInv, TmpExplained
  <2>7. BeingWritten(tmp) => BeingWritten(main)'
    BY <2>1, <2>3 DEF BeingWritten
  <2>8. MainExplained'
    BY <2>3, <2>6, <2>7 DEF MainExplained
  <2> QED
    BY <2>3, <2>4, <2>5, <2>8 DEF FileInv, GarbledByTwo
<1>19. ASSUME NEW a \in Actor, CutShort(a)
       PROVE  FileInv'
  <2>1. /\ call'[a] = NoCall /\ \A b \in Actor \ {a} : call'[b] = call[b]
        /\ UNCHANGED <<file, main, tmp, meant, raced>>
    BY <1>19 DEF CutShort, Proceed, BindingsTypeOK, disk
  <2>2. cut'.shared <=>
           \/ cut.shared
           \/ /\ call[a].step = "write"
              /\ \/ call[a].inode = main
                 \/ \E b \in Actor \ {a} : call[b].step \in {"write", "replace"}
    BY <1>19 DEF CutShort
  <2>3. ~raced'.bindings => OneWriter'
    BY <2>1, NoCallParts DEF FileInv, OneWriter, OwnCall, HasBindings
  <2>4. cut'.shared => raced'.bindings
    <3> SUFFICES ASSUME cut'.shared, ~raced.bindings PROVE FALSE
      BY <2>1
    <3>1. OneWriter /\ ~cut.shared
      BY DEF FileInv
    <3>2. call[a].step = "write" /\ call[a].inode = tmp /\ tmp # main
      BY <2>2, <3>1 DEF OneWriter, OwnCall, BindingsTypeOK
    <3>3. PICK b \in Actor \ {a} : call[b].step \in {"write", "replace"}
      BY <2>2, <3>1, <3>2
    <3> QED
      BY <3>1, <3>2, <3>3 DEF OneWriter, HasBindings
  <2>5. TmpExplained'
    BY <2>1, <2>2, NoCallParts DEF FileInv, TmpExplained, BeingWritten
  <2>6. MainExplained'
    BY <2>1, <2>2 DEF FileInv, MainExplained, BeingWritten
  <2> QED
    BY <2>1, <2>3, <2>4, <2>5, <2>6 DEF FileInv, GarbledByTwo
<1> QED
  BY <1>1, <1>5, <1>6, <1>7, <1>8, <1>10, <1>11, <1>12, <1>14, <1>15, <1>16, <1>17, <1>18, <1>19
  DEF BindingsNext

\* The binding file survives its writers: it can be parsed unless two of them
\* overlap and share the temporary file, where one may find it empty or keep the
\* end of the other's text; and as long as they do not it holds what each
\* finished save made of it, wherever calls were cut short before
\* (SecretBindingStore.save).
THEOREM BindingFileSoundAlways == BindingsSpec => []BindingFileIsSound
<1>1. BindingsTypeOK /\ FileInv => BindingFileIsSound
  <2> SUFFICES ASSUME BindingsTypeOK, FileInv PROVE BindingFileIsSound
    OBVIOUS
  <2>1. ~raced.bindings => OneWriter
    BY DEF FileInv
  <2>2. BindingsAreKept
    BY <2>1 DEF BindingsAreKept, OneWriter
  <2>3. ASSUME ~Readable
        PROVE  ReadableOrExplained
    <3>1. BeingWritten(main) \/ (file[main] = Garbled /\ raced.bindings)
      BY <2>3 DEF FileInv, MainExplained, GarbledByTwo, Readable, Spoilt, BindingsTypeOK
    <3>2. ASSUME NEW a \in Actor, call[a].step = "write", call[a].inode = main
          PROVE  raced.bindings
      BY <2>1, <3>2 DEF OneWriter, OwnCall, BindingsTypeOK
    <3> QED
      BY <3>1, <3>2 DEF FileInv, BeingWritten, ReadableOrExplained
  <2>4. ReadableOrExplained
    BY <2>3 DEF ReadableOrExplained
  <2> QED
    BY <2>2, <2>4 DEF BindingFileIsSound
<1> QED
  BY <1>1, BindingsTypeInit, BindingsTypeStep, FileInit, FileStep, PTL DEF BindingsSpec

-----------------------------------------------------------------------------
(***************************************************************************)
(* The two files of the catalog.  A call that is alone with them holds     *)
(* what they say, and between its writes it knows what the second is to    *)
(* make of them.                                                           *)
(***************************************************************************)
CatalogOfCall(c, man, val) ==
    /\ c.step \in {"values", "manifest"} => c.m = man
    /\ c.step = "manifest" => c.v = val
    /\ c.step = "writeValues" /\ ~cut.values => man = [c.v EXCEPT ![c.handle] = c.upload]

OneCataloguer ==
    /\ \A a, b \in Actor : HasCatalog(a) /\ HasCatalog(b) => a = b
    /\ \A a \in Actor : CatalogOfCall(call[a], manifest, values)
    /\ (~cut.values /\ \A a \in Actor : call[a].step # "writeValues") => values = manifest

CatalogInv == ~raced.catalog => OneCataloguer

LEMMA CatalogInit == BindingsInit => CatalogInv
BY NoCallParts DEF BindingsInit, CatalogInv, OneCataloguer, HasCatalog, CatalogOfCall

\* A call that holds no catalog goes on.
LEMMA CatalogKept ==
    ASSUME BindingsTypeOK, CatalogInv, NEW a \in Actor, NEW next, Proceed(a, next),
           UNCHANGED <<manifest, values>>, raced'.catalog = raced.catalog,
           cut.values => cut'.values, call[a].step = "writeValues" => cut'.values,
           next.step \notin CatalogStep
    PROVE  CatalogInv'
<1>1. call'[a] = next /\ \A b \in Actor \ {a} : call'[b] = call[b]
  BY DEF Proceed, BindingsTypeOK
<1> QED
  BY <1>1 DEF CatalogInv, OneCataloguer, HasCatalog, CatalogOfCall, CatalogStep

LEMMA CatalogInvStep == BindingsTypeOK /\ CatalogInv /\ [BindingsNext]_bindingsVars => CatalogInv'
<1> SUFFICES ASSUME BindingsTypeOK, CatalogInv, [BindingsNext]_bindingsVars PROVE CatalogInv'
  OBVIOUS
<1>1. CASE UNCHANGED bindingsVars
  BY <1>1 DEF bindingsVars, disk, CatalogInv, OneCataloguer, HasCatalog, CatalogOfCall
<1>2. ASSUME NEW a \in Actor
      PROVE  /\ call[a] \in SecretCall
             /\ \A next : Proceed(a, next) =>
                   call'[a] = next /\ \A b \in Actor \ {a} : call'[b] = call[b]
  BY <1>2 DEF Proceed, BindingsTypeOK
<1>3. raced \in [bindings : BOOLEAN, catalog : BOOLEAN]
  BY DEF BindingsTypeOK
<1>4. ASSUME NEW a \in Actor, NEW h \in Handle, NEW u, BeginCatalog(a, h, u)
      PROVE  CatalogInv'
  <2>1. PICK next : /\ next = [step |-> "values", handle |-> h, upload |-> u,
                               m |-> manifest, v |-> manifest]
                    /\ Proceed(a, next) /\ UNCHANGED <<manifest, values, cut>> /\ call[a] = NoCall
    BY <1>4 DEF BeginCatalog, disk
  <2>2. raced'.catalog = (raced.catalog \/ \E b \in Actor \ {a} : HasCatalog(b))
    BY <1>3, <1>4 DEF BeginCatalog
  <2>3. call'[a] = next /\ \A b \in Actor \ {a} : call'[b] = call[b]
    BY <1>2, <2>1
  <2>4. next.step = "values" /\ next.m = manifest /\ call[a].step = "idle"
    BY <2>1, NoCallParts
  <2>5. ASSUME ~raced'.catalog
        PROVE  OneCataloguer'
    <3>1. OneCataloguer /\ \A b \in Actor \ {a} : call[b].step \notin CatalogStep
      BY <2>2, <2>5 DEF CatalogInv, HasCatalog, CatalogStep
    <3> QED
      BY <2>1, <2>3, <2>4, <3>1 DEF OneCataloguer, HasCatalog, CatalogOfCall, CatalogStep
  <2> QED
    BY <2>5 DEF CatalogInv
<1>5. ASSUME NEW a \in Actor, NEW h \in Handle, AddSecret(a, h) \/ RemoveSecret(a, h)
      PROVE  CatalogInv'
  BY <1>4, <1>5 DEF AddSecret, RemoveSecret
<1>6. ASSUME NEW a \in Actor, LoadValues(a)
      PROVE  CatalogInv'
  <2>1. call[a] \in CatalogCall
    BY <1>2, <1>6, SecretCallParts DEF LoadValues, CatalogStep
  <2>2. PICK next : /\ next = [call[a] EXCEPT !.step = "manifest", !.v = values]
                    /\ Proceed(a, next) /\ UNCHANGED <<manifest, values, cut, raced>>
                    /\ call[a].step = "values"
    BY <1>6 DEF LoadValues, disk
  <2>3. next.step = "manifest" /\ next.m = call[a].m /\ next.v = values
    BY <2>1, <2>2 DEF CatalogCall
  <2>4. call'[a] = next /\ \A b \in Actor \ {a} : call'[b] = call[b]
    BY <1>2, <2>2
  <2>5. ASSUME ~raced.catalog
        PROVE  OneCataloguer'
    <3>1. OneCataloguer /\ \A b \in Actor \ {a} : call[b].step \notin CatalogStep
      BY <2>2, <2>5 DEF CatalogInv, OneCataloguer, HasCatalog, CatalogStep
    <3>2. call[a].m = manifest
      BY <2>2, <3>1 DEF OneCataloguer, CatalogOfCall
    <3>3. CatalogOfCall(next, manifest, values)'
      BY <2>2, <2>3, <3>2 DEF CatalogOfCall
    <3>4. \A b \in Actor \ {a} : call'[b].step \notin CatalogStep
      BY <2>4, <3>1
    <3>5. \A b \in Actor : CatalogOfCall(call[b], manifest, values)'
      BY <2>4, <3>3, <3>4 DEF CatalogOfCall, CatalogStep
    <3>6. call[a].step # "writeValues" /\ \A b \in Actor \ {a} : call[b].step # "writeValues"
      BY <2>2, <3>1 DEF CatalogStep
    <3>7. ~cut.values' => values' = manifest'
      BY <2>2, <3>1, <3>6 DEF OneCataloguer
    <3> QED
      BY <3>4, <3>5, <3>7 DEF OneCataloguer, HasCatalog, CatalogStep
  <2> QED
    BY <2>2, <2>5 DEF CatalogInv
<1>7. ASSUME NEW a \in Actor, SaveManifest(a)
      PROVE  CatalogInv'
  <2>1. call[a] \in CatalogCall /\ call[a].step = "manifest"
    BY <1>2, <1>7, SecretCallParts DEF SaveManifest, CatalogStep
  <2>2. PICK next : /\ next = [call[a] EXCEPT !.step = "writeValues"] /\ Proceed(a, next)
    BY <1>7 DEF SaveManifest
  <2>3. /\ next.step = "writeValues" /\ next.v = call[a].v
        /\ next.handle = call[a].handle /\ next.upload = call[a].upload
    BY <2>1, <2>2 DEF CatalogCall
  <2>4. call'[a] = next /\ \A b \in Actor \ {a} : call'[b] = call[b]
    BY <1>2, <2>2
  <2>5. /\ manifest' = [call[a].m EXCEPT ![call[a].handle] = call[a].upload]
        /\ UNCHANGED <<values, cut, raced>>
    BY <1>7 DEF SaveManifest
  <2>6. ASSUME ~raced.catalog
        PROVE  OneCataloguer'
    <3>1. OneCataloguer /\ \A b \in Actor \ {a} : call[b].step \notin CatalogStep
      BY <2>1, <2>6 DEF CatalogInv, OneCataloguer, HasCatalog, CatalogStep
    <3>2. ~cut.values => call[a].m = call[a].v
      BY <2>1, <3>1 DEF OneCataloguer, CatalogOfCall, CatalogStep
    <3> QED
      BY <2>3, <2>4, <2>5, <3>1, <3>2 DEF OneCataloguer, HasCatalog, CatalogOfCall, CatalogStep
  <2> QED
    BY <2>5, <2>6 DEF CatalogInv
<1>8. ASSUME NEW a \in Actor, SaveValues(a)
      PROVE  CatalogInv'
  <2>1. /\ call[a].step = "writeValues" /\ Proceed(a, NoCall) /\ UNCHANGED <<manifest, cut, raced>>
        /\ values' = [call[a].v EXCEPT ![call[a].handle] = call[a].upload]
    BY <1>8 DEF SaveValues
  <2>2. call'[a] = NoCall /\ \A b \in Actor \ {a} : call'[b] = call[b]
    BY <1>2, <2>1
  <2>3. ASSUME ~raced.catalog
        PROVE  OneCataloguer'
    <3>1. OneCataloguer /\ \A b \in Actor \ {a} : call[b].step \notin CatalogStep
      BY <2>1, <2>3 DEF CatalogInv, OneCataloguer, HasCatalog, CatalogStep
    <3> QED
      BY <2>1, <2>2, <3>1, NoCallParts DEF OneCataloguer, HasCatalog, CatalogOfCall, CatalogStep
  <2> QED
    BY <2>1, <2>3 DEF CatalogInv
<1>9. ASSUME NEW a \in Actor, RejectSecret(a) \/ CallFails(a) \/ ReplaceFails(a) \/ Project(a)
      PROVE  CatalogInv'
  <2>1. Proceed(a, NoCall) /\ UNCHANGED <<manifest, values, cut, raced>> /\ call[a].step # "writeValues"
    BY <1>9 DEF RejectSecret, CallFails, ReplaceFails, Project, disk
  <2> QED
    BY <2>1, NoCallParts, CatalogKept DEF CatalogStep
<1>10. ASSUME NEW a \in Actor, CutShort(a)
       PROVE  CatalogInv'
  <2>1. Proceed(a, NoCall) /\ UNCHANGED <<manifest, values, raced>>
    BY <1>10 DEF CutShort, disk
  <2>2. cut'.values <=> cut.values \/ call[a].step = "writeValues"
    BY <1>10 DEF CutShort
  <2> QED
    BY <2>1, <2>2, NoCallParts, CatalogKept DEF CatalogStep
<1>11. ASSUME NEW a \in Actor, MixBindings(a)
       PROVE  raced'.catalog = raced.catalog
  BY <1>3, <1>11 DEF MixBindings
<1>12. ASSUME NEW a \in Actor, NEW next, Proceed(a, next), UNCHANGED <<manifest, values, cut>>,
              next.step \notin CatalogStep, call[a].step # "writeValues",
              MixBindings(a) \/ UNCHANGED raced
       PROVE  CatalogInv'
  BY <1>11, <1>12, CatalogKept
<1>13. ASSUME NEW a \in Actor, NEW s \in Source, BeginUnbind(a, s) \/ BeginValidate(a, s)
       PROVE  CatalogInv'
  <2>1. PICK next : /\ next.step \in {"open", "entry"} /\ Proceed(a, next)
                    /\ UNCHANGED <<manifest, values, cut>> /\ call[a] = NoCall /\ MixBindings(a)
    BY <1>13 DEF BeginUnbind, BeginValidate, disk
  <2> QED
    BY <1>12, <2>1, NoCallParts DEF CatalogStep
<1>14. ASSUME NEW a \in Actor, NEW s \in Source, NEW h \in Handle, BeginBind(a, s, h)
       PROVE  CatalogInv'
  <2>1. PICK next : /\ next.step = "records" /\ Proceed(a, next)
                    /\ UNCHANGED <<manifest, values, cut, raced>> /\ call[a] = NoCall
    BY <1>14 DEF BeginBind, disk
  <2> QED
    BY <1>12, <2>1, NoCallParts DEF CatalogStep
<1>15. ASSUME NEW a \in Actor, LoadForBind(a)
       PROVE  CatalogInv'
  <2>1. PICK next : /\ next.step = "open" /\ Proceed(a, next) /\ MixBindings(a)
                    /\ UNCHANGED <<manifest, values, cut>> /\ call[a].step = "records"
    BY <1>15 DEF LoadForBind, disk
  <2> QED
    BY <1>12, <2>1 DEF CatalogStep
<1>16. ASSUME NEW a \in Actor, LookUp(a)
       PROVE  CatalogInv'
  <2>1. call[a] \in ProbeCall /\ call[a].step = "entry"
    BY <1>2, <1>16, SecretCallParts DEF LookUp
  <2>2. PICK next : /\ next = [call[a] EXCEPT !.step = "probe"] /\ Proceed(a, next)
                    /\ UNCHANGED <<manifest, values, cut, raced>>
    BY <1>16 DEF LookUp, disk
  <2>3. next.step = "probe"
    BY <2>1, <2>2 DEF ProbeCall
  <2> QED
    BY <1>12, <2>1, <2>2, <2>3 DEF CatalogStep
<1>17. ASSUME NEW a \in Actor, NEW ok \in BOOLEAN, Probe(a, ok)
       PROVE  CatalogInv'
  <2>1. PICK next : /\ next.step = "open" /\ Proceed(a, next) /\ call[a].step = "probe"
                    /\ UNCHANGED <<manifest, values, cut, raced>>
    BY <1>17 DEF Probe, disk
  <2> QED
    BY <1>12, <2>1 DEF CatalogStep
<1>18. ASSUME NEW a \in Actor, OpenTmp(a)
       PROVE  CatalogInv'
  <2>1. PICK next : /\ next.step = "write" /\ Proceed(a, next) /\ call[a].step = "open"
                    /\ UNCHANGED <<manifest, values, cut, raced>>
    BY <1>18 DEF OpenTmp
  <2> QED
    BY <1>12, <2>1 DEF CatalogStep
<1>19. ASSUME NEW a \in Actor, WriteTmp(a)
       PROVE  CatalogInv'
  <2>1. call[a] \in InsideCall /\ call[a].step = "write"
    BY <1>2, <1>19, SecretCallParts DEF WriteTmp
  <2>2. PICK next : /\ next = [call[a] EXCEPT !.step = "replace"] /\ Proceed(a, next)
                    /\ UNCHANGED <<manifest, values, cut, raced>>
    BY <1>19 DEF WriteTmp
  <2>3. next.step = "replace"
    BY <2>1, <2>2 DEF InsideCall
  <2> QED
    BY <1>12, <2>1, <2>2, <2>3 DEF CatalogStep
<1>20. ASSUME NEW a \in Actor, Replace(a)
       PROVE  CatalogInv'
  <2>1. PICK next : /\ next.step = "project" /\ Proceed(a, next) /\ call[a].step = "replace"
                    /\ UNCHANGED <<manifest, values, cut, raced>>
    BY <1>20 DEF Replace
  <2> QED
    BY <1>12, <2>1 DEF CatalogStep
<1> QED
  BY <1>1, <1>5, <1>6, <1>7, <1>8, <1>9, <1>10, <1>13, <1>14, <1>15, <1>16, <1>17, <1>18, <1>19,
     <1>20 DEF BindingsNext

-----------------------------------------------------------------------------
(***************************************************************************)
(* The copy on the nodes.  A source whose save is not waiting to be        *)
(* projected shows its binding.                                            *)
(***************************************************************************)
Agrees(n, r) ==
    /\ (n = Unset) <=> (r = Unset)
    /\ r # Unset => /\ n.handle = r.handle
                    /\ n.status = r.status
                    /\ r.checked => n.checked

Projecting(s) == \E a \in Actor : call[a].step = "project" /\ call[a].source = s

NodeInv ==
    (~raced.bindings /\ ~cut.projection) =>
        \A s \in Source : ~Projecting(s) => Agrees(node[s], file[main][s])

LEMMA NodeInit == BindingsInit => NodeInv
BY DEF BindingsInit, NodeInv, Agrees, Unbound

\* A step that neither renames a file nor projects a binding.
LEMMA NodeKept ==
    ASSUME BindingsTypeOK, NodeInv, NEW a \in Actor, NEW next, Proceed(a, next), UNCHANGED node,
           raced.bindings => raced'.bindings, cut.projection => cut'.projection,
           ~raced.bindings => file'[main'] = file[main],
           call[a].step = "project" => cut'.projection, next.step # "project"
    PROVE  NodeInv'
<1>1. call'[a] = next /\ \A b \in Actor \ {a} : call'[b] = call[b]
  BY DEF Proceed, BindingsTypeOK
<1> SUFFICES ASSUME ~raced'.bindings, ~cut'.projection, NEW s \in Source, ~Projecting(s)'
             PROVE  Agrees(node[s], file'[main'][s])
  BY DEF NodeInv, Agrees
<1>2. ~Projecting(s)
  BY <1>1 DEF Projecting
<1> QED
  BY <1>2 DEF NodeInv

LEMMA NodeStep ==
    BindingsTypeOK /\ FileInv /\ NodeInv /\ [BindingsNext]_bindingsVars => NodeInv'
<1> SUFFICES ASSUME BindingsTypeOK, FileInv, NodeInv, [BindingsNext]_bindingsVars PROVE NodeInv'
  OBVIOUS
<1>1. CASE UNCHANGED bindingsVars
  BY <1>1 DEF bindingsVars, disk, NodeInv, Projecting, Agrees
<1>2. ASSUME NEW a \in Actor
      PROVE  call[a] \in SecretCall
  BY <1>2 DEF BindingsTypeOK
<1>3. raced \in [bindings : BOOLEAN, catalog : BOOLEAN]
  BY DEF BindingsTypeOK
\* Steps that touch no file of the bindings.
<1>4. ASSUME NEW a \in Actor, NEW next, Proceed(a, next), UNCHANGED <<file, main, node, cut>>,
             next.step # "project", call[a].step # "project",
             MixBindings(a) \/ raced'.bindings = raced.bindings
      PROVE  NodeInv'
  <2>1. raced.bindings => raced'.bindings
    BY <1>3, <1>4 DEF MixBindings
  <2> QED
    BY <1>4, <2>1, NodeKept
<1>5. ASSUME NEW a \in Actor, NEW h \in Handle, AddSecret(a, h) \/ RemoveSecret(a, h)
      PROVE  NodeInv'
  <2>1. PICK next : /\ next.step = "values" /\ Proceed(a, next) /\ call[a] = NoCall
                    /\ UNCHANGED <<disk, node, cut>>
    BY <1>5 DEF AddSecret, RemoveSecret, BeginCatalog
  <2>2. raced'.bindings = raced.bindings
    BY <1>3, <1>5 DEF AddSecret, RemoveSecret, BeginCatalog
  <2> QED
    BY <1>4, <2>1, <2>2, NoCallParts DEF disk
<1>6. ASSUME NEW a \in Actor, LoadValues(a) \/ SaveManifest(a)
      PROVE  NodeInv'
  <2>1. call[a] \in CatalogCall
    BY <1>2, <1>6, SecretCallParts DEF LoadValues, SaveManifest, CatalogStep
  <2>2. PICK next : /\ Proceed(a, next) /\ UNCHANGED <<file, main, node, cut, raced>>
                    /\ \/ next = [call[a] EXCEPT !.step = "manifest", !.v = values]
                       \/ next = [call[a] EXCEPT !.step = "writeValues"]
    BY <1>6 DEF LoadValues, SaveManifest, disk
  <2>3. next.step # "project" /\ call[a].step # "project"
    BY <2>1, <2>2 DEF CatalogCall, CatalogStep
  <2> QED
    BY <2>2, <2>3, <1>4
<1>7. ASSUME NEW a \in Actor, RejectSecret(a) \/ SaveValues(a) \/ CallFails(a) \/ ReplaceFails(a)
      PROVE  NodeInv'
  <2>1. /\ Proceed(a, NoCall) /\ UNCHANGED <<file, main, node, cut, raced>>
        /\ call[a].step # "project"
    BY <1>7 DEF RejectSecret, SaveValues, CallFails, ReplaceFails, disk
  <2> QED
    BY <1>4, <2>1, NoCallParts
<1>8. ASSUME NEW a \in Actor, NEW s \in Source, NEW h \in Handle, BeginBind(a, s, h)
      PROVE  NodeInv'
  <2>1. PICK next : /\ next.step = "records" /\ Proceed(a, next) /\ call[a] = NoCall
                    /\ UNCHANGED <<disk, node, cut, raced>>
    BY <1>8 DEF BeginBind
  <2> QED
    BY <1>4, <2>1, NoCallParts DEF disk
<1>9. ASSUME NEW a \in Actor, NEW s \in Source, BeginUnbind(a, s) \/ BeginValidate(a, s)
      PROVE  NodeInv'
  <2>1. PICK next : /\ next.step \in {"open", "entry"} /\ Proceed(a, next) /\ call[a] = NoCall
                    /\ UNCHANGED <<disk, node, cut>> /\ MixBindings(a)
    BY <1>9 DEF BeginUnbind, BeginValidate
  <2> QED
    BY <1>4, <2>1, NoCallParts DEF disk
<1>10. ASSUME NEW a \in Actor, LoadForBind(a)
       PROVE  NodeInv'
  <2>1. PICK next : /\ next.step = "open" /\ Proceed(a, next) /\ call[a].step = "records"
                    /\ UNCHANGED <<disk, node, cut>> /\ MixBindings(a)
    BY <1>10 DEF LoadForBind
  <2> QED
    BY <1>4, <2>1 DEF disk
<1>11. ASSUME NEW a \in Actor, LookUp(a)
       PROVE  NodeInv'
  <2>1. call[a] \in ProbeCall /\ call[a].step = "entry"
    BY <1>2, <1>11, SecretCallParts DEF LookUp
  <2>2. PICK next : /\ next = [call[a] EXCEPT !.step = "probe"] /\ Proceed(a, next)
                    /\ UNCHANGED <<disk, node, cut, raced>>
    BY <1>11 DEF LookUp
  <2>3. next.step = "probe"
    BY <2>1, <2>2 DEF ProbeCall
  <2> QED
    BY <1>4, <2>1, <2>2, <2>3 DEF disk
<1>12. ASSUME NEW a \in Actor, NEW ok \in BOOLEAN, Probe(a, ok)
       PROVE  NodeInv'
  <2>1. PICK next : /\ next.step = "open" /\ Proceed(a, next) /\ call[a].step = "probe"
                    /\ UNCHANGED <<disk, node, cut, raced>>
    BY <1>12 DEF Probe
  <2> QED
    BY <1>4, <2>1 DEF disk
\* Steps that write the temporary file.
<1>13. ASSUME NEW a \in Actor, OpenTmp(a)
       PROVE  NodeInv'
  <2>1. PICK i, next :
           /\ i \in (IF tmp = Unset THEN Free ELSE {tmp})
           /\ file' = [file EXCEPT ![i] = Unwritten] /\ next.step = "write" /\ Proceed(a, next)
    BY <1>13 DEF OpenTmp
  <2>2. i # main
    BY <2>1 DEF Free, BindingsTypeOK
  <2>3. UNCHANGED <<main, node, cut, raced>> /\ call[a].step = "open" /\ file'[main'] = file[main]
    BY <1>13, <2>1, <2>2 DEF OpenTmp, BindingsTypeOK
  <2> QED
    BY <2>1, <2>3, NodeKept
<1>14. ASSUME NEW a \in Actor, WriteTmp(a)
       PROVE  NodeInv'
  <2>1. call[a] \in InsideCall /\ call[a].step = "write"
    BY <1>2, <1>14, SecretCallParts DEF WriteTmp
  <2>2. PICK next, w : /\ next = [call[a] EXCEPT !.step = "replace"] /\ Proceed(a, next)
                       /\ file' = [file EXCEPT ![call[a].inode] = w]
                       /\ UNCHANGED <<main, node, cut, raced>>
    BY <1>14 DEF WriteTmp
  <2>3. next.step = "replace"
    BY <2>1, <2>2 DEF InsideCall
  <2>4. ASSUME ~raced.bindings
        PROVE  file'[main'] = file[main]
    <3>1. call[a].inode = tmp /\ main # tmp /\ main \in Inode
      BY <2>1, <2>4 DEF FileInv, OneWriter, OwnCall, BindingsTypeOK
    <3> QED
      BY <2>2, <3>1 DEF BindingsTypeOK
  <2> QED
    BY <2>1, <2>2, <2>3, <2>4, NodeKept
\* The rename changes the binding of the source that is now projected.
<1>15. ASSUME NEW a \in Actor, Replace(a)
       PROVE  NodeInv'
  <2>1. call[a] \in InsideCall /\ call[a].step = "replace" /\ tmp # Unset
    BY <1>2, <1>15, SecretCallParts DEF Replace
  <2>2. PICK next : next = [step |-> "project", source |-> call[a].source, new |-> call[a].new,
                            copy |-> call[a].copy]
    OBVIOUS
  <2>3. /\ call'[a] = next /\ \A b \in Actor \ {a} : call'[b] = call[b]
        /\ main' = tmp /\ UNCHANGED <<file, node, cut, raced>>
    BY <1>15, <2>2 DEF Replace, Proceed, BindingsTypeOK
  <2> SUFFICES ASSUME ~raced.bindings, ~cut.projection, NEW s \in Source, ~Projecting(s)'
               PROVE  Agrees(node[s], file[tmp][s])
    BY <2>3 DEF NodeInv, Agrees
  <2>4. s # call[a].source /\ ~Projecting(s)
    BY <2>1, <2>2, <2>3 DEF Projecting
  <2>5. /\ file[tmp] = [call[a].copy EXCEPT ![call[a].source] = call[a].new]
        /\ call[a].copy = file[main]
    BY <2>1 DEF FileInv, OneWriter, OwnCall
  <2>6. file[tmp][s] = file[main][s]
    BY <2>1, <2>4, <2>5 DEF InsideCall, Bindings
  <2> QED
    BY <2>4, <2>6 DEF NodeInv
<1>16. ASSUME NEW a \in Actor, Project(a)
       PROVE  NodeInv'
  <2>1. call[a] \in OutsideCall /\ call[a].step = "project"
    BY <1>2, <1>16, SecretCallParts DEF Project
  <2>2. PICK s \in Source, new \in Record \union {Unset} : s = call[a].source /\ new = call[a].new
    BY <2>1 DEF OutsideCall
  <2>3. /\ call'[a] = NoCall /\ \A b \in Actor \ {a} : call'[b] = call[b]
        /\ UNCHANGED <<file, main, cut, raced>>
    BY <1>16 DEF Project, Proceed, BindingsTypeOK, disk
  <2>4. node' = [node EXCEPT ![s] = Merged(node[s], new)]
    BY <1>16, <2>2 DEF Project
  <2>5. node'[s] = Merged(node[s], new) /\ \A r \in Source \ {s} : node'[r] = node[r]
    BY <2>4 DEF BindingsTypeOK, Bindings
  <2> SUFFICES ASSUME ~raced.bindings, ~cut.projection, NEW r \in Source, ~Projecting(r)'
               PROVE  Agrees(node'[r], file[main][r])
    BY <2>3 DEF NodeInv, Agrees
  <2>6. CASE r = s
    <3>1. node[s] \in Record \union {Unset}
      BY DEF BindingsTypeOK, Bindings
    <3>2. new = file[main][s]
      BY <2>1, <2>2 DEF FileInv, OneWriter, OwnCall
    <3>3. Agrees(Merged(node[s], new), new)
      BY <3>1, MergedParts, Zenon DEF Agrees
    <3> QED
      BY <2>5, <2>6, <3>2, <3>3
  <2>7. CASE r # s
    <3>1. ~Projecting(r)
      BY <2>2, <2>3, <2>7 DEF Projecting
    <3> QED
      BY <2>5, <2>7, <3>1 DEF NodeInv
  <2> QED
    BY <2>6, <2>7
<1>17. ASSUME NEW a \in Actor, CutShort(a)
       PROVE  NodeInv'
  <2>1. Proceed(a, NoCall) /\ UNCHANGED <<file, main, node, raced>>
    BY <1>17 DEF CutShort, disk
  <2>2. cut'.projection <=> cut.projection \/ call[a].step = "project"
    BY <1>17 DEF CutShort
  <2> QED
    BY <2>1, <2>2, NoCallParts, NodeKept
<1> QED
  BY <1>1, <1>5, <1>6, <1>7, <1>8, <1>9, <1>10, <1>11, <1>12, <1>13, <1>14, <1>15, <1>16, <1>17
  DEF BindingsNext

\* What two files say of one thing agrees: a handle has the value uploaded
\* with its entry, and a node shows its binding, once no call is under way,
\* unless calls overlapped or one was cut short between the two writes
\* (save_manifest/save_values, save and the projection in routes.py).
THEOREM CopiesAgreeAlways == BindingsSpec => []CopiesAgree
<1>1. CatalogInv => ValueBesideHandle
  BY DEF CatalogInv, OneCataloguer, ValueBesideHandle
<1>2. NodeInv => NodesShowBindings
  <2> SUFFICES ASSUME NodeInv, ~raced.bindings, ~cut.projection, \A a \in Actor : ~HasBindings(a),
                      NEW s \in Source
               PROVE  Agrees(node[s], file[main][s])
    BY DEF NodesShowBindings, Agrees
  <2>1. ~Projecting(s)
    BY DEF Projecting, HasBindings
  <2> QED
    BY <2>1 DEF NodeInv
<1>3. CatalogInv /\ NodeInv => CopiesAgree
  BY <1>1, <1>2 DEF CopiesAgree
<1> QED
  BY <1>3, BindingsTypeInit, BindingsTypeStep, FileInit, FileStep, CatalogInit, CatalogInvStep,
     NodeInit, NodeStep, PTL DEF BindingsSpec

HIDE ContentAssumption
HIDE BindingAssumption

-----------------------------------------------------------------------------
(***************************************************************************)
(* 3. EditSession, for any number of nodes, versions and saves: types,     *)
(* that typed text stays until an answer disarms it, and that no save      *)
(* undoes a text of an agent's that the page had taken in.                 *)
(***************************************************************************)
USE EditAssumption

-----------------------------------------------------------------------------
(***************************************************************************)
(* Partial functions on nodes, and what detaching does to requests.        *)
(***************************************************************************)
SaveRequest ==
    [id : 1 .. MaxSaves, from : Editor, node : Node, row : Content, seen : Content,
     step : {"sent", "done"}, ok : BOOLEAN, attached : BOOLEAN]
Shown == [node : Node, text : Version, seen : Content]

LEMMA PartlyParts ==
    ASSUME NEW S, NEW f
    PROVE  f \in Partly(S) <=> DOMAIN f \subseteq Node /\ f \in [DOMAIN f -> S]
BY DEF Partly

LEMMA WithParts ==
    ASSUME NEW S, NEW f \in Partly(S), NEW n \in Node, NEW x \in S
    PROVE  /\ With(f, n, x) \in Partly(S)
           /\ DOMAIN With(f, n, x) = DOMAIN f \union {n}
           /\ With(f, n, x)[n] = x
           /\ \A m \in DOMAIN f \ {n} : With(f, n, x)[m] = f[m]
<1>1. DOMAIN f \subseteq Node /\ f \in [DOMAIN f -> S]
  BY PartlyParts
<1>2. With(f, n, x) \in [DOMAIN f \union {n} -> S]
  BY <1>1 DEF With
<1>3. DOMAIN With(f, n, x) = DOMAIN f \union {n}
  BY DEF With
<1>4. With(f, n, x) \in Partly(S)
  BY <1>1, <1>2, <1>3, PartlyParts
<1> QED
  BY <1>3, <1>4 DEF With

\* A request after the entry of node n was replaced.
After(r, n) == [r EXCEPT !.attached = @ /\ r.node # n]

LEMMA AfterParts ==
    ASSUME NEW r \in SaveRequest, NEW n
    PROVE  /\ After(r, n) \in SaveRequest
           /\ \A f \in {"id", "from", "node", "row", "seen", "step", "ok"} :
                 After(r, n)[f] = r[f]
           /\ After(r, n).attached => r.attached /\ r.node # n
<1>1. PICK b \in BOOLEAN : b = (r.attached /\ r.node # n)
  BY Zenon
<1>2. After(r, n) = [r EXCEPT !.attached = b]
  BY <1>1, Zenon DEF After
<1>3. After(r, n) \in SaveRequest /\ After(r, n).attached = b
  BY <1>2 DEF SaveRequest
<1>4. \A f \in {"id", "from", "node", "row", "seen", "step", "ok"} : After(r, n)[f] = r[f]
  BY <1>2 DEF SaveRequest
<1> QED
  BY <1>1, <1>3, <1>4

LEMMA DetachParts ==
    ASSUME requests \in SUBSET SaveRequest, NEW n, Detach(n)
    PROVE  /\ requests' \in SUBSET SaveRequest
           /\ \A q \in requests' : \E r \in requests :
                 /\ q.from = r.from /\ q.node = r.node /\ q.row = r.row /\ q.seen = r.seen
                 /\ q.step = r.step /\ q.ok = r.ok
                 /\ q.attached => r.attached /\ r.node # n
<1>1. requests' = {After(r, n) : r \in requests}
  BY DEF Detach, After
<1>2. requests' \in SUBSET SaveRequest
  BY <1>1, AfterParts
<1> SUFFICES ASSUME NEW q \in requests'
             PROVE  \E r \in requests :
                 /\ q.from = r.from /\ q.node = r.node /\ q.row = r.row /\ q.seen = r.seen
                 /\ q.step = r.step /\ q.ok = r.ok
                 /\ q.attached => r.attached /\ r.node # n
  BY <1>2
<1>3. PICK r \in requests : q = After(r, n)
  BY <1>1
<1>4. /\ \A f \in {"id", "from", "node", "row", "seen", "step", "ok"} : q[f] = r[f]
      /\ q.attached => r.attached /\ r.node # n
  BY <1>3, AfterParts
<1> QED
  BY <1>4

LEMMA WithEntry ==
    ASSUME entry \in Partly(Version), NEW n \in Node, NEW t \in Version
    PROVE  /\ With(entry, n, t) \in Partly(Version)
           /\ DOMAIN With(entry, n, t) = DOMAIN entry \union {n}
           /\ With(entry, n, t)[n] = t
           /\ \A m \in DOMAIN entry \ {n} : With(entry, n, t)[m] = entry[m]
<1>1. PICK S : S = Version
  OBVIOUS
<1>2. entry \in Partly(S) /\ t \in S
  BY <1>1
<1>3. With(entry, n, t) \in Partly(S)
  BY <1>2, WithParts
<1>4. /\ DOMAIN With(entry, n, t) = DOMAIN entry \union {n}
      /\ With(entry, n, t)[n] = t
      /\ \A m \in DOMAIN entry \ {n} : With(entry, n, t)[m] = entry[m]
  BY DEF With
<1> QED
  BY <1>1, <1>3, <1>4

LEMMA MembershipIsBoolean == ASSUME NEW x, NEW S PROVE \E b \in BOOLEAN : b = (x \in S)
<1>1. (x \in S) \in BOOLEAN
  OBVIOUS
<1> QED
  BY <1>1, Zenon

\* A request that was answered, S being the nodes there are.
Handled(r, S) == [r EXCEPT !.step = "done", !.ok = r.node \in S, !.seen = Original]

LEMMA HandledParts ==
    ASSUME NEW r \in SaveRequest, NEW S, Original \in Content
    PROVE  /\ Handled(r, S) \in SaveRequest
           /\ \A f \in {"id", "from", "node", "row", "attached"} : Handled(r, S)[f] = r[f]
           /\ Handled(r, S).step = "done"
           /\ Handled(r, S).ok => r.node \in S
<1>1. PICK n : n = r.node
  OBVIOUS
<1>2. PICK b \in BOOLEAN : b = (n \in S)
  BY MembershipIsBoolean
<1>3. Handled(r, S) = [r EXCEPT !.step = "done", !.ok = b, !.seen = Original]
  BY <1>1, <1>2 DEF Handled
<1>4. Handled(r, S) \in SaveRequest /\ Handled(r, S).step = "done" /\ Handled(r, S).ok = b
  BY <1>3 DEF SaveRequest
<1>5. \A f \in {"id", "from", "node", "row", "attached"} : Handled(r, S)[f] = r[f]
  BY <1>3 DEF SaveRequest
<1> QED
  BY <1>1, <1>2, <1>4, <1>5

LEMMA Contents ==
    /\ Original \in Content /\ 0 \in Version /\ Version \subseteq Nat
    /\ \A c \in Content : c.text \in Version /\ c.label \in Version
    /\ \A t \in Version, l \in Version : [label |-> l, text |-> t] \in Content
<1> USE DEF Version
<1>1. \A t \in Version, l \in Version : [label |-> l, text |-> t] \in Content
  BY DEF Content, Field
<1> QED
  BY <1>1 DEF Original, Content, Field

-----------------------------------------------------------------------------
(***************************************************************************)
(* Types.                                                                  *)
(***************************************************************************)
EditTypes ==
    /\ record \in Partly(Content) /\ entry \in Partly(Version) /\ form \in Partly(Version)
    /\ outbox \in Seq(Message) /\ socket \in Seq(Message)
    /\ onPage \subseteq DOMAIN entry /\ DOMAIN form \subseteq DOMAIN entry
    /\ selected \in DOMAIN entry \union {NoNode}
    /\ editMode \in BOOLEAN /\ hasEdits \in BOOLEAN /\ disarmed \in BOOLEAN
    /\ editMode => selected # NoNode
    /\ reader \in SUBSET Shown /\ \A d, e \in reader : d = e
    /\ requests \in SUBSET SaveRequest
    /\ draft \in Version
    /\ seen \in [Node -> Content]
    /\ authored \in SUBSET (Node \X Field)
    /\ clock \in Version /\ saves \in [Editor -> 0 .. MaxSaves]

LEMMA EditTypesInit == EditInit => EditTypes
<1> SUFFICES ASSUME EditInit PROVE EditTypes
  OBVIOUS
<1> USE Contents
<1>1. PICK N \in SUBSET Node \ {{}} :
        /\ record = [n \in N |-> Original]
        /\ entry = [n \in N |-> 0] /\ form = entry /\ onPage = N
        /\ outbox = <<>> /\ socket = <<>>
        /\ selected = NoNode /\ editMode = FALSE /\ hasEdits = FALSE
        /\ reader = {} /\ requests = {}
        /\ draft = 0 /\ disarmed = FALSE
        /\ seen = [n \in Node |-> Original]
        /\ authored = {}
        /\ clock = 0 /\ saves = [e \in Editor |-> 0]
  BY Zenon DEF EditInit
<1>2. record \in Partly(Content) /\ entry \in Partly(Version)
  BY <1>1, PartlyParts
<1>3. saves \in [Editor -> 0 .. MaxSaves]
  BY <1>1
<1>4. form \in Partly(Version) /\ onPage \subseteq DOMAIN entry /\ DOMAIN form \subseteq DOMAIN entry
  BY <1>1, <1>2
<1>5. outbox \in Seq(Message) /\ socket \in Seq(Message)
  BY <1>1
<1>6. seen \in [Node -> Content]
  BY <1>1
<1> QED
  BY <1>1, <1>2, <1>3, <1>4, <1>5, <1>6 DEF EditTypes

LEMMA EditTypesStep == EditTypes /\ [EditNext]_editVars => EditTypes'
<1> SUFFICES ASSUME EditTypes, [EditNext]_editVars PROVE EditTypes'
  OBVIOUS
<1> USE DEF EditTypes
<1>1. CASE UNCHANGED editVars
  BY <1>1 DEF editVars, server, panel
<1>2. NewVersion => clock' = clock + 1 /\ clock + 1 \in Version
  BY DEF NewVersion, Version
<1>3. ASSUME NEW k \in {"created", "updated", "deleted"}, NEW n \in Node, NEW row \in Content
      PROVE  /\ [kind |-> k, node |-> n, row |-> row] \in Message
             /\ Announce(k, n, row) => outbox' \in Seq(Message)
  <2>1. [kind |-> k, node |-> n, row |-> row] \in Message
    BY DEF Message
  <2>2. PICK m \in Message : m = [kind |-> k, node |-> n, row |-> row]
    BY <2>1
  <2>3. Append(outbox, m) \in Seq(Message)
    OBVIOUS
  <2>4. Announce(k, n, row) => outbox' = Append(outbox, m)
    BY <2>2 DEF Announce
  <2> QED
    BY <2>1, <2>3, <2>4
<1>4. ASSUME NEW n \in DOMAIN record
      PROVE  n \in Node /\ record[n] \in Content
  BY <1>4, PartlyParts
\* Agents.
<1>5. ASSUME NEW n \in Node, NEW f \in Field, AgentWrites(n, f)
      PROVE  EditTypes'
  <2>1. PICK row : /\ row = [record[n] EXCEPT ![f] = clock + 1]
                   /\ record' = With(record, n, row) /\ Announce("updated", n, row)
    BY <1>5 DEF AgentWrites
  <2>2. record[n] \in Content /\ clock + 1 \in Version
    BY <1>2, <1>4, <1>5 DEF AgentWrites
  <2>3. row \in Content
    BY <2>1, <2>2 DEF Content
  <2>4. record' \in Partly(Content) /\ outbox' \in Seq(Message)
    BY <1>3, <2>1, <2>3, WithParts
  <2> QED
    BY <1>2, <1>5, <2>4 DEF AgentWrites, panel
<1>6. ASSUME NEW n \in Node, AgentCreates(n)
      PROVE  EditTypes'
  <2>1. PICK row : /\ row = [f \in Field |-> clock + 1]
                   /\ record' = With(record, n, row) /\ Announce("created", n, row)
    BY <1>6 DEF AgentCreates
  <2>2. row \in Content
    BY <1>2, <1>6, <2>1 DEF Content, AgentCreates
  <2>3. record' \in Partly(Content) /\ outbox' \in Seq(Message)
    BY <1>3, <2>1, <2>2, WithParts
  <2>4. authored' \in SUBSET (Node \X Field)
    BY <1>6 DEF AgentCreates
  <2> QED
    BY <1>2, <1>6, <2>3, <2>4 DEF AgentCreates, panel
<1>7. ASSUME NEW n \in Node, AgentDeletes(n)
      PROVE  EditTypes'
  <2>1. outbox' \in Seq(Message)
    BY <1>3, <1>4, <1>7 DEF AgentDeletes
  <2>2. record' \in Partly(Content)
    <3>1. record' = [m \in DOMAIN record \ {n} |-> record[m]]
      BY <1>7 DEF AgentDeletes
    <3>2. record' \in [DOMAIN record \ {n} -> Content] /\ DOMAIN record \subseteq Node
      BY <3>1, PartlyParts
    <3> QED
      BY <3>1, <3>2, PartlyParts
  <2> QED
    BY <1>2, <1>7, <2>1, <2>2 DEF AgentDeletes, panel
<1>8. ASSUME PublishNext
      PROVE  EditTypes'
  <2>1. outbox' \in Seq(Message) /\ socket' \in Seq(Message)
    BY <1>8 DEF PublishNext
  <2> QED
    BY <1>8, <2>1 DEF PublishNext, panel
\* Events.
<1>9. ASSUME ReceiveEvent
      PROVE  EditTypes'
  <2>1. Head(socket) \in Message /\ socket' \in Seq(Message)
    BY <1>9 DEF ReceiveEvent
  <2>2. PICK e \in Message : e = Head(socket)
    BY <2>1
  <2>3. e.node \in Node /\ e.row \in Content /\ e.row.text \in Version
    BY Contents DEF Message
  <2>4. UNCHANGED <<server, form, reader, clock, saves>>
    BY <1>9 DEF ReceiveEvent
  <2>5. CASE ApplyUpsert(e)
    <3>1. UNCHANGED panel /\ onPage' \subseteq onPage \union {e.node}
      BY <2>5 DEF ApplyUpsert
    <3>2. CASE Preserve(e.node)
      <4>1. UNCHANGED <<entry, seen, requests>>
        BY <2>5, <3>2 DEF ApplyUpsert
      <4>2. e.node \in DOMAIN entry
        BY <3>2 DEF Preserve
      <4> QED
        BY <2>1, <2>4, <3>1, <4>1, <4>2 DEF server, panel
    <3>3. CASE ~Preserve(e.node)
      <4>1. Adopt(e)
        BY <2>5, <3>3 DEF ApplyUpsert
      <4>2. entry' \in Partly(Version) /\ DOMAIN entry' = DOMAIN entry \union {e.node}
        <5>1. PICK n \in Node, t \in Version : n = e.node /\ t = e.row.text
          BY <2>3
        <5>2. entry' = With(entry, n, t)
          BY <4>1, <5>1 DEF Adopt
        <5>3. /\ With(entry, n, t) \in Partly(Version)
              /\ DOMAIN With(entry, n, t) = DOMAIN entry \union {n}
          BY WithEntry
        <5> QED
          BY <5>1, <5>2, <5>3
      <4>3. seen' \in [Node -> Content]
        BY <2>3, <4>1 DEF Adopt
      <4>4. requests' \in SUBSET SaveRequest
        BY <4>1, DetachParts DEF Adopt
      <4> QED
        BY <2>1, <2>4, <3>1, <4>2, <4>3, <4>4 DEF server, panel
    <3> QED
      BY <3>2, <3>3
  <2>6. CASE ApplyDelete(e)
    <3>1. requests' \in SUBSET SaveRequest
      BY <2>6, DetachParts DEF ApplyDelete
    <3>2. onPage' \subseteq DOMAIN entry /\ UNCHANGED <<entry, seen, hasEdits>>
      BY <2>6 DEF ApplyDelete
    <3>3. CASE selected = e.node
      <4>1. selected' = NoNode /\ editMode' = FALSE /\ draft' = 0 /\ disarmed' = FALSE
        BY <2>6, <3>3 DEF ApplyDelete, CloseEdit
      <4> QED
        BY <2>1, <2>4, <3>1, <3>2, <4>1, Contents DEF server
    <3>4. CASE selected # e.node
      <4>1. UNCHANGED <<selected, editMode, draft, disarmed>>
        BY <2>6, <3>4 DEF ApplyDelete
      <4> QED
        BY <2>1, <2>4, <3>1, <3>2, <4>1 DEF server
    <3> QED
      BY <3>3, <3>4
  <2> QED
    BY <1>9, <2>2, <2>5, <2>6 DEF ReceiveEvent
\* The detail panel.
<1>10. ASSUME NEW n \in Node, SelectNode(n)
       PROVE  EditTypes'
  BY <1>10, Contents DEF SelectNode, server
<1>11. ASSUME Deselect
       PROVE  EditTypes'
  BY <1>11, Contents DEF Deselect, CloseEdit, server
<1>12. ASSUME ToggleEdit
       PROVE  EditTypes'
  BY <1>12, Contents DEF ToggleEdit, server
<1>13. ASSUME NEW f \in Field, Type(f)
       PROVE  EditTypes'
  <2>1. clock' \in Version /\ clock + 1 \in Version
    BY <1>2, <1>13 DEF Type
  <2>2. ASSUME NEW g \in Partly(Version)
        PROVE  /\ [g EXCEPT ![selected] = clock + 1] \in Partly(Version)
               /\ DOMAIN [g EXCEPT ![selected] = clock + 1] = DOMAIN g
    <3>1. DOMAIN g \subseteq Node /\ g \in [DOMAIN g -> Version]
      BY PartlyParts
    <3>2. [g EXCEPT ![selected] = clock + 1] \in [DOMAIN g -> Version]
      BY <2>1, <3>1
    <3> QED
      BY <3>1, <3>2, PartlyParts
  <2>3. /\ entry' \in Partly(Version) /\ form' \in Partly(Version)
        /\ DOMAIN entry' = DOMAIN entry /\ DOMAIN form' = DOMAIN form
        /\ draft' \in Version
    BY <1>13, <2>1, <2>2 DEF Type
  <2> QED
    BY <1>13, <2>1, <2>3 DEF Type, server
\* Saving.
<1>14. ASSUME NEW from \in Editor, NEW n \in Node, NEW row \in Content, NEW shown \in Content,
              Send(from, n, row, shown)
       PROVE  EditTypes'
  <2>1. PICK b \in BOOLEAN : b = (from = "reader")
    BY Zenon
  <2>2. requests' = requests \union
           {[id |-> saves[from] + 1, from |-> from, node |-> n, row |-> row, seen |-> shown,
             step |-> "sent", ok |-> FALSE, attached |-> b]}
    BY <1>14, <2>1, Zenon DEF Send
  <2>3. saves[from] + 1 \in 1 .. MaxSaves /\ saves' \in [Editor -> 0 .. MaxSaves]
    BY <1>14 DEF Send
  <2>4. [id |-> saves[from] + 1, from |-> from, node |-> n, row |-> row, seen |-> shown,
         step |-> "sent", ok |-> FALSE, attached |-> b] \in SaveRequest
    BY <2>3 DEF SaveRequest
  <2>5. requests' \in SUBSET SaveRequest
    BY <2>2, <2>4
  <2> QED
    BY <1>14, <2>3, <2>5 DEF Send, server, panel
<1>15. ASSUME SaveEdits
       PROVE  EditTypes'
  <2>1. selected \in DOMAIN form /\ selected \in DOMAIN entry /\ selected \in Node
    BY <1>15, PartlyParts DEF SaveEdits
  <2>2. form[selected] \in Version /\ entry[selected] \in Version
    BY <2>1, PartlyParts
  <2>3. [label |-> form[selected], text |-> entry[selected]] \in Content /\ seen[selected] \in Content
    BY <2>1, <2>2, Contents
  <2> QED
    BY <1>14, <1>15, <2>1, <2>3 DEF SaveEdits, Editor
<1>16. ASSUME OpenReader
       PROVE  EditTypes'
  <2>1. selected \in DOMAIN entry /\ selected \in Node
    BY <1>16, PartlyParts DEF OpenReader
  <2>2. [node |-> selected, text |-> entry[selected], seen |-> seen[selected]] \in Shown
    BY <2>1, PartlyParts DEF Shown
  <2> QED
    BY <1>16, <2>2 DEF OpenReader, server, panel
<1>17. ASSUME NEW e \in reader, TypeInReader(e)
       PROVE  EditTypes'
  <2>1. [e EXCEPT !.text = clock + 1] \in Shown
    BY <1>2, <1>17 DEF Shown, TypeInReader
  <2> QED
    BY <1>2, <1>17, <2>1 DEF TypeInReader, server, panel
<1>18. ASSUME NEW e \in reader, SaveReader(e)
       PROVE  EditTypes'
  <2>1. e.node \in Node /\ e.seen \in Content /\ e.text \in Version
    BY DEF Shown
  <2>2. [label |-> 0, text |-> e.text] \in Content
    BY <2>1, Contents
  <2> QED
    BY <1>14, <1>18, <2>1, <2>2 DEF SaveReader, Editor
<1>19. ASSUME NEW r \in requests, PatchNode(r)
       PROVE  EditTypes'
  <2>1. r.node \in Node /\ r.row \in Content /\ r.row.text \in Version
    BY Contents DEF SaveRequest
  <2>2. PICK row : row = IF r.from = "panel" THEN r.row
                         ELSE [record[r.node] EXCEPT !.text = r.row.text]
    OBVIOUS
  <2>3. /\ record' = IF r.node \in DOMAIN record THEN With(record, r.node, row) ELSE record
        /\ socket' = IF r.node \in DOMAIN record
                     THEN Append(socket, [kind |-> "updated", node |-> r.node, row |-> row])
                     ELSE socket
    BY <1>19, <2>2 DEF PatchNode
  <2>4. requests' = (requests \ {r}) \union {Handled(r, DOMAIN record)}
    BY <1>19 DEF PatchNode, Handled
  <2>5. r.node \in DOMAIN record => row \in Content
    BY <1>4, <2>1, <2>2 DEF Content
  <2>6. record' \in Partly(Content)
    BY <2>1, <2>3, <2>5, WithParts
  <2>7. socket' \in Seq(Message)
    BY <1>3, <2>1, <2>3, <2>5
  <2>8. requests' \in SUBSET SaveRequest
    BY <2>4, HandledParts, Contents
  <2>9. authored' \in SUBSET (Node \X Field)
    BY <1>19 DEF PatchNode
  <2> QED
    BY <1>19, <2>6, <2>7, <2>8, <2>9 DEF PatchNode, panel
<1>20. ASSUME NEW r \in requests, Answered(r)
       PROVE  EditTypes'
  <2>1. r.row.text \in Version /\ requests' \in SUBSET SaveRequest
    BY <1>20, Contents DEF SaveRequest, Answered
  <2>2. CASE PanelSaved(r)
    <3>1. draft' \in Version /\ disarmed' \in BOOLEAN
      BY <2>2, Contents DEF PanelSaved, Unsaved
    <3> QED
      BY <1>20, <2>1, <2>2, <3>1 DEF PanelSaved, Answered, server
  <2>3. CASE ReaderSaved(r)
    <3>1. disarmed' \in BOOLEAN
      BY <2>3 DEF ReaderSaved
    <3>2. entry \in [DOMAIN entry -> Version] /\ DOMAIN entry \subseteq Node
      BY PartlyParts
    <3>3. [entry EXCEPT ![r.node] = r.row.text] \in [DOMAIN entry -> Version]
      BY <2>1, <3>2
    <3>4. entry' \in [DOMAIN entry -> Version] /\ DOMAIN entry' = DOMAIN entry
      BY <2>3, <3>2, <3>3 DEF ReaderSaved
    <3>5. entry' \in Partly(Version)
      BY <3>2, <3>4, PartlyParts
    <3> QED
      BY <1>20, <2>1, <2>3, <3>1, <3>4, <3>5 DEF ReaderSaved, Answered, server
  <2>4. CASE ~r.ok /\ UNCHANGED <<hasEdits, draft, disarmed, entry, reader>>
    BY <1>20, <2>1, <2>4 DEF Answered, server
  <2> QED
    BY <1>20, <2>2, <2>3, <2>4 DEF Answered
<1> QED
  BY <1>1, <1>5, <1>6, <1>7, <1>8, <1>9, <1>10, <1>11, <1>12, <1>13, <1>15, <1>16, <1>17, <1>18,
     <1>19, <1>20 DEF EditNext

\* A run's type invariant, for any number of nodes, versions and saves.
LEMMA EditTypesImply == EditTypes => EditTypeOK
<1> SUFFICES ASSUME EditTypes PROVE EditTypeOK
  OBVIOUS
<1>1. Cardinality(reader) <= 1
  <2>1. CASE reader = {}
    BY <2>1, FS_EmptySet
  <2>2. CASE reader # {}
    <3>1. PICK e \in reader : TRUE
      BY <2>2
    <3>2. reader = {e}
      BY <3>1 DEF EditTypes
    <3> QED
      BY <3>2, FS_Singleton
  <2> QED
    BY <2>1, <2>2
<1>2. /\ \A i \in DOMAIN outbox : outbox[i] \in Message
      /\ \A i \in DOMAIN socket : socket[i] \in Message
  BY DEF EditTypes
<1>3. \A e \in reader : e \in [node : Node, text : Version, seen : Content]
  BY DEF EditTypes, Shown
<1>4. \A r \in requests :
           r \in [id : 1 .. MaxSaves, from : Editor, node : Node, row : Content,
                  seen : Content, step : {"sent", "done"}, ok : BOOLEAN, attached : BOOLEAN]
  BY DEF EditTypes, SaveRequest
<1>5. {editMode, hasEdits, disarmed} \subseteq BOOLEAN
  BY DEF EditTypes
<1>6. authored \subseteq Node \X Field
  BY DEF EditTypes
<1> QED
  BY <1>1, <1>2, <1>3, <1>4, <1>5, <1>6, Zenon DEF EditTypes, EditTypeOK

\* Types (all state of the page, the server and the channels between them).
THEOREM EditTypeCorrect == EditSpec => []EditTypeOK
BY EditTypesInit, EditTypesStep, EditTypesImply, PTL DEF EditSpec

-----------------------------------------------------------------------------
(***************************************************************************)
(* What is typed.  A draft that no answer has disarmed is under edit, with *)
(* the flag that keeps events from replacing its entry.                    *)
(***************************************************************************)
Armed ==
    (draft # 0 /\ ~disarmed) =>
        /\ editMode /\ hasEdits /\ selected \in DOMAIN entry
        /\ entry[selected] = draft

LEMMA ArmedInit == EditInit => Armed
BY DEF EditInit, Armed

LEMMA ArmedStep == EditTypes /\ Armed /\ [EditNext]_editVars => Armed'
<1> SUFFICES ASSUME EditTypes, Armed, [EditNext]_editVars PROVE Armed'
  OBVIOUS
<1>1. UNCHANGED <<panel, entry>> => Armed'
  BY DEF Armed, panel
<1>2. CASE UNCHANGED editVars
  BY <1>1, <1>2 DEF editVars
<1>3. ASSUME NEW n \in Node, (\E f \in Field : AgentWrites(n, f)) \/ AgentCreates(n) \/ AgentDeletes(n)
      PROVE  Armed'
  BY <1>1, <1>3 DEF AgentWrites, AgentCreates, AgentDeletes
<1>4. ASSUME PublishNext \/ OpenReader \/ SaveEdits \/ \E e \in reader : TypeInReader(e) \/ SaveReader(e)
      PROVE  Armed'
  BY <1>1, <1>4 DEF PublishNext, OpenReader, SaveEdits, TypeInReader, SaveReader, Send
<1>5. ASSUME NEW r \in requests, PatchNode(r)
      PROVE  Armed'
  BY <1>1, <1>5 DEF PatchNode
<1>6. ASSUME Deselect \/ ToggleEdit \/ \E n \in Node : SelectNode(n)
      PROVE  Armed'
  BY <1>6 DEF Deselect, ToggleEdit, SelectNode, CloseEdit, Armed
<1>7. ASSUME ReceiveEvent
      PROVE  Armed'
  <2>1. Head(socket) \in Message
    BY <1>7 DEF ReceiveEvent, EditTypes
  <2>2. PICK e \in Message : e = Head(socket)
    BY <2>1
  <2>3. CASE ApplyUpsert(e)
    <3>1. UNCHANGED <<selected, editMode, hasEdits, draft, disarmed>>
      BY <2>3 DEF ApplyUpsert, panel
    <3>2. CASE Preserve(e.node)
      BY <1>1, <2>3, <3>2 DEF ApplyUpsert
    <3>3. CASE ~Preserve(e.node)
      <4>1. entry' = With(entry, e.node, e.row.text)
        BY <2>3, <3>3 DEF ApplyUpsert, Adopt
      <4> SUFFICES ASSUME draft # 0, ~disarmed
                   PROVE  selected \in DOMAIN entry' /\ entry'[selected] = draft
        BY <3>1 DEF Armed
      <4>2. selected # e.node /\ selected \in DOMAIN entry /\ entry[selected] = draft
        BY <3>3 DEF Armed, Preserve
      <4> QED
        BY <4>1, <4>2 DEF With
    <3> QED
      BY <3>2, <3>3
  <2>4. CASE ApplyDelete(e)
    BY <2>4 DEF ApplyDelete, CloseEdit, Armed
  <2> QED
    BY <1>7, <2>2, <2>3, <2>4 DEF ReceiveEvent
<1>8. ASSUME NEW f \in Field, Type(f)
      PROVE  Armed'
  <2>1. /\ hasEdits' = TRUE /\ UNCHANGED <<selected, editMode, disarmed>> /\ editMode
        /\ selected \in DOMAIN entry
    BY <1>8 DEF Type, EditTypes
  <2>2. DOMAIN entry' = DOMAIN entry
    BY <1>8 DEF Type
  <2>3. CASE f = "text"
    <3>1. entry' = [entry EXCEPT ![selected] = clock + 1] /\ draft' = clock + 1
      BY <1>8, <2>3 DEF Type
    <3> QED
      BY <2>1, <2>2, <3>1 DEF Armed
  <2>4. CASE f # "text"
    BY <1>8, <2>1, <2>4 DEF Type, Armed
  <2> QED
    BY <2>3, <2>4
<1>9. ASSUME NEW r \in requests, Answered(r)
      PROVE  Armed'
  <2>1. CASE PanelSaved(r)
    BY <2>1 DEF PanelSaved, Armed
  <2>2. CASE ReaderSaved(r)
    <3>1. UNCHANGED <<selected, editMode, hasEdits, draft>> /\ DOMAIN entry' = DOMAIN entry
      BY <1>9, <2>2 DEF Answered, ReaderSaved
    <3> SUFFICES ASSUME draft # 0, ~disarmed'
                 PROVE  /\ editMode /\ hasEdits /\ selected \in DOMAIN entry
                        /\ entry'[selected] = draft
      BY <3>1 DEF Armed
    <3>2. ~disarmed /\ selected # r.node
      BY <2>2 DEF ReaderSaved
    <3>3. editMode /\ hasEdits /\ selected \in DOMAIN entry /\ entry[selected] = draft
      BY <3>2 DEF Armed
    <3> QED
      BY <2>2, <3>2, <3>3 DEF ReaderSaved
  <2>3. CASE ~r.ok /\ UNCHANGED <<hasEdits, draft, disarmed, entry, reader>>
    BY <1>1, <1>9, <2>3 DEF Answered, panel
  <2> QED
    BY <1>9, <2>1, <2>2, <2>3 DEF Answered
<1> QED
  BY <1>2, <1>3, <1>4, <1>5, <1>6, <1>7, <1>8, <1>9 DEF EditNext

-----------------------------------------------------------------------------
(***************************************************************************)
(* What the page knows of agents' texts.  Every text anywhere is at most   *)
(* as new as the clock; and whoever was shown the text that an agent wrote *)
(* last holds a text that is not older.                                    *)
(***************************************************************************)
TextsUpTo(c) ==
    /\ \A n \in DOMAIN record : record[n].text <= c
    /\ \A n \in DOMAIN entry : entry[n] <= c
    /\ \A n \in Node : seen[n].text <= c
    /\ \A i \in 1 .. Len(outbox) : outbox[i].row.text <= c
    /\ \A i \in 1 .. Len(socket) : socket[i].row.text <= c
    /\ \A e \in reader : e.text <= c /\ e.seen.text <= c
    /\ \A r \in requests : r.row.text <= c /\ r.seen.text <= c

UpToClock == TextsUpTo(clock)

\* Version v of n's text is in the table rec, and an agent wrote it.
AgentText(rec, auth, n, v) ==
    n \in DOMAIN rec /\ <<n, "text">> \in auth /\ rec[n].text = v

KnownTexts ==
    /\ \A n \in DOMAIN entry :
          AgentText(record, authored, n, seen[n].text) => entry[n] >= seen[n].text
    /\ \A e \in reader :
          AgentText(record, authored, e.node, e.seen.text) => e.text >= e.seen.text
    /\ \A r \in requests : r.step = "sent" /\ AgentText(record, authored, r.node, r.seen.text)
          => r.row.text >= r.seen.text
    /\ \A r \in requests :
          (/\ r.step = "done" /\ r.ok /\ r.from = "reader" /\ r.attached
           /\ AgentText(record, authored, r.node, seen[r.node].text))
          => r.row.text >= seen[r.node].text

LEMMA UpToClockInit == EditInit => UpToClock
<1> SUFFICES ASSUME EditInit PROVE UpToClock
  OBVIOUS
<1> USE DEF EditInit
<1>1. Original.text = 0
  BY DEF Original, Field
<1>2. clock = 0 /\ reader = {} /\ requests = {} /\ outbox = <<>> /\ socket = <<>>
  OBVIOUS
<1>3. /\ \A n \in DOMAIN record : record[n] = Original
      /\ \A n \in DOMAIN entry : entry[n] = 0
      /\ \A n \in Node : seen[n] = Original
  OBVIOUS
<1> QED
  BY <1>1, <1>2, <1>3 DEF UpToClock, TextsUpTo

LEMMA KnownTextsInit == EditInit => KnownTexts
BY DEF EditInit, KnownTexts, AgentText

\* The texts there are, as numbers.
LEMMA TextsAreNumbers ==
    ASSUME EditTypes
    PROVE  /\ \A n \in DOMAIN record : n \in Node /\ record[n].text \in Nat
           /\ \A n \in DOMAIN entry : n \in Node /\ entry[n] \in Nat
           /\ \A n \in Node : seen[n].text \in Nat
           /\ \A i \in 1 .. Len(outbox) : outbox[i] \in Message /\ outbox[i].row.text \in Nat
           /\ \A i \in 1 .. Len(socket) : socket[i] \in Message /\ socket[i].row.text \in Nat
           /\ \A e \in reader : e.node \in Node /\ e.text \in Nat /\ e.seen.text \in Nat
           /\ \A r \in requests : r.node \in Node /\ r.row.text \in Nat /\ r.seen.text \in Nat
           /\ clock \in Nat
<1> USE Contents
<1>1. /\ \A n \in DOMAIN record : n \in Node /\ record[n].text \in Nat
      /\ \A n \in DOMAIN entry : n \in Node /\ entry[n] \in Nat
  BY PartlyParts DEF EditTypes
<1>2. \A n \in Node : seen[n].text \in Nat
  BY DEF EditTypes
<1>3. \A m \in Message : m.row.text \in Nat
  BY DEF Message
<1>4. /\ \A i \in 1 .. Len(outbox) : outbox[i] \in Message
      /\ \A i \in 1 .. Len(socket) : socket[i] \in Message
  BY DEF EditTypes
<1>5. \A e \in reader : e.node \in Node /\ e.text \in Nat /\ e.seen.text \in Nat
  BY DEF EditTypes, Shown
<1>6. \A r \in requests : r.node \in Node /\ r.row.text \in Nat /\ r.seen.text \in Nat
  BY DEF EditTypes, SaveRequest
<1>7. clock \in Nat
  BY DEF EditTypes
<1> QED
  BY <1>1, <1>2, <1>3, <1>4, <1>5, <1>6, <1>7

LEMMA UpToClockStep == EditTypes /\ UpToClock /\ [EditNext]_editVars => UpToClock'
<1> SUFFICES ASSUME EditTypes, UpToClock, [EditNext]_editVars PROVE UpToClock'
  OBVIOUS
<1>1. ASSUME UNCHANGED <<record, entry, seen, outbox, socket, reader, requests>>, TextsUpTo(clock')
      PROVE  UpToClock'
  BY <1>1 DEF UpToClock, TextsUpTo
<1>2. UNCHANGED clock => TextsUpTo(clock')
  BY DEF UpToClock
<1>3. NewVersion => /\ clock' = clock + 1 /\ clock + 1 \in Nat /\ TextsUpTo(clock')
  BY TextsAreNumbers DEF NewVersion, UpToClock, TextsUpTo
<1>4. CASE UNCHANGED editVars
  BY <1>1, <1>2, <1>4 DEF editVars, server, panel
\* A change of the table that is announced.
<1>5. ASSUME NEW n \in Node, NEW k, NEW row, TextsUpTo(clock'), row.text <= clock',
             Announce(k, n, row), UNCHANGED <<entry, seen, socket, reader, requests>>,
             \A m \in DOMAIN record' : record'[m] = row \/ (m \in DOMAIN record /\ record'[m] = record[m])
      PROVE  UpToClock'
  <2>1. PICK m : m = [kind |-> k, node |-> n, row |-> row]
    OBVIOUS
  <2>2. outbox' = Append(outbox, m) /\ m.row = row
    BY <1>5, <2>1 DEF Announce
  <2>3. \A i \in 1 .. Len(outbox') : outbox'[i] = m \/ (i \in 1 .. Len(outbox) /\ outbox'[i] = outbox[i])
    BY <2>2 DEF EditTypes
  <2>4. \A i \in 1 .. Len(outbox') : outbox'[i].row.text <= clock'
    BY <1>5, <2>2, <2>3 DEF TextsUpTo
  <2>5. \A m2 \in DOMAIN record' : record'[m2].text <= clock'
    BY <1>5 DEF TextsUpTo
  <2> QED
    BY <1>5, <2>4, <2>5 DEF UpToClock, TextsUpTo
<1>6. ASSUME NEW n \in Node, NEW f \in Field, AgentWrites(n, f)
      PROVE  UpToClock'
  <2>1. PICK row : /\ row = [record[n] EXCEPT ![f] = clock + 1]
                   /\ record' = With(record, n, row) /\ Announce("updated", n, row)
    BY <1>6 DEF AgentWrites
  <2>2. n \in DOMAIN record /\ record[n] \in Content
    BY <1>6, PartlyParts DEF AgentWrites, EditTypes
  <2>3. row.text = clock + 1 \/ row.text = record[n].text
    BY <2>1, <2>2 DEF Content
  <2>4. TextsUpTo(clock') /\ row.text <= clock'
    BY <1>3, <1>6, <2>2, <2>3 DEF AgentWrites, TextsUpTo
  <2>5. \A m \in DOMAIN record' : record'[m] = row \/ (m \in DOMAIN record /\ record'[m] = record[m])
    BY <2>1 DEF With
  <2> QED
    BY <1>5, <1>6, <2>1, <2>4, <2>5 DEF AgentWrites
<1>7. ASSUME NEW n \in Node, AgentCreates(n)
      PROVE  UpToClock'
  <2>1. PICK row : /\ row = [f \in Field |-> clock + 1]
                   /\ record' = With(record, n, row) /\ Announce("created", n, row)
    BY <1>7 DEF AgentCreates
  <2>2. row.text = clock + 1
    BY <2>1 DEF Field
  <2>3. TextsUpTo(clock') /\ row.text <= clock'
    BY <1>3, <1>7, <2>2 DEF AgentCreates
  <2>4. \A m \in DOMAIN record' : record'[m] = row \/ (m \in DOMAIN record /\ record'[m] = record[m])
    BY <2>1 DEF With
  <2> QED
    BY <1>5, <1>7, <2>1, <2>3, <2>4 DEF AgentCreates
<1>8. ASSUME NEW n \in Node, AgentDeletes(n)
      PROVE  UpToClock'
  <2>1. TextsUpTo(clock') /\ record[n].text <= clock'
    BY <1>3, <1>8 DEF AgentDeletes, TextsUpTo
  <2>2. \A m \in DOMAIN record' : m \in DOMAIN record /\ record'[m] = record[m]
    BY <1>8 DEF AgentDeletes
  <2> QED
    BY <1>5, <1>8, <2>1, <2>2 DEF AgentDeletes
<1>9. ASSUME PublishNext
      PROVE  UpToClock'
  <2>1. PICK m : m = Head(outbox)
    OBVIOUS
  <2>2. outbox # <<>> /\ outbox' = Tail(outbox) /\ socket' = Append(socket, m)
    BY <1>9, <2>1 DEF PublishNext
  <2>3. m = outbox[1] /\ 1 \in 1 .. Len(outbox)
    BY <2>1, <2>2 DEF EditTypes
  <2>4. \A i \in 1 .. Len(outbox') : i + 1 \in 1 .. Len(outbox) /\ outbox'[i] = outbox[i + 1]
    BY <2>2 DEF EditTypes
  <2>5. \A i \in 1 .. Len(socket') : socket'[i] = m \/ (i \in 1 .. Len(socket) /\ socket'[i] = socket[i])
    BY <2>2 DEF EditTypes
  <2>6. UNCHANGED <<record, entry, seen, reader, requests, clock>>
    BY <1>9 DEF PublishNext
  <2> QED
    BY <2>3, <2>4, <2>5, <2>6 DEF UpToClock, TextsUpTo
<1>10. ASSUME NEW n \in Node, SelectNode(n)
       PROVE  UpToClock'
  BY <1>1, <1>2, <1>10 DEF SelectNode, server
<1>11. ASSUME Deselect \/ ToggleEdit
       PROVE  UpToClock'
  BY <1>1, <1>2, <1>11 DEF Deselect, ToggleEdit, server
<1>12. ASSUME ReceiveEvent
       PROVE  UpToClock'
  <2>1. PICK e \in Message : /\ e = socket[1] /\ 1 \in 1 .. Len(socket)
                             /\ ApplyUpsert(e) \/ ApplyDelete(e)
    BY <1>12 DEF ReceiveEvent, EditTypes
  <2>2. e.node \in Node /\ e.row.text \in Nat
    BY Contents DEF Message
  <2>3. UNCHANGED <<record, outbox, reader, clock>> /\ socket' = Tail(socket) /\ socket # <<>>
    BY <1>12 DEF ReceiveEvent, server
  <2>4. \A i \in 1 .. Len(socket') : i + 1 \in 1 .. Len(socket) /\ socket'[i] = socket[i + 1]
    BY <2>3 DEF EditTypes
  <2>5. \A i \in 1 .. Len(socket') : socket'[i].row.text <= clock
    BY <2>4 DEF UpToClock, TextsUpTo
  <2>6. e.row.text <= clock
    BY <2>1 DEF UpToClock, TextsUpTo
  <2>7. \/ UNCHANGED <<entry, seen>>
        \/ entry' = With(entry, e.node, e.row.text) /\ seen' = [seen EXCEPT ![e.node] = e.row]
    BY <2>1 DEF ApplyUpsert, ApplyDelete, Adopt
  <2>8. \A n \in DOMAIN entry' : entry'[n] <= clock
    BY <2>6, <2>7 DEF UpToClock, TextsUpTo, With
  <2>9. \A n \in Node : seen'[n].text <= clock
    BY <2>2, <2>6, <2>7 DEF UpToClock, TextsUpTo, EditTypes
  <2>10. UNCHANGED requests \/ Detach(e.node)
    BY <2>1 DEF ApplyUpsert, ApplyDelete, Adopt
  <2>11. \A r \in requests' : r.row.text <= clock /\ r.seen.text <= clock
    BY <2>10, DetachParts DEF UpToClock, TextsUpTo, EditTypes
  <2> QED
    BY <2>3, <2>5, <2>8, <2>9, <2>11 DEF UpToClock, TextsUpTo
<1>13. ASSUME NEW f \in Field, Type(f)
       PROVE  UpToClock'
  <2>1. clock' = clock + 1 /\ clock + 1 \in Nat /\ TextsUpTo(clock')
    BY <1>3, <1>13 DEF Type
  <2>2. UNCHANGED <<record, outbox, socket, seen, reader, requests>>
    BY <1>13 DEF Type, server
  <2>3. UNCHANGED entry \/ entry' = [entry EXCEPT ![selected] = clock + 1]
    BY <1>13 DEF Type
  <2>4. \A n \in DOMAIN entry' : entry'[n] <= clock'
    BY <2>1, <2>3 DEF TextsUpTo
  <2> QED
    BY <2>1, <2>2, <2>4 DEF UpToClock, TextsUpTo
<1>14. ASSUME NEW from, NEW n, NEW row, NEW shown, Send(from, n, row, shown),
              row.text <= clock, shown.text <= clock
       PROVE  UpToClock'
  <2>1. \A r \in requests' : r \in requests \/ (r.row = row /\ r.seen = shown)
    BY <1>14 DEF Send
  <2>2. UNCHANGED <<record, outbox, socket, entry, seen, reader, clock>>
    BY <1>14 DEF Send, server
  <2> QED
    BY <1>14, <2>1, <2>2 DEF UpToClock, TextsUpTo
<1>15. ASSUME SaveEdits
       PROVE  UpToClock'
  <2>1. selected \in DOMAIN entry /\ selected \in Node
    BY <1>15, PartlyParts DEF SaveEdits, EditTypes
  <2>2. entry[selected] <= clock /\ seen[selected].text <= clock
    BY <2>1 DEF UpToClock, TextsUpTo
  <2> QED
    BY <1>14, <1>15, <2>2 DEF SaveEdits
<1>16. ASSUME OpenReader
       PROVE  UpToClock'
  <2>1. selected \in DOMAIN entry /\ selected \in Node
    BY <1>16, PartlyParts DEF OpenReader, EditTypes
  <2>2. entry[selected] <= clock /\ seen[selected].text <= clock
    BY <2>1 DEF UpToClock, TextsUpTo
  <2>3. \A e \in reader' : e.text = entry[selected] /\ e.seen = seen[selected]
    BY <1>16 DEF OpenReader
  <2>4. UNCHANGED <<record, outbox, socket, entry, seen, requests, clock>>
    BY <1>16 DEF OpenReader, server
  <2> QED
    BY <2>2, <2>3, <2>4 DEF UpToClock, TextsUpTo
<1>17. ASSUME NEW e \in reader, TypeInReader(e)
       PROVE  UpToClock'
  <2>1. clock' = clock + 1 /\ clock + 1 \in Nat /\ TextsUpTo(clock')
    BY <1>3, <1>17 DEF TypeInReader
  <2>2. \A d \in reader' : d.text = clock + 1 /\ d.seen = e.seen
    BY <1>17 DEF TypeInReader, EditTypes, Shown
  <2>3. UNCHANGED <<record, outbox, socket, entry, seen, requests>>
    BY <1>17 DEF TypeInReader, server
  <2> QED
    BY <2>1, <2>2, <2>3 DEF UpToClock, TextsUpTo
<1>18. ASSUME NEW e \in reader, SaveReader(e)
       PROVE  UpToClock'
  <2>1. e.text <= clock /\ e.seen.text <= clock
    BY DEF UpToClock, TextsUpTo
  <2> QED
    BY <1>14, <1>18, <2>1 DEF SaveReader
<1>19. ASSUME NEW r \in requests, PatchNode(r)
       PROVE  UpToClock'
  <2>1. r.node \in Node /\ r \in SaveRequest /\ r.row \in Content
    BY DEF EditTypes, SaveRequest
  <2>2. PICK row : row = IF r.from = "panel" THEN r.row
                         ELSE [record[r.node] EXCEPT !.text = r.row.text]
    OBVIOUS
  <2>3. /\ record' = IF r.node \in DOMAIN record THEN With(record, r.node, row) ELSE record
        /\ socket' = IF r.node \in DOMAIN record
                     THEN Append(socket, [kind |-> "updated", node |-> r.node, row |-> row])
                     ELSE socket
        /\ UNCHANGED <<outbox, entry, seen, reader, clock>>
    BY <1>19, <2>2 DEF PatchNode
  <2>4. r.node \in DOMAIN record => row.text = r.row.text
    <3>1. r.node \in DOMAIN record => record[r.node] \in Content
      BY PartlyParts DEF EditTypes
    <3> QED
      BY <2>2, <3>1 DEF Content, Field
  <2>5. r.row.text <= clock
    BY DEF UpToClock, TextsUpTo
  <2>6. \A n \in DOMAIN record' : record'[n].text <= clock
    BY <2>3, <2>4, <2>5 DEF UpToClock, TextsUpTo, With
  <2>7. PICK m : m = [kind |-> "updated", node |-> r.node, row |-> row]
    OBVIOUS
  <2>8. \A i \in 1 .. Len(socket') :
           \/ i \in 1 .. Len(socket) /\ socket'[i] = socket[i]
           \/ r.node \in DOMAIN record /\ socket'[i] = m
    BY <2>3, <2>7 DEF EditTypes
  <2>9. \A i \in 1 .. Len(socket') : socket'[i].row.text <= clock
    BY <2>4, <2>5, <2>7, <2>8 DEF UpToClock, TextsUpTo
  <2>10. PICK h : h = Handled(r, DOMAIN record)
    OBVIOUS
  <2>11. h.row = r.row /\ h.seen = Original
    BY <2>1, <2>10 DEF Handled, SaveRequest
  <2>12. Original.text <= clock
    BY TextsAreNumbers DEF Original, Field
  <2>13. \A q \in requests' : q \in requests \/ q = h
    BY <1>19, <2>10 DEF PatchNode, Handled
  <2>14. \A q \in requests' : q.row.text <= clock /\ q.seen.text <= clock
    BY <2>5, <2>11, <2>12, <2>13 DEF UpToClock, TextsUpTo
  <2> QED
    BY <2>3, <2>6, <2>9, <2>14 DEF UpToClock, TextsUpTo
<1>20. ASSUME NEW r \in requests, Answered(r)
       PROVE  UpToClock'
  <2>1. r.row.text <= clock
    BY DEF UpToClock, TextsUpTo
  <2>2. /\ UNCHANGED <<record, outbox, socket, seen, clock>> /\ requests' \subseteq requests
        /\ reader' \subseteq reader
        /\ UNCHANGED entry \/ entry' = [entry EXCEPT ![r.node] = r.row.text]
    BY <1>20 DEF Answered, PanelSaved, ReaderSaved, server
  <2>3. \A n \in DOMAIN entry' : entry'[n] <= clock
    BY <2>1, <2>2 DEF UpToClock, TextsUpTo
  <2> QED
    BY <2>2, <2>3 DEF UpToClock, TextsUpTo
<1> QED
  BY <1>4, <1>6, <1>7, <1>8, <1>9, <1>10, <1>11, <1>12, <1>13, <1>15, <1>16, <1>17, <1>18,
     <1>19, <1>20 DEF EditNext

\* A step of the server alone: what is an agent's text then was so before, or
\* nobody has been shown it.
LEMMA KnownTextsKept ==
    ASSUME EditTypes, UpToClock, KnownTexts, UNCHANGED <<entry, seen, reader, requests>>,
           \A n \in Node : \A v \in Nat :
              AgentText(record', authored', n, v) => AgentText(record, authored, n, v) \/ v > clock
    PROVE  KnownTexts'
<1>1. ASSUME NEW n \in Node, NEW v \in Nat, v <= clock, AgentText(record', authored', n, v)
      PROVE  AgentText(record, authored, n, v)
  BY <1>1, TextsAreNumbers
<1>2. ASSUME NEW n \in DOMAIN entry, AgentText(record', authored', n, seen[n].text)
      PROVE  entry[n] >= seen[n].text
  <2>1. n \in Node /\ seen[n].text \in Nat /\ seen[n].text <= clock
    BY TextsAreNumbers DEF UpToClock, TextsUpTo
  <2> QED
    BY <1>1, <1>2, <2>1 DEF KnownTexts
<1>3. ASSUME NEW e \in reader, AgentText(record', authored', e.node, e.seen.text)
      PROVE  e.text >= e.seen.text
  <2>1. e.node \in Node /\ e.seen.text \in Nat /\ e.seen.text <= clock
    BY TextsAreNumbers DEF UpToClock, TextsUpTo
  <2> QED
    BY <1>1, <1>3, <2>1 DEF KnownTexts
<1>4. ASSUME NEW r \in requests, r.step = "sent",
             AgentText(record', authored', r.node, r.seen.text)
      PROVE  r.row.text >= r.seen.text
  <2>1. r.node \in Node /\ r.seen.text \in Nat /\ r.seen.text <= clock
    BY TextsAreNumbers DEF UpToClock, TextsUpTo
  <2> QED
    BY <1>1, <1>4, <2>1 DEF KnownTexts
<1>5. ASSUME NEW r \in requests, r.step = "done", r.ok, r.from = "reader", r.attached,
             AgentText(record', authored', r.node, seen[r.node].text)
      PROVE  r.row.text >= seen[r.node].text
  <2>1. r.node \in Node
    BY TextsAreNumbers
  <2>2. seen[r.node].text \in Nat /\ seen[r.node].text <= clock
    BY <2>1, TextsAreNumbers DEF UpToClock, TextsUpTo
  <2> QED
    BY <1>1, <1>5, <2>1, <2>2 DEF KnownTexts
<1> QED
  BY <1>2, <1>3, <1>4, <1>5 DEF KnownTexts

LEMMA KnownTextsStep ==
    EditTypes /\ UpToClock /\ KnownTexts /\ [EditNext]_editVars => KnownTexts'
<1> SUFFICES ASSUME EditTypes, UpToClock, KnownTexts, [EditNext]_editVars PROVE KnownTexts'
  OBVIOUS
<1>1. UNCHANGED <<record, authored, entry, seen, reader, requests>> => KnownTexts'
  BY DEF KnownTexts
<1>2. CASE UNCHANGED editVars
  BY <1>1, <1>2 DEF editVars, server, panel
\* Agents.
<1>3. ASSUME NEW n \in Node, NEW f \in Field, AgentWrites(n, f)
      PROVE  KnownTexts'
  <2>1. PICK row : row = [record[n] EXCEPT ![f] = clock + 1] /\ record' = With(record, n, row)
    BY <1>3 DEF AgentWrites
  <2>2. n \in DOMAIN record /\ record[n] \in Content
    BY <1>3, PartlyParts DEF AgentWrites, EditTypes
  <2>3. row.text = IF f = "text" THEN clock + 1 ELSE record[n].text
    BY <2>1, <2>2 DEF Content, Field
  <2>4. authored' = authored \union {<<n, f>>}
    BY <1>3 DEF AgentWrites
  <2>5. ASSUME NEW m \in Node, NEW v \in Nat, AgentText(record', authored', m, v)
        PROVE  AgentText(record, authored, m, v) \/ v > clock
    <3>1. /\ m \in DOMAIN record' /\ <<m, "text">> \in authored' /\ record'[m].text = v
      BY <2>5 DEF AgentText
    <3>2. CASE m = n
      <4>1. v = row.text /\ m \in DOMAIN record
        BY <2>1, <2>2, <3>1, <3>2 DEF With
      <4>2. CASE f = "text"
        BY <2>3, <4>1, <4>2, TextsAreNumbers
      <4>3. CASE f # "text"
        BY <2>3, <2>4, <3>1, <3>2, <4>1, <4>3 DEF AgentText
      <4> QED
        BY <4>2, <4>3
    <3>3. CASE m # n
      BY <2>1, <2>4, <3>1, <3>3 DEF With, AgentText
    <3> QED
      BY <3>2, <3>3
  <2> QED
    BY <1>3, <2>5, KnownTextsKept DEF AgentWrites
<1>4. ASSUME NEW n \in Node, AgentCreates(n)
      PROVE  KnownTexts'
  <2>1. PICK row : row = [f \in Field |-> clock + 1] /\ record' = With(record, n, row)
    BY <1>4 DEF AgentCreates
  <2>2. row.text = clock + 1
    BY <2>1 DEF Field
  <2>3. authored' = authored \union {<<n, f>> : f \in Field}
    BY <1>4 DEF AgentCreates
  <2>4. ASSUME NEW m \in Node, NEW v \in Nat, AgentText(record', authored', m, v)
        PROVE  AgentText(record, authored, m, v) \/ v > clock
    <3>1. /\ m \in DOMAIN record' /\ <<m, "text">> \in authored' /\ record'[m].text = v
      BY <2>4 DEF AgentText
    <3>2. CASE m = n
      BY <2>1, <2>2, <3>1, <3>2, TextsAreNumbers DEF With
    <3>3. CASE m # n
      BY <2>1, <2>3, <3>1, <3>3 DEF With, AgentText
    <3> QED
      BY <3>2, <3>3
  <2> QED
    BY <1>4, <2>4, KnownTextsKept DEF AgentCreates
<1>5. ASSUME NEW n \in Node, AgentDeletes(n)
      PROVE  KnownTexts'
  <2>1. \A m \in DOMAIN record' : m \in DOMAIN record /\ record'[m] = record[m]
    BY <1>5 DEF AgentDeletes
  <2>2. UNCHANGED <<entry, seen, reader, requests, authored>>
    BY <1>5 DEF AgentDeletes
  <2> QED
    BY <2>1, <2>2, KnownTextsKept DEF AgentText
<1>6. ASSUME PublishNext \/ Deselect \/ ToggleEdit \/ \E n \in Node : SelectNode(n)
      PROVE  KnownTexts'
  BY <1>1, <1>6 DEF PublishNext, Deselect, ToggleEdit, SelectNode, server
\* The page takes in what the event shows.
<1>7. ASSUME ReceiveEvent
      PROVE  KnownTexts'
  <2>1. PICK e \in Message : ApplyUpsert(e) \/ ApplyDelete(e)
    BY <1>7 DEF ReceiveEvent, EditTypes
  <2>2. UNCHANGED <<record, authored, reader>>
    BY <1>7 DEF ReceiveEvent, server
  <2>3. CASE UNCHANGED <<entry, seen, requests>>
    BY <1>1, <2>2, <2>3
  <2>4. CASE /\ Detach(e.node)
             /\ \/ UNCHANGED <<entry, seen>>
                \/ /\ entry' = With(entry, e.node, e.row.text)
                   /\ seen' = [seen EXCEPT ![e.node] = e.row]
    <3>1. e.node \in Node /\ e.row.text \in Nat
      BY Contents DEF Message
    <3>2. \A n \in Node \ {e.node} : seen'[n] = seen[n]
      BY <2>4 DEF EditTypes
    <3>3. ASSUME NEW n \in DOMAIN entry',
                 AgentText(record, authored, n, seen'[n].text)
          PROVE  entry'[n] >= seen'[n].text
      <4>1. CASE UNCHANGED <<entry, seen>>
        BY <3>3, <4>1 DEF KnownTexts
      <4>2. CASE entry' = With(entry, e.node, e.row.text) /\ seen' = [seen EXCEPT ![e.node] = e.row]
        <5>1. CASE n = e.node
          <6>1. entry'[n] = e.row.text /\ seen'[n] = e.row
            BY <3>1, <4>2, <5>1 DEF With, EditTypes
          <6> QED
            BY <3>1, <6>1
        <5>2. CASE n # e.node
          <6>1. n \in DOMAIN entry /\ entry'[n] = entry[n]
            BY <4>2, <5>2 DEF With
          <6>2. seen'[n] = seen[n]
            BY <3>2, <5>2, <6>1, TextsAreNumbers
          <6> QED
            BY <3>3, <6>1, <6>2 DEF KnownTexts
        <5> QED
          BY <5>1, <5>2
      <4> QED
        BY <2>4, <4>1, <4>2
    <3>4. \A q \in requests' : \E r \in requests :
             /\ q.from = r.from /\ q.node = r.node /\ q.row = r.row /\ q.seen = r.seen
             /\ q.step = r.step /\ q.ok = r.ok
             /\ q.attached => r.attached /\ r.node # e.node
      BY <2>4, DetachParts DEF EditTypes
    <3>5. ASSUME NEW q \in requests', q.step = "sent",
                 AgentText(record, authored, q.node, q.seen.text)
          PROVE  q.row.text >= q.seen.text
      BY <3>4, <3>5 DEF KnownTexts
    <3>6. ASSUME NEW q \in requests', q.step = "done", q.ok, q.from = "reader", q.attached,
                 AgentText(record, authored, q.node, seen'[q.node].text)
          PROVE  q.row.text >= seen'[q.node].text
      <4>1. PICK r \in requests :
               /\ q.from = r.from /\ q.node = r.node /\ q.row = r.row
               /\ q.step = r.step /\ q.ok = r.ok /\ r.attached /\ r.node # e.node
        BY <3>4, <3>6
      <4>2. seen'[q.node] = seen[q.node]
        BY <3>2, <4>1, TextsAreNumbers
      <4> QED
        BY <3>6, <4>1, <4>2 DEF KnownTexts
    <3> QED
      BY <2>2, <3>3, <3>5, <3>6 DEF KnownTexts
  <2> QED
    BY <2>1, <2>3, <2>4 DEF ApplyUpsert, ApplyDelete, Adopt
\* What is typed is newer than what there is.
<1>8. ASSUME NEW f \in Field, Type(f)
      PROVE  KnownTexts'
  <2>1. UNCHANGED <<record, authored, seen, reader, requests>>
    BY <1>8 DEF Type, server
  <2>2. UNCHANGED entry \/ entry' = [entry EXCEPT ![selected] = clock + 1]
    BY <1>8 DEF Type
  <2>3. ASSUME NEW n \in DOMAIN entry', AgentText(record, authored, n, seen[n].text)
        PROVE  entry'[n] >= seen[n].text
    <3>1. n \in DOMAIN entry /\ (entry'[n] = entry[n] \/ entry'[n] = clock + 1)
      BY <2>2
    <3>2. n \in Node /\ seen[n].text \in Nat /\ seen[n].text <= clock /\ clock \in Nat
      BY <3>1, TextsAreNumbers DEF UpToClock, TextsUpTo
    <3>3. entry[n] >= seen[n].text
      BY <2>3, <3>1 DEF KnownTexts
    <3> QED
      BY <3>1, <3>2, <3>3
  <2> QED
    BY <2>1, <2>3 DEF KnownTexts
<1>9. ASSUME NEW e \in reader, TypeInReader(e)
      PROVE  KnownTexts'
  <2>1. UNCHANGED <<record, authored, entry, seen, requests>>
    BY <1>9 DEF TypeInReader, server
  <2>2. \A d \in reader' : d.text = clock + 1 /\ d.seen = e.seen
    BY <1>9 DEF TypeInReader, EditTypes, Shown
  <2>3. e.seen.text \in Nat /\ e.seen.text <= clock /\ clock \in Nat
    BY TextsAreNumbers DEF UpToClock, TextsUpTo
  <2> QED
    BY <2>1, <2>2, <2>3 DEF KnownTexts
<1>10. ASSUME OpenReader
       PROVE  KnownTexts'
  <2>1. UNCHANGED <<record, authored, entry, seen, requests>>
    BY <1>10 DEF OpenReader, server
  <2>2. \A e \in reader' : /\ e.node = selected /\ e.text = entry[selected] /\ e.seen = seen[selected]
    BY <1>10 DEF OpenReader
  <2>3. selected \in DOMAIN entry
    BY <1>10 DEF OpenReader, EditTypes
  <2> QED
    BY <2>1, <2>2, <2>3 DEF KnownTexts
\* A request carries what its sender holds.
<1>11. ASSUME NEW from, NEW n, NEW row, NEW shown, Send(from, n, row, shown),
              AgentText(record, authored, n, shown.text) => row.text >= shown.text
       PROVE  KnownTexts'
  <2>1. UNCHANGED <<record, authored, entry, seen, reader>>
    BY <1>11 DEF Send, server
  <2>2. \A r \in requests' :
           \/ r \in requests
           \/ r.step = "sent" /\ r.node = n /\ r.row = row /\ r.seen = shown
    BY <1>11 DEF Send
  <2> QED
    BY <1>11, <2>1, <2>2 DEF KnownTexts
<1>12. ASSUME SaveEdits
       PROVE  KnownTexts'
  <2>1. PICK row : /\ row.text = entry[selected] /\ Send("panel", selected, row, seen[selected])
                   /\ selected \in DOMAIN form
    BY <1>12 DEF SaveEdits
  <2>2. selected \in DOMAIN entry
    BY <2>1 DEF EditTypes
  <2>3. AgentText(record, authored, selected, seen[selected].text) => row.text >= seen[selected].text
    BY <2>1, <2>2 DEF KnownTexts
  <2> QED
    BY <1>11, <2>1, <2>3
<1>13. ASSUME NEW e \in reader, SaveReader(e)
       PROVE  KnownTexts'
  <2>1. PICK row : row.text = e.text /\ Send("reader", e.node, row, e.seen)
    BY <1>13 DEF SaveReader
  <2>2. AgentText(record, authored, e.node, e.seen.text) => row.text >= e.seen.text
    BY <2>1 DEF KnownTexts
  <2> QED
    BY <1>11, <2>1, <2>2
\* The text a request has written is not an agent's.
<1>14. ASSUME NEW r \in requests, PatchNode(r)
       PROVE  KnownTexts'
  <2>1. UNCHANGED <<entry, seen, reader>>
    BY <1>14 DEF PatchNode
  <2>2. <<r.node, "text">> \notin authored' /\ authored' \subseteq authored
    BY <1>14 DEF PatchNode, Field
  <2>3. \A n \in DOMAIN record' : n # r.node => n \in DOMAIN record /\ record'[n] = record[n]
    BY <1>14 DEF PatchNode, With
  <2>4. \A n, v : AgentText(record', authored', n, v) => n # r.node /\ AgentText(record, authored, n, v)
    BY <2>2, <2>3 DEF AgentText
  <2>5. PICK h : h = Handled(r, DOMAIN record)
    OBVIOUS
  <2>6. h.step = "done" /\ h.node = r.node
    BY <2>5 DEF Handled, EditTypes, SaveRequest
  <2>7. \A q \in requests' : q \in requests \/ q = h
    BY <1>14, <2>5 DEF PatchNode, Handled
  <2> QED
    BY <2>1, <2>4, <2>6, <2>7 DEF KnownTexts
<1>15. ASSUME NEW r \in requests, Answered(r)
       PROVE  KnownTexts'
  <2>1. UNCHANGED <<record, authored, seen>> /\ requests' \subseteq requests /\ reader' \subseteq reader
    BY <1>15 DEF Answered, PanelSaved, ReaderSaved, server
  <2>2. \/ UNCHANGED entry
        \/ /\ r.step = "done" /\ r.ok /\ r.from = "reader" /\ r.attached
           /\ entry' = [entry EXCEPT ![r.node] = r.row.text]
    BY <1>15 DEF Answered, PanelSaved, ReaderSaved
  <2>3. ASSUME NEW n \in DOMAIN entry', AgentText(record, authored, n, seen[n].text)
        PROVE  entry'[n] >= seen[n].text
    <3>1. CASE UNCHANGED entry
      BY <2>3, <3>1 DEF KnownTexts
    <3>2. CASE /\ r.step = "done" /\ r.ok /\ r.from = "reader" /\ r.attached
               /\ entry' = [entry EXCEPT ![r.node] = r.row.text]
      <4>1. CASE n = r.node
        <5>1. entry'[n] = r.row.text
          BY <2>3, <3>2, <4>1
        <5> QED
          BY <2>3, <3>2, <4>1, <5>1 DEF KnownTexts
      <4>2. CASE n # r.node
        <5>1. n \in DOMAIN entry /\ entry'[n] = entry[n]
          BY <2>3, <3>2, <4>2
        <5> QED
          BY <2>3, <5>1 DEF KnownTexts
      <4> QED
        BY <4>1, <4>2
    <3> QED
      BY <2>2, <3>1, <3>2
  <2> QED
    BY <2>1, <2>3 DEF KnownTexts
<1> QED
  BY <1>2, <1>3, <1>4, <1>5, <1>6, <1>7, <1>8, <1>9, <1>10, <1>12, <1>13, <1>14, <1>15 DEF EditNext

\* However events, answers and saves cross: text typed and not saved stays in
\* the entry until an answer disarms it (the patched applyEvent), and no save
\* puts back a text older than an agent's that the editor had been shown.
THEOREM EditsAreSoundAlways == EditSpec => []EditsAreSound
<1>1. Armed => TypedIsKept
  BY DEF Armed, TypedIsKept
<1>2. EditTypes /\ KnownTexts => SavesKeepSeenText
  <2> SUFFICES ASSUME EditTypes, KnownTexts, NEW r \in requests, Undoes(r, "text")
               PROVE  FALSE
    BY DEF SavesKeepSeenText
  <2>1. /\ r.step = "sent" /\ AgentText(record, authored, r.node, r.seen.text)
        /\ r.row.text < r.seen.text
    BY DEF Undoes, AgentText
  <2>2. r.row.text >= r.seen.text
    BY <2>1 DEF KnownTexts
  <2> QED
    BY <2>1, <2>2, TextsAreNumbers
<1>3. EditTypes /\ Armed /\ KnownTexts => EditsAreSound
  BY <1>1, <1>2 DEF EditsAreSound
<1> QED
  BY <1>3, EditTypesInit, EditTypesStep, ArmedInit, ArmedStep, UpToClockInit, UpToClockStep,
     KnownTextsInit, KnownTextsStep, PTL DEF EditSpec

HIDE EditAssumption

-----------------------------------------------------------------------------
(***************************************************************************)
(* 4. The three side by side.                                              *)
(***************************************************************************)

\* A behaviour of one part is, for the other two, one in which nothing happens.
LEMMA HostsAreTheirParts == HostsSpec => Spec /\ BindingsSpec /\ EditSpec
<1>1. HostsInit => Init /\ BindingsInit /\ EditInit
  BY DEF HostsInit
<1>2. [HostsNext]_<<part, vars, bindingsVars, editVars>>
          => [Next]_vars /\ [BindingsNext]_bindingsVars /\ [EditNext]_editVars
  <2> SUFFICES ASSUME [HostsNext]_<<part, vars, bindingsVars, editVars>>
               PROVE  [Next]_vars /\ [BindingsNext]_bindingsVars /\ [EditNext]_editVars
    OBVIOUS
  <2>1. CASE Next /\ UNCHANGED <<bindingsVars, editVars>>
    BY <2>1
  <2>2. CASE BindingsNext /\ UNCHANGED <<vars, editVars>>
    BY <2>2
  <2>3. CASE EditNext /\ UNCHANGED <<vars, bindingsVars>>
    BY <2>3
  <2>4. CASE UNCHANGED <<part, vars, bindingsVars, editVars>>
    BY <2>4
  <2> QED
    BY <2>1, <2>2, <2>3, <2>4, Zenon DEF HostsNext
<1> QED
  BY <1>1, <1>2, PTL DEF HostsSpec, Spec, BindingsSpec, EditSpec

\* Types, of servers and stores, of secrets and bindings, of pages and saves,
\* whichever of them a behaviour is about.
THEOREM HostsTypeCorrect == HostsSpec => []TypesOK
<1>1. TypeOK /\ BindingsTypeOK /\ EditTypeOK => TypesOK
  BY DEF TypesOK
<1> QED
  BY <1>1, HostsAreTheirParts, TypeCorrect, BindingsTypeCorrect, EditTypeCorrect, PTL
=============================================================================
