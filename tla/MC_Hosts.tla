------------------------------ MODULE MC_Hosts ------------------------------
(***************************************************************************)
(* What the processes of one machine keep in files or on a page: stores    *)
(* and their registry, secrets and their bindings, edits.  The three share *)
(* no state, so that a behaviour is about one of them: `part` says which,  *)
(* and the variables of the others keep their first values.                *)
(***************************************************************************)
EXTENDS Sessions, SourceBindings, EditSession, TLC

CONSTANTS m1, u1, w1, w2, a1, a2, h1, s1, s2, i1, i2, i3, n1, n2

VARIABLE part

MC_Mcp == {m1}
MC_Ui == {u1}
MC_Workspace == {w1, w2}
MC_Actor == {a1, a2}
MC_Handle == {h1}
MC_Source == {s1, s2}
MC_Inode == {i1, i2, i3}
MC_Node == {n1, n2}

\* A behaviour is about one part, so that one exchange serves all: that of the
\* workspaces in the first, of the actors in the second, of the nodes in the third.
Pairs == {<<w1, w2>>, <<a1, a2>>, <<n1, n2>>}
Exchange == [x \in UNION {{p[1], p[2]} : p \in Pairs} |->
                LET p == CHOOSE q \in Pairs : x \in {q[1], q[2]}
                IN IF x = p[1] THEN p[2] ELSE p[1]]
MC_Symmetry == {Exchange} \union Permutations(MC_Source)

HostsInit ==
    /\ part \in {"stores", "secrets", "edits"}
    /\ Init /\ BindingsInit /\ EditInit
    /\ part # "edits" => onPage = Node
    /\ main = i1      \* the inodes are alike

\* Bound: three starts and a request, or two and two.
MaxActs == 4
FewActs == starts' + switches' <= MaxActs

HostsNext ==
    /\ \/ part = "stores" /\ Next /\ FewActs /\ UNCHANGED <<bindingsVars, editVars>>
       \/ part = "secrets" /\ BindingsNext /\ UNCHANGED <<vars, editVars>>
       \/ part = "edits" /\ EditNext /\ UNCHANGED <<vars, bindingsVars>>
    /\ UNCHANGED part

HostsSpec == HostsInit /\ [][HostsNext]_<<part, vars, bindingsVars, editVars>>

\* The types of all three.
TypesOK == TypeOK /\ BindingsTypeOK /\ EditTypeOK
=============================================================================
