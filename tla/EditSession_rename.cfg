\* Two nodes, two changes, one save of each editor.  The person and the agents
\* may stop at any time.
SPECIFICATION EditSpec
CONSTANTS
    n1 = n1
    n2 = n2
    Node <- MC_Node
    NoNode = NoNode
    MaxVersions = 2
    MaxSaves = 1
SYMMETRY MC_Symmetry
INVARIANTS
    SavesKeepRenames
CHECK_DEADLOCK FALSE
