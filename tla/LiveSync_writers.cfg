\* Two MCP processes and the UI server write one node; its page is also edited.
SPECIFICATION Spec
CONSTANTS
    n1 = n1
    w1 = w1
    w2 = w2
    v1 = v1
    server = server
    NoNode = NoNode
    Node <- MC_Node
    Writer <- TwoWriters
    Viewer <- MC_Viewer
    Srv = server
    BatchLimit = 2
    ReceiptCap = 1
    MaxRows = 2
    MaxFaults = 0
    MaxWrites = 2
    OtherWrites = {"post", "patch", "silent"}
    Edits = TRUE
INVARIANTS
    StaleOnlyIfExplained
SYMMETRY WriterSymmetry
CHECK_DEADLOCK FALSE
