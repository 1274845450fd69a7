\* An MCP process and the UI server write; one process stop, failed commit,
\* failed mark, broken socket or failed fetch, anywhere.
SPECIFICATION FairSpec
CONSTANTS
    n1 = n1
    w1 = w1
    w2 = w2
    v1 = v1
    server = server
    NoNode = NoNode
    Node <- MC_Node
    Writer <- OneWriter
    Viewer <- MC_Viewer
    Srv = server
    BatchLimit = 2
    ReceiptCap = 1
    MaxRows = 2
    MaxFaults = 1
    MaxWrites = 2
    OtherWrites = {"patch", "silent"}
    Edits = FALSE
INVARIANTS
    TypeOK
    StaleOnlyIfExplained
PROPERTIES PagesCatchUp
CHECK_DEADLOCK FALSE
