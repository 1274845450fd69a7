\* One MCP process writes while the page is open; nobody else writes or edits.
SPECIFICATION FairSpec
CONSTANTS
    n1 = n1
    w1 = w1
    w2 = w2
    v1 = v1
    server = server
    NoNode = NoNode
    Node <- MC_Node
    Writer <- OneWriter
    Viewer <- MC_Viewer
    Srv = server
    BatchLimit = 2
    ReceiptCap = 1
    MaxRows = 4
    MaxFaults = 0
    MaxWrites = 2
    OtherWrites = {}
    Edits = FALSE
INVARIANT ShowsWithoutRefresh
CHECK_DEADLOCK FALSE
