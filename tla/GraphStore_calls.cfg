\* An MCP process and the UI server, three calls, one of which may be cut short.
SPECIFICATION FairSpec
CONSTANTS
    mcp = mcp
    ui = ui
    n1 = n1
    n2 = n2
    c1 = c1
    c2 = c2
    NoNode = NoNode
    Gone = Gone
    Process <- MC_Process
    Server <- MC_Server
    Node <- MC_Node
    Cluster <- MC_Cluster
    Payload <- MC_Payload
    MaxEdges = 2
    MaxCalls = 3
    MaxFaults = 1
INVARIANTS
    TypeOK
    CountsFollow
    WritesAreKept
    StatusIsAsAsked
PROPERTIES
    ServersRecover
CHECK_DEADLOCK FALSE
