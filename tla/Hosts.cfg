\* An MCP server and a UI server, two workspaces, three migrations; two actors,
\* one secret, two sources; two nodes, one save of each editor.
SPECIFICATION HostsSpec
CONSTANTS
    m1 = m1
    u1 = u1
    w1 = w1
    w2 = w2
    a1 = a1
    a2 = a2
    h1 = h1
    s1 = s1
    s2 = s2
    i1 = i1
    i2 = i2
    i3 = i3
    n1 = n1
    n2 = n2
    None = None
    Partial = Partial
    Jumbled = Jumbled
    Mcp <- MC_Mcp
    Ui <- MC_Ui
    Workspace <- MC_Workspace
    Latest = 3
    MaxStores = 3
    MaxStarts = 3
    MaxSwitches = 2
    MaxFaults = 1
    Unset = Unset
    Unwritten = Unwritten
    Garbled = Garbled
    Actor <- MC_Actor
    Handle <- MC_Handle
    Source <- MC_Source
    Inode <- MC_Inode
    MaxAdds = 2
    MaxBinds = 2
    MaxCalls = 4
    MaxCuts = 1
    Node <- MC_Node
    NoNode = NoNode
    MaxVersions = 2
    MaxSaves = 1
SYMMETRY MC_Symmetry
INVARIANTS
    TypesOK
    OpenStoresAreWhole
    RegistrationsAreKept
    SessionsStayInTheirWorkspace
    ValidWasProbed
    BindingFileIsSound
    CopiesAgree
    EditsAreSound
PROPERTIES
    ServersEndAsAsked
CHECK_DEADLOCK FALSE
