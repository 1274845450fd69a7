\* Two MCP processes and a UI server add, delete and judge up to three edges of a pair.
SPECIFICATION Spec
CONSTANTS
    owns = owns
    feeds = feeds
    p1 = p1
    p2 = p2
    ui = ui
    NoLabel = NoLabel
    NoEdge = NoEdge
    Process <- WithServer
    Server <- MC_Server
    Label <- MC_Label
    Sensitive <- MC_Sensitive
    Outcome <- MC_Outcome
    Base = 10
    MaxAdds = 3
    MaxRows = 3
INVARIANTS
    TypeOK
    VerdictFollowsQuestion
    NoAddIsLost
    LedgerDescribesEdges
PROPERTIES
    QuestionStaysOpen
SYMMETRY ProcessSymmetry
CHECK_DEADLOCK FALSE
