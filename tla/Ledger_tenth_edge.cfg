\* One process adds sensitive edges to one pair, up to ten, and nothing fails.
SPECIFICATION Spec
CONSTANTS
    owns = owns
    feeds = feeds
    p1 = p1
    p2 = p2
    ui = ui
    NoLabel = NoLabel
    NoEdge = NoEdge
    Process <- OneProcess
    Server <- NoServer
    Label <- MC_Sensitive
    Sensitive <- MC_Sensitive
    Outcome <- MC_Outcome
    Base = 10
    MaxAdds = 10
    MaxRows = 10
INVARIANT SensitiveEdgeIsQuestioned
CONSTRAINT OnlyAdds
CHECK_DEADLOCK FALSE
