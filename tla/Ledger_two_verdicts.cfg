\* Two processes judge the same question.
SPECIFICATION Spec
CONSTANTS
    owns = owns
    feeds = feeds
    p1 = p1
    p2 = p2
    ui = ui
    NoLabel = NoLabel
    NoEdge = NoEdge
    Process <- TwoProcesses
    Server <- NoServer
    Label <- MC_Label
    Sensitive <- MC_Sensitive
    Outcome <- MC_Outcome
    Base = 10
    MaxAdds = 2
    MaxRows = 4
INVARIANT VerdictAnswersPending
CHECK_DEADLOCK FALSE
