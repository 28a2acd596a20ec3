SPECIFICATION FairSpec
CONSTANTS
    Cockpits = {p1, p2}
    Clients = {"c1", "c2"}
    Scenes <- SmallScenes
    ToolCalls = {"satellite_launch", "pane_tail"}
    PeerFrames = {"not an envelope", "too large", "unknown", "hello", "pane.tail", "pane.list"}
    MaxCalls = 2
INVARIANTS
    OwnSocket
    AnswersFit
PROPERTY
    AllAnswered
CHECK_DEADLOCK FALSE
