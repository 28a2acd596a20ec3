SPECIFICATION FairSpec
CONSTANTS
    Anchor = {p1, p2}
    Window = {w1, w2}
    Task = {t1, t2}
    None = None
INVARIANTS
    OneOwner
PROPERTIES
    LaunchTakesNew
    Answered
CHECK_DEADLOCK FALSE
