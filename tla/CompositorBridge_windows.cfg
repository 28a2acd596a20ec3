\* fair threads and a compositor that answers
CONSTANTS
    Windows = {w1, w2}
    MaxAnchor = 3
    MaxSwitch = 4
SPECIFICATION FairSpec
INVARIANTS
    WindowsFollowAnchor
PROPERTIES
    LatestWins
    Settles
CHECK_DEADLOCK FALSE
