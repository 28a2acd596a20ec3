SPECIFICATION Spec
CONSTANTS
    Clients = {"c1", "c2"}
    Sizes = {1, 3}
    MinConfigure = 2
    MaxSurface = 2
    MaxQueue = 2
    Scenes <- SmallScenes
CHECK_DEADLOCK FALSE
INVARIANTS
    NoGhosts
    ShowsAll
    InputReachesTarget
PROPERTIES
    FinalSize
