\* Timers of the GTK main loop are fair; everybody else may stop at any time.
CONSTANT MaxPane = 3
SPECIFICATION FairSpec
INVARIANTS
    PausedIsFrozen
    HiddenIsRecorded
    HiddenStaysHidden
PROPERTY ClosedProcessEnds
CHECK_DEADLOCK FALSE
