\* Terminals only: macOS, or Linux when the nested Wayland host did not start.
\* The main loop runs the idle callbacks it was given.
CONSTANTS
    MaxPane = 4
    Surfaces = {}
SPECIFICATION FairSpec
INVARIANTS
    LayoutIsPanes
    WellOwned
    TabStacks
    NeverBlank
PROPERTIES
    NeighboursSurvive
    StableView
    ExitedPaneGoes
CHECK_DEADLOCK FALSE
