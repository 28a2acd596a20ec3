SPECIFICATION Spec
CONSTANTS
    Words = {"a", "b"}
    Printed <- PrintedTexts
    Heights = {2, 3}
    SCROLLBACK = 2
    WHEEL_ROWS_PER_TICK = 1
    MaxInputs = 4
    Prefixes = {"ctrl+a", "ctrl+b"}
    DefaultPrefix = "ctrl+b"
CHECK_DEADLOCK FALSE
INVARIANTS
    ViewIsLive
PROPERTIES
    CopiesDragged
    SearchKeepsView
    NextIsNearest
    ConfigApplied
