SPECIFICATION Spec
CONSTANTS
    Names = {s1, s2}
    Surfaces = {x1}
    MaxPane = 4
    MaxOps = 3
    MaxSwaps = 3
CHECK_DEADLOCK FALSE
INVARIANTS
    LiveWhole
    RestoresAll
    TreeObeysOrder
