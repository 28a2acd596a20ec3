CONSTANTS
    MaxPane = 4
    Surfaces = {s1, s2}
SPECIFICATION Spec
INVARIANTS
    SurfacesShown
CHECK_DEADLOCK FALSE
