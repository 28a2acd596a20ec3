CONSTANTS
    Name = {a, b}
    Time = {1, 2}
    NoName = none
    Faults = TRUE
    MaxId = 3
SPECIFICATION Spec
INVARIANTS
    IndexAgrees
PROPERTY NothingLost
CHECK_DEADLOCK FALSE
