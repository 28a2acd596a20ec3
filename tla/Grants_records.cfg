SPECIFICATION GrantsSpec
CONSTANTS
    Agent = {a1}
    Workspaces = {p1, p2}
    What = {rename}
    Rename = rename
    MaxGrant = 3
INVARIANTS
    UsedAsDecided
CHECK_DEADLOCK FALSE
