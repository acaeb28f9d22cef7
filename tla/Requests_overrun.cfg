SPECIFICATION Spec
CONSTANTS
    r1 = r1
    r2 = r2
    r3 = r3
    Req = {r1, r2, r3}
    Uses <- Roles
    Other = Other
    MaxDepth = 4
    MaxInbox = 1
INVARIANTS HandledIsPending
CHECK_DEADLOCK FALSE
