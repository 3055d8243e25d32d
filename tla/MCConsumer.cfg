SPECIFICATION FairSpec
CONSTANTS
    s1 = s1
    s2 = s2
    p1 = p1
    p2 = p2
    Sources = {s1, s2}
    Partitions = {p1, p2}
    MaxOffset = 3
    RecheckElapses = FALSE
    SetTo = {0}
    Scenarios <- Checked
INVARIANTS
    InOrder
    CursorAccounted
    ManagerExact
    IdleHasNothing
PROPERTY StopReturns
CHECK_DEADLOCK FALSE
