SPECIFICATION FairSpec
CONSTANTS
    Sessions = {m1, m2}
    MaxOffset = 2
    Scenarios <- Checked
CHECK_DEADLOCK FALSE
INVARIANTS
    ExactlyOnce
    CommitIsTrue
PROPERTIES
    EndReturns
