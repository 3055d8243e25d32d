SPECIFICATION FairSpec
CONSTANTS
    MaxOffset = 3
    Scenarios <- Checked
CHECK_DEADLOCK FALSE
INVARIANTS
    AtLeastOnce
    RevokeCommits
PROPERTIES
    NeverRefused
    CommitsInOrder
    AllReturn
