SPECIFICATION FairSpec
CONSTANTS
    Kinds = {Normal, Produce}
    NoAcks = Produce
    Scenarios <- Checked
INVARIANTS PromisedOnce NoGap
PROPERTIES AllPromised
CHECK_DEADLOCK FALSE
