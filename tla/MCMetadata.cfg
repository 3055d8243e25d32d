SPECIFICATION FairSpec
CONSTANTS
    Producers = {p1, p2}
    WaitCap = 2
    NowTries = 2
    Scenarios <- Checked
INVARIANTS HandedOnOnce OneBuffer
PROPERTIES RecordsSettle
CHECK_DEADLOCK FALSE
