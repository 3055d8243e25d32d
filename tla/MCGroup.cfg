SPECIFICATION FairSpec
CONSTANTS
    m1 = m1
    m2 = m2
    p1 = p1
    p2 = p2
    NoReply = NoReply
    NoLeader = NoLeader
    Members = {m1, m2}
    Partitions = {p1, p2}
    Half = 4
    Scenarios <- Checked
CHECK_DEADLOCK FALSE
INVARIANTS
    CallbacksSerial
    RevokedIsQuiet
    AssignedIsConsumed
PROPERTIES
    OneConsumer
    GroupSettles
