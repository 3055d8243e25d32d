SPECIFICATION Spec
CONSTANTS
    s1 = s1
    s2 = s2
    p1 = p1
    p2 = p2
    None = None
    Partitions = {p1}
    Sinks = {s1, s2}
    FirstLeader <- OneLeader
    BatchMax = 2
    MaxInflight = 2
    MaxUnknown = 1
    MaxInt32 = 7
    Window = 3
    Scenarios <- Checked
CHECK_DEADLOCK FALSE
INVARIANTS
    InflightOnOneSink
    OnceInOrder
    PromisesTrue
