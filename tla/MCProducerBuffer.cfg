SPECIFICATION Spec
CONSTANTS
    a = a
    b = b
    c = c
    f1 = f1
    None = None
    Records = {a, b, c}
    Flushers = {f1}
    Size <- MixedSizes
    Invalid = {}
    NonBlocking = {c}
    Cancelable = {b}
    FlushCancelable = {f1}
    MaxRecords = 2
    MaxBytes = 2
CHECK_DEADLOCK FALSE
INVARIANTS
    LimitHeld
    ProducersWoken
    FlushMeansFlushed
PROPERTY CallsReturn
