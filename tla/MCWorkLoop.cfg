CONSTANTS
    Triggers = {t1, t2, t3}
    MaxWork = 4
SPECIFICATION Spec
INVARIANTS OneLoop NoLostWakeup
PROPERTY WorkGetsDone
CHECK_DEADLOCK FALSE
