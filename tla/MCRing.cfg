CONSTANTS
    Eight = 2
    Pushers = {p1, p2}
    MaxPush = 6
    NoElem = NoElem
SPECIFICATION Spec
INVARIANTS OneWorker DeathIsPrompt
PROPERTY QueueSpec
CHECK_DEADLOCK FALSE
