SPECIFICATION Spec
CONSTANTS
    Days = {1, 2}
    Seconds = {1, 2}
    NoTime = always
    Windows <- AllWindows
    MaxEvents = 2
INVARIANTS WindowExact
CHECK_DEADLOCK FALSE
