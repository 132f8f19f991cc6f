SPECIFICATION FairSpec
CONSTANTS
    Days = {1, 2, 3}
    Seconds = {1}
    NoTime = always
    Windows <- AllWindows
    MaxEvents = 5
INVARIANTS TypeOK SliceRight
PROPERTIES SearchEnds
CHECK_DEADLOCK FALSE
