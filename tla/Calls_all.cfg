SPECIFICATION Spec
CONSTANTS
    Limits = {1, 2}
    Cap = 2
    MaxEvents = 4
    MaxTries = 3
INVARIANTS TypeOK WalkWhole PageHoldsLimit MoreTruthful CutAtCap StateWasTrue PolledOnce PushedOnce
CHECK_DEADLOCK FALSE
