SPECIFICATION Spec
CONSTANTS
    s1 = s1
    s2 = s2
    hA = hA
    hB = hB
    Handlers = {h1, h2}
    Sessions = {s1}
    HarnessIds = {hA, hB}
    NoHarness = none
    Requests <- Resumed
    MaxEvents = 2
    MaxFaults = 0
INVARIANTS HarnessIsLatest
CHECK_DEADLOCK FALSE
