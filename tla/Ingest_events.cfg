SPECIFICATION FairSpec
CONSTANTS
    s1 = s1
    s2 = s2
    hA = hA
    hB = hB
    Handlers = {h1, h2}
    Sessions = {s1, s2}
    HarnessIds = {hA}
    NoHarness = none
    Requests <- PromptsAndEnds
    MaxEvents = 3
    MaxFaults = 1
INVARIANTS TypeOK ProjectionTallies ResultsAccounted NoLostWake NoEndForgotten
PROPERTIES EndedTurnsVisited
CHECK_DEADLOCK FALSE
