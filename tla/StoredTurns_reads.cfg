SPECIFICATION Spec
CONSTANTS
    Readers = {r1}
    Materializer = mat
    Texts = {hello}
    PromptTexts = {hello}
    Plain = plain
    Versions = {v1, v2}
    NoVersion = v0
    StaleTurns = 1
    Requests <- ReadRequests
    NoRequest = none
    MaxEvents = 3
    MaxTurns = 2
    MaxRestarts = 1
SYMMETRY VersionSymmetry
INVARIANTS TypeOK FreshIsRight PageAsNewAsRead
PROPERTIES PairsStay
CHECK_DEADLOCK FALSE
