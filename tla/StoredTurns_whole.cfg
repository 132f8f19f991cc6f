SPECIFICATION Spec
CONSTANTS
    Readers = {r1}
    Materializer = mat
    Texts = {hello}
    PromptTexts = {hello}
    Plain = plain
    Versions = {v1}
    NoVersion = v0
    StaleTurns = 1
    Requests <- PageRequests
    NoRequest = none
    MaxEvents = 3
    MaxTurns = 2
    MaxRestarts = 0
INVARIANTS PageWhole
CHECK_DEADLOCK FALSE
