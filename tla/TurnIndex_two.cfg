SPECIFICATION FairSpec
CONSTANTS
    Sessions = {s1, s2}
    Readers = {r1}
    Backfill = bf
    Nobody = nobody
    TurnNames = {}
    NoTurn = none
    Kinds = {user_message}
    Prompt = user_message
    Versions = {1, 2}
    CandidateKinds <- MCCandidateKinds
    Chunk = 1
    MaxEvents = 3
    MaxLegacy = 2
    MaxRestarts = 1
    Rollback = FALSE
INVARIANTS ReaderSeesIndex BackfillNeverFails BackfillLeavesNone
PROPERTIES AwaitingIndexed
CHECK_DEADLOCK FALSE
