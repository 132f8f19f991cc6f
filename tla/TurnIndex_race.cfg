SPECIFICATION Spec
CONSTANTS
    Sessions = {s1}
    Readers = {r1}
    Backfill = bf
    Nobody = nobody
    TurnNames = {}
    NoTurn = none
    Kinds = {user_message}
    Prompt = user_message
    Versions = {1}
    CandidateKinds <- MCCandidateKinds
    Chunk = 2
    MaxEvents = 2
    MaxLegacy = 0
    MaxRestarts = 0
    Rollback = FALSE
INVARIANTS BuildSucceeds
CHECK_DEADLOCK FALSE
