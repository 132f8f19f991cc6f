SPECIFICATION Spec
CONSTANTS
    Sessions = {s1}
    Readers = {r1}
    Backfill = bf
    Nobody = nobody
    TurnNames = {a, b}
    NoTurn = none
    Kinds = {user_message, result}
    Prompt = user_message
    Versions = {1, 2}
    CandidateKinds <- MCCandidateKinds
    Chunk = 2
    MaxEvents = 4
    MaxLegacy = 2
    MaxRestarts = 1
    Rollback = FALSE
SYMMETRY NameSymmetry
INVARIANTS TypeOK IndexFaithful IngestNeverConflicts
PROPERTIES ImplementsTurnLog
CHECK_DEADLOCK FALSE
