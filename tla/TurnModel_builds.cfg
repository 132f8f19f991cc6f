SPECIFICATION Spec
CONSTANTS
    hello = hello
    tA = tA
    tB = tB
    m1 = m1
    Texts = {hello}
    Plain = plain
    TurnNames = {tA, tB}
    NoTurn = noturn
    Messages = {m1}
    NoMessage = nomessage
    Inputs <- AllInputs
    MaxEvents = 4
SYMMETRY NameSymmetry
INVARIANTS OneVoice WordsReachReader AloneAsTogether ShownAsOften StoredReadingsLatest RawReadingsLag
CHECK_DEADLOCK FALSE
