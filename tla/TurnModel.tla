------------------------------ MODULE TurnModel ------------------------------
(***************************************************************************)
(* The builder of the turn model (internal/server/turnmodel.go): every     *)
(* event of the rows it is given becomes one entry, and annotation alone   *)
(* says which entries a reader sees.  An event's type decides first, then  *)
(* the dual-emit pairs, then three passes surface text blocks that nothing *)
(* else shows.  The builder is a function of the rows and the pairs; what  *)
(* changes is the session it is run on, one event at a time.  It is run on *)
(* one turn (the stored path) and on the turns of a page together (the raw *)
(* page), and both views are of the same session.                          *)
(***************************************************************************)
EXTENDS DualEmit

CONSTANTS
    Inputs,       \* the events a session may be sent
    Texts,        \* texts of prompts and replies
    TurnNames,    \* turn ids that events carry
    NoTurn,       \* of an event without one
    Messages,     \* message ids
    NoMessage,    \* of an event of no message
    MaxEvents     \* bound: events of the session

\* classify: the types shown as conversation; "marker" is a system event of a
\* visible subtype.
Conversation == {"user_message", "result", "thinking", "tool_call", "tool_result",
                 "error", "session_file", "session_action", "marker"}
\* The types that are hidden: text deltas and text blocks, reasoning in either, other
\* system events, and the rest, an event that does not parse among it.
Superseded == {"delta", "block", "reasoning", "system", "meta"}
Candidates == {"user_message", "result"}
Readings == {"spend", "cost", "context"}   \* what the aggregates are taken from

\* says: a delta or block with a text that is not empty; carries: the readings.
Event == {ev \in [type : Conversation \cup Superseded, source : {"harness", "otel"},
                  recovered : BOOLEAN, text : Texts \cup {Plain}, says : BOOLEAN,
                  turn : TurnNames \cup {NoTurn}, message : Messages \cup {NoMessage},
                  carries : SUBSET Readings] :
            /\ ev.text # Plain => ev.type \in Candidates
            /\ ev.says => ev.type \in {"delta", "block", "reasoning"}}

ASSUME BoundsAssumption == MaxEvents \in Nat
ASSUME NamesAssumption ==
    /\ Inputs \subseteq Event
    /\ Plain \notin Texts /\ NoTurn \notin TurnNames /\ NoMessage \notin Messages

VARIABLE log      \* the session's events, in id order
vars == <<log>>
-----------------------------------------------------------------------------
(***************************************************************************)
(* Turns.                                                                  *)
(***************************************************************************)
Last(S) == CHOOSE e \in S : \A f \in S : f <= e
First(S) == CHOOSE e \in S : \A f \in S : e <= f

\* An event without a turn id belongs to the turn of the one before it; NoTurn
\* stands for the turn the first events open when they have none.
TurnOf(l, e) ==
    LET named == {f \in 1..e : l[f].turn # NoTurn}
    IN  IF named = {} THEN NoTurn ELSE l[Last(named)].turn
Turns(l) == {TurnOf(l, e) : e \in DOMAIN l}
Rows(l, t) == {e \in DOMAIN l : TurnOf(l, e) = t}

\* Rows of a page of several turns come turn by turn, each in event order.
RowBefore(l, e, f) ==
    LET opened(g) == First(Rows(l, TurnOf(l, g)))
    IN  opened(e) < opened(f) \/ (opened(e) = opened(f) /\ e <= f)
-----------------------------------------------------------------------------
(***************************************************************************)
(* Annotation.  A set of ids is what a pass makes primary.                 *)
(***************************************************************************)
\* By type, or as a copy of a pair, whose OTel copy is the hidden duplicate.
ShownByType(l, R) ==
    {e \in R : IF Twin(l, Len(l), e) = 0 THEN l[e].type \in Conversation ELSE l[e].source = "harness"}

Speaks(ev) == ev.type \in {"delta", "block"} /\ ev.says
Recovered(ev) == Speaks(ev) /\ (ev.recovered \/ ev.source = "otel")   \* isRecoveredOrOTelAssistantText
Live(ev) == Speaks(ev) /\ ~Recovered(ev)

\* supersedesBlocks.  Mutant: an empty result supersedes too.
AnswersWhenever(ev) == ev.type = "result"
Answers(ev) == ev.type = "result" /\ ev.text # Plain

\* surfaceRecoveredBlocks.  Mutant: live text does not supersede a recovered block.
SurfacedUnlessAnswered(l, T) ==
    {e \in T : Recovered(l[e]) /\ \A f \in T : ~Answers(l[f])}
SurfacedRecovered(l, T) ==
    {e \in T : Recovered(l[e]) /\ \A f \in T : ~Answers(l[f]) /\ ~Live(l[f])}

\* surfaceUnsupersededBlocks.
TextBlock(ev) == ev.type = "block" /\ Live(ev)
SurfacedUnsuperseded(l, T) == {e \in T : TextBlock(l[e]) /\ \A f \in T : ~Answers(l[f])}

\* surfaceNarrationBlocks.  Mutant: blocks and calls without a message id join.
SurfacedNameless(l, R) ==
    {e \in R : TextBlock(l[e]) /\ \E f \in R : l[f].type = "tool_call" /\ l[f].message = l[e].message}
SurfacedNarration(l, R) ==
    {e \in R : /\ TextBlock(l[e]) /\ l[e].message # NoMessage
               /\ \E f \in R : l[f].type = "tool_call" /\ l[f].message = l[e].message}

\* buildTurnModel over rows R: the entries that projectForReading keeps.
Shown(l, R) ==
    ShownByType(l, R) \cup SurfacedNarration(l, R)
        \cup UNION {LET T == R \cap Rows(l, t)
                    IN  SurfacedRecovered(l, T) \cup SurfacedUnsuperseded(l, T) : t \in Turns(l)}

\* A stored page holds what each of its turns shows, built alone.
StoredShown(l) == UNION {Shown(l, Rows(l, t)) : t \in Turns(l)}
-----------------------------------------------------------------------------
(***************************************************************************)
(* Aggregates: the event each reading of a page is taken from, 0 for none. *)
(***************************************************************************)
Carriers(l, R, r) == {e \in R : r \in l[e].carries}

\* aggregateSources of one turn: its rows are in event order, the last one wins.
TurnSources(l, t) ==
    [r \in Readings |-> LET from == Carriers(l, Rows(l, t), r) IN IF from = {} THEN 0 ELSE Last(from)]

\* assembleStoredPage: the latest by event id.  Mutant: the newest turn that has one.
NewestTurnSources(l) ==
    [r \in Readings |->
        LET from == {t \in Turns(l) : TurnSources(l, t)[r] # 0}
            opened(t) == First(Rows(l, t))
        IN  IF from = {} THEN 0
            ELSE TurnSources(l, CHOOSE t \in from : \A u \in from : opened(u) <= opened(t))[r]]
StoredSources(l) ==
    [r \in Readings |-> Last({0} \cup {TurnSources(l, t)[r] : t \in Turns(l)})]

\* buildTurnModel over all rows: the last row wins.  Mutant: the first does.
RawSourcesFirst(l) ==
    [r \in Readings |->
        LET from == Carriers(l, DOMAIN l, r)
        IN  IF from = {} THEN 0 ELSE CHOOSE e \in from : \A f \in from : RowBefore(l, e, f)]
RawSources(l) ==
    [r \in Readings |->
        LET from == Carriers(l, DOMAIN l, r)
        IN  IF from = {} THEN 0 ELSE CHOOSE e \in from : \A f \in from : RowBefore(l, f, e)]
-----------------------------------------------------------------------------
Init == log = <<>>

StoreEvent(ev) == Len(log) < MaxEvents /\ log' = Append(log, ev)

Next == \E ev \in Inputs : StoreEvent(ev)

Spec == Init /\ [][Next]_vars
-----------------------------------------------------------------------------
\* Type correctness.
TypeOK == log \in Seq(Event) /\ Len(log) \in 0..MaxEvents

\* "Runs after A1 so the two passes cannot both promote in one turn"
\* (turnmodel.go:624), by candidates that exclude each other rather than by that
\* order: a turn that shows a recovered text shows no block and no result with text,
\* on a page of any turns.
OneVoice ==
    \A e, f \in Shown(log, DOMAIN log) :
        (TurnOf(log, e) = TurnOf(log, f) /\ Recovered(log[e]))
            => ~TextBlock(log[f]) /\ ~Answers(log[f])

\* Nothing said is lost: a turn in which a result or a text block says
\* something, or nothing but recovered text does, shows words of the assistant,
\* unless another turn shows the twin of its result.
Words(ev) == Speaks(ev) \/ (ev.type = "result" /\ ev.text # Plain)
WordsReachReader ==
    \A t \in Turns(log) :
        LET T == Rows(log, t)
            spoken == {e \in T : Words(log[e])}
            recoveredOnly == \A e \in spoken : Recovered(log[e])
            kept == {e \in T : log[e].type = "result" \/ TextBlock(log[e])}
        IN  (spoken \cap kept # {} \/ (spoken # {} /\ recoveredOnly))
                => \/ spoken \cap Shown(log, T) # {}
                   \/ \E e \in spoken : Twin(log, Len(log), e) \in StoredShown(log)

\* "which is what lets a single turn be built correctly when its twin landed in
\* another" (turnmodel.go:438): the turns of a page built together show what each
\* shows built alone, as long as no message spans two turns.
MessagesKeepTurn(l) ==
    \A e, f \in DOMAIN l :
        (l[e].message # NoMessage /\ l[e].message = l[f].message) => TurnOf(l, e) = TurnOf(l, f)
AloneAsTogether == MessagesKeepTurn(log) => Shown(log, DOMAIN log) = StoredShown(log)

\* "a genuine re-send still shows twice, and a turn whose only record is the OTel
\* copy still renders" (dedup.go:21): of each text as many copies are shown as the
\* source that reported it more often reported.
ShownAsOften ==
    \A x \in Texts :
        LET copies(S, source) == {e \in S : log[e].text = x /\ log[e].source = source}
            number(source) == Cardinality(copies(DOMAIN log, source))
            shown == StoredShown(log)
        IN  Cardinality(copies(shown, "harness")) + Cardinality(copies(shown, "otel"))
                = IF number("harness") < number("otel") THEN number("otel") ELSE number("harness")

\* "Latest by event id across the page" (stored_turns.go:146): turns may interleave,
\* a page of stored turns still takes each reading from the newest event that has it.
StoredReadingsLatest ==
    \A r \in Readings : \A e \in Carriers(log, DOMAIN log, r) :
        StoredSources(log)[r] \in Carriers(log, DOMAIN log, r) /\ e <= StoredSources(log)[r]

\* "Rows are iterated in eventId-ASC order, so a later assignment is the LATEST
\* value" (turnmodel.go:461) is not so on a raw page of turns that interleave, whose
\* rows come turn by turn.  A raw page's reading differs from the stored page's exactly
\* when a turn opened after the latest reading's turn carries one too: it is then one of
\* such a turn, and older than the stored page's.
RawReadingsLag ==
    \A r \in Readings :
        LET raw == RawSources(log)[r]
            stored == StoredSources(log)[r]
            opened(e) == First(Rows(log, TurnOf(log, e)))
            overtaking == {e \in Carriers(log, DOMAIN log, r) : opened(e) > opened(stored)}
        IN  IF overtaking = {} THEN raw = stored ELSE raw \in overtaking /\ raw < stored
=============================================================================
