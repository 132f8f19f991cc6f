-------------------------------- MODULE Calls --------------------------------
(***************************************************************************)
(* A client of log-store and the answers that take several steps: paging   *)
(* back through a session (store.TurnWindow's queries, and on the raw page *)
(* server.materializeTail's cap and reads), TurnState's two queries, and   *)
(* pushing an event over a connection that may give out.  Events of other  *)
(* clients arrive between any two of these steps.                          *)
(*                                                                         *)
(* A page first indexes its session, and from then on ingest keeps the     *)
(* index with the events (TurnIndex), so each query sees the turns of the  *)
(* log of its moment.  Ids are of all sessions: event k of this one has id *)
(* 2k, and an odd id is of none of its events.                             *)
(***************************************************************************)
EXTENDS Integers, Sequences, FiniteSets

CONSTANTS
    Limits,      \* turns asked for
    Cap,         \* rawEventCap
    MaxEvents,   \* bound: events of the session
    MaxTries     \* bound: sends of the event a client pushes

\* An error ends a turn as a result does; "pushed" is the event the client sends.
Types == {"user_message", "result", "pushed"}
Seqs == 1..MaxEvents                            \* turn_seq
Event == [turn : Seqs, type : Types]

ASSUME BoundsAssumption ==
    /\ MaxEvents \in Nat /\ MaxTries \in Nat
    /\ Cap \in Nat \ {0} /\ Limits \subseteq Nat \ {0}

VARIABLES
    log,       \* the session's events
    pc,        \* the step the client's call is at
    ask,       \* the page asked for, and what its queries found
    rows,      \* the raw page's events, read so far
    walk,      \* the pages a client has taken on its way back
    state,     \* what TurnState's queries found
    poll,      \* what a client that polls has been given
    push,      \* the request that carries the pushed event
    strays     \* requests whose sender gave up before they were stored

vars == <<log, pc, ask, rows, walk, state, poll, push, strays>>
-----------------------------------------------------------------------------
(***************************************************************************)
(* The turns of n events.                                                  *)
(***************************************************************************)
Turns(l, n) == {l[e].turn : e \in 1..n}
Rows(l, n, S) == {e \in 1..n : l[e].turn \in S}
PromptTurns(l, n) == {l[e].turn : e \in {e \in 1..n : l[e].type = "user_message"}}
Newest(S) == CHOOSE t \in S : \A u \in S : u <= t
Oldest(S) == CHOOSE t \in S : \A u \in S : t <= u

\* ORDER BY ... DESC LIMIT 1 OFFSET limit - 1.
HasNth(S, limit) == Cardinality(S) >= limit
Nth(S, limit) == CHOOSE t \in S : Cardinality({u \in S : u >= t}) = limit

\* The range of a query: turns below the bound, 0 being none.
InRange(S, bound) == {t \in S : bound = 0 \/ t < bound}
-----------------------------------------------------------------------------
NoAsk == [raw |-> FALSE, limit |-> 1, before |-> 0, bound |-> 0, start |-> 0,
          began |-> 0, chosen |-> 0, turns |-> {}, more |-> FALSE]
NoWalk == [began |-> 0, top |-> 0, turns |-> {}]
NoState == [asked |-> 0, answered |-> 0, newest |-> [type \in {"user_message", "result"} |-> 0]]
NoPoll == [types |-> {}, mark |-> 0, asked |-> 0, given |-> {}, count |-> 0]
NoPush == [at |-> "none", tries |-> 0, lost |-> 0]

Init ==
    /\ log = <<>> /\ pc = "idle" /\ ask = NoAsk /\ rows = {}
    /\ walk = NoWalk /\ state = NoState /\ poll = NoPoll /\ push = NoPush /\ strays = 0

\* StoreEvent, of any client: the event joins a turn or opens the next one.
Stored(ev) ==
    /\ Len(log) < MaxEvents
    /\ ev.turn <= Cardinality(Turns(log, Len(log))) + 1
    /\ log' = Append(log, ev)

Arrive(ev) ==
    /\ ev.type # "pushed" /\ Stored(ev)
    /\ UNCHANGED <<pc, ask, rows, walk, state, poll, push, strays>>
-----------------------------------------------------------------------------
(***************************************************************************)
(* TurnWindow.                                                             *)
(***************************************************************************)
PageStep(at) == pc = at /\ UNCHANGED <<log, state, poll, push, strays>>

\* A client asks for a page: the newest or one before some id, and then, as long as
\* it is told of more, the page before an event of the oldest turn it was given.
AskPage(raw, limit, before) ==
    /\ PageStep("idle")
    /\ ask' = [NoAsk EXCEPT !.raw = raw, !.limit = limit, !.before = before, !.began = Len(log)]
    /\ walk' = [NoWalk EXCEPT !.began = Len(log)]
    /\ pc' = "bound" /\ UNCHANGED rows

AskOlder(e) ==
    /\ PageStep("page")
    /\ ask.more /\ e \in Rows(log, Len(log), {Oldest(ask.turns)})
    /\ ask' = [NoAsk EXCEPT !.raw = ask.raw, !.limit = ask.limit, !.before = 2 * e, !.began = Len(log)]
    /\ rows' = {} /\ pc' = "bound" /\ UNCHANGED walk

\* The turn that holds the cursor's event is the bound.  Mutant: the turn below it is.
BoundSkipsOne(l, e) == l[e].turn - 1
BoundOf(l, e) == l[e].turn

Bounded(bound) ==
    /\ ask' = [ask EXCEPT !.bound = bound]
    /\ walk' = IF walk.turns = {} THEN [walk EXCEPT !.top = bound] ELSE walk
    /\ pc' = "start"

FindBound ==
    /\ PageStep("bound") /\ UNCHANGED rows
    /\ \/ ask.before = 0 /\ Bounded(0)
       \/ \E e \in DOMAIN log : ask.before = 2 * e /\ Bounded(BoundOf(log, e))
       \/ /\ \A e \in {0} \cup DOMAIN log : ask.before # 2 * e
          /\ pc' = "below" /\ UNCHANGED <<ask, walk>>

\* Of a cursor that names no event of the session, the turn of the newest event below
\* it is still in range; if there is none the page is empty.
FindBelow ==
    /\ PageStep("below") /\ UNCHANGED rows
    /\ LET below == {e \in DOMAIN log : 2 * e < ask.before}
       IN  IF below # {} THEN Bounded(log[Newest(below)].turn + 1)
           ELSE pc' = "page" /\ walk' = [walk EXCEPT !.top = 1] /\ UNCHANGED ask

\* The limit-th newest prompt turn in range.  Mutant: OFFSET limit.
StartAfterLimit(S, limit) == IF HasNth(S, limit + 1) THEN Nth(S, limit + 1) ELSE 1
StartOf(S, limit) == Nth(S, limit)

FindStart ==
    /\ PageStep("start")
    /\ LET prompts == InRange(PromptTurns(log, Len(log)), ask.bound)
       IN  IF HasNth(prompts, ask.limit)
           THEN ask' = [ask EXCEPT !.start = StartOf(prompts, ask.limit)] /\ pc' = "rows"
           ELSE UNCHANGED ask /\ pc' = "count"
    /\ UNCHANGED <<rows, walk>>

\* Fewer prompts than asked: everything in range; none at all: plain turns.
CountPrompts ==
    /\ PageStep("count")
    /\ IF InRange(PromptTurns(log, Len(log)), ask.bound) # {}
       THEN ask' = [ask EXCEPT !.start = 1] /\ pc' = "rows"
       ELSE UNCHANGED ask /\ pc' = "plain"
    /\ UNCHANGED <<rows, walk>>

FindPlainStart ==
    /\ PageStep("plain")
    /\ LET range == InRange(Turns(log, Len(log)), ask.bound)
       IN  ask' = [ask EXCEPT !.start = IF HasNth(range, ask.limit) THEN Nth(range, ask.limit) ELSE 1]
    /\ pc' = "rows" /\ UNCHANGED <<rows, walk>>

ReadTurns ==
    /\ PageStep("rows")
    /\ ask' = [ask EXCEPT !.turns = {t \in InRange(Turns(log, Len(log)), ask.bound) : t >= ask.start},
                          !.chosen = Len(log)]
    /\ pc' = "more" /\ UNCHANGED <<rows, walk>>

\* Whether turns below the start remain.
MoreBelow(l, a) == a.start > 1 /\ \E t \in Turns(l, Len(l)) : t < a.start

Taken(turns) == walk' = [walk EXCEPT !.turns = @ \cup turns]

FindMore ==
    /\ PageStep("more")
    /\ ask' = [ask EXCEPT !.more = MoreBelow(log, ask)]
    /\ IF ask.raw THEN pc' = "trim" /\ UNCHANGED walk ELSE pc' = "page" /\ Taken(ask.turns)
    /\ UNCHANGED rows
-----------------------------------------------------------------------------
(***************************************************************************)
(* materializeTail.                                                        *)
(***************************************************************************)
\* What the turns held when they were chosen.
Count(l, a, S) == Cardinality(Rows(l, a.chosen, S))
From(a, t) == {u \in a.turns : u >= t}

\* Mutant: the turn that overflows is kept too.
FittingOver(l, a) ==
    {t \in a.turns : t = Newest(a.turns) \/ Count(l, a, From(a, t) \ {t}) <= Cap}
Fitting(l, a) == {t \in a.turns : t = Newest(a.turns) \/ Count(l, a, From(a, t)) <= Cap}

\* Mutant: the turns left out are forgotten.
TrimSilently ==
    /\ PageStep("trim")
    /\ ask' = [ask EXCEPT !.turns = Fitting(log, ask)]
    /\ pc' = "read" /\ UNCHANGED <<rows, walk>>

Trim ==
    /\ PageStep("trim")
    /\ ask' = [ask EXCEPT !.turns = Fitting(log, ask), !.more = @ \/ Fitting(log, ask) # ask.turns]
    /\ pc' = "read" /\ UNCHANGED <<rows, walk>>

\* Turn by turn, oldest first; of one that alone is over the cap the newest events.
Unread == {t \in ask.turns : \A e \in rows : log[e].turn < t}
ReadEvents ==
    /\ PageStep("read") /\ Unread # {}
    /\ LET t == Oldest(Unread)
           all == Rows(log, Len(log), {t})
           over == Count(log, ask, {t}) > Cap
       IN  /\ rows' = rows \cup (IF over THEN {e \in all : Cardinality({f \in all : f > e}) < Cap} ELSE all)
           /\ ask' = [ask EXCEPT !.more = @ \/ over]
    /\ UNCHANGED <<pc, walk>>

RawDone ==
    /\ PageStep("read") /\ Unread = {}
    /\ pc' = "page" /\ Taken(ask.turns)
    /\ UNCHANGED <<ask, rows>>

PageLeft ==
    /\ PageStep("page")
    /\ pc' = "idle" /\ ask' = NoAsk /\ rows' = {} /\ walk' = NoWalk
-----------------------------------------------------------------------------
(***************************************************************************)
(* TurnState: the newest prompt, then the newest end of a turn.            *)
(***************************************************************************)
NewestOf(l, n, type) == Newest({0} \cup {e \in 1..n : l[e].type = type})
StateStep(at, next) ==
    /\ pc = at /\ pc' = next
    /\ UNCHANGED <<log, ask, rows, walk, poll, push, strays>>

\* The order of TurnState's queries.  Mutant: the other one.
OrderReversed == <<"result", "user_message">>
Order == <<"user_message", "result">>

AskFirst ==
    /\ StateStep("idle", "state")
    /\ state' = [NoState EXCEPT !.asked = Len(log),
                               !.newest[Order[1]] = NewestOf(log, Len(log), Order[1])]
AskSecond ==
    /\ StateStep("state", "answer")
    /\ state' = [state EXCEPT !.answered = Len(log),
                             !.newest[Order[2]] = NewestOf(log, Len(log), Order[2])]

StateLeft == StateStep("answer", "idle") /\ state' = NoState

InFlight(s) == s.newest["user_message"] > s.newest["result"]
-----------------------------------------------------------------------------
(***************************************************************************)
(* Polling: events of some types after the highest id the client was given *)
(* (ListEventsSinceID, each event with its id).                            *)
(***************************************************************************)
\* Mutant: from the mark on.
ListEventsFromID(mark, types) == {e \in DOMAIN log : e >= mark /\ log[e].type \in types}
ListEventsSinceID(mark, types) == {e \in DOMAIN log : e > mark /\ log[e].type \in types}

Poll(types) ==
    /\ pc = "idle" \/ (pc = "poll" /\ types = poll.types)
    /\ LET events == ListEventsSinceID(poll.mark, types)
       IN  poll' = [types |-> types, mark |-> Newest({poll.mark} \cup events), asked |-> Len(log),
                    given |-> poll.given \cup events, count |-> poll.count + Cardinality(events)]
    /\ pc' = "poll" /\ UNCHANGED <<log, ask, rows, walk, state, push, strays>>

\* The client stops, or loses an answer and with it its mark.
PollLeft ==
    /\ pc = "poll" /\ pc' = "idle" /\ poll' = NoPoll
    /\ UNCHANGED <<log, ask, rows, walk, state, push, strays>>
-----------------------------------------------------------------------------
(***************************************************************************)
(* PushEvent, and the handler that serves it.                              *)
(***************************************************************************)
PushStep(at, next) ==
    /\ push.at = at
    /\ push' = [push EXCEPT !.at = next]
    /\ UNCHANGED <<pc, ask, rows, walk, state, poll>>

\* The event is sent, and sent again after an answer of 500 or none at all.
Send ==
    /\ pc \in {"idle", "push"} /\ push.at \in {"none", "refused", "lost"} /\ push.tries < MaxTries
    /\ pc' = "push" /\ push' = [push EXCEPT !.at = "sent", !.tries = @ + 1]
    /\ UNCHANGED <<log, ask, rows, walk, state, poll, strays>>

StorePushed(ev) ==
    /\ PushStep("sent", "stored")
    /\ ev.type = "pushed" /\ Stored(ev)
    /\ UNCHANGED strays

StoreFails == PushStep("sent", "refused") /\ UNCHANGED <<log, strays>>

\* updateSessionProjection: a failure is logged.  Mutant: it is answered 500.
ProjectOrRefuse == (PushStep("stored", "projected") \/ PushStep("stored", "refused")) /\ UNCHANGED <<log, strays>>
Project == PushStep("stored", "projected") /\ UNCHANGED <<log, strays>>

Created == PushStep("projected", "done") /\ UNCHANGED <<log, strays>>

\* The client's five seconds pass, or the connection breaks; the handler goes on.
GiveUp ==
    /\ push.at \in {"sent", "stored", "projected"}
    /\ push' = [push EXCEPT !.at = "lost", !.lost = @ + 1]
    /\ strays' = strays + (IF push.at = "sent" THEN 1 ELSE 0)
    /\ UNCHANGED <<log, pc, ask, rows, walk, state, poll>>

StrayStores(ev) ==
    /\ strays > 0 /\ ev.type = "pushed" /\ Stored(ev)
    /\ strays' = strays - 1
    /\ UNCHANGED <<pc, ask, rows, walk, state, poll, push>>

StrayFails ==
    /\ strays > 0 /\ strays' = strays - 1
    /\ UNCHANGED <<log, pc, ask, rows, walk, state, poll, push>>
-----------------------------------------------------------------------------
Ids == 0..(2 * MaxEvents + 1)

Page ==
    \/ \E raw \in BOOLEAN, limit \in Limits, before \in Ids : AskPage(raw, limit, before)
    \/ \E e \in Seqs : AskOlder(e)
    \/ FindBound \/ FindBelow \/ FindStart \/ CountPrompts \/ FindPlainStart \/ ReadTurns \/ FindMore
    \/ Trim \/ ReadEvents \/ RawDone \/ PageLeft
TurnState == AskFirst \/ AskSecond \/ StateLeft
Push ==
    \/ Send \/ StoreFails \/ Project \/ Created \/ GiveUp \/ StrayFails
    \/ \E ev \in Event : StorePushed(ev) \/ StrayStores(ev)

Next ==
    \/ \E ev \in Event : Arrive(ev)
    \/ Page \/ TurnState \/ Push
    \/ \E types \in SUBSET Types \ {{}} : Poll(types)
    \/ PollLeft

Spec == Init /\ [][Next]_vars
-----------------------------------------------------------------------------
Steps == {"idle", "bound", "below", "start", "count", "plain", "rows", "more", "trim", "read", "page",
          "state", "answer", "poll", "push"}
Ask == [raw : BOOLEAN, limit : Limits \cup {1}, before : Ids, bound : 0..MaxEvents + 1,
        start : {1} \cup 0..MaxEvents, began : 0..MaxEvents, chosen : 0..MaxEvents,
        turns : SUBSET Seqs, more : BOOLEAN]

\* Type correctness; what a call noted is of a log no longer than now.
TypeOK ==
    /\ log \in Seq(Event) /\ Len(log) \in 0..MaxEvents /\ pc \in Steps
    /\ ask \in Ask /\ ask.began <= Len(log) /\ ask.chosen <= Len(log)
    /\ rows \subseteq DOMAIN log
    /\ walk \in [began : 0..Len(log), top : 0..MaxEvents + 1, turns : SUBSET Seqs]
    /\ state \in [asked : 0..Len(log), answered : 0..Len(log),
                  newest : [{"user_message", "result"} -> 0..Len(log)]]
    /\ poll \in [types : SUBSET Types, mark : 0..Len(log), asked : 0..Len(log),
                 given : SUBSET DOMAIN log, count : 0..Len(log)]
    /\ push \in [at : {"none", "sent", "stored", "projected", "done", "refused", "lost"},
                 tries : 0..MaxTries, lost : 0..MaxTries]
    /\ strays \in 0..MaxTries

\* A client that pages back until it is told of no more has been given every turn
\* there was below its first cursor, and none twice, however events arrive in old
\* and new turns and change which of them are prompts between its queries; and it
\* gets there, for no page that has more is empty.
WalkWhole ==
    /\ pc = "page" /\ ask.more => ask.turns # {}
    /\ pc \in {"more", "trim", "read"} => ask.turns \cap walk.turns = {}
    /\ pc = "page" /\ ~ask.more => InRange(Turns(log, walk.began), walk.top) \subseteq walk.turns

\* "A page holds `limitTurns` prompts" (turn_index.go:520): of the prompt turns
\* there were when it was asked for it holds no more, and no fewer if it leaves one
\* out; without a prompt in range it holds as many plain turns.
PageHoldsLimit ==
    pc = "page" /\ ~ask.raw /\ ask.turns # {} =>
        LET prompts == InRange(PromptTurns(log, ask.began), ask.bound)
            given == Cardinality(prompts \cap ask.turns)
        IN  /\ given <= ask.limit
            /\ prompts \ ask.turns # {} => Cardinality(PromptTurns(log, ask.chosen) \cap ask.turns) >= ask.limit
            /\ ask.turns \cap PromptTurns(log, ask.chosen) = {} =>
                  Cardinality(ask.turns \cap Turns(log, ask.began)) <= ask.limit

\* "more" is said of older events that are left, and only then: without it a page
\* lacks no turn in its range, and the raw page no event, of when it was chosen.
MoreTruthful ==
    pc = "page" /\ ask.turns # {} =>
        LET older == {t \in Seqs : t <= Oldest(ask.turns)}
            range == InRange(Turns(log, ask.chosen), ask.bound)
            absent(n) == IF ask.raw THEN Rows(log, n, InRange(Turns(log, n), ask.bound)) \ rows
                         ELSE Rows(log, n, InRange(Turns(log, n), ask.bound) \ ask.turns)
        IN  IF ask.more THEN \E e \in absent(Len(log)) : log[e].turn \in older
            ELSE absent(ask.chosen) = {}

\* "Older turns are left out first" (README.md:76) and none that would have fitted; of
\* the events counted when the turns were chosen a raw page holds no more than the cap,
\* and each of its turns whole unless it is the only one.  The "at most 5,000 events"
\* of the same line is not kept: the turns are read later without a limit
\* (TurnEvents, server.go:251), and what they have gained since comes on top.
Window == {t \in InRange(Turns(log, ask.chosen), ask.bound) : t >= ask.start}
CutAtCap ==
    pc = "page" /\ ask.raw /\ ask.turns # {} =>
        LET left == Window \ ask.turns
        IN  /\ Cardinality({e \in rows : e <= ask.chosen}) <= Cap
            /\ \A t \in left, u \in ask.turns : t < u
            /\ left # {} => Count(log, ask, {Newest(left)} \cup ask.turns) > Cap
            /\ \A t \in ask.turns : ask.turns = {t} \/ Rows(log, ask.chosen, {t}) \subseteq rows

\* An answer "in flight" still holds when the second query is made, and any other
\* was true at some moment of the call, whatever was stored between the queries.
FlyingAt(n) == NewestOf(log, n, "user_message") > NewestOf(log, n, "result")
StateWasTrue ==
    pc = "answer" =>
        IF InFlight(state) THEN FlyingAt(state.answered)
        ELSE \E n \in state.asked..state.answered : ~FlyingAt(n)

\* "so a client can track the high-water mark" (store.go:416): the polls of one client
\* have given it every event of its types stored before the last of them, once.
PolledOnce ==
    /\ poll.given = {e \in 1..poll.asked : log[e].type \in poll.types}
    /\ poll.count = Cardinality(poll.given)

\* "5xx - it answered, so it stored nothing, and a retry is safe" (client.go:32): an
\* event is stored as often as answers were lost, and once for the one that came.
PushedOnce ==
    LET copies == {e \in DOMAIN log : log[e].type = "pushed"}
        kept == IF push.at \in {"stored", "projected", "done"} THEN 1 ELSE 0
    IN  kept <= Cardinality(copies) /\ Cardinality(copies) + strays <= push.lost + kept
=============================================================================
