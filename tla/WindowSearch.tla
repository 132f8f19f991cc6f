---------------------------- MODULE WindowSearch ----------------------------
(***************************************************************************)
(* Search in a time window (Store.SearchSessionsInWindow).  created_at has *)
(* no index, but ids are handed out in its order, so each bound of the     *)
(* window is turned into an id by a binary search, one query per probe,    *)
(* while ingest appends.  What the text query then matches is data: the    *)
(* model keeps the slice of ids it scans.                                  *)
(*                                                                         *)
(* Nothing deletes events, so ids have no gaps and an event's id is its    *)
(* position in "created".                                                  *)
(***************************************************************************)
EXTENDS Integers, Sequences, FiniteSets

CONSTANTS
    Days, Seconds,  \* of timestamps
    NoTime,         \* a window's open side, time.Time{} in the code
    Windows,        \* the windows clients ask for
    MaxEvents       \* bound: events ever stored

Time == [day : Days, sec : Seconds]
Window == [since : Time \cup {NoTime}, until : Time \cup {NoTime}]

ASSUME NumbersAssumption ==
    Days \subseteq Nat /\ Seconds \subseteq Nat /\ MaxEvents \in Nat

ASSUME WindowsAssumption ==
    Windows \subseteq Window /\ NoTime \notin Time

VARIABLES
    created,   \* created_at of the events
    pc,        \* the query a search makes next
    ask,       \* its window
    side,      \* the bound it is looking for
    began,     \* events stored when it began
    lo, hi,    \* firstEventIDAtOrAfter's interval
    from, til, \* the id conditions found, 0 for none
    hits       \* the ids the text query scanned

searchVars == <<ask, side, began, lo, hi, from, til, hits>>
vars == <<created, pc, searchVars>>
-----------------------------------------------------------------------------
Precedes(t, u) == t.day < u.day \/ (t.day = u.day /\ t.sec < u.sec)

\* created < want, as strings.  want is formatted "2006-01-02 15:04:05"; the driver
\* parses the DATETIME column, and Scan into a string formats it again, as RFC 3339:
\* "2006-01-02T15:04:05Z".  On one day the comparison ends at 'T' against ' '.
Earlier(t, want) == t.day < want.day

Wanted == IF side = "since" THEN ask.since ELSE ask.until
TooEarly(e) == Earlier(created[e], Wanted)

Init ==
    /\ created = <<>>
    /\ pc = "idle"
    /\ ask = [since |-> NoTime, until |-> NoTime]
    /\ side = "since"
    /\ began = 0 /\ lo = 0 /\ hi = 0 /\ from = 0 /\ til = 0 /\ hits = {}

\* CURRENT_TIMESTAMP of the INSERT: never before that of an earlier row.
StoreEvent(t) ==
    /\ Len(created) < MaxEvents
    /\ created # <<>> => ~Precedes(t, created[Len(created)])
    /\ created' = Append(created, t)
    /\ UNCHANGED <<pc, searchVars>>
-----------------------------------------------------------------------------
\* The bound that is looked for after the given one, or the query itself.
NextQuery(w, done) ==
    CASE done = "none" /\ w.since # NoTime -> "since"
      [] w.until # NoTime /\ (done = "since" \/ (done = "none" /\ w.since = NoTime)) -> "until"
      [] OTHER -> "query"

Turn(w, done) ==
    LET next == NextQuery(w, done)
    IN  IF next = "query" THEN pc' = "query" /\ UNCHANGED side
        ELSE pc' = "bounds" /\ side' = next

Start(w) ==
    /\ pc = "idle"
    /\ ask' = w
    /\ began' = Len(created)
    /\ Turn(w, "none")
    /\ UNCHANGED <<created, lo, hi, from, til, hits>>

\* No event is late enough: nothing is in the window, or it is open on the right.
NotFound ==
    /\ IF side = "since" THEN pc' = "answer" /\ UNCHANGED side ELSE Turn(ask, "until")
    /\ UNCHANGED <<from, til>>

Found(e) ==
    /\ IF side = "since" THEN from' = e /\ UNCHANGED til ELSE til' = e /\ UNCHANGED from
    /\ Turn(ask, side)

\* Mutant: the interval ends before the newest id.
ReadBoundsExclusive ==
    /\ pc = "bounds"
    /\ lo' = IF created = <<>> THEN 0 ELSE 1
    /\ hi' = Len(created) - 1
    /\ IF created = <<>> THEN NotFound ELSE pc' = "newest" /\ UNCHANGED <<side, from, til>>
    /\ UNCHANGED <<created, ask, began, hits>>

\* MIN(id), MAX(id).
ReadBounds ==
    /\ pc = "bounds"
    /\ lo' = IF created = <<>> THEN 0 ELSE 1
    /\ hi' = Len(created)
    /\ IF created = <<>> THEN NotFound ELSE pc' = "newest" /\ UNCHANGED <<side, from, til>>
    /\ UNCHANGED <<created, ask, began, hits>>

ProbeNewest ==
    /\ pc = "newest"
    /\ IF TooEarly(hi) THEN NotFound ELSE pc' = "oldest" /\ UNCHANGED <<side, from, til>>
    /\ UNCHANGED <<created, ask, began, lo, hi, hits>>

ProbeOldest ==
    /\ pc = "oldest"
    /\ IF TooEarly(lo) THEN pc' = "search" /\ UNCHANGED <<side, from, til>> ELSE Found(lo)
    /\ UNCHANGED <<created, ask, began, lo, hi, hits>>

\* Mutant: the interval is halved as long as it is not empty.
HalvableNonEmpty == lo < hi
Halvable == lo + 1 < hi

ProbeMiddle ==
    /\ pc = "search" /\ Halvable
    /\ LET mid == lo + (hi - lo) \div 2
       IN  IF TooEarly(mid) THEN lo' = mid /\ UNCHANGED hi ELSE hi' = mid /\ UNCHANGED lo
    /\ UNCHANGED <<created, pc, ask, side, began, from, til, hits>>

\* Mutant: the last id too early is taken.
NarrowedToLow ==
    /\ pc = "search" /\ ~Halvable
    /\ Found(lo)
    /\ UNCHANGED <<created, ask, began, lo, hi, hits>>

Narrowed ==
    /\ pc = "search" /\ ~Halvable
    /\ Found(hi)
    /\ UNCHANGED <<created, ask, began, lo, hi, hits>>

Query ==
    /\ pc = "query"
    /\ hits' = {e \in DOMAIN created : from <= e /\ (til # 0 => e < til)}
    /\ pc' = "answer"
    /\ UNCHANGED <<created, ask, side, began, lo, hi, from, til>>

Answer ==
    /\ pc = "answer"
    /\ pc' = "idle"
    /\ ask' = [since |-> NoTime, until |-> NoTime]
    /\ side' = "since"
    /\ began' = 0 /\ lo' = 0 /\ hi' = 0 /\ from' = 0 /\ til' = 0 /\ hits' = {}
    /\ UNCHANGED created

Step == ReadBounds \/ ProbeNewest \/ ProbeOldest \/ ProbeMiddle \/ Narrowed \/ Query \/ Answer

Next ==
    \/ \E t \in Time : StoreEvent(t)
    \/ \E w \in Windows : Start(w)
    \/ Step

\* A request's goroutine runs; ingest need not stop for it.
Spec == Init /\ [][Next]_vars
FairSpec == Spec /\ WF_vars(Step)
-----------------------------------------------------------------------------
Steps == {"idle", "bounds", "newest", "oldest", "search", "query", "answer"}
Probing == {"newest", "oldest", "search"}

\* Type correctness; a search probes only ids that exist.
TypeOK ==
    /\ created \in Seq(Time) /\ Len(created) \in 0..MaxEvents
    /\ pc \in Steps /\ side \in {"since", "until"}
    /\ ask \in Window /\ began \in 0..Len(created)
    /\ lo \in 0..Len(created) /\ hi \in 0..Len(created)
    /\ from \in 0..Len(created) /\ til \in 0..Len(created)
    /\ pc \in Probing => lo \in 1..hi
    /\ hits \subseteq DOMAIN created

\* In the window as the comparison of strings has it.
AtOrAfter(e, t) == t # NoTime => ~Earlier(created[e], t)
Before(e, t) == t # NoTime => Earlier(created[e], t)

\* The slice is right by the search's own comparison, whatever is stored meanwhile:
\* nothing before the window is scanned, and of the events that were there when the
\* search began exactly those inside it.  (An event stored after the search for the
\* right edge found none is scanned whatever its time.)
SliceRight ==
    pc = "answer" =>
        /\ \A e \in hits : AtOrAfter(e, ask.since)
        /\ \A e \in 1..began : e \in hits <=> AtOrAfter(e, ask.since) /\ Before(e, ask.until)

\* Every search answers, though ingest goes on under it.
SearchEnds == pc # "idle" ~> pc = "idle"

\* "bounded to events created inside [since, until)" (SearchSessionsInWindow): of the
\* events that were there when the search began, those created in the window.
WindowExact ==
    pc = "answer" =>
        \A e \in 1..began :
            e \in hits <=> /\ ask.since # NoTime => ~Precedes(created[e], ask.since)
                           /\ ask.until # NoTime => Precedes(created[e], ask.until)
-----------------------------------------------------------------------------
(***************************************************************************)
(* The inductive invariant behind SliceRight.                              *)
(***************************************************************************)
InOrder == \A e, f \in DOMAIN created : e <= f => created[e].day <= created[f].day

\* e is the first event late enough for t.
First(e, t) ==
    /\ e \in DOMAIN created /\ ~Earlier(created[e], t)
    /\ \A f \in DOMAIN created : f < e => Earlier(created[f], t)

\* What is known of the interval while a search narrows it.
IntervalRight ==
    /\ pc \in {"newest", "oldest"} => began <= hi /\ lo = 1
    /\ pc \in Probing \cup {"bounds"} => Wanted # NoTime
    /\ pc \in {"oldest", "search"} => ~TooEarly(hi)
    /\ pc = "search" => TooEarly(lo)

\* A bound that was found is the first event late enough; one that was passed over is
\* open, or no event of the beginning was late enough.
FromRight ==
    /\ from # 0 => ask.since # NoTime /\ First(from, ask.since)
    /\ from = 0 /\ (pc = "query" \/ (pc \in Probing \cup {"bounds"} /\ side = "until"))
        => ask.since = NoTime
TilRight ==
    /\ til # 0 => ask.until # NoTime /\ First(til, ask.until)
    /\ til = 0 /\ pc = "query" => \A e \in 1..began : Before(e, ask.until)
    /\ side = "since" /\ pc \in Probing \cup {"bounds"} => from = 0 /\ til = 0
    /\ side = "until" /\ pc \in Probing \cup {"bounds"} => til = 0

\* Nothing is left over from the search before.
Fresh ==
    /\ pc = "idle" => from = 0 /\ til = 0
    /\ pc # "answer" => hits = {}

SliceInv == TypeOK /\ InOrder /\ IntervalRight /\ FromRight /\ TilRight /\ Fresh /\ SliceRight
=============================================================================
