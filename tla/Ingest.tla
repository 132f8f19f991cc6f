-------------------------------- MODULE Ingest --------------------------------
(***************************************************************************)
(* What one POST /api/v1/events sets going (server.handleIngestEvent): the *)
(* event is stored, its session's projection row rolled forward in several *)
(* statements of their own, the turnMaterializer noted and woken, and a    *)
(* result handed to a goroutine that forwards it to logstack.  Requests    *)
(* run concurrently, a statement may fail, and the process may die         *)
(* anywhere; what it kept in memory is then gone, and migrate() projects   *)
(* the sessions that have no row.                                          *)
(***************************************************************************)
EXTENDS Integers, Sequences, FiniteSets

CONSTANTS
    Handlers,     \* concurrent ingest requests
    Sessions,
    HarnessIds,   \* harness_session_id values
    NoHarness,    \* none reported, or none known
    Requests,     \* the events clients post
    MaxEvents,    \* bound: events ever stored
    MaxFaults     \* bound: failed projection statements and restarts, together

Kinds == {"user_message", "result", "error", "other"}
Event == [session : Sessions, kind : Kinds, harness : HarnessIds \cup {NoHarness}]
Ids == 1..MaxEvents

ASSUME BoundsAssumption ==
    MaxEvents \in Nat /\ MaxFaults \in Nat

ASSUME NamesAssumption ==
    /\ NoHarness \notin HarnessIds
    /\ Requests \subseteq Event
    /\ IsFiniteSet(Handlers)

VARIABLES
    log,        \* the events table
    booted,     \* events stored when this process started
    restarts, failures,
    rows,       \* the sessions table
    pc, id,     \* where a handler is, and the id its event got
    pending,    \* turnMaterializer.pending
    wake,       \* whether turnMaterializer.wake holds its one signal
    runner,     \* where turnMaterializer.run is
    taken,      \* the sessions its pass has left
    visited,    \* per session, events stored when a pass last took it up
    sending,    \* ids of the results that Forward's goroutines are sending
    health      \* the Forwarder's counters

matVars == <<pending, wake, runner, taken, visited>>
fwdVars == <<sending, health>>
vars == <<log, booted, restarts, failures, rows, pc, id, matVars, fwdVars>>
-----------------------------------------------------------------------------
NoRow == [turns |-> 0, results |-> 0, harness |-> NoHarness, seeded |-> FALSE]
SeededRow == [NoRow EXCEPT !.seeded = TRUE]
Fresh == [attempted |-> 0, succeeded |-> 0, failed |-> 0, streak |-> 0]

EventsOf(s, kind) == {e \in DOMAIN log : log[e].session = s /\ log[e].kind = kind}
EndsTurn(kind) == kind \in {"result", "error"}   \* turnEndingEventTypes; turn_complete is as error

Init ==
    /\ log = <<>> /\ booted = 0 /\ restarts = 0 /\ failures = 0
    /\ rows = [s \in Sessions |-> NoRow]
    /\ pc = [h \in Handlers |-> "idle"]
    /\ id = [h \in Handlers |-> 0]
    /\ pending = {} /\ wake = FALSE /\ runner = "wait" /\ taken = {}
    /\ visited = [s \in Sessions |-> 0]
    /\ sending = {} /\ health = Fresh
-----------------------------------------------------------------------------
(***************************************************************************)
(* The handler.                                                            *)
(***************************************************************************)
Served(h) == log[id[h]]
Row(h) == rows[Served(h).session]
Goto(h, next) == pc' = [pc EXCEPT ![h] = next]

\* StoreEvent's transaction: the event is durable, its place in the turn index
\* with it.
StoreEvent(h, e) ==
    /\ pc[h] = "idle" /\ Len(log) < MaxEvents
    /\ id' = [id EXCEPT ![h] = Len(log) + 1]
    /\ log' = Append(log, e)
    /\ Goto(h, "seed")
    /\ UNCHANGED <<booted, restarts, failures, rows, matVars, fwdVars>>

\* updateSessionProjection, one autocommit statement after another.
Statement(h, at, row, next) ==
    /\ pc[h] = at
    /\ rows' = [rows EXCEPT ![Served(h).session] = row]
    /\ Goto(h, next)
    /\ UNCHANGED <<log, booted, restarts, failures, id, matVars, fwdVars>>

SeedRow(h) ==
    Statement(h, "seed", IF Row(h).seeded THEN Row(h) ELSE SeededRow, "harness")

SetHarness(h) ==
    Statement(h, "harness",
              IF Served(h).harness = NoHarness THEN Row(h) ELSE [Row(h) EXCEPT !.harness = Served(h).harness],
              "tally")

\* Mutant: a turn is counted when it ends.
TallyTurnsEnded(h) ==
    Statement(h, "tally",
              CASE EndsTurn(Served(h).kind) -> [Row(h) EXCEPT !.turns = @ + 1, !.results = @ + 1]
                [] OTHER -> Row(h),
              "note")

Tally(h) ==
    Statement(h, "tally",
              CASE Served(h).kind = "user_message" -> [Row(h) EXCEPT !.turns = @ + 1]
                [] Served(h).kind = "result" -> [Row(h) EXCEPT !.results = @ + 1]
                [] OTHER -> Row(h),
              "note")

\* Mutant: a failed statement ends the request.
ProjectionFailsReturns(h) ==
    /\ pc[h] \in {"seed", "harness", "tally"} /\ failures + restarts < MaxFaults
    /\ failures' = failures + 1
    /\ Goto(h, "forward")
    /\ UNCHANGED <<log, booted, restarts, rows, id, matVars, fwdVars>>

\* A statement fails: logged, the rest of the projection is skipped.
ProjectionFails(h) ==
    /\ pc[h] \in {"seed", "harness", "tally"} /\ failures + restarts < MaxFaults
    /\ failures' = failures + 1
    /\ Goto(h, "note")
    /\ UNCHANGED <<log, booted, restarts, rows, id, matVars, fwdVars>>

\* noteEvent: the session is pending first, then the runner is woken.
NoteEvent(h) ==
    /\ pc[h] = "note"
    /\ IF EndsTurn(Served(h).kind)
       THEN pending' = pending \cup {Served(h).session} /\ Goto(h, "wake")
       ELSE UNCHANGED pending /\ Goto(h, "forward")
    /\ UNCHANGED <<log, booted, restarts, failures, rows, id, wake, runner, taken, visited, fwdVars>>

\* Mutant: an unbuffered channel, whose signal is dropped unless the runner waits.
WakeRunnerUnbuffered(h) ==
    /\ pc[h] = "wake"
    /\ wake' = (wake \/ runner = "wait")
    /\ Goto(h, "forward")
    /\ UNCHANGED <<log, booted, restarts, failures, rows, id, pending, runner, taken, visited, fwdVars>>

\* A signal already in the channel stands for this one too.
WakeRunner(h) ==
    /\ pc[h] = "wake"
    /\ wake' = TRUE
    /\ Goto(h, "forward")
    /\ UNCHANGED <<log, booted, restarts, failures, rows, id, pending, runner, taken, visited, fwdVars>>

\* Results go to a goroutine of their own; then the client has its answer.
Forward(h) ==
    /\ pc[h] = "forward"
    /\ sending' = IF Served(h).kind = "result" THEN sending \cup {id[h]} ELSE sending
    /\ id' = [id EXCEPT ![h] = 0]
    /\ Goto(h, "idle")
    /\ UNCHANGED <<log, booted, restarts, failures, rows, matVars, health>>

Handle(h) ==
    \/ SeedRow(h) \/ SetHarness(h) \/ Tally(h) \/ ProjectionFails(h)
    \/ NoteEvent(h) \/ WakeRunner(h) \/ Forward(h)
-----------------------------------------------------------------------------
(***************************************************************************)
(* turnMaterializer.run.                                                   *)
(***************************************************************************)
\* for range m.wake, and the pause that lets a turn's closing events land.
Woken ==
    /\ runner = "wait" /\ wake
    /\ wake' = FALSE
    /\ runner' = "sleep"
    /\ UNCHANGED <<log, booted, restarts, failures, rows, pc, id, pending, taken, visited, fwdVars>>

TakePending ==
    /\ runner = "sleep"
    /\ taken' = pending
    /\ pending' = {}
    /\ runner' = "visit"
    /\ UNCHANGED <<log, booted, restarts, failures, rows, pc, id, wake, visited, fwdVars>>

\* The session's newest stale turns are built, or an error logged: StoredTurns.
Visit(s) ==
    /\ runner = "visit" /\ s \in taken
    /\ taken' = taken \ {s}
    /\ visited' = [visited EXCEPT ![s] = Len(log)]
    /\ UNCHANGED <<log, booted, restarts, failures, rows, pc, id, pending, wake, runner, fwdVars>>

\* Mutant: pending is emptied when the pass is over.
PassOverEmpties ==
    /\ runner = "visit" /\ taken = {}
    /\ runner' = "wait"
    /\ pending' = {}
    /\ UNCHANGED <<log, booted, restarts, failures, rows, pc, id, wake, taken, visited, fwdVars>>

PassOver ==
    /\ runner = "visit" /\ taken = {}
    /\ runner' = "wait"
    /\ UNCHANGED <<log, booted, restarts, failures, rows, pc, id, pending, wake, taken, visited, fwdVars>>

Run == Woken \/ TakePending \/ (\E s \in Sessions : Visit(s)) \/ PassOver
-----------------------------------------------------------------------------
(***************************************************************************)
(* Forwarder: logstack takes a result or does not, and the record says so. *)
(***************************************************************************)
\* Mutant: a failed send is not an attempt.
RecordFailureUncounted(e) ==
    /\ e \in sending
    /\ sending' = sending \ {e}
    /\ health' = [health EXCEPT !.failed = @ + 1, !.streak = @ + 1]
    /\ UNCHANGED <<log, booted, restarts, failures, rows, pc, id, matVars>>

RecordFailure(e) ==
    /\ e \in sending
    /\ sending' = sending \ {e}
    /\ health' = [health EXCEPT !.attempted = @ + 1, !.failed = @ + 1, !.streak = @ + 1]
    /\ UNCHANGED <<log, booted, restarts, failures, rows, pc, id, matVars>>

\* Mutant: a success takes one failure back instead of ending the streak.
RecordSuccessTakesBack(e) ==
    /\ e \in sending
    /\ sending' = sending \ {e}
    /\ health' = [health EXCEPT !.attempted = @ + 1, !.succeeded = @ + 1, !.streak = @ - 1]
    /\ UNCHANGED <<log, booted, restarts, failures, rows, pc, id, matVars>>

RecordSuccess(e) ==
    /\ e \in sending
    /\ sending' = sending \ {e}
    /\ health' = [health EXCEPT !.attempted = @ + 1, !.succeeded = @ + 1, !.streak = 0]
    /\ UNCHANGED <<log, booted, restarts, failures, rows, pc, id, matVars>>
-----------------------------------------------------------------------------
\* migrate's backfill: a session with events and no row gets what its events add
\* up to, its harness id apart.
Backfilled(s) ==
    IF rows[s].seeded \/ (\A kind \in Kinds : EventsOf(s, kind) = {})
    THEN rows[s]
    ELSE [SeededRow EXCEPT !.turns = Cardinality(EventsOf(s, "user_message")),
                           !.results = Cardinality(EventsOf(s, "result"))]

Restart ==
    /\ failures + restarts < MaxFaults
    /\ restarts' = restarts + 1
    /\ booted' = Len(log)
    /\ rows' = [s \in Sessions |-> Backfilled(s)]
    /\ pc' = [h \in Handlers |-> "idle"]
    /\ id' = [h \in Handlers |-> 0]
    /\ pending' = {} /\ wake' = FALSE /\ runner' = "wait" /\ taken' = {}
    /\ sending' = {} /\ health' = Fresh
    /\ UNCHANGED <<log, failures, visited>>

Next ==
    \/ \E h \in Handlers, e \in Requests : StoreEvent(h, e)
    \/ \E h \in Handlers : Handle(h)
    \/ Run
    \/ \E e \in Ids : RecordFailure(e) \/ RecordSuccess(e)
    \/ Restart

\* A request that was accepted is served, and the runner's goroutine runs.
Fairness == (\A h \in Handlers : WF_vars(Handle(h))) /\ WF_vars(Run)

Spec == Init /\ [][Next]_vars
FairSpec == Spec /\ Fairness
-----------------------------------------------------------------------------
Steps == {"idle", "seed", "harness", "tally", "note", "wake", "forward"}
SessionRow == [turns : Nat, results : Nat, harness : HarnessIds \cup {NoHarness}, seeded : BOOLEAN]
Health == [attempted : Nat, succeeded : Nat, failed : Nat, streak : Nat]

\* Type correctness of the tables, the handlers and the two background parts; a
\* handler past its store serves an event of this process.
TypeOK ==
    /\ log \in Seq(Event) /\ Len(log) \in 0..MaxEvents /\ booted \in 0..Len(log)
    /\ restarts \in 0..MaxFaults /\ failures \in 0..MaxFaults
    /\ rows \in [Sessions -> SessionRow]
    /\ pc \in [Handlers -> Steps] /\ id \in [Handlers -> 0..Len(log)]
    /\ \A h \in Handlers : IF pc[h] = "idle" THEN id[h] = 0 ELSE id[h] > booted
    /\ pending \subseteq Sessions /\ wake \in BOOLEAN /\ taken \subseteq Sessions
    /\ runner \in {"wait", "sleep", "visit"}
    /\ visited \in [Sessions -> Nat]
    /\ sending \subseteq Ids /\ health \in Health

\* Handlers of events of a kind and a session that have yet to pass one of S.
Underway(s, kind, S) ==
    {h \in Handlers : pc[h] \in S /\ Served(h).session = s /\ Served(h).kind = kind}
Untallied == {"seed", "harness", "tally"}

\* The projection tallies each event at most once: what a row counts and what
\* handlers are about to add never exceed the events stored, and match them as
\* long as no statement failed and no process died between two of them.
ProjectionTallies ==
    \A s \in Sessions :
        LET turns == rows[s].turns + Cardinality(Underway(s, "user_message", Untallied))
            results == rows[s].results + Cardinality(Underway(s, "result", Untallied))
        IN  /\ turns <= Cardinality(EventsOf(s, "user_message"))
            /\ results <= Cardinality(EventsOf(s, "result"))
            /\ failures = 0 /\ restarts = 0 =>
                /\ turns = Cardinality(EventsOf(s, "user_message"))
                /\ results = Cardinality(EventsOf(s, "result"))

\* Every result stored by this process is accounted for: recorded as an attempt,
\* being sent, or about to be handed over.
ResultsAccounted ==
    LET results == {e \in DOMAIN log : e > booted /\ log[e].kind = "result"}
        unsent == {h \in Handlers : pc[h] # "idle" /\ Served(h).kind = "result"}
    IN  /\ Cardinality(results) = health.attempted + Cardinality(sending) + Cardinality(unsent)
        /\ health.attempted = health.succeeded + health.failed

\* No lost wake-up: while a session is pending the runner has yet to take pending
\* in this pass, or has a signal, or a handler is about to give it one.
NoLostWake ==
    pending # {} => runner = "sleep" \/ wake \/ \E h \in Handlers : pc[h] = "wake"

\* Ends of turns in this process whose session no pass has taken up since.
UnvisitedEnds(s) ==
    {e \in DOMAIN log : e > booted /\ e > visited[s] /\ log[e].session = s /\ EndsTurn(log[e].kind)}
Unvisited(s) == UnvisitedEnds(s) # {}

\* An end of a turn is never forgotten: until a pass takes its session up, the session
\* is pending or still to come in the pass underway, or the request that stored this
\* end, failed statements or not, has yet to note it.
NoEndForgotten ==
    \A s \in Sessions : s \notin pending \cup taken =>
        UnvisitedEnds(s) \subseteq {id[h] : h \in {h \in Handlers : pc[h] \in Untallied \cup {"note"}}}

\* Every turn that ends is taken up by a pass begun after its end was stored,
\* however noteEvent, the pause and the swap of pending interleave.
EndedTurnsVisited == \A s \in Sessions : Unvisited(s) ~> ~Unvisited(s)

\* "Last writer wins, matching the migration's MAX(id) backfill" (store.go:346):
\* when no request is underway, a row names the harness id of the newest event that
\* reports one.
Reporting(s) == {e \in DOMAIN log : log[e].session = s /\ log[e].harness # NoHarness}
HarnessIsLatest ==
    (\A h \in Handlers : pc[h] = "idle") =>
        \A s \in Sessions : \A e \in Reporting(s) :
            (\A f \in Reporting(s) : f <= e) => rows[s].harness = log[e].harness
=============================================================================
