------------------------------ MODULE TurnIndex ------------------------------
(***************************************************************************)
(* The turn index of internal/store/turn_index.go: which turn every event  *)
(* of a session belongs to.  Live ingest (StoreEvent) keeps it up to date  *)
(* inside the transaction that stores an event; BuildTurnIndex, run by     *)
(* page reads and by the boot-time backfill, constructs it for a session   *)
(* that has none, in chunks, while ingest goes on.                         *)
(*                                                                         *)
(* SQLite gives one writer connection and readers that see the last commit.*)
(* A builder's transaction is a private copy ("work") of its session's     *)
(* tables which the commit publishes; whoever holds "writer" keeps every   *)
(* other write, ingest included, waiting.  Event ids are AUTOINCREMENT, so *)
(* an event's id is its position in "events".                              *)
(***************************************************************************)
EXTENDS Integers, Sequences, FiniteSets

CONSTANTS
    Sessions,        \* session ids
    Readers,         \* concurrent page reads
    Backfill,        \* the one boot-time backfill goroutine
    Nobody,          \* no holder of a lock or of the writer
    TurnNames,       \* the turn_id values bridges send
    NoTurn,          \* an absent or empty turn_id
    Kinds,           \* event types
    Prompt,          \* the type "user_message"
    Versions,        \* values of turnIndexVersion over the deployments
    CandidateKinds,  \* per version, the types that are dual-emit candidates
    Chunk,           \* turnIndexChunk
    MaxEvents,       \* bound: events ever stored
    MaxLegacy,       \* bound: events stored before the index existed
    MaxRestarts,     \* bound: restarts of the process
    Rollback         \* whether a restart may run an older binary

Procs == Readers \cup {Backfill}
Ids == 1..MaxEvents
TurnIds == TurnNames \cup Ids           \* a synthesised id "t_<n>" is n
Event == [session : Sessions, turn : TurnNames \cup {NoTurn}, kind : Kinds]

ASSUME BoundsAssumption ==
    /\ Chunk \in Nat \ {0} /\ MaxEvents \in Nat
    /\ MaxLegacy \in 0..MaxEvents /\ MaxRestarts \in Nat
    /\ Rollback \in BOOLEAN

ASSUME NamesAssumption ==
    /\ Backfill \notin Readers /\ Nobody \notin Procs
    /\ NoTurn \notin TurnIds
    /\ Prompt \in Kinds

ASSUME VersionsAssumption ==
    /\ Versions \subseteq Nat \ {0}
    /\ CandidateKinds \in [Versions -> SUBSET Kinds]

VARIABLES
    events,    \* the events table
    version,   \* the running binary's turnIndexVersion
    restarts,
    row,       \* turn_index_sessions, per session; version 0 is "no row"
    tables,    \* event_turns, turns and dedup_candidates, per session
    lock,      \* sessionLocks, per session
    writer,    \* who holds the single writer connection
    work,      \* the uncommitted tables of the writer's transaction
    pc, cur,   \* where a process is in BuildTurnIndex, and for which session
    st,        \* its sessionTurnState
    through,   \* the last event its build has placed
    batch,     \* the events its last chunk read returned
    todo,      \* the backfill's list of sessions awaiting an index
    projected, \* the sessions that have a row in the sessions table
    seeding    \* those that some request has yet to give one

vars == <<events, version, restarts, row, tables, lock, writer, work,
          pc, cur, st, through, batch, todo, projected, seeding>>
-----------------------------------------------------------------------------
NoRow == [version |-> 0, through |-> 0, last |-> NoTurn, next |-> 1]
NoTurnRow == [seq |-> 0, first |-> 0, last |-> 0, count |-> 0, prompt |-> 0]
EmptyTables == [placed |-> [e \in Ids |-> 0],
                turns  |-> [t \in TurnIds |-> NoTurnRow],
                cands  |-> [e \in Ids |-> 0]]
\* Mutant: turns numbered from 0.
FreshStateZero == [last |-> NoTurn, next |-> 0]
FreshState == [last |-> NoTurn, next |-> 1]

EventsOf(log, s) == {e \in DOMAIN log : log[e].session = s}
WithEvents == {s \in Sessions : EventsOf(events, s) # {}}
After(log, s, n) == {e \in EventsOf(log, s) : e > n}

\* readEventTurnFields: the next `limit` events of a session after n.
ReadEventTurnFields(s, n, limit) ==
    LET rows == After(events, s, n)
    IN  {e \in rows : Cardinality({f \in rows : f < e}) < limit}

RowState(s) == [last |-> row[s].last, next |-> row[s].next]
TurnIndexCurrent(s) == row[s].version = version

\* Mutant: an event without a turn_id opens a turn of its own.
AssignTurnAlone(last, e, turn) == IF turn # NoTurn THEN turn ELSE e

AssignTurn(last, e, turn) ==
    CASE turn # NoTurn -> turn
      [] turn = NoTurn /\ last # NoTurn -> last
      [] turn = NoTurn /\ last = NoTurn -> e

\* A primary key of event_turns, dedup_candidates or turns already holds what
\* writeEventTurn is about to insert.
Conflict(tab, state, e, ev) ==
    \/ tab.placed[e] # 0
    \/ /\ tab.turns[AssignTurn(state.last, e, ev.turn)].seq = 0
       /\ \E t \in TurnIds : tab.turns[t].seq = state.next

ExtendTurn(turn, seq, e, ev) ==
    [seq    |-> seq,
     first  |-> IF turn.seq = 0 THEN e ELSE turn.first,
     last   |-> e,
     count  |-> turn.count + 1,
     prompt |-> IF ev.kind = Prompt THEN 1 ELSE turn.prompt]

\* writeEventTurn: the turn's row, event_turns and, for a candidate type,
\* dedup_candidates.
TurnSeq(tab, state, e, ev) ==
    LET found == tab.turns[AssignTurn(state.last, e, ev.turn)].seq
    IN  IF found = 0 THEN state.next ELSE found

WriteTables(v, tab, state, e, ev) ==
    LET t == AssignTurn(state.last, e, ev.turn)
        seq == TurnSeq(tab, state, e, ev)
    IN  [placed |-> [tab.placed EXCEPT ![e] = seq],
         turns  |-> [tab.turns EXCEPT ![t] = ExtendTurn(@, seq, e, ev)],
         cands  |-> IF ev.kind \in CandidateKinds[v]
                    THEN [tab.cands EXCEPT ![e] = seq] ELSE tab.cands]

\* Mutant: nextTurnSeq is not advanced.
WriteStateSameSeq(tab, state, e, ev) ==
    [last |-> AssignTurn(state.last, e, ev.turn), next |-> state.next]

WriteState(tab, state, e, ev) ==
    LET t == AssignTurn(state.last, e, ev.turn)
    IN  [last |-> t, next |-> IF tab.turns[t].seq = 0 THEN state.next + 1 ELSE state.next]
-----------------------------------------------------------------------------
Init ==
    /\ events \in UNION {[1..n -> Event] : n \in 0..MaxLegacy}
    /\ version \in Versions
    /\ restarts = 0
    /\ row = [s \in Sessions |-> NoRow]
    /\ tables = [s \in Sessions |-> EmptyTables]
    /\ lock = [s \in Sessions |-> Nobody]
    /\ writer = Nobody
    /\ work = EmptyTables
    /\ pc = [p \in Procs |-> "idle"]
    /\ cur \in {[p \in Procs |-> s] : s \in Sessions}
    /\ st = [p \in Procs |-> FreshState]
    /\ through = [p \in Procs |-> 0]
    /\ batch = [p \in Procs |-> {}]
    /\ todo = {}
    /\ projected = WithEvents
    /\ seeding = {}

procVars == <<pc, cur, st, through, batch, todo>>

(***************************************************************************)
(* StoreEvent: one write transaction, the insert and indexEventInTx; after *)
(* its commit the request seeds the session's row of the sessions table.   *)
(***************************************************************************)
InsertEvent(s, ev) ==
    /\ writer = Nobody
    /\ Len(events) < MaxEvents
    /\ ev.session = s
    /\ events' = Append(events, ev)
    /\ seeding' = IF s \in projected THEN seeding ELSE seeding \cup {s}
    /\ UNCHANGED <<version, restarts, lock, writer, work, procVars, projected>>

\* Place the inserted event, with the row's running state.
IndexInserted(s, tab, state, ev) ==
    LET e == Len(events) + 1
        next == WriteState(tab, state, e, ev)
    IN  /\ ~Conflict(tab, state, e, ev)
        /\ tables' = [tables EXCEPT ![s] = WriteTables(version, tab, state, e, ev)]
        /\ row' = [row EXCEPT ![s] = [version |-> version, through |-> e,
                                      last |-> next.last, next |-> next.next]]

StoreIndexed(s, ev) ==
    /\ TurnIndexCurrent(s)
    /\ InsertEvent(s, ev)
    /\ IndexInserted(s, tables[s], RowState(s), ev)

\* No row and no older event: the session is new and its index starts here.
StoreFirst(s, ev) ==
    /\ row[s] = NoRow /\ EventsOf(events, s) = {}
    /\ InsertEvent(s, ev)
    /\ IndexInserted(s, tables[s], FreshState, ev)

\* A row by other rules, or none while older events wait for BuildTurnIndex.
StoreUnindexed(s, ev) ==
    /\ IF row[s] = NoRow THEN EventsOf(events, s) # {} ELSE ~TurnIndexCurrent(s)
    /\ InsertEvent(s, ev)
    /\ UNCHANGED <<row, tables>>

StoreEvent ==
    \E ev \in Event : LET s == ev.session IN
        StoreIndexed(s, ev) \/ StoreFirst(s, ev) \/ StoreUnindexed(s, ev)

\* updateSessionProjection's INSERT OR IGNORE, a statement of its own; the
\* requests that come after it find the row there.
Seed(s) ==
    /\ s \in seeding /\ writer = Nobody
    /\ projected' = projected \cup {s}
    /\ seeding' = seeding \ {s}
    /\ UNCHANGED <<events, version, restarts, row, tables, lock, writer, work, procVars>>

\* The statement of the last such request fails, which StoreEvent only logs.
SeedFails(s) ==
    /\ s \in seeding /\ writer = Nobody
    /\ seeding' = seeding \ {s}
    /\ UNCHANGED <<events, version, restarts, row, tables, lock, writer, work, procVars, projected>>
-----------------------------------------------------------------------------
(***************************************************************************)
(* Who calls BuildTurnIndex: page reads, and the backfill.                 *)
(***************************************************************************)
StartRead(p, s) ==
    /\ p \in Readers /\ pc[p] = "idle"
    /\ pc' = [pc EXCEPT ![p] = "lock"]
    /\ cur' = [cur EXCEPT ![p] = s]
    /\ UNCHANGED <<events, version, restarts, row, tables, lock, writer, work,
                   st, through, batch, todo, projected, seeding>>

\* SessionsAwaitingTurnIndex lists from the sessions table, which has a session
\* only after its first event, if ever; an empty list ends the pass.
AwaitingEventless(s) == ~TurnIndexCurrent(s)   \* mutant: sessions without events too
Awaiting(s) == s \in projected /\ ~TurnIndexCurrent(s)

\* Mutant: only sessions without a row, whatever its version.
BackfillListRowless ==
    /\ pc[Backfill] = "idle" /\ todo = {}
    /\ todo' = {s \in projected : row[s] = NoRow}
    /\ pc' = [pc EXCEPT ![Backfill] = IF todo' = {} THEN "done" ELSE "idle"]
    /\ UNCHANGED <<events, version, restarts, row, tables, lock, writer, work,
                   cur, st, through, batch, projected, seeding>>

BackfillList ==
    /\ pc[Backfill] = "idle" /\ todo = {}
    /\ todo' = {s \in Sessions : Awaiting(s)}
    /\ pc' = [pc EXCEPT ![Backfill] = IF todo' = {} THEN "done" ELSE "idle"]
    /\ UNCHANGED <<events, version, restarts, row, tables, lock, writer, work,
                   cur, st, through, batch, projected, seeding>>

BackfillNext(s) ==
    /\ pc[Backfill] = "idle" /\ s \in todo
    /\ todo' = todo \ {s}
    /\ pc' = [pc EXCEPT ![Backfill] = "lock"]
    /\ cur' = [cur EXCEPT ![Backfill] = s]
    /\ UNCHANGED <<events, version, restarts, row, tables, lock, writer, work,
                   st, through, batch, projected, seeding>>
-----------------------------------------------------------------------------
(***************************************************************************)
(* BuildTurnIndex, step by step.                                           *)
(***************************************************************************)
\* Mutant: the session lock keeps nobody out.
LockShared(p) ==
    /\ pc[p] = "lock"
    /\ lock' = [lock EXCEPT ![cur[p]] = p]
    /\ pc' = [pc EXCEPT ![p] = "check"]
    /\ UNCHANGED <<events, version, restarts, row, tables, writer, work,
                   cur, st, through, batch, todo, projected, seeding>>

Lock(p) ==
    /\ pc[p] = "lock"
    /\ lock[cur[p]] = Nobody
    /\ lock' = [lock EXCEPT ![cur[p]] = p]
    /\ pc' = [pc EXCEPT ![p] = "check"]
    /\ UNCHANGED <<events, version, restarts, row, tables, writer, work,
                   cur, st, through, batch, todo, projected, seeding>>

Unlock(p) == lock' = [lock EXCEPT ![cur[p]] = Nobody]

\* The build returns, and its locals are gone.
Leave(p, next) ==
    /\ Unlock(p)
    /\ pc' = [pc EXCEPT ![p] = next]
    /\ st' = [st EXCEPT ![p] = FreshState]
    /\ through' = [through EXCEPT ![p] = 0]
    /\ batch' = [batch EXCEPT ![p] = {}]

\* A page read goes on to read the index; the backfill takes its next session.
Return(p) == Leave(p, IF p = Backfill THEN "idle" ELSE "reading")

CheckCurrent(p) ==
    /\ pc[p] = "check"
    /\ IF TurnIndexCurrent(cur[p])
       THEN Return(p)
       ELSE /\ pc' = [pc EXCEPT ![p] = "delete"]
            /\ UNCHANGED <<lock, st, through, batch>>
    /\ UNCHANGED <<events, version, restarts, row, tables, writer, work, cur, todo,
                   projected, seeding>>

\* deletePartialTurnIndex.
DeletePartial(p) ==
    /\ pc[p] = "delete" /\ writer = Nobody
    /\ row' = [row EXCEPT ![cur[p]] = NoRow]
    /\ tables' = [tables EXCEPT ![cur[p]] = EmptyTables]
    /\ pc' = [pc EXCEPT ![p] = "read"]
    /\ UNCHANGED <<events, version, restarts, lock, writer, work,
                   cur, st, through, batch, todo, projected, seeding>>

\* A full batch is written in a transaction of its own; a short one is left to
\* the final transaction.
ReadChunk(p) ==
    /\ pc[p] = "read"
    /\ LET b == ReadEventTurnFields(cur[p], through[p], Chunk) IN
        IF Cardinality(b) < Chunk
        THEN pc' = [pc EXCEPT ![p] = "beginfinal"] /\ UNCHANGED batch
        ELSE pc' = [pc EXCEPT ![p] = "begin"] /\ batch' = [batch EXCEPT ![p] = b]
    /\ UNCHANGED <<events, version, restarts, row, tables, lock, writer, work,
                   cur, st, through, todo, projected, seeding>>

Begin(p) ==
    /\ pc[p] \in {"begin", "beginfinal"} /\ writer = Nobody
    /\ writer' = p
    /\ work' = tables[cur[p]]
    /\ pc' = [pc EXCEPT ![p] = IF pc[p] = "begin" THEN "chunk" ELSE "final"]
    /\ UNCHANGED <<events, version, restarts, row, tables, lock,
                   cur, st, through, batch, todo, projected, seeding>>

\* What the open transaction still has to place: the rest of the chunk, or, in
\* the final transaction, every event read inside it.
LeftOfBatch(p) == After(events, cur[p], through[p]) \cap batch[p]   \* mutant: nothing re-read in the final transaction
Left(p) == {e \in After(events, cur[p], through[p]) : pc[p] = "chunk" => e \in batch[p]}

\* The transaction ends, its tables published or dropped.
EndTx == writer' = Nobody /\ work' = EmptyTables
Commit(p) == EndTx /\ tables' = [tables EXCEPT ![cur[p]] = work]
Abort(p) == EndTx /\ Leave(p, "failed")

\* writeEventTurn for the next event of the batch; a conflict rolls back and
\* fails the whole build.
PlaceEvent(p, e) ==
    /\ pc[p] \in {"chunk", "final"}
    /\ e \in Left(p) /\ \A f \in Left(p) : e <= f
    /\ IF Conflict(work, st[p], e, events[e])
       THEN Abort(p)
       ELSE /\ work' = WriteTables(version, work, st[p], e, events[e])
            /\ st' = [st EXCEPT ![p] = WriteState(work, st[p], e, events[e])]
            /\ through' = [through EXCEPT ![p] = e]
            /\ UNCHANGED <<writer, lock, pc, batch>>
    /\ UNCHANGED <<events, version, restarts, row, tables, cur, todo, projected, seeding>>

CommitChunk(p) ==
    /\ pc[p] = "chunk" /\ Left(p) = {}
    /\ Commit(p)
    /\ pc' = [pc EXCEPT ![p] = "read"]
    /\ batch' = [batch EXCEPT ![p] = {}]
    /\ UNCHANGED <<events, version, restarts, row, lock, cur, st, through, todo, projected, seeding>>

\* The final transaction marks the session current with the placed events.  Its plain
\* INSERT would fail on a row, but a row that ingest opened under the build is not met
\* here: the event it was opened with has failed the build in PlaceEvent.
MarkCurrent(p) ==
    /\ pc[p] = "final" /\ Left(p) = {}
    /\ IF row[cur[p]] # NoRow
       THEN Abort(p) /\ UNCHANGED <<tables, row>>
       ELSE /\ Commit(p)
            /\ row' = [row EXCEPT ![cur[p]] =
                         [version |-> version, through |-> through[p],
                          last |-> st[p].last, next |-> st[p].next]]
            /\ Return(p)
    /\ UNCHANGED <<events, version, restarts, cur, todo, projected, seeding>>

\* A page read answers, with the page or with an error.  A failed backfill
\* returns and is not started again before the next boot.
Answer(p) ==
    /\ p \in Readers /\ pc[p] \in {"reading", "failed"}
    /\ pc' = [pc EXCEPT ![p] = "idle"]
    /\ UNCHANGED <<events, version, restarts, row, tables, lock, writer, work,
                   cur, st, through, batch, todo, projected, seeding>>

Build(p) ==
    \/ Lock(p) \/ CheckCurrent(p) \/ DeletePartial(p) \/ ReadChunk(p) \/ Begin(p)
    \/ \E e \in DOMAIN events : PlaceEvent(p, e)
    \/ CommitChunk(p) \/ MarkCurrent(p)
-----------------------------------------------------------------------------
\* The process dies anywhere and another binary starts on the same database:
\* committed tables stay, an open transaction and every goroutine are gone, and
\* migrate seeds the sessions rows that are missing.
Restart ==
    /\ restarts < MaxRestarts
    /\ restarts' = restarts + 1
    /\ version' \in {v \in Versions : Rollback \/ v >= version}
    /\ lock' = [s \in Sessions |-> Nobody]
    /\ writer' = Nobody
    /\ work' = EmptyTables
    /\ pc' = [p \in Procs |-> "idle"]
    /\ st' = [p \in Procs |-> FreshState]
    /\ through' = [p \in Procs |-> 0]
    /\ batch' = [p \in Procs |-> {}]
    /\ todo' = {}
    /\ projected' = projected \cup WithEvents
    /\ seeding' = {}
    /\ UNCHANGED <<events, row, tables, cur>>

Next ==
    \/ StoreEvent
    \/ \E s \in Sessions : Seed(s) \/ SeedFails(s)
    \/ \E p \in Readers, s \in Sessions : StartRead(p, s)
    \/ BackfillList
    \/ \E s \in Sessions : BackfillNext(s)
    \/ \E p \in Procs : Build(p) \/ Answer(p)
    \/ Restart

\* Goroutines run; sync.Mutex and the single writer connection hand over in
\* turn, so a waiter is not passed over for ever.
Fairness ==
    /\ \A p \in Procs : SF_vars(Build(p)) /\ WF_vars(Answer(p))
    /\ WF_vars(BackfillList) /\ \A s \in Sessions : WF_vars(BackfillNext(s))

Spec == Init /\ [][Next]_vars
FairSpec == Spec /\ Fairness
-----------------------------------------------------------------------------
TurnRow == [seq : Nat, first : Nat, last : Nat, count : Nat, prompt : 0..1]
State == [last : TurnIds \cup {NoTurn}, next : Nat \ {0}]
SessionRow == [version : Versions \cup {0}, through : Nat,
               last : TurnIds \cup {NoTurn}, next : Nat \ {0}]
Steps == {"idle", "lock", "check", "delete", "read", "begin", "beginfinal",
          "chunk", "final", "reading", "failed", "done"}
InTx == {"chunk", "final"}
Building == {"read", "begin", "beginfinal"} \cup InTx   \* past DeletePartial
Exclusive == {"check", "delete"} \cup Building
Tables == [placed : [Ids -> Nat], turns : [TurnIds -> TurnRow], cands : [Ids -> Nat]]

\* Type correctness of the database tables and of the builders' locals.
TypeOK ==
    /\ events \in Seq(Event) /\ Len(events) \in 0..MaxEvents
    /\ version \in Versions /\ restarts \in 0..MaxRestarts
    /\ row \in [Sessions -> SessionRow]
    /\ tables \in [Sessions -> Tables]
    /\ lock \in [Sessions -> Procs \cup {Nobody}]
    /\ writer \in Procs \cup {Nobody}
    /\ work \in Tables
    /\ pc \in [Procs -> Steps]
    /\ cur \in [Procs -> Sessions]
    /\ st \in [Procs -> State]
    /\ through \in [Procs -> Nat]
    /\ batch \in [Procs -> SUBSET Ids]
    /\ todo \in SUBSET Sessions
    /\ projected \in SUBSET Sessions /\ seeding \in SUBSET Sessions

\* The turn rule of the entry builder, in closed form: an event belongs to the
\* turn of the latest event at or before it that names one, and before any is
\* named to the turn "t_<first event>".
TurnOf(log, s, e, t) ==
    \/ \E f \in EventsOf(log, s) :
        /\ f <= e /\ log[f].turn = t /\ t # NoTurn
        /\ \A g \in EventsOf(log, s) : f < g /\ g <= e => log[g].turn = NoTurn
    \/ /\ t \in EventsOf(log, s)
       /\ \A g \in EventsOf(log, s) : t <= g /\ (g <= e => log[g].turn = NoTurn)

In(tab, seq) == {e \in Ids : tab.placed[e] = seq}

\* event_turns holds exactly the events up to n, each in the turn it belongs to.
Covers(log, s, tab, n) ==
    \A e \in Ids : tab.placed[e] # 0 <=> e \in EventsOf(log, s) /\ e <= n
PlacedRight(log, s, tab) ==
    \A e \in Ids : tab.placed[e] # 0 =>
        \E t \in TurnIds : TurnOf(log, s, e, t) /\ tab.turns[t].seq = tab.placed[e]

\* A turns row agrees with the events placed in it.
BlankRows(tab) == \A t \in TurnIds : tab.turns[t].seq = 0 => tab.turns[t] = NoTurnRow
SpansRight(log, tab) ==
    \A t \in TurnIds : tab.turns[t].seq # 0 =>
        LET r == tab.turns[t] IN
        /\ r.first \in In(tab, r.seq) /\ r.last \in In(tab, r.seq)
        /\ \A e \in In(tab, r.seq) : r.first <= e /\ e <= r.last
        /\ r.prompt = 1 <=> \E e \in In(tab, r.seq) : log[e].kind = Prompt
CountsRight(tab) ==
    \A t \in TurnIds : tab.turns[t].seq # 0 =>
        tab.turns[t].count = Cardinality(In(tab, tab.turns[t].seq))
NumberedInOrder(tab) ==
    \A t, u \in TurnIds : tab.turns[t].seq # 0 /\ tab.turns[u].seq # 0 /\ t # u =>
        /\ tab.turns[t].seq # tab.turns[u].seq
        /\ tab.turns[t].seq < tab.turns[u].seq => tab.turns[t].first < tab.turns[u].first

CandidatesRight(log, v, tab) ==
    \A e \in Ids : tab.cands[e] = IF tab.placed[e] # 0 /\ log[e].kind \in CandidateKinds[v]
                                  THEN tab.placed[e] ELSE 0

Faithful(log, v, s, tab, n) ==
    /\ Covers(log, s, tab, n) /\ PlacedRight(log, s, tab)
    /\ BlankRows(tab) /\ SpansRight(log, tab) /\ CountsRight(tab) /\ NumberedInOrder(tab)
    /\ CandidatesRight(log, v, tab)

\* The running state from which the event after n is placed.
StateRight(log, s, tab, state, n) ==
    /\ \A t \in TurnIds : tab.turns[t].seq < state.next
    /\ IF n = 0 THEN state = FreshState
       ELSE n \in EventsOf(log, s) /\ TurnOf(log, s, n, state.last)

Indexed(log, v, s, tab, state, n) ==
    Faithful(log, v, s, tab, n) /\ StateRight(log, s, tab, state, n)

\* A session marked current has every one of its events in the turn the builder
\* would put it in, with turn rows, spans, counts, prompts and candidates to
\* match: "covers all its events" (TurnIndexCurrent), whatever interleaving of
\* ingest, chunked builds, crashes and version bumps produced it.
IndexFaithful ==
    \A s \in Sessions : TurnIndexCurrent(s) => Faithful(events, version, s, tables[s], Len(events))

\* "the index can never hold an event the table does not, or miss one it does"
\* (StoreEvent, store.go:292): the coverage part of the above, which needs no
\* restart to run an older binary.
IndexMissesNothing ==
    \A s \in Sessions : TurnIndexCurrent(s) => Covers(events, s, tables[s], Len(events))

\* A page read that got past BuildTurnIndex reads a current index: no other
\* builder deletes it under the reader.
ReaderSeesIndex ==
    \A p \in Procs : pc[p] = "reading" => TurnIndexCurrent(cur[p])

\* Ingest never fails on the index: what StoreEvent is about to insert is in no
\* table yet, whatever an interrupted build left behind.
IngestNeverConflicts ==
    \A ev \in Event :
        LET s == ev.session
            e == Len(events) + 1
        IN  e \in Ids =>
            /\ TurnIndexCurrent(s) =>
                ~Conflict(tables[s], RowState(s), e, ev)
            /\ row[s] = NoRow /\ EventsOf(events, s) = {} => ~Conflict(tables[s], FreshState, e, ev)

\* BackfillTurnIndex stops at the first session that fails; none does, because
\* it only takes sessions that already have events.
BackfillNeverFails == pc[Backfill] # "failed"

\* A session with events has a current index, or a read that found none is building
\* it, or its row is of other rules and of a time when it had no event.
Kept(s) == EventsOf(events, s) # {} =>
    \/ TurnIndexCurrent(s)
    \/ row[s] = NoRow /\ \E p \in Readers : pc[p] \in Building /\ cur[p] = s
    \/ row[s] # NoRow /\ row[s].through = 0

\* The pass "returns when none is left" (BackfillTurnIndex, stored_turns.go:498), and
\* then none comes back, although it looks only at sessions that are in the sessions
\* table and a session's first event gets there by a statement of its own, which may
\* come later or fail.  What it can miss is a session of the last kind of Kept.
BackfillLeavesNone == pc[Backfill] = "done" => \A s \in Sessions : Kept(s)

\* BuildTurnIndex "indexes every event of a session whose index is not current,
\* and marks it current" (turn_index.go:302): it does not fail.  It does when ingest
\* opens the row of a session without events after the build's delete: the build reads
\* the event that ingest has indexed and places it a second time.
BuildSucceeds == \A p \in Procs : pc[p] # "failed"

\* No session's turns look like this: no event has the id 0.
HiddenAnswer == [e \in {0} |-> NoTurn]

\* The turn of every event that a session's tables hold.
TurnsIn(tab) ==
    [e \in {e \in Ids : tab.placed[e] # 0} |->
        CHOOSE t \in TurnIds : tab.turns[t].seq = tab.placed[e]]

\* What a reader can learn from the index, as the abstract TurnLog has it: the
\* turn of each event of a session marked current, nothing of any other.
IndexAnswer(s) == IF TurnIndexCurrent(s) THEN TurnsIn(tables[s]) ELSE HiddenAnswer

TurnLog == INSTANCE TurnLog WITH Hidden <- HiddenAnswer, answer <- [s \in Sessions |-> IndexAnswer(s)]

\* Chunked builds, live ingest and crashes together implement an append-only log
\* whose turns are assigned once: an answer appears whole, is right when it does,
\* grows with the log, and is withdrawn whole, by a restart or by a build that
\* checked before the session's first event.
ImplementsTurnLog == TurnLog!Spec

\* The backfill reaches every session that SessionsAwaitingTurnIndex would list while
\* it runs.  A session whose first event is stored unindexed is not yet listed: until
\* its sessions row is seeded the pass may end without it.
AwaitingIndexed ==
    \A s \in Sessions : Awaiting(s) /\ pc[Backfill] # "done" ~> TurnIndexCurrent(s)
-----------------------------------------------------------------------------
(***************************************************************************)
(* The inductive invariant behind IndexFaithful and ReaderSeesIndex, for   *)
(* deployments that never go back to an older binary.                      *)
(***************************************************************************)
\* The tables a build will go on from.
Seen(p) == IF pc[p] \in InTx THEN work ELSE tables[cur[p]]

RowsIndexed ==
    \A s \in Sessions :
        /\ row[s].version <= version
        /\ TurnIndexCurrent(s) =>
            /\ Indexed(events, version, s, tables[s], RowState(s), row[s].through)
            /\ After(events, s, row[s].through) = {}
        /\ EventsOf(events, s) = {} => tables[s] = EmptyTables

LocksHeld ==
    /\ \A p \in Procs : pc[p] \in Exclusive => lock[cur[p]] = p
    /\ \A p \in Procs : pc[p] \in InTx <=> writer = p

\* Either the session has no row and the build has placed a prefix, or ingest has
\* opened the row under a build that has placed nothing.
BuildRight(p) ==
    IF pc[p] \in Building
    THEN \/ /\ row[cur[p]] = NoRow
            /\ Indexed(events, version, cur[p], Seen(p), st[p], through[p])
         \/ /\ TurnIndexCurrent(cur[p])
            /\ st[p] = FreshState /\ through[p] = 0 /\ Seen(p) = tables[cur[p]]
    ELSE st[p] = FreshState /\ through[p] = 0

\* What is left of a chunk is the next events of the session, without a gap.
BatchRight(p) ==
    pc[p] \in {"begin", "chunk"} =>
        \A e \in batch[p] :
            /\ e \in EventsOf(events, cur[p])
            /\ \A f \in After(events, cur[p], through[p]) : f < e => f \in batch[p]

BuildsRight == \A p \in Procs : BuildRight(p) /\ BatchRight(p)

\* Nobody builds an index that somebody reads.
ReadersApart ==
    \A p \in Procs : pc[p] = "reading" =>
        /\ TurnIndexCurrent(cur[p])
        /\ \A q \in Procs : pc[q] \in Exclusive \ {"check"} => cur[q] # cur[p]

IndexInv == TypeOK /\ RowsIndexed /\ LocksHeld /\ BuildsRight /\ ReadersApart

-----------------------------------------------------------------------------
(***************************************************************************)
(* The inductive invariant behind BackfillNeverFails and                   *)
(* BackfillLeavesNone, for every deployment, also one that goes back.      *)
(***************************************************************************)
\* A build of a session without a row has placed a prefix.
FreeBuild(p) ==
    IF pc[p] \in Building
    THEN row[cur[p]] = NoRow =>
            Indexed(events, version, cur[p], Seen(p), st[p], through[p]) /\ BatchRight(p)
    ELSE st[p] = FreshState /\ through[p] = 0

\* A row's end is an event of its session.
RowsBegun == \A s \in Sessions : row[s].through = 0 \/ EventsOf(events, s) # {}

\* The backfill takes only listed sessions.  They have events, and ingest opens no row
\* for a session with events, so the backfill builds without one.
Unhindered ==
    /\ projected \cup seeding \subseteq WithEvents
    /\ todo \subseteq projected
    /\ pc[Backfill] \in Exclusive \cup {"lock"} => cur[Backfill] \in projected
    /\ pc[Backfill] \in Building => row[cur[Backfill]] = NoRow
    /\ BackfillNeverFails

\* What the pass does not look at has lost nothing since the process started.
BackfillRight ==
    /\ Unhindered /\ BackfillLeavesNone
    /\ \A s \in Sessions \ projected : Kept(s)

FreeInv == TypeOK /\ LocksHeld /\ \A p \in Procs : FreeBuild(p)
BackfillInv == FreeInv /\ RowsBegun /\ BackfillRight
=============================================================================
