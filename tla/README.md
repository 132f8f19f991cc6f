# log-store in TLA+

log-store keeps every event of llm-bridge agent sessions in SQLite, places each event in
its turn as it is stored, builds each turn's reading page once and keeps the result, and
serves pages from those rows.  Everything except the `events` table is derived, and most of
the derived state is written by several parties at once: ingest requests, page reads that
build on demand, a boot-time backfill, and a background materializer.  This directory
models those parties, checks them with TLC and proves the main results with TLAPS.

    tlc -workers 2 -config TurnIndex_one.cfg MCTurnIndex
    tlapm TurnIndexProofs.tla

## 1. The system

| component | code | state | operations | what makes it correct |
|---|---|---|---|---|
| turn index | `internal/store/turn_index.go` | `turn_index_sessions`, `event_turns`, `turns`, `dedup_candidates` | `indexEventInTx` in the ingest transaction; `BuildTurnIndex` | a session marked current has every event in its right turn |
| turn index backfill | `stored_turns.go:498` | its list of sessions, from `sessions` | list, build, repeat | reaches every listed session, fails on none |
| stored reading page | `internal/server/stored_turns.go`, `project.go` | builder columns of `turns`, `turn_entries` | `storedTail`, `fullStoredEntry`, `materializeStoredTurn`, `ReplaceMaterializedTurn` | a stored turn that looks fresh is right; a page is whole and as new as its request |
| dual-emit pairing | `internal/server/dedup.go` | none (recomputed) | `pairDualEmits`, `pairsFingerprint` | pairs never change once made; a changed pairing makes a turn stale |
| turn materializer | `stored_turns.go:409` | `pending`, `wake` | `noteEvent`, `run` | every turn that ends is taken up |
| entry builder | `internal/server/turnmodel.go` | none | classify, annotate, surface | nothing said is lost, nothing shows twice; a turn built alone is as built together |
| ingest handler | `server.go:71` | none of its own | store, note, forward | the order of its three effects |
| sessions projection | `store.go:321`, `:166` | `sessions` | several autocommit statements per event; backfill in `migrate` | no event counted twice; last harness id wins |
| logstack forwarder | `internal/logstack/forward.go` | counters under a mutex, goroutines | `Forward`, `recordFailure`, `recordSuccess` | every result handed over is recorded once |
| validators | `internal/store/validators.go` | none | newest event id of a session | a client can tell that a page is out of date |
| raw page | `server.go:214` | none | same window as the page, capped at 5000 events as counted | leaves out the oldest turns and says so; its readings are the page's, or older where turns interleave |
| paging | `turn_index.go:531` | none | `TurnWindow`: four to six queries | walking back gives every turn once |
| search, windows | `store.go:508` | none | LIKE search, binary search over ids | finds the first id at or after a time |
| turn state, event lists | `store.go:807`, `:418` | none | two queries; a query from a mark | an answer was true during the call; polling misses nothing |
| client library | `client/client.go` | none | HTTP calls with a time-out of five seconds | a repeated push is stored no more often than answers were lost |
| images, aggregates | `entry_images.go`, `store.go` | none | decoding one event; single queries | |
| config, main | `internal/config/`, `cmd/` | none | settings at boot; starting the rest | |

How they interact: `POST /events` runs `StoreEvent` (event and index in one transaction),
then the projection (one transaction per statement; the first gives a new session its `sessions` row, from
which the backfill lists), then `noteEvent` (a set under a mutex and
a channel of capacity 1), then `Forward` (a goroutine).  A read runs `BuildTurnIndex`, chooses
turns, reads the session's candidates, rebuilds stale turns, reads the entries and last the
validator: separate queries over a pool of read connections.  SQLite has one writer
connection (`SetMaxOpenConns(1)`), so write transactions are serial and readers see the
last commit.  A client's call may give out after the server has stored what it sent, and calls
of several queries have other clients' events between them.

The hard parts are all of one kind: state read in one query and used in a later one while
another party writes it; builds that are split into transactions for the sake of ingest;
restarts with other code on the same database; answers that do not arrive; and a builder whose
three surfacing passes must add up to one reading, on one turn or on many.  `PROJECT.json` lists each such place.

## 2. The modules

| module | what it models |
|---|---|
| `TurnIndex` | the turn index: ingest, readers, backfill, locks, the writer, restarts with another `turnIndexVersion` |
| `TurnLog` | the abstract specification of the index: a log, and per session no answer or the turn of every event |
| `StoredTurns` | the stored reading page of one session, query by query, with the materializer and ingest underneath |
| `DualEmit` | the pairing of dual-emitted copies, used by the next two |
| `TurnModel` | the builder: what is shown of a session and where its readings come from, for one turn and for a page |
| `Calls` | a client's calls of several steps: paging on both pages, turn state, polling, pushing |
| `WindowSearch` | a search in a time window, probe by probe, while ingest appends |
| `Ingest` | one POST from the stored event to the answer, the projection, the materializer's wake-up, the forwarder |
| `MC...` | constant definitions and symmetries of the small instances |
| `TurnIndexProofs`, `StoredTurnsProofs`, `IngestProofs`, `WindowSearchProofs`, `TurnModelProofs`, `CallsProofs` | theorems about the module each is named for |
| `TurnLogProofs` | the proof that `TurnIndex` implements `TurnLog` |
| `NatSets` | facts about finite sets of numbers that several of them use |

`TurnIndex`, `StoredTurns` and `Ingest` divide the program by the data they share; `TurnModel` opens what
`StoredTurns` takes as given, namely what an entry says to a reader; `Calls` and `WindowSearch` read the event
table and the index.  `TurnIndex` shows that
a session's index is, whenever it is current, a function of the log (`ImplementsTurnLog`);
`StoredTurns` and `Calls` build on that: their events carry the turn the index gives them and
`BuildTurnIndex` is one step, with no state between its parts.  `Ingest`
knows that a pass over a session happens; `StoredTurns` knows what a pass does.  The
operators that are named as in the code (`AssignTurn`, `WriteTables`, `Twin`,
`NeedsMaterializing`, `SurfacedNarration`, ...) are its functions; an action is one
transaction, one query, or one section between two of them.

### TurnIndex

- `events`: the table; an id is a position (AUTOINCREMENT).  `row[s]`: the session's
  `turn_index_sessions` row, version 0 for none.  `tables[s]`: `placed` is `event_turns`,
  `turns` the index columns of `turns`, `cands` the `dedup_candidates` rows.
- `projected`: the sessions with a row in `sessions`, which is all that the backfill lists (`Awaiting`).
  `seeding`: those whose row some request has yet to insert after its event's commit; the statement may
  fail (`SeedFails`) and is then only logged.  `migrate` gives every session with events its row at boot.
- `StoreIndexed`, `StoreFirst`, `StoreUnindexed` are the three ways `indexEventInTx` can go.
- `Lock`, `CheckCurrent`, `DeletePartial`, `ReadChunk`, `Begin`, `PlaceEvent`,
  `CommitChunk`, `MarkCurrent` are `BuildTurnIndex`.  A transaction is a private copy `work`,
  published by its commit; whoever holds `writer` keeps ingest waiting.  A primary-key
  conflict (`Conflict`, or a row that exists already) aborts and fails the build.
- A synthesised turn id `t_<n>` is the number n, so names that bridges send never look like
  one (`NoTurn \notin TurnIds`, names are model values).
- `Restart` drops open transactions, locks and goroutines, keeps what was committed and may
  change the version; `Rollback` says whether it may go down.

### StoredTurns

- The log only grows, so what a query saw of it is a number: how many events there were.  A
  process keeps `began` (its window query), `paired` (candidates), `rows` (a turn's events).
- `stored[t]` is what the builder columns and `turn_entries` of turn t hold: the rules
  version, the last event read, the pairs (the code keeps their hash), the entry ids listed
  in `turn_json`, and the entry rows with the twin that names their group.
- A page is `StartPage`, `ReadPairs`, then `ReadTurnEvents` and `ReplaceMaterializedTurn` for
  each stale turn, `ReadEntries`, `ReadValidator`, `Answer`; an entry read starts with
  `StartEntry` and has no validator; the materializer starts with `StartSettle`, for its newest
  turns, and goes newest first.
- `TurnWindow` issues up to four queries; nothing between them but ingest moves the rows
  they read, which can only add turns at the new end, so they are one step there.  `Calls` takes them apart.

### TurnModel

- The only variable is the log, one event at a time; everything else is a function of it, as in the
  code.  An event has what the builder looks at: type, source, whether it is marked recovered, the text it may
  pair on, whether it says anything, its turn id, its message id, and which aggregates it carries.
- `ShownByType` is `classify` with the pairs; `SurfacedNarration`, `SurfacedRecovered` and
  `SurfacedUnsuperseded` are the three passes.  A pass makes entries primary and reads no
  visibility but that of text blocks, so a pass is a set and their order is a union; that no two
  passes work in one turn is a property (`OneVoice`), not an assumption.
- `Shown(log, R)` is the builder run on rows R: one turn's on the stored path, a page's on the
  raw one.  `StoredShown` puts turns built alone together.
- `TurnSources`, `StoredSources` and `RawSources` say which event each aggregate is taken from.

### Calls

- `log` holds one session's events with their turns.  An id is of all sessions, so that event k has
  id 2k and an odd cursor is of another session's event.
- `FindBound`, `FindBelow`, `FindStart`, `CountPrompts`, `FindPlainStart`, `ReadTurns`, `FindMore` are the
  queries of `TurnWindow`; `Trim`, `ReadEvents` and `RawDone` the rest of `materializeTail`.
  `ask.chosen` is the log's length when the turns and their counts were read.
- `AskOlder` is a client that goes on from any event of its oldest turn, as the pages' cursors
  do; `walk` records what it has been given.
- `AskFirst` and `AskSecond` are `TurnState`'s queries; `Poll` is `ListEventsSinceID` with the highest id
  so far; a client that loses its answer loses its mark (`PollLeft`).
- `Send` ... `Created` is a push and its handler; `GiveUp` is the client's time-out, which the
  handler does not notice: a request not stored yet becomes a stray, stored or failed later.

### Ingest

- One action per statement of `updateSessionProjection` that the properties tell apart
  (`last_active` and `ended_at` are clock readings and are left out), `ProjectionFails` for an
  error in any of them, `NoteEvent` and `WakeRunner` for the two halves of `noteEvent`,
  `Forward` for the hand-over and the answer.
- `Woken`, `TakePending`, `Visit`, `PassOver` are the loop of `turnMaterializer.run`; map
  iteration order is the choice of `Visit`.
- `RecordFailure` and `RecordSuccess` are a send's end, in any order.

### WindowSearch

- `created[e]` is the `created_at` of event e.  A time is a day and a second of the day, which is
  all that the two text shapes tell apart; `Earlier` is the comparison as it comes out.
- `ReadBounds`, `ProbeNewest`, `ProbeOldest`, `ProbeMiddle`, `Narrowed` are the queries and the
  end of `firstEventIDAtOrAfter`, run for `since` and then for `until` (`side`);
  `Query` is the text query, of which only the range of ids is kept.
- Ids have no gaps: nothing deletes events and a rolled-back INSERT gives its id back.  The code
  has a branch for gaps, and the model none.  (With a gap between `mid` and `hi` the probe
  would answer `hi` itself and `hi = gotID` leave the interval unchanged; the `break` that the
  comment at `store.go:669` has for this is not reached, as the event at `hi` is late enough.)

## 3. What is checked

Every run finishes within a few minutes.  Deadlock checking is off everywhere: with the bounds
used up every request answered and no restart left, nothing has to happen.

| run | instance | shows |
|---|---|---|
| `TurnIndex_one` | 1 session, 1 reader and the backfill, 2 turn names, 4 events (up to 2 older than the index), chunks of 2, 1 upgrade | `IndexFaithful`, `IngestNeverConflicts`, refinement of `TurnLog` |
| `TurnIndex_two` | 2 sessions, 3 events, chunks of 1, 1 restart | `ReaderSeesIndex`, `BackfillNeverFails`, `BackfillLeavesNone`, and under fairness `AwaitingIndexed` |
| `TurnIndex_race` | 1 session, 2 events | violation of `BuildSucceeds` |
| `StoredTurns_reads` | 1 reader (pages, and the last event's entry) and the materializer, 3 events in 2 turns, 2 rule versions, 1 restart | `FreshIsRight`, `PageAsNewAsRead`, `PairsStay` |
| `StoredTurns_whole`, `_validator` | the same without restart | violations of `PageWhole`, `PageHoldsValidated` |
| `TurnModel_builds` | every session of up to 4 of 24 events (every kind a pass, a pair or an aggregate looks at) in 2 turns | `OneVoice`, `WordsReachReader`, `AloneAsTogether`, `ShownAsOften`, `StoredReadingsLatest`, `RawReadingsLag` |
| `Calls_all` | 4 events, limits 1 and 2, a cap of 2 events, a push sent up to 3 times | `WalkWhole`, `PageHoldsLimit`, `MoreTruthful`, `CutAtCap`, `StateWasTrue`, `PolledOnce`, `PushedOnce` |
| `Ingest_events` | 2 requests, 2 sessions, 3 events, 1 fault | `ProjectionTallies`, `ResultsAccounted`, `NoLostWake`, `NoEndForgotten`, and under fairness `EndedTurnsVisited` |
| `Ingest_harness` | 2 requests, 1 session, 2 harness ids | violation of `HarnessIsLatest` |
| `WindowSearch_all` | 3 days, every window over them, 5 events | `SliceRight`, and under fairness `SearchEnds` |
| `WindowSearch_exact` | 2 days of 2 seconds, 2 events | violation of `WindowExact` |

Why the bounds are enough to meet the interesting cases.  Chunks of 2 with 4 events give a
build with a committed chunk and a final transaction, with room for an event to land before,
between and after them, and a crash in the middle.  Two names give a turn left and returned
to.  Two versions suffice for a stale index, since only equality matters; going back needs a
second restart.  In `StoredTurns`, three events give an event, its twin in the other turn, and
one more that makes either turn stale; a reader and the materializer give two builds that
finish in either order.  In `TurnModel`, a property is violated by at most a reply, its twin, a
block or delta, and one more in the other turn; four events hold two such pairs, in one turn or two, interleaved or not.
In `Calls`, four events make four turns, or two turns of two, or one over the cap with
another next to it; limits of 1 and 2 make pages of several turns and walks of several pages; with three tries a
push is refused, lost and sent once more.  In `Ingest`, two requests and one materializer meet on the wake
channel; three events fill pending while a pass is working.  In `WindowSearch`, five events make the
search halve its interval up to three times, with ties, and leave events to land between
probes; three days put an event before, inside and after a window.  The bounds (`Max...`) are in the
guards of the actions they bound; the theorems hold for all their values.

Symmetry is used only in runs without liveness properties: over turn names in `TurnIndex_one`, over
rule versions in `StoredTurns_reads`.

### Disagreements with the code's own comments

1. **A read of an event-less session can fail** (`TurnIndex_race`).  If ingest stores the first event
   after the build's delete, it opens the session's row and places the event.  The build's next chunk, or its last
   transaction, then reads that event and inserts it into `event_turns` a second time
   (`turn_index.go:269`), which fails on the primary key.  The read answers 500; the next
   read is fine.  A row opened before the delete is wiped by it, and that build succeeds.
2. **A page can list an entry it does not carry, and a stored, visible event can be answered 404**
   (`StoredTurns_whole`).  Both come from
   `ReplaceMaterializedTurn` being unconditional and from entries being read after, and apart
   from, the turn rows.  `FreshIsRight` shows that the damage does not last: the older build
   looks stale to the next read.  The run reads pages; an entry read takes the same two steps.
3. **A page can carry a validator newer than itself** (`StoredTurns_validator`), because the
   validator is read last.
4. **An older harness id can win** (`Ingest_harness`), because the projection runs after, and
   outside, the event's transaction.
5. **A time window is only accurate to the day** (`WindowSearch_exact`).  The bound is formatted
   with a space, the column comes back parsed and is formatted with a `T`, so on the bound's
   own day every event counts as not before it.  The tests' bounds fall on days without
   events.  By the comparison as made, the search is right (`SliceRight`).

Three more sentences of the repository say more than the code keeps; they have no run of their own, and
the properties named state what is kept instead:

6. **A raw page can hold more than its cap.**  "At most 5,000 events" (`README.md:76`; `server.go:210`) is true of
   the events that were counted with the window.  `TurnEvents` (`server.go:251`) has no limit, so what lands in
   the page's turns between the count and the read comes on top.  `CutAtCap` states the rest of that line.
7. **"Rows are iterated in eventId-ASC order, so a later assignment is the LATEST value"**
   (`turnmodel.go:460-461`) is false on a raw page of turns that interleave.  `RawReadingsLag` says
   when, and what is read instead.
8. **The backfill does not list "sessions that have events"** (`turn_index.go:447`), so it does not index "every session
   that has events" (`stored_turns.go:498`): it lists sessions with a `sessions` row, which a session's first event gets afterwards or, if the statement fails, not before the next
   boot.  `BackfillLeavesNone` says which sessions can be missed.

### Where a property stops

Some properties hold only under a condition that the code does not establish, and the
condition is part of their statement:

- Going back to an older binary can hide events.  A newer binary leaves an older index alone
  until it rebuilds the session; an event it stores first is in no turn when the older binary comes back and
  takes the row as its own.  `IndexMissesNothing`, with `Rollback = TRUE` and two restarts, shows it;
  the runs and theorems have `~Rollback`.
- `BackfillLeavesNone` excepts a session that was read while it was empty, by a binary with other rules.  That read left a
  row which is not current.  When the first event comes, ingest stores it without an index, and the session is
  listed only once its `sessions` row is seeded: later, or, if that statement fails, after the next boot.  The
  pass may find its list empty before that and end; the session then waits for a read or the next boot.
  `AwaitingIndexed` accordingly speaks of the sessions that would be listed while the pass still runs.
- `AloneAsTogether` needs `MessagesKeepTurn`: a message whose call landed in the next turn makes its text
  narration on the raw page and not on the stored one.
- `WordsReachReader` excepts a turn of live deltas and a recovered block without a result: neither pass
  shows either of them.
- `CutAtCap` counts the events there were at the count.  What lands between the count and the read comes on top (6 above).
- `WalkWhole` starts from the walk's first bound.  A first cursor above the session's newest event leaves out turns
  numbered above that event's turn, where turns go on after others began; and events of a
  turn over the cap are on no raw page, though `more` says that there are some.
- `PushedOnce` bounds the copies by the answers lost.  A client that sends again after a time-out may
  store its event twice, and nothing in the server tells: there is no key.

### Fairness

`TurnIndex`: goroutines run, so what stays possible happens (weak fairness).  `Build(p)` has
strong fairness because a builder waits for a lock and for the writer, each of which can be
taken again before it: Go's `sync.Mutex` hands over to a waiter in starvation mode and
`database/sql` serves connection requests in order.  Readers need not arrive,
ingest and restarts need not happen, and nothing assumes that they stop, other than the
bounds.  (With unbounded ingest into one session faster than a chunk is indexed the chunk
loop would go on; the bound excludes it.)  `Ingest`: an accepted request is served to its end
and the materializer's goroutine runs; sends to logstack need not end.  `WindowSearch`:
a request's goroutine runs, whatever ingest does.  `StoredTurns`, `TurnModel` and `Calls` have no liveness property.

## 4. What is proved

For every value of the constants, under the named assumptions of the modules (bounds are
natural numbers, names are distinct, versions are positive, `CandidateKinds` is a function):

- `TypeCorrect`: `TurnIndex!Spec => []TypeOK`.
- `IndexIsFaithful`, `ReadersSeeIndex`, `IngestIsClear`: `IndexFaithful`, `ReaderSeesIndex`,
  `IngestNeverConflicts`, provided `~Rollback`.
- `IndexImplementsLog`: `TurnIndex!Spec => ImplementsTurnLog`, the refinement of `TurnLog`, provided `~Rollback`.
- `BackfillSucceeds`, `BackfillIsComplete`, `HoldersHeld`: `BackfillNeverFails`, `BackfillLeavesNone` and
  `LocksHeld`, with or without rollbacks.
- `StoredInvariant`, `FreshTurnsAreRight`, `PagesAreNew`, `PairsNeverPart`, `StoredTypes`: `[]` of `StoredInv`,
  `FreshIsRight`, `PageAsNewAsRead`, `PairsStay` and `TypeOK`.
- `NoWakeUpLost`, `EndsAreKept`, `TypesKept`, `NoResultUnaccounted`, `CountedOnce`: `[]` of `NoLostWake`,
  `NoEndForgotten`, `TypeOK`, `ResultsAccounted` and `ProjectionTallies`.
- `SliceIsRight` and `TypesKept`: `[]SliceRight`, `[]TypeOK`; `SearchAdvances`: a search's steps lower a measure.
- `WalksAreWhole`, `PagesHoldLimit`, `PagesTellMore`, `RawPagesAreCut`, `TurnStateWasTrue`, `PollsMissNothing`,
  `PushesStoredOnce`, `CallsTypes`: every property of `Calls`.
- `OneVoicePerTurn`, `NothingSaidIsLost`, `BuiltAloneAsTogether`, `CopiesShownAsOften`,
  `StoredReadingsAreLatest`, `RawReadingsLagBehind`: every property of `TurnModel`.

**TurnIndex.**  `IndexFaithful` is not inductive: it says nothing of a session that
is being built.  `IndexInv` adds: what a build has placed is `Indexed` up to `through` (the
tables, and the running state from which the next event is placed); a build under which ingest
has opened the row has placed nothing; a batch has no gaps; locks are held by those who
build; a session that someone reads is being built by nobody; a row's version never exceeds the
binary's (where `~Rollback` is needed: a row left by a newer binary and later taken
as current would have missed events).  `PlaceNext` is the heart: `WriteTables` and
`WriteState` take `Indexed` through n to `Indexed` through the next event.  It serves live
ingest, chunk transactions and the final one alike.  Turns are stated in closed form
(`TurnOf`: the latest named turn at or before an event), so no recursion is involved.

*The refinement.*  The abstract answer of a session is read off its tables (`IndexAnswer`) while it is current, and
hidden otherwise.  A step of `TurnIndex` is a `Store` (ingest, whose extended tables answer for the longer log), a
`Show` (`MarkCurrent`), a `Withdraw` (a restart, or the delete of a build that ingest got ahead of), or a stutter
(everything else, chunk commits and crashes included: a session being built has no row).  What
makes the first two steps of `TurnLog` is `TablesAnswer`: tables that are `Indexed` up to the last event give each event
the turn of the abstract rule; `TurnOfIsRule` identifies the closed form with the rule's two CHOOSEs, and
turns are found by number because numbers are not shared (`Faithful`).

*The backfill.*  `FreeInv` holds where `IndexInv` does not, after a return to an older binary: it speaks only of
builds of sessions without a row.  Such a build has placed a prefix of its session, whatever older
tables held, since it began by deleting them; so what it places next is never there already (`OwnFree`).  What the
backfill lists has events, so ingest opens no row under it (`StoreFirst` is for sessions without one), and
other builders wait for the lock: its builds are all of that kind and do not fail.  That what is listed has events is
part of the invariant (`Unhindered`), since the list comes from `sessions`: a row is seeded only after an event.
`BackfillLeavesNone` follows a session that the pass goes by (`Passed`): from the start while it has no `sessions` row, and
every one once the list came out empty.  Nothing but a reader's build takes its index away then (`PassedStays`):
whoever deletes its row is past the delete of a build (`BuildKeeps`), and a build without a row ends by marking the
session current.  A first event that ingest stores unindexed finds a row of other rules that ends at 0, the exception.  `HoldersHeld` is the mutual exclusion that these and `IndexInv` rest on.

**StoredTurns.**  `FreshIsRight` needs to know where a stored build came from: `StoredInv`
says it is `Built` by some rules from some prefix of the log with the pairs of another
prefix.  Prefixes are stable as the log grows (`BuiltOfPrefix`); if a build's last event is
the turn's last event, the prefix held all of the turn's events, and if the fingerprints
agree, the pairs say the same of each entry (`SameBuild`).
`PairsStay`: copies from one source have places of their own (`PlacesApart`), so an event has one twin at most and the
one found stays (`TwinStays`).  `PageAsNewAsRead` needs `ReadInv`: what a read holds was built from prefixes too
(`ReadOf`), and it reads its pairs after its window; so a build it finds fresh has read all the turn's events
there were and hides what the pairs of a log no shorter hide (`FreshIsAsNew`).
`StoredTypes`: what is `BuiltFrom` a log is a build (`BuildsAre`); the rest of the state is typed step by step (`ServeInv`).

**Ingest.**  `NoLostWake` is inductive once `pc` is known to be a function: a
handler adds to `pending` before it signals, and the runner takes the signal before it takes
`pending`.  `AccountInv` adds to `ResultsAccounted` that no two busy requests hold the same event and none holds
one being sent (`HeldOnce`): else a hand-over might add nothing to what is being sent.  `TallyInv` adds to
`ProjectionTallies` that a session without a row has counted nothing and that a request past its seed finds its
row (`SeededFirst`): else `SeedRow` could reset a count, or migrate project what a tally is about to add.
`NoEndForgotten` needs to know that no pass is underway when pending is swapped, or the rest of that pass would be
lost (`EndInv`).  With `NoLostWake` it is the safety half of `EndedTurnsVisited`: what ended is held by somebody, and
somebody is about to act.

**WindowSearch.**  Ids are in the order of `created_at` (`InOrder`), so what one probe
says of an id holds for all on one side of it (`Monotone`).  `SliceInv` keeps, besides, that the ends of
the interval are what they are taken for (`lo` too early, `hi` not), that a bound found is
the first event late enough for ever (`First`; ingest only adds later ones), and that a bound
passed over was open or later than every event of the beginning.  `SearchAdvances` is what can be proved of
`SearchEnds`: each step of a search takes it to a later phase or shortens its interval, no stored event undoes
that, and as long as an interval may be halved, the id to be probed is strictly inside it.

**Calls.**  One invariant per call, all over a log that only grows (`LogNext`, `GrowsKeeps`).
*Walks*: `WalkInv` follows the turns that are still owed through the queries: they are below the cursor's turn
(`Anchored`), then below the bound (`Within`), then on the page or below it with `more` said (`Promised`); what was
given is not below it.  *Cap*: `Fitting` keeps either turns that are within the cap together or one alone (`TurnsFit`), and the
newest Cap of a set are at most Cap (`TopBounded`); what it leaves out is older, and the newest of that would have
overflowed, since the turns from it on did (`TrimCut`).  A turn over the cap is alone, so the others are read whole (`ReadCut`).  *Pages*: `PageInv` says after each query of `TurnWindow` what
its answer means for the log of the page's beginning, of the choice and of now: the count query found too few prompts then
(`AtCount`), or none (`AtPlain`); from the start on there are no more prompts of then than the limit, and no fewer of now
if one of then is below (`AtStart`).  This survives ingest because prompts only become more (`PromptsGrow`) and a turn's
number never changes.  `Told` says what `more` stands for: an event of a turn older than the page (`Older`), or, where
the only turn was cut at the cap, an event of it that was not read (`Rest`).  *Turn state*: an ended answer was true at the first query if
the end found was there by then, and else when that end was stored.  *Polling*: the mark is the
greatest event given, so it passes nothing else.  *Pushes*: every copy or stray beyond the first belongs to an
answer lost; `Sending` carries the bound on the tries.

**TurnModel.**  The invariant is the type of the log; the rest follows for each log.  Recovered text is shown by
its own pass alone (`RecoveredShown`), whose condition excludes the others.  A pair has one copy of each source and is
symmetric (`TwinPairs`), so what a hidden copy said is shown by its twin.  `CopiesShownAsOften` counts: the
place of a copy among its own numbers them without gaps (`PlaceTaken`), so an OTel copy shows if its place is beyond the
number of the others (`PastPlace`).  `RawReadingsLagBehind` needs no order of the turns: the raw page's rows
are ordered by turn and then by id (`RowBeforeIs`), so its reading is the newest of the last turn that carries one
(`RawSourcesIs`), which is the stored page's turn or one opened later.

With these, every invariant and action property of the passing runs, and the refinement, is a theorem.  `NoEndForgotten`,
`BackfillLeavesNone` and `SearchAdvances` are the parts of the three liveness properties that need no fairness.  Only
model-checked are the properties under fairness, `AwaitingIndexed`, `EndedTurnsVisited` and `SearchEnds`: leads-to
from weak or strong fairness needs ENABLED, which the prover does not have.  The violations are TLC's, of course.

## 5. What is not modelled

- SQL errors other than key conflicts in the index, failing projection statements and a failing store of a
  pushed event; JSON that does not parse.  They end a request before it changes more.
- Tool payload previews and their expansion, the texts and fields an entry copies, images: functions
  of one event.
- The forwarder's announcements and preflight: they log.
- What a search's text matches; session aggregates, session ids, the harness id lookup: single queries.
- Configuration, settings, deployment scripts: no behaviour over time here.

## 6. Plan

Done: the modules above, and the proof of every safety property that they state.  Left, in this order:

1. A composition of `StoredTurns` with `TurnModel`: what is fresh shows what the raw page shows.
2. `ForwarderHealth`: the health record with the order of sends and the announcement timer.
