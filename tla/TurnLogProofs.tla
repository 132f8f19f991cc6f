---------------------------- MODULE TurnLogProofs ----------------------------
(***************************************************************************)
(* TurnIndex implements TurnLog, as long as no restart goes back to an     *)
(* older binary.  A step that leaves the index alone stutters; ingest      *)
(* stores, the transaction that marks a session current shows its answer,  *)
(* and a restart or a build's delete withdraws answers.  What makes each   *)
(* of these a step of TurnLog is TablesAnswer: by IndexInv, the tables of  *)
(* a current session give every event the turn of the abstract rule.       *)
(***************************************************************************)
EXTENDS TurnIndexProofs

Map == [s \in Sessions |-> IndexAnswer(s)]   \* the abstract answers

LEMMA SameEvents == ASSUME NEW log, NEW s PROVE TurnLog!SessionEvents(log, s) = EventsOf(log, s)
  BY DEF TurnLog!SessionEvents, EventsOf

\* The turn of an event, in closed form, is the one the abstract rule computes.
LEMMA TurnOfIsRule ==
  ASSUME NEW log \in Seq(Event), NEW s, NEW e \in EventsOf(log, s), NEW t, TurnOf(log, s, e, t)
  PROVE  TurnLog!TurnRule(log, s, e) = t
<1> DEFINE all == EventsOf(log, s)
           named == {f \in all : f <= e /\ log[f].turn # NoTurn}
           first == CHOOSE f \in all : \A g \in all : f <= g
           latest == CHOOSE f \in named : \A g \in named : g <= f
<1>1. TurnLog!TurnRule(log, s, e) = IF named = {} THEN first ELSE log[latest].turn
  BY DEF TurnLog!TurnRule, TurnLog!NamedUpTo, TurnLog!SessionEvents, EventsOf
<1>2. all \subseteq Nat
  BY EventIds
<1> HIDE DEF all, first, latest
<1>3. CASE \E f \in all : /\ f <= e /\ log[f].turn = t /\ t # NoTurn
                          /\ \A g \in all : f < g /\ g <= e => log[g].turn = NoTurn
  <2>1. PICK f \in all : /\ f <= e /\ log[f].turn = t /\ t # NoTurn
                         /\ \A g \in all : f < g /\ g <= e => log[g].turn = NoTurn
    BY <1>3
  <2>2. f \in named /\ \A g \in named : g <= f
    BY <2>1, <1>2
  <2>3. latest \in named /\ \A g \in named : g <= latest
    BY <2>2 DEF latest
  <2>4. latest = f
    BY <2>2, <2>3, <1>2
  <2> QED BY <1>1, <2>1, <2>2, <2>4
<1>4. CASE t \in all /\ \A g \in all : t <= g /\ (g <= e => log[g].turn = NoTurn)
  <2>1. named = {}
    BY <1>4
  <2>2. first \in all /\ \A g \in all : first <= g
    BY <1>4 DEF first
  <2>3. first = t
    BY <2>2, <1>4, <1>2
  <2> QED BY <1>1, <2>1, <2>3
<1> QED BY <1>3, <1>4 DEF TurnOf, all

\* Tables that hold every event of a session in the turn it belongs to give the
\* abstract answer.
LEMMA TablesAnswer ==
  ASSUME NEW log \in Seq(Event), Len(log) <= MaxEvents, NEW v, NEW s, NEW tab, NEW n \in Nat,
         Faithful(log, v, s, tab, n), After(log, s, n) = {}
  PROVE  TurnsIn(tab) = TurnLog!AnswerOf(log, s)
<1> DEFINE placed == {e \in Ids : tab.placed[e] # 0}
           turn(e) == CHOOSE t \in TurnIds : tab.turns[t].seq = tab.placed[e]
<1>1. EventsOf(log, s) \subseteq Ids \cap Nat
  <2>1. Len(log) \in Nat /\ DOMAIN log = 1..Len(log)
    OBVIOUS
  <2> QED BY <2>1, BoundsAssumption DEF EventsOf, Ids
<1>2. placed = EventsOf(log, s)
  <2>1. \A e \in EventsOf(log, s) : e <= n
    BY <1>1 DEF After
  <2> QED BY <1>1, <2>1 DEF Faithful, Covers
<1>3. ASSUME NEW e \in placed PROVE turn(e) = TurnLog!TurnRule(log, s, e)
  <2>1. PICK t \in TurnIds : TurnOf(log, s, e, t) /\ tab.turns[t].seq = tab.placed[e]
    BY DEF Faithful, PlacedRight
  <2>2. \A u \in TurnIds : tab.turns[u].seq = tab.placed[e] => u = t
    BY <2>1 DEF Faithful, NumberedInOrder
  <2>3. turn(e) = t
    BY <2>1, <2>2
  <2> QED BY <1>2, <2>1, <2>3, TurnOfIsRule
<1>4. TurnLog!AnswerOf(log, s) = [e \in EventsOf(log, s) |-> TurnLog!TurnRule(log, s, e)]
  BY SameEvents DEF TurnLog!AnswerOf
<1>5. TurnsIn(tab) = [e \in placed |-> turn(e)]
  BY DEF TurnsIn
<1>6. [e \in placed |-> turn(e)] = [e \in EventsOf(log, s) |-> TurnLog!TurnRule(log, s, e)]
  <2> HIDE DEF placed, turn
  <2> QED BY <1>2, <1>3
<1> QED BY <1>4, <1>5, <1>6

\* A shown answer is never taken for a hidden one.
LEMMA ShownIsNotHidden ==
  ASSUME IndexInv, NEW s \in Sessions
  PROVE  IndexAnswer(s) = HiddenAnswer <=> ~TurnIndexCurrent(s)
<1>1. CASE TurnIndexCurrent(s)
  <2>1. DOMAIN IndexAnswer(s) \subseteq Ids
    BY <1>1 DEF IndexAnswer, TurnsIn
  <2>2. 0 \in DOMAIN HiddenAnswer /\ 0 \notin Ids
    BY BoundsAssumption DEF HiddenAnswer, Ids
  <2> QED BY <1>1, <2>1, <2>2
<1> QED BY <1>1 DEF IndexAnswer
-----------------------------------------------------------------------------
LEMMA MapInit == Init => TurnLog!Init
<1> SUFFICES ASSUME Init PROVE TurnLog!Init
  OBVIOUS
<1>1. IndexInv /\ TypeOK
  BY InvInit DEF IndexInv
<1>2. \A s \in Sessions : ~TurnIndexCurrent(s)
  BY <1>1, CurrentRow DEF Init
<1>3. \A s \in Sessions : IndexAnswer(s) = HiddenAnswer
  BY <1>2 DEF IndexAnswer
<1> QED BY <1>1, <1>3 DEF TurnLog!Init, TypeOK

\* Without a write to the index no answer changes.
LEMMA AnswersKept ==
  ASSUME UNCHANGED <<version, row, tables>>
  PROVE  Map' = Map
  BY DEF Map, IndexAnswer, TurnIndexCurrent

\* A step after which a set of sessions is not current, and which changes no
\* other's index, withdraws their answers.
LEMMA WithdrawStep ==
  ASSUME NEW S \in SUBSET Sessions, UNCHANGED events,
         \A s \in S : ~TurnIndexCurrent(s)',
         \A s \in Sessions \ S : IndexAnswer(s)' = IndexAnswer(s)
  PROVE  TurnLog!Next
<1>1. \A s \in S : IndexAnswer(s)' = HiddenAnswer
  BY DEF IndexAnswer, TurnIndexCurrent, HiddenAnswer
<1>2. TurnLog!Withdraw(S)
  BY <1>1 DEF TurnLog!Withdraw
<1> QED BY <1>2 DEF TurnLog!Next

LEMMA StoreStep ==
  ASSUME IndexInv, IndexInv', StoreEvent
  PROVE  TurnLog!Next
<1>1. PICK ev \in Event : LET s == ev.session IN
        StoreIndexed(s, ev) \/ StoreFirst(s, ev) \/ StoreUnindexed(s, ev)
  BY DEF StoreEvent
<1> DEFINE s == ev.session
<1>2. /\ events' = Append(events, ev) /\ version' = version /\ s \in Sessions
      /\ \A c \in Sessions : c # s => row'[c] = row[c] /\ tables'[c] = tables[c]
      /\ \/ row'[s] = row[s] /\ tables'[s] = tables[s] /\ ~TurnIndexCurrent(s)
         \/ /\ TurnIndexCurrent(s) \/ EventsOf(events, s) = {}
            /\ row'[s].version = version
  BY <1>1, StoredRow DEF Event
<1>3. \A c \in Sessions : c # s => IndexAnswer(c)' = IndexAnswer(c)
  BY <1>2 DEF IndexAnswer, TurnIndexCurrent
<1>4. CASE row'[s] = row[s] /\ tables'[s] = tables[s] /\ ~TurnIndexCurrent(s)
  <2>1. IndexAnswer(s)' = IndexAnswer(s) /\ IndexAnswer(s) = HiddenAnswer
    BY <1>2, <1>4 DEF IndexAnswer, TurnIndexCurrent, HiddenAnswer
  <2>2. Map' = Map
    BY <1>3, <2>1 DEF Map
  <2>3. TurnLog!Store(ev)
    BY <1>2, <2>1, <2>2 DEF TurnLog!Store, Map
  <2> QED BY <2>3 DEF TurnLog!Next
<1>5. CASE (TurnIndexCurrent(s) \/ EventsOf(events, s) = {}) /\ row'[s].version = version
  <2>1. TurnIndexCurrent(s)'
    BY <1>2, <1>5 DEF TurnIndexCurrent
  <2>2. IndexAnswer(s)' = TurnLog!AnswerOf(events', s)
    <3>1. /\ Faithful(events', version', s, tables'[s], row'[s].through)
          /\ After(events', s, row'[s].through) = {}
      BY <1>2, <2>1 DEF IndexInv, RowsIndexed, Indexed
    <3>2. events' \in Seq(Event) /\ Len(events') <= MaxEvents /\ row'[s].through \in Nat
      BY <1>2, BoundsAssumption DEF IndexInv, TypeOK, SessionRow
    <3>3. TurnLog!AnswerOf(events', s) = TurnsIn(tables'[s])
      BY <3>1, <3>2, TablesAnswer
    <3> QED BY <2>1, <3>3 DEF IndexAnswer
  <2>3. IndexAnswer(s) # HiddenAnswer \/ TurnLog!SessionEvents(events, s) = {}
    BY <1>2, <1>5, ShownIsNotHidden, SameEvents
  <2>4. Map' = [Map EXCEPT ![s] = TurnLog!AnswerOf(events', s)]
    BY <1>2, <1>3, <2>2 DEF Map
  <2>5. TurnLog!Store(ev)
    BY <1>2, <2>3, <2>4 DEF TurnLog!Store, Map
  <2> QED BY <2>5 DEF TurnLog!Next
<1> QED BY <1>2, <1>4, <1>5

\* The transaction that marks a session current shows its answer, or fails.
LEMMA MarkStep ==
  ASSUME IndexInv, IndexInv', NEW p \in Procs, MarkCurrent(p), NEW s \in Sessions, s = cur[p]
  PROVE  [TurnLog!Next]_TurnLog!vars
<1>1. events' = events /\ version' = version
  BY DEF MarkCurrent, IndexInv, TypeOK
<1>2. CASE row[s] # NoRow
  <2>1. UNCHANGED <<version, row, tables>>
    BY <1>1, <1>2 DEF MarkCurrent
  <2> QED BY <1>1, <2>1, AnswersKept DEF TurnLog!vars, Map
<1>3. CASE row[s] = NoRow
  <2>1. /\ row'[s].version = version
        /\ \A c \in Sessions : c # s => row'[c] = row[c] /\ tables'[c] = tables[c]
    BY <1>1, <1>3 DEF MarkCurrent, Commit, IndexInv, TypeOK
  <2>2. TurnIndexCurrent(s)' /\ ~TurnIndexCurrent(s)
    BY <1>1, <1>3, <2>1, CurrentRow DEF TurnIndexCurrent, IndexInv
  <2>3. TurnLog!AnswerOf(events, s) = IndexAnswer(s)'
    <3>1. /\ Faithful(events', version', s, tables'[s], row'[s].through)
          /\ After(events', s, row'[s].through) = {}
      BY <1>1, <2>2 DEF IndexInv, RowsIndexed, Indexed
    <3>2. events' \in Seq(Event) /\ Len(events') <= MaxEvents /\ row'[s].through \in Nat
      BY <1>1, BoundsAssumption DEF IndexInv, TypeOK, SessionRow
    <3>3. TurnLog!AnswerOf(events', s) = TurnsIn(tables'[s])
      BY <3>1, <3>2, TablesAnswer
    <3> QED BY <1>1, <2>2, <3>3 DEF IndexAnswer
  <2>4. \A c \in Sessions : c # s => IndexAnswer(c)' = IndexAnswer(c)
    BY <1>1, <2>1 DEF IndexAnswer, TurnIndexCurrent
  <2>5. Map' = [Map EXCEPT ![s] = TurnLog!AnswerOf(events, s)]
    BY <1>1, <2>3, <2>4 DEF Map
  <2>6. Map[s] = HiddenAnswer
    BY <1>1, <2>2 DEF Map, IndexAnswer
  <2>7. TurnLog!Show(s)
    BY <1>1, <2>5, <2>6 DEF TurnLog!Show, Map
  <2> QED BY <1>1, <2>7 DEF TurnLog!Next
<1> QED BY <1>2, <1>3

\* A chunk is committed for a session that is not current, or commits nothing.
LEMMA CommitStep ==
  ASSUME IndexInv, NEW p \in Procs, CommitChunk(p)
  PROVE  UNCHANGED TurnLog!vars
<1> DEFINE s == cur[p]
<1>1. /\ s \in Sessions /\ UNCHANGED <<events, version, row>> /\ pc[p] = "chunk"
      /\ tables'[s] = work /\ \A c \in Sessions : c # s => tables'[c] = tables[c]
  BY DEF CommitChunk, Commit, IndexInv, TypeOK
<1>2. TurnIndexCurrent(s) => work = tables[s]
  <2>1. TurnIndexCurrent(s) => row[s] # NoRow
    BY <1>1, CurrentRow DEF IndexInv
  <2> QED BY <1>1, <2>1 DEF IndexInv, BuildsRight, BuildRight, Seen, Building, InTx
<1>3. \A c \in Sessions : IndexAnswer(c)' = IndexAnswer(c)
  BY <1>1, <1>2 DEF IndexAnswer, TurnIndexCurrent
<1> QED BY <1>1, <1>3 DEF TurnLog!vars

LEMMA DeleteStep ==
  ASSUME IndexInv, NEW p \in Procs, DeletePartial(p), NEW s \in Sessions, s = cur[p]
  PROVE  TurnLog!Next
<1>1. /\ events' = events /\ version' = version /\ row'[s] = NoRow
      /\ \A c \in Sessions : c # s => row'[c] = row[c] /\ tables'[c] = tables[c]
  BY DEF DeletePartial, IndexInv, TypeOK
<1>2. ~TurnIndexCurrent(s)'
  BY <1>1, VersionNat DEF TurnIndexCurrent, NoRow, IndexInv, DeletePartial
<1>3. \A c \in Sessions \ {s} : IndexAnswer(c)' = IndexAnswer(c)
  BY <1>1 DEF IndexAnswer, TurnIndexCurrent
<1>4. PICK S \in SUBSET Sessions : S = {s}
  OBVIOUS
<1> QED BY <1>1, <1>2, <1>3, <1>4, WithdrawStep

\* A restart with the same rules keeps every answer; new rules withdraw them all,
\* since no row is of a version beyond the old one.
LEMMA RestartStep ==
  ASSUME IndexInv, Restart, ~Rollback
  PROVE  TurnLog!Next
<1> DEFINE S == {s \in Sessions : row[s].version # version'}
<1>1. UNCHANGED <<events, row, tables>> /\ version' \in Versions /\ version' >= version
  BY BoundsAssumption DEF Restart
<1>2. ASSUME NEW s \in Sessions \ S PROVE version' = version
  <2>1. row[s].version <= version /\ row[s].version = version'
    BY DEF IndexInv, RowsIndexed
  <2>2. version \in Nat /\ version' \in Nat
    BY <1>1, VersionNat, VersionsAssumption DEF IndexInv
  <2> QED BY <1>1, <2>1, <2>2
<1>3. \A s \in Sessions \ S : IndexAnswer(s)' = IndexAnswer(s)
  BY <1>1, <1>2 DEF IndexAnswer, TurnIndexCurrent
<1>4. \A s \in S : ~TurnIndexCurrent(s)'
  BY <1>1 DEF TurnIndexCurrent
<1>5. S \in SUBSET Sessions
  OBVIOUS
<1> HIDE DEF S
<1> QED BY <1>1, <1>3, <1>4, <1>5, WithdrawStep

LEMMA MapNext ==
  ASSUME IndexInv, IndexInv', [Next]_vars, ~Rollback
  PROVE  [TurnLog!Next]_TurnLog!vars
<1>1. CASE StoreEvent
  BY <1>1, StoreStep
<1>2. CASE Restart
  BY <1>2, RestartStep
<1>3. ASSUME NEW p \in Procs, DeletePartial(p) PROVE TurnLog!Next
  BY <1>3, DeleteStep DEF IndexInv, TypeOK
<1>4. ASSUME NEW p \in Procs, CommitChunk(p) PROVE UNCHANGED TurnLog!vars
  BY <1>4, CommitStep
<1>5. ASSUME NEW p \in Procs, MarkCurrent(p) PROVE [TurnLog!Next]_TurnLog!vars
  BY <1>5, MarkStep DEF IndexInv, TypeOK
<1>6. CASE UNCHANGED <<events, version, row, tables>>
  BY <1>6, AnswersKept DEF TurnLog!vars, Map
<1>7. CASE Aside \/ BackfillList \/ (\E s \in Sessions : BackfillNext(s))
           \/ \E p \in Readers, s \in Sessions : StartRead(p, s)
  BY <1>6, <1>7, AsideStep DEF BackfillList, BackfillNext, StartRead
<1>8. ASSUME NEW p \in Procs,
             Lock(p) \/ CheckCurrent(p) \/ ReadChunk(p) \/ Begin(p) \/ Answer(p)
               \/ \E e \in DOMAIN events : PlaceEvent(p, e)
      PROVE  [TurnLog!Next]_TurnLog!vars
  BY <1>6, <1>8 DEF Lock, CheckCurrent, ReadChunk, Begin, Answer, PlaceEvent
<1> QED BY <1>1, <1>2, <1>3, <1>4, <1>5, <1>7, <1>8 DEF Next, Aside, Build

\* Chunked builds, live ingest, crashes and upgrades together behave as an
\* append-only log whose events get their turns at once and for good: no reader
\* of a current index ever sees part of a build, or a turn the rule would not give.
THEOREM IndexImplementsLog == ASSUME ~Rollback PROVE Spec => ImplementsTurnLog
<1>1. Init => TurnLog!Init
  BY MapInit
<1>2. IndexInv /\ IndexInv' /\ [Next]_vars => [TurnLog!Next]_TurnLog!vars
  BY MapNext
<1>3. Spec => []IndexInv
  BY InvInductive
<1> QED BY <1>1, <1>2, <1>3, PTL DEF Spec, ImplementsTurnLog, TurnLog!Spec
=============================================================================
