--------------------------- MODULE TurnIndexProofs ---------------------------
(***************************************************************************)
(* Proofs about TurnIndex.  TypeOK needs no strengthening.  IndexInv is    *)
(* inductive as long as no restart goes back to an older binary: a current *)
(* row's tables are Indexed through its last event, a build's tables are   *)
(* Indexed through what it has placed, and the locks keep builders of one  *)
(* session, and builders and readers, apart.  The one fact about data is   *)
(* PlaceNext: writeEventTurn takes Indexed through n to Indexed through    *)
(* the session's next event, for live ingest and for builds alike.  The    *)
(* last part, on LocksHeld and BackfillInv, allows every restart.          *)
(***************************************************************************)
EXTENDS TurnIndex, FiniteSetTheorems, TLAPS

\* Steps that touch neither the index nor its builders: they move only the sessions
\* table, or nothing.
Aside == (\E s \in Sessions : Seed(s) \/ SeedFails(s)) \/ UNCHANGED vars

LEMMA AsideStep ==
  Aside => UNCHANGED <<events, version, restarts, row, tables, lock, writer, work,
                       pc, cur, st, through, batch, todo>>
  BY DEF Aside, Seed, SeedFails, procVars, vars

LEMMA EmptyTablesType == EmptyTables \in Tables
  BY DEF EmptyTables, Tables, TurnRow, NoTurnRow

LEMMA AssignTurnType ==
  ASSUME NEW last \in TurnIds \cup {NoTurn}, NEW e \in Ids, NEW turn \in TurnNames \cup {NoTurn}
  PROVE  AssignTurn(last, e, turn) \in TurnIds
  BY NamesAssumption DEF AssignTurn, TurnIds

LEMMA WriteType ==
  ASSUME NEW v \in Versions, NEW tab \in Tables, NEW e \in Ids, NEW ev \in Event,
         NEW state \in State
  PROVE  /\ WriteTables(v, tab, state, e, ev) \in Tables
         /\ WriteState(tab, state, e, ev) \in State
<1> DEFINE t == AssignTurn(state.last, e, ev.turn)
           seq == TurnSeq(tab, state, e, ev)
<1>1. t \in TurnIds
  BY AssignTurnType DEF Event, State
<1>2. seq \in Nat
  BY <1>1 DEF TurnSeq, Tables, TurnRow, State
<1>3. ExtendTurn(tab.turns[t], seq, e, ev) \in TurnRow
  <2>1. tab.turns[t] \in TurnRow
    BY <1>1 DEF Tables
  <2> QED BY <2>1, <1>2, BoundsAssumption DEF ExtendTurn, TurnRow, Ids
<1>4. WriteTables(v, tab, state, e, ev) \in Tables
  BY <1>1, <1>2, <1>3 DEF WriteTables, Tables
<1>5. WriteState(tab, state, e, ev) \in State
  BY <1>1 DEF WriteState, State
<1> QED BY <1>4, <1>5
-----------------------------------------------------------------------------
LEMMA InitType == Init => TypeOK
<1> SUFFICES ASSUME Init PROVE TypeOK
  OBVIOUS
<1>1. events \in Seq(Event) /\ Len(events) \in 0..MaxEvents
  <2>1. PICK n \in 0..MaxLegacy : events \in [1..n -> Event]
    BY DEF Init
  <2>2. n \in Nat /\ n \in 0..MaxEvents
    BY BoundsAssumption
  <2>3. events \in Seq(Event)
    BY <2>1, <2>2
  <2>4. Len(events) = n
    BY <2>1, <2>2, <2>3
  <2> QED BY <2>2, <2>3, <2>4
<1>2. row \in [Sessions -> SessionRow]
  BY DEF Init, NoRow, SessionRow
<1>3. tables \in [Sessions -> Tables] /\ work \in Tables
  BY EmptyTablesType DEF Init
<1>4. st \in [Procs -> State]
  BY DEF Init, FreshState, State
<1>5. cur \in [Procs -> Sessions]
  BY DEF Init
<1> QED BY <1>1, <1>2, <1>3, <1>4, <1>5, BoundsAssumption DEF Init, TypeOK, Steps, WithEvents

LEMMA IndexInsertedType ==
  ASSUME TypeOK, NEW s \in Sessions, NEW ev \in Event,
         NEW state \in State,
         InsertEvent(s, ev), IndexInserted(s, tables[s], state, ev)
  PROVE  TypeOK'
<1> DEFINE e == Len(events) + 1
<1>1. e \in Ids
  BY BoundsAssumption DEF TypeOK, InsertEvent, Ids
<1>2. tables[s] \in Tables
  BY DEF TypeOK
<1>3. /\ WriteTables(version, tables[s], state, e, ev) \in Tables
      /\ WriteState(tables[s], state, e, ev) \in State
  BY <1>1, <1>2, WriteType DEF TypeOK
<1>4. tables' \in [Sessions -> Tables]
  BY <1>3 DEF TypeOK, IndexInserted
<1>5. row' \in [Sessions -> SessionRow]
  <2>1. e \in Nat
    BY <1>1, BoundsAssumption DEF Ids
  <2> QED BY <1>3, <2>1 DEF TypeOK, IndexInserted, State, SessionRow
<1>6. events' \in Seq(Event) /\ Len(events') \in 0..MaxEvents
  BY <1>1 DEF TypeOK, InsertEvent, Ids
<1> QED BY <1>4, <1>5, <1>6 DEF TypeOK, InsertEvent, procVars

LEMMA LeaveType ==
  ASSUME TypeOK, NEW p \in Procs, NEW next \in Steps, Leave(p, next)
  PROVE  /\ lock' \in [Sessions -> Procs \cup {Nobody}] /\ pc' \in [Procs -> Steps]
         /\ st' \in [Procs -> State] /\ through' \in [Procs -> Nat] /\ batch' \in [Procs -> SUBSET Ids]
<1>1. FreshState \in State
  BY DEF FreshState, State
<1> QED BY <1>1 DEF Leave, Unlock, TypeOK

LEMMA AbortType ==
  ASSUME TypeOK, NEW p \in Procs, Abort(p),
         UNCHANGED <<events, version, restarts, row, tables, cur, todo, projected, seeding>>
  PROVE  TypeOK'
<1>1. Leave(p, "failed") /\ "failed" \in Steps
  BY DEF Abort, Steps
<1>2. /\ lock' \in [Sessions -> Procs \cup {Nobody}] /\ pc' \in [Procs -> Steps]
      /\ st' \in [Procs -> State] /\ through' \in [Procs -> Nat] /\ batch' \in [Procs -> SUBSET Ids]
  BY <1>1, LeaveType
<1> QED BY <1>2, EmptyTablesType DEF Abort, EndTx, TypeOK

LEMMA NextType == TypeOK /\ [Next]_vars => TypeOK'
<1> SUFFICES ASSUME TypeOK, [Next]_vars PROVE TypeOK'
  OBVIOUS
<1>a. NoRow \in SessionRow
  BY DEF NoRow, SessionRow
<1>b. FreshState \in State
  BY DEF FreshState, State
<1>c. Backfill \in Procs /\ Readers \subseteq Procs
  BY DEF Procs
<1>1. CASE StoreEvent
  <2> PICK ev \in Event : LET s == ev.session IN
          StoreIndexed(s, ev) \/ StoreFirst(s, ev) \/ StoreUnindexed(s, ev)
    BY <1>1 DEF StoreEvent
  <2> DEFINE s == ev.session
  <2>0. s \in Sessions
    BY DEF Event
  <2>1. CASE StoreIndexed(s, ev)
    <3>1. RowState(s) \in State
      BY <2>0 DEF TypeOK, SessionRow, State, RowState
    <3> QED BY <2>0, <2>1, <3>1, IndexInsertedType DEF StoreIndexed
  <2>2. CASE StoreFirst(s, ev)
    BY <2>0, <2>2, <1>b, IndexInsertedType DEF StoreFirst
  <2>3. CASE StoreUnindexed(s, ev)
    <3>1. events' \in Seq(Event) /\ Len(events') \in 0..MaxEvents
      BY <2>3, BoundsAssumption DEF StoreUnindexed, InsertEvent, TypeOK
    <3> QED BY <2>0, <2>3, <3>1 DEF StoreUnindexed, InsertEvent, TypeOK, procVars
  <2> QED BY <2>1, <2>2, <2>3
<1>2. ASSUME NEW p \in Readers, NEW s \in Sessions, StartRead(p, s) PROVE TypeOK'
  BY <1>2, <1>c DEF StartRead, TypeOK, Steps
<1>3. CASE BackfillList
  BY <1>3, <1>c DEF BackfillList, TypeOK, Steps
<1>4. ASSUME NEW s \in Sessions, BackfillNext(s) PROVE TypeOK'
  BY <1>4, <1>c DEF BackfillNext, TypeOK, Steps
<1>5. ASSUME NEW p \in Procs, Build(p) PROVE TypeOK'
  <2>0. cur[p] \in Sessions
    BY DEF TypeOK
  <2>1. CASE Lock(p)
    BY <2>1 DEF Lock, TypeOK, Steps
  <2>2. CASE CheckCurrent(p)
    <3>1. CASE TurnIndexCurrent(cur[p])
      <4>1. /\ lock' \in [Sessions -> Procs \cup {Nobody}] /\ pc' \in [Procs -> Steps]
            /\ st' \in [Procs -> State] /\ through' \in [Procs -> Nat] /\ batch' \in [Procs -> SUBSET Ids]
        BY <2>2, <3>1, LeaveType DEF CheckCurrent, Return, Steps
      <4> QED BY <2>2, <4>1 DEF CheckCurrent, TypeOK
    <3>2. CASE ~TurnIndexCurrent(cur[p])
      BY <2>2, <3>2 DEF CheckCurrent, TypeOK, Steps
    <3> QED BY <3>1, <3>2
  <2>3. CASE DeletePartial(p)
    BY <2>3, <1>a, EmptyTablesType DEF DeletePartial, TypeOK, Steps
  <2>4. CASE ReadChunk(p)
    <3>1. ReadEventTurnFields(cur[p], through[p], Chunk) \subseteq Ids
      <4>1. DOMAIN events \subseteq Ids
        BY BoundsAssumption DEF TypeOK, Ids
      <4> QED BY <4>1 DEF ReadEventTurnFields, After, EventsOf
    <3> QED BY <2>4, <3>1 DEF ReadChunk, TypeOK, Steps
  <2>5. CASE Begin(p)
    BY <2>5, <2>0 DEF Begin, TypeOK, Steps
  <2>6. ASSUME NEW e \in DOMAIN events, PlaceEvent(p, e) PROVE TypeOK'
    <3>1. e \in Ids /\ events[e] \in Event /\ e \in Nat
      BY BoundsAssumption DEF TypeOK, Ids
    <3>2. /\ WriteTables(version, work, st[p], e, events[e]) \in Tables
          /\ WriteState(work, st[p], e, events[e]) \in State
      BY <3>1, WriteType DEF TypeOK
    <3>3. CASE Conflict(work, st[p], e, events[e])
      BY <2>6, <3>3, AbortType DEF PlaceEvent
    <3>4. CASE ~Conflict(work, st[p], e, events[e])
      <4>1. /\ work' \in Tables /\ st' \in [Procs -> State] /\ through' \in [Procs -> Nat]
        BY <2>6, <3>1, <3>2, <3>4 DEF PlaceEvent, TypeOK
      <4> QED BY <2>6, <3>4, <4>1 DEF PlaceEvent, TypeOK
    <3> QED BY <3>3, <3>4
  <2>7. CASE CommitChunk(p)
    BY <2>7, EmptyTablesType DEF CommitChunk, Commit, EndTx, TypeOK, Steps
  <2>8. CASE MarkCurrent(p)
    <3>1. CASE row[cur[p]] # NoRow
      BY <2>8, <3>1, AbortType DEF MarkCurrent
    <3>2. CASE row[cur[p]] = NoRow
      <4>1. [version |-> version, through |-> through[p], last |-> st[p].last, next |-> st[p].next]
              \in SessionRow
        BY DEF TypeOK, SessionRow, State, RowState
      <4>2. Leave(p, IF p = Backfill THEN "idle" ELSE "reading")
        BY <2>8, <3>2 DEF MarkCurrent, Return
      <4>3. /\ lock' \in [Sessions -> Procs \cup {Nobody}] /\ pc' \in [Procs -> Steps]
            /\ st' \in [Procs -> State] /\ through' \in [Procs -> Nat] /\ batch' \in [Procs -> SUBSET Ids]
        BY <4>2, LeaveType DEF Steps
      <4>4. row' \in [Sessions -> SessionRow]
        BY <2>8, <3>2, <4>1 DEF MarkCurrent, TypeOK
      <4>5. tables' \in [Sessions -> Tables] /\ work' \in Tables
        BY <2>8, <3>2, EmptyTablesType DEF MarkCurrent, Commit, EndTx, TypeOK
      <4> QED BY <2>8, <3>2, <4>3, <4>4, <4>5
              DEF MarkCurrent, Commit, EndTx, TypeOK
    <3> QED BY <3>1, <3>2
  <2> QED BY <1>5, <2>1, <2>2, <2>3, <2>4, <2>5, <2>6, <2>7, <2>8 DEF Build
<1>6. ASSUME NEW p \in Procs, Answer(p) PROVE TypeOK'
  BY <1>6 DEF Answer, TypeOK, Steps
<1>7. CASE Restart
  BY <1>7, <1>b, EmptyTablesType, BoundsAssumption DEF Restart, TypeOK, Steps, WithEvents
<1>8. CASE Aside
  <2>1. projected' \in SUBSET Sessions /\ seeding' \in SUBSET Sessions
    BY <1>8 DEF Aside, Seed, SeedFails, TypeOK, vars
  <2> QED BY <1>8, <2>1, AsideStep DEF TypeOK
<1> QED BY <1>1, <1>2, <1>3, <1>4, <1>5, <1>6, <1>7, <1>8 DEF Next, Aside

\* Every reachable state of every instance is well typed.
THEOREM TypeCorrect == Spec => []TypeOK
  BY InitType, NextType, PTL DEF Spec
-----------------------------------------------------------------------------
(***************************************************************************)
(* Placing one more event keeps a session's tables faithful.               *)
(***************************************************************************)
LEMMA TurnIdOf ==
  ASSUME NEW log \in Seq(Event), Len(log) <= MaxEvents, NEW s, NEW e, NEW t, TurnOf(log, s, e, t)
  PROVE  t \in TurnIds /\ t # NoTurn
<1>1. DOMAIN log = 1..Len(log) /\ Len(log) \in Nat
  OBVIOUS
<1>2. ASSUME NEW f \in DOMAIN log PROVE f \in Ids /\ log[f].turn \in TurnNames \cup {NoTurn}
  <2>1. f \in Nat /\ 1 <= f /\ f <= Len(log) /\ log[f] \in Event
    BY <1>1
  <2>2. f \in Ids
    BY <1>1, <2>1, BoundsAssumption DEF Ids
  <2> QED BY <2>1, <2>2 DEF Event
<1> QED BY <1>2, NamesAssumption DEF TurnOf, EventsOf, TurnIds

\* AssignTurn is the turn rule: the turn of the previous event, unless the event
\* names one or is the first.
LEMMA AssignTurnRight ==
  ASSUME NEW log \in Seq(Event), Len(log) <= MaxEvents, NEW s, NEW tab, NEW state \in State,
         NEW n \in Nat, StateRight(log, s, tab, state, n),
         NEW e \in After(log, s, n), \A f \in After(log, s, n) : e <= f
  PROVE  TurnOf(log, s, e, AssignTurn(state.last, e, log[e].turn))
<1> DEFINE t == AssignTurn(state.last, e, log[e].turn)
<1>0. /\ EventsOf(log, s) \subseteq Nat \ {0}
      /\ e \in EventsOf(log, s) /\ e > n
  BY DEF EventsOf, After
<1>1. CASE log[e].turn # NoTurn
  <2>1. t = log[e].turn
    BY <1>1 DEF AssignTurn
  <2>2. \A g \in EventsOf(log, s) : ~(e < g /\ g <= e)
    BY <1>0
  <2>3. e <= e
    BY <1>0
  <2> QED BY <1>0, <1>1, <2>1, <2>2, <2>3 DEF TurnOf
<1>2. CASE log[e].turn = NoTurn /\ n = 0
  <2>1. t = e
    BY <1>2 DEF AssignTurn, StateRight, FreshState
  <2>2. \A g \in EventsOf(log, s) : e <= g
    BY <1>0, <1>2 DEF After
  <2>3. ASSUME NEW g \in EventsOf(log, s), g <= e PROVE log[g].turn = NoTurn
    <3>1. g = e
      BY <1>0, <2>2, <2>3
    <3> QED BY <3>1, <1>2
  <2> QED BY <1>0, <2>1, <2>2, <2>3 DEF TurnOf
<1>3. CASE log[e].turn = NoTurn /\ n # 0
  <2>1. n \in EventsOf(log, s) /\ TurnOf(log, s, n, state.last)
    BY <1>3 DEF StateRight
  <2>2. state.last # NoTurn
    BY <2>1, TurnIdOf
  <2>3. t = state.last
    BY <2>2, <1>3 DEF AssignTurn
  <2>4. \A g \in EventsOf(log, s) : g <= e => g <= n \/ g = e
    BY <1>0 DEF After
  <2>5. CASE \E f \in EventsOf(log, s) :
               /\ f <= n /\ log[f].turn = t /\ t # NoTurn
               /\ \A g \in EventsOf(log, s) : f < g /\ g <= n => log[g].turn = NoTurn
    <3>1. PICK f \in EventsOf(log, s) :
               /\ f <= n /\ log[f].turn = t /\ t # NoTurn
               /\ \A g \in EventsOf(log, s) : f < g /\ g <= n => log[g].turn = NoTurn
      BY <2>5
    <3>2. f <= e
      BY <3>1, <1>0
    <3>3. \A g \in EventsOf(log, s) : f < g /\ g <= e => log[g].turn = NoTurn
      BY <3>1, <2>4, <1>3
    <3> QED BY <3>1, <3>2, <3>3 DEF TurnOf
  <2>6. CASE /\ t \in EventsOf(log, s)
             /\ \A g \in EventsOf(log, s) : t <= g /\ (g <= n => log[g].turn = NoTurn)
    <3>1. \A g \in EventsOf(log, s) : g <= e => log[g].turn = NoTurn
      BY <2>6, <2>4, <1>3
    <3> QED BY <2>6, <3>1 DEF TurnOf
  <2> QED BY <2>1, <2>3, <2>5, <2>6 DEF TurnOf
<1> QED BY <1>1, <1>2, <1>3

\* No two turns share a number, and no event is placed under a number no turn has.
LEMMA UnusedNumber ==
  ASSUME NEW log, NEW v, NEW s, NEW tab \in Tables, NEW state \in State, NEW n,
         Indexed(log, v, s, tab, state, n)
  PROVE  /\ In(tab, state.next) = {}
         /\ \A t \in TurnIds : tab.turns[t].seq # state.next
<1>1. \A t \in TurnIds : tab.turns[t].seq < state.next /\ tab.turns[t].seq \in Nat
  BY DEF Indexed, StateRight, Tables, TurnRow
<1>2. state.next \in Nat \ {0}
  BY DEF State
<1>3. ASSUME NEW e \in In(tab, state.next) PROVE FALSE
  <2>1. e \in Ids /\ tab.placed[e] = state.next
    BY DEF In
  <2>2. PICK t \in TurnIds : tab.turns[t].seq = tab.placed[e]
    BY <2>1, <1>2 DEF Indexed, Faithful, PlacedRight
  <2> QED BY <1>1, <1>2, <2>1, <2>2
<1> QED BY <1>1, <1>2, <1>3

\* The heart of both ingest and the build: the next event of a session never
\* conflicts, and its tables stay faithful with it placed.
LEMMA PlaceNext ==
  ASSUME NEW log \in Seq(Event), Len(log) <= MaxEvents, NEW v \in Versions, NEW s,
         NEW tab \in Tables, NEW state \in State, NEW n \in Nat,
         Indexed(log, v, s, tab, state, n),
         NEW e \in After(log, s, n), \A f \in After(log, s, n) : e <= f
  PROVE  /\ ~Conflict(tab, state, e, log[e])
         /\ Indexed(log, v, s, WriteTables(v, tab, state, e, log[e]),
                    WriteState(tab, state, e, log[e]), e)
<1> DEFINE ev == log[e]
           t == AssignTurn(state.last, e, ev.turn)
           old == tab.turns[t]
           seq == TurnSeq(tab, state, e, ev)
           new == WriteTables(v, tab, state, e, ev)
           st2 == WriteState(tab, state, e, ev)
<1>1. /\ e \in EventsOf(log, s) /\ e > n /\ e \in Nat \ {0} /\ e \in Ids /\ ev \in Event
      /\ \A f \in EventsOf(log, s) : f > n => e <= f
      /\ EventsOf(log, s) \subseteq Ids /\ Ids \subseteq Nat \ {0}
  <2>1. DOMAIN log = 1..Len(log) /\ Len(log) \in Nat
    OBVIOUS
  <2>2. ASSUME NEW f \in DOMAIN log PROVE f \in Ids /\ log[f] \in Event
    <3>1. f \in Nat /\ 1 <= f /\ f <= Len(log)
      BY <2>1
    <3> QED BY <2>1, <3>1, BoundsAssumption DEF Ids
  <2>3. Ids \subseteq Nat \ {0}
    BY BoundsAssumption DEF Ids
  <2> QED BY <2>2, <2>3 DEF After, EventsOf
<1>2. TurnOf(log, s, e, t)
  BY AssignTurnRight DEF Indexed
<1>3. t \in TurnIds
  BY <1>2, TurnIdOf
<1>4. /\ Covers(log, s, tab, n) /\ PlacedRight(log, s, tab) /\ BlankRows(tab)
      /\ SpansRight(log, tab) /\ CountsRight(tab) /\ NumberedInOrder(tab)
      /\ CandidatesRight(log, v, tab) /\ StateRight(log, s, tab, state, n)
  BY DEF Indexed, Faithful
<1>5. In(tab, state.next) = {} /\ \A u \in TurnIds : tab.turns[u].seq # state.next
  BY UnusedNumber
<1>6. state.next \in Nat \ {0} /\ \A u \in TurnIds : tab.turns[u] \in TurnRow
  BY DEF State, Tables
<1>7. tab.placed[e] = 0
  <2>1. ~(e <= n)
    BY <1>1
  <2> QED BY <1>1, <1>4, <2>1 DEF Covers
<1>8. ~Conflict(tab, state, e, ev)
  BY <1>5, <1>7 DEF Conflict
<1>9. /\ seq \in Nat \ {0} /\ (old.seq = 0 => seq = state.next) /\ (old.seq # 0 => seq = old.seq)
      /\ \A u \in TurnIds : u # t => tab.turns[u].seq # seq
  <2>1. old.seq \in Nat
    BY <1>3, <1>6 DEF TurnRow
  <2>2. /\ seq \in Nat \ {0} /\ (old.seq = 0 => seq = state.next) /\ (old.seq # 0 => seq = old.seq)
    BY <1>6, <2>1 DEF TurnSeq
  <2>3. ASSUME NEW u \in TurnIds, u # t PROVE tab.turns[u].seq # seq
    <3>1. CASE old.seq = 0
      BY <1>5, <2>2, <2>3, <3>1
    <3>2. CASE old.seq # 0
      <4>1. CASE tab.turns[u].seq = 0
        BY <2>2, <4>1
      <4>2. CASE tab.turns[u].seq # 0
        BY <1>3, <1>4, <2>2, <2>3, <3>2, <4>2 DEF NumberedInOrder
      <4> QED BY <4>1, <4>2
    <3> QED BY <3>1, <3>2
  <2> QED BY <2>2, <2>3
<1>10. /\ new.placed = [tab.placed EXCEPT ![e] = seq]
       /\ new.turns = [tab.turns EXCEPT ![t] = ExtendTurn(old, seq, e, ev)]
       /\ new.cands = IF ev.kind \in CandidateKinds[v]
                      THEN [tab.cands EXCEPT ![e] = seq] ELSE tab.cands
  BY DEF WriteTables
<1>11. /\ \A x \in Ids : new.placed[x] = IF x = e THEN seq ELSE tab.placed[x]
       /\ \A u \in TurnIds : new.turns[u] = IF u = t THEN ExtendTurn(old, seq, e, ev) ELSE tab.turns[u]
       /\ new.turns[t].seq = seq
  <2>1. DOMAIN tab.placed = Ids /\ DOMAIN tab.turns = TurnIds
    BY DEF Tables
  <2>2. ExtendTurn(old, seq, e, ev).seq = seq
    BY DEF ExtendTurn
  <2> HIDE DEF new, seq, old, t
  <2> QED BY <1>1, <1>3, <1>10, <2>1, <2>2
<1>12. /\ In(new, seq) = In(tab, seq) \cup {e}
       /\ \A q \in Nat \ {0, seq} : In(new, q) = In(tab, q)
       /\ e \notin In(tab, seq) /\ (old.seq = 0 => In(tab, seq) = {})
  <2> HIDE DEF new, seq, old, t
  <2>1. \A q \in Nat : \A x \in Ids : x \in In(new, q) <=> (IF x = e THEN seq = q ELSE x \in In(tab, q))
    BY <1>11 DEF In
  <2>2. e \notin In(tab, seq) /\ \A q \in Nat \ {0} : e \notin In(tab, q)
    BY <1>1, <1>7, <1>9 DEF In
  <2>3. \A q : In(tab, q) \subseteq Ids /\ In(new, q) \subseteq Ids
    BY DEF In
  <2>4. old.seq = 0 => In(tab, seq) = {}
    BY <1>5, <1>9
  <2>5. In(new, seq) = In(tab, seq) \cup {e}
    BY <1>1, <1>9, <2>1, <2>3
  <2>6. \A q \in Nat \ {0, seq} : In(new, q) = In(tab, q)
    <3> SUFFICES ASSUME NEW q \in Nat \ {0, seq} PROVE In(new, q) = In(tab, q)
      OBVIOUS
    <3>1. \A x \in Ids : x \in In(new, q) <=> x \in In(tab, q)
      BY <2>1, <2>2
    <3> QED BY <2>3, <3>1
  <2> QED BY <2>2, <2>4, <2>5, <2>6
<1>13. \A x \in Ids : tab.placed[x] # 0 => x \in EventsOf(log, s) /\ x <= n /\ x < e
  <2>1. \A x \in Ids : tab.placed[x] # 0 => x \in EventsOf(log, s) /\ x <= n
    BY <1>4 DEF Covers
  <2>2. \A x \in Ids : x <= n => x < e
    BY <1>1
  <2> QED BY <2>1, <2>2
<1>14. Covers(log, s, new, e)
  <2> SUFFICES ASSUME NEW x \in Ids
               PROVE  new.placed[x] # 0 <=> x \in EventsOf(log, s) /\ x <= e
    BY DEF Covers
  <2>1. CASE x = e
    BY <2>1, <1>1, <1>9, <1>11
  <2>2. CASE x # e
    <3>1. x \in EventsOf(log, s) => (x <= n <=> x <= e)
      BY <1>1, <2>2
    <3> QED BY <2>2, <3>1, <1>4, <1>11 DEF Covers
  <2> QED BY <2>1, <2>2
<1>15. PlacedRight(log, s, new)
  <2> SUFFICES ASSUME NEW x \in Ids, new.placed[x] # 0
               PROVE  \E u \in TurnIds : TurnOf(log, s, x, u) /\ new.turns[u].seq = new.placed[x]
    BY DEF PlacedRight
  <2>1. CASE x = e
    BY <2>1, <1>2, <1>3, <1>11
  <2>2. CASE x # e
    <3>1. new.placed[x] = tab.placed[x]
      BY <2>2, <1>11
    <3>2. PICK u \in TurnIds : TurnOf(log, s, x, u) /\ tab.turns[u].seq = tab.placed[x]
      BY <3>1, <1>4 DEF PlacedRight
    <3>3. new.turns[u].seq = tab.turns[u].seq
      BY <3>1, <3>2, <1>9, <1>11
    <3> QED BY <3>1, <3>2, <3>3
  <2> QED BY <2>1, <2>2
<1>16. BlankRows(new)
  BY <1>4, <1>9, <1>11 DEF BlankRows
<1>17. CandidatesRight(log, v, new)
  <2> SUFFICES ASSUME NEW x \in Ids
               PROVE new.cands[x] = IF new.placed[x] # 0 /\ log[x].kind \in CandidateKinds[v]
                                    THEN new.placed[x] ELSE 0
    BY DEF CandidatesRight
  <2>1. tab.cands[x] = IF tab.placed[x] # 0 /\ log[x].kind \in CandidateKinds[v]
                       THEN tab.placed[x] ELSE 0
    BY <1>4 DEF CandidatesRight
  <2>2. CASE x = e
    BY <2>1, <2>2, <1>1, <1>7, <1>9, <1>10, <1>11 DEF Tables
  <2>3. CASE x # e
    BY <2>1, <2>3, <1>1, <1>10, <1>11 DEF Tables
  <2> QED BY <2>2, <2>3
<1>18. StateRight(log, s, new, st2, e)
  <2>1. st2.last = t /\ st2.next = IF old.seq = 0 THEN state.next + 1 ELSE state.next
    BY DEF WriteState
  <2>2. \A u \in TurnIds : tab.turns[u].seq < state.next /\ tab.turns[u].seq \in Nat
    BY <1>4, <1>6 DEF StateRight, TurnRow
  <2>3. \A u \in TurnIds : new.turns[u].seq < st2.next
    BY <1>3, <1>6, <1>9, <1>11, <2>1, <2>2
  <2> QED BY <1>1, <1>2, <2>1, <2>3 DEF StateRight
<1>19. \A u \in TurnIds : u # t /\ tab.turns[u].seq # 0 =>
          /\ new.turns[u] = tab.turns[u]
          /\ In(new, tab.turns[u].seq) = In(tab, tab.turns[u].seq)
  BY <1>6, <1>9, <1>11, <1>12 DEF TurnRow
<1>20. new.turns[t] = ExtendTurn(old, seq, e, ev) /\ new.turns[t].seq = seq
  BY <1>3, <1>11
<1>21. \A x \in In(tab, seq) : x < e /\ x \in Ids
  BY <1>9, <1>13 DEF In
<1>22. SpansRight(log, new)
  <2> SUFFICES ASSUME NEW u \in TurnIds, new.turns[u].seq # 0
               PROVE LET r == new.turns[u] IN
                     /\ r.first \in In(new, r.seq) /\ r.last \in In(new, r.seq)
                     /\ \A x \in In(new, r.seq) : r.first <= x /\ x <= r.last
                     /\ r.prompt = 1 <=> \E x \in In(new, r.seq) : log[x].kind = Prompt
    BY DEF SpansRight
  <2>1. CASE u # t
    <3>1. new.turns[u] = tab.turns[u] /\ tab.turns[u].seq # 0
      BY <2>1, <1>11
    <3> QED BY <2>1, <3>1, <1>4, <1>19 DEF SpansRight
  <2>2. CASE u = t /\ old.seq = 0
    <3>1. In(new, seq) = {e}
      BY <2>2, <1>12
    <3>2. old.prompt = 0
      BY <2>2, <1>3, <1>4 DEF BlankRows, NoTurnRow
    <3> QED BY <2>2, <3>1, <3>2, <1>1, <1>20 DEF ExtendTurn
  <2>3. CASE u = t /\ old.seq # 0
    <3>1. /\ old.first \in In(tab, seq)
          /\ \A x \in In(tab, seq) : old.first <= x
          /\ old.prompt = 1 <=> \E x \in In(tab, seq) : log[x].kind = Prompt
      BY <2>3, <1>3, <1>4, <1>9 DEF SpansRight
    <3>2. old.first < e
      BY <3>1, <1>21
    <3>3. \A x \in In(new, seq) : old.first <= x /\ x <= e
      <4>1. ASSUME NEW x \in In(new, seq) PROVE old.first <= x /\ x <= e
        <5>1. x = e \/ x \in In(tab, seq)
          BY <1>12
        <5>2. old.first \in Ids
          BY <3>1, <1>21
        <5>3. old.first \in Nat /\ e \in Nat
          BY <5>2, <1>1
        <5>4. CASE x = e
          BY <5>3, <5>4, <3>2
        <5>5. CASE x \in In(tab, seq)
          <6>1. x \in Nat /\ x < e /\ old.first <= x
            BY <5>5, <3>1, <1>1, <1>21
          <6> QED BY <6>1, <5>3
        <5> QED BY <5>1, <5>4, <5>5
      <4> QED BY <4>1
    <3>4. /\ new.turns[u].seq = seq /\ new.turns[u].first = old.first /\ new.turns[u].last = e
          /\ new.turns[u].prompt = IF ev.kind = Prompt THEN 1 ELSE old.prompt
      BY <2>3, <1>20 DEF ExtendTurn
    <3>5. new.turns[u].prompt = 1 <=> \E x \in In(new, seq) : log[x].kind = Prompt
      BY <3>1, <3>4, <1>12
    <3> QED BY <3>1, <3>3, <3>4, <3>5, <1>12
  <2> QED BY <2>1, <2>2, <2>3
<1>23. CountsRight(new)
  <2> SUFFICES ASSUME NEW u \in TurnIds, new.turns[u].seq # 0
               PROVE  new.turns[u].count = Cardinality(In(new, new.turns[u].seq))
    BY DEF CountsRight
  <2>1. CASE u # t
    <3>1. new.turns[u] = tab.turns[u] /\ tab.turns[u].seq # 0
      BY <2>1, <1>11
    <3> QED BY <2>1, <3>1, <1>4, <1>19 DEF CountsRight
  <2>2. CASE u = t
    <3>1. IsFiniteSet(In(tab, seq))
      <4>1. IsFiniteSet(Ids) /\ In(tab, seq) \subseteq Ids
        BY BoundsAssumption, FS_Interval DEF Ids, In
      <4> QED BY <4>1, FS_Subset
    <3>2. Cardinality(In(new, seq)) = Cardinality(In(tab, seq)) + 1
      <4> HIDE DEF new, seq
      <4>1. /\ In(new, seq) = In(tab, seq) \cup {e} /\ e \notin In(tab, seq)
        BY <1>12
      <4>2. Cardinality(In(tab, seq) \cup {e}) = Cardinality(In(tab, seq)) + 1
        BY <3>1, <4>1, FS_AddElement
      <4> QED BY <4>1, <4>2
    <3>3. old.count = Cardinality(In(tab, seq))
      <4>1. CASE old.seq = 0
        <5>1. old.count = 0
          BY <4>1, <1>3, <1>4 DEF BlankRows, NoTurnRow
        <5>2. In(tab, seq) = {}
          BY <4>1, <1>12
        <5> HIDE DEF seq
        <5>3. Cardinality(In(tab, seq)) = 0
          BY <5>2, FS_EmptySet
        <5> QED BY <5>1, <5>3
      <4>2. CASE old.seq # 0
        BY <4>2, <1>3, <1>4, <1>9 DEF CountsRight
      <4> QED BY <4>1, <4>2
    <3> QED BY <2>2, <3>2, <3>3, <1>20 DEF ExtendTurn
  <2> QED BY <2>1, <2>2
<1>24. NumberedInOrder(new)
  <2>1. \A u \in TurnIds : u # t => new.turns[u] = tab.turns[u]
    BY <1>11
  <2>2. \A u \in TurnIds : u # t /\ new.turns[u].seq # 0 =>
          /\ new.turns[u].seq # seq
          /\ new.turns[u].first \in Ids /\ new.turns[u].first < e
    <3> SUFFICES ASSUME NEW u \in TurnIds, u # t, new.turns[u].seq # 0
                 PROVE  /\ new.turns[u].seq # seq
                        /\ new.turns[u].first \in Ids /\ new.turns[u].first < e
      OBVIOUS
    <3>1. tab.turns[u].first \in In(tab, tab.turns[u].seq) /\ tab.turns[u].seq # 0
      BY <2>1, <1>4 DEF SpansRight
    <3> QED BY <3>1, <2>1, <1>9, <1>13 DEF In
  <2>3. CASE old.seq = 0
    <3>1. \A u \in TurnIds : u # t => new.turns[u].seq < seq /\ new.turns[u].seq \in Nat
      BY <2>1, <2>3, <1>4, <1>6, <1>9 DEF StateRight, TurnRow
    <3>2. new.turns[t].first = e
      BY <2>3, <1>20 DEF ExtendTurn
    <3> QED BY <2>1, <2>2, <3>1, <3>2, <1>4, <1>9, <1>20 DEF NumberedInOrder
  <2>4. CASE old.seq # 0
    <3>1. new.turns[t].first = old.first /\ new.turns[t].seq = old.seq
      BY <2>4, <1>9, <1>20 DEF ExtendTurn
    <3> QED BY <2>1, <2>4, <3>1, <1>3, <1>4 DEF NumberedInOrder
  <2> QED BY <2>3, <2>4
<1> QED BY <1>8, <1>14, <1>15, <1>16, <1>17, <1>18, <1>22, <1>23, <1>24 DEF Indexed, Faithful
-----------------------------------------------------------------------------
LEMMA EmptyIndexed ==
  ASSUME NEW log, NEW v, NEW s, EventsOf(log, s) \subseteq Nat \ {0}
  PROVE  Indexed(log, v, s, EmptyTables, FreshState, 0)
<1>1. /\ \A e \in Ids : EmptyTables.placed[e] = 0 /\ EmptyTables.cands[e] = 0
      /\ \A t \in TurnIds : EmptyTables.turns[t] = NoTurnRow /\ EmptyTables.turns[t].seq = 0
  BY DEF EmptyTables, NoTurnRow
<1>2. Covers(log, s, EmptyTables, 0)
  BY <1>1 DEF Covers
<1> QED BY <1>1, <1>2 DEF Indexed, Faithful, PlacedRight, BlankRows, SpansRight, CountsRight,
        NumberedInOrder, CandidatesRight, StateRight, FreshState

\* A session without events has nothing in its tables.
LEMMA NoEventsNoTables ==
  ASSUME NEW log, NEW v, NEW s, NEW tab \in Tables, NEW state, NEW n,
         Indexed(log, v, s, tab, state, n), EventsOf(log, s) = {}
  PROVE  tab = EmptyTables /\ n = 0 /\ state = FreshState
<1>1. \A e \in Ids : tab.placed[e] = 0 /\ tab.cands[e] = 0
  BY DEF Indexed, Faithful, Covers, CandidatesRight
<1>2. \A t \in TurnIds : tab.turns[t] = NoTurnRow
  <2> SUFFICES ASSUME NEW t \in TurnIds, tab.turns[t].seq # 0 PROVE FALSE
    BY DEF Indexed, Faithful, BlankRows
  <2>1. tab.turns[t].first \in In(tab, tab.turns[t].seq)
    BY DEF Indexed, Faithful, SpansRight
  <2> QED BY <2>1, <1>1 DEF In
<1>3. tab.placed = EmptyTables.placed /\ tab.cands = EmptyTables.cands /\ tab.turns = EmptyTables.turns
  BY <1>1, <1>2 DEF Tables, EmptyTables
<1>4. tab = EmptyTables
  BY <1>3 DEF Tables, EmptyTables
<1> QED BY <1>4 DEF Indexed, StateRight

\* An event stored after n leaves what is right up to n right.
LEMMA AppendFrame ==
  ASSUME NEW log \in Seq(Event), Len(log) < MaxEvents, NEW ev \in Event,
         NEW v \in Versions, NEW s, NEW tab \in Tables, NEW state \in State, NEW n \in Nat,
         Indexed(log, v, s, tab, state, n)
  PROVE  Indexed(Append(log, ev), v, s, tab, state, n)
<1> DEFINE log2 == Append(log, ev)
           e0 == Len(log) + 1
<1>1. /\ Len(log) \in Nat /\ DOMAIN log = 1..Len(log) /\ DOMAIN log2 = 1..e0
      /\ log2[e0] = ev /\ \A x \in DOMAIN log : log2[x] = log[x] /\ x \in Nat /\ x < e0
  OBVIOUS
<1> HIDE DEF log2
<1>2. EventsOf(log2, s) = EventsOf(log, s) \cup (IF ev.session = s THEN {e0} ELSE {})
  BY <1>1 DEF EventsOf
<1>3. \A x \in EventsOf(log, s) : log2[x] = log[x] /\ x \in Nat /\ x < e0
  BY <1>1 DEF EventsOf
<1>4. n < e0
  BY <1>1, <1>3 DEF Indexed, StateRight
<1>5. \A x \in EventsOf(log2, s) : x <= n => x \in EventsOf(log, s)
  BY <1>1, <1>2, <1>4
<1>6. ASSUME NEW x \in Nat, x < e0, NEW t, TurnOf(log, s, x, t)
      PROVE  TurnOf(log2, s, x, t)
  <2>1. \A g \in EventsOf(log2, s) : g <= x => g \in EventsOf(log, s)
    BY <1>1, <1>2, <1>6
  <2>2. CASE \E f \in EventsOf(log, s) :
               /\ f <= x /\ log[f].turn = t /\ t # NoTurn
               /\ \A g \in EventsOf(log, s) : f < g /\ g <= x => log[g].turn = NoTurn
    BY <2>1, <2>2, <1>2, <1>3 DEF TurnOf
  <2>3. CASE /\ t \in EventsOf(log, s)
             /\ \A g \in EventsOf(log, s) : t <= g /\ (g <= x => log[g].turn = NoTurn)
    <3>1. \A g \in EventsOf(log2, s) : t <= g
      BY <2>3, <1>1, <1>2, <1>3
    <3> QED BY <3>1, <2>1, <2>3, <1>2, <1>3 DEF TurnOf
  <2> QED BY <1>6, <2>2, <2>3 DEF TurnOf
<1>7. \A x \in Ids : tab.placed[x] # 0 => x \in EventsOf(log, s) /\ x <= n
  BY DEF Indexed, Faithful, Covers
<1>8. Covers(log2, s, tab, n)
  BY <1>2, <1>5 DEF Indexed, Faithful, Covers
<1>9. PlacedRight(log2, s, tab)
  BY <1>3, <1>6, <1>7 DEF Indexed, Faithful, PlacedRight
<1>10. SpansRight(log2, tab)
  <2>1. \A q \in Nat \ {0} : \A x \in In(tab, q) : log2[x] = log[x]
    BY <1>3, <1>7 DEF In
  <2>2. \A t \in TurnIds : tab.turns[t].seq \in Nat
    BY DEF Tables, TurnRow
  <2>3. SpansRight(log, tab)
    BY DEF Indexed, Faithful
  <2> QED BY <2>1, <2>2, <2>3 DEF SpansRight
<1>11. CandidatesRight(log2, v, tab)
  BY <1>3, <1>7 DEF Indexed, Faithful, CandidatesRight
<1>12. StateRight(log2, s, tab, state, n)
  BY <1>2, <1>3, <1>6 DEF Indexed, StateRight
<1> QED BY <1>8, <1>9, <1>10, <1>11, <1>12 DEF Indexed, Faithful, log2
-----------------------------------------------------------------------------
(***************************************************************************)
(* IndexInv is inductive.                                                  *)
(***************************************************************************)
Rest == RowsIndexed /\ LocksHeld /\ BuildsRight /\ ReadersApart

LEMMA EventIds ==
  ASSUME NEW log \in Seq(Event), NEW s
  PROVE  EventsOf(log, s) \subseteq Nat \ {0}
  BY DEF EventsOf

LEMMA VersionNat == ASSUME TypeOK PROVE version \in Nat \ {0} /\ \A s \in Sessions : row[s].version \in Nat
<1>1. Versions \subseteq Nat \ {0} /\ version \in Versions
  BY VersionsAssumption DEF TypeOK
<1>2. \A s \in Sessions : row[s].version \in Versions \cup {0}
  BY DEF TypeOK, SessionRow
<1>3. Versions \cup {0} \subseteq Nat
  BY <1>1
<1> QED BY <1>1, <1>2, <1>3

LEMMA CurrentRow == ASSUME TypeOK, NEW s \in Sessions, TurnIndexCurrent(s) PROVE row[s] # NoRow
  BY VersionNat DEF TurnIndexCurrent, NoRow

LEMMA InvInit == Init => IndexInv
<1> SUFFICES ASSUME Init PROVE IndexInv
  OBVIOUS
<1>1. TypeOK
  BY InitType
<1>2. RowsIndexed
  <2>1. \A s \in Sessions : row[s].version = 0 /\ tables[s] = EmptyTables
    BY DEF Init, NoRow
  <2> QED BY <1>1, <2>1, VersionNat DEF RowsIndexed, TurnIndexCurrent
<1>3. LocksHeld
  BY NamesAssumption DEF Init, LocksHeld, Exclusive, Building, InTx
<1>4. BuildsRight
  BY DEF Init, BuildsRight, BuildRight, BatchRight, Building, InTx
<1>5. ReadersApart
  BY DEF Init, ReadersApart
<1> QED BY <1>1, <1>2, <1>3, <1>4, <1>5 DEF IndexInv

\* A process that leaves BuildTurnIndex, or never was in it.
LEMMA QuietProcess ==
  ASSUME TypeOK, NEW p \in Procs, pc[p] \notin Building, st[p] = FreshState, through[p] = 0
  PROVE  BuildRight(p) /\ BatchRight(p)
  BY DEF BuildRight, BatchRight, Building, InTx

\* What a step leaves alone stays right.
LEMMA RowsKept ==
  ASSUME RowsIndexed, UNCHANGED <<events, version, row, tables>>
  PROVE  RowsIndexed'
  BY DEF RowsIndexed, TurnIndexCurrent, RowState

LEMMA BuildKept ==
  ASSUME NEW q \in Procs, BuildRight(q), BatchRight(q), UNCHANGED <<events, version>>,
         pc'[q] = pc[q], cur'[q] = cur[q], st'[q] = st[q], through'[q] = through[q],
         batch'[q] = batch[q],
         pc[q] \in Building => row'[cur[q]] = row[cur[q]] /\ tables'[cur[q]] = tables[cur[q]],
         pc[q] \in InTx => work' = work
  PROVE  BuildRight(q)' /\ BatchRight(q)'
<1>1. CASE pc[q] \in Building
  BY <1>1 DEF BuildRight, BatchRight, Seen, TurnIndexCurrent
<1>2. CASE pc[q] \notin Building
  BY <1>2 DEF BuildRight, BatchRight, Building, InTx
<1> QED BY <1>1, <1>2

\* Two processes never build the same session, and one transaction is open.
LEMMA Apart ==
  ASSUME TypeOK, LocksHeld, NEW p \in Procs, NEW q \in Procs, p # q, pc[p] \in Exclusive
  PROVE  /\ pc[q] \in Exclusive => cur[q] # cur[p]
         /\ pc[p] \in InTx => pc[q] \notin InTx
  BY DEF LocksHeld

\* Actions that move only the program counter of a process outside a build.
LEMMA OutsideInv ==
  ASSUME IndexInv, NEW p \in Procs,
         pc[p] \notin Building, pc'[p] \notin Building, pc'[p] # "reading",
         pc'[p] \in Exclusive => lock'[cur'[p]] = p,
         pc'[p] = "delete" => \A q \in Procs : pc[q] = "reading" => cur[q] # cur'[p],
         \A q \in Procs \ {p} : pc[q] \in Exclusive => lock'[cur[q]] = lock[cur[q]],
         \A q \in Procs \ {p} : pc'[q] = pc[q] /\ cur'[q] = cur[q],
         UNCHANGED <<events, version, row, tables, writer, work, st, through, batch>>
  PROVE  Rest'
<1>1. RowsIndexed'
  BY RowsKept DEF IndexInv
<1>2. LocksHeld'
  <2>1. \A q \in Procs : pc'[q] \in Exclusive => lock'[cur'[q]] = q
    BY DEF IndexInv, LocksHeld
  <2>2. pc[p] \notin InTx /\ pc'[p] \notin InTx
    BY DEF Building
  <2> QED BY <2>1, <2>2 DEF IndexInv, LocksHeld
<1>3. BuildsRight'
  <2> SUFFICES ASSUME NEW q \in Procs PROVE BuildRight(q)' /\ BatchRight(q)'
    BY DEF BuildsRight
  <2>1. BuildRight(q) /\ BatchRight(q)
    BY DEF IndexInv, BuildsRight
  <2>2. CASE q = p
    BY <2>1, <2>2 DEF BuildRight, BatchRight, Building, InTx
  <2>3. CASE q # p
    BY <2>1, <2>3, BuildKept
  <2> QED BY <2>2, <2>3
<1>4. ReadersApart'
  <2> SUFFICES ASSUME NEW r \in Procs, pc'[r] = "reading"
               PROVE  /\ TurnIndexCurrent(cur[r])'
                      /\ \A q \in Procs : pc'[q] \in Exclusive \ {"check"} => cur'[q] # cur'[r]
    BY DEF ReadersApart
  <2>1. r # p /\ pc[r] = "reading" /\ cur'[r] = cur[r]
    OBVIOUS
  <2>2. TurnIndexCurrent(cur[r])'
    BY <2>1 DEF IndexInv, ReadersApart, TurnIndexCurrent
  <2>3. ASSUME NEW q \in Procs, pc'[q] \in Exclusive \ {"check"} PROVE cur'[q] # cur'[r]
    <3>1. CASE q = p
      BY <2>1, <2>3, <3>1 DEF Exclusive
    <3>2. CASE q # p
      BY <2>1, <2>3, <3>2 DEF IndexInv, ReadersApart
    <3> QED BY <3>1, <3>2
  <2> QED BY <2>2, <2>3
<1> QED BY <1>1, <1>2, <1>3, <1>4 DEF Rest

LEMMA StartReadInv ==
  ASSUME IndexInv, NEW p \in Readers, NEW s \in Sessions, StartRead(p, s)
  PROVE  Rest'
<1>1. p \in Procs /\ pc[p] = "idle" /\ pc'[p] = "lock"
      /\ \A q \in Procs \ {p} : pc'[q] = pc[q] /\ cur'[q] = cur[q]
  BY DEF Procs, StartRead, IndexInv, TypeOK
<1> QED BY <1>1, OutsideInv DEF StartRead, Exclusive, Building, InTx

LEMMA BackfillListInv ==
  ASSUME IndexInv, BackfillList \/ \E s \in Sessions : BackfillNext(s)
  PROVE  Rest'
<1>1. /\ Backfill \in Procs /\ pc[Backfill] = "idle" /\ pc'[Backfill] \in {"lock", "idle", "done"}
      /\ \A q \in Procs \ {Backfill} : pc'[q] = pc[q] /\ cur'[q] = cur[q]
      /\ UNCHANGED <<events, version, row, tables, lock, writer, work, st, through, batch>>
  BY DEF Procs, BackfillList, BackfillNext, IndexInv, TypeOK
<1> QED BY <1>1, OutsideInv DEF Exclusive, Building, InTx

LEMMA AnswerInv ==
  ASSUME IndexInv, NEW p \in Procs, Answer(p)
  PROVE  Rest'
<1>1. pc[p] \in {"reading", "failed"} /\ pc'[p] = "idle"
      /\ \A q \in Procs \ {p} : pc'[q] = pc[q] /\ cur'[q] = cur[q]
  BY DEF Answer, IndexInv, TypeOK
<1> QED BY <1>1, OutsideInv DEF Answer, Exclusive, Building, InTx

LEMMA LockInv ==
  ASSUME IndexInv, NEW p \in Procs, Lock(p)
  PROVE  Rest'
<1>1. pc[p] = "lock" /\ pc'[p] = "check"
      /\ \A q \in Procs \ {p} : pc'[q] = pc[q] /\ cur'[q] = cur[q]
  BY DEF Lock, IndexInv, TypeOK
<1>2. lock'[cur'[p]] = p
  BY DEF Lock, IndexInv, TypeOK
<1>3. \A q \in Procs \ {p} : pc[q] \in Exclusive => lock'[cur[q]] = lock[cur[q]]
  <2> SUFFICES ASSUME NEW q \in Procs \ {p}, pc[q] \in Exclusive PROVE cur[q] # cur[p]
    BY DEF Lock, IndexInv, TypeOK
  <2>1. lock[cur[q]] = q /\ q # Nobody
    BY NamesAssumption DEF IndexInv, LocksHeld
  <2> QED BY <2>1 DEF Lock
<1> QED BY <1>1, <1>2, <1>3, OutsideInv DEF Lock, Exclusive, Building, InTx

\* Leaving BuildTurnIndex, with a page to read, with an error or for the next session.
LEMMA LeaveInv ==
  ASSUME IndexInv, NEW p \in Procs, NEW next \in {"idle", "reading", "failed"}, Leave(p, next),
         pc[p] \in Exclusive, UNCHANGED <<events, version, cur>>, RowsIndexed',
         IF pc[p] \in InTx THEN writer' = Nobody ELSE UNCHANGED <<writer, work>>,
         \A s \in Sessions : s # cur[p] => row'[s] = row[s] /\ tables'[s] = tables[s],
         row[cur[p]].version # 0 => row'[cur[p]] = row[cur[p]],
         next = "reading" => TurnIndexCurrent(cur[p])'
  PROVE  Rest'
<1>1. /\ pc'[p] = next /\ lock'[cur[p]] = Nobody /\ st'[p] = FreshState /\ through'[p] = 0
      /\ \A q \in Procs : q # p => /\ pc'[q] = pc[q] /\ st'[q] = st[q]
                                   /\ through'[q] = through[q] /\ batch'[q] = batch[q]
      /\ \A s \in Sessions : s # cur[p] => lock'[s] = lock[s]
      /\ cur \in [Procs -> Sessions]
  BY DEF Leave, Unlock, IndexInv, TypeOK
<1>2. next \notin Exclusive /\ next \notin Building /\ next \notin InTx
  BY DEF Exclusive, Building, InTx
<1>3. \A q \in Procs : q # p =>
        /\ pc[q] \in Exclusive => cur[q] # cur[p]
        /\ pc[p] \in InTx => pc[q] \notin InTx
  BY Apart DEF IndexInv
<1>4. LocksHeld'
  <2>1. \A q \in Procs : pc'[q] \in Exclusive => lock'[cur'[q]] = q
    BY <1>1, <1>2, <1>3 DEF IndexInv, LocksHeld
  <2>2. \A q \in Procs : pc'[q] \in InTx <=> writer' = q
    <3> SUFFICES ASSUME NEW q \in Procs PROVE pc'[q] \in InTx <=> writer' = q
      OBVIOUS
    <3>1. CASE q = p
      BY <3>1, <1>1, <1>2, NamesAssumption DEF IndexInv, LocksHeld
    <3>2. CASE q # p
      BY <3>2, <1>1, <1>3, NamesAssumption DEF IndexInv, LocksHeld
    <3> QED BY <3>1, <3>2
  <2> QED BY <2>1, <2>2 DEF LocksHeld
<1>5. BuildsRight'
  <2> SUFFICES ASSUME NEW q \in Procs PROVE BuildRight(q)' /\ BatchRight(q)'
    BY DEF BuildsRight
  <2>1. BuildRight(q) /\ BatchRight(q)
    BY DEF IndexInv, BuildsRight
  <2>2. CASE q = p
    BY <2>2, <1>1, <1>2 DEF BuildRight, BatchRight, Building, InTx
  <2>3. CASE q # p
    <3>1. pc[q] \in Building => row'[cur[q]] = row[cur[q]] /\ tables'[cur[q]] = tables[cur[q]]
      BY <2>3, <1>1, <1>3 DEF Exclusive
    <3>2. pc[q] \in InTx => work' = work
      BY <2>3, <1>3
    <3> QED BY <2>1, <2>3, <3>1, <3>2, <1>1, BuildKept
  <2> QED BY <2>2, <2>3
<1>6. ReadersApart'
  <2> SUFFICES ASSUME NEW r \in Procs, pc'[r] = "reading"
               PROVE  /\ TurnIndexCurrent(cur[r])'
                      /\ \A q \in Procs : pc'[q] \in Exclusive \ {"check"} => cur'[q] # cur'[r]
    BY DEF ReadersApart
  <2>1. CASE r = p
    BY <2>1, <1>1, <1>2, <1>3
  <2>2. CASE r # p
    <3>1. pc[r] = "reading" /\ TurnIndexCurrent(cur[r])
          /\ \A q \in Procs : pc[q] \in Exclusive \ {"check"} => cur[q] # cur[r]
      BY <2>2, <1>1 DEF IndexInv, ReadersApart
    <3>2. row'[cur[r]] = row[cur[r]]
      <4>1. TypeOK /\ cur[r] \in Sessions
        BY <1>1 DEF IndexInv
      <4>2. row[cur[r]].version # 0
        BY <3>1, <4>1, VersionNat DEF TurnIndexCurrent
      <4> QED BY <4>1, <4>2
    <3> QED BY <3>1, <3>2, <1>1, <1>2 DEF TurnIndexCurrent
  <2> QED BY <2>1, <2>2
<1> QED BY <1>4, <1>5, <1>6 DEF Rest

LEMMA CheckCurrentInv ==
  ASSUME IndexInv, NEW p \in Procs, CheckCurrent(p)
  PROVE  Rest'
<1>0. pc[p] = "check" /\ pc[p] \in Exclusive /\ pc[p] \notin InTx /\ pc[p] \notin Building
  BY DEF CheckCurrent, Exclusive, Building, InTx
<1>1. CASE TurnIndexCurrent(cur[p])
  <2> DEFINE next == IF p = Backfill THEN "idle" ELSE "reading"
  <2>1. Leave(p, next) /\ next \in {"idle", "reading", "failed"}
    BY <1>1 DEF CheckCurrent, Return
  <2>2. RowsIndexed'
    BY RowsKept DEF IndexInv, CheckCurrent
  <2>3. TurnIndexCurrent(cur[p])'
    BY <1>1 DEF CheckCurrent, TurnIndexCurrent
  <2> QED BY <1>0, <2>1, <2>2, <2>3, LeaveInv DEF CheckCurrent
<1>2. CASE ~TurnIndexCurrent(cur[p])
  <2>1. /\ pc'[p] = "delete" /\ lock' = lock /\ cur' = cur
        /\ \A q \in Procs \ {p} : pc'[q] = pc[q] /\ cur'[q] = cur[q]
    BY <1>2 DEF CheckCurrent, IndexInv, TypeOK
  <2>2. lock[cur[p]] = p
    BY <1>0 DEF IndexInv, LocksHeld
  <2>3. \A q \in Procs : pc[q] = "reading" => cur[q] # cur[p]
    BY <1>2 DEF IndexInv, ReadersApart
  <2> QED BY <1>0, <1>2, <2>1, <2>2, <2>3, OutsideInv DEF CheckCurrent, Building, InTx
<1> QED BY <1>1, <1>2

LEMMA AbortInv ==
  ASSUME IndexInv, NEW p \in Procs, pc[p] \in InTx, Abort(p),
         UNCHANGED <<events, version, row, tables, cur>>
  PROVE  Rest'
<1>1. RowsIndexed'
  BY RowsKept DEF IndexInv
<1> QED BY <1>1, LeaveInv DEF Abort, EndTx, Exclusive, Building

\* A step of a build, from deletePartialTurnIndex on, that does not end it.
LEMMA WithinInv ==
  ASSUME IndexInv, NEW p \in Procs, pc[p] \in Exclusive \ {"check"}, pc'[p] \in Building,
         UNCHANGED <<events, version, cur, lock>>,
         IF pc'[p] \in InTx
         THEN writer' = p /\ (pc[p] \in InTx \/ writer = Nobody)
         ELSE IF pc[p] \in InTx THEN writer' = Nobody ELSE UNCHANGED <<writer, work>>,
         \A q \in Procs : q # p => /\ pc'[q] = pc[q] /\ st'[q] = st[q]
                                  /\ through'[q] = through[q] /\ batch'[q] = batch[q],
         \A s \in Sessions : s # cur[p] => row'[s] = row[s] /\ tables'[s] = tables[s],
         RowsIndexed', BuildRight(p)', BatchRight(p)'
  PROVE  Rest'
<1>1. \A q \in Procs : q # p =>
        /\ pc[q] \in Exclusive => cur[q] # cur[p]
        /\ pc[p] \in InTx => pc[q] \notin InTx
        /\ pc'[p] \in InTx => pc[q] \notin InTx
  BY Apart, NamesAssumption DEF IndexInv, LocksHeld
<1>2. cur \in [Procs -> Sessions]
  BY DEF IndexInv, TypeOK
<1>3. LocksHeld'
  <2>1. \A q \in Procs : pc'[q] \in Exclusive => lock'[cur'[q]] = q
    BY DEF IndexInv, LocksHeld
  <2>2. ASSUME NEW q \in Procs PROVE pc'[q] \in InTx <=> writer' = q
    <3>1. CASE q = p
      BY <3>1, NamesAssumption DEF IndexInv, LocksHeld
    <3>2. CASE q # p
      BY <3>2, <1>1, NamesAssumption DEF IndexInv, LocksHeld
    <3> QED BY <3>1, <3>2
  <2> QED BY <2>1, <2>2 DEF LocksHeld
<1>4. BuildsRight'
  <2> SUFFICES ASSUME NEW q \in Procs, q # p PROVE BuildRight(q)' /\ BatchRight(q)'
    BY DEF BuildsRight
  <2>1. BuildRight(q) /\ BatchRight(q)
    BY DEF IndexInv, BuildsRight
  <2>2. pc[q] \in Building => row'[cur[q]] = row[cur[q]] /\ tables'[cur[q]] = tables[cur[q]]
    BY <1>1, <1>2 DEF Exclusive
  <2>3. pc[q] \in InTx => work' = work
    BY <1>1
  <2> QED BY <2>1, <2>2, <2>3, BuildKept
<1>5. ReadersApart'
  <2> SUFFICES ASSUME NEW r \in Procs, pc'[r] = "reading"
               PROVE  /\ TurnIndexCurrent(cur[r])'
                      /\ \A q \in Procs : pc'[q] \in Exclusive \ {"check"} => cur'[q] # cur'[r]
    BY DEF ReadersApart
  <2>1. r # p /\ pc[r] = "reading"
    BY DEF Building, InTx
  <2>2. TurnIndexCurrent(cur[r]) /\ \A q \in Procs : pc[q] \in Exclusive \ {"check"} => cur[q] # cur[r]
    BY <2>1 DEF IndexInv, ReadersApart
  <2>3. row'[cur[r]] = row[cur[r]]
    BY <2>2, <1>2
  <2>4. \A q \in Procs : pc'[q] \in Exclusive \ {"check"} => cur'[q] # cur'[r]
    BY <2>2
  <2> QED BY <2>2, <2>3, <2>4 DEF TurnIndexCurrent
<1> QED BY <1>3, <1>4, <1>5 DEF Rest

LEMMA DeletePartialInv ==
  ASSUME IndexInv, NEW p \in Procs, DeletePartial(p)
  PROVE  Rest'
<1> USE DEF Exclusive, Building, InTx
<1>1. /\ pc[p] = "delete" /\ pc'[p] = "read" /\ cur[p] \in Sessions /\ TypeOK /\ TypeOK'
      /\ row'[cur[p]] = NoRow /\ tables'[cur[p]] = EmptyTables
      /\ \A s \in Sessions : s # cur[p] => row'[s] = row[s] /\ tables'[s] = tables[s]
      /\ st'[p] = FreshState /\ through'[p] = 0
  <2>1. TypeOK'
    BY NextType DEF IndexInv, Next, Build
  <2>2. st[p] = FreshState /\ through[p] = 0
    BY DEF DeletePartial, IndexInv, BuildsRight, BuildRight
  <2> QED BY <2>1, <2>2 DEF DeletePartial, IndexInv, TypeOK
<1>2. RowsIndexed'
  <2> SUFFICES ASSUME NEW s \in Sessions
               PROVE  /\ row'[s].version <= version
                      /\ TurnIndexCurrent(s)' =>
                           /\ Indexed(events, version, s, tables[s], RowState(s), row[s].through)'
                           /\ (After(events, s, row[s].through) = {})'
                      /\ EventsOf(events, s) = {} => tables'[s] = EmptyTables
    BY DEF RowsIndexed, DeletePartial
  <2>1. CASE s = cur[p]
    BY <2>1, <1>1, VersionNat DEF TurnIndexCurrent, NoRow, DeletePartial
  <2>2. CASE s # cur[p]
    BY <2>2, <1>1 DEF IndexInv, RowsIndexed, TurnIndexCurrent, RowState, DeletePartial
  <2> QED BY <2>1, <2>2
<1>3. BuildRight(p)' /\ BatchRight(p)'
  <2>1. Indexed(events, version, cur[p], EmptyTables, FreshState, 0)
    BY <1>1, EventIds, EmptyIndexed DEF TypeOK
  <2> QED BY <1>1, <2>1 DEF DeletePartial, BuildRight, BatchRight, Seen
<1>4. \A q \in Procs : q # p => /\ pc'[q] = pc[q] /\ st'[q] = st[q]
                               /\ through'[q] = through[q] /\ batch'[q] = batch[q]
  BY DEF DeletePartial, IndexInv, TypeOK
<1> QED BY <1>1, <1>2, <1>3, <1>4, WithinInv DEF DeletePartial

\* A chunk read leaves no event of the session out before its last.
LEMMA ChunkWithoutGap ==
  ASSUME TypeOK, NEW s, NEW n, NEW e \in ReadEventTurnFields(s, n, Chunk),
         NEW f \in After(events, s, n), f < e
  PROVE  f \in ReadEventTurnFields(s, n, Chunk)
<1> DEFINE rows == After(events, s, n)
<1>1. IsFiniteSet(rows) /\ rows \subseteq Nat
  <2>1. Len(events) \in Nat /\ rows \subseteq 1..Len(events)
    BY DEF TypeOK, After, EventsOf
  <2>2. IsFiniteSet(1..Len(events))
    BY <2>1, FS_Interval
  <2> QED BY <2>1, <2>2, FS_Subset
<1> DEFINE S == {x \in rows : x < f}
           T == {x \in rows : x < e}
<1>2. e \in rows /\ Cardinality(T) < Chunk
  BY DEF ReadEventTurnFields
<1>3. S \subseteq T
  BY <1>1, <1>2
<1>4. IsFiniteSet(T) /\ T \subseteq rows
  BY <1>1, FS_Subset
<1>5. Cardinality(S) <= Cardinality(T) /\ Cardinality(S) \in Nat /\ Cardinality(T) \in Nat
  BY <1>3, <1>4, FS_Subset, FS_CardinalityType
<1>6. Cardinality(S) < Chunk
  BY <1>2, <1>5, BoundsAssumption
<1> QED BY <1>6 DEF ReadEventTurnFields

LEMMA ReadChunkInv ==
  ASSUME IndexInv, NEW p \in Procs, ReadChunk(p)
  PROVE  Rest'
<1> DEFINE rows == After(events, cur[p], through[p])
           b == ReadEventTurnFields(cur[p], through[p], Chunk)
<1> USE DEF Exclusive, Building, InTx
<1>1. /\ pc[p] = "read" /\ pc'[p] \in {"begin", "beginfinal"}
      /\ pc'[p] = "begin" => batch'[p] = b
      /\ \A q \in Procs : q # p => /\ pc'[q] = pc[q] /\ st'[q] = st[q]
                                   /\ through'[q] = through[q] /\ batch'[q] = batch[q]
  BY DEF ReadChunk, IndexInv, TypeOK
<1>2. RowsIndexed'
  BY RowsKept DEF IndexInv, ReadChunk
<1>3. BuildRight(p)'
  BY <1>1 DEF ReadChunk, IndexInv, BuildsRight, BuildRight, Seen, TurnIndexCurrent
<1>4. \A e \in b : \A f \in rows : f < e => f \in b
  BY ChunkWithoutGap DEF IndexInv
<1>5. BatchRight(p)'
  <2>1. b \subseteq EventsOf(events, cur[p])
    BY DEF ReadEventTurnFields, After
  <2> QED BY <1>1, <1>4, <2>1 DEF ReadChunk, BatchRight
<1> QED BY <1>1, <1>2, <1>3, <1>5, WithinInv DEF ReadChunk

LEMMA BeginInv ==
  ASSUME IndexInv, NEW p \in Procs, Begin(p)
  PROVE  Rest'
<1> USE DEF Exclusive, Building, InTx
<1>1. /\ pc[p] \in {"begin", "beginfinal"}
      /\ pc'[p] = IF pc[p] = "begin" THEN "chunk" ELSE "final"
      /\ \A q \in Procs : q # p => pc'[q] = pc[q]
  BY DEF Begin, IndexInv, TypeOK
<1>2. RowsIndexed'
  BY RowsKept DEF IndexInv, Begin
<1>3. BuildRight(p)'
  BY <1>1 DEF Begin, IndexInv, BuildsRight, BuildRight, Seen, TurnIndexCurrent
<1>4. BatchRight(p)'
  BY <1>1 DEF Begin, IndexInv, BuildsRight, BatchRight
<1> QED BY <1>1, <1>2, <1>3, <1>4, WithinInv DEF Begin

\* The event a build places is the next of its session, also within a chunk.
LEMMA LeftIsNext ==
  ASSUME TypeOK, NEW p \in Procs, BatchRight(p), pc[p] \in InTx,
         NEW e \in Left(p), \A f \in Left(p) : e <= f
  PROVE  /\ e \in After(events, cur[p], through[p])
         /\ \A f \in After(events, cur[p], through[p]) : e <= f
<1>1. e \in After(events, cur[p], through[p])
  BY DEF Left
<1>2. After(events, cur[p], through[p]) \subseteq Nat
  BY EventIds DEF After, TypeOK
<1>3. ASSUME NEW f \in After(events, cur[p], through[p]) PROVE e <= f
  <2>1. CASE f \in Left(p)
    BY <2>1
  <2>2. CASE f \notin Left(p)
    <3>1. pc[p] = "chunk" /\ f \notin batch[p] /\ e \in batch[p]
      BY <2>2, <1>3 DEF Left
    <3>2. ~(f < e)
      BY <3>1, <1>3 DEF BatchRight
    <3> QED BY <3>2, <1>1, <1>2
  <2> QED BY <2>1, <2>2
<1> QED BY <1>1, <1>3

LEMMA PlaceEventInv ==
  ASSUME IndexInv, NEW p \in Procs, NEW e \in DOMAIN events, PlaceEvent(p, e)
  PROVE  Rest'
<1> USE DEF Exclusive, Building, InTx
<1>1. pc[p] \in InTx /\ e \in Left(p) /\ (\A f \in Left(p) : e <= f) /\ cur[p] \in Sessions
  BY DEF PlaceEvent, IndexInv, TypeOK
<1>2. CASE Conflict(work, st[p], e, events[e])
  BY <1>1, <1>2, AbortInv DEF PlaceEvent
<1>3. CASE ~Conflict(work, st[p], e, events[e])
  <2>1. /\ e \in After(events, cur[p], through[p])
        /\ \A f \in After(events, cur[p], through[p]) : e <= f
    BY <1>1, LeftIsNext DEF IndexInv, BuildsRight
  <2>2. /\ work' = WriteTables(version, work, st[p], e, events[e])
        /\ st'[p] = WriteState(work, st[p], e, events[e]) /\ through'[p] = e
        /\ pc' = pc /\ writer' = writer /\ lock' = lock /\ batch' = batch /\ cur' = cur
        /\ UNCHANGED <<events, version, row, tables>>
        /\ \A q \in Procs : q # p => st'[q] = st[q] /\ through'[q] = through[q]
    BY <1>3 DEF PlaceEvent, IndexInv, TypeOK
  <2>3. row[cur[p]] = NoRow /\ Indexed(events, version, cur[p], work, st[p], through[p])
    <3> SUFFICES ASSUME TurnIndexCurrent(cur[p]), work = tables[cur[p]] PROVE FALSE
      BY <1>1 DEF IndexInv, BuildsRight, BuildRight, Seen
    <3> DEFINE n == row[cur[p]].through
    <3>1. /\ Covers(events, cur[p], work, n) /\ After(events, cur[p], n) = {}
      BY <1>1 DEF IndexInv, RowsIndexed, Indexed, Faithful
    <3>2. e \in EventsOf(events, cur[p]) /\ e \in Nat /\ n \in Nat /\ e \in Ids
      <4>1. e \in 1..Len(events) /\ Len(events) \in 0..MaxEvents
        BY DEF IndexInv, TypeOK
      <4> QED BY <1>1, <2>1, <4>1, BoundsAssumption DEF After, IndexInv, TypeOK, SessionRow, Ids
    <3>3. e <= n
      BY <3>1, <3>2 DEF After
    <3>4. work.placed[e] # 0
      BY <3>1, <3>2, <3>3 DEF Covers
    <3> QED BY <3>4, <1>3 DEF Conflict
  <2>4. Indexed(events, version, cur[p], WriteTables(version, work, st[p], e, events[e]),
                WriteState(work, st[p], e, events[e]), e)
    <3>1. /\ events \in Seq(Event) /\ Len(events) <= MaxEvents /\ version \in Versions
          /\ work \in Tables /\ st[p] \in State /\ through[p] \in Nat
      BY BoundsAssumption DEF IndexInv, TypeOK
    <3> QED BY <3>1, <2>1, <2>3, PlaceNext
  <2>5. BuildRight(p)'
    BY <1>1, <2>2, <2>3, <2>4 DEF BuildRight, Seen
  <2>6. BatchRight(p)'
    <3>1. \A f \in After(events, cur[p], e) : f \in After(events, cur[p], through[p])
      <4>1. EventsOf(events, cur[p]) \subseteq Nat /\ through[p] \in Nat
        BY EventIds DEF IndexInv, TypeOK
      <4> QED BY <2>1, <4>1 DEF After
    <3>2. BatchRight(p)
      BY DEF IndexInv, BuildsRight
    <3> QED BY <2>2, <3>1, <3>2 DEF BatchRight
  <2>7. RowsIndexed'
    BY <2>2, RowsKept DEF IndexInv
  <2>8. writer = p
    BY <1>1 DEF IndexInv, LocksHeld
  <2> QED BY <1>1, <2>2, <2>5, <2>6, <2>7, <2>8, WithinInv
<1> QED BY <1>2, <1>3

LEMMA CommitChunkInv ==
  ASSUME IndexInv, NEW p \in Procs, CommitChunk(p)
  PROVE  Rest'
<1> USE DEF Exclusive, Building, InTx
<1>1. /\ pc[p] = "chunk" /\ pc'[p] = "read" /\ cur[p] \in Sessions /\ TypeOK
      /\ tables'[cur[p]] = work /\ writer' = Nobody
      /\ \A s \in Sessions : s # cur[p] => tables'[s] = tables[s]
      /\ \A q \in Procs : q # p => pc'[q] = pc[q] /\ batch'[q] = batch[q]
      /\ UNCHANGED <<events, version, row, lock, cur, st, through>>
  BY DEF CommitChunk, Commit, EndTx, IndexInv, TypeOK
<1>2. \/ /\ row[cur[p]] = NoRow
         /\ Indexed(events, version, cur[p], work, st[p], through[p])
      \/ /\ TurnIndexCurrent(cur[p])
         /\ st[p] = FreshState /\ through[p] = 0 /\ work = tables[cur[p]]
  BY <1>1 DEF IndexInv, BuildsRight, BuildRight, Seen
<1>3. RowsIndexed'
  <2> SUFFICES ASSUME NEW s \in Sessions
               PROVE  /\ row[s].version <= version
                      /\ TurnIndexCurrent(s) =>
                           /\ Indexed(events, version, s, tables'[s], RowState(s), row[s].through)
                           /\ After(events, s, row[s].through) = {}
                      /\ EventsOf(events, s) = {} => tables'[s] = EmptyTables
    BY <1>1 DEF RowsIndexed, TurnIndexCurrent, RowState
  <2>0. /\ row[s].version <= version
        /\ TurnIndexCurrent(s) =>
             /\ Indexed(events, version, s, tables[s], RowState(s), row[s].through)
             /\ After(events, s, row[s].through) = {}
        /\ EventsOf(events, s) = {} => tables[s] = EmptyTables
    BY DEF IndexInv, RowsIndexed
  <2>1. CASE s # cur[p] \/ work = tables[cur[p]]
    BY <2>0, <2>1, <1>1
  <2>2. CASE s = cur[p] /\ row[s] = NoRow
    <3>1. ~TurnIndexCurrent(s)
      BY <2>2, <1>1, CurrentRow
    <3>2. EventsOf(events, s) = {} => work = EmptyTables
      BY <2>2, <1>1, <1>2, <3>1, NoEventsNoTables DEF TypeOK
    <3> QED BY <2>0, <2>2, <3>1, <3>2, <1>1
  <2> QED BY <2>1, <2>2, <1>2
<1>4. BuildRight(p)' /\ BatchRight(p)'
  BY <1>1, <1>2 DEF BuildRight, BatchRight, Seen, TurnIndexCurrent
<1> QED BY <1>1, <1>3, <1>4, WithinInv

LEMMA MarkCurrentInv ==
  ASSUME IndexInv, NEW p \in Procs, MarkCurrent(p)
  PROVE  Rest'
<1> USE DEF Exclusive, Building, InTx
<1>1. pc[p] = "final" /\ Left(p) = {} /\ cur[p] \in Sessions /\ TypeOK
  BY DEF MarkCurrent, IndexInv, TypeOK
<1>2. CASE row[cur[p]] # NoRow
  BY <1>1, <1>2, AbortInv DEF MarkCurrent
<1>3. CASE row[cur[p]] = NoRow
  <2> DEFINE next == IF p = Backfill THEN "idle" ELSE "reading"
  <2>1. /\ Leave(p, next) /\ next \in {"idle", "reading", "failed"}
        /\ writer' = Nobody /\ tables'[cur[p]] = work
        /\ \A s \in Sessions : s # cur[p] => tables'[s] = tables[s] /\ row'[s] = row[s]
        /\ row'[cur[p]] = [version |-> version, through |-> through[p],
                           last |-> st[p].last, next |-> st[p].next]
        /\ UNCHANGED <<events, version, cur>>
    BY <1>1, <1>3 DEF MarkCurrent, Commit, EndTx, Return, TypeOK
  <2>2. Indexed(events, version, cur[p], work, st[p], through[p])
    <3>1. ~TurnIndexCurrent(cur[p])
      BY <1>1, <1>3, CurrentRow
    <3> QED BY <1>1, <3>1 DEF IndexInv, BuildsRight, BuildRight, Seen
  <2>3. After(events, cur[p], through[p]) = {}
    BY <1>1 DEF Left
  <2>4. st[p] = [last |-> st[p].last, next |-> st[p].next]
    BY DEF IndexInv, TypeOK, State
  <2>5. RowsIndexed'
    <3> SUFFICES ASSUME NEW s \in Sessions
                 PROVE  /\ row'[s].version <= version
                        /\ row'[s].version = version =>
                             /\ Indexed(events, version, s, tables'[s], RowState(s)', row'[s].through)
                             /\ After(events, s, row'[s].through) = {}
                        /\ EventsOf(events, s) = {} => tables'[s] = EmptyTables
      BY <2>1 DEF RowsIndexed, TurnIndexCurrent
    <3>1. CASE s # cur[p]
      BY <3>1, <2>1 DEF IndexInv, RowsIndexed, TurnIndexCurrent, RowState
    <3>2. CASE s = cur[p]
      <4>1. RowState(s)' = st[p] /\ row'[s].through = through[p] /\ row'[s].version = version
        BY <3>2, <2>1, <2>4 DEF RowState
      <4>2. EventsOf(events, s) = {} => work = EmptyTables
        BY <3>2, <1>1, <2>2, NoEventsNoTables DEF TypeOK
      <4>3. version <= version
        BY <1>1, VersionNat
      <4> QED BY <3>2, <4>1, <4>2, <4>3, <2>1, <2>2, <2>3
    <3> QED BY <3>1, <3>2
  <2>6. TurnIndexCurrent(cur[p])'
    BY <2>1 DEF TurnIndexCurrent
  <2>7. row[cur[p]].version = 0
    BY <1>3 DEF NoRow
  <2> QED BY <1>1, <2>1, <2>5, <2>6, <2>7, LeaveInv
<1> QED BY <1>2, <1>3

\* What an insert does to the rows and tables of the event's session, in all
\* three cases of indexEventInTx.
LEMMA StoredRow ==
  ASSUME IndexInv, NEW ev \in Event, NEW s, s = ev.session,
         StoreIndexed(s, ev) \/ StoreFirst(s, ev) \/ StoreUnindexed(s, ev)
  PROVE  /\ events' = Append(events, ev) /\ Len(events) < MaxEvents
         /\ UNCHANGED <<version, lock, writer, work, pc, cur, st, through, batch>>
         /\ writer = Nobody
         /\ \A c \in Sessions : c # s => row'[c] = row[c] /\ tables'[c] = tables[c]
         /\ \/ row'[s] = row[s] /\ tables'[s] = tables[s] /\ ~TurnIndexCurrent(s)
               /\ (row[s] = NoRow => EventsOf(events, s) # {})
            \/ /\ TurnIndexCurrent(s) \/ (row[s] = NoRow /\ EventsOf(events, s) = {})
               /\ row'[s].version = version
               /\ Indexed(events', version, s, tables'[s], RowState(s)', row'[s].through)
               /\ After(events', s, row'[s].through) = {}
<1> DEFINE e == Len(events) + 1
           log2 == Append(events, ev)
<1>1. /\ TypeOK /\ s \in Sessions /\ events' = log2 /\ Len(events) < MaxEvents
      /\ UNCHANGED <<version, lock, writer, work, pc, cur, st, through, batch>> /\ writer = Nobody
  BY DEF StoreIndexed, StoreFirst, StoreUnindexed, InsertEvent, procVars, IndexInv, Event
<1>2. /\ log2 \in Seq(Event) /\ Len(log2) = e /\ e \in Nat \ {0} /\ e <= MaxEvents /\ log2[e] = ev
      /\ DOMAIN log2 = 1..e /\ DOMAIN events = 1..(e - 1)
      /\ \A x \in DOMAIN events : log2[x] = events[x]
  BY <1>1, BoundsAssumption DEF TypeOK
<1> HIDE DEF log2, e
<1>3. e \in EventsOf(log2, s) /\ \A x \in EventsOf(log2, s) : x = e \/ x \in EventsOf(events, s)
  BY <1>2 DEF EventsOf
<1>4. \A x \in EventsOf(log2, s) : x <= e /\ x \in Nat
  BY <1>2 DEF EventsOf
<1>5. ASSUME NEW tab \in Tables, NEW state \in State, NEW n \in Nat,
             Indexed(log2, version, s, tab, state, n), After(events, s, n) = {}, n < e,
             IndexInserted(s, tab, state, ev), tab = tables[s]
      PROVE  /\ row'[s].version = version
             /\ Indexed(log2, version, s, tables'[s], RowState(s)', row'[s].through)
             /\ After(log2, s, row'[s].through) = {}
             /\ \A c \in Sessions : c # s => row'[c] = row[c] /\ tables'[c] = tables[c]
  <2>1. e \in After(log2, s, n) /\ \A f \in After(log2, s, n) : e <= f
    BY <1>2, <1>3, <1>5 DEF After
  <2>2. Indexed(log2, version, s, WriteTables(version, tab, state, e, ev),
                WriteState(tab, state, e, ev), e)
    BY <1>1, <1>2, <1>5, <2>1, PlaceNext DEF TypeOK
  <2>3. /\ tables' = [tables EXCEPT ![s] = WriteTables(version, tab, state, e, ev)]
        /\ row' = [row EXCEPT ![s] = [version |-> version, through |-> e,
                                      last |-> WriteState(tab, state, e, ev).last,
                                      next |-> WriteState(tab, state, e, ev).next]]
    BY <1>5 DEF IndexInserted, e
  <2>4. /\ tables'[s] = WriteTables(version, tab, state, e, ev)
        /\ row'[s].version = version /\ row'[s].through = e
        /\ RowState(s)' = WriteState(tab, state, e, ev)
    BY <1>1, <2>3 DEF TypeOK, RowState, WriteState
  <2>5. After(log2, s, e) = {}
    BY <1>4, <1>2 DEF After
  <2> QED BY <1>1, <2>2, <2>3, <2>4, <2>5 DEF TypeOK
<1>6. CASE StoreIndexed(s, ev)
  <2>1. /\ Indexed(events, version, s, tables[s], RowState(s), row[s].through)
        /\ After(events, s, row[s].through) = {} /\ TurnIndexCurrent(s)
    BY <1>1, <1>6 DEF StoreIndexed, IndexInv, RowsIndexed
  <2>2. tables[s] \in Tables /\ RowState(s) \in State /\ row[s].through \in Nat
    BY <1>1 DEF TypeOK, SessionRow, RowState, State
  <2>3. Indexed(log2, version, s, tables[s], RowState(s), row[s].through)
    BY <1>1, <2>1, <2>2, AppendFrame DEF TypeOK, log2
  <2>4. row[s].through < e
    BY <1>2, <2>1, <2>2 DEF Indexed, StateRight, EventsOf
  <2>5. IndexInserted(s, tables[s], RowState(s), ev)
    BY <1>6 DEF StoreIndexed
  <2> QED BY <1>1, <1>5, <2>1, <2>2, <2>3, <2>4, <2>5 DEF log2
<1>7. CASE StoreFirst(s, ev)
  <2>1. row[s] = NoRow /\ EventsOf(events, s) = {} /\ tables[s] = EmptyTables
    BY <1>1, <1>7 DEF StoreFirst, IndexInv, RowsIndexed
  <2>2. EmptyTables \in Tables /\ FreshState \in State /\ 0 \in Nat
    BY EmptyTablesType DEF FreshState, State
  <2>3. Indexed(log2, version, s, EmptyTables, FreshState, 0)
    BY <1>2, EventIds, EmptyIndexed
  <2>4. After(events, s, 0) = {} /\ 0 < e
    BY <2>1, <1>2 DEF After
  <2>5. IndexInserted(s, EmptyTables, FreshState, ev)
    BY <1>7, <2>1 DEF StoreFirst
  <2> QED BY <1>1, <1>5, <2>1, <2>2, <2>3, <2>4, <2>5 DEF log2
<1>8. CASE StoreUnindexed(s, ev)
  <2>1. UNCHANGED <<row, tables>> /\ (row[s] = NoRow => EventsOf(events, s) # {})
    BY <1>8 DEF StoreUnindexed
  <2>2. ~TurnIndexCurrent(s)
    BY <1>1, <1>8, CurrentRow DEF StoreUnindexed
  <2> QED BY <1>1, <2>1, <2>2 DEF log2
<1> QED BY <1>6, <1>7, <1>8

LEMMA StoreEventInv ==
  ASSUME IndexInv, StoreEvent
  PROVE  Rest'
<1>1. PICK ev \in Event : LET s == ev.session IN
        StoreIndexed(s, ev) \/ StoreFirst(s, ev) \/ StoreUnindexed(s, ev)
  BY DEF StoreEvent
<1> DEFINE s == ev.session
           log2 == Append(events, ev)
<1>2. /\ events' = log2 /\ Len(events) < MaxEvents
      /\ UNCHANGED <<version, lock, writer, work, pc, cur, st, through, batch>>
      /\ writer = Nobody
      /\ \A c \in Sessions : c # s => row'[c] = row[c] /\ tables'[c] = tables[c]
      /\ \/ row'[s] = row[s] /\ tables'[s] = tables[s] /\ ~TurnIndexCurrent(s)
            /\ (row[s] = NoRow => EventsOf(events, s) # {})
         \/ /\ TurnIndexCurrent(s) \/ (row[s] = NoRow /\ EventsOf(events, s) = {})
            /\ row'[s].version = version
            /\ Indexed(log2, version, s, tables'[s], RowState(s)', row'[s].through)
            /\ After(log2, s, row'[s].through) = {}
  BY <1>1, StoredRow
<1>3. /\ TypeOK /\ s \in Sessions /\ Len(events) \in Nat /\ DOMAIN events = 1..Len(events)
      /\ DOMAIN log2 = 1..(Len(events) + 1) /\ log2[Len(events) + 1] = ev
      /\ \A x \in DOMAIN events : log2[x] = events[x]
      /\ events \in Seq(Event) /\ version \in Versions
  BY DEF IndexInv, TypeOK, Event
<1> HIDE DEF log2
<1>4. /\ \A c : EventsOf(events, c) \subseteq EventsOf(log2, c)
      /\ \A c : c # s => EventsOf(log2, c) = EventsOf(events, c)
      /\ \A c : \A x \in EventsOf(log2, c) : x \in EventsOf(events, c) \/ x = Len(events) + 1
      /\ Len(events) + 1 \in EventsOf(log2, s)
  BY <1>3 DEF EventsOf
<1>5. ASSUME NEW c, NEW tab \in Tables, NEW state \in State, NEW n \in Nat,
             Indexed(events, version, c, tab, state, n)
      PROVE  Indexed(log2, version, c, tab, state, n)
  BY <1>2, <1>3, <1>5, AppendFrame DEF log2
<1>6. \A c \in Sessions : TurnIndexCurrent(c) => row'[c].version = version
  BY <1>2 DEF TurnIndexCurrent
<1>7. RowsIndexed'
  <2> SUFFICES ASSUME NEW c \in Sessions
               PROVE  /\ row'[c].version <= version
                      /\ row'[c].version = version =>
                           /\ Indexed(log2, version, c, tables'[c], RowState(c)', row'[c].through)
                           /\ After(log2, c, row'[c].through) = {}
                      /\ EventsOf(log2, c) = {} => tables'[c] = EmptyTables
    BY <1>2 DEF RowsIndexed, TurnIndexCurrent
  <2>0. /\ row[c].version <= version
        /\ TurnIndexCurrent(c) =>
             /\ Indexed(events, version, c, tables[c], RowState(c), row[c].through)
             /\ After(events, c, row[c].through) = {}
        /\ EventsOf(events, c) = {} => tables[c] = EmptyTables
    BY DEF IndexInv, RowsIndexed
  <2>1. CASE c # s
    <3>1. row'[c] = row[c] /\ tables'[c] = tables[c] /\ RowState(c)' = RowState(c)
      BY <2>1, <1>2 DEF RowState
    <3>2. tables[c] \in Tables /\ RowState(c) \in State /\ row[c].through \in Nat
      BY <1>3 DEF TypeOK, SessionRow, RowState, State
    <3> QED BY <2>0, <2>1, <3>1, <3>2, <1>4, <1>5 DEF TurnIndexCurrent, After
  <2>2. CASE c = s
    <3>1. EventsOf(log2, c) # {}
      BY <2>2, <1>4
    <3>2. CASE row'[s] = row[s] /\ ~TurnIndexCurrent(s)
      BY <3>1, <3>2, <2>0, <2>2 DEF TurnIndexCurrent
    <3>3. CASE /\ row'[s].version = version
               /\ Indexed(log2, version, s, tables'[s], RowState(s)', row'[s].through)
               /\ After(log2, s, row'[s].through) = {}
      <4>1. version <= version
        BY <1>3, VersionNat
      <4> QED BY <3>1, <3>3, <4>1, <2>2
    <3> QED BY <3>2, <3>3, <1>2
  <2> QED BY <2>1, <2>2
<1>8. LocksHeld'
  BY <1>2 DEF IndexInv, LocksHeld
<1>9. BuildsRight'
  <2> SUFFICES ASSUME NEW q \in Procs PROVE BuildRight(q)' /\ BatchRight(q)'
    BY DEF BuildsRight
  <2>0. /\ BuildRight(q) /\ BatchRight(q) /\ pc[q] \notin InTx /\ cur[q] \in Sessions
        /\ Seen(q) = tables[cur[q]] /\ Seen(q)' = tables'[cur[q]]
    BY <1>2, <1>3, NamesAssumption DEF IndexInv, BuildsRight, LocksHeld, TypeOK, Seen
  <2>4. BatchRight(q)'
    <3> SUFFICES ASSUME pc[q] \in {"begin", "chunk"}, NEW e \in batch[q]
                 PROVE  /\ e \in EventsOf(log2, cur[q])
                        /\ \A f \in After(log2, cur[q], through[q]) : f < e => f \in batch[q]
      BY <1>2 DEF BatchRight
    <3>1. /\ e \in EventsOf(events, cur[q])
          /\ \A f \in After(events, cur[q], through[q]) : f < e => f \in batch[q]
      BY <2>0 DEF BatchRight
    <3>2. e <= Len(events) /\ e \in Nat
      BY <3>1, <1>3 DEF EventsOf
    <3>3. e \in EventsOf(log2, cur[q])
      BY <3>1, <1>4
    <3>4. ASSUME NEW f \in After(log2, cur[q], through[q]), f < e PROVE f \in batch[q]
      <4>1. f # Len(events) + 1
        BY <3>2, <3>4, <1>3
      <4>2. f \in After(events, cur[q], through[q])
        BY <3>4, <4>1, <1>4 DEF After
      <4> QED BY <3>1, <3>4, <4>2
    <3> QED BY <3>3, <3>4
  <2>1. CASE pc[q] \notin Building
    BY <2>0, <2>1, <2>4, <1>2 DEF BuildRight
  <2>2. CASE pc[q] \in Building /\ TurnIndexCurrent(cur[q])
    <3>1. row'[cur[q]].version = version
      BY <2>0, <2>2, <1>2, <1>6
    <3>2. row[cur[q]] # NoRow
      BY <2>0, <2>2, <1>3, CurrentRow
    <3>3. st[q] = FreshState /\ through[q] = 0
      BY <2>0, <2>2, <3>2 DEF BuildRight
    <3> QED BY <2>0, <2>2, <2>4, <3>1, <3>3, <1>2 DEF BuildRight, TurnIndexCurrent
  <2>3. CASE pc[q] \in Building /\ ~TurnIndexCurrent(cur[q])
    <3>1. /\ row[cur[q]] = NoRow
          /\ Indexed(events, version, cur[q], tables[cur[q]], st[q], through[q])
          /\ tables[cur[q]] \in Tables /\ st[q] \in State /\ through[q] \in Nat
      BY <2>0, <2>3, <1>3 DEF BuildRight, TypeOK
    <3>2. Indexed(log2, version, cur[q], tables[cur[q]], st[q], through[q])
      BY <3>1, <1>5
    <3>3. CASE row'[cur[q]] = row[cur[q]] /\ tables'[cur[q]] = tables[cur[q]]
      <4>1. /\ cur'[q] = cur[q] /\ pc'[q] = pc[q] /\ st'[q] = st[q] /\ through'[q] = through[q]
            /\ events' = log2 /\ version' = version /\ Seen(q)' = tables[cur[q]]
        BY <2>0, <3>3, <1>2
      <4>2. row'[cur'[q]] = NoRow
        BY <3>1, <3>3, <4>1
      <4> QED BY <2>3, <3>2, <4>1, <4>2, <2>4 DEF BuildRight
    <3>4. CASE cur[q] = s /\ EventsOf(events, s) = {} /\ row'[s].version = version
      <4>1. st[q] = FreshState /\ through[q] = 0
        BY <3>1, <3>4, NoEventsNoTables
      <4> QED BY <2>0, <2>3, <2>4, <3>4, <4>1, <1>2 DEF BuildRight, TurnIndexCurrent
    <3> QED BY <2>0, <2>3, <3>3, <3>4, <1>2
  <2> QED BY <2>1, <2>2, <2>3
<1>10. ReadersApart'
  <2>1. \A q \in Procs : cur[q] \in Sessions
    BY <1>3 DEF TypeOK
  <2> QED BY <2>1, <1>2, <1>6 DEF IndexInv, ReadersApart, TurnIndexCurrent
<1> QED BY <1>7, <1>8, <1>9, <1>10 DEF Rest

LEMMA RestartInv ==
  ASSUME IndexInv, Restart, ~Rollback
  PROVE  Rest'
<1>1. /\ version' \in Versions /\ version' >= version /\ TypeOK
      /\ UNCHANGED <<events, row, tables>>
      /\ \A p \in Procs : pc'[p] = "idle" /\ st'[p] = FreshState /\ through'[p] = 0
      /\ writer' = Nobody
  BY BoundsAssumption DEF Restart, IndexInv
<1>2. version \in Nat /\ version' \in Nat /\ \A s \in Sessions : row[s].version \in Nat
  BY <1>1, VersionsAssumption, VersionNat
<1>3. RowsIndexed'
  <2> SUFFICES ASSUME NEW s \in Sessions
               PROVE  /\ row[s].version <= version'
                      /\ row[s].version = version' =>
                           /\ Indexed(events, version', s, tables[s], RowState(s), row[s].through)
                           /\ After(events, s, row[s].through) = {}
                      /\ EventsOf(events, s) = {} => tables[s] = EmptyTables
    BY <1>1 DEF RowsIndexed, TurnIndexCurrent, RowState
  <2>1. /\ row[s].version <= version
        /\ row[s].version = version =>
             /\ Indexed(events, version, s, tables[s], RowState(s), row[s].through)
             /\ After(events, s, row[s].through) = {}
        /\ EventsOf(events, s) = {} => tables[s] = EmptyTables
    BY DEF IndexInv, RowsIndexed, TurnIndexCurrent
  <2>2. row[s].version = version' => version' = version
    BY <1>1, <1>2, <2>1
  <2> QED BY <1>1, <1>2, <2>1, <2>2
<1>4. LocksHeld' /\ ReadersApart'
  BY <1>1, NamesAssumption DEF LocksHeld, ReadersApart, Exclusive, Building, InTx
<1>5. BuildsRight'
  BY <1>1 DEF BuildsRight, BuildRight, BatchRight, Building, InTx
<1> QED BY <1>3, <1>4, <1>5 DEF Rest

LEMMA InvNext == IndexInv /\ ~Rollback /\ [Next]_vars => IndexInv'
<1> SUFFICES ASSUME IndexInv, ~Rollback, [Next]_vars PROVE IndexInv'
  OBVIOUS
<1>1. TypeOK'
  BY NextType DEF IndexInv
<1>2. CASE StoreEvent
  BY <1>1, <1>2, StoreEventInv DEF Rest, IndexInv
<1>3. ASSUME NEW p \in Readers, NEW s \in Sessions, StartRead(p, s) PROVE IndexInv'
  BY <1>1, <1>3, StartReadInv DEF Rest, IndexInv
<1>4. CASE BackfillList \/ \E s \in Sessions : BackfillNext(s)
  BY <1>1, <1>4, BackfillListInv DEF Rest, IndexInv
<1>5. ASSUME NEW p \in Procs, Build(p) PROVE IndexInv'
  BY <1>1, <1>5, LockInv, CheckCurrentInv, DeletePartialInv, ReadChunkInv, BeginInv,
     PlaceEventInv, CommitChunkInv, MarkCurrentInv DEF Build, Rest, IndexInv
<1>6. ASSUME NEW p \in Procs, Answer(p) PROVE IndexInv'
  BY <1>1, <1>6, AnswerInv DEF Rest, IndexInv
<1>7. CASE Restart
  BY <1>1, <1>7, RestartInv DEF Rest, IndexInv
<1>8. CASE Aside
  <2>0. UNCHANGED <<events, version, row, tables, lock, writer, work, pc, cur, st, through, batch>>
    BY <1>8, AsideStep
  <2>1. RowsIndexed'
    BY <2>0, RowsKept DEF IndexInv
  <2>2. LocksHeld' /\ ReadersApart'
    BY <2>0 DEF IndexInv, LocksHeld, ReadersApart, TurnIndexCurrent
  <2>3. BuildsRight'
    BY <2>0, BuildKept DEF IndexInv, BuildsRight
  <2> QED BY <1>1, <2>1, <2>2, <2>3 DEF IndexInv
<1> QED BY <1>2, <1>3, <1>4, <1>5, <1>6, <1>7, <1>8 DEF Next, Aside

\* IndexInv, the invariant the three theorems below follow from, always holds.
THEOREM InvInductive == ASSUME ~Rollback PROVE Spec => []IndexInv
<1>1. Init => IndexInv
  BY InvInit
<1>2. IndexInv /\ [Next]_vars => IndexInv'
  BY InvNext
<1> QED BY <1>1, <1>2, PTL DEF Spec

\* Whatever the interleaving of ingest, chunked builds, crashes and upgrades, a
\* session marked current has every event indexed in the turn it belongs to.
THEOREM IndexIsFaithful == ASSUME ~Rollback PROVE Spec => []IndexFaithful
<1>1. IndexInv => IndexFaithful
  <2> SUFFICES ASSUME IndexInv, NEW s \in Sessions, TurnIndexCurrent(s)
               PROVE  Faithful(events, version, s, tables[s], Len(events))
    BY DEF IndexFaithful
  <2> DEFINE n == row[s].through
  <2>1. /\ Indexed(events, version, s, tables[s], RowState(s), n) /\ After(events, s, n) = {}
    BY DEF IndexInv, RowsIndexed
  <2>2. n \in Nat /\ Len(events) \in Nat
    BY DEF IndexInv, TypeOK, SessionRow
  <2>3. \A e \in EventsOf(events, s) : e \in Nat /\ e <= Len(events) /\ e <= n
    BY <2>1, <2>2 DEF After, EventsOf, IndexInv, TypeOK
  <2>4. Covers(events, s, tables[s], Len(events))
    BY <2>1, <2>3 DEF Indexed, Faithful, Covers
  <2> QED BY <2>1, <2>4 DEF Indexed, Faithful
<1> QED BY <1>1, InvInductive, PTL

\* A page read past BuildTurnIndex never loses the index it is reading.
THEOREM ReadersSeeIndex == ASSUME ~Rollback PROVE Spec => []ReaderSeesIndex
<1>1. IndexInv => ReaderSeesIndex
  BY DEF IndexInv, ReadersApart, ReaderSeesIndex
<1> QED BY <1>1, InvInductive, PTL

\* Ingest is never refused because of what the index already holds.
THEOREM IngestIsClear == ASSUME ~Rollback PROVE Spec => []IngestNeverConflicts
<1>1. IndexInv => IngestNeverConflicts
  <2> SUFFICES ASSUME IndexInv, NEW ev \in Event, Len(events) + 1 \in Ids
               PROVE  LET s == ev.session
                          e == Len(events) + 1
                      IN  /\ TurnIndexCurrent(s) => ~Conflict(tables[s], RowState(s), e, ev)
                          /\ row[s] = NoRow /\ EventsOf(events, s) = {} =>
                               ~Conflict(tables[s], FreshState, e, ev)
    BY DEF IngestNeverConflicts
  <2> DEFINE s == ev.session
             e == Len(events) + 1
  <2>1. TypeOK /\ s \in Sessions /\ e \in Ids
    BY DEF IndexInv, Event
  <2>2. e \notin EventsOf(events, s)
    BY <2>1 DEF EventsOf, TypeOK
  <2>3. ASSUME NEW state \in State, NEW n, Indexed(events, version, s, tables[s], state, n)
        PROVE  ~Conflict(tables[s], state, e, ev)
    <3>1. tables[s] \in Tables
      BY <2>1 DEF TypeOK
    <3>2. tables[s].placed[e] = 0
      BY <2>1, <2>2, <2>3 DEF Indexed, Faithful, Covers
    <3>3. \A t \in TurnIds : tables[s].turns[t].seq # state.next
      BY <2>3, <3>1, UnusedNumber
    <3> QED BY <3>2, <3>3 DEF Conflict
  <2>4. TurnIndexCurrent(s) => ~Conflict(tables[s], RowState(s), e, ev)
    <3>1. RowState(s) \in State
      BY <2>1 DEF TypeOK, SessionRow, RowState, State
    <3> QED BY <2>1, <2>3, <3>1 DEF IndexInv, RowsIndexed
  <2>5. ASSUME row[s] = NoRow, EventsOf(events, s) = {} PROVE ~Conflict(tables[s], FreshState, e, ev)
    <3>1. tables[s] = EmptyTables /\ FreshState \in State
      BY <2>1, <2>5 DEF IndexInv, RowsIndexed, FreshState, State
    <3>2. Indexed(events, version, s, EmptyTables, FreshState, 0)
      BY <2>1, EventIds, EmptyIndexed DEF TypeOK
    <3> QED BY <2>3, <3>1, <3>2
  <2> QED BY <2>4, <2>5
<1> QED BY <1>1, InvInductive, PTL
-----------------------------------------------------------------------------
(***************************************************************************)
(* Holders and the backfill, for every deployment: neither needs the index *)
(* to be right, so both hold when a restart goes back to an older binary.  *)
(***************************************************************************)
\* A step that moves one process, and the lock of its session at most.
LEMMA LocksStep ==
  ASSUME TypeOK, LocksHeld, NEW p \in Procs,
         \A q \in Procs \ {p} : pc'[q] = pc[q] /\ cur'[q] = cur[q],
         pc'[p] \in Exclusive => lock'[cur'[p]] = p,
         \A s \in Sessions : lock'[s] = lock[s] \/ lock[s] \in {Nobody, p},
         \/ pc[p] \in InTx /\ pc'[p] \in InTx /\ writer' = writer
         \/ pc[p] \in InTx /\ pc'[p] \notin InTx /\ writer' = Nobody
         \/ pc[p] \notin InTx /\ pc'[p] \notin InTx /\ writer' = writer
         \/ pc[p] \notin InTx /\ pc'[p] \in InTx /\ writer = Nobody /\ writer' = p
  PROVE  LocksHeld'
<1>1. \A q \in Procs : q # Nobody /\ cur[q] \in Sessions
  BY NamesAssumption DEF TypeOK
<1>2. ASSUME NEW q \in Procs, pc'[q] \in Exclusive PROVE lock'[cur'[q]] = q
  <2>1. CASE q # p
    BY <1>1, <1>2, <2>1 DEF LocksHeld
  <2> QED BY <1>2, <2>1
<1>3. ASSUME NEW q \in Procs PROVE pc'[q] \in InTx <=> writer' = q
  <2>1. (pc[q] \in InTx <=> writer = q) /\ (pc[p] \in InTx <=> writer = p) /\ p # Nobody /\ q # Nobody
    BY <1>1 DEF LocksHeld
  <2>2. CASE q = p
    BY <2>1, <2>2
  <2>3. CASE q # p
    <3>1. pc'[q] = pc[q]
      BY <2>3
    <3> QED BY <2>1, <2>3, <3>1
  <2> QED BY <2>2, <2>3
<1> QED BY <1>2, <1>3 DEF LocksHeld

LEMMA LocksLeave ==
  ASSUME TypeOK, LocksHeld, NEW p \in Procs, pc[p] \in Exclusive, cur' = cur,
         NEW next \in {"idle", "reading", "failed"}, Leave(p, next),
         IF pc[p] \in InTx THEN writer' = Nobody ELSE writer' = writer
  PROVE  LocksHeld'
<1>1. cur[p] \in Sessions /\ lock[cur[p]] = p
  BY DEF TypeOK, LocksHeld
<1>2. /\ pc'[p] = next /\ next \notin Exclusive /\ next \notin InTx
      /\ \A q \in Procs \ {p} : pc'[q] = pc[q] /\ cur'[q] = cur[q]
      /\ \A s \in Sessions : lock'[s] = lock[s] \/ lock[s] = p
  BY <1>1 DEF Leave, Unlock, TypeOK, Exclusive, Building, InTx
<1> QED BY <1>1, <1>2, LocksStep

LEMMA LocksNext ==
  ASSUME TypeOK, LocksHeld, [Next]_vars
  PROVE  LocksHeld'
<1> USE DEF Exclusive, Building, InTx
<1>0. Backfill \in Procs /\ Readers \subseteq Procs
  BY DEF Procs
<1>1. CASE StoreEvent \/ Aside
  <2>1. UNCHANGED <<lock, writer, pc, cur>>
    BY <1>1, AsideStep DEF StoreEvent, StoreIndexed, StoreFirst, StoreUnindexed, InsertEvent, procVars
  <2> QED BY <2>1 DEF LocksHeld
<1>2. ASSUME NEW p \in Readers, NEW s \in Sessions, StartRead(p, s) PROVE LocksHeld'
  BY <1>0, <1>2, LocksStep DEF StartRead, TypeOK
<1>3. CASE BackfillList \/ \E s \in Sessions : BackfillNext(s)
  BY <1>0, <1>3, LocksStep DEF BackfillList, BackfillNext, TypeOK
<1>4. ASSUME NEW p \in Procs, Lock(p) \/ CheckCurrent(p) \/ DeletePartial(p) \/ ReadChunk(p) \/ Begin(p)
                              \/ (\E e \in DOMAIN events : PlaceEvent(p, e))
                              \/ CommitChunk(p) \/ MarkCurrent(p) \/ Answer(p)
      PROVE  LocksHeld'
  <2>0. cur[p] \in Sessions /\ (pc[p] \in Exclusive => lock[cur[p]] = p)
    BY DEF TypeOK, LocksHeld
  <2>1. CASE Lock(p)
    BY <2>0, <2>1, LocksStep DEF Lock, TypeOK
  <2>2. CASE CheckCurrent(p)
    <3>1. CASE TurnIndexCurrent(cur[p])
      BY <2>2, <3>1, LocksLeave DEF CheckCurrent, Return
    <3>2. CASE ~TurnIndexCurrent(cur[p])
      BY <2>0, <2>2, <3>2, LocksStep DEF CheckCurrent, TypeOK
    <3> QED BY <3>1, <3>2
  <2>3. CASE DeletePartial(p) \/ ReadChunk(p) \/ Begin(p) \/ CommitChunk(p)
    BY <2>0, <2>3, LocksStep DEF DeletePartial, ReadChunk, Begin, CommitChunk, Commit, EndTx, TypeOK
  <2>4. ASSUME NEW e \in DOMAIN events, PlaceEvent(p, e) PROVE LocksHeld'
    <3>1. CASE Conflict(work, st[p], e, events[e])
      BY <2>4, <3>1, LocksLeave DEF PlaceEvent, Abort, EndTx
    <3>2. CASE ~Conflict(work, st[p], e, events[e])
      BY <2>4, <3>2 DEF PlaceEvent, LocksHeld
    <3> QED BY <3>1, <3>2
  <2>5. CASE MarkCurrent(p)
    BY <2>5, LocksLeave DEF MarkCurrent, Abort, Commit, EndTx, Return
  <2>6. CASE Answer(p)
    BY <2>0, <2>6, LocksStep DEF Answer, TypeOK
  <2> QED BY <1>4, <2>1, <2>2, <2>3, <2>4, <2>5, <2>6
<1>5. CASE Restart
  BY <1>5, NamesAssumption DEF Restart, LocksHeld
<1> QED BY <1>1, <1>2, <1>3, <1>4, <1>5 DEF Next, Build, Aside

\* A step of another process: what it writes is of a session q does not hold, or in a
\* transaction q does not have.
LEMMA FreeKept ==
  ASSUME NEW q \in Procs, FreeBuild(q), UNCHANGED <<events, version>>,
         pc'[q] = pc[q], cur'[q] = cur[q],
         st'[q] = st[q], through'[q] = through[q], batch'[q] = batch[q],
         pc[q] \in Building => row'[cur[q]] = row[cur[q]] /\ tables'[cur[q]] = tables[cur[q]],
         pc[q] \in InTx => work' = work
  PROVE  FreeBuild(q)'
  BY DEF FreeBuild, BatchRight, Seen

LEMMA OthersFree ==
  ASSUME FreeInv, NEW p \in Procs, Build(p), NEW q \in Procs \ {p}
  PROVE  FreeBuild(q)'
<1>1. /\ TypeOK /\ LocksHeld /\ FreeBuild(q) /\ cur[p] \in Sessions
      /\ cur[q] \in Sessions /\ Building \subseteq Exclusive /\ InTx \subseteq Exclusive
  BY DEF FreeInv, TypeOK, Exclusive, Building
<1>2. /\ pc[p] \in Exclusive /\ pc[q] \in Exclusive => cur[q] # cur[p]
      /\ pc[p] \in InTx => pc[q] \notin InTx
      /\ writer = Nobody => pc[q] \notin InTx
  BY <1>1, Apart, NamesAssumption DEF LocksHeld
<1> USE <1>1, <1>2, FreeKept DEF TypeOK
<1>3. CASE Lock(p) \/ ReadChunk(p)
  BY <1>3 DEF Lock, ReadChunk
<1>4. CASE CheckCurrent(p)
  BY <1>4 DEF CheckCurrent, Return, Leave
<1>5. CASE DeletePartial(p)
  BY <1>5 DEF DeletePartial, Exclusive
<1>6. CASE Begin(p)
  BY <1>6 DEF Begin
<1>7. ASSUME NEW e \in DOMAIN events, PlaceEvent(p, e) PROVE FreeBuild(q)'
  BY <1>7 DEF PlaceEvent, Abort, EndTx, Leave, InTx
<1>8. CASE CommitChunk(p)
  BY <1>8 DEF CommitChunk, Commit, EndTx, InTx
<1>9. CASE MarkCurrent(p)
  BY <1>9 DEF MarkCurrent, Abort, Commit, EndTx, Return, Leave, InTx
<1> QED BY <1>3, <1>4, <1>5, <1>6, <1>7, <1>8, <1>9 DEF Build

\* What ingest does to a row: it leaves it alone, or makes it current with the new event.
LEMMA IngestRows ==
  ASSUME TypeOK, StoreEvent
  PROVE  /\ \E ev \in Event : events' = Append(events, ev)
         /\ Len(events) < MaxEvents /\ writer = Nobody
         /\ UNCHANGED <<version, lock, writer, work, pc, cur, st, through, batch, todo, projected>>
         /\ \A c : EventsOf(events, c) \subseteq EventsOf(events', c)
         /\ \A c \in seeding' \ seeding : EventsOf(events', c) # {}
         /\ \A c \in Sessions :
              \/ row'[c] = row[c] /\ tables'[c] = tables[c]
                 /\ (EventsOf(events', c) # EventsOf(events, c) =>
                        IF row[c] = NoRow THEN EventsOf(events, c) # {} ELSE ~TurnIndexCurrent(c))
              \/ /\ TurnIndexCurrent(c)' /\ row'[c] # NoRow /\ EventsOf(events', c) # {}
                 /\ row[c] = NoRow => EventsOf(events, c) = {}
<1>1. PICK ev \in Event : LET s == ev.session IN
        StoreIndexed(s, ev) \/ StoreFirst(s, ev) \/ StoreUnindexed(s, ev)
  BY DEF StoreEvent
<1> DEFINE s == ev.session
           n == Len(events) + 1
<1>2. s \in Sessions /\ events \in Seq(Event) /\ version # 0
  BY VersionNat DEF TypeOK, Event
<1>3. /\ events' = Append(events, ev) /\ Len(events) < MaxEvents /\ writer = Nobody
      /\ UNCHANGED <<version, lock, writer, work, pc, cur, st, through, batch, todo, projected>>
      /\ seeding' \subseteq seeding \cup {s}
  BY <1>1 DEF StoreIndexed, StoreFirst, StoreUnindexed, InsertEvent, procVars
<1>4. /\ \A c : EventsOf(events, c) \subseteq EventsOf(events', c)
      /\ \A c : c # s => EventsOf(events', c) = EventsOf(events, c)
      /\ n \in EventsOf(events', s)
  BY <1>2, <1>3 DEF EventsOf
<1>5. ASSUME NEW c \in Sessions, c # s PROVE row'[c] = row[c] /\ tables'[c] = tables[c]
  BY <1>1, <1>5 DEF StoreIndexed, StoreFirst, StoreUnindexed, IndexInserted, TypeOK
<1>6. CASE StoreUnindexed(s, ev)
  BY <1>3, <1>4, <1>5, <1>6 DEF StoreUnindexed
<1>7. CASE StoreIndexed(s, ev) \/ StoreFirst(s, ev)
  <2>1. row'[s].version = version
    BY <1>2, <1>7 DEF StoreIndexed, StoreFirst, IndexInserted, TypeOK
  <2>2. TurnIndexCurrent(s)' /\ row'[s] # NoRow
    BY <1>2, <1>3, <2>1 DEF TurnIndexCurrent, NoRow
  <2>3. row[s] = NoRow => EventsOf(events, s) = {}
    BY <1>2, <1>7, CurrentRow DEF StoreIndexed, StoreFirst
  <2> QED BY <1>3, <1>4, <1>5, <2>2, <2>3
<1> QED BY <1>1, <1>6, <1>7

\* Ingest adds an event, and leaves no build without a row but as it was.
LEMMA IngestFree ==
  ASSUME FreeInv, StoreEvent, NEW q \in Procs
  PROVE  FreeBuild(q)'
<1> DEFINE c == cur[q]
<1>1. /\ TypeOK /\ c \in Sessions /\ events \in Seq(Event) /\ version \in Versions
      /\ st[q] \in State /\ through[q] \in Nat /\ tables[c] \in Tables /\ FreeBuild(q)
  BY DEF FreeInv, TypeOK
<1>2. /\ Len(events) < MaxEvents /\ writer = Nobody
      /\ UNCHANGED <<version, lock, writer, work, pc, cur, st, through, batch, todo>>
      /\ (row'[c] = row[c] /\ tables'[c] = tables[c]) \/ row'[c] # NoRow
  BY <1>1, IngestRows
<1>3. PICK ev \in Event : events' = Append(events, ev)
  BY <1>1, IngestRows
<1>4. pc[q] \notin InTx
  BY <1>1, <1>2, NamesAssumption DEF FreeInv, LocksHeld
<1>5. CASE pc[q] \notin Building \/ row'[c] # NoRow
  BY <1>1, <1>2, <1>5 DEF FreeBuild, Building
<1>6. CASE pc[q] \in Building /\ row'[c] = NoRow
  <2>1. row[c] = NoRow /\ tables'[c] = tables[c]
    BY <1>2, <1>6
  <2>2. Indexed(events, version, c, tables[c], st[q], through[q]) /\ BatchRight(q)
    BY <1>1, <1>4, <1>6, <2>1 DEF FreeBuild, Seen
  <2>3. Indexed(events', version, c, tables[c], st[q], through[q])
    BY <1>1, <1>2, <1>3, <2>2, AppendFrame
  <2>4. Seen(q)' = tables[c]
    BY <1>2, <1>4, <2>1 DEF Seen
  <2>5. BatchRight(q)'
    <3> SUFFICES ASSUME pc[q] \in {"begin", "chunk"}, NEW e \in batch[q]
                 PROVE  /\ e \in EventsOf(events', c)
                        /\ \A f \in After(events', c, through[q]) : f < e => f \in batch[q]
      BY <1>2 DEF BatchRight
    <3>1. /\ e \in EventsOf(events, c) /\ e \in Nat /\ e <= Len(events)
          /\ \A f \in After(events, c, through[q]) : f < e => f \in batch[q]
      BY <1>1, <2>2 DEF BatchRight, EventsOf
    <3>2. /\ EventsOf(events, c) \subseteq EventsOf(events', c)
          /\ \A x \in EventsOf(events', c) : x \in EventsOf(events, c) \/ x = Len(events) + 1
      BY <1>1, <1>3 DEF EventsOf
    <3>3. ASSUME NEW f \in After(events', c, through[q]), f < e PROVE f \in batch[q]
      <4>1. f # Len(events) + 1
        BY <1>1, <3>1, <3>3
      <4>2. f \in After(events, c, through[q])
        BY <3>2, <3>3, <4>1 DEF After
      <4> QED BY <3>1, <3>3, <4>2
    <3> QED BY <3>1, <3>2, <3>3
  <2> QED BY <1>2, <1>6, <2>3, <2>4, <2>5 DEF FreeBuild
<1> QED BY <1>5, <1>6

\* A build's own step; without a row it does not fail, and its end is an event's.
LEMMA OwnFree ==
  ASSUME FreeInv, NEW p \in Procs, Build(p)
  PROVE  /\ FreeBuild(p)'
         /\ pc[p] \in Building /\ row[cur[p]] = NoRow =>
              /\ pc'[p] # "failed"
              /\ pc'[p] \notin Building => MarkCurrent(p)
              /\ through[p] = 0 \/ EventsOf(events, cur[p]) # {}
<1> DEFINE s == cur[p]
           Free == pc[p] \in Building /\ row[s] = NoRow
           Fails == pc'[p] = "failed"
           Ends == pc'[p] \notin Building => MarkCurrent(p)
<1>1. /\ TypeOK /\ LocksHeld /\ FreeBuild(p) /\ s \in Sessions
      /\ events \in Seq(Event) /\ Len(events) <= MaxEvents /\ version \in Versions
      /\ work \in Tables /\ st[p] \in State /\ through[p] \in Nat
  BY BoundsAssumption DEF FreeInv, TypeOK
<1>2. Free => Indexed(events, version, s, Seen(p), st[p], through[p]) /\ BatchRight(p)
  BY <1>1 DEF FreeBuild
<1>3. Free => through[p] = 0 \/ EventsOf(events, s) # {}
  BY <1>2 DEF Indexed, StateRight
<1>4. CASE Lock(p)
  BY <1>1, <1>4 DEF Lock, TypeOK, FreeBuild, Building, InTx
<1>5. CASE CheckCurrent(p)
  BY <1>1, <1>5 DEF CheckCurrent, Return, Leave, TypeOK, FreeBuild, Building, InTx
<1>6. CASE DeletePartial(p)
  <2>1. /\ pc[p] = "delete" /\ pc'[p] = "read" /\ row'[s] = NoRow /\ tables'[s] = EmptyTables
        /\ st'[p] = FreshState /\ through'[p] = 0
        /\ UNCHANGED <<events, version, cur>>
    BY <1>1, <1>6 DEF DeletePartial, TypeOK, FreeBuild, Building, InTx
  <2>2. Indexed(events, version, s, EmptyTables, FreshState, 0)
    BY <1>1, EventIds, EmptyIndexed
  <2>3. Seen(p)' = EmptyTables /\ BatchRight(p)'
    BY <2>1 DEF Seen, BatchRight, InTx
  <2> QED BY <2>1, <2>2, <2>3 DEF FreeBuild, Building, InTx
<1>7. CASE ReadChunk(p)
  <2> DEFINE b == ReadEventTurnFields(s, through[p], Chunk)
  <2>1. /\ pc[p] = "read" /\ pc'[p] \in {"begin", "beginfinal"}
        /\ pc'[p] = "begin" => batch'[p] = b
        /\ UNCHANGED <<events, version, row, tables, st, through, cur>>
    BY <1>1, <1>7 DEF ReadChunk, TypeOK
  <2>2. \A e \in b : \A f \in After(events, s, through[p]) : f < e => f \in b
    BY <1>1, ChunkWithoutGap
  <2>3. b \subseteq EventsOf(events, s)
    BY DEF ReadEventTurnFields, After
  <2>4. BatchRight(p)'
    BY <2>1, <2>2, <2>3 DEF BatchRight
  <2>5. Seen(p)' = Seen(p) /\ pc[p] \in Building /\ pc'[p] \in Building
    BY <2>1 DEF Seen, InTx, Building
  <2> QED BY <1>2, <1>3, <2>1, <2>4, <2>5 DEF FreeBuild
<1>8. CASE Begin(p)
  <2>1. /\ pc[p] \in {"begin", "beginfinal"}
        /\ pc'[p] = IF pc[p] = "begin" THEN "chunk" ELSE "final"
        /\ work' = tables[s]
        /\ UNCHANGED <<events, version, row, tables, st, through, batch, cur>>
    BY <1>1, <1>8 DEF Begin, TypeOK
  <2>2. Seen(p)' = Seen(p) /\ pc[p] \in Building /\ pc'[p] \in Building /\ pc'[p] # "failed"
    BY <2>1 DEF Seen, InTx, Building
  <2>3. Free => BatchRight(p)'
    BY <1>2, <2>1 DEF BatchRight
  <2> QED BY <1>2, <1>3, <2>1, <2>2, <2>3 DEF FreeBuild
<1>9. ASSUME NEW e \in DOMAIN events, PlaceEvent(p, e) PROVE FreeBuild(p)' /\ (Free => ~Fails /\ Ends)
  <2>1. pc[p] \in InTx /\ e \in Left(p) /\ \A f \in Left(p) : e <= f
    BY <1>9 DEF PlaceEvent, InTx
  <2>2. CASE row[s] # NoRow
    <3>1. row'[s] # NoRow /\ cur'[p] = s
      BY <1>9, <2>2 DEF PlaceEvent
    <3>2. pc'[p] \in Building \/ (st'[p] = FreshState /\ through'[p] = 0)
      BY <1>1, <1>9, <2>1 DEF PlaceEvent, Abort, Leave, TypeOK, Building
    <3> QED BY <2>2, <3>1, <3>2 DEF FreeBuild, PlaceEvent, Abort, Leave, Building
  <2>3. CASE row[s] = NoRow
    <3>1. Free /\ BatchRight(p) /\ Indexed(events, version, s, work, st[p], through[p])
      BY <1>2, <2>1, <2>3 DEF Seen, Building
    <3>2. /\ e \in After(events, s, through[p])
          /\ \A f \in After(events, s, through[p]) : e <= f
      BY <1>1, <2>1, <3>1, LeftIsNext
    <3>3. /\ ~Conflict(work, st[p], e, events[e])
          /\ Indexed(events, version, s, WriteTables(version, work, st[p], e, events[e]),
                     WriteState(work, st[p], e, events[e]), e)
      BY <1>1, <3>1, <3>2, PlaceNext
    <3>4. /\ work' = WriteTables(version, work, st[p], e, events[e])
          /\ st'[p] = WriteState(work, st[p], e, events[e]) /\ through'[p] = e
          /\ UNCHANGED <<pc, events, version, row, tables, batch, cur>>
      BY <1>1, <1>9, <3>3 DEF PlaceEvent, TypeOK
    <3>5. \A f \in After(events, s, e) : f \in After(events, s, through[p])
      BY <1>1, <3>2, EventIds DEF After
    <3>6. BatchRight(p)' /\ Seen(p)' = work'
      BY <2>1, <3>1, <3>4, <3>5 DEF BatchRight, Seen
    <3> QED BY <2>1, <3>1, <3>3, <3>4, <3>6 DEF FreeBuild, Building, InTx
  <2> QED BY <2>2, <2>3
<1>10. CASE CommitChunk(p)
  <2>1. /\ pc[p] = "chunk" /\ pc'[p] = "read" /\ tables'[s] = work
        /\ UNCHANGED <<events, version, row, st, through, cur>>
    BY <1>1, <1>10 DEF CommitChunk, Commit, TypeOK
  <2>2. Seen(p)' = Seen(p) /\ BatchRight(p)'
    BY <2>1 DEF Seen, BatchRight, InTx
  <2> QED BY <1>2, <1>3, <2>1, <2>2 DEF FreeBuild, Building, InTx
<1>11. CASE MarkCurrent(p)
  BY <1>1, <1>3, <1>11 DEF MarkCurrent, Abort, Return, Leave, TypeOK, FreeBuild, Building, InTx
<1> QED BY <1>3, <1>4, <1>5, <1>6, <1>7, <1>8, <1>9, <1>10, <1>11 DEF Build, Building, InTx

LEMMA FreeNext == FreeInv /\ [Next]_vars => FreeInv'
<1> SUFFICES ASSUME FreeInv, [Next]_vars, NEW q \in Procs PROVE FreeBuild(q)'
  BY NextType, LocksNext DEF FreeInv
<1>1. TypeOK /\ FreeBuild(q)
  BY DEF FreeInv
<1>2. CASE StoreEvent
  BY <1>2, IngestFree
<1>3. ASSUME NEW p \in Procs, Build(p) PROVE FreeBuild(q)'
  BY <1>3, OthersFree, OwnFree
<1>4. CASE \/ \E p \in Readers, s \in Sessions : StartRead(p, s)
           \/ BackfillList \/ \E s \in Sessions : BackfillNext(s)
           \/ \E p \in Procs : Answer(p)
  <2>1. /\ UNCHANGED <<events, version, row, tables, work, st, through, batch>>
        /\ \/ pc'[q] = pc[q] /\ cur'[q] = cur[q]
           \/ pc[q] \notin Building /\ pc'[q] \notin Building
    BY <1>1, <1>4 DEF StartRead, BackfillList, BackfillNext, Answer, TypeOK, Building, InTx, Procs
  <2> QED BY <1>1, <2>1, FreeKept DEF FreeBuild
<1>5. CASE Restart
  BY <1>5 DEF Restart, FreeBuild, Building, InTx
<1>6. CASE Aside
  BY <1>1, <1>6, AsideStep, FreeKept
<1> QED BY <1>2, <1>3, <1>4, <1>5, <1>6 DEF Next, Aside

\* A row keeps ending at an event of its session.
LEMMA RowsStayBegun ==
  ASSUME FreeInv, RowsBegun, [Next]_vars
  PROVE  RowsBegun'
<1> SUFFICES ASSUME NEW s \in Sessions PROVE row'[s].through = 0 \/ EventsOf(events', s) # {}
  BY DEF RowsBegun
<1>1. TypeOK /\ (row[s].through = 0 \/ EventsOf(events, s) # {}) /\ NoRow.through = 0
  BY DEF FreeInv, RowsBegun, NoRow
<1>2. CASE StoreEvent
  BY <1>1, <1>2, IngestRows
<1>3. ASSUME NEW p \in Procs, Build(p) PROVE row'[s].through = 0 \/ EventsOf(events', s) # {}
  <2>1. CASE DeletePartial(p)
    BY <1>1, <2>1 DEF DeletePartial, TypeOK
  <2>2. CASE MarkCurrent(p)
    <3>1. row[cur[p]] = NoRow => through[p] = 0 \/ EventsOf(events, cur[p]) # {}
      BY <1>3, <2>2, OwnFree DEF MarkCurrent, Building, InTx
    <3>2. CASE row[cur[p]] = NoRow
      <4>1. row'[s].through = IF s = cur[p] THEN through[p] ELSE row[s].through
        BY <1>1, <2>2, <3>2 DEF MarkCurrent, TypeOK
      <4> QED BY <1>1, <2>2, <3>1, <3>2, <4>1 DEF MarkCurrent
    <3>3. CASE row[cur[p]] # NoRow
      BY <1>1, <2>2, <3>3 DEF MarkCurrent
    <3> QED BY <3>2, <3>3
  <2>3. CASE UNCHANGED <<events, row>>
    BY <1>1, <2>3
  <2> QED BY <1>3, <2>1, <2>2, <2>3
          DEF Build, Lock, CheckCurrent, ReadChunk, Begin, PlaceEvent, CommitChunk
<1>4. CASE UNCHANGED <<events, row>>
  BY <1>1, <1>4
<1> QED BY <1>2, <1>3, <1>4, AsideStep DEF Next, Aside, StartRead, BackfillList, BackfillNext, Answer, Restart

\* What a build leaves of a session's index, in the order it leaves it.
LEMMA BuildKeeps ==
  ASSUME FreeInv, NEW p \in Readers, Build(p), NEW s \in Sessions, Kept(s)
  PROVE  Kept(s)'
<1> SUFFICES ASSUME EventsOf(events', s) # {} PROVE Kept(s)'
  BY DEF Kept
<1>1. /\ TypeOK /\ p \in Procs /\ Readers \subseteq Procs /\ cur[p] \in Sessions
      /\ UNCHANGED <<events, version, cur>> /\ \A q \in Procs \ {p} : pc'[q] = pc[q]
  BY DEF FreeInv, TypeOK, Procs, Build, Lock, CheckCurrent, Return, Leave, DeletePartial, ReadChunk,
         Begin, PlaceEvent, Abort, CommitChunk, MarkCurrent
<1>2. CASE DeletePartial(p) /\ cur[p] = s
  <2>1. row'[s] = NoRow /\ pc'[p] \in Building
    BY <1>1, <1>2 DEF DeletePartial, TypeOK, Building
  <2> QED BY <1>1, <1>2, <2>1 DEF Kept
<1>3. CASE MarkCurrent(p) /\ cur[p] = s /\ row[s] = NoRow
  <2>1. row'[s].version = version
    BY <1>1, <1>3 DEF MarkCurrent, TypeOK
  <2> QED BY <1>1, <2>1 DEF Kept, TurnIndexCurrent
<1>4. CASE ~(DeletePartial(p) /\ cur[p] = s) /\ ~(MarkCurrent(p) /\ cur[p] = s /\ row[s] = NoRow)
  <2>1. row'[s] = row[s]
    BY <1>1, <1>4 DEF Build, Lock, CheckCurrent, DeletePartial, ReadChunk, Begin, PlaceEvent,
                      CommitChunk, MarkCurrent, TypeOK
  <2>2. CASE row[s] = NoRow /\ \E q \in Readers : pc[q] \in Building /\ cur[q] = s
    <3>1. PICK q \in Readers : pc[q] \in Building /\ cur[q] = s
      BY <2>2
    <3>2. pc'[q] \in Building
      BY <1>1, <1>4, <2>2, <3>1, OwnFree
    <3> QED BY <1>1, <2>1, <2>2, <3>1, <3>2 DEF Kept
  <2> QED BY <1>1, <2>1, <2>2 DEF Kept, TurnIndexCurrent
<1> QED BY <1>2, <1>3, <1>4

\* Nobody but the backfill takes a session it has to pass by, or has passed by, away:
\* one that is not in the sessions table, and every one once the pass is over.
Passed(s) == pc[Backfill] = "done" \/ s \notin projected

LEMMA PassedStays ==
  ASSUME BackfillInv, [Next]_vars, NEW s \in Sessions, Passed(s)'
  PROVE  Kept(s)'
<1>1. /\ TypeOK /\ FreeInv /\ Backfill \in Procs /\ Backfill \notin Readers /\ Readers \subseteq Procs
      /\ row[s].through = 0 \/ EventsOf(events, s) # {}
      /\ Passed(s) => Kept(s)
      /\ pc[Backfill] \in Exclusive \cup {"lock"} => cur[Backfill] \in projected
  BY NamesAssumption DEF BackfillInv, FreeInv, RowsBegun, BackfillRight, BackfillLeavesNone, Procs,
                         Unhindered, Passed
<1>2. CASE StoreEvent
  <2>1. Kept(s) /\ UNCHANGED <<version, pc, cur>>
    BY <1>1, <1>2, IngestRows DEF Passed
  <2> QED BY <1>1, <1>2, <2>1, IngestRows DEF Kept, TurnIndexCurrent
<1>3. CASE BackfillList
  <2>1. /\ UNCHANGED <<events, version, row, cur, projected>> /\ pc[Backfill] = "idle"
        /\ \A q \in Readers : pc'[q] = pc[q]
    BY <1>1, <1>3 DEF BackfillList, TypeOK
  <2>2. CASE s \in projected
    <3>1. ~Awaiting(s)
      BY <1>1, <1>3, <2>1, <2>2 DEF BackfillList, TypeOK, Passed
    <3> QED BY <2>1, <2>2, <3>1 DEF Kept, Awaiting, TurnIndexCurrent
  <2>3. CASE s \notin projected
    BY <1>1, <2>1, <2>3 DEF Kept, TurnIndexCurrent, Passed
  <2> QED BY <2>2, <2>3
<1>4. ASSUME NEW p \in Procs, Build(p) PROVE Kept(s)'
  <2>1. pc'[Backfill] = "done" => p # Backfill /\ pc[Backfill] = "done"
    BY <1>1, <1>4 DEF Build, Lock, CheckCurrent, Return, Leave, DeletePartial, ReadChunk, Begin,
                      PlaceEvent, Abort, CommitChunk, MarkCurrent, TypeOK
  <2>2. projected' = projected
    BY <1>4 DEF Build, Lock, CheckCurrent, DeletePartial, ReadChunk, Begin,
                PlaceEvent, CommitChunk, MarkCurrent
  <2>3. Kept(s)
    BY <1>1, <2>1, <2>2 DEF Passed
  <2>4. CASE p \in Readers
    BY <1>1, <1>4, <2>3, <2>4, BuildKeeps
  <2>5. CASE p = Backfill
    <3>1. s \notin projected /\ cur[Backfill] # s
      <4>1. pc[Backfill] \in Exclusive \cup {"lock"}
        BY <1>4, <2>5 DEF Build, Lock, CheckCurrent, DeletePartial, ReadChunk, Begin, PlaceEvent,
                          CommitChunk, MarkCurrent, Exclusive, Building, InTx
      <4> QED BY <1>1, <2>1, <2>2, <2>5, <4>1 DEF Passed
    <3>2. /\ UNCHANGED <<events, version, cur>> /\ row'[s] = row[s]
          /\ \A q \in Readers : pc'[q] = pc[q]
      BY <1>1, <1>4, <2>5, <3>1 DEF Build, Lock, CheckCurrent, Return, Leave, DeletePartial, ReadChunk,
                Begin, PlaceEvent, Abort, CommitChunk, MarkCurrent, TypeOK
    <3> QED BY <2>3, <3>2 DEF Kept, TurnIndexCurrent
  <2> QED BY <2>4, <2>5 DEF Procs
<1>5. CASE (\E p \in Readers, c \in Sessions : StartRead(p, c)) \/ \E p \in Procs : Answer(p)
  <2>1. /\ UNCHANGED <<events, version, row, projected>> /\ pc'[Backfill] = pc[Backfill]
        /\ \A q \in Procs : pc[q] \in Building => pc'[q] = pc[q] /\ cur'[q] = cur[q]
    BY <1>1, <1>5 DEF StartRead, Answer, TypeOK, Building, InTx
  <2> QED BY <1>1, <2>1 DEF Kept, TurnIndexCurrent, Passed
<1>6. CASE Restart
  <2>1. pc'[Backfill] = "idle" /\ events' = events /\ WithEvents \subseteq projected'
    BY <1>1, <1>6 DEF Restart
  <2> QED BY <2>1 DEF Passed, Kept, WithEvents
<1>7. CASE \E c \in Sessions : BackfillNext(c)
  <2>1. /\ UNCHANGED <<events, version, row, projected>> /\ pc'[Backfill] = "lock"
        /\ \A q \in Readers : pc'[q] = pc[q] /\ cur'[q] = cur[q]
    BY <1>1, <1>7 DEF BackfillNext, TypeOK
  <2> QED BY <1>1, <2>1 DEF Kept, TurnIndexCurrent, Passed
<1>8. CASE Aside
  <2>1. projected \subseteq projected'
    BY <1>8 DEF Aside, Seed, SeedFails, vars
  <2>2. Passed(s)
    BY <1>8, <2>1, AsideStep DEF Passed
  <2> QED BY <1>1, <1>8, <2>2, AsideStep DEF Kept, TurnIndexCurrent
<1> QED BY <1>2, <1>3, <1>4, <1>5, <1>6, <1>7, <1>8 DEF Next, Aside

LEMMA BackfillBuilds ==
  ASSUME FreeInv, Unhindered, NEW p \in Procs, Build(p)
  PROVE  Unhindered'
<1>1. /\ TypeOK /\ LocksHeld /\ Backfill \in Procs /\ UNCHANGED <<events, cur, todo, projected, seeding>>
      /\ cur[p] \in Sessions /\ cur[Backfill] \in Sessions
  BY DEF FreeInv, TypeOK, Procs, Build, Lock, CheckCurrent, DeletePartial, ReadChunk,
         Begin, PlaceEvent, CommitChunk, MarkCurrent
<1>2. CASE p # Backfill
  <2>1. pc'[Backfill] = pc[Backfill]
    BY <1>1, <1>2 DEF TypeOK, Build, Lock, CheckCurrent, Return, Leave, DeletePartial, ReadChunk,
         Begin, PlaceEvent, Abort, CommitChunk, MarkCurrent
  <2>2. pc[p] \in Exclusive /\ pc[Backfill] \in Exclusive => cur[Backfill] # cur[p]
    BY <1>1, <1>2, Apart
  <2>3. pc[Backfill] \in Building => row'[cur[Backfill]] = row[cur[Backfill]]
    BY <1>1, <2>2 DEF TypeOK, Build, Lock, CheckCurrent, DeletePartial, ReadChunk,
         Begin, PlaceEvent, CommitChunk, MarkCurrent, Exclusive, Building, InTx
  <2> QED BY <1>1, <2>1, <2>3 DEF Unhindered, BackfillNeverFails, WithEvents
<1>3. CASE p = Backfill
  <2>0. /\ projected' \cup seeding' \subseteq WithEvents' /\ todo' \subseteq projected'
        /\ cur'[Backfill] \in projected'
    <3>1. pc[p] \in Exclusive \cup {"lock"}
      BY DEF Build, Lock, CheckCurrent, DeletePartial, ReadChunk, Begin, PlaceEvent, CommitChunk,
             MarkCurrent, Exclusive, Building, InTx
    <3> QED BY <1>1, <1>3, <3>1 DEF Unhindered, WithEvents
  <2>1. pc[p] \in Building => row[cur[p]] = NoRow /\ pc'[p] # "failed"
    BY <1>3, OwnFree DEF Unhindered
  <2>2. CASE pc[p] \in Building
    <3>1. pc'[p] \in Building => row'[cur[p]] = row[cur[p]]
      BY <1>1, <2>2 DEF TypeOK, Build, Lock, CheckCurrent, DeletePartial, ReadChunk, Begin,
           PlaceEvent, CommitChunk, MarkCurrent, Return, Leave, Abort, Building, InTx
    <3> QED BY <1>1, <1>3, <2>0, <2>1, <2>2, <3>1 DEF Unhindered, BackfillNeverFails
  <2>3. CASE pc[p] \notin Building
    <3>1. CASE Lock(p) \/ CheckCurrent(p)
      <4>1. pc'[p] \notin Building \cup {"failed"}
        BY <1>1, <1>3, <3>1 DEF Lock, CheckCurrent, Return, Leave, TypeOK, Building, InTx
      <4> QED BY <1>3, <2>0, <4>1 DEF Unhindered, BackfillNeverFails
    <3>2. CASE DeletePartial(p)
      <4>1. pc'[p] = "read" /\ row'[cur'[p]] = NoRow
        BY <1>1, <3>2 DEF DeletePartial, TypeOK
      <4> QED BY <1>3, <2>0, <4>1 DEF Unhindered, BackfillNeverFails
    <3> QED BY <2>3, <3>1, <3>2 DEF Build, ReadChunk, Begin, PlaceEvent, CommitChunk,
                                    MarkCurrent, Building, InTx
  <2> QED BY <2>2, <2>3
<1> QED BY <1>2, <1>3

LEMMA BackfillNoFail ==
  ASSUME FreeInv, Unhindered, [Next]_vars
  PROVE  Unhindered'
<1>1. TypeOK /\ Backfill \in Procs /\ Backfill \notin Readers /\ cur[Backfill] \in Sessions
  BY NamesAssumption DEF FreeInv, TypeOK, Procs
<1>2. CASE StoreEvent
  <2>1. /\ UNCHANGED <<pc, cur, todo, projected>>
        /\ \A c : EventsOf(events, c) \subseteq EventsOf(events', c)
    BY <1>1, <1>2, IngestRows
  <2>2. projected' \cup seeding' \subseteq WithEvents'
    <3>1. seeding' \subseteq Sessions /\ \A c \in seeding' \ seeding : EventsOf(events', c) # {}
      BY <1>1, <1>2, IngestRows, NextType DEF Next, TypeOK
    <3> QED BY <2>1, <3>1 DEF Unhindered, WithEvents
  <2>3. pc[Backfill] \in Building => row'[cur[Backfill]] = NoRow
    BY <1>1, <1>2, IngestRows, CurrentRow DEF Unhindered, Exclusive, WithEvents
  <2> QED BY <2>1, <2>2, <2>3 DEF Unhindered, BackfillNeverFails
<1>3. CASE BackfillList \/ \E s \in Sessions : BackfillNext(s)
  <2>1. /\ UNCHANGED <<events, projected, seeding>> /\ todo' \subseteq projected
        /\ pc'[Backfill] \in {"idle", "done", "lock"}
        /\ pc'[Backfill] = "lock" => cur'[Backfill] \in projected
    BY <1>1, <1>3 DEF BackfillList, BackfillNext, Awaiting, Unhindered, TypeOK
  <2> QED BY <2>1 DEF Unhindered, BackfillNeverFails, WithEvents, Exclusive, Building, InTx
<1>4. ASSUME NEW p \in Procs, Build(p) PROVE Unhindered'
  BY <1>4, BackfillBuilds
<1>5. CASE (\E p \in Readers, c \in Sessions : StartRead(p, c)) \/ \E p \in Procs : Answer(p)
  <2>1. /\ UNCHANGED <<events, row, todo, projected, seeding>>
        /\ pc'[Backfill] = pc[Backfill] /\ cur'[Backfill] = cur[Backfill]
    BY <1>1, <1>5 DEF StartRead, Answer, TypeOK
  <2> QED BY <2>1 DEF Unhindered, BackfillNeverFails, WithEvents
<1>6. CASE Restart
  BY <1>1, <1>6 DEF Restart, Unhindered, BackfillNeverFails, WithEvents, Exclusive, Building, InTx
<1>7. CASE Aside
  <2>1. projected \subseteq projected' /\ projected' \cup seeding' \subseteq projected \cup seeding
    BY <1>7 DEF Aside, Seed, SeedFails, vars
  <2>2. WithEvents' = WithEvents
    BY <1>7, AsideStep DEF WithEvents
  <2> QED BY <1>7, <2>1, <2>2, AsideStep DEF Unhindered, BackfillNeverFails
<1> QED BY <1>2, <1>3, <1>4, <1>5, <1>6, <1>7 DEF Next, Aside

LEMMA BackfillInvariant == Spec => []BackfillInv
<1>1. Init => BackfillInv
  <2> SUFFICES ASSUME Init PROVE LocksHeld /\ (\A p \in Procs : FreeBuild(p)) /\ RowsBegun /\ BackfillRight
    BY InitType DEF BackfillInv, FreeInv
  <2>1. LocksHeld
    BY NamesAssumption DEF Init, LocksHeld, Exclusive, Building, InTx
  <2>2. (\A p \in Procs : FreeBuild(p)) /\ RowsBegun
    BY DEF Init, FreeBuild, Building, InTx, RowsBegun, NoRow
  <2>3. BackfillRight
    BY DEF Init, Procs, BackfillRight, Unhindered, BackfillNeverFails, BackfillLeavesNone, Kept,
           WithEvents, Exclusive, Building, InTx
  <2> QED BY <2>1, <2>2, <2>3
<1>2. BackfillInv /\ [Next]_vars => BackfillInv'
  <2> SUFFICES ASSUME BackfillInv, [Next]_vars PROVE BackfillInv'
    OBVIOUS
  <2>1. FreeInv' /\ RowsBegun'
    BY FreeNext, RowsStayBegun DEF BackfillInv
  <2>2. Unhindered'
    BY BackfillNoFail DEF BackfillInv, BackfillRight
  <2>3. \A s \in Sessions : Passed(s)' => Kept(s)'
    BY PassedStays
  <2> QED BY <2>1, <2>2, <2>3 DEF BackfillInv, BackfillRight, BackfillLeavesNone, Passed
<1> QED BY <1>1, <1>2, PTL DEF Spec

\* Nobody deletes or builds a session's index while another does, and one
\* transaction is open at a time, whatever crashes and restarts come between.
THEOREM HoldersHeld == Spec => []LocksHeld
<1>1. Init => LocksHeld
  BY NamesAssumption DEF Init, LocksHeld, Exclusive, Building, InTx
<1>2. TypeOK /\ LocksHeld /\ [Next]_vars => LocksHeld'
  BY LocksNext
<1> QED BY <1>1, <1>2, TypeCorrect, PTL DEF Spec

\* The boot-time backfill never stops at a session that fails: with events stored
\* before it looked, ingest opens no row under its build, and what it places is
\* never there already.  Restarts that go back to an older binary are allowed.
THEOREM BackfillSucceeds == Spec => []BackfillNeverFails
<1>1. BackfillInv => BackfillNeverFails
  BY DEF BackfillInv, BackfillRight, Unhindered
<1> QED BY <1>1, BackfillInvariant, PTL

\* When the backfill's pass is over, no session with events is left without an index,
\* nor is one later: whoever takes an index away is about to build it.  A row that
\* other rules left for a session without events is the exception, and the only kind
\* of session a pass misses because its sessions row was not there yet.
THEOREM BackfillIsComplete == Spec => []BackfillLeavesNone
<1>1. BackfillInv => BackfillLeavesNone
  BY DEF BackfillInv, BackfillRight
<1> QED BY <1>1, BackfillInvariant, PTL
=============================================================================
