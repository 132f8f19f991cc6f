----------------------------- MODULE IngestProofs -----------------------------
(***************************************************************************)
(* Proofs about Ingest: the hand-over between noteEvent and the            *)
(* turnMaterializer loses no wake-up and no ended turn, results are        *)
(* accounted for and events tallied once, for any number of requests,      *)
(* sessions, faults and restarts.                                          *)
(***************************************************************************)
EXTENDS Ingest, NatSets

\* Where a handler is, which is all that NoLostWake needs to know of the types.
Placed == pc \in [Handlers -> Steps]

WakeInv == Placed /\ NoLostWake

LEMMA InitWake == Init => WakeInv
BY DEF Init, WakeInv, Placed, NoLostWake, Steps

\* A step of a handler that is not the one about to signal, and changes nothing the
\* runner looks at.
LEMMA HandlerMoves ==
  ASSUME WakeInv, NEW h \in Handlers, NEW next \in Steps, Goto(h, next), pc[h] # "wake",
         UNCHANGED <<pending, wake, runner>>
  PROVE  WakeInv'
<1>1. pc' \in [Handlers -> Steps]
  BY DEF WakeInv, Placed, Goto
<1>2. \A g \in Handlers : pc[g] = "wake" => pc'[g] = "wake"
  BY DEF WakeInv, Placed, Goto
<1> QED BY <1>1, <1>2 DEF WakeInv, Placed, NoLostWake

LEMMA HandleWake ==
  ASSUME WakeInv, NEW h \in Handlers, Handle(h)
  PROVE  WakeInv'
<1> USE DEF Steps
<1>1. CASE SeedRow(h)
  BY <1>1, HandlerMoves DEF SeedRow, Statement, matVars
<1>2. CASE SetHarness(h)
  BY <1>2, HandlerMoves DEF SetHarness, Statement, matVars
<1>3. CASE Tally(h)
  BY <1>3, HandlerMoves DEF Tally, Statement, matVars
<1>4. CASE ProjectionFails(h)
  BY <1>4, HandlerMoves DEF ProjectionFails, matVars
<1>5. CASE NoteEvent(h)
  <2>1. CASE EndsTurn(Served(h).kind)
    <3>1. Goto(h, "wake") /\ UNCHANGED <<wake, runner>>
      BY <1>5, <2>1 DEF NoteEvent
    <3>2. pc' \in [Handlers -> Steps] /\ pc'[h] = "wake"
      BY <3>1 DEF Goto, WakeInv, Placed
    <3> QED BY <3>2 DEF WakeInv, Placed, NoLostWake
  <2>2. CASE ~EndsTurn(Served(h).kind)
    BY <1>5, <2>2, HandlerMoves DEF NoteEvent
  <2> QED BY <2>1, <2>2
<1>6. CASE WakeRunner(h)
  <2>1. pc' \in [Handlers -> Steps] /\ wake' = TRUE
    BY <1>6 DEF WakeRunner, Goto, WakeInv, Placed
  <2> QED BY <2>1 DEF WakeInv, Placed, NoLostWake
<1>7. CASE Forward(h)
  BY <1>7, HandlerMoves DEF Forward, matVars
<1> QED BY <1>1, <1>2, <1>3, <1>4, <1>5, <1>6, <1>7 DEF Handle

LEMMA RunWake ==
  ASSUME WakeInv, Run
  PROVE  WakeInv'
<1>1. CASE Woken
  BY <1>1 DEF Woken, WakeInv, Placed, NoLostWake
<1>2. CASE TakePending
  BY <1>2 DEF TakePending, WakeInv, Placed, NoLostWake
<1>3. ASSUME NEW s \in Sessions, Visit(s) PROVE WakeInv'
  BY <1>3 DEF Visit, WakeInv, Placed, NoLostWake
<1>4. CASE PassOver
  BY <1>4 DEF PassOver, WakeInv, Placed, NoLostWake
<1> QED BY <1>1, <1>2, <1>3, <1>4 DEF Run

LEMMA NextWake == WakeInv /\ [Next]_vars => WakeInv'
<1> SUFFICES ASSUME WakeInv, [Next]_vars PROVE WakeInv'
  OBVIOUS
<1>1. ASSUME NEW h \in Handlers, NEW e \in Requests, StoreEvent(h, e) PROVE WakeInv'
  BY <1>1, HandlerMoves DEF StoreEvent, matVars, Steps
<1>2. ASSUME NEW h \in Handlers, Handle(h) PROVE WakeInv'
  BY <1>2, HandleWake
<1>3. CASE Run
  BY <1>3, RunWake
<1>4. ASSUME NEW e \in Ids, RecordFailure(e) \/ RecordSuccess(e) PROVE WakeInv'
  BY <1>4 DEF RecordFailure, RecordSuccess, matVars, WakeInv, Placed, NoLostWake
<1>5. CASE Restart
  BY <1>5 DEF Restart, WakeInv, Placed, NoLostWake, Steps
<1>6. CASE UNCHANGED vars
  BY <1>6 DEF vars, matVars, WakeInv, Placed, NoLostWake
<1> QED BY <1>1, <1>2, <1>3, <1>4, <1>5, <1>6 DEF Next

\* A session noted for the materializer is never left pending with nobody about to
\* take it up.
THEOREM NoWakeUpLost == Spec => []NoLostWake
<1>1. WakeInv => NoLostWake
  BY DEF WakeInv
<1> QED BY <1>1, InitWake, NextWake, PTL DEF Spec
-----------------------------------------------------------------------------
(***************************************************************************)
(* Types.                                                                  *)
(***************************************************************************)
LEMMA InitTypes == Init => TypeOK
<1> SUFFICES ASSUME Init PROVE TypeOK
  OBVIOUS
<1>1. NoRow \in SessionRow /\ Fresh \in Health
  BY DEF NoRow, SessionRow, Fresh, Health
<1>2. log \in Seq(Event) /\ Len(log) = 0 /\ booted = 0 /\ 0 \in 0..MaxEvents /\ 0 \in 0..MaxFaults
  BY BoundsAssumption DEF Init
<1>3. /\ pc \in [Handlers -> Steps] /\ id \in [Handlers -> 0..Len(log)]
      /\ \A h \in Handlers : IF pc[h] = "idle" THEN id[h] = 0 ELSE id[h] > booted
  BY <1>2 DEF Init, Steps
<1>4. rows \in [Sessions -> SessionRow] /\ visited \in [Sessions -> Nat]
  BY <1>1 DEF Init
<1>5. booted \in 0..Len(log) /\ Len(log) \in 0..MaxEvents /\ restarts \in 0..MaxFaults /\ failures \in 0..MaxFaults
  BY <1>2 DEF Init
<1>6. /\ pending \subseteq Sessions /\ wake \in BOOLEAN /\ taken \subseteq Sessions
      /\ runner \in {"wait", "sleep", "visit"} /\ sending \subseteq Ids /\ health \in Health
  BY <1>1 DEF Init
<1> QED BY <1>2, <1>3, <1>4, <1>5, <1>6 DEF TypeOK

\* A handler past its store serves an event of this process.
LEMMA HandlerAt ==
  ASSUME TypeOK, NEW h \in Handlers, pc[h] # "idle"
  PROVE  /\ Len(log) \in Nat /\ DOMAIN log = 1..Len(log)
         /\ id[h] \in DOMAIN log /\ id[h] > booted /\ booted \in Nat
         /\ Served(h) \in Event /\ Served(h).session \in Sessions
         /\ rows[Served(h).session] \in SessionRow
<1>1. Len(log) \in Nat /\ DOMAIN log = 1..Len(log) /\ \A e \in DOMAIN log : log[e] \in Event
  BY DEF TypeOK
<1>2. id[h] \in 0..Len(log) /\ id[h] > booted /\ booted \in Nat
  BY DEF TypeOK
<1>3. id[h] \in DOMAIN log
  BY <1>1, <1>2
<1>4. Served(h) \in Event /\ Served(h).session \in Sessions
  BY <1>1, <1>3 DEF Served, Event
<1> QED BY <1>1, <1>2, <1>3, <1>4 DEF TypeOK

LEMMA EventsCount ==
  ASSUME TypeOK, NEW s, NEW kind
  PROVE  IsFiniteSet(EventsOf(s, kind)) /\ Cardinality(EventsOf(s, kind)) \in Nat
<1>1. Len(log) \in Nat /\ EventsOf(s, kind) \subseteq 0..Len(log)
  BY DEF EventsOf, TypeOK
<1> QED BY <1>1, BoundedFinite

\* A handler's step from one place to another.
LEMMA GotoTypes ==
  ASSUME TypeOK, NEW h \in Handlers, NEW next \in Steps \ {"idle"}, pc[h] # "idle", Goto(h, next), UNCHANGED id
  PROVE  /\ pc' \in [Handlers -> Steps]
         /\ \A g \in Handlers : IF pc'[g] = "idle" THEN id'[g] = 0 ELSE id'[g] > booted
BY DEF TypeOK, Goto

LEMMA StatementTypes ==
  ASSUME TypeOK, NEW h \in Handlers, NEW at \in Steps \ {"idle"}, NEW next \in Steps \ {"idle"},
         NEW updated \in SessionRow, Statement(h, at, updated, next)
  PROVE  TypeOK'
<1>1. /\ pc[h] # "idle" /\ Goto(h, next) /\ rows' = [rows EXCEPT ![Served(h).session] = updated]
      /\ UNCHANGED <<log, booted, restarts, failures, id, matVars, fwdVars>>
  BY DEF Statement
<1>2. rows' \in [Sessions -> SessionRow]
  BY <1>1 DEF TypeOK
<1> QED BY <1>1, <1>2, GotoTypes DEF TypeOK, matVars, fwdVars

\* What the statements make of a row.
LEMMA UpdatedRow ==
  ASSUME TypeOK, NEW h \in Handlers, pc[h] # "idle"
  PROVE  /\ SeededRow \in SessionRow /\ Row(h) \in SessionRow
         /\ Served(h).harness # NoHarness => [Row(h) EXCEPT !.harness = Served(h).harness] \in SessionRow
         /\ [Row(h) EXCEPT !.turns = @ + 1] \in SessionRow
         /\ [Row(h) EXCEPT !.results = @ + 1] \in SessionRow
<1>1. Row(h) \in SessionRow
  BY HandlerAt DEF Row
<1>2. Served(h).harness \in HarnessIds \cup {NoHarness}
  BY HandlerAt DEF Event
<1>3. SeededRow \in SessionRow
  BY DEF SeededRow, NoRow, SessionRow
<1> QED BY <1>1, <1>2, <1>3 DEF SessionRow

LEMMA HandleTypes ==
  ASSUME TypeOK, NEW h \in Handlers, Handle(h)
  PROVE  TypeOK'
<1>2. CASE SeedRow(h)
  <2>1. pc[h] # "idle"
    BY <1>2 DEF SeedRow, Statement
  <2>2. (IF Row(h).seeded THEN Row(h) ELSE SeededRow) \in SessionRow
    BY <2>1, UpdatedRow
  <2> QED BY <1>2, <2>2, StatementTypes DEF SeedRow, Steps
<1>3. CASE SetHarness(h)
  <2>1. pc[h] # "idle"
    BY <1>3 DEF SetHarness, Statement
  <2>2. (IF Served(h).harness = NoHarness THEN Row(h) ELSE [Row(h) EXCEPT !.harness = Served(h).harness])
           \in SessionRow
    BY <2>1, UpdatedRow
  <2> QED BY <1>3, <2>2, StatementTypes DEF SetHarness, Steps
<1>4. CASE Tally(h)
  <2>1. pc[h] # "idle"
    BY <1>4 DEF Tally, Statement
  <2>2. (CASE Served(h).kind = "user_message" -> [Row(h) EXCEPT !.turns = @ + 1]
           [] Served(h).kind = "result" -> [Row(h) EXCEPT !.results = @ + 1]
           [] OTHER -> Row(h)) \in SessionRow
    BY <2>1, UpdatedRow
  <2> QED BY <1>4, <2>2, StatementTypes DEF Tally, Steps
<1>5. CASE ProjectionFails(h)
  <2>1. /\ pc[h] # "idle" /\ Goto(h, "note") /\ failures + restarts < MaxFaults /\ failures' = failures + 1
        /\ UNCHANGED <<log, booted, restarts, rows, id, matVars, fwdVars>>
    BY <1>5 DEF ProjectionFails
  <2>2. failures' \in 0..MaxFaults
    BY <2>1, BoundsAssumption DEF TypeOK
  <2>3. /\ pc' \in [Handlers -> Steps]
        /\ \A g \in Handlers : IF pc'[g] = "idle" THEN id'[g] = 0 ELSE id'[g] > booted
    BY <2>1, GotoTypes DEF Steps
  <2> QED BY <2>1, <2>2, <2>3 DEF TypeOK, matVars, fwdVars
<1>6. CASE NoteEvent(h)
  <2>1. PICK next \in {"wake", "forward"} : Goto(h, next)
    BY <1>6 DEF NoteEvent
  <2>2. pc[h] # "idle" /\ id' = id
    BY <1>6 DEF NoteEvent
  <2>3. /\ pc' \in [Handlers -> Steps]
        /\ \A g \in Handlers : IF pc'[g] = "idle" THEN id'[g] = 0 ELSE id'[g] > booted
    BY <2>1, <2>2, GotoTypes DEF Steps
  <2>4. pending' \subseteq Sessions
    BY <1>6, <2>2, HandlerAt DEF NoteEvent, TypeOK
  <2> QED BY <1>6, <2>3, <2>4 DEF NoteEvent, TypeOK, fwdVars
<1>7. CASE WakeRunner(h)
  <2>1. pc[h] # "idle" /\ id' = id /\ Goto(h, "forward")
    BY <1>7 DEF WakeRunner
  <2>2. /\ pc' \in [Handlers -> Steps]
        /\ \A g \in Handlers : IF pc'[g] = "idle" THEN id'[g] = 0 ELSE id'[g] > booted
    BY <2>1, GotoTypes DEF Steps
  <2> QED BY <1>7, <2>2 DEF WakeRunner, TypeOK, fwdVars
<1>8. CASE Forward(h)
  <2>1. /\ pc[h] # "idle" /\ pc' = [pc EXCEPT ![h] = "idle"] /\ id' = [id EXCEPT ![h] = 0]
        /\ sending' \subseteq sending \cup {id[h]}
        /\ UNCHANGED <<log, booted, restarts, failures, rows, matVars, health>>
    BY <1>8 DEF Forward, Goto
  <2>2. id[h] \in Ids
    <3>1. id[h] \in 1..Len(log) /\ Len(log) \in 0..MaxEvents
      BY <2>1, HandlerAt DEF TypeOK
    <3> QED BY <3>1, BoundsAssumption DEF Ids
  <2>3. /\ pc' \in [Handlers -> Steps] /\ id' \in [Handlers -> 0..Len(log)]
        /\ \A g \in Handlers : IF pc'[g] = "idle" THEN id'[g] = 0 ELSE id'[g] > booted
    BY <2>1 DEF TypeOK, Steps
  <2> QED BY <2>1, <2>2, <2>3 DEF TypeOK, matVars
<1> QED BY <1>2, <1>3, <1>4, <1>5, <1>6, <1>7, <1>8 DEF Handle

LEMMA NextTypes ==
  ASSUME TypeOK, [Next]_vars
  PROVE  TypeOK'
<1>1. ASSUME NEW h \in Handlers, NEW e \in Requests, StoreEvent(h, e) PROVE TypeOK'
  <2>1. e \in Event /\ Len(log) \in Nat /\ booted \in 0..Len(log)
    BY NamesAssumption DEF TypeOK
  <2>2. /\ log' = Append(log, e) /\ Len(log) < MaxEvents /\ id' = [id EXCEPT ![h] = Len(log) + 1]
        /\ pc' = [pc EXCEPT ![h] = "seed"]
        /\ UNCHANGED <<booted, restarts, failures, rows, matVars, fwdVars>>
    BY <1>1 DEF StoreEvent, Goto
  <2>3. log' \in Seq(Event) /\ Len(log') = Len(log) + 1 /\ Len(log') \in 0..MaxEvents
    BY <2>1, <2>2, BoundsAssumption DEF TypeOK
  <2>4. /\ pc' \in [Handlers -> Steps] /\ id' \in [Handlers -> 0..Len(log')]
        /\ \A g \in Handlers : IF pc'[g] = "idle" THEN id'[g] = 0 ELSE id'[g] > booted
    BY <2>1, <2>2, <2>3 DEF TypeOK, Steps
  <2> QED BY <2>1, <2>2, <2>3, <2>4 DEF TypeOK, matVars, fwdVars
<1>2. ASSUME NEW h \in Handlers, Handle(h) PROVE TypeOK'
  BY <1>2, HandleTypes
<1>3. CASE Woken \/ TakePending \/ PassOver
  BY <1>3 DEF Woken, TakePending, PassOver, TypeOK, fwdVars
<1>4. ASSUME NEW s \in Sessions, Visit(s) PROVE TypeOK'
  BY <1>4 DEF Visit, TypeOK, fwdVars
<1>5. ASSUME NEW e \in Ids, RecordFailure(e) \/ RecordSuccess(e) PROVE TypeOK'
  <2>1. /\ health' \in Health /\ sending' \subseteq sending
        /\ UNCHANGED <<log, booted, restarts, failures, rows, pc, id, matVars>>
    <3>1. health \in Health
      BY DEF TypeOK
    <3>2. /\ health.attempted + 1 \in Nat /\ health.failed + 1 \in Nat /\ health.succeeded + 1 \in Nat
          /\ health.streak + 1 \in Nat
      BY <3>1 DEF Health
    <3>3. CASE RecordFailure(e)
      <4>1. health' = [health EXCEPT !.attempted = health.attempted + 1, !.failed = health.failed + 1,
                                     !.streak = health.streak + 1]
        BY <3>1, <3>3 DEF RecordFailure, Health
      <4>2. health' \in Health
        BY <3>1, <3>2, <4>1 DEF Health
      <4> QED BY <3>3, <4>2 DEF RecordFailure
    <3>4. CASE RecordSuccess(e)
      <4>1. health' = [health EXCEPT !.attempted = health.attempted + 1, !.succeeded = health.succeeded + 1,
                                     !.streak = 0]
        BY <3>1, <3>4 DEF RecordSuccess, Health
      <4>2. health' \in Health
        BY <3>1, <3>2, <4>1 DEF Health
      <4> QED BY <3>4, <4>2 DEF RecordSuccess
    <3> QED BY <1>5, <3>3, <3>4
  <2> QED BY <2>1 DEF TypeOK, matVars
<1>6. CASE Restart
  <2>1. \A s \in Sessions : Backfilled(s) \in SessionRow
    <3> SUFFICES ASSUME NEW s \in Sessions PROVE Backfilled(s) \in SessionRow
      OBVIOUS
    <3>1. rows[s] \in SessionRow
      BY DEF TypeOK
    <3>2. Cardinality(EventsOf(s, "user_message")) \in Nat /\ Cardinality(EventsOf(s, "result")) \in Nat
      BY EventsCount
    <3>3. Backfilled(s) = rows[s] \/
            Backfilled(s) = [turns |-> Cardinality(EventsOf(s, "user_message")),
                             results |-> Cardinality(EventsOf(s, "result")), harness |-> NoHarness, seeded |-> TRUE]
      BY DEF Backfilled, SeededRow, NoRow
    <3>4. NoHarness \in HarnessIds \cup {NoHarness}
      OBVIOUS
    <3>5. [turns |-> Cardinality(EventsOf(s, "user_message")), results |-> Cardinality(EventsOf(s, "result")),
           harness |-> NoHarness, seeded |-> TRUE] \in SessionRow
      BY <3>2, <3>4 DEF SessionRow
    <3> QED BY <3>1, <3>3, <3>5
  <2>2. restarts' \in 0..MaxFaults
    BY <1>6, BoundsAssumption DEF Restart, TypeOK
  <2>3. rows' \in [Sessions -> SessionRow]
    BY <1>6, <2>1 DEF Restart
  <2>4. health' \in Health
    BY <1>6 DEF Restart, Fresh, Health
  <2>5. pc' = [h \in Handlers |-> "idle"] /\ id' = [h \in Handlers |-> 0] /\ log' = log /\ booted' = Len(log)
    BY <1>6 DEF Restart
  <2>6. Len(log) \in Nat
    BY DEF TypeOK
  <2>7. log' \in Seq(Event) /\ Len(log') \in 0..MaxEvents /\ booted' \in 0..Len(log')
    BY <2>5, <2>6 DEF TypeOK
  <2>8. /\ pc' \in [Handlers -> Steps] /\ id' \in [Handlers -> 0..Len(log')]
        /\ \A g \in Handlers : IF pc'[g] = "idle" THEN id'[g] = 0 ELSE id'[g] > booted'
    BY <2>5, <2>6 DEF Steps
  <2> QED BY <1>6, <2>2, <2>3, <2>4, <2>7, <2>8 DEF Restart, TypeOK
<1>7. CASE UNCHANGED vars
  BY <1>7 DEF vars, matVars, fwdVars, TypeOK
<1> QED BY <1>1, <1>2, <1>3, <1>4, <1>5, <1>6, <1>7 DEF Next, Run

\* Tables, handlers, materializer and forwarder keep their types, and a handler past
\* its store serves an event of this process (handleIngestEvent).
THEOREM TypesKept == Spec => []TypeOK
BY InitTypes, NextTypes, PTL DEF Spec
-----------------------------------------------------------------------------
(***************************************************************************)
(* Results: each is in one place.  Two busy handlers never hold the same   *)
(* event, and none holds one that is already being sent; without that a    *)
(* hand-over could leave the set of what is being sent as it was.          *)
(***************************************************************************)
Busy(h) == pc[h] # "idle"
Stored == {e \in DOMAIN log : e > booted /\ log[e].kind = "result"}
Unsent == {h \in Handlers : Busy(h) /\ Served(h).kind = "result"}

HeldOnce ==
    /\ sending \subseteq DOMAIN log
    /\ \A g, h \in Handlers : Busy(g) /\ Busy(h) /\ id[g] = id[h] => g = h
    /\ \A h \in Handlers : Busy(h) => id[h] \notin sending

Accounted ==
    /\ Cardinality(Stored) = health.attempted + Cardinality(sending) + Cardinality(Unsent)
    /\ health.attempted = health.succeeded + health.failed

AccountInv == TypeOK /\ HeldOnce /\ Accounted

\* The sets that Accounted counts are finite.
LEMMA AccountFinite ==
  ASSUME AccountInv
  PROVE  /\ IsFiniteSet(Stored) /\ Cardinality(Stored) \in Nat
         /\ IsFiniteSet(sending) /\ Cardinality(sending) \in Nat
         /\ IsFiniteSet(Unsent) /\ Cardinality(Unsent) \in Nat
         /\ health \in Health
<1>1. Len(log) \in Nat /\ DOMAIN log = 1..Len(log)
  BY DEF AccountInv, TypeOK
<1>2. Stored \subseteq 0..Len(log) /\ sending \subseteq 0..Len(log)
  BY <1>1 DEF Stored, AccountInv, HeldOnce
<1>3. Unsent \in SUBSET Handlers
  BY DEF Unsent
<1> QED BY <1>1, <1>2, <1>3, BoundedFinite, FS_Subset, FS_CardinalityType, NamesAssumption DEF AccountInv, TypeOK

\* A step that moves no event from one place to another.
LEMMA NothingMoves ==
  ASSUME AccountInv, TypeOK', UNCHANGED <<log, booted, id, sending, health>>,
         \A g \in Handlers : pc'[g] = "idle" <=> pc[g] = "idle"
  PROVE  AccountInv'
<1>1. Stored' = Stored /\ Unsent' = Unsent
  BY DEF Stored, Unsent, Busy, Served
<1> QED BY <1>1 DEF AccountInv, HeldOnce, Accounted, Busy

LEMMA HandleAccounts ==
  ASSUME AccountInv, TypeOK', NEW h \in Handlers, Handle(h)
  PROVE  AccountInv'
<1>1. ASSUME NEW next \in Steps \ {"idle"}, Goto(h, next), Busy(h), UNCHANGED <<log, booted, id, sending, health>>
      PROVE  AccountInv'
  BY <1>1, NothingMoves DEF Goto, Busy, AccountInv, TypeOK
<1>2. CASE SeedRow(h) \/ SetHarness(h) \/ Tally(h)
  BY <1>1, <1>2 DEF SeedRow, SetHarness, Tally, Statement, fwdVars, Busy, Steps
<1>3. CASE ProjectionFails(h)
  BY <1>1, <1>3 DEF ProjectionFails, fwdVars, Busy, Steps
<1>4. CASE NoteEvent(h)
  BY <1>1, <1>4 DEF NoteEvent, fwdVars, Busy, Steps
<1>5. CASE WakeRunner(h)
  BY <1>1, <1>5 DEF WakeRunner, fwdVars, Busy, Steps
<1>6. CASE Forward(h)
  <2>1. /\ Busy(h) /\ pc' = [pc EXCEPT ![h] = "idle"] /\ id' = [id EXCEPT ![h] = 0]
        /\ sending' = IF Served(h).kind = "result" THEN sending \cup {id[h]} ELSE sending
        /\ UNCHANGED <<log, booted, health>>
    BY <1>6 DEF Forward, Goto, Busy
  <2>2. id[h] \in DOMAIN log /\ id[h] \notin sending
    BY <2>1, HandlerAt DEF Busy, AccountInv, HeldOnce
  <2>3. \A g \in Handlers \ {h} : pc'[g] = pc[g] /\ id'[g] = id[g] /\ (Busy(g) => id[g] # id[h])
    BY <2>1 DEF AccountInv, TypeOK, HeldOnce
  <2>4. pc'[h] = "idle"
    BY <2>1 DEF AccountInv, TypeOK
  <2>5. HeldOnce'
    BY <2>1, <2>2, <2>3, <2>4 DEF HeldOnce, AccountInv, Busy
  <2>6. Stored' = Stored
    BY <2>1 DEF Stored
  <2>7. Unsent' = Unsent \ {h}
    BY <2>1, <2>3, <2>4 DEF Unsent, Busy, Served
  <2>8. CASE Served(h).kind = "result"
    <3>1. h \in Unsent /\ sending' = sending \cup {id[h]}
      BY <2>1, <2>8 DEF Unsent
    <3>2. Cardinality(Unsent') = Cardinality(Unsent) - 1
      BY <2>7, <3>1, AccountFinite, FS_RemoveElement
    <3>3. Cardinality(sending') = Cardinality(sending) + 1
      BY <2>2, <3>1, AccountFinite, FS_AddElement
    <3>4. Accounted'
      BY <2>1, <2>6, <3>2, <3>3, AccountFinite DEF AccountInv, Accounted, Health
    <3> QED BY <2>5, <3>4 DEF AccountInv
  <2>9. CASE Served(h).kind # "result"
    <3>1. Unsent' = Unsent /\ sending' = sending
      BY <2>1, <2>7, <2>9 DEF Unsent
    <3> QED BY <2>1, <2>5, <2>6, <3>1 DEF AccountInv, Accounted
  <2> QED BY <2>8, <2>9
<1> QED BY <1>2, <1>3, <1>4, <1>5, <1>6 DEF Handle

LEMMA StoreAccounts ==
  ASSUME AccountInv, TypeOK', NEW h \in Handlers, NEW e \in Requests, StoreEvent(h, e)
  PROVE  AccountInv'
<1> DEFINE n == Len(log) + 1
<1>1. /\ pc[h] = "idle" /\ log' = Append(log, e) /\ id' = [id EXCEPT ![h] = n] /\ pc' = [pc EXCEPT ![h] = "seed"]
      /\ UNCHANGED <<booted, sending, health>>
  BY DEF StoreEvent, Goto, fwdVars
<1>2. /\ Len(log) \in Nat /\ DOMAIN log = 1..Len(log) /\ booted \in 0..Len(log)
      /\ DOMAIN log' = 1..n /\ log'[n] = e /\ \A f \in DOMAIN log : log'[f] = log[f]
  BY <1>1 DEF AccountInv, TypeOK
<1>3. pc'[h] = "seed" /\ id'[h] = n /\ \A g \in Handlers \ {h} : pc'[g] = pc[g] /\ id'[g] = id[g]
  BY <1>1 DEF AccountInv, TypeOK
<1>4. \A g \in Handlers : Busy(g) => id[g] \in DOMAIN log
  BY HandlerAt DEF AccountInv, Busy
<1>5. \A g \in Handlers \ {h} : Busy(g) => Served(g)' = Served(g)
  BY <1>2, <1>3, <1>4 DEF Served
<1>6. HeldOnce'
  <2>1. sending' \subseteq DOMAIN log' /\ n \notin sending'
    BY <1>1, <1>2 DEF AccountInv, HeldOnce
  <2>2. \A g \in Handlers \ {h} : pc'[g] # "idle" => id'[g] # n /\ id'[g] \notin sending'
    BY <1>1, <1>2, <1>3, <1>4 DEF AccountInv, HeldOnce, Busy
  <2>3. \A f, g \in Handlers : pc'[f] # "idle" /\ pc'[g] # "idle" /\ id'[f] = id'[g] => f = g
    BY <1>3, <2>2 DEF AccountInv, HeldOnce, Busy
  <2> QED BY <1>3, <2>1, <2>2, <2>3 DEF HeldOnce, Busy
<1>7. h \notin Unsent /\ n \notin Stored
  BY <1>1, <1>2 DEF Unsent, Stored, Busy
<1>8. CASE e.kind = "result"
  <2>1. Stored' = Stored \cup {n}
    BY <1>1, <1>2, <1>8 DEF Stored
  <2>2. Unsent' = Unsent \cup {h}
    BY <1>2, <1>3, <1>5, <1>8 DEF Unsent, Busy, Served
  <2>3. Cardinality(Stored') = Cardinality(Stored) + 1 /\ Cardinality(Unsent') = Cardinality(Unsent) + 1
    <3> HIDE DEF n
    <3> QED BY <1>7, <2>1, <2>2, AccountFinite, FS_AddElement
  <2>4. Accounted'
    BY <1>1, <2>3, AccountFinite DEF AccountInv, Accounted, Health
  <2> QED BY <1>6, <2>4 DEF AccountInv
<1>9. CASE e.kind # "result"
  <2>1. Stored' = Stored
    BY <1>1, <1>2, <1>9 DEF Stored
  <2>2. Unsent' = Unsent
    <3>1. h \notin Unsent'
      BY <1>2, <1>3, <1>9 DEF Unsent, Served
    <3>2. \A g \in Handlers \ {h} : g \in Unsent' <=> g \in Unsent
      BY <1>3, <1>5 DEF Unsent, Busy
    <3> QED BY <1>7, <3>1, <3>2 DEF Unsent
  <2> QED BY <1>1, <1>6, <2>1, <2>2 DEF AccountInv, Accounted
<1> QED BY <1>8, <1>9

LEMMA RecordAccounts ==
  ASSUME AccountInv, TypeOK', NEW e \in Ids, RecordFailure(e) \/ RecordSuccess(e)
  PROVE  AccountInv'
<1>1. e \in sending /\ sending' = sending \ {e} /\ UNCHANGED <<log, booted, pc, id>>
  BY DEF RecordFailure, RecordSuccess
<1>2. Stored' = Stored /\ Unsent' = Unsent
  BY <1>1 DEF Stored, Unsent, Busy, Served
<1>3. Cardinality(sending') = Cardinality(sending) - 1
  BY <1>1, AccountFinite, FS_RemoveElement
<1>4. /\ health'.attempted = health.attempted + 1
      /\ \/ health'.succeeded = health.succeeded + 1 /\ health'.failed = health.failed
         \/ health'.failed = health.failed + 1 /\ health'.succeeded = health.succeeded
  <2>1. health \in Health
    BY AccountFinite
  <2> QED BY <2>1 DEF RecordFailure, RecordSuccess, Health
<1>5. Accounted'
  BY <1>2, <1>3, <1>4, AccountFinite DEF AccountInv, Accounted, Health
<1>6. HeldOnce'
  BY <1>1 DEF AccountInv, HeldOnce, Busy
<1> QED BY <1>5, <1>6 DEF AccountInv

LEMMA RestartAccounts ==
  ASSUME AccountInv, TypeOK', Restart
  PROVE  AccountInv'
<1>1. /\ log' = log /\ booted' = Len(log) /\ sending' = {} /\ health' = Fresh
      /\ \A h \in Handlers : pc'[h] = "idle"
  BY DEF Restart
<1>2. Stored' = {} /\ Unsent' = {}
  BY <1>1 DEF Stored, Unsent, Busy, AccountInv, TypeOK
<1>3. Cardinality({}) = 0
  BY FS_EmptySet
<1>4. Accounted'
  BY <1>1, <1>2, <1>3 DEF Accounted, Fresh
<1>5. HeldOnce'
  BY <1>1 DEF HeldOnce, Busy
<1> QED BY <1>4, <1>5 DEF AccountInv

LEMMA InitAccounts == Init => AccountInv
<1> SUFFICES ASSUME Init PROVE AccountInv
  OBVIOUS
<1>1. /\ log = <<>> /\ sending = {} /\ health = Fresh
      /\ \A h \in Handlers : pc[h] = "idle"
  BY DEF Init
<1>2. Stored = {} /\ Unsent = {}
  BY <1>1 DEF Stored, Unsent, Busy
<1>3. Cardinality({}) = 0
  BY FS_EmptySet
<1> QED BY <1>1, <1>2, <1>3, InitTypes DEF AccountInv, HeldOnce, Accounted, Fresh, Busy

LEMMA NextAccounts == AccountInv /\ [Next]_vars => AccountInv'
<1> SUFFICES ASSUME AccountInv, [Next]_vars PROVE AccountInv'
  OBVIOUS
<1>0. TypeOK'
  BY NextTypes DEF AccountInv
<1>1. ASSUME NEW h \in Handlers, NEW e \in Requests, StoreEvent(h, e) PROVE AccountInv'
  BY <1>0, <1>1, StoreAccounts
<1>2. ASSUME NEW h \in Handlers, Handle(h) PROVE AccountInv'
  BY <1>0, <1>2, HandleAccounts
<1>3. CASE Run
  BY <1>0, <1>3, NothingMoves DEF Run, Woken, TakePending, Visit, PassOver, fwdVars
<1>4. ASSUME NEW e \in Ids, RecordFailure(e) \/ RecordSuccess(e) PROVE AccountInv'
  BY <1>0, <1>4, RecordAccounts
<1>5. CASE Restart
  BY <1>0, <1>5, RestartAccounts
<1>6. CASE UNCHANGED vars
  BY <1>0, <1>6, NothingMoves DEF vars, fwdVars
<1> QED BY <1>1, <1>2, <1>3, <1>4, <1>5, <1>6 DEF Next

\* Every result this process stored is recorded as an attempt, being sent, or about to
\* be handed over (Forwarder.Forward and recordSuccess/recordFailure).
THEOREM NoResultUnaccounted == Spec => []ResultsAccounted
<1>1. AccountInv => ResultsAccounted
  BY DEF AccountInv, Accounted, ResultsAccounted, Stored, Unsent, Busy
<1> QED BY <1>1, InitAccounts, NextAccounts, PTL DEF Spec
-----------------------------------------------------------------------------
(***************************************************************************)
(* Tallies.  A session without a row has counted nothing, so seeding it    *)
(* forgets nothing; and a handler that has seeded its row finds it there,  *)
(* so that no tally is lost on a session migrate would project again.      *)
(***************************************************************************)
Counted == {"user_message", "result"}
Count(s, kind) == IF kind = "user_message" THEN rows[s].turns ELSE rows[s].results
Yet(s, kind) == Underway(s, kind, Untallied)

SeededFirst ==
    /\ \A h \in Handlers : pc[h] \in {"harness", "tally"} => Row(h).seeded
    /\ \A s \in Sessions : ~rows[s].seeded => rows[s].turns = 0 /\ rows[s].results = 0

Tallied(s, kind) ==
    /\ Count(s, kind) + Cardinality(Yet(s, kind)) <= Cardinality(EventsOf(s, kind))
    /\ failures = 0 /\ restarts = 0 =>
        Count(s, kind) + Cardinality(Yet(s, kind)) = Cardinality(EventsOf(s, kind))

TallyInv ==
    /\ TypeOK /\ SeededFirst
    /\ \A s \in Sessions, kind \in Counted : Tallied(s, kind)

\* What Tallied adds up is finite.
LEMMA TallyFinite ==
  ASSUME TypeOK, NEW s \in Sessions, NEW kind \in Counted
  PROVE  /\ Count(s, kind) \in Nat
         /\ IsFiniteSet(Yet(s, kind)) /\ Cardinality(Yet(s, kind)) \in Nat
         /\ IsFiniteSet(EventsOf(s, kind)) /\ Cardinality(EventsOf(s, kind)) \in Nat
<1>1. rows[s] \in SessionRow
  BY DEF TypeOK
<1>2. Count(s, kind) \in Nat
  BY <1>1 DEF Count, SessionRow
<1>3. Yet(s, kind) \in SUBSET Handlers
  BY DEF Yet, Underway
<1> QED BY <1>2, <1>3, EventsCount, FS_Subset, FS_CardinalityType, NamesAssumption

\* A step that tallies nothing and loses nothing, or loses what a failure left out.
LEMMA NothingTallied ==
  ASSUME TallyInv, TypeOK', SeededFirst', log' = log,
         (failures' = failures /\ restarts' = restarts) \/ failures' = failures + 1,
         \A s \in Sessions : rows'[s].turns = rows[s].turns /\ rows'[s].results = rows[s].results,
         \A g \in Handlers : pc'[g] \in Untallied => pc[g] \in Untallied /\ id'[g] = id[g],
         failures' = failures =>
            \A g \in Handlers : pc[g] \in Untallied => pc'[g] \in Untallied /\ id'[g] = id[g]
  PROVE  TallyInv'
<1> SUFFICES ASSUME NEW s \in Sessions, NEW kind \in Counted PROVE Tallied(s, kind)'
  BY DEF TallyInv
<1>1. Count(s, kind)' = Count(s, kind) /\ EventsOf(s, kind)' = EventsOf(s, kind)
  BY DEF Count, EventsOf
<1>2. Yet(s, kind)' \in SUBSET Yet(s, kind)
  BY DEF Yet, Underway, Served, Untallied
<1>3. failures' = failures => Yet(s, kind)' = Yet(s, kind)
  BY DEF Yet, Underway, Served, Untallied
<1>4. Cardinality(Yet(s, kind)') <= Cardinality(Yet(s, kind)) /\ Cardinality(Yet(s, kind)') \in Nat
  BY <1>2, TallyFinite, FS_Subset, FS_CardinalityType DEF TallyInv
<1>5. failures \in Nat /\ Tallied(s, kind)
  BY DEF TallyInv, TypeOK
<1>6. Count(s, kind) \in Nat /\ Cardinality(Yet(s, kind)) \in Nat /\ Cardinality(EventsOf(s, kind)) \in Nat
  BY TallyFinite DEF TallyInv
<1>7. CASE failures' = failures /\ restarts' = restarts
  BY <1>1, <1>3, <1>5, <1>7 DEF Tallied
<1>8. CASE failures' = failures + 1
  BY <1>1, <1>4, <1>5, <1>6, <1>8 DEF Tallied
<1> QED BY <1>7, <1>8

LEMMA InitTallies == Init => TallyInv
<1> SUFFICES ASSUME Init PROVE TallyInv
  OBVIOUS
<1>1. /\ log = <<>> /\ \A h \in Handlers : pc[h] = "idle"
      /\ \A s \in Sessions : rows[s].turns = 0 /\ rows[s].results = 0
  BY DEF Init, NoRow
<1>2. SeededFirst
  BY <1>1 DEF SeededFirst
<1>3. Cardinality({}) = 0
  BY FS_EmptySet
<1>4. ASSUME NEW s \in Sessions, NEW kind \in Counted PROVE Tallied(s, kind)
  <2>1. Yet(s, kind) = {} /\ EventsOf(s, kind) = {} /\ Count(s, kind) = 0
    BY <1>1 DEF Yet, Underway, Untallied, EventsOf, Count
  <2> QED BY <1>3, <2>1 DEF Tallied
<1> QED BY <1>2, <1>4, InitTypes DEF TallyInv

LEMMA StoreTallies ==
  ASSUME TallyInv, TypeOK', NEW h \in Handlers, NEW e \in Requests, StoreEvent(h, e)
  PROVE  TallyInv'
<1> DEFINE n == Len(log) + 1
<1>1. /\ pc[h] = "idle" /\ log' = Append(log, e) /\ id' = [id EXCEPT ![h] = n] /\ pc' = [pc EXCEPT ![h] = "seed"]
      /\ UNCHANGED <<failures, restarts, rows>>
  BY DEF StoreEvent, Goto
<1>2. /\ Len(log) \in Nat /\ DOMAIN log = 1..Len(log)
      /\ DOMAIN log' = 1..n /\ log'[n] = e /\ \A f \in DOMAIN log : log'[f] = log[f]
  BY <1>1 DEF TallyInv, TypeOK
<1>3. pc'[h] = "seed" /\ id'[h] = n /\ \A g \in Handlers \ {h} : pc'[g] = pc[g] /\ id'[g] = id[g]
  BY <1>1 DEF TallyInv, TypeOK
<1>4. \A g \in Handlers : pc[g] # "idle" => id[g] \in DOMAIN log
  BY HandlerAt DEF TallyInv
<1>5. \A g \in Handlers \ {h} : pc[g] # "idle" => Served(g)' = Served(g)
  BY <1>2, <1>3, <1>4 DEF Served
<1>6. SeededFirst'
  <2>1. \A g \in Handlers : pc'[g] \in {"harness", "tally"} => g # h /\ pc[g] = pc'[g] /\ pc[g] # "idle"
    BY <1>3
  <2> QED BY <1>1, <1>5, <2>1 DEF SeededFirst, Row, TallyInv
<1>7. ASSUME NEW s \in Sessions, NEW kind \in Counted PROVE Tallied(s, kind)'
  <2>1. h \notin Yet(s, kind) /\ n \notin EventsOf(s, kind)
    BY <1>1, <1>2 DEF Yet, Underway, Untallied, EventsOf
  <2>2. \A g \in Handlers \ {h} : g \in Yet(s, kind)' <=> g \in Yet(s, kind)
    BY <1>3, <1>5 DEF Yet, Underway, Untallied
  <2>3. h \in Yet(s, kind)' <=> e.session = s /\ e.kind = kind
    BY <1>2, <1>3 DEF Yet, Underway, Untallied, Served
  <2>4. \A f \in DOMAIN log : f \in EventsOf(s, kind)' <=> f \in EventsOf(s, kind)
    BY <1>2 DEF EventsOf
  <2>5. n \in EventsOf(s, kind)' <=> e.session = s /\ e.kind = kind
    BY <1>2 DEF EventsOf
  <2>6. Count(s, kind)' = Count(s, kind)
    BY <1>1 DEF Count
  <2>7. EventsOf(s, kind)' \subseteq DOMAIN log \cup {n} /\ EventsOf(s, kind) \subseteq DOMAIN log
    BY <1>2 DEF EventsOf
  <2>8. Yet(s, kind)' \subseteq Handlers /\ Yet(s, kind) \subseteq Handlers
    BY DEF Yet, Underway
  <2>9. Tallied(s, kind)
    BY DEF TallyInv
  <2>10. CASE e.session = s /\ e.kind = kind
    <3>1. Yet(s, kind)' = Yet(s, kind) \cup {h}
      BY <2>2, <2>3, <2>8, <2>10
    <3>2. EventsOf(s, kind)' = EventsOf(s, kind) \cup {n}
      BY <2>4, <2>5, <2>7, <2>10
    <3>3. /\ Cardinality(Yet(s, kind)') = Cardinality(Yet(s, kind)) + 1
          /\ Cardinality(EventsOf(s, kind)') = Cardinality(EventsOf(s, kind)) + 1
      <4> HIDE DEF n
      <4> QED BY <2>1, <3>1, <3>2, TallyFinite, FS_AddElement DEF TallyInv
    <3> QED BY <1>1, <2>6, <2>9, <3>3, TallyFinite DEF Tallied, TallyInv
  <2>11. CASE ~(e.session = s /\ e.kind = kind)
    <3>1. Yet(s, kind)' = Yet(s, kind)
      <4>1. h \notin Yet(s, kind)'
        BY <2>3, <2>11
      <4>2. \A g \in Handlers : g \in Yet(s, kind)' <=> g \in Yet(s, kind)
        BY <2>1, <2>2, <4>1
      <4> QED BY <2>8, <4>2
    <3>2. EventsOf(s, kind)' = EventsOf(s, kind)
      BY <2>4, <2>5, <2>7, <2>11
    <3> QED BY <1>1, <2>6, <2>9, <3>1, <3>2 DEF Tallied
  <2> QED BY <2>10, <2>11
<1> QED BY <1>6, <1>7 DEF TallyInv

\* A statement of the projection, up to what becomes of the row.
LEMMA StatementMoves ==
  ASSUME TypeOK, NEW h \in Handlers, NEW at, NEW next, NEW updated, Statement(h, at, updated, next)
  PROVE  /\ pc[h] = at /\ pc'[h] = next /\ \A g \in Handlers \ {h} : pc'[g] = pc[g]
         /\ \A s \in Sessions : rows'[s] = IF s = Served(h).session THEN updated ELSE rows[s]
         /\ UNCHANGED <<log, booted, restarts, failures, id>>
         /\ \A g \in Handlers : Served(g)' = Served(g)
BY DEF Statement, Goto, TypeOK, Served

LEMMA SeedTallies ==
  ASSUME TallyInv, TypeOK', NEW h \in Handlers, SeedRow(h) \/ SetHarness(h)
  PROVE  TallyInv'
<1>1. pc[h] \in {"seed", "harness"} /\ Row(h) = rows[Served(h).session]
  BY DEF SeedRow, SetHarness, Statement, Row
<1>2. Served(h).session \in Sessions /\ Row(h) \in SessionRow
  BY <1>1, HandlerAt DEF TallyInv
<1>3. PICK updated, next :
        /\ Statement(h, pc[h], updated, next) /\ next \in {"harness", "tally"}
        /\ updated.turns = Row(h).turns /\ updated.results = Row(h).results /\ updated.seeded
  <2>1. CASE SeedRow(h)
    <3>1. ~Row(h).seeded => Row(h).turns = 0 /\ Row(h).results = 0
      BY <1>1, <1>2 DEF TallyInv, SeededFirst
    <3>2. SeededRow.turns = 0 /\ SeededRow.results = 0 /\ SeededRow.seeded
      BY DEF SeededRow, NoRow
    <3>3. Statement(h, pc[h], IF Row(h).seeded THEN Row(h) ELSE SeededRow, "harness")
      BY <2>1 DEF SeedRow, Statement
    <3> QED BY <3>1, <3>2, <3>3
  <2>2. CASE SetHarness(h)
    <3>1. Row(h).seeded
      BY <2>2 DEF SetHarness, Statement, TallyInv, SeededFirst
    <3>2. LET harnessed == [Row(h) EXCEPT !.harness = Served(h).harness]
          IN  harnessed.turns = Row(h).turns /\ harnessed.results = Row(h).results /\ harnessed.seeded
      BY <1>2, <3>1 DEF SessionRow
    <3>3. Statement(h, pc[h], IF Served(h).harness = NoHarness THEN Row(h)
                              ELSE [Row(h) EXCEPT !.harness = Served(h).harness], "tally")
      BY <2>2 DEF SetHarness, Statement
    <3> QED BY <3>1, <3>2, <3>3
  <2> QED BY <2>1, <2>2
<1>4. /\ pc'[h] = next /\ \A g \in Handlers \ {h} : pc'[g] = pc[g]
      /\ \A s \in Sessions : rows'[s] = IF s = Served(h).session THEN updated ELSE rows[s]
      /\ UNCHANGED <<log, booted, restarts, failures, id>>
      /\ \A g \in Handlers : Served(g)' = Served(g)
  BY <1>3, StatementMoves DEF TallyInv
<1>5. \A s \in Sessions : rows'[s].turns = rows[s].turns /\ rows'[s].results = rows[s].results
                          /\ (rows[s].seeded => rows'[s].seeded)
  BY <1>1, <1>3, <1>4
<1>6. SeededFirst'
  <2>1. \A g \in Handlers : pc'[g] \in {"harness", "tally"} => rows'[Served(g)'.session].seeded
    <3>1. rows'[Served(h)'.session].seeded
      BY <1>2, <1>3, <1>4
    <3>2. ASSUME NEW g \in Handlers \ {h}, pc'[g] \in {"harness", "tally"}
          PROVE  rows'[Served(g)'.session].seeded
      <4>1. pc[g] \in {"harness", "tally"} /\ pc[g] # "idle"
        BY <1>4, <3>2
      <4>2. rows[Served(g).session].seeded /\ Served(g).session \in Sessions
        BY <4>1, HandlerAt DEF TallyInv, SeededFirst, Row
      <4> QED BY <1>4, <1>5, <4>2
    <3> QED BY <3>1, <3>2
  <2>2. \A s \in Sessions : ~rows'[s].seeded => rows'[s].turns = 0 /\ rows'[s].results = 0
    BY <1>5 DEF TallyInv, SeededFirst
  <2> QED BY <2>1, <2>2 DEF SeededFirst, Row
<1>7. \A g \in Handlers : (pc'[g] \in Untallied <=> pc[g] \in Untallied) /\ id'[g] = id[g]
  BY <1>1, <1>3, <1>4 DEF Untallied
<1> QED BY <1>4, <1>5, <1>6, <1>7, NothingTallied

LEMMA TallyTallies ==
  ASSUME TallyInv, TypeOK', NEW h \in Handlers, Tally(h)
  PROVE  TallyInv'
<1> DEFINE updated == CASE Served(h).kind = "user_message" -> [Row(h) EXCEPT !.turns = @ + 1]
                        [] Served(h).kind = "result" -> [Row(h) EXCEPT !.results = @ + 1]
                        [] OTHER -> Row(h)
<1>1. Statement(h, "tally", updated, "note")
  BY DEF Tally
<1>2. /\ pc[h] = "tally" /\ pc'[h] = "note" /\ \A g \in Handlers \ {h} : pc'[g] = pc[g]
      /\ \A s \in Sessions : rows'[s] = IF s = Served(h).session THEN updated ELSE rows[s]
      /\ UNCHANGED <<log, booted, restarts, failures, id>>
      /\ \A g \in Handlers : Served(g)' = Served(g)
  <2> HIDE DEF updated
  <2> QED BY <1>1, StatementMoves DEF TallyInv
<1>3. Served(h).session \in Sessions /\ Row(h) \in SessionRow /\ Row(h) = rows[Served(h).session] /\ Row(h).seeded
  BY <1>2, HandlerAt DEF TallyInv, SeededFirst, Row
<1>4. /\ updated.turns = IF Served(h).kind = "user_message" THEN Row(h).turns + 1 ELSE Row(h).turns
      /\ updated.results = IF Served(h).kind = "result" THEN Row(h).results + 1 ELSE Row(h).results
      /\ updated.seeded
  BY <1>3 DEF SessionRow
<1> HIDE DEF updated
<1>5. SeededFirst'
  <2>1. \A s \in Sessions : rows'[s].seeded <=> rows[s].seeded
    BY <1>2, <1>3, <1>4
  <2>2. ASSUME NEW g \in Handlers, pc'[g] \in {"harness", "tally"} PROVE Row(g)'.seeded
    <3>1. g # h /\ pc[g] \in {"harness", "tally"} /\ pc[g] # "idle"
      BY <1>2, <2>2
    <3>2. rows[Served(g).session].seeded /\ Served(g).session \in Sessions
      BY <3>1, HandlerAt DEF TallyInv, SeededFirst, Row
    <3> QED BY <1>2, <2>1, <3>2 DEF Row
  <2>3. ASSUME NEW s \in Sessions, ~rows'[s].seeded PROVE rows'[s].turns = 0 /\ rows'[s].results = 0
    BY <1>2, <1>3, <1>4, <2>1, <2>3 DEF TallyInv, SeededFirst
  <2> QED BY <2>2, <2>3 DEF SeededFirst
<1>6. ASSUME NEW s \in Sessions, NEW kind \in Counted PROVE Tallied(s, kind)'
  <2>1. EventsOf(s, kind)' = EventsOf(s, kind) /\ Tallied(s, kind)
    BY <1>2 DEF EventsOf, TallyInv
  <2>2. Yet(s, kind)' = Yet(s, kind) \ {h}
    BY <1>2 DEF Yet, Underway, Untallied
  <2>3. h \in Yet(s, kind) <=> Served(h).session = s /\ Served(h).kind = kind
    BY <1>2 DEF Yet, Underway, Untallied
  <2>4. CASE Served(h).session = s /\ Served(h).kind = kind
    <3>1. Count(s, kind)' = Count(s, kind) + 1
      BY <1>2, <1>3, <1>4, <2>4 DEF Count, Counted
    <3>2. Cardinality(Yet(s, kind)') = Cardinality(Yet(s, kind)) - 1
      <4>1. IsFiniteSet(Yet(s, kind)) /\ h \in Yet(s, kind)
        BY <2>3, <2>4, TallyFinite DEF TallyInv
      <4> QED BY <2>2, <4>1, FS_RemoveElement
    <3> QED BY <1>2, <2>1, <3>1, <3>2, TallyFinite DEF Tallied, TallyInv
  <2>5. CASE ~(Served(h).session = s /\ Served(h).kind = kind)
    <3>1. Count(s, kind)' = Count(s, kind)
      BY <1>2, <1>3, <1>4, <2>5 DEF Count, Counted
    <3>2. Yet(s, kind)' = Yet(s, kind)
      BY <2>2, <2>3, <2>5
    <3> QED BY <1>2, <2>1, <3>1, <3>2 DEF Tallied
  <2> QED BY <2>4, <2>5
<1> QED BY <1>5, <1>6 DEF TallyInv

\* A step that leaves the rows alone, moves handlers only where nothing is seeded or
\* tallied, and keeps what the others serve.
LEMMA RowsLeftAlone ==
  ASSUME TallyInv, TypeOK', UNCHANGED <<log, restarts, rows>>, failures' \in {failures, failures + 1},
         \A g \in Handlers : pc'[g] \in Untallied => pc'[g] = pc[g] /\ id'[g] = id[g],
         failures' = failures => \A g \in Handlers : pc[g] \in Untallied => pc'[g] = pc[g] /\ id'[g] = id[g]
  PROVE  TallyInv'
<1>1. SeededFirst'
  <2>1. ASSUME NEW g \in Handlers, pc'[g] \in {"harness", "tally"} PROVE Row(g)'.seeded
    <3>1. pc[g] = pc'[g] /\ id'[g] = id[g]
      BY <2>1 DEF Untallied
    <3> QED BY <2>1, <3>1 DEF Row, Served, TallyInv, SeededFirst
  <2> QED BY <2>1 DEF TallyInv, SeededFirst
<1> QED BY <1>1, NothingTallied

LEMMA HandleTallies ==
  ASSUME TallyInv, TypeOK', NEW h \in Handlers, Handle(h)
  PROVE  TallyInv'
<1>1. CASE SeedRow(h) \/ SetHarness(h)
  BY <1>1, SeedTallies
<1>2. CASE Tally(h)
  BY <1>2, TallyTallies
<1>3. ASSUME NEW next \in Steps \ Untallied, Goto(h, next), UNCHANGED <<log, restarts, rows>>,
             \/ failures' = failures + 1 /\ pc[h] \in Untallied /\ UNCHANGED id
             \/ failures' = failures /\ pc[h] \notin Untallied /\ \A g \in Handlers \ {h} : id'[g] = id[g]
      PROVE  TallyInv'
  <2>1. pc'[h] = next /\ \A g \in Handlers \ {h} : pc'[g] = pc[g] /\ id'[g] = id[g]
    BY <1>3 DEF Goto, TallyInv, TypeOK
  <2>2. failures \in Nat
    BY DEF TallyInv, TypeOK
  <2> QED BY <1>3, <2>1, <2>2, RowsLeftAlone
<1>4. CASE ProjectionFails(h)
  BY <1>3, <1>4 DEF ProjectionFails, Steps, Untallied
<1>5. CASE NoteEvent(h)
  BY <1>3, <1>5 DEF NoteEvent, Steps, Untallied
<1>6. CASE WakeRunner(h)
  BY <1>3, <1>6 DEF WakeRunner, Steps, Untallied
<1>7. CASE Forward(h)
  <2>1. \A g \in Handlers \ {h} : id'[g] = id[g]
    BY <1>7 DEF Forward, TallyInv, TypeOK
  <2> QED BY <1>3, <1>7, <2>1 DEF Forward, Steps, Untallied
<1> QED BY <1>1, <1>2, <1>4, <1>5, <1>6, <1>7 DEF Handle

\* migrate projects what a session without a row adds up to, and a process that has
\* just started has nothing underway.
LEMMA RestartTallies ==
  ASSUME TallyInv, TypeOK', Restart
  PROVE  TallyInv'
<1>1. /\ log' = log /\ restarts' = restarts + 1 /\ rows' = [s \in Sessions |-> Backfilled(s)]
      /\ \A h \in Handlers : pc'[h] = "idle"
  BY DEF Restart
<1>2. restarts \in Nat
  BY DEF TallyInv, TypeOK
<1>3. SeededFirst'
  <2>1. ASSUME NEW s \in Sessions, ~rows'[s].seeded PROVE rows'[s].turns = 0 /\ rows'[s].results = 0
    <3>1. rows'[s] = rows[s]
      BY <1>1, <2>1 DEF Backfilled, SeededRow, NoRow
    <3> QED BY <2>1, <3>1 DEF TallyInv, SeededFirst
  <2> QED BY <1>1, <2>1 DEF SeededFirst
<1>4. ASSUME NEW s \in Sessions, NEW kind \in Counted PROVE Tallied(s, kind)'
  <2>1. EventsOf(s, kind)' = EventsOf(s, kind) /\ Yet(s, kind)' = {}
    BY <1>1 DEF EventsOf, Yet, Underway, Untallied
  <2>2. Cardinality({}) = 0
    BY FS_EmptySet
  <2>3. Count(s, kind)' \in {Count(s, kind), Cardinality(EventsOf(s, kind))}
    BY <1>1 DEF Count, Counted, Backfilled, SeededRow, NoRow
  <2>4. Count(s, kind) + Cardinality(Yet(s, kind)) <= Cardinality(EventsOf(s, kind))
    BY DEF TallyInv, Tallied
  <2>5. Count(s, kind)' + 0 <= Cardinality(EventsOf(s, kind))
    BY <2>3, <2>4, TallyFinite DEF TallyInv
  <2> QED BY <1>1, <1>2, <2>1, <2>2, <2>5 DEF Tallied
<1> QED BY <1>3, <1>4 DEF TallyInv

LEMMA NextTallies == TallyInv /\ [Next]_vars => TallyInv'
<1> SUFFICES ASSUME TallyInv, [Next]_vars PROVE TallyInv'
  OBVIOUS
<1>0. TypeOK'
  BY NextTypes DEF TallyInv
<1>1. ASSUME NEW h \in Handlers, NEW e \in Requests, StoreEvent(h, e) PROVE TallyInv'
  BY <1>0, <1>1, StoreTallies
<1>2. ASSUME NEW h \in Handlers, Handle(h) PROVE TallyInv'
  BY <1>0, <1>2, HandleTallies
<1>3. ASSUME UNCHANGED <<log, restarts, failures, rows, pc, id>> PROVE TallyInv'
  BY <1>0, <1>3, RowsLeftAlone
<1>4. CASE Run
  BY <1>3, <1>4 DEF Run, Woken, TakePending, Visit, PassOver
<1>5. ASSUME NEW e \in Ids, RecordFailure(e) \/ RecordSuccess(e) PROVE TallyInv'
  BY <1>3, <1>5 DEF RecordFailure, RecordSuccess
<1>6. CASE Restart
  BY <1>0, <1>6, RestartTallies
<1>7. CASE UNCHANGED vars
  BY <1>3, <1>7 DEF vars
<1> QED BY <1>1, <1>2, <1>4, <1>5, <1>6, <1>7 DEF Next

\* The projection counts each prompt and each result at most once, and every one of
\* them unless a statement failed or the process died (updateSessionProjection,
\* migrate's backfill).
THEOREM CountedOnce == Spec => []ProjectionTallies
<1>1. TallyInv => ProjectionTallies
  BY DEF TallyInv, Tallied, Counted, Count, Yet, ProjectionTallies
<1> QED BY <1>1, InitTallies, NextTallies, PTL DEF Spec
-----------------------------------------------------------------------------
(***************************************************************************)
(* No end of a turn is forgotten.  Besides the types, the swap of pending  *)
(* needs to know that no pass is underway: it would lose that pass's rest. *)
(***************************************************************************)
Unnoted == {id[h] : h \in {h \in Handlers : pc[h] \in Untallied \cup {"note"}}}
KeptFor(s) == s \notin pending \cup taken => UnvisitedEnds(s) \subseteq Unnoted
EndInv == TypeOK /\ NoEndForgotten /\ (runner # "visit" => taken = {})

LEMMA KeptForEach == NoEndForgotten <=> \A s \in Sessions : KeptFor(s)
BY DEF NoEndForgotten, KeptFor, Unnoted

\* Whatever keeps the log, the passes and the ends not noted, keeps the ends.
LEMMA EndsStay ==
  ASSUME NoEndForgotten, UNCHANGED <<log, booted, visited>>, Unnoted \subseteq Unnoted',
         pending \cup taken \subseteq (pending \cup taken)'
  PROVE  NoEndForgotten'
<1>1. \A s \in Sessions : UnvisitedEnds(s)' = UnvisitedEnds(s)
  BY DEF UnvisitedEnds
<1>2. \A s \in Sessions : KeptFor(s)'
  BY <1>1, KeptForEach DEF KeptFor
<1> QED BY <1>2 DEF NoEndForgotten, KeptFor, Unnoted

\* A handler's move that leaves what it is to note where it was.
LEMMA MoveKeepsEnds ==
  ASSUME EndInv, NEW h \in Handlers, NEW next \in Steps, Goto(h, next),
         pc[h] \in Untallied \cup {"note"} => next \in Untallied \cup {"note"} /\ UNCHANGED id,
         \A g \in Handlers \ {h} : id'[g] = id[g],
         UNCHANGED <<log, booted, pending, taken, visited, runner>>
  PROVE  NoEndForgotten' /\ (runner' # "visit" => taken' = {})
<1>1. \A g \in Handlers : pc'[g] = IF g = h THEN next ELSE pc[g]
  BY DEF Goto, EndInv, TypeOK
<1>2. ASSUME NEW g \in Handlers, pc[g] \in Untallied \cup {"note"}
      PROVE  pc'[g] \in Untallied \cup {"note"} /\ id'[g] = id[g]
  BY <1>1, <1>2
<1>3. Unnoted \subseteq Unnoted'
  BY <1>2 DEF Unnoted
<1> QED BY <1>3, EndsStay DEF EndInv

LEMMA NoteKeepsEnds ==
  ASSUME EndInv, NEW h \in Handlers, NoteEvent(h)
  PROVE  NoEndForgotten' /\ (runner' # "visit" => taken' = {})
<1>1. UNCHANGED <<log, booted, id, taken, visited, runner>> /\ pending \subseteq pending'
  BY DEF NoteEvent
<1>2. \A g \in Handlers \ {h} : pc'[g] = pc[g]
  BY DEF NoteEvent, Goto, EndInv, TypeOK
<1>3. Unnoted \subseteq Unnoted' \cup {id[h]}
  BY <1>1, <1>2 DEF Unnoted
<1>4. ASSUME NEW s \in Sessions, s \notin (pending \cup taken)' PROVE UnvisitedEnds(s)' \subseteq Unnoted'
  <2>1. UnvisitedEnds(s)' = UnvisitedEnds(s) /\ UnvisitedEnds(s) \subseteq Unnoted
    BY <1>1, <1>4 DEF UnvisitedEnds, EndInv, NoEndForgotten, Unnoted
  <2>2. id[h] \notin UnvisitedEnds(s)
    BY <1>4 DEF NoteEvent, UnvisitedEnds, Served
  <2> QED BY <1>3, <2>1, <2>2
<1> QED BY <1>1, <1>4 DEF NoEndForgotten, Unnoted, EndInv

LEMMA HandleKeepsEnds ==
  ASSUME EndInv, NEW h \in Handlers, Handle(h)
  PROVE  NoEndForgotten' /\ (runner' # "visit" => taken' = {})
<1> USE DEF Steps, Untallied, matVars
<1>1. CASE SeedRow(h)
  BY <1>1, MoveKeepsEnds DEF SeedRow, Statement
<1>2. CASE SetHarness(h)
  BY <1>2, MoveKeepsEnds DEF SetHarness, Statement
<1>3. CASE Tally(h)
  BY <1>3, MoveKeepsEnds DEF Tally, Statement
<1>4. CASE ProjectionFails(h)
  BY <1>4, MoveKeepsEnds DEF ProjectionFails
<1>5. CASE NoteEvent(h)
  BY <1>5, NoteKeepsEnds
<1>6. CASE WakeRunner(h)
  BY <1>6, MoveKeepsEnds DEF WakeRunner
<1>7. CASE Forward(h)
  <2>1. \A g \in Handlers \ {h} : id'[g] = id[g]
    BY <1>7 DEF Forward, EndInv, TypeOK
  <2> QED BY <1>7, <2>1, MoveKeepsEnds DEF Forward
<1> QED BY <1>1, <1>2, <1>3, <1>4, <1>5, <1>6, <1>7 DEF Handle

\* The request that stores an end has it to note.
LEMMA StoreKeepsEnds ==
  ASSUME EndInv, NEW h \in Handlers, NEW ev \in Requests, StoreEvent(h, ev)
  PROVE  NoEndForgotten' /\ (runner' # "visit" => taken' = {})
<1> DEFINE n == Len(log)
<1>1. /\ n \in Nat /\ DOMAIN log = 1..n /\ DOMAIN log' = 1..(n + 1)
      /\ \A e \in 1..n : log'[e] = log[e]
  BY DEF EndInv, TypeOK, StoreEvent
<1>2. UNCHANGED <<booted, pending, taken, visited, runner>>
  BY DEF StoreEvent, matVars
<1>3. pc'[h] = "seed" /\ id'[h] = n + 1 /\ \A g \in Handlers \ {h} : pc'[g] = pc[g] /\ id'[g] = id[g]
  BY DEF StoreEvent, Goto, EndInv, TypeOK
<1>4. pc[h] = "idle"
  BY DEF StoreEvent
<1>5. n + 1 \in Unnoted' /\ Unnoted \subseteq Unnoted'
  BY <1>3, <1>4 DEF Unnoted, Untallied
<1>6. ASSUME NEW s \in Sessions, s \notin (pending \cup taken)' PROVE UnvisitedEnds(s)' \subseteq Unnoted'
  <2>1. UnvisitedEnds(s)' \subseteq UnvisitedEnds(s) \cup {n + 1}
    BY <1>1, <1>2 DEF UnvisitedEnds
  <2>2. UnvisitedEnds(s) \subseteq Unnoted
    BY <1>2, <1>6 DEF EndInv, NoEndForgotten, Unnoted
  <2> QED BY <1>5, <2>1, <2>2
<1> QED BY <1>2, <1>6 DEF NoEndForgotten, Unnoted, EndInv

LEMMA RunKeepsEnds ==
  ASSUME EndInv, Run
  PROVE  NoEndForgotten' /\ (runner' # "visit" => taken' = {})
<1>1. UNCHANGED <<log, booted, pc, id>> /\ Unnoted' = Unnoted
  <2>1. UNCHANGED <<log, booted, pc, id>>
    BY DEF Run, Woken, TakePending, Visit, PassOver
  <2> QED BY <2>1 DEF Unnoted
<1>2. CASE Woken \/ PassOver
  <2>1. UNCHANGED <<pending, taken, visited>> /\ taken' = {}
    BY <1>2 DEF Woken, PassOver, EndInv
  <2> QED BY <1>1, <2>1, EndsStay DEF EndInv
<1>3. CASE TakePending
  <2>1. taken' = pending /\ taken = {} /\ runner' = "visit" /\ UNCHANGED visited
    BY <1>3 DEF TakePending, EndInv
  <2> QED BY <1>1, <2>1, EndsStay DEF EndInv
<1>4. ASSUME NEW t \in Sessions, Visit(t) PROVE NoEndForgotten' /\ (runner' # "visit" => taken' = {})
  <2>1. /\ taken' = taken \ {t} /\ UNCHANGED <<pending, runner>> /\ runner = "visit"
        /\ visited' = [visited EXCEPT ![t] = Len(log)]
    BY <1>4 DEF Visit
  <2>2. visited'[t] = Len(log) /\ \A s \in Sessions \ {t} : visited'[s] = visited[s]
    BY <2>1 DEF EndInv, TypeOK
  <2>3. UnvisitedEnds(t)' = {}
    <3>1. \A e \in DOMAIN log : ~(e > Len(log))
      BY DEF EndInv, TypeOK
    <3> QED BY <1>1, <2>2, <3>1 DEF UnvisitedEnds
  <2>4. \A s \in Sessions \ {t} : UnvisitedEnds(s)' = UnvisitedEnds(s)
    BY <1>1, <2>2 DEF UnvisitedEnds
  <2>5. ASSUME NEW s \in Sessions, s \notin (pending \cup taken)' PROVE UnvisitedEnds(s)' \subseteq Unnoted'
    <3>1. CASE s = t
      BY <2>3, <3>1
    <3>2. CASE s # t
      BY <1>1, <2>1, <2>4, <2>5, <3>2 DEF EndInv, NoEndForgotten, Unnoted
    <3> QED BY <3>1, <3>2
  <2> QED BY <2>1, <2>5 DEF NoEndForgotten, Unnoted
<1> QED BY <1>2, <1>3, <1>4 DEF Run

LEMMA NextEnds == EndInv /\ [Next]_vars => EndInv'
<1> SUFFICES ASSUME EndInv, [Next]_vars PROVE EndInv'
  OBVIOUS
<1> DEFINE Kept == NoEndForgotten' /\ (runner' # "visit" => taken' = {})
<1>1. TypeOK'
  BY NextTypes DEF EndInv
<1>2. ASSUME NEW h \in Handlers, NEW e \in Requests, StoreEvent(h, e) PROVE Kept
  BY <1>2, StoreKeepsEnds
<1>3. ASSUME NEW h \in Handlers, Handle(h) PROVE Kept
  BY <1>3, HandleKeepsEnds
<1>4. ASSUME Run PROVE Kept
  BY <1>4, RunKeepsEnds
<1>5. ASSUME NEW e \in Ids, RecordFailure(e) \/ RecordSuccess(e) PROVE Kept
  <2>1. UNCHANGED <<log, booted, pc, id, matVars>>
    BY <1>5 DEF RecordFailure, RecordSuccess
  <2> QED BY <2>1, EndsStay DEF EndInv, matVars, Unnoted
<1>6. ASSUME Restart PROVE Kept
  <2>1. \A s \in Sessions : UnvisitedEnds(s)' = {}
    <3>1. \A e \in DOMAIN log : ~(e > Len(log))
      BY DEF EndInv, TypeOK
    <3> QED BY <1>6, <3>1 DEF Restart, UnvisitedEnds
  <2> QED BY <1>6, <2>1 DEF Restart, NoEndForgotten
<1>7. ASSUME UNCHANGED vars PROVE Kept
  BY <1>7, EndsStay DEF vars, matVars, EndInv, Unnoted
<1>8. Kept
  BY <1>2, <1>3, <1>4, <1>5, <1>6, <1>7 DEF Next
<1> QED BY <1>1, <1>8 DEF EndInv

\* A turn that ended waits for the materializer's pass, is in its rest, or has a
\* request that will note it: none falls between noteEvent, the pause and the swap.
THEOREM EndsAreKept == Spec => []NoEndForgotten
<1>1. Init => EndInv
  <2> SUFFICES ASSUME Init PROVE NoEndForgotten /\ taken = {}
    BY InitTypes DEF EndInv
  <2> QED BY DEF Init, NoEndForgotten, UnvisitedEnds
<1>2. EndInv => NoEndForgotten
  BY DEF EndInv
<1> QED BY <1>1, <1>2, NextEnds, PTL DEF Spec
=============================================================================
