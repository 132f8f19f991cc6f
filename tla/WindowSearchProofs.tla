------------------------- MODULE WindowSearchProofs -------------------------
(***************************************************************************)
(* Proofs about WindowSearch: the slice of ids a search scans is right by  *)
(* the comparison it makes (SliceRight), for any log, any windows and      *)
(* whatever is stored while it probes.  created_at never goes down, so     *)
(* each comparison speaks for the ids on one side of it (Monotone), and    *)
(* the invariant SliceInv says what the probes made so far have told.      *)
(* At the end, what can be proved of its termination.                      *)
(***************************************************************************)
EXTENDS WindowSearch, TLAPS

\* An id not too early has none too early after it.
LEMMA Monotone ==
  ASSUME TypeOK, InOrder, NEW t \in Time,
         NEW e \in DOMAIN created, NEW f \in DOMAIN created, e <= f
  PROVE  Earlier(created[f], t) => Earlier(created[e], t)
<1>1. created[e] \in Time /\ created[f] \in Time
  BY DEF TypeOK
<1>2. created[e].day \in Nat /\ created[f].day \in Nat /\ t.day \in Nat
  BY <1>1, NumbersAssumption DEF Time
<1>3. created[e].day <= created[f].day
  BY DEF InOrder
<1> QED BY <1>2, <1>3 DEF Earlier

\* The two sides of the window are looked for in turn, those that are open left out.
LEMMA NextQueryIs ==
  ASSUME NEW w, NEW done \in {"none", "since", "until"}
  PROVE  /\ NextQuery(w, done) \in {"since", "until", "query"}
         /\ NextQuery(w, done) = "since" <=> done = "none" /\ w.since # NoTime
         /\ NextQuery(w, done) = "until" => w.until # NoTime /\ done # "until"
         /\ NextQuery(w, done) = "until" /\ done = "none" => w.since = NoTime
         /\ NextQuery(w, done) = "query" /\ done # "until" => w.until = NoTime
         /\ NextQuery(w, done) = "query" /\ done = "none" => w.since = NoTime
BY DEF NextQuery

\* An event stored while a search runs is later than all it has looked at.
LEMMA StoreKeeps ==
  ASSUME SliceInv, NEW t \in Time, StoreEvent(t)
  PROVE  SliceInv'
<1> DEFINE n == Len(created)
<1>1. created \in Seq(Time) /\ n \in Nat /\ DOMAIN created = 1..n
  BY DEF SliceInv, TypeOK
<1>2. /\ created' \in Seq(Time) /\ Len(created') = n + 1 /\ DOMAIN created' = 1..(n + 1)
      /\ \A e \in 1..n : created'[e] = created[e]
      /\ created'[n + 1] = t
  BY <1>1 DEF StoreEvent
<1>3. TypeOK'
  BY <1>1, <1>2, NumbersAssumption DEF StoreEvent, SliceInv, TypeOK, searchVars
<1>4. InOrder'
  <2> SUFFICES ASSUME NEW e \in 1..(n + 1), NEW f \in 1..(n + 1), e <= f
               PROVE  created'[e].day <= created'[f].day
    BY <1>2 DEF InOrder
  <2>1. created'[e].day \in Nat /\ created'[f].day \in Nat
    <3>1. created'[e] \in Time /\ created'[f] \in Time
      BY <1>1, <1>2
    <3> QED BY <3>1, NumbersAssumption DEF Time
  <2>2. CASE f <= n
    BY <2>2, <1>1, <1>2 DEF SliceInv, InOrder
  <2>3. CASE e = n + 1
    BY <2>1, <2>3
  <2>4. CASE e <= n /\ f = n + 1
    <3>1. created # <<>> /\ n \in DOMAIN created /\ e \in DOMAIN created
      BY <2>4, <1>1
    <3>2. created[e].day <= created[n].day
      BY <3>1, <2>4, <1>1 DEF SliceInv, InOrder
    <3>3. created[n].day \in Nat /\ t.day \in Nat /\ created[e].day \in Nat
      <4>1. created[n] \in Time /\ created[e] \in Time
        BY <3>1, <1>1
      <4> QED BY <4>1, NumbersAssumption DEF Time
    <3>4. created[n].day <= t.day
      BY <3>1, <3>3 DEF StoreEvent, Precedes
    <3> QED BY <3>2, <3>3, <3>4, <2>4, <1>2
  <2> QED BY <2>2, <2>3, <2>4, <1>1
<1>5. ASSUME NEW e \in 1..n, NEW u PROVE Earlier(created'[e], u) <=> Earlier(created[e], u)
  BY <1>2 DEF Earlier
<1>6. ASSUME NEW e, NEW u \in Time, First(e, u) PROVE First(e, u)'
  BY <1>1, <1>2, <1>5, <1>6 DEF First
<1>7. IntervalRight'
  BY <1>1, <1>2, <1>5 DEF SliceInv, TypeOK, IntervalRight, TooEarly, Wanted, StoreEvent, searchVars, Probing
<1>8. FromRight' /\ TilRight'
  BY <1>1, <1>2, <1>5, <1>6 DEF SliceInv, TypeOK, FromRight, TilRight, StoreEvent, searchVars, Before, Window
<1>9. Fresh'
  BY DEF SliceInv, Fresh, StoreEvent, searchVars
<1>10. SliceRight'
  BY <1>1, <1>2, <1>5 DEF SliceInv, TypeOK, SliceRight, AtOrAfter, Before, StoreEvent, searchVars
<1> QED BY <1>3, <1>4, <1>7, <1>8, <1>9, <1>10 DEF SliceInv

\* A search that starts, and the log has not changed since.
LEMMA StartKeeps ==
  ASSUME SliceInv, NEW w \in Windows, Start(w)
  PROVE  SliceInv'
<1>1. w \in Window
  BY WindowsAssumption
<1>2. /\ created' = created /\ lo' = lo /\ hi' = hi /\ from' = from /\ til' = til
      /\ hits' = hits /\ ask' = w /\ began' = Len(created) /\ from = 0 /\ til = 0 /\ hits = {}
  BY DEF Start, SliceInv, Fresh
<1>3. /\ pc' = "query" => w.until = NoTime /\ w.since = NoTime
      /\ pc' # "query" => pc' = "bounds" /\ side' \in {"since", "until"}
      /\ pc' = "query" => side' = side
      /\ pc' = "bounds" /\ side' = "since" => w.since # NoTime
      /\ pc' = "bounds" /\ side' = "until" => w.since = NoTime /\ w.until # NoTime
  BY NextQueryIs DEF Start, Turn
<1>4. TypeOK'
  BY <1>1, <1>2, <1>3 DEF SliceInv, TypeOK, Probing, Steps
<1>5. InOrder' /\ SliceRight' /\ Fresh'
  BY <1>2, <1>3 DEF SliceInv, InOrder, SliceRight, Fresh
<1>6. IntervalRight'
  BY <1>2, <1>3 DEF IntervalRight, Probing, Wanted
<1>7. FromRight' /\ TilRight'
  BY <1>2, <1>3 DEF FromRight, TilRight, Probing, Before
<1> QED BY <1>4, <1>5, <1>6, <1>7 DEF SliceInv

\* A search that finds no event late enough: either the window has nothing of it, or
\* its right edge is past the log's end.
LEMMA NotFoundKeeps ==
  ASSUME SliceInv, NotFound, pc \in {"bounds", "newest"},
         \A e \in 1..began : TooEarly(e),
         lo' \in 0..Len(created), hi' \in 0..Len(created),
         UNCHANGED <<created, ask, began, hits>>
  PROVE  SliceInv'
<1>1. /\ side = "since" => pc' = "answer" /\ side' = side
      /\ side = "until" => pc' = "query" /\ side' = side
      /\ from' = from /\ til' = til
  BY NextQueryIs DEF NotFound, Turn
<1>2. TypeOK'
  BY <1>1 DEF SliceInv, TypeOK, Probing, Steps
<1>3. side = "until" => \A e \in 1..began : Before(e, ask.until)
  BY DEF TooEarly, Wanted, Before
<1>4. side = "since" => ask.since # NoTime /\ \A e \in 1..began : ~AtOrAfter(e, ask.since)
  BY DEF TooEarly, Wanted, AtOrAfter, SliceInv, IntervalRight, Probing
<1>5. hits = {} /\ side \in {"since", "until"}
  BY DEF SliceInv, Fresh, TypeOK
<1>6. InOrder' /\ Fresh'
  BY <1>1, <1>5 DEF SliceInv, InOrder, Fresh
<1>7. SliceRight'
  BY <1>1, <1>4, <1>5 DEF SliceRight, AtOrAfter, Before
<1>8. IntervalRight'
  BY <1>1, <1>5 DEF IntervalRight, Probing
<1>9. FromRight' /\ TilRight'
  BY <1>1, <1>3, <1>5 DEF SliceInv, FromRight, TilRight, First, Before, Probing
<1> QED BY <1>2, <1>6, <1>7, <1>8, <1>9 DEF SliceInv

\* A search that has found its bound.
LEMMA FoundKeeps ==
  ASSUME SliceInv, pc \in Probing, NEW e \in DOMAIN created, Found(e), First(e, Wanted),
         UNCHANGED <<created, ask, began, lo, hi, hits>>
  PROVE  SliceInv'
<1>1. side \in {"since", "until"} /\ Wanted # NoTime /\ e \in 1..Len(created) /\ e # 0
  BY DEF SliceInv, TypeOK, IntervalRight
<1>2. /\ side = "since" => from' = e /\ til' = til /\ til = 0 /\ ask.since # NoTime
      /\ side = "until" => from' = from /\ til' = e /\ ask.until # NoTime
  BY <1>1 DEF Found, SliceInv, TilRight, Wanted
<1>3. /\ pc' \in {"bounds", "query"}
      /\ pc' = "bounds" => side = "since" /\ side' = "until" /\ ask.until # NoTime
      /\ pc' = "query" => side' = side
      /\ pc' = "query" /\ side = "since" => ask.until = NoTime
  BY <1>1, NextQueryIs DEF Found, Turn
<1>4. TypeOK'
  BY <1>1, <1>2, <1>3 DEF SliceInv, TypeOK, Probing, Steps
<1>5. InOrder' /\ SliceRight' /\ Fresh'
  BY <1>3 DEF SliceInv, InOrder, SliceRight, Fresh, Probing
<1>6. IntervalRight'
  BY <1>3 DEF IntervalRight, Probing, Wanted
<1>7. FromRight'
  BY <1>1, <1>2, <1>3 DEF SliceInv, FromRight, Probing, First, Wanted
<1>8. TilRight'
  BY <1>1, <1>2, <1>3 DEF SliceInv, TilRight, Probing, First, Wanted, Before
<1> QED BY <1>4, <1>5, <1>6, <1>7, <1>8 DEF SliceInv

\* The interval's ends exist while a search probes; an end that moves stays right.
LEMMA ProbeKeeps ==
  ASSUME SliceInv, ProbeNewest \/ ProbeOldest \/ ProbeMiddle \/ Narrowed
  PROVE  SliceInv'
<1> DEFINE n == Len(created)
<1>1. /\ created \in Seq(Time) /\ n \in Nat /\ DOMAIN created = 1..n
      /\ pc \in Probing => lo \in 1..n /\ hi \in 1..n /\ lo <= hi
      /\ side \in {"since", "until"} /\ began \in 0..n
  BY DEF SliceInv, TypeOK
<1>2. pc \in Probing => Wanted \in Time
  BY DEF SliceInv, TypeOK, IntervalRight, Wanted, Window
<1>3. CASE ProbeNewest
  <2>1. pc = "newest" /\ pc \in Probing /\ began <= hi
    BY <1>3 DEF ProbeNewest, Probing, SliceInv, IntervalRight
  <2>2. CASE TooEarly(hi)
    <3>1. \A e \in 1..began : TooEarly(e)
      BY <1>1, <1>2, <2>1, <2>2, Monotone DEF TooEarly, SliceInv
    <3> QED BY <3>1, <2>1, <2>2, <1>1, <1>3, NotFoundKeeps DEF ProbeNewest
  <2>3. CASE ~TooEarly(hi)
    <3>1. pc' = "oldest" /\ UNCHANGED <<created, ask, side, began, lo, hi, from, til, hits>>
      BY <1>3, <2>3 DEF ProbeNewest
    <3>2. Wanted' = Wanted /\ TooEarly(hi)' = TooEarly(hi)
      BY <3>1 DEF Wanted, TooEarly
    <3>3. TypeOK' /\ InOrder' /\ SliceRight' /\ Fresh'
      BY <2>1, <3>1 DEF SliceInv, TypeOK, InOrder, SliceRight, Fresh, Probing, Steps
    <3>4. IntervalRight'
      BY <2>1, <2>3, <3>1, <3>2 DEF SliceInv, IntervalRight, Probing
    <3>5. FromRight' /\ TilRight'
      BY <2>1, <3>1 DEF SliceInv, FromRight, TilRight, First, Before, Probing
    <3> QED BY <3>3, <3>4, <3>5 DEF SliceInv
  <2> QED BY <2>2, <2>3
<1>4. CASE ProbeOldest
  <2>1. pc = "oldest" /\ pc \in Probing
    BY <1>4 DEF ProbeOldest, Probing
  <2>2. CASE TooEarly(lo)
    <3>1. pc' = "search" /\ UNCHANGED <<created, ask, side, began, lo, hi, from, til, hits>>
      BY <1>4, <2>2 DEF ProbeOldest
    <3>2. Wanted' = Wanted /\ TooEarly(hi)' = TooEarly(hi) /\ TooEarly(lo)' = TooEarly(lo)
      BY <3>1 DEF Wanted, TooEarly
    <3>3. TypeOK' /\ InOrder' /\ SliceRight' /\ Fresh'
      BY <2>1, <3>1 DEF SliceInv, TypeOK, InOrder, SliceRight, Fresh, Probing, Steps
    <3>4. IntervalRight'
      BY <2>1, <2>2, <3>1, <3>2 DEF SliceInv, IntervalRight, Probing
    <3>5. FromRight' /\ TilRight'
      BY <2>1, <3>1 DEF SliceInv, FromRight, TilRight, First, Before, Probing
    <3> QED BY <3>3, <3>4, <3>5 DEF SliceInv
  <2>3. CASE ~TooEarly(lo)
    <3>1. lo = 1
      BY <2>1 DEF SliceInv, IntervalRight
    <3>2. First(lo, Wanted)
      BY <3>1, <2>1, <2>3, <1>1 DEF First, TooEarly
    <3> QED BY <3>2, <2>1, <2>3, <1>1, <1>4, FoundKeeps DEF ProbeOldest
  <2> QED BY <2>2, <2>3
<1>5. CASE ProbeMiddle
  <2> DEFINE mid == lo + (hi - lo) \div 2
  <2>1. /\ pc = "search" /\ pc' = "search" /\ pc \in Probing /\ Halvable
        /\ UNCHANGED <<created, ask, side, began, from, til, hits>>
        /\ IF TooEarly(mid) THEN lo' = mid /\ hi' = hi ELSE hi' = mid /\ lo' = lo
    BY <1>5 DEF ProbeMiddle, Probing
  <2>2. mid \in Nat /\ lo < mid /\ mid < hi
    BY <1>1, <2>1 DEF Halvable
  <2>3. lo' \in 1..n /\ hi' \in 1..n /\ lo' <= hi'
    BY <1>1, <2>1, <2>2
  <2>4. TooEarly(lo)' /\ ~TooEarly(hi)' /\ Wanted' = Wanted
    BY <2>1 DEF SliceInv, IntervalRight, TooEarly, Wanted
  <2>5. TypeOK'
    BY <1>1, <2>1, <2>3 DEF SliceInv, TypeOK, Probing, Steps
  <2>6. InOrder' /\ SliceRight' /\ Fresh'
    BY <2>1 DEF SliceInv, InOrder, SliceRight, Fresh
  <2>7. IntervalRight'
    BY <2>1, <2>4 DEF SliceInv, IntervalRight, Probing
  <2>8. FromRight' /\ TilRight'
    BY <2>1 DEF SliceInv, FromRight, TilRight, First, Before, Probing
  <2> QED BY <2>5, <2>6, <2>7, <2>8 DEF SliceInv
<1>6. CASE Narrowed
  <2>1. pc = "search" /\ pc \in Probing /\ hi <= lo + 1 /\ TooEarly(lo) /\ ~TooEarly(hi)
    BY <1>1, <1>6 DEF Narrowed, Probing, Halvable, SliceInv, IntervalRight
  <2>2. ASSUME NEW f \in DOMAIN created, f < hi PROVE TooEarly(f)
    <3>1. f <= lo
      BY <1>1, <2>1, <2>2
    <3> QED BY <3>1, <1>1, <1>2, <2>1, Monotone DEF TooEarly, SliceInv
  <2>3. First(hi, Wanted)
    BY <1>1, <2>1, <2>2 DEF First, TooEarly
  <2> QED BY <2>1, <2>3, <1>1, <1>6, FoundKeeps DEF Narrowed
<1> QED BY <1>3, <1>4, <1>5, <1>6

LEMMA BoundsKeep ==
  ASSUME SliceInv, ReadBounds
  PROVE  SliceInv'
<1>1. /\ created \in Seq(Time) /\ Len(created) \in Nat /\ began \in 0..Len(created)
      /\ side \in {"since", "until"} /\ pc = "bounds"
  BY DEF SliceInv, TypeOK, ReadBounds
<1>2. CASE created = <<>>
  <2>1. began = 0 /\ 0 \in 0..Len(created) /\ Len(created) \in 0..Len(created)
    BY <1>1, <1>2
  <2> QED BY <1>1, <1>2, <2>1, NotFoundKeeps DEF ReadBounds
<1>3. CASE created # <<>>
  <2>1. /\ pc' = "newest" /\ lo' = 1 /\ hi' = Len(created) /\ hi' \in Nat /\ 1 <= hi'
        /\ UNCHANGED <<created, ask, side, began, from, til, hits>>
    BY <1>1, <1>3 DEF ReadBounds
  <2>2. TypeOK'
    BY <1>1, <2>1 DEF SliceInv, TypeOK, Probing, Steps
  <2>3. InOrder' /\ SliceRight' /\ Fresh'
    BY <1>1, <2>1 DEF SliceInv, InOrder, SliceRight, Fresh
  <2>4. IntervalRight'
    BY <1>1, <2>1 DEF SliceInv, IntervalRight, Probing, Wanted
  <2>5. FromRight' /\ TilRight'
    BY <1>1, <2>1 DEF SliceInv, FromRight, TilRight, First, Before, Probing
  <2> QED BY <2>2, <2>3, <2>4, <2>5 DEF SliceInv
<1> QED BY <1>2, <1>3

\* The ids from the left bound to the right one are the events inside the window.
LEMMA QueryKeeps ==
  ASSUME SliceInv, Query
  PROVE  SliceInv'
<1>1. /\ created \in Seq(Time) /\ Len(created) \in Nat /\ DOMAIN created = 1..Len(created)
      /\ began \in 0..Len(created) /\ ask \in Window
      /\ from \in 0..Len(created) /\ til \in 0..Len(created)
  BY DEF SliceInv, TypeOK
<1>2. /\ pc = "query" /\ pc' = "answer"
      /\ hits' = {e \in DOMAIN created : from <= e /\ (til # 0 => e < til)}
      /\ UNCHANGED <<created, ask, side, began, lo, hi, from, til>>
  BY DEF Query
<1>3. ASSUME NEW e \in DOMAIN created PROVE from <= e <=> AtOrAfter(e, ask.since)
  <2>1. CASE from = 0
    BY <1>1, <1>2, <2>1 DEF SliceInv, FromRight, AtOrAfter
  <2>2. CASE from # 0
    <3>1. ask.since # NoTime /\ ask.since \in Time /\ First(from, ask.since)
      BY <1>1, <2>2 DEF SliceInv, FromRight, Window
    <3>2. from <= e => ~Earlier(created[e], ask.since)
      BY <3>1, Monotone DEF SliceInv, First
    <3> QED BY <1>1, <3>1, <3>2 DEF First, AtOrAfter
  <2> QED BY <2>1, <2>2
<1>4. ASSUME NEW e \in 1..began PROVE (til # 0 => e < til) <=> Before(e, ask.until)
  <2>1. CASE til = 0
    BY <1>2, <2>1 DEF SliceInv, TilRight
  <2>2. CASE til # 0
    <3>1. ask.until # NoTime /\ ask.until \in Time /\ First(til, ask.until)
      BY <1>1, <2>2 DEF SliceInv, TilRight, Window
    <3>2. e \in DOMAIN created
      BY <1>1
    <3>3. til <= e => ~Earlier(created[e], ask.until)
      BY <3>1, <3>2, Monotone DEF SliceInv, First
    <3> QED BY <1>1, <2>2, <3>1, <3>2, <3>3 DEF First, Before
  <2> QED BY <2>1, <2>2
<1>5. SliceRight'
  <2>1. \A e \in hits' : AtOrAfter(e, ask.since)
    BY <1>2, <1>3
  <2>2. \A e \in 1..began : e \in hits' <=> AtOrAfter(e, ask.since) /\ Before(e, ask.until)
    <3>1. \A e \in 1..began : e \in DOMAIN created
      BY <1>1
    <3> QED BY <1>2, <1>3, <1>4, <3>1
  <2> QED BY <1>2, <2>1, <2>2 DEF SliceRight, AtOrAfter, Before
<1>6. TypeOK'
  BY <1>2 DEF SliceInv, TypeOK, Probing, Steps
<1>7. InOrder' /\ Fresh'
  BY <1>2 DEF SliceInv, InOrder, Fresh
<1>8. IntervalRight'
  BY <1>2 DEF IntervalRight, Probing
<1>9. FromRight' /\ TilRight'
  BY <1>2 DEF SliceInv, FromRight, TilRight, First, Probing
<1> QED BY <1>5, <1>6, <1>7, <1>8, <1>9 DEF SliceInv

LEMMA AnswerKeeps ==
  ASSUME SliceInv, Answer
  PROVE  SliceInv'
<1>1. /\ created' = created /\ pc' = "idle" /\ hits' = {} /\ from' = 0 /\ til' = 0
      /\ began' = 0 /\ lo' = 0 /\ hi' = 0 /\ side' = "since"
      /\ ask' = [since |-> NoTime, until |-> NoTime]
  BY DEF Answer
<1>2. TypeOK'
  BY <1>1 DEF SliceInv, TypeOK, Probing, Steps, Window
<1>3. InOrder' /\ SliceRight' /\ Fresh'
  BY <1>1 DEF SliceInv, InOrder, SliceRight, Fresh
<1>4. IntervalRight' /\ FromRight' /\ TilRight'
  BY <1>1 DEF IntervalRight, FromRight, TilRight, Probing
<1> QED BY <1>2, <1>3, <1>4 DEF SliceInv

-----------------------------------------------------------------------------
LEMMA SliceInvariant == Spec => []SliceInv
<1>1. Init => SliceInv
  <2> SUFFICES ASSUME Init PROVE SliceInv
    OBVIOUS
  <2>1. TypeOK
    BY NumbersAssumption DEF Init, TypeOK, Steps, Window, Probing
  <2> QED BY <2>1 DEF Init, SliceInv, InOrder, IntervalRight, FromRight, TilRight, Fresh,
                      SliceRight, Probing
<1>2. SliceInv /\ [Next]_vars => SliceInv'
  <2> SUFFICES ASSUME SliceInv, [Next]_vars PROVE SliceInv'
    OBVIOUS
  <2>1. CASE \E t \in Time : StoreEvent(t)
    BY <2>1, StoreKeeps
  <2>2. CASE \E w \in Windows : Start(w)
    BY <2>2, StartKeeps
  <2>3. CASE Step
    BY <2>3, ProbeKeeps, BoundsKeep, QueryKeeps, AnswerKeeps DEF Step
  <2>4. CASE UNCHANGED vars
    BY <2>4 DEF vars, searchVars, SliceInv, TypeOK, InOrder, IntervalRight, FromRight,
                TilRight, Fresh, SliceRight, First, TooEarly, Wanted, AtOrAfter, Before
  <2> QED BY <2>1, <2>2, <2>3, <2>4 DEF Next
<1> QED BY <1>1, <1>2, PTL DEF Spec

\* What SearchSessionsInWindow scans is right by the comparison it makes, whatever is
\* stored while it probes: nothing before the window, and of the events there at the
\* start exactly those inside it.
THEOREM SliceIsRight == Spec => []SliceRight
<1>1. SliceInv => SliceRight
  BY DEF SliceInv
<1> QED BY <1>1, SliceInvariant, PTL

\* A search's locals, and the events it works on, keep their types
\* (SearchSessionsInWindow).
THEOREM TypesKept == Spec => []TypeOK
<1>1. SliceInv => TypeOK
  BY DEF SliceInv
<1> QED BY <1>1, SliceInvariant, PTL
-----------------------------------------------------------------------------
(***************************************************************************)
(* Termination, up to fairness: how far a search is from its answer.       *)
(***************************************************************************)
StepsFrom == [idle |-> 0, answer |-> 1, query |-> 2, search |-> 3, oldest |-> 4,
              newest |-> 5, bounds |-> 6]

\* The left bound is looked for before the right one.
StepsLeft ==
    StepsFrom[pc] + IF side = "since" /\ pc \in Probing \cup {"bounds"} THEN 4 ELSE 0

\* A step takes the search on, or shortens the interval it is halving.
Advances ==
    \/ StepsLeft' < StepsLeft
    \/ pc = "search" /\ pc' = pc /\ side' = side /\ hi' - lo' \in 0..(hi - lo - 1)

\* A search is never stuck on an interval: between its ends there is an id to probe.
MiddleInside == pc = "search" /\ Halvable => lo + (hi - lo) \div 2 \in (lo + 1)..(hi - 1)

\* Once a bound is found or given up, a search is nearer its end.
LEMMA BoundDone ==
  ASSUME SliceInv, pc \in {"bounds", "newest", "oldest", "search"},
         NotFound \/ \E e : Found(e)
  PROVE  StepsLeft' < StepsLeft
<1>1. side \in {"since", "until"}
  BY DEF SliceInv, TypeOK
<1>2. StepsLeft \in Nat /\ StepsLeft >= IF side = "since" THEN 7 ELSE 3
  BY DEF StepsLeft, StepsFrom, Probing
<1>3. /\ pc' \in {"bounds", "query", "answer"} /\ (pc' # "bounds" => side' = side)
      /\ pc' = "bounds" => side = "since" /\ side' = "until"
  BY <1>1, NextQueryIs DEF NotFound, Found, Turn
<1>4. StepsLeft' \in Nat /\ StepsLeft' <= IF side = "since" THEN 6 ELSE 2
  BY <1>1, <1>3 DEF StepsLeft, StepsFrom, Probing
<1> QED BY <1>1, <1>2, <1>4

LEMMA StepAdvances == ASSUME SliceInv, Step PROVE Advances
<1>1. /\ side \in {"since", "until"} /\ lo \in Nat /\ hi \in Nat
      /\ pc \in Probing => lo <= hi
  BY DEF SliceInv, TypeOK
<1>2. CASE ReadBounds \/ ProbeNewest \/ ProbeOldest
  <2>1. \/ pc \in {"bounds", "newest", "oldest"} /\ (NotFound \/ \E e : Found(e))
        \/ /\ side' = side
           /\ <<pc, pc'>> \in {<<"bounds", "newest">>, <<"newest", "oldest">>, <<"oldest", "search">>}
    BY <1>2 DEF ReadBounds, ProbeNewest, ProbeOldest
  <2> QED BY <2>1, <1>1, BoundDone DEF Advances, StepsLeft, StepsFrom, Probing
<1>3. CASE ProbeMiddle
  BY <1>1, <1>3 DEF ProbeMiddle, Halvable, Probing, Advances
<1>4. CASE Narrowed
  BY <1>4, BoundDone DEF Narrowed, Advances
<1>5. CASE Query \/ Answer
  BY <1>5 DEF Query, Answer, Advances, StepsLeft, StepsFrom, Probing
<1> QED BY <1>2, <1>3, <1>4, <1>5 DEF Step

\* Of SearchEnds, what does not need fairness: each query of a search brings it nearer
\* its answer, by a measure that what ingest stores meanwhile never raises; and the
\* interval always has an inner id to probe (firstEventIDAtOrAfter).
THEOREM SearchAdvances ==
  /\ Spec => [][Step => Advances]_vars
  /\ Spec => [][\A t \in Time : StoreEvent(t) => UNCHANGED <<StepsLeft, lo, hi>>]_vars
  /\ Spec => []MiddleInside
<1>1. SliceInv /\ [Next]_vars => [Step => Advances]_vars
  BY StepAdvances
<1>2. [\A t \in Time : StoreEvent(t) => UNCHANGED <<StepsLeft, lo, hi>>]_vars
  BY DEF StoreEvent, searchVars, StepsLeft
<1>3. SliceInv => MiddleInside
  BY DEF SliceInv, TypeOK, MiddleInside, Halvable
<1> QED BY <1>1, <1>2, <1>3, SliceInvariant, PTL DEF Spec
=============================================================================
