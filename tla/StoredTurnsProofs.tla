-------------------------- MODULE StoredTurnsProofs --------------------------
(***************************************************************************)
(* Proofs about StoredTurns: what is stored for a turn was always built    *)
(* from prefixes of the log (StoredInv); the three comparisons of          *)
(* NeedsMaterializing suffice to tell that those prefixes say the same     *)
(* about the turn as the whole log does (FreshIsRight); pairs never come   *)
(* apart (PairsStay); a page is as new as its read (PageAsNewAsRead); and  *)
(* every variable keeps its type.                                          *)
(***************************************************************************)
EXTENDS StoredTurns, NatSets

\* The last event of a turn is one of its events and no other comes after it.
LEMMA LastEventIsLast ==
  ASSUME NEW l, NEW n \in Nat, NEW t
  PROVE  \A e \in TurnEvents(l, n, t) :
            e <= LastEvent(l, n, t) /\ LastEvent(l, n, t) \in TurnEvents(l, n, t)
<1> SUFFICES ASSUME NEW e \in TurnEvents(l, n, t)
             PROVE  e <= LastEvent(l, n, t) /\ LastEvent(l, n, t) \in TurnEvents(l, n, t)
  OBVIOUS
<1>1. TurnEvents(l, n, t) \subseteq 0..n
  BY DEF TurnEvents
<1>2. \E g \in TurnEvents(l, n, t) : \A f \in TurnEvents(l, n, t) : f <= g
  BY <1>1, GreatestExists
<1> QED BY <1>2 DEF LastEvent

-----------------------------------------------------------------------------
(***************************************************************************)
(* What is computed from a prefix depends on that prefix only.             *)
(***************************************************************************)
LEMMA TwinOfPrefix ==
  ASSUME NEW l, NEW k, NEW n \in Nat, \A i \in 1..n : l[i] = k[i],
         NEW e \in 1..n
  PROVE  Twin(l, n, e) = Twin(k, n, e)
<1>1. \A f \in 1..n : Place(l, f) = Place(k, f)
  BY DEF Place, Copy
<1> DEFINE twins(w) == {f \in 1..n : /\ w[f].text = w[e].text /\ w[f].source # w[e].source
                                    /\ Place(w, f) = Place(w, e)}
<1>2. twins(l) = twins(k)
  BY <1>1
<1> DEFINE twin(w) == IF w[e].text = Plain \/ twins(w) = {} THEN 0 ELSE CHOOSE f \in twins(w) : TRUE
<1>3. Twin(l, n, e) = twin(l) /\ Twin(k, n, e) = twin(k)
  BY DEF Twin
<1>4. twin(l) = twin(k)
  <2> HIDE DEF twins
  <2>1. l[e] = k[e]
    OBVIOUS
  <2> QED BY <1>2, <2>1
<1> QED BY <1>3, <1>4

LEMMA BuiltOfPrefix ==
  ASSUME NEW l, NEW k, NEW N \in Nat, \A i \in 1..N : l[i] = k[i],
         NEW n \in 0..N, NEW m \in 0..N, NEW v, NEW t
  PROVE  Built(l, v, n, m, t) = Built(k, v, n, m, t)
<1>1. TurnEvents(l, n, t) = TurnEvents(k, n, t) /\ TurnEvents(l, m, t) = TurnEvents(k, m, t)
  BY DEF TurnEvents
<1>2. \A e \in 1..N : Twin(l, m, e) = Twin(k, m, e)
  <2> SUFFICES ASSUME NEW e \in 1..N PROVE Twin(l, m, e) = Twin(k, m, e)
    OBVIOUS
  <2>1. CASE e \in 1..m
    BY <2>1, TwinOfPrefix
  <2>2. CASE e \notin 1..m
    BY <2>2 DEF Twin
  <2> QED BY <2>1, <2>2
<1>3. Fingerprint(l, m, t) = Fingerprint(k, m, t)
  BY <1>1, <1>2 DEF Fingerprint, TurnEvents
<1>4. Entries(l, n, m, t) = Entries(k, n, m, t)
  <2>1. \A e \in TurnEvents(l, n, t) : e \in 1..N /\ (Hidden(l, m, e) <=> Hidden(k, m, e))
    BY <1>2 DEF Hidden, TurnEvents
  <2> QED BY <1>1, <1>2, <2>1 DEF Entries
<1>5. LastEvent(l, n, t) = LastEvent(k, n, t)
  BY <1>1 DEF LastEvent
<1> QED BY <1>3, <1>4, <1>5 DEF Built

\* Two prefixes with the same events and candidate pairs of a turn build it alike.
LEMMA SameBuild ==
  ASSUME NEW l, NEW N \in Nat, NEW n \in 0..N, NEW m \in 0..N, NEW v, NEW t,
         TurnEvents(l, n, t) = TurnEvents(l, N, t),
         Fingerprint(l, m, t) = Fingerprint(l, N, t)
  PROVE  Built(l, v, n, m, t) = Built(l, v, N, N, t)
<1>1. \A e \in TurnEvents(l, N, t) : Twin(l, m, e) = Twin(l, N, e)
  <2> SUFFICES ASSUME NEW e \in TurnEvents(l, N, t) PROVE Twin(l, m, e) = Twin(l, N, e)
    OBVIOUS
  <2>1. CASE l[e].text = Plain
    BY <2>1 DEF Twin
  <2>2. CASE l[e].text # Plain
    <3>1. e \in DOMAIN Fingerprint(l, N, t) /\ e \in DOMAIN Fingerprint(l, m, t)
      BY <2>2 DEF Fingerprint
    <3>2. Fingerprint(l, N, t)[e] = Twin(l, N, e) /\ Fingerprint(l, m, t)[e] = Twin(l, m, e)
      BY <3>1 DEF Fingerprint
    <3> QED BY <3>2
  <2> QED BY <2>1, <2>2
<1>2. Entries(l, n, m, t) = Entries(l, N, N, t)
  <2>1. \A e \in TurnEvents(l, N, t) : Hidden(l, m, e) <=> Hidden(l, N, e)
    BY <1>1 DEF Hidden
  <2> QED BY <1>1, <2>1 DEF Entries
<1>3. LastEvent(l, n, t) = LastEvent(l, N, t)
  BY DEF LastEvent
<1> QED BY <1>2, <1>3 DEF Built

-----------------------------------------------------------------------------
LEMMA InitStored == Init => StoredInv
<1> SUFFICES ASSUME Init PROVE StoredInv
  OBVIOUS
<1>1. log \in Seq(Event) /\ Len(log) = 0
  BY DEF Init
<1> QED BY <1>1 DEF Init, StoredInv, WasBuilt

LEMMA StoreEventStored ==
  ASSUME StoredInv, NEW ev \in Event, StoreEvent(ev)
  PROVE  StoredInv'
<1> DEFINE N == Len(log)
<1>1. /\ log' \in Seq(Event) /\ Len(log') = N + 1 /\ N \in Nat
      /\ \A i \in 1..N : log[i] = log'[i]
  BY DEF StoredInv, StoreEvent
<1>2. \A v \in Versions, n, m \in 0..N, t \in Seqs :
          Built(log, v, n, m, t) = Built(log', v, n, m, t)
  <2> HIDE DEF N
  <2> QED BY <1>1, BuiltOfPrefix
<1>3. ASSUME NEW t \in Seqs PROVE WasBuilt(stored[t], t)'
  <2>1. WasBuilt(stored[t], t) /\ stored' = stored
    BY DEF StoredInv, StoreEvent
  <2>2. CASE stored[t] = NoBuild
    BY <2>1, <2>2 DEF WasBuilt, NoBuild
  <2>3. CASE \E v \in Versions, n, m \in 0..N : stored[t] = Built(log, v, n, m, t)
    <3>1. PICK v \in Versions, n \in 0..N, m \in 0..N : stored[t] = Built(log, v, n, m, t)
      BY <2>3
    <3>2. stored'[t] = Built(log', v, n, m, t) /\ n \in 0..Len(log') /\ m \in 0..Len(log')
      BY <1>1, <1>2, <2>1, <3>1
    <3> QED BY <3>2 DEF WasBuilt
  <2> QED BY <2>1, <2>2, <2>3 DEF WasBuilt
<1> QED BY <1>1, <1>3 DEF StoredInv, StoreEvent, procVars

\* A step that leaves the log and the binary alone, and stores at most builds.
LEMMA QuietStored ==
  ASSUME StoredInv, UNCHANGED log, version' \in Versions,
         paired' \in [Procs -> 0..Len(log)], rows' \in [Procs -> 0..Len(log)],
         DOMAIN stored' = Seqs,
         \A t \in Seqs : stored'[t] = stored[t] \/ WasBuilt(stored'[t], t)
  PROVE  StoredInv'
<1>1. ASSUME NEW t \in Seqs PROVE WasBuilt(stored[t], t)'
  <2>1. WasBuilt(stored'[t], t)
    BY DEF StoredInv
  <2> QED BY <2>1 DEF WasBuilt
<1> QED BY <1>1 DEF StoredInv

LEMMA ReadWindowStored ==
  ASSUME StoredInv, NEW p \in Procs, NEW W, NEW none, ReadWindow(p, W, none)
  PROVE  StoredInv'
<1>1. \A t \in Seqs : stored'[t] = stored[t] \/ WasBuilt(stored'[t], t)
  BY DEF ReadWindow, IndexedStored, WasBuilt
<1>2. DOMAIN stored' = Seqs
  BY DEF ReadWindow, IndexedStored, StoredInv
<1> QED BY <1>1, <1>2, QuietStored DEF ReadWindow, StoredInv

LEMMA ReplaceStored ==
  ASSUME StoredInv, NEW p \in Procs, ReplaceMaterializedTurn(p)
  PROVE  StoredInv'
<1> DEFINE t == NextStale(p)
           build == Built(log, version, rows[p], paired[p], t)
<1>1. stored' = [stored EXCEPT ![t] = build] /\ UNCHANGED <<log, version, paired>>
      /\ rows' = [rows EXCEPT ![p] = 0]
  BY DEF ReplaceMaterializedTurn
<1>2. version \in Versions /\ rows[p] \in 0..Len(log) /\ paired[p] \in 0..Len(log)
  BY DEF StoredInv
<1>3. WasBuilt(build, t)
  <2> HIDE DEF t
  <2> QED BY <1>2 DEF WasBuilt
<1>4. DOMAIN stored' = Seqs
  BY <1>1 DEF StoredInv
<1>5. \A u \in Seqs : stored'[u] = stored[u] \/ WasBuilt(stored'[u], u)
  <2> HIDE DEF t, build
  <2> QED BY <1>1, <1>3 DEF StoredInv
<1>6. rows' \in [Procs -> 0..Len(log)]
  BY <1>1 DEF StoredInv
<1> QED BY <1>1, <1>4, <1>5, <1>6, QuietStored DEF StoredInv

\* The steps that do not touch the database.
LEMMA LocalStored ==
  ASSUME StoredInv, UNCHANGED <<log, stored>>, version' \in Versions,
         paired' \in [Procs -> 0..Len(log)], rows' \in [Procs -> 0..Len(log)]
  PROVE  StoredInv'
BY QuietStored DEF StoredInv

LEMMA ForgetTypes ==
  ASSUME StoredInv, NEW P, Forget(P)
  PROVE  paired' \in [Procs -> 0..Len(log)] /\ rows' \in [Procs -> 0..Len(log)]
BY DEF StoredInv, Forget

LEMMA StepStored ==
  ASSUME StoredInv, NEW p \in Procs, Step(p)
  PROVE  StoredInv'
<1>1. CASE ReadPairs(p)
  BY <1>1, LocalStored DEF ReadPairs, StoredInv
<1>2. CASE ReadTurnEvents(p)
  BY <1>2, LocalStored DEF ReadTurnEvents, StoredInv
<1>3. CASE ReplaceMaterializedTurn(p)
  BY <1>3, ReplaceStored
<1>4. CASE ReadEntries(p)
  BY <1>4, LocalStored DEF ReadEntries, StoredInv
<1>5. CASE ReadValidator(p)
  BY <1>5, LocalStored DEF ReadValidator, StoredInv
<1>6. CASE Answer(p)
  BY <1>6, LocalStored, ForgetTypes DEF Answer, StoredInv
<1> QED BY <1>1, <1>2, <1>3, <1>4, <1>5, <1>6 DEF Step

LEMMA NextStored == StoredInv /\ [Next]_vars => StoredInv'
<1> SUFFICES ASSUME StoredInv, [Next]_vars PROVE StoredInv'
  OBVIOUS
<1>1. ASSUME NEW ev \in Event, StoreEvent(ev) PROVE StoredInv'
  BY <1>1, StoreEventStored
<1>2. ASSUME NEW p \in Readers, NEW r \in Requests, StartPage(p, r) \/ StartEntry(p, r)
      PROVE  StoredInv'
  <2>1. p \in Procs
    BY DEF Procs
  <2> QED BY <1>2, <2>1, ReadWindowStored DEF StartPage, StartEntry
<1>3. CASE StartSettle
  BY <1>3, ReadWindowStored DEF StartSettle, Procs
<1>4. CASE Settled
  BY <1>4, LocalStored, ForgetTypes DEF Settled, StoredInv
<1>5. ASSUME NEW p \in Procs, Step(p) PROVE StoredInv'
  BY <1>5, StepStored
<1>6. CASE Restart
  BY <1>6, LocalStored, ForgetTypes DEF Restart
<1>7. CASE UNCHANGED vars
  BY <1>7, LocalStored DEF vars, procVars, StoredInv
<1> QED BY <1>1, <1>2, <1>3, <1>4, <1>5, <1>6, <1>7 DEF Next

\* Whatever is stored for a turn was built from prefixes of the log.
THEOREM StoredInvariant == Spec => []StoredInv
BY InitStored, NextStored, PTL DEF Spec

LEMMA StoredImpliesFresh == StoredInv => FreshIsRight
<1> SUFFICES ASSUME StoredInv, indexed, NEW t \in TurnsOf(log, Len(log)),
                    ~NeedsMaterializing(stored[t], version, LastEvent(log, Len(log), t),
                                        Fingerprint(log, Len(log), t))
             PROVE  stored[t] = Built(log, version, Len(log), Len(log), t)
  BY DEF FreshIsRight
<1> DEFINE N == Len(log)
<1>1. N \in Nat /\ t \in Seqs
  BY DEF StoredInv, TurnsOf, Event
<1>2. stored[t] # NoBuild
  BY NamesAssumption DEF NeedsMaterializing, NoBuild, StoredInv
<1>3. PICK v \in Versions, n \in 0..N, m \in 0..N : stored[t] = Built(log, v, n, m, t)
  BY <1>1, <1>2 DEF StoredInv, WasBuilt
<1>4. v = version /\ Fingerprint(log, m, t) = Fingerprint(log, N, t)
      /\ ~(LastEvent(log, n, t) < LastEvent(log, N, t))
  BY <1>3 DEF Built, NeedsMaterializing
<1>5. TurnEvents(log, n, t) = TurnEvents(log, N, t)
  <2>1. TurnEvents(log, n, t) \subseteq TurnEvents(log, N, t)
    BY <1>1 DEF TurnEvents
  <2>2. ASSUME NEW e \in TurnEvents(log, N, t) PROVE e \in TurnEvents(log, n, t)
    <3>1. e <= LastEvent(log, N, t) /\ LastEvent(log, N, t) \in 1..N /\ e \in 1..N
      <4> HIDE DEF N
      <4> QED BY <1>1, LastEventIsLast DEF TurnEvents
    <3>2. LastEvent(log, n, t) \in 0..n
      <4>1. n \in Nat
        BY <1>1
      <4>2. CASE TurnEvents(log, n, t) = {}
        BY <4>1, <4>2 DEF LastEvent
      <4>3. CASE TurnEvents(log, n, t) # {}
        <5>1. LastEvent(log, n, t) \in TurnEvents(log, n, t)
          BY <4>1, <4>3, LastEventIsLast
        <5> QED BY <5>1, <4>1 DEF TurnEvents
      <4> QED BY <4>2, <4>3
    <3>3. e <= n
      <4> HIDE DEF N
      <4> QED BY <1>1, <1>4, <3>1, <3>2
    <3> QED BY <3>3 DEF TurnEvents
  <2> QED BY <2>1, <2>2
<1> HIDE DEF N
<1>6. Built(log, v, n, m, t) = Built(log, version, N, N, t)
  BY <1>1, <1>4, <1>5, SameBuild
<1> QED BY <1>3, <1>6 DEF N

\* A stored turn that no comparison finds stale is what the builder would make of
\* the turn now, for any number of readers, texts, events and restarts.
THEOREM FreshTurnsAreRight == Spec => []FreshIsRight
BY StoredInvariant, StoredImpliesFresh, PTL
-----------------------------------------------------------------------------
(***************************************************************************)
(* Pairs.  Copies from one source have places of their own, so an event    *)
(* has one twin at most, and a twin found is the one that stays.           *)
(***************************************************************************)
LEMMA PlacesApart ==
  ASSUME NEW l, NEW e \in Nat \ {0}, NEW f \in Nat, e < f, Copy(l, f, e)
  PROVE  Place(l, e) # Place(l, f)
<1> DEFINE upTo(g) == {i \in 1..g : Copy(l, g, i)}
<1>1. upTo(e) \subseteq upTo(f) \ {f} /\ f \in upTo(f)
  BY DEF Copy
<1>2. IsFiniteSet(upTo(f)) /\ Cardinality(upTo(f)) \in Nat
  <2>1. upTo(f) \subseteq 0..f
    OBVIOUS
  <2> HIDE DEF upTo
  <2> QED BY <2>1, BoundedFinite
<1>3. Place(l, e) = Cardinality(upTo(e)) /\ Place(l, f) = Cardinality(upTo(f))
  BY DEF Place
<1> HIDE DEF upTo
<1>4. IsFiniteSet(upTo(f) \ {f}) /\ Cardinality(upTo(f) \ {f}) = Cardinality(upTo(f)) - 1
  BY <1>1, <1>2, FS_RemoveElement
<1>5. upTo(e) \in SUBSET (upTo(f) \ {f})
  BY <1>1
<1>6. Cardinality(upTo(e)) <= Cardinality(upTo(f) \ {f}) /\ Cardinality(upTo(e)) \in Nat
  BY <1>4, <1>5, FS_Subset, FS_CardinalityType
<1> QED BY <1>2, <1>3, <1>4, <1>6

\* A pair once made is there in every longer prefix.
LEMMA TwinStays ==
  ASSUME NEW l \in Seq(Event), NEW n \in 0..Len(l), NEW m \in n..Len(l), NEW e \in 1..n, Twin(l, n, e) # 0
  PROVE  Twin(l, m, e) = Twin(l, n, e)
<1> DEFINE twins(k) == {f \in 1..k : /\ l[f].text = l[e].text /\ l[f].source # l[e].source
                                     /\ Place(l, f) = Place(l, e)}
           twin == Twin(l, n, e)
<1>1. m \in Nat /\ n \in Nat /\ n <= m /\ \A f \in 1..m : l[f].source \in {"harness", "otel"}
  BY DEF Event
<1>2. l[e].text # Plain /\ twin \in twins(n)
  BY DEF Twin
<1>3. twin \in twins(m)
  BY <1>1, <1>2
<1>4. Twin(l, m, e) \in twins(m)
  BY <1>1, <1>2, <1>3 DEF Twin
<1>5. ASSUME NEW f \in twins(m), NEW g \in twins(m) PROVE ~(f < g)
  <2>1. f \in Nat \ {0} /\ g \in Nat /\ Place(l, f) = Place(l, g)
    BY <1>1
  <2>2. Copy(l, g, f)
    BY <1>1 DEF Copy
  <2> HIDE DEF twins
  <2> QED BY <2>1, <2>2, PlacesApart
<1>6. twins(m) \subseteq Nat
  BY <1>1
<1> HIDE DEF twins, twin
<1>7. ~(Twin(l, m, e) < twin) /\ ~(twin < Twin(l, m, e)) /\ Twin(l, m, e) \in Nat /\ twin \in Nat
  BY <1>3, <1>4, <1>5, <1>6
<1> QED BY <1>7 DEF twin

\* A copy once paired keeps its twin whatever lands later (pairDualEmits, dedup.go:21).
THEOREM PairsNeverPart == Spec => PairsStay
<1>1. StoredInv /\ [Next]_vars => [log' # log => \A e \in DOMAIN log :
                                      LET twin == Twin(log, Len(log), e)
                                      IN  twin # 0 => Twin(log', Len(log'), e) = twin]_vars
  <2> SUFFICES ASSUME StoredInv, Next, log' # log, NEW e \in DOMAIN log, Twin(log, Len(log), e) # 0
               PROVE  Twin(log', Len(log'), e) = Twin(log, Len(log), e)
    OBVIOUS
  <2>1. PICK ev \in Event : log' = Append(log, ev)
    BY DEF Next, StoreEvent, StartPage, StartEntry, StartSettle, ReadWindow, Settled, Step, ReadPairs,
           ReadTurnEvents, ReplaceMaterializedTurn, ReadEntries, ReadValidator, Answer, Restart
  <2>2. /\ log \in Seq(Event) /\ Len(log) \in Nat /\ e \in 1..Len(log)
        /\ log' \in Seq(Event) /\ Len(log) \in 0..Len(log') /\ Len(log') \in Len(log)..Len(log') /\ \A i \in 1..Len(log) : log'[i] = log[i]
    BY <2>1 DEF StoredInv
  <2>3. Twin(log', Len(log), e) = Twin(log, Len(log), e)
    BY <2>2, TwinOfPrefix
  <2> QED BY <2>2, <2>3, TwinStays
<1> QED BY <1>1, StoredInvariant, PTL DEF Spec, PairsStay
-----------------------------------------------------------------------------
(***************************************************************************)
(* Pages.  A read's window holds builds (BuiltFrom), those it still holds  *)
(* when it answers are stale by no comparison, and the pairs it judged     *)
(* them by are of a log no shorter than the one its window was read from.  *)
(***************************************************************************)
BuiltFrom(l, b, t) ==
    \/ b = NoBuild
    \/ \E v \in Versions, n, m \in 0..Len(l) : b = Built(l, v, n, m, t)

\* A page P over a log of which its read began after n events is as new as that.
AsNew(l, n, P) ==
    \A e \in 1..n : l[e].turn \in P.turns =>
        /\ e \notin P.ids => Hidden(l, Len(l), e)
        /\ Hidden(l, n, e) => e \notin P.ids

\* A process at a step, with what it noted: n events began, window w, m paired, page P.
ReadOf(l, at, n, w, m, P) ==
    /\ n \in 0..Len(l)
    /\ \A t \in DOMAIN w : t \in Seqs /\ BuiltFrom(l, w[t], t)
    /\ {"turns", "ids"} \subseteq DOMAIN P
    /\ at \in {"idle", "pairs", "turns", "replace"} => P.turns = {}
    /\ at \in {"turns", "replace"} => n <= m
    /\ AsNew(l, n, P)

ReadInv ==
    /\ DOMAIN pc = Procs /\ DOMAIN began = Procs /\ DOMAIN window = Procs /\ DOMAIN page = Procs
    /\ \A p \in Procs : ReadOf(log, pc[p], began[p], window[p], paired[p], page[p])

Agree(l, k, n) == \A i \in 1..n : l[i] = k[i]

LEMMA AgreedTwins ==
  ASSUME NEW l, NEW k, NEW n \in Nat, Agree(l, k, n), NEW e \in 1..n
  PROVE  Twin(l, n, e) = Twin(k, n, e)
BY TwinOfPrefix DEF Agree

LEMMA AgreedBuilds ==
  ASSUME NEW l, NEW k, NEW N \in Nat, Agree(l, k, N), NEW n \in 0..N, NEW m \in 0..N, NEW v, NEW t
  PROVE  Built(l, v, n, m, t) = Built(k, v, n, m, t)
BY BuiltOfPrefix DEF Agree

LEMMA LongerBuilt ==
  ASSUME NEW l, NEW k, NEW N \in Nat, N = Len(l), Len(k) \in Nat, N <= Len(k), Agree(l, k, N),
         NEW b, NEW t, BuiltFrom(l, b, t)
  PROVE  BuiltFrom(k, b, t)
<1>1. CASE b = NoBuild
  BY <1>1 DEF BuiltFrom
<1>2. CASE b # NoBuild
  <2>1. PICK v \in Versions, n \in 0..N, m \in 0..N : b = Built(l, v, n, m, t)
    BY <1>2 DEF BuiltFrom
  <2>2. Built(l, v, n, m, t) = Built(k, v, n, m, t)
    BY AgreedBuilds
  <2>3. n \in 0..Len(k) /\ m \in 0..Len(k)
    OBVIOUS
  <2> QED BY <2>1, <2>2, <2>3 DEF BuiltFrom
<1> QED BY <1>1, <1>2

\* What a log says of a prefix, every longer log says.
LEMMA LongerLog ==
  ASSUME NEW l \in Seq(Event), NEW k \in Seq(Event), Len(l) <= Len(k), \A i \in 1..Len(l) : l[i] = k[i]
  PROVE  /\ \A b, t : BuiltFrom(l, b, t) => BuiltFrom(k, b, t)
         /\ \A n \in 0..Len(l) : \A P : AsNew(l, n, P) => AsNew(k, n, P)
<1> DEFINE N == Len(l)
<1>1. N \in Nat /\ Len(k) \in Nat /\ N <= Len(k) /\ N \in 0..Len(k) /\ Len(k) \in N..Len(k)
  OBVIOUS
<1>2. \A b, t : BuiltFrom(l, b, t) => BuiltFrom(k, b, t)
  <2>1. Agree(l, k, N)
    BY DEF Agree
  <2> HIDE DEF N
  <2>2. N = Len(l)
    BY DEF N
  <2> QED BY <1>1, <2>1, <2>2, LongerBuilt
<1>3. ASSUME NEW n \in 0..N, NEW P, AsNew(l, n, P) PROVE AsNew(k, n, P)
  <2> SUFFICES ASSUME NEW e \in 1..n, k[e].turn \in P.turns
               PROVE  /\ e \notin P.ids => Hidden(k, Len(k), e)
                      /\ Hidden(k, n, e) => e \notin P.ids
    BY DEF AsNew
  <2>1. e \in 1..N /\ l[e] = k[e] /\ n \in Nat
    BY <1>1
  <2>2. Twin(l, n, e) = Twin(k, n, e) /\ Twin(l, N, e) = Twin(k, N, e)
    <3>1. Agree(l, k, n) /\ Agree(l, k, N)
      BY <1>1 DEF Agree
    <3> HIDE DEF N
    <3> QED BY <1>1, <2>1, <3>1, AgreedTwins
  <2>3. Twin(k, N, e) # 0 => Twin(k, Len(k), e) # 0
    BY <1>1, <2>1, TwinStays
  <2> HIDE DEF N
  <2> QED BY <1>3, <2>1, <2>2, <2>3 DEF AsNew, Hidden, N
<1> QED BY <1>2, <1>3

\* A build that a read which began after n events and paired after m finds fresh lists
\* what it must of these n, and nothing of another turn.
LEMMA FreshIsAsNew ==
  ASSUME NEW l \in Seq(Event), NEW n \in Nat, NEW m \in 0..Len(l), n <= m, NEW v \in Versions, NEW t, NEW b,
         BuiltFrom(l, b, t), ~NeedsMaterializing(b, v, LastEvent(l, n, t), Fingerprint(l, m, t))
  PROVE  /\ \A e \in TurnEvents(l, n, t) :
              /\ e \notin b.ids => Hidden(l, Len(l), e)
              /\ Hidden(l, n, e) => e \notin b.ids
         /\ \A e \in b.ids : l[e].turn = t
<1>1. b # NoBuild
  BY NamesAssumption DEF NeedsMaterializing, NoBuild
<1>2. PICK u \in Versions, i \in 0..Len(l), j \in 0..Len(l) : b = Built(l, u, i, j, t)
  BY <1>1 DEF BuiltFrom
<1>3. /\ b.ids = {e \in TurnEvents(l, i, t) : ~Hidden(l, j, e)}
      /\ ~(LastEvent(l, i, t) < LastEvent(l, n, t)) /\ Fingerprint(l, j, t) = Fingerprint(l, m, t)
  BY <1>2 DEF NeedsMaterializing, Built, Entries
<1>4. ASSUME NEW e \in TurnEvents(l, n, t)
      PROVE  (e \notin b.ids => Hidden(l, Len(l), e)) /\ (Hidden(l, n, e) => e \notin b.ids)
  <2>1. e \in 1..n /\ l[e].turn = t /\ n \in 0..Len(l) /\ m \in n..Len(l) /\ m \in Nat /\ Len(l) \in m..Len(l)
        /\ i \in Nat
    BY <1>4 DEF TurnEvents
  <2>2. e \in TurnEvents(l, i, t)
    <3>1. e <= LastEvent(l, n, t) /\ LastEvent(l, n, t) \in 1..n
      BY <1>4, LastEventIsLast DEF TurnEvents
    <3>2. LastEvent(l, i, t) \in 0..i
      <4>1. CASE TurnEvents(l, i, t) = {}
        BY <2>1, <4>1 DEF LastEvent
      <4>2. CASE TurnEvents(l, i, t) # {}
        <5>1. LastEvent(l, i, t) \in TurnEvents(l, i, t)
          BY <2>1, <4>2, LastEventIsLast
        <5> QED BY <2>1, <5>1 DEF TurnEvents
      <4> QED BY <4>1, <4>2
    <3> QED BY <1>3, <2>1, <3>1, <3>2 DEF TurnEvents
  <2>3. Twin(l, j, e) = Twin(l, m, e)
    <3>1. CASE l[e].text = Plain
      BY <3>1 DEF Twin
    <3>2. CASE l[e].text # Plain
      <4>1. e \in DOMAIN Fingerprint(l, m, t) /\ Fingerprint(l, m, t)[e] = Twin(l, m, e)
        BY <2>1, <3>2 DEF Fingerprint, TurnEvents
      <4>2. e \in DOMAIN Fingerprint(l, j, t) /\ Fingerprint(l, j, t)[e] = Twin(l, j, e)
        BY <1>3, <4>1 DEF Fingerprint
      <4> QED BY <1>3, <4>1, <4>2
    <3> QED BY <3>1, <3>2
  <2>4. Twin(l, n, e) # 0 => Twin(l, m, e) # 0
    BY <2>1, TwinStays
  <2>5. Twin(l, m, e) # 0 => Twin(l, Len(l), e) # 0
    <3>1. e \in 1..m
      BY <2>1
    <3> QED BY <2>1, <3>1, TwinStays
  <2> QED BY <1>3, <2>2, <2>3, <2>4, <2>5 DEF Hidden
<1>5. \A e \in b.ids : l[e].turn = t
  BY <1>3 DEF TurnEvents
<1> QED BY <1>4, <1>5

\* The windows that are read are of turns of the log.
LEMMA WindowsAreTurns ==
  ASSUME log \in Seq(Event)
  PROVE  /\ \A limit, before : TurnWindow(log, Len(log), limit, before) \subseteq Seqs
         /\ \A e : TurnOfEvent(log, Len(log), e) \subseteq Seqs
         /\ \A limit : NewestTurns(log, Len(log), limit) \subseteq Seqs
<1>1. \A e \in 1..Len(log) : log[e].turn \in Seqs
  BY DEF Event
<1> QED BY <1>1 DEF TurnWindow, InRange, TurnsOf, TurnOfEvent, NewestTurns

\* A step of one process, the others and the log left alone.
LEMMA OneReads ==
  ASSUME StoredInv, ReadInv, NEW p \in Procs, log' = log,
         DOMAIN pc' = Procs, DOMAIN began' = Procs, DOMAIN window' = Procs, DOMAIN page' = Procs,
         \A q \in Procs \ {p} : /\ pc'[q] = pc[q] /\ began'[q] = began[q] /\ window'[q] = window[q]
                                /\ paired'[q] = paired[q] /\ page'[q] = page[q],
         ReadOf(log, pc'[p], began'[p], window'[p], paired'[p], page'[p])
  PROVE  ReadInv'
<1>1. \A q \in Procs : ReadOf(log, pc'[q], began'[q], window'[q], paired'[q], page'[q])
  BY DEF ReadInv
<1> QED BY <1>1 DEF ReadInv

LEMMA ReadWindowReads ==
  ASSUME StoredInv, ReadInv, NEW p \in Procs, NEW W \in SUBSET Seqs, NEW none \in {"validator", "answer", "idle"},
         pc[p] = "idle", ReadWindow(p, W, none)
  PROVE  ReadInv'
<1>1. /\ began'[p] = Len(log) /\ window'[p] = [t \in W |-> IndexedStored[t]] /\ pc'[p] \in {none, "pairs"}
      /\ page' = page /\ paired' = paired /\ log' = log
      /\ DOMAIN pc' = Procs /\ DOMAIN began' = Procs /\ DOMAIN window' = Procs
      /\ \A q \in Procs \ {p} : pc'[q] = pc[q] /\ began'[q] = began[q] /\ window'[q] = window[q]
  BY DEF ReadWindow, ReadInv
<1>2. ReadOf(log, pc[p], began[p], window[p], paired[p], page[p]) /\ Len(log) \in Nat
  BY DEF ReadInv, StoredInv
<1>3. \A t \in W : BuiltFrom(log, IndexedStored[t], t)
  BY DEF IndexedStored, StoredInv, WasBuilt, BuiltFrom
<1>4. ReadOf(log, pc'[p], began'[p], window'[p], paired'[p], page'[p])
  BY <1>1, <1>2, <1>3 DEF ReadOf, AsNew
<1> QED BY <1>1, <1>4, OneReads DEF ReadInv

LEMMA ReplaceReads ==
  ASSUME StoredInv, ReadInv, NEW p \in Procs, ReplaceMaterializedTurn(p)
  PROVE  ReadInv'
<1> DEFINE t == NextStale(p)
           build == Built(log, version, rows[p], paired[p], t)
<1>1. /\ pc[p] = "replace" /\ window' = [window EXCEPT ![p] = [window[p] EXCEPT ![t] = build]]
      /\ pc' = [pc EXCEPT ![p] = "turns"] /\ UNCHANGED <<log, began, paired, page>>
  BY DEF ReplaceMaterializedTurn
<1>2. BuiltFrom(log, build, t)
  <2>1. version \in Versions /\ rows[p] \in 0..Len(log) /\ paired[p] \in 0..Len(log)
    BY DEF StoredInv
  <2> HIDE DEF t
  <2> QED BY <2>1 DEF BuiltFrom
<1> HIDE DEF t, build
<1>3. ReadOf(log, pc[p], began[p], window[p], paired[p], page[p])
  BY DEF ReadInv
<1>4. /\ DOMAIN window'[p] = DOMAIN window[p]
      /\ \A u \in DOMAIN window[p] : window'[p][u] = IF u = t THEN build ELSE window[p][u]
  BY <1>1 DEF ReadInv
<1>5. ReadOf(log, pc'[p], began'[p], window'[p], paired'[p], page'[p])
  BY <1>1, <1>2, <1>3, <1>4 DEF ReadOf, ReadInv
<1> QED BY <1>1, <1>5, OneReads DEF ReadInv

LEMMA ReadEntriesReads ==
  ASSUME StoredInv, ReadInv, NEW p \in Procs, ReadEntries(p)
  PROVE  ReadInv'
<1>1. /\ pc[p] = "turns" /\ Stale(p) = {} /\ pc'[p] \in {"validator", "answer"} /\ window'[p] = <<>>
      /\ page'[p].turns = DOMAIN window[p] /\ page'[p].ids = UNION {window[p][t].ids : t \in DOMAIN window[p]}
      /\ {"turns", "ids"} \subseteq DOMAIN page'[p]
      /\ DOMAIN pc' = Procs /\ DOMAIN window' = Procs /\ DOMAIN page' = Procs
      /\ UNCHANGED <<log, began>>
      /\ \A q \in Procs \ {p} : pc'[q] = pc[q] /\ window'[q] = window[q] /\ page'[q] = page[q] /\ paired'[q] = paired[q]
  BY DEF ReadEntries, ReadInv, StoredInv
<1>2. ReadOf(log, pc[p], began[p], window[p], paired[p], page[p])
  BY DEF ReadInv
<1>3. /\ log \in Seq(Event) /\ version \in Versions /\ paired[p] \in 0..Len(log) /\ began[p] \in Nat
      /\ began[p] <= paired[p]
  BY <1>1, <1>2 DEF StoredInv, ReadOf
<1>4. ASSUME NEW t \in DOMAIN window[p]
      PROVE  /\ \A e \in TurnEvents(log, began[p], t) :
                   /\ e \notin window[p][t].ids => Hidden(log, Len(log), e)
                   /\ Hidden(log, began[p], e) => e \notin window[p][t].ids
             /\ \A e \in window[p][t].ids : log[e].turn = t
  <2>1. ~NeedsMaterializing(window[p][t], version, LastEvent(log, began[p], t), Fingerprint(log, paired[p], t))
    BY <1>1 DEF Stale
  <2>2. BuiltFrom(log, window[p][t], t)
    BY <1>2 DEF ReadOf
  <2> QED BY <1>3, <2>1, <2>2, FreshIsAsNew
<1>5. AsNew(log, began[p], page'[p])
  <2> SUFFICES ASSUME NEW e \in 1..began[p], log[e].turn \in page'[p].turns
               PROVE  /\ e \notin page'[p].ids => Hidden(log, Len(log), e)
                      /\ Hidden(log, began[p], e) => e \notin page'[p].ids
    BY DEF AsNew
  <2> DEFINE t == log[e].turn
  <2>1. t \in DOMAIN window[p] /\ e \in TurnEvents(log, began[p], t)
    BY <1>1 DEF TurnEvents
  <2>2. e \in page'[p].ids <=> e \in window[p][t].ids
    BY <1>1, <1>4, <2>1
  <2> QED BY <1>4, <2>1, <2>2
<1>6. ReadOf(log, pc'[p], began'[p], window'[p], paired'[p], page'[p])
  BY <1>1, <1>2, <1>5 DEF ReadOf
<1> QED BY <1>1, <1>6, OneReads DEF ReadInv

LEMMA ForgetReads ==
  ASSUME StoredInv, ReadInv, NEW P, Forget(P), log' = log
  PROVE  ReadInv'
<1>1. /\ DOMAIN pc' = Procs /\ DOMAIN began' = Procs /\ DOMAIN window' = Procs /\ DOMAIN page' = Procs
      /\ \A p \in Procs :
            IF p \in P THEN pc'[p] = "idle" /\ began'[p] = 0 /\ window'[p] = <<>> /\ paired'[p] = 0 /\ page'[p] = NoPage
            ELSE /\ pc'[p] = pc[p] /\ began'[p] = began[p] /\ window'[p] = window[p]
                 /\ paired'[p] = paired[p] /\ page'[p] = page[p]
  BY DEF Forget
<1>2. \A m : ReadOf(log, "idle", 0, <<>>, m, NoPage)
  BY DEF ReadOf, AsNew, NoPage, StoredInv
<1>3. ASSUME NEW p \in Procs PROVE ReadOf(log, pc'[p], began'[p], window'[p], paired'[p], page'[p])
  BY <1>1, <1>2 DEF ReadInv
<1> QED BY <1>1, <1>3 DEF ReadInv

LEMMA StoreReads ==
  ASSUME StoredInv, ReadInv, NEW ev \in Event, StoreEvent(ev)
  PROVE  ReadInv'
<1>1. /\ log \in Seq(Event) /\ log' \in Seq(Event) /\ Len(log) <= Len(log') /\ Len(log) \in Nat /\ Len(log') \in Nat
      /\ \A i \in 1..Len(log) : log[i] = log'[i]
      /\ UNCHANGED <<pc, began, window, paired, page>>
  BY DEF StoreEvent, StoredInv, procVars
<1>2. /\ \A b, t : BuiltFrom(log, b, t) => BuiltFrom(log', b, t)
      /\ \A n \in 0..Len(log) : \A P : AsNew(log, n, P) => AsNew(log', n, P)
  BY <1>1, LongerLog
<1>3. ASSUME NEW p \in Procs PROVE ReadOf(log', pc[p], began[p], window[p], paired[p], page[p])
  <2>1. ReadOf(log, pc[p], began[p], window[p], paired[p], page[p])
    BY DEF ReadInv
  <2>2. 0..Len(log) \subseteq 0..Len(log')
    BY <1>1
  <2> QED BY <1>2, <2>1, <2>2 DEF ReadOf
<1> QED BY <1>1, <1>3 DEF ReadInv

LEMMA StepReads ==
  ASSUME StoredInv, ReadInv, NEW p \in Procs, Step(p)
  PROVE  ReadInv'
<1>1. ReadOf(log, pc[p], began[p], window[p], paired[p], page[p]) /\ Len(log) \in Nat
  BY DEF ReadInv, StoredInv
<1>2. CASE ReadPairs(p)
  <2>1. /\ pc' = [pc EXCEPT ![p] = "turns"] /\ pc[p] = "pairs" /\ paired' = [paired EXCEPT ![p] = Len(log)]
        /\ UNCHANGED <<log, began, window, page>>
    BY <1>2 DEF ReadPairs
  <2>2. ReadOf(log, pc'[p], began'[p], window'[p], paired'[p], page'[p])
    BY <1>1, <2>1 DEF ReadOf, ReadInv, StoredInv
  <2> QED BY <2>1, <2>2, OneReads DEF ReadInv
<1>3. CASE ReadTurnEvents(p)
  <2>1. /\ pc' = [pc EXCEPT ![p] = "replace"] /\ pc[p] = "turns"
        /\ UNCHANGED <<log, began, window, paired, page>>
    BY <1>3 DEF ReadTurnEvents
  <2>2. ReadOf(log, pc'[p], began'[p], window'[p], paired'[p], page'[p])
    BY <1>1, <2>1 DEF ReadOf, ReadInv
  <2> QED BY <2>1, <2>2, OneReads DEF ReadInv
<1>4. CASE ReplaceMaterializedTurn(p)
  BY <1>4, ReplaceReads
<1>5. CASE ReadEntries(p)
  BY <1>5, ReadEntriesReads
<1>6. CASE ReadValidator(p)
  <2>1. /\ pc' = [pc EXCEPT ![p] = "answer"] /\ page' = [page EXCEPT ![p] = [page[p] EXCEPT !.validator = Len(log)]]
        /\ UNCHANGED <<log, began, window, paired>>
    BY <1>6 DEF ReadValidator
  <2>2. page'[p].turns = page[p].turns /\ page'[p].ids = page[p].ids /\ DOMAIN page'[p] = DOMAIN page[p]
    BY <1>1, <2>1 DEF ReadInv, ReadOf
  <2>3. ReadOf(log, pc'[p], began'[p], window'[p], paired'[p], page'[p])
    BY <1>1, <2>1, <2>2 DEF ReadOf, ReadInv, AsNew
  <2> QED BY <2>1, <2>3, OneReads DEF ReadInv
<1>7. CASE Answer(p)
  BY <1>7, ForgetReads DEF Answer
<1> QED BY <1>2, <1>3, <1>4, <1>5, <1>6, <1>7 DEF Step

LEMMA NextReads == StoredInv /\ ReadInv /\ [Next]_vars => ReadInv'
<1> SUFFICES ASSUME StoredInv, ReadInv, [Next]_vars PROVE ReadInv'
  OBVIOUS
<1>0. log \in Seq(Event)
  BY DEF StoredInv
<1>1. ASSUME NEW ev \in Event, StoreEvent(ev) PROVE ReadInv'
  BY <1>1, StoreReads
<1>2. ASSUME NEW p \in Readers, NEW r \in Requests, StartPage(p, r) PROVE ReadInv'
  <2>1. p \in Procs /\ TurnWindow(log, Len(log), r.limit, r.before) \in SUBSET Seqs
    BY <1>0, WindowsAreTurns DEF Procs
  <2> QED BY <1>2, <2>1, ReadWindowReads DEF StartPage
<1>3. ASSUME NEW p \in Readers, NEW r \in Requests, StartEntry(p, r) PROVE ReadInv'
  <2>1. p \in Procs /\ TurnOfEvent(log, Len(log), r.event) \in SUBSET Seqs
    BY <1>0, WindowsAreTurns DEF Procs
  <2> QED BY <1>3, <2>1, ReadWindowReads DEF StartEntry
<1>4. CASE StartSettle
  <2>1. Materializer \in Procs /\ NewestTurns(log, Len(log), StaleTurns) \in SUBSET Seqs
    BY <1>0, WindowsAreTurns DEF Procs
  <2> QED BY <1>4, <2>1, ReadWindowReads DEF StartSettle
<1>5. CASE Settled
  BY <1>5, ForgetReads DEF Settled
<1>6. ASSUME NEW p \in Procs, Step(p) PROVE ReadInv'
  BY <1>6, StepReads
<1>7. CASE Restart
  BY <1>7, ForgetReads DEF Restart
<1>8. CASE UNCHANGED vars
  BY <1>8 DEF vars, procVars, ReadInv
<1> QED BY <1>1, <1>2, <1>3, <1>4, <1>5, <1>6, <1>7, <1>8 DEF Next

LEMMA InitReads == Init => ReadInv
<1> SUFFICES ASSUME Init PROVE ReadInv
  OBVIOUS
<1>1. Len(log) = 0
  BY DEF Init
<1>2. \A m : ReadOf(log, "idle", 0, <<>>, m, NoPage)
  BY <1>1 DEF ReadOf, AsNew, NoPage
<1> QED BY <1>2 DEF Init, ReadInv

\* A page lists every event stored before its read began, unless a twin hides it, and
\* none that a twin hid by then (storedPage's reads and assembleStoredPage).
THEOREM PagesAreNew == Spec => []PageAsNewAsRead
<1>1. ReadInv => PageAsNewAsRead
  BY DEF ReadInv, ReadOf, AsNew, PageAsNewAsRead, Answering, Procs
<1>2. StoredInv /\ ReadInv /\ [Next]_vars => ReadInv'
  BY NextReads
<1> QED BY <1>1, <1>2, InitReads, StoredInvariant, PTL DEF Spec
-----------------------------------------------------------------------------
(***************************************************************************)
(* Types.                                                                  *)
(***************************************************************************)
LEMMA TwinIn == ASSUME NEW l, NEW n \in Nat, NEW e PROVE Twin(l, n, e) \in 0..n
<1> DEFINE twins == {f \in 1..n : /\ l[f].text = l[e].text /\ l[f].source # l[e].source
                                  /\ Place(l, f) = Place(l, e)}
<1>1. twins \subseteq 0..n
  OBVIOUS
<1>2. twins # {} => (CHOOSE f \in twins : TRUE) \in twins
  <2> HIDE DEF twins
  <2> QED OBVIOUS
<1>3. Twin(l, n, e) = IF e \notin 1..n \/ l[e].text = Plain \/ twins = {} THEN 0 ELSE CHOOSE f \in twins : TRUE
  BY DEF Twin
<1> HIDE DEF twins
<1>4. 0 \in 0..n
  OBVIOUS
<1>5. CASE Twin(l, n, e) = 0
  BY <1>4, <1>5
<1>6. CASE Twin(l, n, e) # 0
  <2>1. twins # {} /\ Twin(l, n, e) = CHOOSE f \in twins : TRUE
    BY <1>3, <1>6
  <2> QED BY <1>1, <1>2, <2>1
<1> QED BY <1>5, <1>6

\* Whatever the builder makes of prefixes of the log is a build.
LEMMA BuiltIsBuild ==
  ASSUME NEW l, NEW N \in 0..MaxEvents, NEW n \in 0..N, NEW m \in 0..N, NEW v \in Versions, NEW t
  PROVE  IsBuild(Built(l, v, n, m, t))
<1>1. MaxEvents \in Nat /\ n \in Nat /\ m \in Nat /\ 0..m \subseteq 0..MaxEvents
      /\ TurnEvents(l, n, t) \subseteq Ids /\ TurnEvents(l, m, t) \subseteq Ids
  BY BoundsAssumption DEF TurnEvents, Ids
<1>2. \A e : Twin(l, m, e) \in 0..MaxEvents
  BY <1>1, TwinIn
<1>3. LastEvent(l, n, t) \in 0..MaxEvents
  <2>1. CASE TurnEvents(l, n, t) = {}
    BY <1>1, <2>1 DEF LastEvent
  <2>2. CASE TurnEvents(l, n, t) # {}
    <3>1. LastEvent(l, n, t) \in TurnEvents(l, n, t)
      BY <1>1, <2>2, LastEventIsLast
    <3> QED BY <1>1, <3>1 DEF Ids
  <2> QED BY <2>1, <2>2
<1>4. TwinMap(Fingerprint(l, m, t))
  BY <1>1, <1>2 DEF TwinMap, Fingerprint
<1>5. TwinMap(Entries(l, n, m, t)) /\ DOMAIN Entries(l, n, m, t) \subseteq Ids
  BY <1>1, <1>2 DEF TwinMap, Entries
<1> QED BY <1>3, <1>4, <1>5 DEF Built, IsBuild

LEMMA BuildsAre ==
  ASSUME NEW l, Len(l) \in 0..MaxEvents, NEW b, NEW t, BuiltFrom(l, b, t)
  PROVE  IsBuild(b)
<1>1. CASE b = NoBuild
  <2>1. TwinMap(<<>>) /\ 0 \in 0..MaxEvents
    BY BoundsAssumption DEF TwinMap
  <2> QED BY <1>1, <2>1 DEF IsBuild, NoBuild
<1>2. ASSUME NEW v \in Versions, NEW n \in 0..Len(l), NEW m \in 0..Len(l), b = Built(l, v, n, m, t)
      PROVE  IsBuild(b)
  BY <1>2, BuiltIsBuild
<1> QED BY <1>1, <1>2 DEF BuiltFrom

IsPage(P) == {"turns", "ids", "validator"} \subseteq DOMAIN P /\ P.ids \subseteq Ids /\ P.validator \in 0..MaxEvents
\* What the invariants above leave open.
ServeInv ==
  /\ Len(log) \in 0..MaxEvents /\ indexed \in BOOLEAN /\ restarts \in 0..MaxRestarts
  /\ pc \in [Procs -> Steps] /\ ask \in [Procs -> Requests \cup {NoRequest}] /\ began \in [Procs -> 0..MaxEvents]
  /\ \A p \in Procs : IsPage(page[p])

LEMMA InitServe == Init => ServeInv
<1> SUFFICES ASSUME Init PROVE ServeInv
  OBVIOUS
<1>1. Len(log) \in 0..MaxEvents /\ restarts \in 0..MaxRestarts
  BY BoundsAssumption DEF Init
<1>2. IsPage(NoPage)
  BY BoundsAssumption DEF IsPage, NoPage
<1> QED BY <1>1, <1>2 DEF Init, ServeInv, Steps

LEMMA ReadWindowServe ==
  ASSUME ServeInv, NEW p \in Procs, NEW W, NEW none \in {"validator", "answer", "idle"}, ReadWindow(p, W, none),
         ask' \in [Procs -> Requests \cup {NoRequest}]
  PROVE  ServeInv'
BY DEF ReadWindow, ServeInv, Steps

\* What a page reads of its window is a page.
LEMMA ReadEntriesServe ==
  ASSUME StoredInv, ReadInv, ServeInv, NEW p \in Procs, ReadEntries(p)
  PROVE  ServeInv'
<1>1. /\ UNCHANGED <<log, indexed, restarts, ask, began>> /\ pc' \in [Procs -> Steps]
      /\ DOMAIN page' = Procs /\ \A q \in Procs \ {p} : page'[q] = page[q]
      /\ {"turns", "ids", "validator"} \subseteq DOMAIN page'[p] /\ page'[p].validator = 0
      /\ page'[p].ids = UNION {window[p][t].ids : t \in DOMAIN window[p]}
  BY DEF ReadEntries, ServeInv, ReadInv, Steps
<1>2. ASSUME NEW t \in DOMAIN window[p] PROVE window[p][t].ids \subseteq Ids
  <2>1. BuiltFrom(log, window[p][t], t)
    BY DEF ReadInv, ReadOf
  <2> QED BY <2>1, BuildsAre DEF IsBuild, ServeInv
<1>3. IsPage(page'[p])
  <2>1. page'[p].ids \subseteq Ids
    BY <1>1, <1>2
  <2> QED BY <1>1, <2>1, BoundsAssumption DEF IsPage
<1> QED BY <1>1, <1>3 DEF ServeInv

LEMMA ForgetServe ==
  ASSUME ServeInv, NEW P, Forget(P), log' = log, indexed' \in BOOLEAN, restarts' \in 0..MaxRestarts
  PROVE  ServeInv'
<1>1. IsPage(NoPage)
  BY BoundsAssumption DEF IsPage, NoPage
<1>2. \A p \in Procs : IsPage(page'[p])
  BY <1>1 DEF Forget, ServeInv
<1>3. /\ pc' \in [Procs -> Steps] /\ ask' \in [Procs -> Requests \cup {NoRequest}]
      /\ began' \in [Procs -> 0..MaxEvents]
  BY BoundsAssumption DEF Forget, ServeInv, Steps
<1> QED BY <1>2, <1>3 DEF ServeInv

LEMMA StepServe ==
  ASSUME StoredInv, ReadInv, ServeInv, NEW p \in Procs, Step(p)
  PROVE  ServeInv'
<1>1. CASE ReadPairs(p) \/ ReadTurnEvents(p) \/ ReplaceMaterializedTurn(p)
  BY <1>1 DEF ReadPairs, ReadTurnEvents, ReplaceMaterializedTurn, ServeInv, Steps
<1>2. CASE ReadEntries(p)
  BY <1>2, ReadEntriesServe
<1>3. CASE ReadValidator(p)
  <2>1. /\ UNCHANGED <<log, indexed, restarts, ask, began>> /\ pc' \in [Procs -> Steps]
        /\ page' = [page EXCEPT ![p] = [page[p] EXCEPT !.validator = Len(log)]]
    BY <1>3 DEF ReadValidator, ServeInv, Steps
  <2>2. \A q \in Procs : IsPage(page[q]) /\ DOMAIN page = Procs /\ Len(log) \in 0..MaxEvents
    BY DEF ServeInv, ReadInv
  <2>3. \A q \in Procs : IsPage(page'[q])
    BY <2>1, <2>2 DEF IsPage
  <2> QED BY <2>1, <2>3 DEF ServeInv
<1>4. CASE Answer(p)
  BY <1>4, ForgetServe DEF Answer, ServeInv
<1> QED BY <1>1, <1>2, <1>3, <1>4 DEF Step

LEMMA NextServe == StoredInv /\ ReadInv /\ ServeInv /\ [Next]_vars => ServeInv'
<1> SUFFICES ASSUME StoredInv, ReadInv, ServeInv, [Next]_vars PROVE ServeInv'
  OBVIOUS
<1>1. ASSUME NEW ev \in Event, StoreEvent(ev) PROVE ServeInv'
  <2>1. Len(log') \in 0..MaxEvents
    BY <1>1, BoundsAssumption DEF StoreEvent, StoredInv, ServeInv
  <2> QED BY <1>1, <2>1 DEF StoreEvent, procVars, ServeInv
<1>2. ASSUME NEW p \in Readers, NEW r \in Requests, StartPage(p, r) \/ StartEntry(p, r) PROVE ServeInv'
  <2>1. p \in Procs /\ ask' = [ask EXCEPT ![p] = r]
    BY <1>2 DEF StartPage, StartEntry, Procs
  <2>2. ask' \in [Procs -> Requests \cup {NoRequest}]
    BY <2>1 DEF ServeInv
  <2> QED BY <1>2, <2>1, <2>2, ReadWindowServe DEF StartPage, StartEntry
<1>3. CASE StartSettle
  BY <1>3, ReadWindowServe DEF StartSettle, ServeInv, Procs
<1>4. CASE Settled
  BY <1>4, ForgetServe DEF Settled, ServeInv
<1>5. ASSUME NEW p \in Procs, Step(p) PROVE ServeInv'
  BY <1>5, StepServe
<1>6. CASE Restart
  <2>1. restarts' \in 0..MaxRestarts
    BY <1>6, BoundsAssumption DEF Restart, ServeInv
  <2>2. indexed' \in BOOLEAN /\ log' = log /\ Forget(Procs)
    BY <1>6 DEF Restart, ServeInv
  <2> QED BY <2>1, <2>2, ForgetServe
<1>7. CASE UNCHANGED vars
  BY <1>7 DEF vars, procVars, ServeInv
<1> QED BY <1>1, <1>2, <1>3, <1>4, <1>5, <1>6, <1>7 DEF Next

LEMMA TypesAre == StoredInv /\ ReadInv /\ ServeInv => TypeOK
<1> SUFFICES ASSUME StoredInv, ReadInv, ServeInv PROVE TypeOK
  OBVIOUS
<1>1. Len(log) \in 0..MaxEvents /\ 0..Len(log) \subseteq 0..MaxEvents
  BY BoundsAssumption DEF ServeInv
<1>2. /\ paired \in [Procs -> 0..MaxEvents] /\ rows \in [Procs -> 0..MaxEvents]
  BY <1>1 DEF StoredInv
<1>3. began \in [Procs -> 0..MaxEvents]
  BY DEF ServeInv
<1>4. \A t \in Seqs : IsBuild(stored[t])
  <2>1. \A t \in Seqs : BuiltFrom(log, stored[t], t)
    BY DEF StoredInv, WasBuilt, BuiltFrom
  <2> QED BY <1>1, <2>1, BuildsAre
<1>5. \A p \in Procs : \A t \in DOMAIN window[p] : t \in Seqs /\ IsBuild(window[p][t])
  <2>1. \A p \in Procs : \A t \in DOMAIN window[p] : t \in Seqs /\ BuiltFrom(log, window[p][t], t)
    BY DEF ReadInv, ReadOf
  <2> QED BY <1>1, <2>1, BuildsAre
<1>6. \A p \in Procs : page[p].ids \subseteq Ids /\ page[p].validator \in 0..MaxEvents
  BY DEF ServeInv, IsPage
<1> QED BY <1>1, <1>2, <1>3, <1>4, <1>5, <1>6 DEF TypeOK, StoredInv, ServeInv

\* Every variable keeps its type: whatever is stored or read of a turn is a build, and
\* a page lists events only.
THEOREM StoredTypes == Spec => []TypeOK
<1>1. StoredInv /\ ReadInv /\ [Next]_vars => ReadInv'
  BY NextReads
<1>2. StoredInv /\ ReadInv /\ ServeInv /\ [Next]_vars => ServeInv'
  BY NextServe
<1>3. StoredInv /\ ReadInv /\ ServeInv => TypeOK
  BY TypesAre
<1> QED BY <1>1, <1>2, <1>3, InitReads, InitServe, StoredInvariant, PTL DEF Spec
=============================================================================
