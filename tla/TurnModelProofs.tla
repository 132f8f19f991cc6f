--------------------------- MODULE TurnModelProofs ---------------------------
(***************************************************************************)
(* Proofs about TurnModel: what the builder shows and where its readings   *)
(* come from, for every session of any length, with any turn ids, texts    *)
(* and messages.                                                           *)
(***************************************************************************)
EXTENDS TurnModel, NatSets

LogType == log \in Seq(Event)

\* A session is a sequence of events, of any length.
LEMMA TypeInvariant == Spec => []LogType
<1>1. Init => LogType
  BY DEF Init, LogType
<1>2. LogType /\ [Next]_vars => LogType'
  BY NamesAssumption DEF Next, StoreEvent, LogType, vars
<1> QED BY <1>1, <1>2, PTL DEF Spec

LEMMA Events ==
  ASSUME LogType
  PROVE  /\ Len(log) \in Nat /\ DOMAIN log = 1..Len(log)
         /\ \A e \in DOMAIN log : log[e] \in Event
BY DEF LogType

\* A pair is of two events that both may pair: a text never has a twin.
LEMMA TwinPairs ==
  ASSUME LogType, NEW e \in DOMAIN log, Twin(log, Len(log), e) # 0
  PROVE  /\ log[e].text # Plain /\ log[e].type \in Candidates
         /\ Twin(log, Len(log), e) \in DOMAIN log
         /\ log[Twin(log, Len(log), e)].source # log[e].source
         /\ Twin(log, Len(log), Twin(log, Len(log), e)) # 0
<1> DEFINE n == Len(log)
           twins(g) == {f \in 1..n : /\ log[f].text = log[g].text /\ log[f].source # log[g].source
                                     /\ Place(log, f) = Place(log, g)}
<1>1. log[e].text # Plain /\ twins(e) # {} /\ Twin(log, n, e) \in twins(e)
  BY DEF Twin
<1>2. log[e].type \in Candidates
  <2>1. log[e] \in Event
    BY Events
  <2> QED BY <1>1, <2>1 DEF Event
<1>3. PICK f \in 1..n : /\ f = Twin(log, n, e)
                        /\ log[f].text = log[e].text /\ log[f].source # log[e].source
                        /\ Place(log, f) = Place(log, e)
  BY <1>1
<1>4. Twin(log, n, f) # 0
  <2>1. e \in twins(f) /\ log[f].text # Plain /\ f \in 1..n
    BY <1>1, <1>3, Events
  <2>2. Twin(log, n, f) \in twins(f)
    BY <2>1 DEF Twin
  <2>3. twins(f) \subseteq 1..n /\ 0 \notin 1..n
    BY Events
  <2> HIDE DEF twins
  <2> QED BY <2>2, <2>3
<1> QED BY <1>1, <1>2, <1>3, <1>4, Events

-----------------------------------------------------------------------------
(***************************************************************************)
(* What is shown.                                                          *)
(***************************************************************************)
\* An event shows on rows R by its type or pair, as narration, or as a block of its turn.
LEMMA ShownIs ==
  ASSUME LogType, NEW R \in SUBSET DOMAIN log, NEW e
  PROVE  e \in Shown(log, R) <=>
           \/ e \in ShownByType(log, R) \/ e \in SurfacedNarration(log, R)
           \/ /\ e \in R
              /\ LET T == R \cap Rows(log, TurnOf(log, e))
                 IN  e \in SurfacedRecovered(log, T) \/ e \in SurfacedUnsuperseded(log, T)
<1>1. ASSUME NEW t \in Turns(log),
             e \in SurfacedRecovered(log, R \cap Rows(log, t))
               \/ e \in SurfacedUnsuperseded(log, R \cap Rows(log, t))
      PROVE  e \in R /\ TurnOf(log, e) = t
  BY <1>1 DEF SurfacedRecovered, SurfacedUnsuperseded, Rows
<1>2. ASSUME e \in R PROVE TurnOf(log, e) \in Turns(log)
  BY <1>2 DEF Turns
<1> DEFINE here(t) == LET T == R \cap Rows(log, t) IN SurfacedRecovered(log, T) \cup SurfacedUnsuperseded(log, T)
<1>3. e \in UNION {here(t) : t \in Turns(log)} <=> e \in R /\ e \in here(TurnOf(log, e))
  <2>1. ASSUME NEW t \in Turns(log), e \in here(t) PROVE e \in R /\ TurnOf(log, e) = t
    BY <1>1, <2>1
  <2> HIDE DEF here
  <2> QED BY <1>2, <2>1
<1>4. Shown(log, R) = ShownByType(log, R) \cup SurfacedNarration(log, R) \cup UNION {here(t) : t \in Turns(log)}
  BY DEF Shown
<1>5. e \in here(TurnOf(log, e)) <=>
        LET T == R \cap Rows(log, TurnOf(log, e))
        IN  e \in SurfacedRecovered(log, T) \/ e \in SurfacedUnsuperseded(log, T)
  OBVIOUS
<1> HIDE DEF here
<1> QED BY <1>3, <1>4, <1>5

\* Recovered text shows only by the pass for it.
LEMMA RecoveredShown ==
  ASSUME LogType, NEW R \in SUBSET DOMAIN log, NEW e \in Shown(log, R), Recovered(log[e])
  PROVE  e \in SurfacedRecovered(log, R \cap Rows(log, TurnOf(log, e)))
<1>1. log[e].type \in {"delta", "block"} /\ ~TextBlock(log[e])
  BY DEF Recovered, Speaks, TextBlock, Live
<1>2. e \notin SurfacedNarration(log, R) /\ \A T : e \notin SurfacedUnsuperseded(log, T)
  BY <1>1 DEF SurfacedNarration, SurfacedUnsuperseded
<1>3. e \notin ShownByType(log, R)
  <2> SUFFICES ASSUME e \in ShownByType(log, R) PROVE FALSE
    OBVIOUS
  <2>1. e \in DOMAIN log /\ log[e].type \notin Conversation /\ log[e].type \notin Candidates
    BY <1>1 DEF ShownByType, Conversation, Candidates
  <2>2. Twin(log, Len(log), e) # 0
    BY <2>1 DEF ShownByType
  <2> QED BY <2>1, <2>2, TwinPairs
<1> QED BY <1>2, <1>3, ShownIs

\* Only what was read is shown.
LEMMA ShownIsOf ==
  ASSUME LogType, NEW R \in SUBSET DOMAIN log
  PROVE  Shown(log, R) \subseteq R
<1> SUFFICES ASSUME NEW e \in Shown(log, R) PROVE e \in R
  OBVIOUS
<1>1. ShownByType(log, R) \subseteq R
  BY DEF ShownByType
<1>2. SurfacedNarration(log, R) \subseteq R
  BY DEF SurfacedNarration
<1> QED BY <1>1, <1>2, ShownIs

\* A turn never shows a recovered text next to a block or a result that says
\* something (annotateEntries' passes, turnmodel.go:618).
THEOREM OneVoicePerTurn == Spec => []OneVoice
<1>1. ASSUME LogType PROVE OneVoice
  <2> SUFFICES ASSUME NEW e \in Shown(log, DOMAIN log), NEW f \in Shown(log, DOMAIN log),
                      TurnOf(log, e) = TurnOf(log, f), Recovered(log[e])
               PROVE  ~TextBlock(log[f]) /\ ~Answers(log[f])
    BY DEF OneVoice
  <2> DEFINE T == DOMAIN log \cap Rows(log, TurnOf(log, e))
  <2>1. e \in SurfacedRecovered(log, T)
    BY <1>1, RecoveredShown
  <2>2. f \in DOMAIN log
    BY <1>1, ShownIs DEF ShownByType, SurfacedNarration
  <2>3. f \in T
    BY <2>2 DEF Rows
  <2>4. ~Answers(log[f]) /\ ~Live(log[f])
    <3> HIDE DEF T
    <3> QED BY <2>1, <2>3 DEF SurfacedRecovered
  <2> QED BY <2>4 DEF TextBlock
<1> QED BY <1>1, TypeInvariant, PTL

\* A turn that says something shows words, or another turn shows the same
\* (annotateEntries and pairDualEmits).
THEOREM NothingSaidIsLost == Spec => []WordsReachReader
<1>1. ASSUME LogType PROVE WordsReachReader
  <2> SUFFICES ASSUME NEW t \in Turns(log),
                      LET T == Rows(log, t)
                          spoken == {e \in T : Words(log[e])}
                          kept == {e \in T : log[e].type = "result" \/ TextBlock(log[e])}
                      IN  spoken \cap kept # {} \/ (spoken # {} /\ \A e \in spoken : Recovered(log[e]))
               PROVE  \E e \in Rows(log, t) :
                        /\ Words(log[e])
                        /\ e \in Shown(log, Rows(log, t)) \/ Twin(log, Len(log), e) \in StoredShown(log)
    BY DEF WordsReachReader
  <2> DEFINE T == Rows(log, t)
  <2>1. T \subseteq DOMAIN log /\ \A e \in T : TurnOf(log, e) = t /\ T \cap Rows(log, TurnOf(log, e)) = T
    BY DEF Rows
  <2>2. ASSUME NEW e \in T, Answers(log[e])
        PROVE  e \in Shown(log, T) \/ Twin(log, Len(log), e) \in StoredShown(log)
    <3> DEFINE f == Twin(log, Len(log), e)
    <3>1. e \in DOMAIN log /\ log[e] \in Event /\ log[e].type = "result"
      BY <1>1, <2>1, <2>2, Events DEF Answers
    <3>2. CASE f = 0
      <4>1. e \in ShownByType(log, T)
        BY <3>1, <3>2 DEF ShownByType, Conversation
      <4> QED BY <1>1, <2>1, <4>1, ShownIs
    <3>3. CASE f # 0 /\ log[e].source = "harness"
      <4>1. e \in ShownByType(log, T)
        BY <3>3 DEF ShownByType
      <4> QED BY <1>1, <2>1, <4>1, ShownIs
    <3>4. CASE f # 0 /\ log[e].source # "harness"
      <4>1. f \in DOMAIN log /\ log[f].source # log[e].source /\ Twin(log, Len(log), f) # 0
        BY <1>1, <3>1, <3>4, TwinPairs
      <4> HIDE DEF f
      <4>2. log[f] \in Event
        BY <1>1, <4>1, Events
      <4>3. log[f].source = "harness"
        BY <3>1, <3>4, <4>1, <4>2 DEF Event
      <4>4. f \in Rows(log, TurnOf(log, f)) /\ TurnOf(log, f) \in Turns(log)
        BY <4>1 DEF Rows, Turns
      <4>5. f \in ShownByType(log, Rows(log, TurnOf(log, f)))
        BY <4>1, <4>3, <4>4 DEF ShownByType
      <4>6. f \in Shown(log, Rows(log, TurnOf(log, f)))
        <5>1. Rows(log, TurnOf(log, f)) \subseteq DOMAIN log
          BY DEF Rows
        <5> QED BY <1>1, <4>5, <5>1, ShownIs
      <4>7. f \in StoredShown(log)
        BY <4>4, <4>6 DEF StoredShown
      <4> QED BY <4>7 DEF f
    <3> QED BY <3>2, <3>3, <3>4
  <2>3. CASE \E e \in T : Answers(log[e])
    BY <2>2, <2>3 DEF Words, Answers
  <2>4. CASE (\A e \in T : ~Answers(log[e])) /\ \E e \in T : TextBlock(log[e])
    <3>1. PICK e \in T : TextBlock(log[e])
      BY <2>4
    <3>2. e \in SurfacedUnsuperseded(log, T)
      BY <2>4, <3>1 DEF SurfacedUnsuperseded
    <3>3. e \in Shown(log, T)
      BY <1>1, <2>1, <3>1, <3>2, ShownIs
    <3> QED BY <3>1, <3>3 DEF Words, TextBlock, Live
  <2>5. CASE (\A e \in T : ~Answers(log[e])) /\ \A e \in T : ~TextBlock(log[e])
    <3>1. \A e \in T : log[e].type = "result" => ~Words(log[e])
      BY <2>5 DEF Words, Answers, Speaks
    <3>2. PICK e \in T : Words(log[e]) /\ Recovered(log[e])
      BY <2>5, <3>1
    <3>3. \A f \in T : Words(log[f]) => Recovered(log[f])
      BY <2>5, <3>1
    <3>4. \A f \in T : ~Live(log[f])
      BY <3>3 DEF Words, Live
    <3>5. e \in SurfacedRecovered(log, T)
      BY <2>5, <3>2, <3>4 DEF SurfacedRecovered
    <3>6. e \in Shown(log, T)
      BY <1>1, <2>1, <3>2, <3>5, ShownIs
    <3> QED BY <3>2, <3>6
  <2> QED BY <2>3, <2>4, <2>5
<1> QED BY <1>1, TypeInvariant, PTL

\* The turns of a page built together show what each shows built alone, if no message
\* spans turns (buildTurnModel on one turn and on a page, turnmodel.go:438).
THEOREM BuiltAloneAsTogether == Spec => []AloneAsTogether
<1>1. ASSUME LogType PROVE AloneAsTogether
  <2> SUFFICES ASSUME MessagesKeepTurn(log), NEW e PROVE e \in Shown(log, DOMAIN log) <=> e \in StoredShown(log)
    BY DEF AloneAsTogether
  <2> DEFINE T == Rows(log, TurnOf(log, e))
  <2>1. \A t : Rows(log, t) \subseteq DOMAIN log
    BY DEF Rows
  <2>2. DOMAIN log \cap T = T /\ T \cap T = T
    BY <2>1
  <2>3. ASSUME NEW t, e \in Shown(log, Rows(log, t)) PROVE e \in DOMAIN log /\ t = TurnOf(log, e)
    <3>1. e \in Rows(log, t)
      BY <1>1, <2>1, <2>3, ShownIs DEF ShownByType, SurfacedNarration
    <3> QED BY <3>1 DEF Rows
  <2>4. e \in Shown(log, DOMAIN log) => e \in DOMAIN log
    BY <1>1, ShownIs DEF ShownByType, SurfacedNarration
  <2>5. e \in StoredShown(log) <=> e \in DOMAIN log /\ e \in Shown(log, T)
    BY <2>3 DEF StoredShown, Turns
  <2>6. ASSUME e \in DOMAIN log PROVE e \in Shown(log, DOMAIN log) <=> e \in Shown(log, T)
    <3>1. e \in T
      BY <2>6 DEF Rows
    <3>2. e \in ShownByType(log, DOMAIN log) <=> e \in ShownByType(log, T)
      BY <2>6, <3>1 DEF ShownByType
    <3>3. e \in SurfacedNarration(log, DOMAIN log) <=> e \in SurfacedNarration(log, T)
      <4>1. ASSUME NEW f \in DOMAIN log, log[e].message # NoMessage, log[f].message = log[e].message
            PROVE  f \in T
        BY <2>6, <4>1 DEF MessagesKeepTurn, Rows
      <4> HIDE DEF T
      <4> QED BY <2>1, <2>2, <2>6, <3>1, <4>1 DEF SurfacedNarration
    <3> HIDE DEF T
    <3>4. T \subseteq DOMAIN log
      BY <2>1 DEF T
    <3>5. e \in Shown(log, DOMAIN log) <=>
            \/ e \in ShownByType(log, DOMAIN log) \/ e \in SurfacedNarration(log, DOMAIN log)
            \/ e \in SurfacedRecovered(log, T) \/ e \in SurfacedUnsuperseded(log, T)
      BY <1>1, <2>2, <2>6, ShownIs DEF T
    <3>6. e \in Shown(log, T) <=>
            \/ e \in ShownByType(log, T) \/ e \in SurfacedNarration(log, T)
            \/ e \in SurfacedRecovered(log, T) \/ e \in SurfacedUnsuperseded(log, T)
      BY <1>1, <2>2, <3>1, <3>4, ShownIs DEF T
    <3> QED BY <3>2, <3>3, <3>5, <3>6
  <2> QED BY <2>4, <2>5, <2>6
<1> QED BY <1>1, TypeInvariant, PTL
-----------------------------------------------------------------------------
(***************************************************************************)
(* Readings.                                                               *)
(***************************************************************************)
LEMMA LastIs ==
  ASSUME NEW n \in Nat, NEW S, S \subseteq 0..n, S # {}
  PROVE  Last(S) \in S /\ (\A f \in S : f <= Last(S)) /\ Last(S) \in Nat
<1>1. Last(S) \in S /\ \A f \in S : f <= Last(S)
  BY GreatestExists DEF Last
<1>2. Last(S) \in 0..n
  BY <1>1
<1>3. Last(S) \in Nat
  BY <1>2
<1> QED BY <1>1, <1>3

\* The latest of a set is the only element that nothing in it passes.
LEMMA LastOnly ==
  ASSUME NEW n \in Nat, NEW S, S \subseteq 0..n, NEW e \in S, \A f \in S : f <= e
  PROVE  Last(S) = e
<1>1. Last(S) \in Nat /\ e <= Last(S) /\ Last(S) <= e
  BY LastIs
<1>2. e \in Nat
  OBVIOUS
<1> QED BY <1>1, <1>2

\* A turn's reading is its latest.
LEMMA TurnSourcesIs ==
  ASSUME LogType, NEW t, NEW r \in Readings
  PROVE  LET from == Carriers(log, Rows(log, t), r)
             source == TurnSources(log, t)[r]
         IN  /\ from = {} => source = 0
             /\ from # {} => source \in from /\ \A e \in from : e <= source
             /\ source \in 0..Len(log)
<1> DEFINE from == Carriers(log, Rows(log, t), r)
<1>1. TurnSources(log, t)[r] = IF from = {} THEN 0 ELSE Last(from)
  BY DEF TurnSources
<1>2. from \subseteq 0..Len(log) /\ Len(log) \in Nat
  BY Events DEF Carriers, Rows
<1>3. from # {} => Last(from) \in from /\ \A e \in from : e <= Last(from)
  <2> HIDE DEF from
  <2> QED BY <1>2, LastIs
<1> HIDE DEF from
<1>4. TurnSources(log, t)[r] \in 0..Len(log)
  <2>1. CASE from = {}
    BY <1>1, <1>2, <2>1
  <2>2. CASE from # {}
    <3>1. TurnSources(log, t)[r] \in from
      BY <1>1, <1>3, <2>2
    <3> QED BY <1>2, <3>1
  <2> QED BY <2>1, <2>2
<1> QED BY <1>1, <1>3, <1>4 DEF from

\* A page's reading is the latest of all its turns, 0 if none has one.
LEMMA StoredSourcesIs ==
  ASSUME LogType, NEW r \in Readings
  PROVE  LET from == Carriers(log, DOMAIN log, r)
         IN  /\ from = {} => StoredSources(log)[r] = 0
             /\ from # {} => StoredSources(log)[r] \in from
             /\ \A e \in from : e <= StoredSources(log)[r]
<1> DEFINE from == Carriers(log, DOMAIN log, r)
           S == {0} \cup {TurnSources(log, t)[r] : t \in Turns(log)}
<1>1. StoredSources(log)[r] = Last(S)
  BY DEF StoredSources
<1>2. Len(log) \in Nat /\ S \subseteq 0..Len(log)
  <2>1. Len(log) \in Nat /\ \A t \in Turns(log) : TurnSources(log, t)[r] \in 0..Len(log)
    BY Events, TurnSourcesIs
  <2> QED BY <2>1
<1>3. Last(S) \in S /\ \A e \in S : e <= Last(S)
  <2>1. S # {}
    OBVIOUS
  <2> HIDE DEF S
  <2> QED BY <1>2, <2>1, LastIs
<1>4. \A t : Carriers(log, Rows(log, t), r) \subseteq from
  BY DEF Carriers, Rows
<1>5. \A t \in Turns(log) : TurnSources(log, t)[r] # 0 => TurnSources(log, t)[r] \in from
  BY <1>4, TurnSourcesIs
<1>6. \A e \in from : e <= Last(S) /\ e \in 1..Len(log)
  <2> SUFFICES ASSUME NEW e \in from PROVE e <= Last(S) /\ e \in 1..Len(log)
    OBVIOUS
  <2> DEFINE t == TurnOf(log, e)
  <2>1. e \in 1..Len(log) /\ t \in Turns(log) /\ e \in Carriers(log, Rows(log, t), r)
    BY Events DEF Carriers, Rows, Turns
  <2>2. e <= TurnSources(log, t)[r] /\ TurnSources(log, t)[r] \in S
    <3> HIDE DEF t
    <3> QED BY <2>1, TurnSourcesIs
  <2>3. TurnSources(log, t)[r] <= Last(S) /\ TurnSources(log, t)[r] \in 0..Len(log) /\ Last(S) \in 0..Len(log)
    <3> HIDE DEF S, t
    <3> QED BY <1>2, <1>3, <2>2
  <2> QED BY <1>2, <2>1, <2>2, <2>3
<1>7. Last(S) = 0 \/ Last(S) \in from
  <2> HIDE DEF from
  <2> QED BY <1>3, <1>5
<1>8. from = {} => Last(S) = 0
  <2> HIDE DEF S, from
  <2> QED BY <1>7
<1>9. from # {} => Last(S) \in from
  <2>1. from # {} => Last(S) # 0
    <3> HIDE DEF S, from
    <3> QED BY <1>2, <1>3, <1>6
  <2> QED BY <1>7, <2>1
<1> HIDE DEF S, from
<1> QED BY <1>1, <1>6, <1>8, <1>9 DEF from

\* Each reading of a stored page is from the newest event that carries it, however
\* turns interleave (assembleStoredPage, stored_turns.go:146).
THEOREM StoredReadingsAreLatest == Spec => []StoredReadingsLatest
<1>1. ASSUME LogType PROVE StoredReadingsLatest
  <2> SUFFICES ASSUME NEW r \in Readings, NEW e \in Carriers(log, DOMAIN log, r)
               PROVE  StoredSources(log)[r] \in Carriers(log, DOMAIN log, r) /\ e <= StoredSources(log)[r]
    BY DEF StoredReadingsLatest
  <2> QED BY <1>1, StoredSourcesIs
<1> QED BY <1>1, TypeInvariant, PTL

Opened(e) == First(Rows(log, TurnOf(log, e)))

LEMMA OpenedIs ==
  ASSUME LogType, NEW e \in DOMAIN log
  PROVE  Opened(e) \in Nat /\ Opened(e) <= e /\ e \in Nat
<1>1. e \in Rows(log, TurnOf(log, e)) /\ Rows(log, TurnOf(log, e)) \subseteq Nat /\ e \in Nat
  BY Events DEF Rows
<1> HIDE DEF Rows
<1>2. Opened(e) \in Rows(log, TurnOf(log, e)) /\ \A f \in Rows(log, TurnOf(log, e)) : Opened(e) <= f
  BY <1>1, LeastExists DEF First, Opened
<1> QED BY <1>1, <1>2

\* The order of a page's rows.
LEMMA RowBeforeIs ==
  ASSUME NEW e, NEW f
  PROVE  RowBefore(log, e, f) <=> Opened(e) < Opened(f) \/ (Opened(e) = Opened(f) /\ e <= f)
  BY DEF RowBefore, Opened

\* Of the rows that carry a reading one comes last, and it is the one that is kept.
LEMMA RawSourcesIs ==
  ASSUME LogType, NEW r \in Readings
  PROVE  LET from == Carriers(log, DOMAIN log, r)
             raw == RawSources(log)[r]
         IN  /\ from = {} => raw = 0
             /\ from # {} => raw \in from /\ \A f \in from : RowBefore(log, f, raw)
<1> DEFINE from == Carriers(log, DOMAIN log, r)
           opens == {Opened(e) : e \in from}
           newest == {e \in from : Opened(e) = Last(opens)}
<1>1. RawSources(log)[r] = IF from = {} THEN 0 ELSE CHOOSE e \in from : \A f \in from : RowBefore(log, f, e)
  BY DEF RawSources
<1>2. /\ Len(log) \in Nat /\ from \subseteq 0..Len(log)
      /\ \A e \in from : Opened(e) \in 0..Len(log)
  <2>1. Len(log) \in Nat /\ from \subseteq DOMAIN log /\ DOMAIN log = 1..Len(log)
    BY Events DEF Carriers
  <2> HIDE DEF from
  <2>2. ASSUME NEW e \in from PROVE Opened(e) \in 0..Len(log)
    <3>1. e \in 1..Len(log) /\ Opened(e) \in Nat /\ Opened(e) <= e
      BY <2>1, OpenedIs
    <3> QED BY <2>1, <3>1
  <2> QED BY <2>1, <2>2
<1> HIDE DEF from
<1>3. ASSUME from # {} PROVE \E e \in from : \A f \in from : RowBefore(log, f, e)
  <2>1. opens # {} /\ opens \subseteq 0..Len(log)
    BY <1>2, <1>3
  <2>2. Last(opens) \in opens /\ \A o \in opens : o <= Last(opens)
    <3> HIDE DEF opens
    <3> QED BY <1>2, <2>1, LastIs
  <2>3. newest # {} /\ newest \subseteq from /\ newest \subseteq 0..Len(log)
    BY <1>2, <2>2
  <2>4. Last(newest) \in newest /\ \A e \in newest : e <= Last(newest)
    <3> HIDE DEF newest
    <3> QED BY <1>2, <2>3, LastIs
  <2>5. ASSUME NEW f \in from PROVE RowBefore(log, f, Last(newest))
    <3>1. Opened(f) <= Last(opens) /\ Opened(Last(newest)) = Last(opens)
      BY <2>2, <2>4
    <3>2. Opened(f) \in Nat /\ Last(opens) \in Nat
      BY <1>2, <2>1, <2>2
    <3>3. Opened(f) = Last(opens) => f <= Last(newest)
      BY <2>4
    <3> HIDE DEF opens, newest
    <3> QED BY <3>1, <3>2, <3>3, RowBeforeIs
  <2> QED BY <2>3, <2>4, <2>5
<1> QED BY <1>1, <1>3 DEF from

\* A raw page's reading is the stored page's, or an older one of a turn that was
\* opened after the stored one's (buildTurnModel, turnmodel.go:461).
THEOREM RawReadingsLagBehind == Spec => []RawReadingsLag
<1>1. ASSUME LogType PROVE RawReadingsLag
  <2> SUFFICES ASSUME NEW r \in Readings
        PROVE  LET raw == RawSources(log)[r]
                   stored == StoredSources(log)[r]
                   overtaking == {e \in Carriers(log, DOMAIN log, r) : Opened(e) > Opened(stored)}
               IN  IF overtaking = {} THEN raw = stored ELSE raw \in overtaking /\ raw < stored
    BY DEF RawReadingsLag, Opened
  <2> DEFINE from == Carriers(log, DOMAIN log, r)
             raw == RawSources(log)[r]
             stored == StoredSources(log)[r]
             overtaking == {e \in from : Opened(e) > Opened(stored)}
  <2>1. /\ from = {} => stored = 0
        /\ from # {} => stored \in from
        /\ \A e \in from : e <= stored
    BY <1>1, StoredSourcesIs
  <2>2. /\ from = {} => raw = 0
        /\ from # {} => raw \in from /\ \A f \in from : RowBefore(log, f, raw)
    BY <1>1, RawSourcesIs
  <2>3. \A e \in from : e \in Nat /\ Opened(e) \in Nat
    <3>1. from \subseteq DOMAIN log
      BY DEF Carriers
    <3> QED BY <1>1, <3>1, OpenedIs
  <2> HIDE DEF from, raw, stored
  <2>4. CASE from = {}
    BY <2>1, <2>2, <2>4 DEF from, raw, stored
  <2>5. CASE from # {}
    <3>1. /\ stored \in from /\ raw \in from /\ raw <= stored
          /\ stored \in Nat /\ raw \in Nat /\ Opened(stored) \in Nat /\ Opened(raw) \in Nat
      BY <2>1, <2>2, <2>3, <2>5
    <3>2. CASE overtaking = {}
      <4>1. Opened(raw) <= Opened(stored)
        BY <3>1, <3>2
      <4>2. RowBefore(log, stored, raw)
        BY <2>2, <2>5, <3>1
      <4>3. raw = stored
        BY <3>1, <4>1, <4>2, RowBeforeIs
      <4> QED BY <3>2, <4>3 DEF from, raw, stored
    <3>3. CASE overtaking # {}
      <4>1. PICK e \in from : Opened(e) > Opened(stored)
        BY <3>3
      <4>2. Opened(e) <= Opened(raw) /\ Opened(e) \in Nat
        BY <2>2, <2>3, <2>5, <3>1, RowBeforeIs
      <4>3. Opened(raw) > Opened(stored) /\ raw # stored
        BY <3>1, <4>1, <4>2
      <4>4. raw \in overtaking /\ raw < stored
        BY <3>1, <4>3
      <4> QED BY <3>3, <4>4 DEF from, raw, stored
    <3> QED BY <3>2, <3>3
  <2> QED BY <2>4, <2>5
<1> QED BY <1>1, TypeInvariant, PTL

-----------------------------------------------------------------------------
(***************************************************************************)
(* Copies.                                                                 *)
(***************************************************************************)
Copies(x, source) == {e \in DOMAIN log : log[e].text = x /\ log[e].source = source}
UpTo(S, e) == {f \in S : f <= e}

\* Counting from either end.
LEMMA UpToIs ==
  ASSUME NEW n \in Nat, NEW S, S \subseteq 0..n, NEW e \in S
  PROVE  /\ Cardinality(UpTo(S, e)) = Cardinality(S) - Cardinality(AtLeast(S, e)) + 1
         /\ Cardinality(UpTo(S, e)) \in Nat /\ Cardinality(AtLeast(S, e)) \in Nat /\ Cardinality(S) \in Nat
         /\ Cardinality(UpTo(S, e)) >= 1 /\ Cardinality(UpTo(S, e)) <= Cardinality(S)
<1>1. UpTo(S, e) \subseteq 0..n /\ AtLeast(S, e) \subseteq 0..n
  BY DEF UpTo, AtLeast
<1>2. /\ IsFiniteSet(UpTo(S, e)) /\ IsFiniteSet(AtLeast(S, e)) /\ IsFiniteSet(S)
      /\ Cardinality(UpTo(S, e)) \in Nat /\ Cardinality(AtLeast(S, e)) \in Nat /\ Cardinality(S) \in Nat
  BY <1>1, BoundedFinite
<1>3. UpTo(S, e) \cup AtLeast(S, e) = S /\ UpTo(S, e) \cap AtLeast(S, e) = {e}
  <2>1. S \subseteq Nat /\ e \in Nat
    OBVIOUS
  <2>2. \A f \in S : (f <= e \/ f >= e) /\ (f <= e /\ f >= e <=> f = e)
    BY <2>1
  <2> QED BY <2>2 DEF UpTo, AtLeast
<1>4. Cardinality({e}) = 1
  BY FS_Singleton
<1>5. Cardinality(UpTo(S, e) \cup AtLeast(S, e))
        = Cardinality(UpTo(S, e)) + Cardinality(AtLeast(S, e)) - Cardinality(UpTo(S, e) \cap AtLeast(S, e))
  BY <1>2, FS_Union
<1>6. Cardinality(UpTo(S, e)) <= Cardinality(S)
  <2>1. UpTo(S, e) \in SUBSET S
    BY DEF UpTo
  <2> QED BY <1>2, <2>1, FS_Subset
<1>7. Cardinality({e}) <= Cardinality(UpTo(S, e))
  <2>1. {e} \in SUBSET UpTo(S, e)
    BY <1>3
  <2> QED BY <1>2, <2>1, FS_Subset
<1>8. Cardinality(S) = Cardinality(UpTo(S, e)) + Cardinality(AtLeast(S, e)) - 1
  BY <1>3, <1>4, <1>5
<1>9. Cardinality(UpTo(S, e)) >= 1
  BY <1>2, <1>4, <1>7
<1>10. Cardinality(UpTo(S, e)) = Cardinality(S) - Cardinality(AtLeast(S, e)) + 1
  BY <1>2, <1>8
<1> QED BY <1>2, <1>6, <1>9, <1>10

\* Every place up to the number of a set is taken.
LEMMA PlaceTaken ==
  ASSUME NEW n \in Nat, NEW S, S \subseteq 0..n, NEW p \in Nat \ {0}, p <= Cardinality(S)
  PROVE  \E e \in S : Cardinality(UpTo(S, e)) = p
<1>1. Cardinality(S) \in Nat
  BY BoundedFinite
<1> DEFINE k == Cardinality(S) - p + 1
<1>2. k \in Nat \ {0} /\ k <= Cardinality(S)
  BY <1>1
<1>3. PICK e \in S : Cardinality(AtLeast(S, e)) = k
  <2> HIDE DEF k
  <2> QED BY <1>1, <1>2, NthExists
<1>4. Cardinality(UpTo(S, e)) = Cardinality(S) - k + 1
  <2> HIDE DEF k
  <2> QED BY <1>3, UpToIs
<1> QED BY <1>1, <1>4

\* Those past a place are as many as are left.
LEMMA PastPlace ==
  ASSUME NEW n \in Nat, NEW S, S \subseteq 0..n, NEW p \in Nat
  PROVE  Cardinality({e \in S : Cardinality(UpTo(S, e)) > p})
           = IF Cardinality(S) > p THEN Cardinality(S) - p ELSE 0
<1> DEFINE past == {e \in S : Cardinality(UpTo(S, e)) > p}
<1>1. Cardinality(S) \in Nat
  BY BoundedFinite
<1>2. CASE Cardinality(S) > p
  <2>1. PICK t \in S : Cardinality(UpTo(S, t)) = p + 1
    <3>1. p + 1 \in Nat \ {0} /\ p + 1 <= Cardinality(S)
      BY <1>1, <1>2
    <3> QED BY <3>1, PlaceTaken
  <2>2. ASSUME NEW e \in S, e >= t PROVE Cardinality(UpTo(S, e)) > p
    <3>1. UpTo(S, t) \in SUBSET UpTo(S, e)
      <4>1. S \subseteq Nat /\ t \in Nat /\ e \in Nat
        OBVIOUS
      <4>2. \A f \in S : f <= t => f <= e
        BY <2>2, <4>1
      <4> QED BY <4>2 DEF UpTo
    <3>2. IsFiniteSet(UpTo(S, e)) /\ Cardinality(UpTo(S, e)) \in Nat
      <4>1. UpTo(S, e) \subseteq 0..n
        BY DEF UpTo
      <4> QED BY <4>1, BoundedFinite
    <3>3. Cardinality(UpTo(S, t)) <= Cardinality(UpTo(S, e))
      BY <3>1, <3>2, FS_Subset
    <3> QED BY <2>1, <3>2, <3>3
  <2>3. ASSUME NEW e \in S, ~(e >= t) PROVE ~(Cardinality(UpTo(S, e)) > p)
    <3>1. UpTo(S, e) \in SUBSET (UpTo(S, t) \ {t})
      <4>1. S \subseteq Nat /\ t \in Nat /\ e \in Nat
        OBVIOUS
      <4>2. \A f \in S : f <= e => f <= t /\ f # t
        BY <2>3, <4>1
      <4> QED BY <4>2 DEF UpTo
    <3>2. t \in UpTo(S, t) /\ IsFiniteSet(UpTo(S, t)) /\ Cardinality(UpTo(S, e)) \in Nat
      <4>1. UpTo(S, t) \subseteq 0..n /\ UpTo(S, e) \subseteq 0..n /\ t \in Nat
        <5>1. UpTo(S, t) \subseteq S /\ UpTo(S, e) \subseteq S
          BY DEF UpTo
        <5>2. t \in Nat
          OBVIOUS
        <5> QED BY <5>1, <5>2
      <4>2. t \in UpTo(S, t)
        BY <4>1 DEF UpTo
      <4> QED BY <4>1, <4>2, BoundedFinite
    <3>3. /\ IsFiniteSet(UpTo(S, t) \ {t})
          /\ Cardinality(UpTo(S, t) \ {t}) = Cardinality(UpTo(S, t)) - 1
      BY <3>2, FS_RemoveElement
    <3>4. Cardinality(UpTo(S, e)) <= Cardinality(UpTo(S, t) \ {t})
      BY <3>1, <3>3, FS_Subset
    <3> QED BY <2>1, <3>2, <3>3, <3>4
  <2>4. past = AtLeast(S, t)
    BY <2>2, <2>3 DEF AtLeast
  <2>5. Cardinality(AtLeast(S, t)) = Cardinality(S) - p
    <3>1. /\ Cardinality(UpTo(S, t)) = Cardinality(S) - Cardinality(AtLeast(S, t)) + 1
          /\ Cardinality(AtLeast(S, t)) \in Nat
      BY UpToIs
    <3> QED BY <1>1, <2>1, <3>1
  <2> QED BY <1>2, <2>4, <2>5
<1>3. CASE ~(Cardinality(S) > p)
  <2>1. past = {}
    <3> SUFFICES ASSUME NEW e \in S, Cardinality(UpTo(S, e)) > p PROVE FALSE
      OBVIOUS
    <3>1. Cardinality(UpTo(S, e)) <= Cardinality(S) /\ Cardinality(UpTo(S, e)) \in Nat
      BY UpToIs
    <3> QED BY <1>1, <1>3, <3>1
  <2> QED BY <1>3, <2>1, FS_EmptySet
<1> QED BY <1>2, <1>3

\* A copy has a twin if the other source reported as many.
LEMMA TwinFound ==
  ASSUME LogType, NEW x, x # Plain, NEW source, NEW other, other # source,
         \A e \in DOMAIN log : log[e].source \in {source, other},
         NEW e \in Copies(x, source)
  PROVE  /\ Place(log, e) = Cardinality(UpTo(Copies(x, source), e))
         /\ Twin(log, Len(log), e) # 0 <=>
              Cardinality(UpTo(Copies(x, source), e)) <= Cardinality(Copies(x, other))
<1> DEFINE n == Len(log)
           twins == {f \in 1..n : /\ log[f].text = log[e].text /\ log[f].source # log[e].source
                                   /\ Place(log, f) = Place(log, e)}
<1>1. n \in Nat /\ DOMAIN log = 1..n
  BY Events
<1>2. e \in 1..n /\ log[e].text = x /\ log[e].source = source
  BY <1>1 DEF Copies
<1>3. \A s : \A f \in Copies(x, s) : Place(log, f) = Cardinality(UpTo(Copies(x, s), f))
  <2> SUFFICES ASSUME NEW s, NEW f \in Copies(x, s)
               PROVE  Place(log, f) = Cardinality(UpTo(Copies(x, s), f))
    OBVIOUS
  <2>1. f \in 1..n /\ log[f].text = x /\ log[f].source = s
    BY <1>1 DEF Copies
  <2>2. {g \in 1..f : Copy(log, f, g)} = UpTo(Copies(x, s), f)
    BY <1>1, <2>1 DEF Copy, UpTo, Copies
  <2> QED BY <2>2 DEF Place
<1>4. twins = {f \in Copies(x, other) : Cardinality(UpTo(Copies(x, other), f)) = Place(log, e)}
  <2>1. \A f \in 1..n : (log[f].text = log[e].text /\ log[f].source # log[e].source) <=> f \in Copies(x, other)
    BY <1>1, <1>2 DEF Copies
  <2>2. Copies(x, other) \subseteq 1..n
    BY <1>1 DEF Copies
  <2> QED BY <1>3, <2>1, <2>2
<1>5. Twin(log, n, e) # 0 <=> twins # {}
  <2>1. Twin(log, n, e) = IF twins = {} THEN 0 ELSE CHOOSE f \in twins : TRUE
    BY <1>2 DEF Twin
  <2>2. twins \subseteq 1..n /\ 0 \notin 1..n
    BY <1>1
  <2> HIDE DEF twins, n
  <2> QED BY <2>1, <2>2
<1>6. Place(log, e) = Cardinality(UpTo(Copies(x, source), e))
  BY <1>3
<1>7. Copies(x, other) \subseteq 0..n /\ Copies(x, source) \subseteq 0..n
  BY <1>1 DEF Copies
<1> HIDE DEF n, twins
<1>8. Place(log, e) \in Nat \ {0}
  <2>1. /\ Cardinality(UpTo(Copies(x, source), e)) \in Nat
        /\ Cardinality(UpTo(Copies(x, source), e)) >= 1
    BY <1>1, <1>7, UpToIs
  <2> QED BY <1>6, <2>1
<1>9. twins # {} <=> Place(log, e) <= Cardinality(Copies(x, other))
  <2>1. ASSUME Place(log, e) <= Cardinality(Copies(x, other)) PROVE twins # {}
    <3>1. \E f \in Copies(x, other) : Cardinality(UpTo(Copies(x, other), f)) = Place(log, e)
      BY <1>1, <1>7, <1>8, <2>1, PlaceTaken
    <3> QED BY <1>4, <3>1
  <2>2. ASSUME twins # {} PROVE Place(log, e) <= Cardinality(Copies(x, other))
    <3>1. PICK f \in Copies(x, other) : Cardinality(UpTo(Copies(x, other), f)) = Place(log, e)
      BY <1>4, <2>2
    <3> QED BY <1>1, <1>7, <3>1, UpToIs
  <2> QED BY <2>1, <2>2
<1> QED BY <1>5, <1>6, <1>9 DEF n

\* Whether a copy shows is for its pair to say.
LEMMA CopyShown ==
  ASSUME LogType, NEW e \in DOMAIN log, log[e].text # Plain
  PROVE  e \in StoredShown(log) <=> Twin(log, Len(log), e) = 0 \/ log[e].source = "harness"
<1>1. log[e] \in Event /\ log[e].type \in Candidates
  <2>1. log[e] \in Event
    BY Events
  <2> QED BY <2>1 DEF Event
<1>2. ~Speaks(log[e]) /\ ~TextBlock(log[e]) /\ ~Recovered(log[e])
  BY <1>1 DEF Speaks, TextBlock, Recovered, Live, Candidates
<1>3. \A T : /\ e \notin SurfacedNarration(log, T) /\ e \notin SurfacedRecovered(log, T)
             /\ e \notin SurfacedUnsuperseded(log, T)
  BY <1>2 DEF SurfacedNarration, SurfacedRecovered, SurfacedUnsuperseded
<1>4. \A t : Rows(log, t) \in SUBSET DOMAIN log
  BY DEF Rows
<1>5. \A t : e \in Shown(log, Rows(log, t)) <=> e \in ShownByType(log, Rows(log, t))
  BY <1>3, <1>4, ShownIs
<1>6. \A t : e \in ShownByType(log, Rows(log, t)) <=>
              t = TurnOf(log, e) /\ (Twin(log, Len(log), e) = 0 \/ log[e].source = "harness")
  <2>1. log[e].type \in Conversation
    BY <1>1 DEF Candidates, Conversation
  <2>2. \A t : e \in Rows(log, t) <=> t = TurnOf(log, e)
    BY DEF Rows
  <2> QED BY <2>1, <2>2 DEF ShownByType
<1>7. TurnOf(log, e) \in Turns(log)
  BY DEF Turns
<1> QED BY <1>5, <1>6, <1>7 DEF StoredShown

\* Of each text a page shows as many copies as the source that reported it more
\* often, whatever order the copies came in (pairDualEmits, dedup.go:21).
THEOREM CopiesShownAsOften == Spec => []ShownAsOften
<1>1. ASSUME LogType PROVE ShownAsOften
  <2> SUFFICES ASSUME NEW x \in Texts
        PROVE  LET copies(S, source) == {e \in S : log[e].text = x /\ log[e].source = source}
                   number(source) == Cardinality(copies(DOMAIN log, source))
                   shown == StoredShown(log)
               IN  Cardinality(copies(shown, "harness")) + Cardinality(copies(shown, "otel"))
                       = IF number("harness") < number("otel") THEN number("otel") ELSE number("harness")
    BY DEF ShownAsOften
  <2> DEFINE shown(source) == {e \in StoredShown(log) : log[e].text = x /\ log[e].source = source}
             H == Copies(x, "harness")
             O == Copies(x, "otel")
  <2>1. x # Plain /\ \A e \in DOMAIN log : log[e].source \in {"harness", "otel"}
    <3>1. \A e \in DOMAIN log : log[e] \in Event
      BY <1>1, Events
    <3> QED BY <3>1, NamesAssumption DEF Event
  <2>2. StoredShown(log) \subseteq DOMAIN log
    <3>1. \A t : Rows(log, t) \in SUBSET DOMAIN log
      BY DEF Rows
    <3>2. \A t : Shown(log, Rows(log, t)) \subseteq DOMAIN log
      BY <1>1, <3>1, ShownIsOf
    <3> QED BY <3>2 DEF StoredShown
  <2>3. shown("harness") = H
    <3>1. \A e \in H : e \in StoredShown(log)
      BY <1>1, <2>1, CopyShown DEF Copies
    <3> QED BY <2>2, <3>1 DEF Copies
  <2>4. \A e \in O : Twin(log, Len(log), e) # 0 <=> Cardinality(UpTo(O, e)) <= Cardinality(H)
    BY <1>1, <2>1, TwinFound
  <2>5. Len(log) \in Nat /\ H \subseteq 0..Len(log) /\ O \subseteq 0..Len(log)
    BY <1>1, Events DEF Copies
  <2>6. Cardinality(H) \in Nat /\ Cardinality(O) \in Nat /\ \A e \in O : Cardinality(UpTo(O, e)) \in Nat
    <3> HIDE DEF H, O
    <3> QED BY <2>5, BoundedFinite, UpToIs
  <2>7. shown("otel") = {e \in O : Cardinality(UpTo(O, e)) > Cardinality(H)}
    <3>1. \A e \in O : e \in StoredShown(log) <=> Twin(log, Len(log), e) = 0
      BY <1>1, <2>1, CopyShown DEF Copies
    <3>2. shown("otel") = {e \in O : e \in StoredShown(log)}
      BY <2>2 DEF Copies
    <3>3. \A e \in O : e \in StoredShown(log) <=> Cardinality(UpTo(O, e)) > Cardinality(H)
      <4> HIDE DEF H, O
      <4> QED BY <2>4, <2>6, <3>1
    <3> HIDE DEF H, O, shown
    <3> QED BY <3>2, <3>3
  <2> HIDE DEF H, O
  <2>8. Cardinality(shown("otel")) = IF Cardinality(O) > Cardinality(H) THEN Cardinality(O) - Cardinality(H) ELSE 0
    <3>1. Cardinality({e \in O : Cardinality(UpTo(O, e)) > Cardinality(H)})
            = IF Cardinality(O) > Cardinality(H) THEN Cardinality(O) - Cardinality(H) ELSE 0
      BY <2>5, <2>6, PastPlace
    <3> HIDE DEF shown
    <3> QED BY <2>7, <3>1
  <2> HIDE DEF shown
  <2>9. Cardinality(shown("harness")) + Cardinality(shown("otel"))
          = IF Cardinality(H) < Cardinality(O) THEN Cardinality(O) ELSE Cardinality(H)
    BY <2>3, <2>6, <2>8
  <2> QED BY <2>9 DEF shown, H, O, Copies
<1> QED BY <1>1, TypeInvariant, PTL
=============================================================================
