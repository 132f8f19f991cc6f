----------------------------- MODULE CallsProofs -----------------------------
(***************************************************************************)
(* Proofs about Calls: pushes, turn state, polling, walks, pages and their *)
(* cap, for any limits, any cap and any number of events, however the      *)
(* events of other clients fall between the queries.                       *)
(***************************************************************************)
EXTENDS Calls, NatSets

\* The log only grows, one event at a time.
LogType == log \in Seq(Event)
Grows == log' = log \/ \E ev \in Event : log' = Append(log, ev)

LEMMA LogInit == Init => LogType
BY DEF Init, LogType

LEMMA LogNext ==
  ASSUME LogType, [Next]_vars
  PROVE  LogType' /\ Grows
<1>1. CASE log' = log
  BY <1>1 DEF LogType, Grows
<1>2. ASSUME NEW ev \in Event, Stored(ev) PROVE LogType' /\ Grows
  BY <1>2 DEF Stored, LogType, Grows
<1>3. ASSUME NEW ev \in Event, Arrive(ev) \/ StorePushed(ev) \/ StrayStores(ev) PROVE Stored(ev)
  BY <1>3 DEF Arrive, StorePushed, StrayStores
<1>4. CASE Page
  BY <1>1, <1>4 DEF Page, PageStep, AskPage, AskOlder, FindBound, FindBelow, FindStart, CountPrompts,
     FindPlainStart, ReadTurns, FindMore, Trim, ReadEvents, RawDone, PageLeft
<1>5. CASE TurnState
  BY <1>1, <1>5 DEF TurnState, AskFirst, AskSecond, StateLeft, StateStep
<1>6. CASE Push
  <2>1. CASE Send \/ StoreFails \/ Project \/ Created \/ GiveUp \/ StrayFails
    BY <1>1, <2>1 DEF Send, StoreFails, Project, Created, GiveUp, StrayFails
  <2> QED BY <1>2, <1>3, <1>6, <2>1 DEF Push
<1>7. ASSUME NEW types \in SUBSET Types \ {{}}, Poll(types) PROVE LogType' /\ Grows
  BY <1>1, <1>7 DEF Poll
<1>8. CASE PollLeft
  BY <1>1, <1>8 DEF PollLeft
<1>9. CASE UNCHANGED vars
  BY <1>1, <1>9 DEF vars
<1> QED BY <1>2, <1>3, <1>4, <1>5, <1>6, <1>7, <1>8, <1>9 DEF Next

\* What a growing log keeps.
LEMMA GrowsKeeps ==
  ASSUME LogType, Grows
  PROVE  /\ Len(log) \in Nat /\ Len(log') \in Nat /\ Len(log) <= Len(log')
         /\ DOMAIN log = 1..Len(log) /\ DOMAIN log' = 1..Len(log')
         /\ \A e \in 1..Len(log) : log'[e] = log[e] /\ log[e] \in Event
<1>1. CASE log' = log
  BY <1>1 DEF LogType
<1>2. ASSUME NEW ev \in Event, log' = Append(log, ev)
      PROVE  /\ Len(log) \in Nat /\ Len(log') \in Nat /\ Len(log) <= Len(log')
             /\ DOMAIN log = 1..Len(log) /\ DOMAIN log' = 1..Len(log')
             /\ \A e \in 1..Len(log) : log'[e] = log[e] /\ log[e] \in Event
  BY <1>2 DEF LogType
<1> QED BY <1>1, <1>2 DEF Grows

-----------------------------------------------------------------------------
(***************************************************************************)
(* Pushing.                                                                *)
(***************************************************************************)
Copies == {e \in DOMAIN log : log[e].type = "pushed"}
Kept == IF push.at \in {"stored", "projected", "done"} THEN 1 ELSE 0
\* A send that is under way has been counted, and its answer is not lost yet.
Sending == IF push.at \in {"sent", "stored", "projected"} THEN 1 ELSE 0
Pushes == [at : {"none", "sent", "stored", "projected", "done", "refused", "lost"}, tries : Nat, lost : Nat]

PushInv ==
  /\ push \in Pushes /\ strays \in Nat
  /\ push.tries <= MaxTries /\ push.lost + Sending <= push.tries
  /\ Kept <= Cardinality(Copies) /\ Cardinality(Copies) + strays <= push.lost + Kept

LEMMA CopiesCount ==
  ASSUME LogType
  PROVE  IsFiniteSet(Copies) /\ Cardinality(Copies) \in Nat
<1>1. Copies \subseteq 0..Len(log) /\ Len(log) \in Nat
  BY DEF Copies, LogType
<1> QED BY <1>1, BoundedFinite

LEMMA CopiesGrow ==
  ASSUME LogType, NEW ev \in Event, log' = Append(log, ev)
  PROVE  Cardinality(Copies') = IF ev.type = "pushed" THEN Cardinality(Copies) + 1 ELSE Cardinality(Copies)
<1> DEFINE n == Len(log) + 1
<1>1. \A e \in DOMAIN log : log'[e] = log[e]
  BY DEF LogType
<1>2. DOMAIN log' = DOMAIN log \cup {n} /\ log'[n] = ev /\ n \notin DOMAIN log
  BY DEF LogType
<1>3. Copies' = IF ev.type = "pushed" THEN Copies \cup {n} ELSE Copies
  <2> HIDE DEF n
  <2> QED BY <1>1, <1>2 DEF Copies
<1>4. n \notin Copies
  BY <1>2 DEF Copies
<1> HIDE DEF n
<1> QED BY <1>3, <1>4, CopiesCount, FS_AddElement

LEMMA PushInit == Init => PushInv
<1> SUFFICES ASSUME Init PROVE PushInv
  OBVIOUS
<1>1. Copies = {}
  BY DEF Init, Copies
<1>2. Cardinality(Copies) = 0
  BY <1>1, FS_EmptySet
<1> QED BY <1>2, BoundsAssumption DEF Init, PushInv, NoPush, Pushes, Kept, Sending

LEMMA PushNext ==
  ASSUME LogType, PushInv, [Next]_vars
  PROVE  PushInv'
<1> USE CopiesCount
<1>1. CASE UNCHANGED <<log, push, strays>>
  BY <1>1 DEF PushInv, Copies, Kept, Sending
<1>2. ASSUME NEW ev \in Event, Arrive(ev) PROVE PushInv'
  <2>1. Cardinality(Copies') = Cardinality(Copies)
    BY <1>2, CopiesGrow DEF Arrive, Stored
  <2> QED BY <1>2, <2>1 DEF Arrive, PushInv, Kept, Sending
<1>3. CASE Page
  BY <1>1, <1>3 DEF Page, PageStep, AskPage, AskOlder, FindBound, FindBelow, FindStart, CountPrompts,
     FindPlainStart, ReadTurns, FindMore, Trim, ReadEvents, RawDone, PageLeft
<1>4. CASE TurnState
  BY <1>1, <1>4 DEF TurnState, AskFirst, AskSecond, StateLeft, StateStep
<1>5. CASE Push
  <2>1. CASE Send
    <3>1. /\ push' = [push EXCEPT !.at = "sent", !.tries = @ + 1] /\ push.at \in {"none", "refused", "lost"}
          /\ push.tries < MaxTries /\ UNCHANGED <<log, strays>>
      BY <2>1 DEF Send
    <3>2. Copies' = Copies
      BY <3>1 DEF Copies
    <3>3. push'.at = "sent" /\ push'.lost = push.lost /\ push'.tries = push.tries + 1 /\ push' \in Pushes
      <4>1. push \in Pushes
        BY DEF PushInv
      <4>2. push = [at |-> push.at, tries |-> push.tries, lost |-> push.lost]
        BY <4>1 DEF Pushes
      <4>3. push' = [at |-> "sent", tries |-> push.tries + 1, lost |-> push.lost]
        BY <3>1, <4>2
      <4> QED BY <4>1, <4>3 DEF Pushes
    <3>4. Kept = 0 /\ Kept' = 0 /\ Sending = 0 /\ Sending' = 1
      BY <3>1, <3>3 DEF Kept, Sending
    <3> QED BY <3>1, <3>2, <3>3, <3>4, BoundsAssumption DEF PushInv, Pushes
  <2>2. ASSUME NEW next \in {"refused"}, PushStep("sent", next), UNCHANGED <<log, strays>> PROVE PushInv'
    BY <2>2 DEF PushStep, PushInv, Pushes, Copies, Kept, Sending
  <2>3. CASE Project \/ Created
    <3>1. UNCHANGED <<log, strays>>
      BY <2>3 DEF Project, Created
    <3>2. /\ push.at \in {"stored", "projected"}
          /\ push' = [push EXCEPT !.at = "projected"] \/ push' = [push EXCEPT !.at = "done"]
      BY <2>3 DEF Project, Created, PushStep
    <3>3. Copies' = Copies
      BY <3>1 DEF Copies
    <3>4. Kept' = 1 /\ Kept = 1 /\ push'.lost = push.lost /\ push'.tries = push.tries
          /\ push' \in Pushes /\ Sending' <= Sending /\ Sending' \in {0, 1} /\ Sending = 1
      BY <3>2 DEF PushInv, Pushes, Kept, Sending
    <3> QED BY <3>1, <3>3, <3>4, BoundsAssumption DEF PushInv, Pushes
  <2>4. ASSUME NEW ev \in Event, StorePushed(ev) PROVE PushInv'
    <3>1. Cardinality(Copies') = Cardinality(Copies) + 1
      BY <2>4, CopiesGrow DEF StorePushed, Stored
    <3>2. /\ push' = [push EXCEPT !.at = "stored"] /\ push.at = "sent" /\ strays' = strays
      BY <2>4 DEF StorePushed, PushStep
    <3> QED BY <3>1, <3>2 DEF PushInv, Pushes, Kept, Sending
  <2>5. CASE GiveUp
    <3>1. /\ push.at \in {"sent", "stored", "projected"} /\ log' = log
          /\ push' = [push EXCEPT !.at = "lost", !.lost = @ + 1]
          /\ strays' = strays + (IF push.at = "sent" THEN 1 ELSE 0)
      BY <2>5 DEF GiveUp
    <3>2. Copies' = Copies
      BY <3>1 DEF Copies
    <3>3. push'.at = "lost" /\ push'.lost = push.lost + 1 /\ push'.tries = push.tries /\ push' \in Pushes
      <4>1. push \in Pushes
        BY DEF PushInv
      <4>2. push = [at |-> push.at, tries |-> push.tries, lost |-> push.lost]
        BY <4>1 DEF Pushes
      <4>3. push' = [at |-> "lost", tries |-> push.tries, lost |-> push.lost + 1]
        BY <3>1, <4>2
      <4> QED BY <4>1, <4>3 DEF Pushes
    <3>4. /\ Kept' = 0 /\ Sending = 1 /\ Sending' = 0
          /\ Kept = (IF push.at = "sent" THEN 0 ELSE 1)
      BY <3>1, <3>3 DEF Kept, Sending
    <3> QED BY <3>1, <3>2, <3>3, <3>4, BoundsAssumption DEF PushInv, Pushes
  <2>6. ASSUME NEW ev \in Event, StrayStores(ev) PROVE PushInv'
    <3>1. Cardinality(Copies') = Cardinality(Copies) + 1
      BY <2>6, CopiesGrow DEF StrayStores, Stored
    <3> QED BY <2>6, <3>1 DEF StrayStores, PushInv, Kept, Sending
  <2>7. CASE StrayFails
    <3>1. Copies' = Copies /\ Kept' = Kept /\ Sending' = Sending
      BY <2>7 DEF StrayFails, Copies, Kept, Sending
    <3>2. strays' \in Nat /\ strays' <= strays /\ push' = push
      BY <2>7 DEF StrayFails, PushInv
    <3>3. strays \in Nat /\ push.lost \in Nat /\ Kept \in Nat
      BY DEF PushInv, Pushes, Kept
    <3>4. Cardinality(Copies') + strays' <= push.lost + Kept
      BY <3>1, <3>2, <3>3 DEF PushInv
    <3> QED BY <3>1, <3>2, <3>4 DEF PushInv
  <2>8. CASE StoreFails
    BY <2>2, <2>8 DEF StoreFails
  <2> QED BY <1>5, <2>1, <2>3, <2>4, <2>5, <2>6, <2>7, <2>8 DEF Push
<1>6. ASSUME NEW types \in SUBSET Types \ {{}}, Poll(types) PROVE PushInv'
  BY <1>1, <1>6 DEF Poll
<1>7. CASE PollLeft
  BY <1>1, <1>7 DEF PollLeft
<1>8. CASE UNCHANGED vars
  BY <1>1, <1>8 DEF vars
<1> QED BY <1>2, <1>3, <1>4, <1>5, <1>6, <1>7, <1>8 DEF Next

\* However often a push is refused, lost or sent again, the event is stored at most
\* once for each answer lost and once for the one that came (PushEvent, client.go:48,
\* and handleIngestEvent).
THEOREM PushesStoredOnce == Spec => []PushedOnce
<1>1. PushInv => PushedOnce
  BY DEF PushInv, PushedOnce, Copies, Kept
<1> QED BY <1>1, LogInit, LogNext, PushInit, PushNext, PTL DEF Spec

-----------------------------------------------------------------------------
(***************************************************************************)
(* Turn state.                                                             *)
(***************************************************************************)
\* The greatest number of a set.
LEMMA NewestIs ==
  ASSUME NEW n \in Nat, NEW S, S \subseteq 0..n, S # {}
  PROVE  Newest(S) \in S /\ \A e \in S : e <= Newest(S)
BY GreatestExists DEF Newest

LEMMA NewestOfIs ==
  ASSUME NEW l, NEW n \in Nat, NEW type
  PROVE  /\ NewestOf(l, n, type) \in 0..n
         /\ NewestOf(l, n, type) # 0 => l[NewestOf(l, n, type)].type = type
         /\ \A e \in 1..n : l[e].type = type => e <= NewestOf(l, n, type)
<1> DEFINE S == {0} \cup {e \in 1..n : l[e].type = type}
<1>1. S \subseteq 0..n /\ S # {}
  OBVIOUS
<1>2. Newest(S) \in S /\ \A e \in S : e <= Newest(S)
  <2> HIDE DEF S
  <2> QED BY <1>1, NewestIs
<1>3. NewestOf(l, n, type) = Newest(S)
  BY DEF NewestOf
<1> QED BY <1>1, <1>2, <1>3

\* What n events say does not change when more arrive.
LEMMA NewestOfPrefix ==
  ASSUME LogType, Grows, NEW n \in 0..Len(log), NEW type
  PROVE  NewestOf(log', n, type) = NewestOf(log, n, type)
<1>1. \A e \in 1..n : log'[e] = log[e]
  BY GrowsKeeps
<1>2. {e \in 1..n : log'[e].type = type} = {e \in 1..n : log[e].type = type}
  BY <1>1
<1> QED BY <1>2 DEF NewestOf

States == [asked : Nat, answered : Nat, newest : [{"user_message", "result"} -> Nat]]
StateInv ==
  /\ state \in States
  /\ pc \in {"state", "answer"} =>
        /\ state.asked \in 0..Len(log)
        /\ state.newest["user_message"] = NewestOf(log, state.asked, "user_message")
  /\ pc = "answer" =>
        /\ state.answered \in state.asked..Len(log)
        /\ state.newest["result"] = NewestOf(log, state.answered, "result")

LEMMA StateNext ==
  ASSUME LogType, Grows, StateInv, [Next]_vars
  PROVE  StateInv'
<1>1. ASSUME state' = state, pc' \notin {"state", "answer"} PROVE StateInv'
  BY <1>1 DEF StateInv
<1>2. ASSUME UNCHANGED <<state, pc>> PROVE StateInv'
  <2>1. ASSUME pc \in {"state", "answer"}
        PROVE  /\ state'.asked \in 0..Len(log')
               /\ state'.newest["user_message"] = NewestOf(log', state'.asked, "user_message")
    BY <1>2, <2>1, GrowsKeeps, NewestOfPrefix DEF StateInv
  <2>2. ASSUME pc = "answer"
        PROVE  /\ state'.answered \in state'.asked..Len(log')
               /\ state'.newest["result"] = NewestOf(log', state'.answered, "result")
    <3>1. state.answered \in state.asked..Len(log) /\ state.asked \in 0..Len(log)
      BY <2>2 DEF StateInv
    <3>2. state.answered \in 0..Len(log)
      BY <3>1, GrowsKeeps
    <3> QED BY <1>2, <2>2, <3>1, <3>2, GrowsKeeps, NewestOfPrefix DEF StateInv
  <2> QED BY <1>2, <2>1, <2>2 DEF StateInv
<1>3. CASE Page
  BY <1>1, <1>3 DEF Page, PageStep, AskPage, AskOlder, FindBound, Bounded, FindBelow, FindStart, CountPrompts,
     FindPlainStart, ReadTurns, FindMore, Trim, ReadEvents, RawDone, PageLeft
<1>4. CASE AskFirst
  <2>1. /\ pc' = "state" /\ log' = log
        /\ state' = [NoState EXCEPT !.asked = Len(log),
                                    !.newest["user_message"] = NewestOf(log, Len(log), "user_message")]
    BY <1>4 DEF AskFirst, StateStep, Order
  <2>2. Len(log) \in Nat /\ NewestOf(log, Len(log), "user_message") \in Nat
    BY NewestOfIs, GrowsKeeps
  <2>3. state' = [asked |-> Len(log), answered |-> 0,
                  newest |-> [NoState.newest EXCEPT !["user_message"] = NewestOf(log, Len(log), "user_message")]]
    BY <2>1 DEF NoState
  <2>4. NoState.newest \in [{"user_message", "result"} -> Nat]
    BY DEF NoState
  <2>5. state' \in States /\ state'.newest["user_message"] = NewestOf(log, Len(log), "user_message")
    BY <2>2, <2>3, <2>4 DEF States
  <2> QED BY <2>1, <2>2, <2>3, <2>5 DEF StateInv
<1>5. CASE AskSecond
  <2>1. /\ pc = "state" /\ pc' = "answer" /\ log' = log
        /\ state' = [state EXCEPT !.answered = Len(log),
                                  !.newest["result"] = NewestOf(log, Len(log), "result")]
    BY <1>5 DEF AskSecond, StateStep, Order
  <2>2. Len(log) \in Nat /\ NewestOf(log, Len(log), "result") \in Nat
    BY NewestOfIs, GrowsKeeps
  <2>3. /\ state'.asked = state.asked /\ state'.answered = Len(log)
        /\ state'.newest["user_message"] = state.newest["user_message"]
        /\ state'.newest["result"] = NewestOf(log, Len(log), "result")
    BY <2>1 DEF StateInv, States
  <2>4. state' \in States
    BY <2>1, <2>2 DEF StateInv, States
  <2> QED BY <2>1, <2>2, <2>3, <2>4 DEF StateInv
<1>6. CASE StateLeft
  BY <1>6 DEF StateLeft, StateStep, StateInv, States, NoState
<1>7. CASE Push
  <2>1. CASE Send
    BY <1>1, <2>1 DEF Send
  <2> QED BY <1>2, <1>7, <2>1 DEF Push, PushStep, StoreFails, Project, Created, GiveUp, StrayFails, StorePushed, StrayStores
<1>8. ASSUME NEW ev \in Event, Arrive(ev) PROVE StateInv'
  BY <1>2, <1>8 DEF Arrive
<1>9. ASSUME NEW types \in SUBSET Types \ {{}}, Poll(types) PROVE StateInv'
  BY <1>1, <1>9 DEF Poll
<1>10. CASE PollLeft
  BY <1>1, <1>10 DEF PollLeft
<1>11. CASE UNCHANGED vars
  BY <1>2, <1>11 DEF vars
<1> QED BY <1>3, <1>4, <1>5, <1>6, <1>7, <1>8, <1>9, <1>10, <1>11 DEF Next, TurnState

PromptAt(n) == NewestOf(log, n, "user_message")
EndAt(n) == NewestOf(log, n, "result")
IsNewest(x, n, type) ==
  /\ x \in 0..n
  /\ x # 0 => log[x].type = type
  /\ \A e \in 1..n : log[e].type = type => e <= x

\* If the newest prompt came after the newest end when the second query is made, it
\* may have been so throughout; if the answer says it has ended, it had, at the first
\* query, at the second, or when the end that the second one found was stored.
LEMMA StateTrue == ASSUME LogType, StateInv PROVE StateWasTrue
<1> SUFFICES ASSUME pc = "answer"
             PROVE  IF InFlight(state) THEN FlyingAt(state.answered)
                    ELSE \E n \in state.asked..state.answered : ~FlyingAt(n)
  BY DEF StateWasTrue
<1>1. PICK a \in Nat, b \in Nat : a = state.asked /\ b = state.answered /\ a <= b
  BY DEF StateInv, LogType
<1>2. InFlight(state) <=> PromptAt(a) > EndAt(b)
  BY <1>1 DEF StateInv, InFlight, PromptAt, EndAt
<1>3. \A n \in Nat : FlyingAt(n) <=> PromptAt(n) > EndAt(n)
  BY DEF FlyingAt, PromptAt, EndAt
<1>4. \A n \in Nat : IsNewest(PromptAt(n), n, "user_message") /\ IsNewest(EndAt(n), n, "result")
  BY NewestOfIs DEF PromptAt, EndAt, IsNewest
<1>5. IsNewest(PromptAt(a), a, "user_message") /\ IsNewest(PromptAt(b), b, "user_message")
  BY <1>4
<1>6. IsNewest(EndAt(a), a, "result") /\ IsNewest(EndAt(b), b, "result")
  BY <1>4
<1>7. PromptAt(a) <= PromptAt(b)
  BY <1>1, <1>5 DEF IsNewest
<1>8. CASE InFlight(state)
  <2>1. PromptAt(b) > EndAt(b)
    BY <1>2, <1>5, <1>6, <1>7, <1>8 DEF IsNewest
  <2> QED BY <1>1, <1>3, <1>8, <2>1
<1>9. CASE ~InFlight(state)
  <2>1. PromptAt(a) <= EndAt(b)
    BY <1>2, <1>5, <1>6, <1>9 DEF IsNewest
  <2>2. CASE EndAt(b) <= a
    <3>1. EndAt(b) <= EndAt(a)
      BY <1>1, <1>6, <2>2 DEF IsNewest
    <3>2. ~(PromptAt(a) > EndAt(a))
      BY <1>5, <1>6, <2>1, <3>1 DEF IsNewest
    <3>3. a \in a..b /\ ~FlyingAt(a)
      BY <1>1, <1>3, <3>2
    <3> QED BY <1>1, <1>9, <3>3
  <2>3. CASE EndAt(b) > a
    <3>1. PICK r \in a..b : r = EndAt(b)
      BY <1>1, <1>6, <2>3 DEF IsNewest
    <3>2. r \in Nat /\ r # 0 /\ log[r].type = "result"
      BY <1>1, <1>6, <2>3, <3>1 DEF IsNewest
    <3>3. IsNewest(EndAt(r), r, "result") /\ IsNewest(PromptAt(r), r, "user_message")
      BY <1>4, <3>2
    <3>4. ~(PromptAt(r) > EndAt(r))
      BY <3>2, <3>3 DEF IsNewest
    <3>5. ~FlyingAt(r)
      BY <1>3, <3>2, <3>4
    <3> QED BY <1>1, <1>9, <3>1, <3>5
  <2>4. EndAt(b) \in Int /\ a \in Int
    BY <1>6 DEF IsNewest
  <2> QED BY <2>2, <2>3, <2>4
<1> QED BY <1>8, <1>9

\* TurnState's answer was true at some moment of the call, and one of "in flight" at
\* its second query (TurnState, store.go:807).
THEOREM TurnStateWasTrue == Spec => []StateWasTrue
<1>1. Init => StateInv
  BY DEF Init, NoState, StateInv, States
<1> QED BY <1>1, LogInit, LogNext, StateNext, StateTrue, PTL DEF Spec

-----------------------------------------------------------------------------
(***************************************************************************)
(* Polling.                                                                *)
(***************************************************************************)
Polls == [types : SUBSET Types, mark : Nat, asked : Nat, given : SUBSET Nat, count : Nat]
OfTypes(l, n, types) == {e \in 1..n : l[e].type \in types}

PollInv ==
  /\ poll \in Polls /\ poll.asked <= Len(log)
  /\ pc # "poll" => poll = NoPoll
  /\ poll.given = OfTypes(log, poll.asked, poll.types)
  /\ poll.mark \in {0} \cup poll.given /\ \A e \in poll.given : e <= poll.mark
  /\ poll.count = Cardinality(poll.given)

\* The mark passes everything given and nothing else of the types asked for, so the
\* next poll brings what was stored since the last one.
LEMMA PollGives ==
  ASSUME LogType, PollInv, NEW types \in SUBSET Types \ {{}}, Poll(types)
  PROVE  PollInv'
<1> DEFINE n == Len(log)
           a == poll.asked
           events == ListEventsSinceID(poll.mark, types)
<1>1. n \in Nat /\ a \in Nat /\ a <= n /\ DOMAIN log = 1..n /\ poll.mark \in Nat
  BY DEF PollInv, Polls, LogType
<1>2. poll.given = OfTypes(log, a, types)
  <2>1. CASE pc = "poll"
    BY <2>1 DEF Poll, PollInv
  <2>2. CASE pc = "idle"
    <3>1. poll.asked = 0 /\ poll.given = {}
      BY <2>2 DEF PollInv, NoPoll
    <3> QED BY <3>1 DEF OfTypes
  <2> QED BY <2>1, <2>2 DEF Poll
<1>3. poll.mark <= a
  BY <1>1 DEF PollInv, OfTypes
<1>4. events \subseteq 1..n /\ poll.given \subseteq 1..n
  BY <1>1, <1>2 DEF ListEventsSinceID, OfTypes
<1>5. poll.given \cup events = OfTypes(log, n, types)
  BY <1>1, <1>2, <1>3 DEF ListEventsSinceID, OfTypes, PollInv
<1>6. poll.given \cap events = {}
  BY <1>1, <1>2 DEF ListEventsSinceID, PollInv, OfTypes
<1>7. /\ IsFiniteSet(events) /\ IsFiniteSet(poll.given)
      /\ Cardinality(events) \in Nat /\ Cardinality(poll.given) \in Nat
  <2>1. events \subseteq 0..n /\ poll.given \subseteq 0..n
    BY <1>1, <1>4
  <2> HIDE DEF events, n
  <2> QED BY <1>1, <2>1, BoundedFinite
<1>8. Cardinality(poll.given \cup events) = Cardinality(poll.given) + Cardinality(events)
  <2> HIDE DEF events
  <2>1. Cardinality(poll.given \cap events) = 0
    BY <1>6, FS_EmptySet
  <2>2. Cardinality(poll.given \cup events)
           = Cardinality(poll.given) + Cardinality(events) - Cardinality(poll.given \cap events)
    BY <1>7, FS_Union
  <2> QED BY <1>7, <2>1, <2>2
<1>9. /\ Newest({poll.mark} \cup events) \in {poll.mark} \cup events
      /\ \A e \in {poll.mark} \cup events : e <= Newest({poll.mark} \cup events)
  <2>1. {poll.mark} \cup events \subseteq 0..n
    BY <1>1, <1>3, <1>4
  <2> HIDE DEF events, n
  <2> QED BY <1>1, <2>1, NewestIs
<1>10. /\ poll' = [types |-> types, mark |-> Newest({poll.mark} \cup events), asked |-> n,
                   given |-> poll.given \cup events, count |-> poll.count + Cardinality(events)]
       /\ pc' = "poll" /\ log' = log
  BY DEF Poll
<1> DEFINE mark == Newest({poll.mark} \cup events)
<1>11. mark \in Nat /\ mark \in {0} \cup (poll.given \cup events)
  BY <1>1, <1>4, <1>9 DEF PollInv
<1>12. \A e \in poll.given \cup events : e <= mark
  <2>1. \A e \in poll.given : e <= poll.mark /\ e \in Nat
    BY <1>4 DEF PollInv
  <2>2. poll.mark <= mark /\ \A e \in events : e <= mark
    BY <1>9
  <2> HIDE DEF events, mark
  <2> QED BY <1>1, <1>11, <2>1, <2>2
<1> HIDE DEF mark, events, n
<1>13. poll' \in Polls
  <2>1. poll.count + Cardinality(events) \in Nat /\ poll.given \cup events \in SUBSET Nat
    <3>1. poll.count \in Nat
      BY DEF PollInv, Polls
    <3>2. 1..n \subseteq Nat
      BY <1>1
    <3>3. poll.count + Cardinality(events) \in Nat
      <4> HIDE DEF events
      <4> QED BY <1>7, <3>1
    <3>4. poll.given \cup events \subseteq Nat
      <4> HIDE DEF events
      <4> QED BY <1>4, <3>2
    <3> QED BY <3>3, <3>4
  <2> QED BY <1>1, <1>10, <1>11, <2>1 DEF Polls, mark
<1>14. poll'.count = Cardinality(poll'.given)
  BY <1>8, <1>10 DEF PollInv
<1>15. /\ poll'.asked = n /\ poll'.types = types /\ poll'.given = poll.given \cup events
       /\ poll'.mark = mark
  BY <1>10 DEF mark
<1>16. n <= Len(log')
  BY <1>1, <1>10 DEF n
<1> QED BY <1>5, <1>10, <1>11, <1>12, <1>13, <1>14, <1>15, <1>16 DEF PollInv

LEMMA PollNext ==
  ASSUME LogType, Grows, PollInv, [Next]_vars
  PROVE  PollInv'
<1>1. ASSUME poll' = poll, pc' # "poll" => pc # "poll" PROVE PollInv'
  <2>1. poll.asked \in 0..Len(log) /\ poll.asked <= Len(log')
    BY GrowsKeeps DEF PollInv, Polls
  <2>2. OfTypes(log', poll.asked, poll.types) = OfTypes(log, poll.asked, poll.types)
    BY <2>1, GrowsKeeps DEF OfTypes
  <2> QED BY <1>1, <2>1, <2>2 DEF PollInv
<1>2. CASE Page
  BY <1>1, <1>2 DEF Page, PageStep, AskPage, AskOlder, FindBound, FindBelow, FindStart, CountPrompts,
     FindPlainStart, ReadTurns, FindMore, Trim, ReadEvents, RawDone, PageLeft
<1>3. CASE TurnState
  BY <1>1, <1>3 DEF TurnState, AskFirst, AskSecond, StateLeft, StateStep
<1>4. CASE Push
  <2>1. CASE Send
    BY <1>1, <2>1 DEF Send
  <2> QED BY <1>1, <1>4, <2>1 DEF Push, PushStep, StoreFails, Project, Created, GiveUp, StrayFails, StorePushed, StrayStores
<1>5. ASSUME NEW ev \in Event, Arrive(ev) PROVE PollInv'
  BY <1>1, <1>5 DEF Arrive
<1>6. ASSUME NEW types \in SUBSET Types \ {{}}, Poll(types) PROVE PollInv'
  BY <1>6, PollGives
<1>7. CASE PollLeft
  <2>1. poll' = NoPoll /\ log' = log
    BY <1>7 DEF PollLeft
  <2> QED BY <2>1, FS_EmptySet DEF PollInv, Polls, NoPoll, OfTypes, LogType
<1>8. CASE UNCHANGED vars
  BY <1>1, <1>8 DEF vars
<1> QED BY <1>2, <1>3, <1>4, <1>5, <1>6, <1>7, <1>8 DEF Next

\* A client that polls from its high-water mark is given every event of its types,
\* once (ListEventsSinceID, store.go:418).
THEOREM PollsMissNothing == Spec => []PolledOnce
<1>1. Init => PollInv
  BY FS_EmptySet DEF Init, PollInv, Polls, NoPoll, OfTypes
<1>2. PollInv => PolledOnce
  BY DEF PollInv, PolledOnce, OfTypes
<1> QED BY <1>1, <1>2, LogInit, LogNext, PollNext, PTL DEF Spec

-----------------------------------------------------------------------------
(***************************************************************************)
(* Walking back.                                                           *)
(***************************************************************************)
Asks == [raw : BOOLEAN, limit : Nat \ {0}, before : Nat, bound : Nat, start : Nat,
         began : Nat, chosen : Nat, turns : SUBSET Seqs, more : BOOLEAN]
Walks == [began : Nat, top : Nat, turns : SUBSET Seqs]

\* The turns a walk has to give.
Owed == InRange(Turns(log, walk.began), walk.top)
\* Those it has not given are below the event a page is asked before.
Anchored ==
  \E e \in DOMAIN log :
    /\ ask.before = 2 * e
    /\ \A t \in walk.turns : log[e].turn <= t
    /\ \A t \in Owed : t \in walk.turns \/ t < log[e].turn
\* Those it has not given are on the page, or below it and there is more.
Promised ==
  \A t \in Owed : t \in walk.turns \cup ask.turns \/ (ask.more /\ \A u \in ask.turns : t < u)

AtBound == pc \in {"bound", "below"} =>
  /\ ask.turns = {} /\ ~ask.more /\ rows = {}
  /\ walk.turns = {} \/ (pc = "bound" /\ Anchored)
Within == pc \in {"start", "count", "plain", "rows", "more"} =>
  /\ ~ask.more /\ rows = {}
  /\ \A t \in walk.turns : ask.bound # 0 /\ ask.bound <= t
  /\ \A t \in Owed : t \in walk.turns \/ ask.bound = 0 \/ t < ask.bound
AtRows == pc = "rows" => ask.start \in InRange(Turns(log, Len(log)), ask.bound) \cup {1}
AtMore == pc = "more" =>
  /\ \A t \in ask.turns : (ask.bound = 0 \/ t < ask.bound) /\ ask.start <= t
  /\ \A t \in Owed : (ask.bound = 0 \/ t < ask.bound) /\ ask.start <= t => t \in ask.turns
  /\ ask.start \in ask.turns \cup {1}
Raw == pc \in {"trim", "read"} =>
  /\ \A t \in ask.turns, u \in walk.turns : t < u
  /\ Promised /\ (ask.more => ask.turns # {})
AtPage == pc = "page" =>
  /\ ask.turns \subseteq walk.turns
  /\ ask.turns # {} => \A t \in walk.turns : \E u \in ask.turns : u <= t
  /\ Promised /\ (ask.more => ask.turns # {})

WalkType == ask \in Asks /\ walk \in Walks /\ walk.began <= Len(log)
WalkInv == WalkType /\ AtBound /\ Within /\ AtRows /\ AtMore /\ Raw /\ AtPage

LEMMA TurnsAre ==
  ASSUME LogType, NEW n \in 0..Len(log)
  PROVE  Turns(log, n) \subseteq Seqs /\ PromptTurns(log, n) \subseteq Turns(log, n)
         /\ Turns(log, n) \subseteq Turns(log, Len(log))
<1>1. \A e \in 1..n : e \in DOMAIN log /\ log[e].turn \in Seqs
  <2>1. Len(log) \in Nat /\ DOMAIN log = 1..Len(log) /\ \A e \in DOMAIN log : log[e] \in Event
    BY DEF LogType
  <2> QED BY <2>1 DEF Event
<1>2. 1..n \subseteq 1..Len(log)
  BY DEF LogType
<1> QED BY <1>1, <1>2 DEF Turns, PromptTurns

LEMMA TurnsPrefix ==
  ASSUME LogType, Grows, NEW n \in 0..Len(log)
  PROVE  Turns(log', n) = Turns(log, n)
<1>1. \A e \in 1..n : log'[e] = log[e]
  BY GrowsKeeps
<1> QED BY <1>1 DEF Turns

LEMMA TurnsGrow ==
  ASSUME LogType, Grows
  PROVE  Turns(log, Len(log)) \subseteq Turns(log', Len(log'))
<1>1. \A e \in 1..Len(log) : log'[e] = log[e] /\ e \in 1..Len(log')
  BY GrowsKeeps
<1> QED BY <1>1 DEF Turns

\* Whatever a query with OFFSET finds is one of the turns in its range.
LEMMA NthIn ==
  ASSUME NEW S, S \subseteq Seqs, NEW limit \in Nat \ {0}, HasNth(S, limit)
  PROVE  Nth(S, limit) \in S
<1>1. MaxEvents \in Nat /\ S \subseteq 0..MaxEvents
  BY BoundsAssumption DEF Seqs
<1>2. \E t \in S : Cardinality({u \in S : u >= t}) = limit
  <2>1. Cardinality(S) >= limit
    BY DEF HasNth
  <2>2. \E t \in S : Cardinality(AtLeast(S, t)) = limit
    BY <1>1, <2>1, NthExists
  <2> QED BY <2>2 DEF AtLeast
<1> QED BY <1>2 DEF Nth

\* Events that arrive take nothing from what a walk knows.
LEMMA WalkGrows ==
  ASSUME LogType, Grows, WalkInv, UNCHANGED <<pc, ask, rows, walk>>
  PROVE  WalkInv'
<1>1. Owed' = Owed /\ walk.began \in 0..Len(log) /\ walk.began <= Len(log')
  <2>1. walk.began \in 0..Len(log) /\ walk.began <= Len(log')
    BY GrowsKeeps DEF WalkInv, WalkType, Walks
  <2> QED BY <2>1, TurnsPrefix DEF Owed
<1>2. Anchored => Anchored'
  BY <1>1, GrowsKeeps DEF Anchored
<1>3. Promised => Promised'
  BY <1>1 DEF Promised
<1>4. InRange(Turns(log, Len(log)), ask.bound) \subseteq InRange(Turns(log', Len(log')), ask.bound)
  BY TurnsGrow DEF InRange
<1>5. WalkType' /\ AtBound'
  BY <1>1, <1>2 DEF WalkInv, WalkType, AtBound
<1>6. Within' /\ AtMore'
  BY <1>1 DEF WalkInv, Within, AtMore
<1>7. AtRows'
  BY <1>4 DEF WalkInv, AtRows
<1>8. Raw' /\ AtPage'
  BY <1>3 DEF WalkInv, Raw, AtPage
<1> QED BY <1>5, <1>6, <1>7, <1>8 DEF WalkInv

LEMMA AskPageWalk ==
  ASSUME LogType, WalkInv, NEW raw \in BOOLEAN, NEW limit \in Limits, NEW before \in Ids, AskPage(raw, limit, before),
         rows = {}
  PROVE  WalkInv'
<1>1. /\ ask' = [NoAsk EXCEPT !.raw = raw, !.limit = limit, !.before = before, !.began = Len(log)]
      /\ walk' = [NoWalk EXCEPT !.began = Len(log)] /\ pc' = "bound" /\ UNCHANGED <<log, rows>>
  BY DEF AskPage, PageStep
<1>2. limit \in Nat \ {0} /\ before \in Nat /\ Len(log) \in Nat
  BY BoundsAssumption DEF Ids, LogType
<1>3. ask' = [raw |-> raw, limit |-> limit, before |-> before, bound |-> 0, start |-> 0,
              began |-> Len(log), chosen |-> 0, turns |-> {}, more |-> FALSE]
  BY <1>1 DEF NoAsk
<1>4. walk' = [began |-> Len(log), top |-> 0, turns |-> {}]
  BY <1>1 DEF NoWalk
<1>5. WalkType'
  <2>1. ask' \in Asks
    BY <1>2, <1>3 DEF Asks
  <2>2. walk' \in Walks /\ walk'.began = Len(log)
    BY <1>2, <1>4 DEF Walks
  <2> QED BY <1>1, <1>2, <2>1, <2>2 DEF WalkType
<1>6. AtBound'
  <2>1. ask'.turns = {} /\ ~ask'.more
    BY <1>3
  <2>2. walk'.turns = {} /\ rows' = {}
    BY <1>1, <1>4
  <2> QED BY <2>1, <2>2 DEF AtBound
<1> QED BY <1>1, <1>5, <1>6 DEF WalkInv, Within, AtRows, AtMore, Raw, AtPage

LEMMA AskOlderWalk ==
  ASSUME LogType, WalkInv, NEW e \in Seqs, AskOlder(e)
  PROVE  WalkInv'
<1>1. /\ ask' = [NoAsk EXCEPT !.raw = ask.raw, !.limit = ask.limit, !.before = 2 * e, !.began = Len(log)]
      /\ pc = "page" /\ ask.more /\ e \in Rows(log, Len(log), {Oldest(ask.turns)})
      /\ rows' = {} /\ pc' = "bound" /\ UNCHANGED <<log, walk>>
  BY DEF AskOlder, PageStep
<1>2. ask.turns # {} /\ ask.turns \subseteq Nat /\ ask.raw \in BOOLEAN /\ ask.limit \in Nat \ {0}
  BY <1>1 DEF WalkInv, WalkType, AtPage, Asks, Seqs
<1>3. Oldest(ask.turns) \in ask.turns /\ \A u \in ask.turns : Oldest(ask.turns) <= u
  BY <1>2, LeastExists DEF Oldest
<1>4. e \in DOMAIN log /\ log[e].turn = Oldest(ask.turns) /\ e \in Nat /\ Len(log) \in Nat
  BY <1>1 DEF Rows, LogType
<1>5. ask' = [raw |-> ask.raw, limit |-> ask.limit, before |-> 2 * e, bound |-> 0, start |-> 0,
              began |-> Len(log), chosen |-> 0, turns |-> {}, more |-> FALSE]
  BY <1>1 DEF NoAsk
<1>6. WalkType'
  <2>1. ask' \in Asks
    BY <1>2, <1>4, <1>5 DEF Asks
  <2> QED BY <1>1, <2>1 DEF WalkInv, WalkType
<1>7. \A t \in walk.turns : log[e].turn <= t
  <2> SUFFICES ASSUME NEW t \in walk.turns PROVE log[e].turn <= t
    OBVIOUS
  <2>1. PICK u \in ask.turns : u <= t
    BY <1>1, <1>2 DEF WalkInv, AtPage
  <2>2. t \in Nat
    BY DEF WalkInv, WalkType, Walks, Seqs
  <2> QED BY <1>2, <1>3, <1>4, <2>1, <2>2
<1>8. \A t \in Owed : t \in walk.turns \/ t < log[e].turn
  <2>1. Promised /\ ask.turns \subseteq walk.turns
    BY <1>1 DEF WalkInv, AtPage
  <2> QED BY <1>3, <1>4, <2>1 DEF Promised
<1>9. Anchored'
  BY <1>1, <1>4, <1>5, <1>7, <1>8 DEF Anchored, Owed
<1>10. AtBound'
  <2>1. ask'.turns = {} /\ ~ask'.more
    BY <1>5
  <2> QED BY <1>1, <1>9, <2>1 DEF AtBound
<1> QED BY <1>1, <1>6, <1>10 DEF WalkInv, Within, AtRows, AtMore, Raw, AtPage

\* A bound below everything given and above everything owed.
LEMMA BoundedWalk ==
  ASSUME LogType, WalkInv, NEW bound \in Nat, Bounded(bound), UNCHANGED <<log, rows>>, pc \in {"bound", "below"},
         walk.turns # {} => bound # 0 /\ (\A t \in walk.turns : bound <= t)
                            /\ \A t \in Owed : t \in walk.turns \/ t < bound
  PROVE  WalkInv'
<1>1. /\ ask' = [ask EXCEPT !.bound = bound] /\ pc' = "start"
      /\ walk' = IF walk.turns = {} THEN [walk EXCEPT !.top = bound] ELSE walk
  BY DEF Bounded
<1>2. ask.turns = {} /\ ~ask.more /\ rows = {}
  BY DEF WalkInv, AtBound
<1>3. WalkType' /\ ask'.bound = bound /\ ask'.more = ask.more
  BY <1>1 DEF WalkInv, WalkType, Asks, Walks
<1>4. CASE walk.turns = {}
  <2>1. walk'.turns = {} /\ walk'.top = bound
    BY <1>1, <1>4 DEF WalkInv, WalkType, Walks
  <2>2. \A t \in Owed' : bound = 0 \/ t < bound
    BY <2>1 DEF Owed, InRange
  <2> QED BY <1>1, <1>2, <1>3, <2>1, <2>2 DEF WalkInv, AtBound, Within, AtRows, AtMore, Raw, AtPage
<1>5. CASE walk.turns # {}
  <2>1. walk' = walk /\ Owed' = Owed
    BY <1>1, <1>5 DEF Owed
  <2> QED BY <1>1, <1>2, <1>3, <1>5, <2>1 DEF WalkInv, AtBound, Within, AtRows, AtMore, Raw, AtPage
<1> QED BY <1>4, <1>5

LEMMA FindBoundWalk ==
  ASSUME LogType, WalkInv, FindBound
  PROVE  WalkInv'
<1>1. pc = "bound" /\ UNCHANGED <<log, rows>>
  BY DEF FindBound, PageStep
<1>2. ASSUME walk.turns # {} PROVE Anchored
  BY <1>1, <1>2 DEF WalkInv, AtBound
<1>3. DOMAIN log \subseteq Nat \ {0} /\ \A e \in DOMAIN log : log[e].turn \in Nat \ {0}
  <2>1. Len(log) \in Nat /\ DOMAIN log = 1..Len(log) /\ \A e \in DOMAIN log : log[e] \in Event
    BY DEF LogType
  <2> QED BY <2>1 DEF Event, Seqs
<1>4. CASE ask.before = 0 /\ Bounded(0)
  <2>1. ~Anchored
    BY <1>3, <1>4 DEF Anchored
  <2> QED BY <1>1, <1>2, <1>4, <2>1, BoundedWalk
<1>5. ASSUME NEW e \in DOMAIN log, ask.before = 2 * e, Bounded(BoundOf(log, e)) PROVE WalkInv'
  <2>1. BoundOf(log, e) = log[e].turn /\ log[e].turn \in Nat /\ log[e].turn # 0
    BY <1>3 DEF BoundOf
  <2>2. ASSUME walk.turns # {}
        PROVE  /\ \A t \in walk.turns : log[e].turn <= t
               /\ \A t \in Owed : t \in walk.turns \/ t < log[e].turn
    <3>1. PICK f \in DOMAIN log : /\ ask.before = 2 * f
                                  /\ \A t \in walk.turns : log[f].turn <= t
                                  /\ \A t \in Owed : t \in walk.turns \/ t < log[f].turn
      BY <1>2, <2>2 DEF Anchored
    <3>2. e = f
      BY <1>3, <1>5, <3>1
    <3> QED BY <3>1, <3>2
  <2> QED BY <1>1, <1>5, <2>1, <2>2, BoundedWalk
<1>6. CASE /\ \A e \in {0} \cup DOMAIN log : ask.before # 2 * e
           /\ pc' = "below" /\ UNCHANGED <<ask, walk>>
  <2>1. ~Anchored
    BY <1>6 DEF Anchored
  <2>2. Owed' = Owed /\ WalkType'
    BY <1>1, <1>6 DEF Owed, WalkInv, WalkType
  <2> QED BY <1>1, <1>6, <2>1, <2>2 DEF WalkInv, AtBound, Within, AtRows, AtMore, Raw, AtPage
<1> QED BY <1>4, <1>5, <1>6 DEF FindBound

LEMMA FindBelowWalk ==
  ASSUME LogType, WalkInv, FindBelow
  PROVE  WalkInv'
<1> DEFINE below == {e \in DOMAIN log : 2 * e < ask.before}
<1>1. pc = "below" /\ UNCHANGED <<log, rows>>
  BY DEF FindBelow, PageStep
<1>2. walk.turns = {} /\ ask.turns = {} /\ ~ask.more
  BY <1>1 DEF WalkInv, AtBound
<1>3. Len(log) \in Nat /\ DOMAIN log = 1..Len(log) /\ \A e \in DOMAIN log : log[e].turn \in Nat
  <2>1. Len(log) \in Nat /\ DOMAIN log = 1..Len(log) /\ \A e \in DOMAIN log : log[e] \in Event
    BY DEF LogType
  <2> QED BY <2>1 DEF Event, Seqs
<1>4. CASE below # {}
  <2>1. Newest(below) \in below
    <3>1. below \subseteq 0..Len(log)
      BY <1>3
    <3> HIDE DEF below
    <3> QED BY <1>3, <1>4, <3>1, NewestIs
  <2>2. log[Newest(below)].turn + 1 \in Nat
    BY <1>3, <2>1
  <2>3. Bounded(log[Newest(below)].turn + 1)
    BY <1>4 DEF FindBelow
  <2> HIDE DEF below
  <2> QED BY <1>1, <1>2, <2>2, <2>3, BoundedWalk
<1>5. CASE below = {}
  <2>1. pc' = "page" /\ walk' = [walk EXCEPT !.top = 1] /\ ask' = ask
    BY <1>5 DEF FindBelow
  <2>2. walk'.top = 1 /\ walk'.turns = {} /\ WalkType'
    BY <1>1, <1>2, <2>1 DEF WalkInv, WalkType, Walks
  <2>3. Owed' = {}
    <3>1. walk'.began \in 0..Len(log') /\ log' = log
      BY <1>1, <2>2 DEF WalkType, Walks
    <3>2. Turns(log', walk'.began) \subseteq Seqs
      BY <3>1, TurnsAre
    <3> QED BY <2>2, <3>2 DEF Owed, InRange, Seqs
  <2> QED BY <1>2, <2>1, <2>2, <2>3 DEF WalkInv, AtBound, Within, AtRows, AtMore, Raw, AtPage, Promised
<1> QED BY <1>4, <1>5

\* Queries that find where the page starts move nothing else.
LEMMA StartWalk ==
  ASSUME LogType, WalkInv, NEW start \in Nat, pc \in {"start", "count", "plain"},
         ask' = [ask EXCEPT !.start = start], pc' = "rows", UNCHANGED <<log, rows, walk>>,
         start \in InRange(Turns(log, Len(log)), ask.bound) \cup {1}
  PROVE  WalkInv'
<1>1. ask'.start = start /\ ask'.bound = ask.bound /\ ask'.more = ask.more /\ WalkType' /\ Owed' = Owed
  BY DEF WalkInv, WalkType, Asks, Owed
<1>2. Within' /\ AtRows'
  BY <1>1 DEF WalkInv, Within, AtRows
<1> QED BY <1>1, <1>2 DEF WalkInv, AtBound, AtMore, Raw, AtPage

LEMMA OnWalk ==
  ASSUME LogType, WalkInv, pc \in {"start", "count"}, pc' \in {"count", "plain"}, UNCHANGED <<log, ask, rows, walk>>
  PROVE  WalkInv'
<1>1. WalkType' /\ Owed' = Owed
  BY DEF WalkInv, WalkType, Owed
<1>2. Within'
  BY <1>1 DEF WalkInv, Within
<1> QED BY <1>1, <1>2 DEF WalkInv, AtBound, AtRows, AtMore, Raw, AtPage

LEMMA RangeIs ==
  ASSUME LogType, NEW bound
  PROVE  /\ InRange(Turns(log, Len(log)), bound) \subseteq Seqs
         /\ InRange(PromptTurns(log, Len(log)), bound) \subseteq InRange(Turns(log, Len(log)), bound)
<1>1. Len(log) \in 0..Len(log)
  BY DEF LogType
<1> QED BY <1>1, TurnsAre DEF InRange

LEMMA FindStartWalk ==
  ASSUME LogType, WalkInv, FindStart \/ CountPrompts \/ FindPlainStart
  PROVE  WalkInv'
<1> DEFINE range == InRange(Turns(log, Len(log)), ask.bound)
           prompts == InRange(PromptTurns(log, Len(log)), ask.bound)
<1>1. range \subseteq Seqs /\ prompts \subseteq range /\ Seqs \subseteq Nat
  BY RangeIs DEF Seqs
<1>2. ask.limit \in Nat \ {0}
  BY DEF WalkInv, WalkType, Asks
<1>3. \A S \in SUBSET range : HasNth(S, ask.limit) => Nth(S, ask.limit) \in range
  <2> HIDE DEF range
  <2> QED BY <1>1, <1>2, NthIn
<1>4. CASE FindStart
  <2>1. pc = "start" /\ UNCHANGED <<log, rows, walk>>
    BY <1>4 DEF FindStart, PageStep
  <2>2. CASE HasNth(prompts, ask.limit)
    <3>1. ask' = [ask EXCEPT !.start = Nth(prompts, ask.limit)] /\ pc' = "rows"
      BY <1>4, <2>2 DEF FindStart, StartOf
    <3>2. Nth(prompts, ask.limit) \in range /\ Nth(prompts, ask.limit) \in Nat
      <4> HIDE DEF range, prompts
      <4> QED BY <1>1, <1>3, <2>2
    <3> HIDE DEF prompts
    <3> QED BY <2>1, <3>1, <3>2, StartWalk
  <2>3. CASE ~HasNth(prompts, ask.limit)
    BY <1>4, <2>1, <2>3, OnWalk DEF FindStart
  <2> QED BY <2>2, <2>3
<1>5. CASE CountPrompts
  <2>1. pc = "count" /\ UNCHANGED <<log, rows, walk>>
    BY <1>5 DEF CountPrompts, PageStep
  <2>2. CASE prompts # {}
    BY <1>5, <2>1, <2>2, StartWalk DEF CountPrompts
  <2>3. CASE prompts = {}
    BY <1>5, <2>1, <2>3, OnWalk DEF CountPrompts
  <2> QED BY <2>2, <2>3
<1>6. CASE FindPlainStart
  <2>1. /\ pc = "plain" /\ pc' = "rows" /\ UNCHANGED <<log, rows, walk>>
        /\ ask' = [ask EXCEPT !.start = IF HasNth(range, ask.limit) THEN Nth(range, ask.limit) ELSE 1]
    BY <1>6 DEF FindPlainStart, PageStep
  <2>2. HasNth(range, ask.limit) => Nth(range, ask.limit) \in range /\ Nth(range, ask.limit) \in Nat
    <3> HIDE DEF range
    <3> QED BY <1>1, <1>3
  <2>3. PICK start \in Nat : /\ start = IF HasNth(range, ask.limit) THEN Nth(range, ask.limit) ELSE 1
                             /\ start \in range \cup {1}
    <3> HIDE DEF range
    <3> QED BY <2>2
  <2> QED BY <2>1, <2>3, StartWalk
<1> QED BY <1>4, <1>5, <1>6

LEMMA ReadTurnsWalk ==
  ASSUME LogType, WalkInv, ReadTurns
  PROVE  WalkInv'
<1> DEFINE range == InRange(Turns(log, Len(log)), ask.bound)
           turns == {t \in range : t >= ask.start}
<1>1. /\ ask' = [ask EXCEPT !.turns = turns, !.chosen = Len(log)] /\ pc = "rows" /\ pc' = "more"
      /\ UNCHANGED <<log, rows, walk>>
  BY DEF ReadTurns, PageStep
<1>2. range \subseteq Seqs /\ Len(log) \in Nat
  BY RangeIs DEF LogType
<1>3. /\ ask'.turns = turns /\ ask'.start = ask.start /\ ask'.bound = ask.bound /\ ask'.more = ask.more
      /\ WalkType' /\ Owed' = Owed
  <2>1. turns \in SUBSET Seqs
    BY <1>2
  <2> HIDE DEF turns
  <2> QED BY <1>1, <1>2, <2>1 DEF WalkInv, WalkType, Asks, Owed
<1>4. Within'
  BY <1>1, <1>3 DEF WalkInv, Within
<1>5. \A t \in turns : (ask.bound = 0 \/ t < ask.bound) /\ ask.start <= t
  <2>1. ask.start \in Nat /\ Seqs \subseteq Nat
    BY DEF WalkInv, WalkType, Asks, Seqs
  <2> QED BY <1>2, <2>1 DEF InRange
<1>6. \A t \in Owed : (ask.bound = 0 \/ t < ask.bound) /\ ask.start <= t => t \in turns
  <2>1. walk.began \in 0..Len(log) /\ ask.start \in Nat
    BY DEF WalkInv, WalkType, Walks, Asks, LogType
  <2>2. \A t \in Owed : t \in Turns(log, Len(log)) /\ t \in Nat
    BY <2>1, TurnsAre DEF Owed, InRange, Seqs
  <2> QED BY <2>1, <2>2 DEF InRange
<1>7. ask.start \in turns \cup {1}
  BY <1>1, <1>2 DEF WalkInv, AtRows, Seqs
<1>8. AtMore'
  BY <1>3, <1>5, <1>6, <1>7 DEF AtMore
<1> QED BY <1>1, <1>3, <1>4, <1>8 DEF WalkInv, AtBound, AtRows, Raw, AtPage

\* Turns are numbers.
LEMMA TurnsNat ==
  ASSUME WalkType
  PROVE  ask.turns \subseteq Nat /\ walk.turns \subseteq Nat
<1>1. ask.turns \subseteq Seqs /\ walk.turns \subseteq Seqs
  BY DEF WalkType, Asks, Walks
<1> QED BY <1>1 DEF Seqs

\* Turns that a page adds to the walk.
LEMMA TakenWalk ==
  ASSUME WalkInv, WalkType', UNCHANGED log, pc' = "page", Taken(ask.turns), ask'.turns = ask.turns,
         \A t \in ask.turns, u \in walk.turns : t < u,
         \A t \in Owed : t \in walk.turns \cup ask.turns \/ (ask'.more /\ \A u \in ask.turns : t < u),
         ask'.more => ask.turns # {}
  PROVE  WalkInv'
<1>1. walk' = [walk EXCEPT !.turns = @ \cup ask.turns]
  BY DEF Taken
<1>2. walk'.turns = walk.turns \cup ask.turns /\ Owed' = Owed
  BY <1>1 DEF WalkInv, WalkType, Walks, Owed
<1>3. ask.turns \subseteq Nat /\ walk.turns \subseteq Nat
  BY TurnsNat DEF WalkInv
<1>4. ask.turns # {} => \A t \in walk'.turns : \E u \in ask.turns : u <= t
  BY <1>2, <1>3
<1>5. Promised'
  BY <1>2 DEF Promised
<1>6. AtPage'
  BY <1>2, <1>4, <1>5 DEF AtPage
<1> QED BY <1>6 DEF WalkInv, AtBound, Within, AtRows, AtMore, Raw

LEMMA FindMoreWalk ==
  ASSUME LogType, WalkInv, FindMore
  PROVE  WalkInv'
<1>1. /\ ask' = [ask EXCEPT !.more = MoreBelow(log, ask)] /\ pc = "more" /\ UNCHANGED <<log, rows>>
      /\ \/ pc' = "trim" /\ UNCHANGED walk
         \/ pc' = "page" /\ Taken(ask.turns)
  BY DEF FindMore, PageStep
<1>2. /\ ask'.turns = ask.turns /\ ask'.more = MoreBelow(log, ask) /\ ask' \in Asks
  BY <1>1 DEF WalkInv, WalkType, Asks, MoreBelow
<1>3. /\ ask.bound \in Nat /\ ask.start \in Nat /\ ask.turns \subseteq Seqs /\ walk.turns \subseteq Seqs
      /\ Seqs \subseteq Nat /\ walk.began \in 0..Len(log)
  BY DEF WalkInv, WalkType, Asks, Walks, Seqs, LogType
<1>4. WalkType'
  <2>1. walk' \in Walks /\ walk'.began = walk.began
    BY <1>1, <1>3 DEF Taken, WalkInv, WalkType, Walks
  <2> QED BY <1>1, <1>2, <2>1 DEF WalkInv, WalkType
<1>5. \A t \in ask.turns, u \in walk.turns : t < u
  <2> SUFFICES ASSUME NEW t \in ask.turns, NEW u \in walk.turns PROVE t < u
    OBVIOUS
  <2>1. ask.bound # 0 /\ ask.bound <= u /\ t < ask.bound
    BY <1>1 DEF WalkInv, Within, AtMore
  <2>2. t \in Nat /\ u \in Nat
    BY <1>3
  <2> QED BY <1>3, <2>1, <2>2
<1>6. ASSUME NEW t \in Owed, t \notin walk.turns, t \notin ask.turns
      PROVE  MoreBelow(log, ask) /\ \A u \in ask.turns : t < u
  <2>1. t \in Turns(log, Len(log)) /\ t \in Seqs
    BY <1>3, TurnsAre DEF Owed, InRange
  <2>2. ask.bound = 0 \/ t < ask.bound
    BY <1>1, <1>6 DEF WalkInv, Within
  <2>3. ~(ask.start <= t)
    BY <1>1, <1>6, <2>2 DEF WalkInv, AtMore
  <2>4. t < ask.start /\ ask.start > 1
    BY <1>3, <2>1, <2>3 DEF Seqs
  <2>5. MoreBelow(log, ask)
    BY <2>1, <2>4 DEF MoreBelow
  <2>6. ASSUME NEW u \in ask.turns PROVE t < u
    <3>1. ask.start <= u
      BY <1>1 DEF WalkInv, AtMore
    <3>2. t \in Nat /\ u \in Nat /\ ask.start \in Nat
      BY <1>3, <2>1
    <3> QED BY <2>4, <3>1, <3>2
  <2> QED BY <2>5, <2>6
<1>7. MoreBelow(log, ask) => ask.turns # {}
  BY <1>1 DEF WalkInv, AtMore, MoreBelow
<1>8. CASE pc' = "trim" /\ UNCHANGED walk
  <2>1. Owed' = Owed
    BY <1>1, <1>8 DEF Owed
  <2>2. Raw'
    BY <1>2, <1>5, <1>6, <1>7, <1>8, <2>1 DEF Raw, Promised
  <2> QED BY <1>4, <1>8, <2>2 DEF WalkInv, AtBound, Within, AtRows, AtMore, AtPage
<1>9. CASE pc' = "page" /\ Taken(ask.turns)
  BY <1>1, <1>2, <1>4, <1>5, <1>6, <1>7, <1>9, TakenWalk
<1> QED BY <1>1, <1>8, <1>9

\* What fits is the newest turns of the page, the newest of all among them.
LEMMA FittingIs ==
  ASSUME LogType, ask \in Asks, ask.chosen <= Len(log)
  PROVE  /\ Fitting(log, ask) \subseteq ask.turns
         /\ ask.turns # {} => Fitting(log, ask) # {}
         /\ \A t \in ask.turns \ Fitting(log, ask), u \in Fitting(log, ask) : t < u
<1>1. ask.turns \subseteq 0..MaxEvents /\ MaxEvents \in Nat /\ ask.turns \subseteq Nat
  BY BoundsAssumption DEF Asks, Seqs
<1>2. ask.turns # {} => Newest(ask.turns) \in ask.turns /\ \A u \in ask.turns : u <= Newest(ask.turns)
  BY <1>1, NewestIs
<1>3. ASSUME NEW t \in ask.turns, NEW u \in ask.turns, u <= t PROVE Count(log, ask, From(ask, t)) <= Count(log, ask, From(ask, u))
  <2>1. From(ask, t) \subseteq From(ask, u)
    <3>1. t \in Nat /\ u \in Nat /\ \A v \in ask.turns : v \in Nat
      BY <1>1
    <3> QED BY <1>3, <3>1 DEF From
  <2>2. Rows(log, ask.chosen, From(ask, t)) \in SUBSET Rows(log, ask.chosen, From(ask, u))
    BY <2>1 DEF Rows
  <2>3. IsFiniteSet(Rows(log, ask.chosen, From(ask, u)))
    <3>1. Rows(log, ask.chosen, From(ask, u)) \subseteq 0..ask.chosen /\ ask.chosen \in Nat
      BY DEF Rows, Asks
    <3> QED BY <3>1, BoundedFinite
  <2> QED BY <2>2, <2>3, FS_Subset DEF Count
<1>4. \A S \in SUBSET Seqs : Count(log, ask, S) \in Nat
  <2> SUFFICES ASSUME NEW S \in SUBSET Seqs PROVE Count(log, ask, S) \in Nat
    OBVIOUS
  <2>1. Rows(log, ask.chosen, S) \subseteq 0..ask.chosen /\ ask.chosen \in Nat
    BY DEF Rows, Asks
  <2> QED BY <2>1, BoundedFinite DEF Count
<1>5. ASSUME NEW t \in ask.turns \ Fitting(log, ask), NEW u \in Fitting(log, ask) PROVE t < u
  <2>1. t \in Nat /\ u \in Nat /\ u \in ask.turns
    BY <1>1 DEF Fitting
  <2>2. ASSUME u <= t PROVE FALSE
    <3>1. t # Newest(ask.turns) /\ ~(Count(log, ask, From(ask, t)) <= Cap)
      BY DEF Fitting
    <3>2. u # Newest(ask.turns)
      BY <1>2, <2>1, <2>2, <3>1
    <3>3. Count(log, ask, From(ask, u)) <= Cap
      BY <3>2 DEF Fitting
    <3>4. Count(log, ask, From(ask, t)) <= Count(log, ask, From(ask, u))
      BY <1>3, <2>1, <2>2
    <3>5. From(ask, t) \in SUBSET Seqs /\ From(ask, u) \in SUBSET Seqs
      BY DEF From, Asks
    <3>6. Count(log, ask, From(ask, t)) \in Nat /\ Count(log, ask, From(ask, u)) \in Nat
      BY <1>4, <3>5
    <3> QED BY <3>1, <3>3, <3>4, <3>6, BoundsAssumption
  <2> QED BY <2>1, <2>2
<1> QED BY <1>2, <1>5 DEF Fitting

LEMMA TrimWalk ==
  ASSUME LogType, WalkInv, Trim, ask.chosen <= Len(log)
  PROVE  WalkInv'
<1> DEFINE kept == Fitting(log, ask)
<1>1. /\ ask' = [ask EXCEPT !.turns = kept, !.more = @ \/ kept # ask.turns]
      /\ pc = "trim" /\ pc' = "read" /\ UNCHANGED <<log, rows, walk>>
  BY DEF Trim, PageStep
<1>2. /\ kept \subseteq ask.turns /\ (ask.turns # {} => kept # {})
      /\ \A t \in ask.turns \ kept, u \in kept : t < u
  BY FittingIs DEF WalkInv, WalkType
<1> HIDE DEF kept
<1>3. ask'.turns = kept /\ (ask'.more <=> ask.more \/ kept # ask.turns) /\ WalkType' /\ Owed' = Owed
  BY <1>1, <1>2 DEF WalkInv, WalkType, Asks, Owed
<1>4. Raw
  BY DEF WalkInv
<1>5. Promised'
  <2> SUFFICES ASSUME NEW t \in Owed, t \notin walk.turns, t \notin kept
               PROVE  ask'.more /\ \A u \in kept : t < u
    BY <1>1, <1>3 DEF Promised
  <2>1. t \in ask.turns \/ (ask.more /\ \A u \in ask.turns : t < u)
    BY <1>1, <1>4 DEF Raw, Promised
  <2> QED BY <1>2, <1>3, <2>1
<1>6. Raw'
  BY <1>1, <1>2, <1>3, <1>4, <1>5 DEF Raw
<1> QED BY <1>1, <1>3, <1>6 DEF WalkInv, AtBound, Within, AtRows, AtMore, AtPage

LEMMA ReadWalk ==
  ASSUME LogType, WalkInv, ReadEvents \/ RawDone
  PROVE  WalkInv'
<1>1. pc = "read" /\ UNCHANGED log
  BY DEF ReadEvents, RawDone, PageStep
<1>2. Raw
  BY DEF WalkInv
<1>3. CASE ReadEvents
  <2>1. PICK over \in BOOLEAN : ask' = [ask EXCEPT !.more = @ \/ over]
    BY <1>3 DEF ReadEvents
  <2>2. pc' = "read" /\ walk' = walk /\ ask.turns # {}
    BY <1>1, <1>3 DEF ReadEvents, Unread
  <2>3. ask'.turns = ask.turns /\ (ask'.more <=> ask.more \/ over) /\ WalkType' /\ Owed' = Owed
    BY <1>1, <2>1, <2>2 DEF WalkInv, WalkType, Asks, Owed
  <2>4. Raw'
    BY <1>1, <1>2, <2>2, <2>3 DEF Raw, Promised
  <2> QED BY <2>2, <2>3, <2>4 DEF WalkInv, AtBound, Within, AtRows, AtMore, AtPage
<1>4. CASE RawDone
  <2>1. pc' = "page" /\ Taken(ask.turns) /\ ask' = ask
    BY <1>4 DEF RawDone
  <2>2. WalkType'
    <3>1. walk' \in Walks /\ walk'.began = walk.began
      BY <2>1 DEF Taken, WalkInv, WalkType, Walks, Asks
    <3> QED BY <1>1, <2>1, <3>1 DEF WalkInv, WalkType
  <2> QED BY <1>1, <1>2, <2>1, <2>2, TakenWalk DEF Raw, Promised
<1> QED BY <1>3, <1>4

\* Away from a page a walk is nothing but its type.
Away == {"idle", "state", "answer", "poll", "push"}

LEMMA AwayWalk ==
  ASSUME LogType, Grows, WalkInv, pc' \in Away,
         UNCHANGED <<ask, walk>> \/ (ask' = NoAsk /\ walk' = NoWalk)
  PROVE  WalkInv'
<1>1. WalkType'
  <2>1. CASE UNCHANGED <<ask, walk>>
    BY <2>1, GrowsKeeps DEF WalkInv, WalkType, Walks
  <2>2. CASE ask' = NoAsk /\ walk' = NoWalk
    BY <2>2, GrowsKeeps DEF WalkType, Asks, Walks, NoAsk, NoWalk
  <2> QED BY <2>1, <2>2
<1> QED BY <1>1 DEF WalkInv, AtBound, Within, AtRows, AtMore, Raw, AtPage, Away

-----------------------------------------------------------------------------
(***************************************************************************)
(* The raw page's cap.                                                     *)
(***************************************************************************)
\* The turns kept: within the cap, or one alone.
TurnsFit == Count(log, ask, ask.turns) <= Cap \/ \E t \in Seqs : ask.turns = {t}
\* The events read: of turns within the cap, or all there will be of one that is not.
RowsFit ==
  \/ rows = {}
  \/ (\A e \in rows : log[e].turn \in ask.turns) /\ Count(log, ask, ask.turns) <= Cap
  \/ Cardinality(rows) <= Cap /\ \A t \in ask.turns : \E e \in rows : log[e].turn = t

RawInv ==
  /\ ask.chosen <= Len(log) /\ rows \subseteq DOMAIN log
  /\ pc \notin {"read", "page"} => rows = {}
  /\ pc = "read" => TurnsFit
  /\ pc \in {"read", "page"} => RowsFit

LEMMA CountIs ==
  ASSUME LogType, ask \in Asks, ask.chosen <= Len(log), NEW S
  PROVE  /\ Count(log, ask, S) \in Nat
         /\ \A T \in SUBSET S : Count(log, ask, T) <= Count(log, ask, S)
<1>1. ask.chosen \in Nat /\ Rows(log, ask.chosen, S) \subseteq 0..ask.chosen
  BY DEF Asks, Rows
<1>2. IsFiniteSet(Rows(log, ask.chosen, S)) /\ Cardinality(Rows(log, ask.chosen, S)) \in Nat
  BY <1>1, BoundedFinite
<1>3. ASSUME NEW T \in SUBSET S PROVE Count(log, ask, T) <= Count(log, ask, S)
  <2>1. Rows(log, ask.chosen, T) \in SUBSET Rows(log, ask.chosen, S)
    BY DEF Rows
  <2> QED BY <1>2, <2>1, FS_Subset DEF Count
<1> QED BY <1>2, <1>3 DEF Count

LEMMA RawGrows ==
  ASSUME LogType, Grows, WalkInv, RawInv, UNCHANGED <<pc, ask, rows>>
  PROVE  RawInv'
<1>1. ask.chosen \in 0..Len(log) /\ ask.chosen <= Len(log') /\ DOMAIN log \subseteq DOMAIN log'
  BY GrowsKeeps DEF RawInv, WalkInv, WalkType, Asks
<1>2. \A S : Rows(log', ask.chosen, S) = Rows(log, ask.chosen, S)
  <2>1. \A e \in 1..ask.chosen : log'[e] = log[e]
    BY <1>1, GrowsKeeps
  <2> QED BY <2>1 DEF Rows
<1>3. Count(log', ask', ask'.turns) = Count(log, ask, ask.turns)
  BY <1>2 DEF Count
<1>4. \A e \in rows : log'[e] = log[e]
  BY GrowsKeeps DEF RawInv
<1>5. TurnsFit => TurnsFit'
  BY <1>3 DEF TurnsFit
<1>6. RowsFit => RowsFit'
  BY <1>3, <1>4 DEF RowsFit
<1> QED BY <1>1, <1>5, <1>6 DEF RawInv

\* Steps that leave a page without events, or go elsewhere.
LEMMA RawEmpty ==
  ASSUME LogType, Grows, WalkInv, RawInv, rows' = {}, pc' # "read", ask'.chosen \in {0, ask.chosen, Len(log)}
  PROVE  RawInv'
<1>1. ask'.chosen <= Len(log')
  <2>1. ask.chosen \in Nat /\ ask.chosen <= Len(log)
    BY DEF RawInv, WalkInv, WalkType, Asks
  <2> QED BY <2>1, GrowsKeeps
<1> QED BY <1>1 DEF RawInv, RowsFit

LEMMA TrimRaw ==
  ASSUME LogType, WalkInv, RawInv, Trim
  PROVE  RawInv'
<1> DEFINE kept == Fitting(log, ask)
<1>1. /\ ask' = [ask EXCEPT !.turns = kept, !.more = @ \/ kept # ask.turns]
      /\ pc = "trim" /\ pc' = "read" /\ UNCHANGED <<log, rows>>
  BY DEF Trim, PageStep
<1>2. ask \in Asks /\ ask.chosen <= Len(log) /\ rows = {}
  BY <1>1 DEF WalkInv, WalkType, RawInv
<1>3. /\ kept \subseteq ask.turns /\ ask.turns \subseteq 0..MaxEvents /\ ask.turns \subseteq Seqs
      /\ MaxEvents \in Nat /\ kept \subseteq Nat
  BY <1>2, FittingIs, BoundsAssumption DEF Asks, Seqs
<1>4. Count(log, ask, kept) <= Cap \/ \E t \in Seqs : kept = {t}
  <2>1. CASE kept = {}
    <3>1. Rows(log, ask.chosen, kept) = {}
      BY <2>1 DEF Rows
    <3>2. Count(log, ask, kept) = 0
      BY <3>1, FS_EmptySet DEF Count
    <3> QED BY <3>2, BoundsAssumption
  <2>2. CASE kept # {}
    <3>1. PICK m \in kept : \A u \in kept : m <= u
      <4> HIDE DEF kept
      <4> QED BY <1>3, <2>2, LeastExists
    <3>2. m \in Seqs /\ m \in ask.turns
      BY <1>3, <3>1
    <3>3. CASE m = Newest(ask.turns)
      <4>1. \A u \in ask.turns : u <= m
        BY <1>3, <3>2, <3>3, NewestIs
      <4>2. \A u \in kept : u = m
        <5> HIDE DEF kept
        <5> QED BY <1>3, <3>1, <4>1
      <4> QED BY <3>1, <3>2, <4>2
    <3>4. CASE m # Newest(ask.turns)
      <4>1. Count(log, ask, From(ask, m)) <= Cap
        BY <3>1, <3>4 DEF Fitting
      <4>2. kept \in SUBSET From(ask, m)
        <5>1. \A u \in kept : u \in ask.turns /\ u \in Nat /\ m <= u
          BY <1>3, <3>1
        <5> HIDE DEF kept
        <5> QED BY <3>1, <5>1 DEF From
      <4>3. Count(log, ask, kept) \in Nat /\ Count(log, ask, From(ask, m)) \in Nat
        BY <1>2, CountIs
      <4>4. Count(log, ask, kept) <= Count(log, ask, From(ask, m))
        BY <1>2, <4>2, CountIs
      <4> HIDE DEF kept
      <4> QED BY <4>1, <4>3, <4>4, BoundsAssumption
    <3> QED BY <3>3, <3>4
  <2> QED BY <2>1, <2>2
<1> HIDE DEF kept
<1>5. ask'.turns = kept /\ ask'.chosen = ask.chosen
  BY <1>1, <1>2 DEF Asks
<1>6. Count(log', ask', ask'.turns) = Count(log, ask, kept)
  BY <1>1, <1>5 DEF Count
<1> QED BY <1>1, <1>2, <1>4, <1>5, <1>6 DEF RawInv, TurnsFit, RowsFit

LEMMA ReadRaw ==
  ASSUME LogType, WalkInv, RawInv, ReadEvents
  PROVE  RawInv'
<1> DEFINE t == Oldest(Unread)
           all == Rows(log, Len(log), {t})
           over == Count(log, ask, {t}) > Cap
           read == IF over THEN {e \in all : Cardinality({f \in all : f > e}) < Cap} ELSE all
<1>1. /\ rows' = rows \cup read /\ ask' = [ask EXCEPT !.more = @ \/ over]
      /\ pc = "read" /\ pc' = "read" /\ log' = log /\ Unread # {}
  BY DEF ReadEvents, PageStep
<1>2. ask \in Asks /\ ask.chosen <= Len(log) /\ TurnsFit /\ RowsFit
  BY <1>1 DEF WalkInv, WalkType, RawInv
<1>3. ask'.turns = ask.turns /\ ask'.chosen = ask.chosen
  <2> HIDE DEF over
  <2> QED BY <1>1, <1>2 DEF Asks
<1>4. t \in Unread /\ t \in ask.turns
  <2>1. Unread \subseteq Nat
    BY <1>2 DEF Unread, Asks, Seqs
  <2>2. Oldest(Unread) \in Unread
    BY <1>1, <2>1, LeastExists DEF Oldest
  <2> QED BY <2>2 DEF Unread
<1>5. all \subseteq DOMAIN log /\ read \subseteq all /\ (\A e \in all : log[e].turn = t)
      /\ Len(log) \in Nat /\ all \subseteq 0..Len(log)
  BY DEF Rows, LogType
<1>6. Count(log', ask', ask'.turns) = Count(log, ask, ask.turns)
  BY <1>1, <1>3 DEF Count
<1>7. TurnsFit'
  BY <1>2, <1>3, <1>6 DEF TurnsFit
<1>8. ASSUME Count(log, ask, ask.turns) <= Cap /\ \A e \in rows : log[e].turn \in ask.turns
      PROVE  RowsFit'
  <2>1. \A e \in rows' : log'[e].turn \in ask'.turns
    <3> HIDE DEF read, all, t
    <3> QED BY <1>1, <1>3, <1>4, <1>5, <1>8
  <2>2. Count(log', ask', ask'.turns) <= Cap
    BY <1>6, <1>8
  <2> HIDE DEF read, all, t, over
  <2> QED BY <2>1, <2>2 DEF RowsFit
<1>9. ASSUME rows = {} /\ ~(Count(log, ask, ask.turns) <= Cap)
      PROVE  RowsFit'
  <2>1. ask.turns = {t}
    BY <1>2, <1>4, <1>9 DEF TurnsFit
  <2>2. read = Top(all, Cap)
    BY <1>9, <2>1, CountIs, <1>2, BoundsAssumption DEF Top, Above
  <2>3. Cardinality(read) <= Cap
    <3> HIDE DEF read, all
    <3> QED BY <1>5, <2>2, TopBounded, BoundsAssumption
  <2>4. rows' = read
    BY <1>1, <1>9
  <2>5. ASSUME read # {} PROVE \A u \in ask'.turns : \E e \in rows' : log'[e].turn = u
    <3> HIDE DEF read, all, t
    <3> QED BY <1>1, <1>3, <1>5, <2>1, <2>4, <2>5
  <2>6. Cardinality(rows') <= Cap
    <3> HIDE DEF read
    <3> QED BY <2>3, <2>4
  <2> HIDE DEF read, all, t, over
  <2>7. rows' = {} \/ \A u \in ask'.turns : \E e \in rows' : log'[e].turn = u
    BY <2>4, <2>5
  <2> QED BY <2>6, <2>7 DEF RowsFit
<1>10. ASSUME rows # {} /\ \A u \in ask.turns : \E e \in rows : log[e].turn = u
      PROVE  RowsFit'
  <2>1. PICK e \in rows : log[e].turn = t
    <3> HIDE DEF t
    <3> QED BY <1>4, <1>10
  <2>2. log[e].turn < t /\ t \in Nat
    BY <1>2, <1>4 DEF Unread, Asks, Seqs
  <2> QED BY <2>1, <2>2
<1>11. RowsFit'
  <2> HIDE DEF read, all, t, over
  <2>1. CASE rows = {}
    BY <1>8, <1>9, <2>1
  <2>2. CASE rows # {}
    BY <1>2, <1>8, <1>10, <2>2 DEF RowsFit
  <2> QED BY <2>1, <2>2
<1>12. rows' \subseteq DOMAIN log'
  <2> HIDE DEF read, all
  <2> QED BY <1>1, <1>5 DEF RawInv
<1> QED BY <1>1, <1>2, <1>3, <1>7, <1>11, <1>12 DEF RawInv

LEMMA PageNext ==
  ASSUME LogType, Grows, WalkInv, RawInv, Page
  PROVE  WalkInv' /\ RawInv'
<1>1. ASSUME NEW raw \in BOOLEAN, NEW limit \in Limits, NEW before \in Ids, AskPage(raw, limit, before)
      PROVE  WalkInv' /\ RawInv'
  <2>1. pc = "idle" /\ pc' = "bound" /\ rows' = rows /\ ask'.chosen = 0
    BY <1>1 DEF AskPage, PageStep, NoAsk
  <2>2. rows = {}
    BY <2>1 DEF RawInv
  <2> QED BY <1>1, <2>1, <2>2, AskPageWalk, RawEmpty
<1>2. ASSUME NEW e \in Seqs, AskOlder(e) PROVE WalkInv' /\ RawInv'
  <2>1. pc' = "bound" /\ rows' = {} /\ ask'.chosen = 0
    BY <1>2 DEF AskOlder, NoAsk
  <2> QED BY <1>2, <2>1, AskOlderWalk, RawEmpty
<1>3. CASE FindBound \/ FindBelow
  <2>1. pc \in {"bound", "below"} /\ rows' = rows /\ pc' # "read" /\ ask'.chosen = ask.chosen
    BY <1>3 DEF FindBound, FindBelow, Bounded, PageStep, WalkInv, WalkType, Asks
  <2>2. rows = {}
    BY <2>1 DEF RawInv
  <2> QED BY <1>3, <2>1, <2>2, FindBoundWalk, FindBelowWalk, RawEmpty
<1>4. CASE FindStart \/ CountPrompts \/ FindPlainStart
  <2>1. pc \in {"start", "count", "plain"} /\ rows' = rows /\ pc' # "read" /\ ask'.chosen = ask.chosen
    BY <1>4 DEF FindStart, CountPrompts, FindPlainStart, PageStep, WalkInv, WalkType, Asks
  <2>2. rows = {}
    BY <2>1 DEF RawInv
  <2> QED BY <1>4, <2>1, <2>2, FindStartWalk, RawEmpty
<1>5. CASE ReadTurns
  <2>1. pc = "rows" /\ rows' = rows /\ pc' # "read" /\ ask'.chosen = Len(log)
    BY <1>5 DEF ReadTurns, PageStep, WalkInv, WalkType, Asks
  <2>2. rows = {}
    BY <2>1 DEF RawInv
  <2> QED BY <1>5, <2>1, <2>2, ReadTurnsWalk, RawEmpty
<1>6. CASE FindMore
  <2>1. pc = "more" /\ rows' = rows /\ pc' # "read" /\ ask'.chosen = ask.chosen
    BY <1>6 DEF FindMore, PageStep, WalkInv, WalkType, Asks
  <2>2. rows = {}
    BY <2>1 DEF RawInv
  <2> QED BY <1>6, <2>1, <2>2, FindMoreWalk, RawEmpty
<1>7. CASE Trim
  BY <1>7, TrimWalk, TrimRaw DEF RawInv
<1>8. CASE ReadEvents
  BY <1>8, ReadWalk, ReadRaw
<1>9. CASE RawDone
  <2>1. pc = "read" /\ pc' = "page" /\ UNCHANGED <<log, ask, rows>>
    BY <1>9 DEF RawDone, PageStep
  <2>2. RawInv'
    BY <2>1 DEF RawInv, RowsFit
  <2> QED BY <1>9, <2>2, ReadWalk
<1>10. CASE PageLeft
  <2>1. pc' = "idle" /\ ask' = NoAsk /\ rows' = {} /\ walk' = NoWalk
    BY <1>10 DEF PageLeft
  <2>2. ask'.chosen = 0
    BY <2>1 DEF NoAsk
  <2> QED BY <2>1, <2>2, AwayWalk, RawEmpty DEF Away
<1> QED BY <1>1, <1>2, <1>3, <1>4, <1>5, <1>6, <1>7, <1>8, <1>9, <1>10 DEF Page

LEMMA WalkNext ==
  ASSUME LogType, Grows, WalkInv, RawInv, [Next]_vars
  PROVE  WalkInv' /\ RawInv'
<1>1. ASSUME UNCHANGED <<pc, ask, rows, walk>> PROVE WalkInv' /\ RawInv'
  BY <1>1, WalkGrows, RawGrows
<1>2. ASSUME pc \in Away, pc' \in Away, UNCHANGED <<ask, rows, walk>> PROVE WalkInv' /\ RawInv'
  <2>1. rows' = {} /\ pc' # "read"
    BY <1>2 DEF RawInv, Away
  <2> QED BY <1>2, <2>1, AwayWalk, RawEmpty
<1>3. CASE TurnState
  BY <1>2, <1>3 DEF TurnState, AskFirst, AskSecond, StateLeft, StateStep, Away
<1>4. CASE Push
  <2>1. CASE Send
    BY <1>2, <2>1 DEF Send, Away
  <2> QED BY <1>1, <1>4, <2>1 DEF Push, PushStep, StoreFails, Project, Created, GiveUp, StrayFails, StorePushed, StrayStores
<1>5. ASSUME NEW ev \in Event, Arrive(ev) PROVE WalkInv' /\ RawInv'
  BY <1>1, <1>5 DEF Arrive
<1>6. ASSUME NEW types \in SUBSET Types \ {{}}, Poll(types) PROVE WalkInv' /\ RawInv'
  BY <1>2, <1>6 DEF Poll, Away
<1>7. CASE PollLeft
  BY <1>2, <1>7 DEF PollLeft, Away
<1>8. CASE UNCHANGED vars
  BY <1>1, <1>8 DEF vars
<1> QED BY <1>3, <1>4, <1>5, <1>6, <1>7, <1>8, PageNext DEF Next

LEMMA WalkInit == Init => WalkInv /\ RawInv
<1> SUFFICES ASSUME Init PROVE WalkInv /\ RawInv
  OBVIOUS
<1>1. pc = "idle" /\ log = <<>> /\ rows = {}
  BY DEF Init
<1>2. WalkType
  BY DEF Init, WalkType, Asks, Walks, NoAsk, NoWalk
<1>3. ask.chosen <= Len(log)
  BY DEF Init, NoAsk
<1> QED BY <1>1, <1>2, <1>3 DEF WalkInv, RawInv, AtBound, Within, AtRows, AtMore, Raw, AtPage

\* Paging back until there is no more gives every turn there was, and none twice, at
\* any limits and with any events arriving between the queries (TurnWindow,
\* turn_index.go:531, and materializeTail, server.go:214).
THEOREM WalksAreWhole == Spec => []WalkWhole
<1>1. ASSUME WalkInv PROVE WalkWhole
  <2>1. pc \in {"more", "trim", "read"} => ask.turns \cap walk.turns = {}
    <3> SUFFICES ASSUME pc \in {"more", "trim", "read"}, NEW t \in ask.turns, t \in walk.turns PROVE FALSE
      OBVIOUS
    <3>1. t \in Nat /\ ask.bound \in Nat
      BY <1>1 DEF WalkInv, WalkType, Asks, Seqs
    <3>2. CASE pc = "more"
      BY <1>1, <3>1, <3>2 DEF WalkInv, Within, AtMore
    <3>3. CASE pc \in {"trim", "read"}
      BY <1>1, <3>1, <3>3 DEF WalkInv, Raw
    <3> QED BY <3>2, <3>3
  <2> QED BY <1>1, <2>1 DEF WalkWhole, WalkInv, AtPage, Promised, Owed
<1> QED BY <1>1, LogInit, LogNext, WalkInit, WalkNext, PTL DEF Spec

-----------------------------------------------------------------------------
(***************************************************************************)
(* What a page holds and says.                                             *)
(***************************************************************************)
\* The prompts and the turns in a page's range, of the first n events.
PromptsIn(n) == InRange(PromptTurns(log, n), ask.bound)
TurnsIn(n) == InRange(Turns(log, n), ask.bound)

\* The prompts there were when the page was asked for are too few, or none.
AtCount == pc = "count" => Cardinality(PromptsIn(ask.began)) <= ask.limit
AtPlain == pc = "plain" => PromptsIn(ask.began) = {}
\* From the start on there are as many as asked for: no more of the first moment, and
\* no fewer of now if one of the first moment is below it.
AtStart == pc = "rows" =>
  /\ Cardinality(AtLeast(PromptsIn(ask.began), ask.start)) <= ask.limit
  /\ (\E t \in PromptsIn(ask.began) : t < ask.start) =>
        Cardinality(AtLeast(PromptsIn(Len(log)), ask.start)) >= ask.limit
  /\ AtLeast(PromptsIn(Len(log)), ask.start) = {} =>
        Cardinality(AtLeast(TurnsIn(ask.began), ask.start)) <= ask.limit
Holding ==
  /\ Cardinality(PromptsIn(ask.began) \cap ask.turns) <= ask.limit
  /\ PromptsIn(ask.began) \ ask.turns # {} => Cardinality(PromptTurns(log, ask.chosen) \cap ask.turns) >= ask.limit
  /\ ask.turns \cap PromptTurns(log, ask.chosen) = {} => Cardinality(ask.turns \cap Turns(log, ask.began)) <= ask.limit
AtHolding == pc \in {"more", "page"} /\ ~ask.raw /\ ask.turns # {} => Holding

\* An event of an older turn in range; one of the only turn, some events of which are given.
Older(e) == (ask.bound = 0 \/ log[e].turn < ask.bound) /\ \A u \in ask.turns : log[e].turn < u
Rest(e) == ask.turns = {log[e].turn} /\ \E f \in rows : log[f].turn = log[e].turn
ToldOfTurns == IF ask.more THEN \E e \in DOMAIN log : Older(e) ELSE TurnsIn(ask.chosen) \subseteq ask.turns
ToldOfEvents ==
  /\ \A e \in rows : log[e].turn \in ask.turns
  /\ IF ask.more THEN \E e \in DOMAIN log \ rows : Older(e) \/ Rest(e)
     ELSE /\ TurnsIn(ask.chosen) \subseteq ask.turns
          /\ \A t \in ask.turns \ Unread : Rows(log, ask.chosen, {t}) \subseteq rows
Told ==
  /\ pc \in {"more", "trim", "read", "page"} => ask.turns \subseteq TurnsIn(ask.chosen)
  /\ pc = "more" => \A t \in TurnsIn(ask.chosen) : t >= ask.start => t \in ask.turns
  /\ pc \in {"trim", "read"} => ask.raw
  /\ pc = "trim" => ToldOfTurns
  /\ pc = "read" => ToldOfEvents
  /\ pc = "page" /\ ask.turns # {} => IF ask.raw THEN ToldOfEvents /\ Unread = {} ELSE ToldOfTurns

PageInv == ask.began <= Len(log) /\ AtCount /\ AtPlain /\ AtStart /\ AtHolding /\ Told

\* Counting turns.
LEMMA Counted ==
  ASSUME NEW S, S \subseteq Seqs
  PROVE  /\ IsFiniteSet(S) /\ Cardinality(S) \in Nat
         /\ \A T \in SUBSET S : Cardinality(T) \in Nat /\ Cardinality(T) <= Cardinality(S)
<1>1. MaxEvents \in Nat /\ S \subseteq 0..MaxEvents
  BY BoundsAssumption DEF Seqs
<1>2. IsFiniteSet(S) /\ Cardinality(S) \in Nat
  BY <1>1, BoundedFinite
<1> QED BY <1>2, FS_Subset, FS_CardinalityType

\* What an earlier moment had in range is still there.
LEMMA RangesGrow ==
  ASSUME LogType, NEW n \in 0..Len(log), NEW bound
  PROVE  /\ InRange(PromptTurns(log, n), bound) \subseteq InRange(PromptTurns(log, Len(log)), bound)
         /\ InRange(Turns(log, n), bound) \subseteq InRange(Turns(log, Len(log)), bound)
         /\ InRange(PromptTurns(log, n), bound) \subseteq InRange(Turns(log, n), bound)
         /\ InRange(Turns(log, n), bound) \subseteq Seqs
<1>1. 1..n \subseteq 1..Len(log)
  BY DEF LogType
<1>2. PromptTurns(log, n) \subseteq PromptTurns(log, Len(log))
  BY <1>1 DEF PromptTurns
<1> QED BY <1>2, TurnsAre DEF InRange

LEMMA PromptsPrefix ==
  ASSUME LogType, Grows, NEW n \in 0..Len(log)
  PROVE  PromptTurns(log', n) = PromptTurns(log, n)
<1>1. \A e \in 1..n : log'[e] = log[e]
  BY GrowsKeeps
<1> QED BY <1>1 DEF PromptTurns

LEMMA PromptsGrow ==
  ASSUME LogType, Grows
  PROVE  PromptTurns(log, Len(log)) \subseteq PromptTurns(log', Len(log'))
<1>1. \A e \in 1..Len(log) : log'[e] = log[e] /\ e \in 1..Len(log')
  BY GrowsKeeps
<1> QED BY <1>1 DEF PromptTurns

\* The k-th turn from the top has k turns from it on, of which an earlier moment had no more.
LEMMA NthCounts ==
  ASSUME NEW S, S \subseteq Seqs, NEW limit \in Nat \ {0}, HasNth(S, limit)
  PROVE  Cardinality(AtLeast(S, Nth(S, limit))) = limit
<1>1. MaxEvents \in Nat /\ S \subseteq 0..MaxEvents
  BY BoundsAssumption DEF Seqs
<1>2. \E t \in S : Cardinality({u \in S : u >= t}) = limit
  <2>1. \E t \in S : Cardinality(AtLeast(S, t)) = limit
    BY <1>1, NthExists DEF HasNth
  <2> QED BY <2>1 DEF AtLeast
<1> QED BY <1>2 DEF Nth, AtLeast

\* Events that arrive between the queries.
LEMMA PageGrows ==
  ASSUME LogType, LogType', Grows, WalkInv, RawInv, PageInv, UNCHANGED <<pc, ask, rows>>
  PROVE  PageInv'
<1> DEFINE b == ask.began
           c == ask.chosen
<1>1. b \in 0..Len(log) /\ c \in 0..Len(log) /\ b <= Len(log')
  BY GrowsKeeps DEF PageInv, RawInv, WalkInv, WalkType, Asks
<1>2. /\ PromptTurns(log', b) = PromptTurns(log, b) /\ PromptTurns(log', c) = PromptTurns(log, c)
      /\ Turns(log', b) = Turns(log, b) /\ Turns(log', c) = Turns(log, c)
  BY <1>1, PromptsPrefix, TurnsPrefix
<1>3. /\ PromptsIn(b)' = PromptsIn(b) /\ TurnsIn(b)' = TurnsIn(b) /\ TurnsIn(c)' = TurnsIn(c)
  BY <1>2 DEF PromptsIn, TurnsIn
<1>4. AtCount' /\ AtPlain'
  BY <1>3 DEF PageInv, AtCount, AtPlain
<1>5. AtStart'
  <2> DEFINE now == AtLeast(InRange(PromptTurns(log, Len(log)), ask.bound), ask.start)
             then == AtLeast(InRange(PromptTurns(log', Len(log')), ask.bound), ask.start)
  <2>1. now \subseteq then
    BY PromptsGrow DEF AtLeast, InRange
  <2>2. then \subseteq Seqs
    <3>1. Len(log') \in 0..Len(log')
      BY GrowsKeeps
    <3>2. PromptTurns(log', Len(log')) \subseteq Seqs
      <4>1. \A e \in 1..Len(log') : log'[e] \in Event
        BY DEF LogType
      <4> QED BY <4>1 DEF PromptTurns, Event
    <3> QED BY <3>2 DEF AtLeast, InRange
  <2>3. Cardinality(now) \in Nat /\ Cardinality(then) \in Nat /\ Cardinality(now) <= Cardinality(then)
    <3> HIDE DEF now, then
    <3> QED BY <2>1, <2>2, Counted
  <2>4. ask.limit \in Nat
    BY DEF WalkInv, WalkType, Asks
  <2>5. now = AtLeast(PromptsIn(Len(log)), ask.start) /\ then = AtLeast(PromptsIn(Len(log)), ask.start)'
    BY DEF PromptsIn
  <2> HIDE DEF now, then
  <2> SUFFICES ASSUME pc = "rows"
               PROVE  /\ Cardinality(AtLeast(PromptsIn(b), ask.start)) <= ask.limit
                      /\ (\E t \in PromptsIn(b) : t < ask.start) => Cardinality(then) >= ask.limit
                      /\ then = {} => Cardinality(AtLeast(TurnsIn(b), ask.start)) <= ask.limit
    BY <1>3, <2>5 DEF AtStart
  <2>6. /\ Cardinality(AtLeast(PromptsIn(b), ask.start)) <= ask.limit
        /\ (\E t \in PromptsIn(b) : t < ask.start) => Cardinality(now) >= ask.limit
        /\ now = {} => Cardinality(AtLeast(TurnsIn(b), ask.start)) <= ask.limit
    BY <2>5 DEF PageInv, AtStart
  <2> QED BY <2>1, <2>3, <2>4, <2>6
<1>6. AtHolding'
  <2>1. Holding => Holding'
    BY <1>2, <1>3 DEF Holding
  <2> QED BY <2>1 DEF PageInv, AtHolding
<1>7. Told'
  <2>1. \A e \in DOMAIN log : log'[e] = log[e] /\ e \in DOMAIN log'
    BY GrowsKeeps
  <2>2. rows \subseteq DOMAIN log
    BY DEF RawInv
  <2>3. \A e \in DOMAIN log : (Older(e) => Older(e)') /\ (Rest(e) => Rest(e)')
    BY <2>1, <2>2 DEF Older, Rest
  <2>4. Unread' = Unread
    BY <2>1, <2>2 DEF Unread
  <2>5. \A t : Rows(log', c, {t}) = Rows(log, c, {t})
    <3>1. \A e \in 1..c : log'[e] = log[e]
      BY <1>1, GrowsKeeps
    <3> QED BY <3>1 DEF Rows
  <2>6. ToldOfTurns => ToldOfTurns'
    BY <1>3, <2>1, <2>3 DEF ToldOfTurns
  <2>7. ToldOfEvents => ToldOfEvents'
    <3>1. \A e \in rows : log'[e] = log[e]
      BY <2>1, <2>2
    <3>2. (\E e \in DOMAIN log \ rows : Older(e) \/ Rest(e)) => (\E e \in DOMAIN log' \ rows' : (Older(e) \/ Rest(e))')
      BY <2>1, <2>3
    <3> QED BY <1>3, <2>4, <2>5, <3>1, <3>2 DEF ToldOfEvents
  <2> QED BY <1>3, <2>4, <2>6, <2>7 DEF PageInv, Told
<1> QED BY <1>1, <1>4, <1>5, <1>6, <1>7 DEF PageInv

\* Steps to where nothing has been found yet, or to an empty page.
LEMMA NotYet ==
  ASSUME ask'.began <= Len(log'),
         pc' \notin {"count", "plain", "rows", "more", "trim", "read", "page"} \/ (pc' = "page" /\ ask'.turns = {})
  PROVE  PageInv'
BY DEF PageInv, AtCount, AtPlain, AtStart, AtHolding, Told

\* The queries for the start: the prompts of the moment are at least those there were
\* when the page was asked for.
LEMMA FindStartPage ==
  ASSUME LogType, WalkInv, PageInv, FindStart
  PROVE  PageInv'
<1> DEFINE prompts == InRange(PromptTurns(log, Len(log)), ask.bound)
           before == PromptsIn(ask.began)
<1>1. ask.began \in 0..Len(log) /\ ask.limit \in Nat \ {0} /\ Len(log) \in 0..Len(log)
  BY DEF PageInv, WalkInv, WalkType, Asks, LogType
<1>2. before \subseteq prompts /\ prompts \subseteq Seqs
  BY <1>1, RangesGrow DEF PromptsIn
<1>3. pc = "start" /\ log' = log
  BY DEF FindStart, PageStep
<1>4. CASE HasNth(prompts, ask.limit)
  <2> DEFINE start == Nth(prompts, ask.limit)
  <2>1. ask' = [ask EXCEPT !.start = start] /\ pc' = "rows"
    BY <1>4 DEF FindStart, StartOf
  <2> HIDE DEF prompts, start
  <2>2. Cardinality(AtLeast(prompts, start)) = ask.limit /\ start \in prompts
    BY <1>1, <1>2, <1>4, NthCounts, NthIn DEF start
  <2>3. AtLeast(prompts, start) \subseteq Seqs /\ AtLeast(before, start) \subseteq AtLeast(prompts, start)
    BY <1>2 DEF AtLeast
  <2>4. Cardinality(AtLeast(before, start)) <= ask.limit
    BY <2>2, <2>3, Counted
  <2>5. AtLeast(prompts, start) # {}
    BY <1>2, <2>2 DEF AtLeast, Seqs
  <2>6. ask'.start = start /\ ask'.bound = ask.bound /\ ask'.began = ask.began /\ ask'.limit = ask.limit
    BY <2>1 DEF WalkInv, WalkType, Asks
  <2>7. before' = before /\ PromptsIn(Len(log))' = prompts
    BY <1>3, <2>6 DEF PromptsIn, prompts
  <2>8. AtStart'
    <3> HIDE DEF before
    <3>1. ask'.limit >= ask.limit
      BY <1>1, <2>6
    <3> QED BY <2>2, <2>4, <2>5, <2>6, <2>7, <3>1 DEF AtStart, before
  <2>9. ask'.began <= Len(log')
    BY <1>3, <2>6 DEF PageInv
  <2> QED BY <2>1, <2>8, <2>9 DEF PageInv, AtCount, AtPlain, AtHolding, Told
<1>5. CASE ~HasNth(prompts, ask.limit)
  <2>1. UNCHANGED ask /\ pc' = "count"
    BY <1>5 DEF FindStart
  <2>2. ~(Cardinality(prompts) >= ask.limit)
    BY <1>5 DEF HasNth
  <2> HIDE DEF prompts, before
  <2>3. Cardinality(before) <= ask.limit
    BY <1>1, <1>2, <2>2, Counted
  <2>4. before' = before
    BY <1>3, <2>1 DEF before, PromptsIn
  <2>5. AtCount'
    BY <2>1, <2>3, <2>4 DEF AtCount, before
  <2>6. ask'.began <= Len(log')
    BY <1>3, <2>1 DEF PageInv
  <2> QED BY <2>1, <2>5, <2>6 DEF PageInv, AtPlain, AtStart, AtHolding, Told
<1> QED BY <1>4, <1>5

LEMMA CountPage ==
  ASSUME LogType, WalkInv, PageInv, CountPrompts
  PROVE  PageInv'
<1> DEFINE prompts == InRange(PromptTurns(log, Len(log)), ask.bound)
           before == PromptsIn(ask.began)
<1>1. ask.began \in 0..Len(log) /\ ask.limit \in Nat \ {0} /\ Len(log) \in 0..Len(log)
  BY DEF PageInv, WalkInv, WalkType, Asks, LogType
<1>2. before \subseteq prompts /\ prompts \subseteq Seqs
  BY <1>1, RangesGrow DEF PromptsIn
<1>3. pc = "count" /\ log' = log /\ ask'.began = ask.began
  BY DEF CountPrompts, PageStep, WalkInv, WalkType, Asks
<1>4. ask'.began <= Len(log')
  BY <1>3 DEF PageInv
<1>5. CASE prompts # {}
  <2>1. ask' = [ask EXCEPT !.start = 1] /\ pc' = "rows"
    BY <1>5 DEF CountPrompts
  <2>2. ask'.start = 1 /\ ask'.bound = ask.bound /\ ask'.limit = ask.limit
    BY <2>1 DEF WalkInv, WalkType, Asks
  <2>3. before' = before /\ PromptsIn(Len(log))' = prompts
    BY <1>3, <2>2 DEF PromptsIn
  <2> HIDE DEF prompts, before
  <2>4. AtLeast(before, 1) = before /\ AtLeast(prompts, 1) = prompts /\ \A t \in before : ~(t < 1)
    <3>1. \A t \in prompts : t >= 1 /\ ~(t < 1)
      BY <1>2 DEF Seqs
    <3> QED BY <1>2, <3>1 DEF AtLeast
  <2>5. Cardinality(before) <= ask.limit
    BY <1>3 DEF PageInv, AtCount, before
  <2>6. AtStart'
    BY <1>5, <2>2, <2>3, <2>4, <2>5 DEF AtStart, before
  <2> QED BY <1>4, <2>1, <2>6 DEF PageInv, AtCount, AtPlain, AtHolding, Told
<1>6. CASE prompts = {}
  <2>1. UNCHANGED ask /\ pc' = "plain"
    BY <1>6 DEF CountPrompts
  <2>2. before' = {}
    BY <1>2, <1>3, <1>6, <2>1 DEF PromptsIn
  <2>3. AtPlain'
    BY <2>2 DEF AtPlain
  <2> QED BY <1>4, <2>1, <2>3 DEF PageInv, AtCount, AtStart, AtHolding, Told
<1> QED BY <1>5, <1>6

LEMMA PlainPage ==
  ASSUME LogType, WalkInv, PageInv, FindPlainStart
  PROVE  PageInv'
<1> DEFINE range == InRange(Turns(log, Len(log)), ask.bound)
           start == IF HasNth(range, ask.limit) THEN Nth(range, ask.limit) ELSE 1
           before == TurnsIn(ask.began)
<1>1. ask.began \in 0..Len(log) /\ ask.limit \in Nat \ {0} /\ Len(log) \in 0..Len(log)
  BY DEF PageInv, WalkInv, WalkType, Asks, LogType
<1>2. before \subseteq range /\ range \subseteq Seqs
  BY <1>1, RangesGrow DEF TurnsIn
<1>3. pc = "plain" /\ log' = log /\ ask' = [ask EXCEPT !.start = start] /\ pc' = "rows"
  BY DEF FindPlainStart, PageStep
<1> HIDE DEF range, start
<1>4. /\ ask'.start = start /\ ask'.bound = ask.bound /\ ask'.limit = ask.limit /\ ask'.began = ask.began
  BY <1>3 DEF WalkInv, WalkType, Asks
<1>5. Cardinality(AtLeast(range, start)) <= ask.limit
  <2>1. CASE HasNth(range, ask.limit)
    BY <1>1, <1>2, <2>1, NthCounts DEF start
  <2>2. CASE ~HasNth(range, ask.limit)
    <3>1. AtLeast(range, start) \in SUBSET range
      BY DEF AtLeast
    <3>2. ~(Cardinality(range) >= ask.limit)
      BY <2>2 DEF HasNth
    <3> QED BY <1>1, <1>2, <3>1, <3>2, Counted
  <2> QED BY <2>1, <2>2
<1>6. Cardinality(AtLeast(before, start)) <= ask.limit
  <2>1. AtLeast(before, start) \in SUBSET AtLeast(range, start) /\ AtLeast(range, start) \subseteq Seqs
    BY <1>2 DEF AtLeast
  <2> QED BY <1>1, <1>5, <2>1, Counted
<1>7. PromptsIn(ask.began)' = {} /\ before' = before
  <2>1. PromptsIn(ask.began) = {}
    BY <1>3 DEF PageInv, AtPlain
  <2> QED BY <1>3, <1>4, <2>1 DEF PromptsIn, TurnsIn
<1>8. AtStart'
  <2>1. Cardinality(AtLeast(PromptsIn(ask.began), ask.start)') <= ask.limit
    <3>1. AtLeast(PromptsIn(ask.began), ask.start)' = {}
      BY <1>7 DEF AtLeast
    <3> QED BY <1>1, <3>1, FS_EmptySet
  <2>2. ~ \E t \in PromptsIn(ask.began)' : t < start
    BY <1>7
  <2> HIDE DEF before
  <2>3. AtLeast(TurnsIn(ask.began), ask.start)' = AtLeast(before, start)
    BY <1>4, <1>7 DEF before, AtLeast
  <2> QED BY <1>4, <1>6, <2>1, <2>2, <2>3 DEF AtStart
<1>9. ask'.began <= Len(log')
  BY <1>3, <1>4 DEF PageInv
<1> QED BY <1>3, <1>8, <1>9 DEF PageInv, AtCount, AtPlain, AtHolding, Told
LEMMA ReadTurnsPage ==
  ASSUME LogType, WalkInv, PageInv, ReadTurns
  PROVE  PageInv'
<1> DEFINE range == TurnsIn(Len(log))
           prompts == PromptsIn(Len(log))
           begun == PromptsIn(ask.began)
           turns == {t \in range : t >= ask.start}
<1>1. ask.began \in 0..Len(log) /\ ask.limit \in Nat /\ Len(log) \in 0..Len(log) /\ ask.start \in Nat
  BY DEF PageInv, WalkInv, WalkType, Asks, LogType
<1>2. begun \subseteq prompts /\ prompts \subseteq range /\ TurnsIn(ask.began) \subseteq range /\ range \subseteq Seqs
  BY <1>1, RangesGrow DEF TurnsIn, PromptsIn
<1>3. /\ pc = "rows" /\ pc' = "more" /\ log' = log
      /\ ask' = [ask EXCEPT !.turns = turns, !.chosen = Len(log)]
  BY DEF ReadTurns, PageStep, TurnsIn
<1>4. turns \subseteq Seqs /\ turns \subseteq range /\ \A t \in range : t \in turns <=> t >= ask.start
  BY <1>2
<1> HIDE DEF turns
<1>5. /\ ask'.turns = turns /\ ask'.chosen = Len(log) /\ ask'.began = ask.began /\ ask'.bound = ask.bound
      /\ ask'.limit = ask.limit /\ ask'.start = ask.start
  BY <1>3 DEF WalkInv, WalkType, Asks
<1>6. PromptsIn(ask.began)' = begun /\ TurnsIn(ask.chosen)' = range
  BY <1>3, <1>5 DEF PromptsIn, TurnsIn
<1>7. /\ Cardinality(AtLeast(begun, ask.start)) <= ask.limit
      /\ (\E t \in begun : t < ask.start) => Cardinality(AtLeast(prompts, ask.start)) >= ask.limit
      /\ AtLeast(prompts, ask.start) = {} => Cardinality(AtLeast(TurnsIn(ask.began), ask.start)) <= ask.limit
  BY <1>3 DEF PageInv, AtStart
<1>8. Cardinality(begun \cap turns) <= ask.limit
  <2> HIDE DEF begun, range, prompts
  <2>1. begun \cap turns = AtLeast(begun, ask.start)
    BY <1>2, <1>4 DEF AtLeast
  <2> QED BY <1>7, <2>1
<1>9. ASSUME begun \ turns # {} PROVE Cardinality(PromptTurns(log, Len(log)) \cap turns) >= ask.limit
  <2> DEFINE held == PromptTurns(log, Len(log)) \cap turns
  <2>1. \E t \in begun : t < ask.start
    <3> HIDE DEF begun, range, prompts
    <3>1. PICK t \in begun : t \notin turns
      BY <1>9
    <3>2. ~(t >= ask.start) /\ t \in Nat
      BY <1>2, <1>4, <3>1 DEF Seqs
    <3> QED BY <1>1, <3>1, <3>2
  <2>2. AtLeast(prompts, ask.start) \in SUBSET held
    <3>1. \A t \in prompts : t \in PromptTurns(log, Len(log)) /\ t \in range
      BY <1>2 DEF PromptsIn, InRange
    <3> HIDE DEF prompts, range
    <3> QED BY <1>4, <3>1 DEF AtLeast
  <2>3. held \subseteq Seqs
    BY <1>4
  <2> HIDE DEF prompts, held
  <2>4. /\ Cardinality(AtLeast(prompts, ask.start)) \in Nat /\ Cardinality(held) \in Nat
        /\ Cardinality(AtLeast(prompts, ask.start)) <= Cardinality(held)
    BY <2>2, <2>3, Counted
  <2> QED BY <1>1, <1>7, <2>1, <2>4 DEF held
<1>10. ASSUME turns \cap PromptTurns(log, Len(log)) = {} PROVE Cardinality(turns \cap Turns(log, ask.began)) <= ask.limit
  <2> DEFINE old == AtLeast(TurnsIn(ask.began), ask.start)
  <2>1. AtLeast(prompts, ask.start) = {}
    <3>1. \A t \in prompts : t \in PromptTurns(log, Len(log)) /\ t \in range
      BY <1>2 DEF PromptsIn, InRange
    <3> HIDE DEF prompts, range
    <3> QED BY <1>4, <1>10, <3>1 DEF AtLeast
  <2>2. turns \cap Turns(log, ask.began) \in SUBSET old
    <3>1. \A t \in range : ask.bound = 0 \/ t < ask.bound
      BY DEF TurnsIn, InRange
    <3>2. \A t \in turns : t >= ask.start /\ t \in range
      BY <1>4
    <3> HIDE DEF range
    <3> QED BY <3>1, <3>2 DEF AtLeast, TurnsIn, InRange
  <2>3. old \subseteq Seqs
    BY <1>2 DEF AtLeast
  <2> HIDE DEF prompts, old
  <2>4. /\ Cardinality(turns \cap Turns(log, ask.began)) \in Nat /\ Cardinality(old) \in Nat
        /\ Cardinality(turns \cap Turns(log, ask.began)) <= Cardinality(old)
    BY <2>2, <2>3, Counted
  <2> QED BY <1>1, <1>7, <2>1, <2>4 DEF old
<1> HIDE DEF begun, range, prompts
<1>11. Holding'
  BY <1>3, <1>5, <1>6, <1>8, <1>9, <1>10 DEF Holding
<1>12. Told'
  BY <1>3, <1>4, <1>5, <1>6 DEF Told
<1>13. ask'.began <= Len(log')
  BY <1>3, <1>5 DEF PageInv
<1> QED BY <1>3, <1>11, <1>12, <1>13 DEF PageInv, AtCount, AtPlain, AtStart, AtHolding

\* Turns below the start are in range, and without any the page has all of its range.
LEMMA FindMorePage ==
  ASSUME LogType, WalkInv, RawInv, PageInv, FindMore
  PROVE  PageInv'
<1>1. /\ ask' = [ask EXCEPT !.more = MoreBelow(log, ask)] /\ pc = "more" /\ UNCHANGED <<log, rows>>
      /\ IF ask.raw THEN pc' = "trim" ELSE pc' = "page"
  BY DEF FindMore, PageStep
<1>2. /\ ask'.turns = ask.turns /\ ask'.chosen = ask.chosen /\ ask'.began = ask.began /\ ask'.bound = ask.bound
      /\ ask'.limit = ask.limit /\ ask'.raw = ask.raw /\ ask'.more = MoreBelow(log, ask)
  BY <1>1 DEF WalkInv, WalkType, Asks, MoreBelow
<1>3. /\ ask.turns \subseteq Nat /\ ask.start \in Nat /\ ask.bound \in Nat
      /\ ask.chosen \in 0..Len(log)
  BY TurnsNat DEF WalkInv, WalkType, RawInv, Asks, LogType
<1>4. TurnsIn(ask.chosen) \subseteq Seqs /\ TurnsIn(ask.chosen) \subseteq TurnsIn(Len(log))
  BY <1>3, RangesGrow DEF TurnsIn
<1>5. /\ ask.turns \subseteq TurnsIn(ask.chosen) /\ \A t \in TurnsIn(ask.chosen) : t >= ask.start => t \in ask.turns
  BY <1>1 DEF PageInv, Told
<1>6. ASSUME MoreBelow(log, ask) PROVE \E e \in DOMAIN log : Older(e)
  <2>1. PICK t \in Turns(log, Len(log)) : t < ask.start
    BY <1>6 DEF MoreBelow
  <2>2. PICK e \in DOMAIN log : log[e].turn = t
    BY <2>1 DEF Turns, LogType
  <2>3. t \in Nat
    <3>1. log[e] \in Event
      BY <2>2 DEF LogType
    <3> QED BY <2>2, <3>1 DEF Event, Seqs
  <2>4. \A u \in ask.turns : t < u
    <3>1. \A u \in ask.turns : ask.start <= u /\ u \in Nat
      BY <1>1, <1>3 DEF WalkInv, AtMore
    <3> QED BY <1>3, <2>1, <2>3, <3>1
  <2>5. ask.bound = 0 \/ t < ask.bound
    <3>1. ask.start \in ask.turns
      BY <1>1, <1>6 DEF WalkInv, AtMore, MoreBelow
    <3>2. ask.bound = 0 \/ ask.start < ask.bound
      BY <1>1, <3>1 DEF WalkInv, AtMore
    <3> QED BY <1>3, <2>1, <2>3, <3>2
  <2> QED BY <2>2, <2>4, <2>5 DEF Older
<1>7. ASSUME ~MoreBelow(log, ask) PROVE TurnsIn(ask.chosen) \subseteq ask.turns
  <2> SUFFICES ASSUME NEW t \in TurnsIn(ask.chosen) PROVE t >= ask.start
    BY <1>5
  <2>1. t \in Nat /\ t >= 1 /\ t \in Turns(log, Len(log))
    BY <1>4 DEF Seqs, TurnsIn, InRange
  <2>2. ~(ask.start > 1) \/ ~(t < ask.start)
    BY <1>7, <2>1 DEF MoreBelow
  <2> QED BY <1>3, <2>1, <2>2
<1>8. TurnsIn(ask.chosen)' = TurnsIn(ask.chosen)
  BY <1>1, <1>2 DEF TurnsIn
<1>9. ToldOfTurns'
  <2>1. \A e \in DOMAIN log : Older(e)' <=> Older(e)
    BY <1>1, <1>2 DEF Older
  <2> QED BY <1>1, <1>2, <1>6, <1>7, <1>8, <2>1 DEF ToldOfTurns
<1>10. AtHolding'
  <2>1. PromptsIn(ask.began)' = PromptsIn(ask.began)
    BY <1>1, <1>2 DEF PromptsIn
  <2>2. Holding => Holding'
    BY <1>1, <1>2, <2>1 DEF Holding
  <2> QED BY <1>1, <1>2, <2>2 DEF PageInv, AtHolding
<1>11. Told'
  BY <1>1, <1>2, <1>5, <1>8, <1>9 DEF Told
<1>12. ask'.began <= Len(log')
  BY <1>1, <1>2 DEF PageInv
<1> QED BY <1>1, <1>10, <1>11, <1>12 DEF PageInv, AtCount, AtPlain, AtStart
\* Steps of the raw page: what they leave of the invariant.
LEMMA RawPage ==
  ASSUME PageInv, pc' \in {"read", "page"}, ask.raw, ask'.raw = ask.raw, ask'.began = ask.began, log' = log,
         ask'.turns \subseteq TurnsIn(ask.chosen)', ToldOfEvents', pc' = "page" => Unread' = {}
  PROVE  PageInv'
<1>1. Told'
  BY DEF Told
<1> QED BY <1>1 DEF PageInv, AtCount, AtPlain, AtStart, AtHolding

\* A turn left out is older than those kept.
LEMMA TrimPage ==
  ASSUME LogType, WalkInv, RawInv, PageInv, Trim
  PROVE  PageInv'
<1> DEFINE kept == Fitting(log, ask)
<1>1. /\ ask' = [ask EXCEPT !.turns = kept, !.more = @ \/ kept # ask.turns]
      /\ pc = "trim" /\ pc' = "read" /\ UNCHANGED <<log, rows>>
  BY DEF Trim, PageStep
<1>2. /\ kept \subseteq ask.turns /\ \A t \in ask.turns \ kept, u \in kept : t < u
  BY FittingIs DEF WalkInv, WalkType, RawInv
<1> HIDE DEF kept
<1>3. /\ ask'.turns = kept /\ (ask'.more <=> ask.more \/ kept # ask.turns) /\ ask'.bound = ask.bound
      /\ ask'.chosen = ask.chosen /\ ask'.began = ask.began /\ ask'.raw = ask.raw
  BY <1>1 DEF WalkInv, WalkType, Asks
<1>4. rows = {} /\ rows' = {} /\ ask.raw /\ ToldOfTurns /\ ask.turns \subseteq TurnsIn(ask.chosen)
  BY <1>1 DEF RawInv, PageInv, Told
<1>5. TurnsIn(ask.chosen)' = TurnsIn(ask.chosen)
  BY <1>1, <1>3 DEF TurnsIn
<1>6. ASSUME ask.more PROVE \E e \in DOMAIN log' : Older(e)'
  <2>1. PICK e \in DOMAIN log : Older(e)
    BY <1>4, <1>6 DEF ToldOfTurns
  <2>2. Older(e)'
    BY <1>1, <1>2, <1>3, <2>1 DEF Older
  <2> QED BY <1>1, <2>2
<1>7. ASSUME kept # ask.turns PROVE \E e \in DOMAIN log' : Older(e)'
  <2>1. PICK t \in ask.turns : t \notin kept
    BY <1>2, <1>7
  <2>2. t \in Turns(log, ask.chosen) /\ (ask.bound = 0 \/ t < ask.bound)
    BY <1>4 DEF TurnsIn, InRange
  <2>3. PICK e \in 1..ask.chosen : log[e].turn = t
    BY <2>2 DEF Turns
  <2>4. e \in DOMAIN log
    BY DEF LogType, RawInv, WalkInv, WalkType, Asks
  <2>5. Older(e)'
    BY <1>1, <1>2, <1>3, <2>1, <2>2, <2>3 DEF Older
  <2> QED BY <1>1, <2>4, <2>5
<1>8. ToldOfEvents'
  <2>1. Unread' = ask'.turns
    BY <1>4 DEF Unread
  <2>2. CASE ask.more \/ kept # ask.turns
    BY <1>3, <1>4, <1>6, <1>7, <2>2 DEF ToldOfEvents
  <2>3. CASE ~ask.more /\ kept = ask.turns
    BY <1>3, <1>4, <1>5, <2>1, <2>3 DEF ToldOfEvents, ToldOfTurns
  <2> QED BY <2>2, <2>3
<1>9. ask'.turns \subseteq TurnsIn(ask.chosen)'
  BY <1>2, <1>3, <1>4, <1>5
<1> QED BY <1>1, <1>3, <1>4, <1>8, <1>9, RawPage

\* Of a turn over the cap some events are read and some are not.
LEMMA TopLeaves ==
  ASSUME NEW n \in Nat, NEW S, S \subseteq 0..n, NEW k \in Nat \ {0}, Cardinality(S) > k
  PROVE  /\ \E e \in S : e \notin Top(S, k)
         /\ \E e \in S : e \in Top(S, k)
<1>1. \E e \in S : e \notin Top(S, k)
  <2> SUFFICES ASSUME \A e \in S : e \in Top(S, k) PROVE FALSE
    OBVIOUS
  <2>1. Top(S, k) = S
    BY DEF Top
  <2>2. Cardinality(S) <= k
    BY <2>1, TopBounded
  <2>3. Cardinality(S) \in Nat
    BY BoundedFinite
  <2> QED BY <2>2, <2>3
<1>2. \E e \in S : e \in Top(S, k)
  <2>1. S # {}
    BY FS_EmptySet
  <2>2. PICK m \in S : \A f \in S : f <= m
    BY <2>1, GreatestExists
  <2>3. Above(S, m) = {}
    <3>1. \A f \in S : ~(f > m)
      BY <2>2
    <3> QED BY <3>1 DEF Above
  <2>4. Cardinality(Above(S, m)) < k
    BY <2>3, FS_EmptySet
  <2> QED BY <2>4 DEF Top
<1> QED BY <1>1, <1>2

\* The oldest turn not read yet is read whole, or is the only one and over the cap.
LEMMA ReadEventsPage ==
  ASSUME LogType, WalkInv, RawInv, PageInv, ReadEvents
  PROVE  PageInv'
<1> DEFINE t == Oldest(Unread)
           all == Rows(log, Len(log), {t})
           over == Count(log, ask, {t}) > Cap
           read == IF over THEN {e \in all : Cardinality({f \in all : f > e}) < Cap} ELSE all
<1>1. /\ rows' = rows \cup read /\ ask' = [ask EXCEPT !.more = @ \/ over]
      /\ pc = "read" /\ pc' = "read" /\ log' = log /\ Unread # {}
  BY DEF ReadEvents, PageStep
<1>2. /\ ask \in Asks /\ ask.chosen <= Len(log) /\ TurnsFit /\ ToldOfEvents /\ ask.raw /\ rows \subseteq DOMAIN log
      /\ ask.turns \subseteq TurnsIn(ask.chosen) /\ Len(log) \in Nat /\ DOMAIN log = 1..Len(log)
  BY <1>1 DEF WalkInv, WalkType, RawInv, PageInv, Told, LogType
<1>3. /\ ask'.turns = ask.turns /\ ask'.chosen = ask.chosen /\ (ask'.more <=> ask.more \/ over)
      /\ ask'.bound = ask.bound /\ ask'.began = ask.began /\ ask'.raw = ask.raw
  <2> HIDE DEF over
  <2> QED BY <1>1, <1>2 DEF Asks
<1>4. t \in Unread /\ t \in ask.turns /\ \A u \in Unread : t <= u
  <2>1. Unread \subseteq Nat
    BY <1>2 DEF Unread, Asks, Seqs
  <2>2. Oldest(Unread) \in Unread /\ \A u \in Unread : Oldest(Unread) <= u
    BY <1>1, <2>1, LeastExists DEF Oldest
  <2> QED BY <2>2 DEF Unread
<1>5. /\ all \subseteq DOMAIN log /\ all \subseteq 0..Len(log) /\ (\A e \in all : log[e].turn = t)
      /\ (\A e \in DOMAIN log : log[e].turn = t => e \in all) /\ read \subseteq all
  BY <1>2 DEF Rows
<1>6. \A e \in rows : log[e].turn < t /\ log[e].turn \in ask.turns
  BY <1>2, <1>4 DEF Unread, ToldOfEvents
<1>7. ask.turns \subseteq Nat /\ t \in Nat
  BY <1>2, <1>4 DEF Asks, Seqs
<1>8. \A e \in rows' : log'[e].turn \in ask'.turns
  <2> HIDE DEF t, all, read
  <2> QED BY <1>1, <1>3, <1>4, <1>5, <1>6
<1>9. TurnsIn(ask.chosen)' = TurnsIn(ask.chosen)
  BY <1>1, <1>3 DEF TurnsIn
<1>10. ASSUME over PROVE \E e \in DOMAIN log' \ rows' : Rest(e)'
  <2>1. ask.turns = {t}
    <3>1. {t} \in SUBSET ask.turns
      BY <1>4
    <3>2. /\ Count(log, ask, {t}) \in Nat /\ Count(log, ask, ask.turns) \in Nat
          /\ Count(log, ask, {t}) <= Count(log, ask, ask.turns)
      BY <1>2, <3>1, CountIs
    <3>3. ~(Count(log, ask, ask.turns) <= Cap)
      BY <1>10, <3>2, BoundsAssumption
    <3>4. PICK u \in Seqs : ask.turns = {u}
      BY <1>2, <3>3 DEF TurnsFit
    <3> HIDE DEF t
    <3> QED BY <1>4, <3>4
  <2>2. rows = {}
    <3> HIDE DEF t
    <3> QED BY <1>6, <1>7, <2>1
  <2>3. rows' = Top(all, Cap)
    BY <1>1, <1>10, <2>2 DEF Top, Above
  <2>4. Cardinality(all) > Cap
    <3>1. Rows(log, ask.chosen, {t}) \in SUBSET all
      BY <1>2 DEF Rows, Asks
    <3> DEFINE counted == Rows(log, ask.chosen, {t})
    <3>2. IsFiniteSet(all) /\ Cardinality(all) \in Nat
      <4> HIDE DEF all
      <4> QED BY <1>2, <1>5, BoundedFinite
    <3>3. Cardinality(counted) > Cap
      BY <1>10 DEF Count
    <3> HIDE DEF all, counted
    <3>4. Cardinality(counted) \in Nat /\ Cardinality(counted) <= Cardinality(all)
      BY <3>1, <3>2, FS_Subset, FS_CardinalityType DEF counted
    <3> QED BY <3>2, <3>3, <3>4, BoundsAssumption
  <2> HIDE DEF all
  <2>5. (\E e \in all : e \notin Top(all, Cap)) /\ (\E e \in all : e \in Top(all, Cap))
    BY <1>2, <1>5, <2>4, TopLeaves, BoundsAssumption
  <2>6. PICK e \in all, f \in all : e \notin rows' /\ f \in rows'
    BY <2>3, <2>5
  <2>7. e \in DOMAIN log' \ rows' /\ log'[e].turn = t /\ log'[f].turn = t
    <3> HIDE DEF t
    <3> QED BY <1>1, <1>5, <2>6
  <2>8. Rest(e)'
    <3> HIDE DEF t
    <3> QED BY <1>3, <2>1, <2>6, <2>7 DEF Rest
  <2> QED BY <2>7, <2>8
<1>11. ASSUME ask.more PROVE \E e \in DOMAIN log' \ rows' : Older(e)'
  <2>1. PICK e \in DOMAIN log \ rows : Older(e) \/ Rest(e)
    BY <1>2, <1>11 DEF ToldOfEvents
  <2>2. ~Rest(e)
    <3> HIDE DEF t
    <3> QED BY <1>4, <1>6, <1>7 DEF Rest
  <2>3. Older(e)'
    BY <1>1, <1>3, <2>1, <2>2 DEF Older
  <2>4. e \notin rows'
    <3> SUFFICES ASSUME e \in rows' PROVE FALSE
      OBVIOUS
    <3>1. log[e].turn \in ask.turns
      BY <1>1, <1>3, <1>8
    <3>2. log[e].turn < log[e].turn /\ log[e].turn \in Nat
      BY <1>7, <2>1, <2>2, <3>1 DEF Older
    <3> QED BY <3>2
  <2> QED BY <1>1, <2>1, <2>3, <2>4
<1>12. ASSUME ~ask.more, ~over
       PROVE  /\ TurnsIn(ask.chosen) \subseteq ask.turns
              /\ \A u \in ask.turns \ Unread' : Rows(log, ask.chosen, {u}) \subseteq rows'
  <2>1. /\ TurnsIn(ask.chosen) \subseteq ask.turns
        /\ \A u \in ask.turns \ Unread : Rows(log, ask.chosen, {u}) \subseteq rows
    BY <1>2, <1>12 DEF ToldOfEvents
  <2>2. rows' = rows \cup all
    BY <1>1, <1>12
  <2>3. ASSUME NEW u \in ask.turns, u \notin Unread' PROVE Rows(log, ask.chosen, {u}) \subseteq rows'
    <3>1. CASE u \notin Unread
      BY <2>1, <2>2, <3>1
    <3>2. CASE u = t
      <4>1. Rows(log, ask.chosen, {t}) \subseteq all
        BY <1>2 DEF Rows, Asks
      <4> QED BY <2>2, <3>2, <4>1
    <3>3. CASE u \in Unread /\ u # t
      <4>1. u \in Nat /\ t < u
        BY <1>4, <1>7, <3>3
      <4>2. \A e \in rows : log[e].turn < u
        BY <3>3 DEF Unread
      <4>3. u \in Unread'
        <5> HIDE DEF t, all
        <5> QED BY <1>1, <1>3, <1>5, <2>2, <4>1, <4>2 DEF Unread
      <4> QED BY <2>3, <4>3
    <3> QED BY <3>1, <3>2, <3>3
  <2> QED BY <2>1, <2>3
<1> HIDE DEF t, all, read, over
<1>13. ToldOfEvents'
  <2>1. CASE ask'.more
    BY <1>3, <1>8, <1>10, <1>11, <2>1 DEF ToldOfEvents
  <2>2. CASE ~ask'.more
    BY <1>1, <1>3, <1>8, <1>9, <1>12, <2>2 DEF ToldOfEvents
  <2> QED BY <2>1, <2>2
<1>14. ask'.turns \subseteq TurnsIn(ask.chosen)'
  BY <1>2, <1>3, <1>9
<1> QED BY <1>1, <1>2, <1>3, <1>13, <1>14, RawPage
LEMMA PagePageNext ==
  ASSUME LogType, Grows, WalkInv, RawInv, PageInv, Page
  PROVE  PageInv'
<1>1. ask.began \in Nat /\ ask.began <= Len(log) /\ Len(log) \in Nat /\ Len(log') \in Nat /\ Len(log) <= Len(log')
  BY GrowsKeeps DEF PageInv, WalkInv, WalkType, Asks
<1>2. ASSUME NEW raw \in BOOLEAN, NEW limit \in Limits, NEW before \in Ids, AskPage(raw, limit, before)
      PROVE  PageInv'
  <2>1. ask'.began = Len(log) /\ pc' = "bound"
    BY <1>2 DEF AskPage, NoAsk
  <2> QED BY <1>1, <2>1, NotYet
<1>3. ASSUME NEW e \in Seqs, AskOlder(e) PROVE PageInv'
  <2>1. ask'.began = Len(log) /\ pc' = "bound"
    BY <1>3 DEF AskOlder, NoAsk
  <2> QED BY <1>1, <2>1, NotYet
<1>4. CASE FindBound \/ FindBelow
  <2>1. ask'.began = ask.began /\ ask'.turns = ask.turns
    BY <1>4 DEF FindBound, FindBelow, Bounded, WalkInv, WalkType, Asks
  <2>2. ask.turns = {}
    BY <1>4 DEF FindBound, FindBelow, PageStep, WalkInv, AtBound
  <2>3. pc' \in {"start", "below", "page"}
    BY <1>4 DEF FindBound, FindBelow, Bounded
  <2>4. pc' \notin {"count", "plain", "rows", "more", "trim", "read", "page"} \/ (pc' = "page" /\ ask'.turns = {})
    BY <2>1, <2>2, <2>3
  <2> QED BY <1>1, <2>1, <2>4, NotYet
<1>5. CASE RawDone
  <2>1. pc = "read" /\ pc' = "page" /\ UNCHANGED <<log, ask, rows>> /\ Unread = {}
    BY <1>5 DEF RawDone, PageStep
  <2>2. ask.raw /\ ToldOfEvents /\ ask.turns \subseteq TurnsIn(ask.chosen)
    BY <2>1 DEF PageInv, Told
  <2>3. Unread' = Unread /\ TurnsIn(ask.chosen)' = TurnsIn(ask.chosen)
    BY <2>1 DEF Unread, TurnsIn
  <2>4. ToldOfEvents'
    BY <2>1, <2>2, <2>3 DEF ToldOfEvents, Older, Rest
  <2> QED BY <2>1, <2>2, <2>3, <2>4, RawPage
<1>6. CASE PageLeft
  <2>1. ask'.began = 0 /\ pc' = "idle"
    BY <1>6 DEF PageLeft, NoAsk
  <2> QED BY <1>1, <2>1, NotYet
<1> QED BY <1>2, <1>3, <1>4, <1>5, <1>6, FindStartPage, CountPage, PlainPage, ReadTurnsPage, FindMorePage,
       TrimPage, ReadEventsPage DEF Page

LEMMA PageInvNext ==
  ASSUME LogType, LogType', Grows, WalkInv, RawInv, PageInv, [Next]_vars
  PROVE  PageInv'
<1>1. ASSUME UNCHANGED <<pc, ask, rows>> PROVE PageInv'
  BY <1>1, PageGrows
<1>2. ASSUME pc' \in Away, UNCHANGED ask PROVE PageInv'
  <2>1. ask.began \in Nat /\ ask.began <= Len(log')
    BY GrowsKeeps DEF PageInv, WalkInv, WalkType, Asks
  <2> QED BY <1>2, <2>1, NotYet DEF Away
<1>3. CASE TurnState
  BY <1>2, <1>3 DEF TurnState, AskFirst, AskSecond, StateLeft, StateStep, Away
<1>4. CASE Push
  <2>1. CASE Send
    BY <1>2, <2>1 DEF Send, Away
  <2> QED BY <1>1, <1>4, <2>1 DEF Push, PushStep, StoreFails, Project, Created, GiveUp, StrayFails, StorePushed, StrayStores
<1>5. ASSUME NEW ev \in Event, Arrive(ev) PROVE PageInv'
  BY <1>1, <1>5 DEF Arrive
<1>6. ASSUME NEW types \in SUBSET Types \ {{}}, Poll(types) PROVE PageInv'
  BY <1>2, <1>6 DEF Poll, Away
<1>7. CASE PollLeft
  BY <1>2, <1>7 DEF PollLeft, Away
<1>8. CASE UNCHANGED vars
  BY <1>1, <1>8 DEF vars
<1> QED BY <1>3, <1>4, <1>5, <1>6, <1>7, <1>8, PagePageNext DEF Next

LEMMA PageInit == Init => PageInv
BY DEF Init, NoAsk, PageInv, AtCount, AtPlain, AtStart, AtHolding, Told

\* A page has as many of the prompt turns there were when it was asked for as the
\* limit says, and as many plain turns if there are none, though its queries are of
\* four moments (TurnWindow, turn_index.go:531).
THEOREM PagesHoldLimit == Spec => []PageHoldsLimit
<1>1. PageInv => PageHoldsLimit
  BY DEF PageInv, AtHolding, Holding, PageHoldsLimit, PromptsIn
<1> QED BY <1>1, LogInit, LogNext, WalkInit, WalkNext, PageInit, PageInvNext, PTL DEF Spec

LEMMA ToldIsTrue ==
  ASSUME LogType, WalkInv, RawInv, PageInv
  PROVE  MoreTruthful
<1> DEFINE older == {t \in Seqs : t <= Oldest(ask.turns)}
           range(n) == InRange(Turns(log, n), ask.bound)
           absent(n) == IF ask.raw THEN Rows(log, n, range(n)) \ rows ELSE Rows(log, n, range(n) \ ask.turns)
<1> SUFFICES ASSUME pc = "page", ask.turns # {}
             PROVE  IF ask.more THEN \E e \in absent(Len(log)) : log[e].turn \in older
                    ELSE absent(ask.chosen) = {}
  BY DEF MoreTruthful
<1>1. /\ ask.turns \subseteq Nat /\ ask.chosen \in 0..Len(log) /\ Len(log) \in Nat /\ DOMAIN log = 1..Len(log)
      /\ ask.raw \in BOOLEAN /\ ask.more \in BOOLEAN /\ rows \subseteq DOMAIN log
  BY TurnsNat DEF WalkInv, WalkType, RawInv, Asks, LogType
<1>2. IF ask.raw THEN ToldOfEvents /\ Unread = {} ELSE ToldOfTurns
  BY DEF PageInv, Told
<1>3. Oldest(ask.turns) \in ask.turns /\ \A u \in ask.turns : Oldest(ask.turns) <= u
  BY <1>1, LeastExists DEF Oldest
<1>4. ASSUME NEW e \in DOMAIN log, Older(e) \/ Rest(e)
      PROVE  log[e].turn \in older /\ e \in Rows(log, Len(log), range(Len(log)))
  <2>1. log[e].turn \in Seqs /\ log[e].turn \in Nat
    <3>1. log[e] \in Event
      BY DEF LogType
    <3> QED BY <3>1 DEF Event, Seqs
  <2>2. log[e].turn <= Oldest(ask.turns)
    BY <1>1, <1>3, <1>4, <2>1 DEF Older, Rest
  <2>3. ask.bound = 0 \/ log[e].turn < ask.bound
    <3>1. CASE Older(e)
      BY <3>1 DEF Older
    <3>2. CASE Rest(e)
      <4>1. ask.turns \subseteq TurnsIn(ask.chosen)
        BY DEF PageInv, Told
      <4> QED BY <3>2, <4>1 DEF Rest, TurnsIn, InRange
    <3> QED BY <1>4, <3>1, <3>2
  <2> QED BY <1>1, <2>1, <2>2, <2>3 DEF Rows, InRange, Turns
<1>5. CASE ask.more
  <2>1. CASE ask.raw
    <3>1. PICK e \in DOMAIN log \ rows : Older(e) \/ Rest(e)
      BY <1>2, <1>5, <2>1 DEF ToldOfEvents
    <3>2. e \in absent(Len(log)) /\ log[e].turn \in older
      BY <1>4, <2>1, <3>1
    <3> HIDE DEF absent, older
    <3> QED BY <1>5, <3>2
  <2>2. CASE ~ask.raw
    <3>1. PICK e \in DOMAIN log : Older(e)
      BY <1>2, <1>5, <2>2 DEF ToldOfTurns
    <3>2. e \in Rows(log, Len(log), range(Len(log))) /\ log[e].turn \in older
      BY <1>4, <3>1
    <3>3. log[e].turn \notin ask.turns
      <4>1. log[e].turn \in Nat
        <5>1. log[e] \in Event
          BY DEF LogType
        <5> QED BY <5>1 DEF Event, Seqs
      <4> QED BY <3>1, <4>1 DEF Older
    <3>4. e \in absent(Len(log))
      BY <2>2, <3>2, <3>3 DEF Rows
    <3> HIDE DEF absent, older
    <3> QED BY <1>5, <3>2, <3>4
  <2> QED BY <1>1, <2>1, <2>2
<1>6. CASE ~ask.more
  <2>1. range(ask.chosen) \subseteq ask.turns
    BY <1>2, <1>6 DEF ToldOfEvents, ToldOfTurns, TurnsIn
  <2>2. CASE ask.raw
    <3>1. \A t \in ask.turns : Rows(log, ask.chosen, {t}) \subseteq rows
      BY <1>2, <1>6, <2>2 DEF ToldOfEvents
    <3>2. \A e \in Rows(log, ask.chosen, range(ask.chosen)) : e \in rows
      BY <2>1, <3>1 DEF Rows
    <3> QED BY <1>6, <2>2, <3>2
  <2>3. CASE ~ask.raw
    <3>1. range(ask.chosen) \ ask.turns = {}
      <4> HIDE DEF range
      <4> QED BY <2>1
    <3>2. Rows(log, ask.chosen, range(ask.chosen) \ ask.turns) = {}
      <4> HIDE DEF range
      <4> QED BY <3>1 DEF Rows
    <3> QED BY <1>6, <2>3, <3>2
  <2> QED BY <1>1, <2>2, <2>3
<1> QED BY <1>1, <1>5, <1>6

\* A page says there is more exactly when something older in its range was left out:
\* turns below its start, turns over the cap, or events of a turn that is over it
\* alone (TurnWindow, and materializeTail, server.go:214).
THEOREM PagesTellMore == Spec => []MoreTruthful
BY ToldIsTrue, LogInit, LogNext, WalkInit, WalkNext, PageInit, PageInvNext, PTL DEF Spec

-----------------------------------------------------------------------------
(***************************************************************************)
(* Where a raw page is cut.                                                *)
(***************************************************************************)
Left == Window \ ask.turns
LeftOut ==
  /\ \A t \in Left, u \in ask.turns : t < u
  /\ Left # {} => Count(log, ask, {Newest(Left)} \cup ask.turns) > Cap
Whole == \A t \in ask.turns \ Unread : ask.turns = {t} \/ Rows(log, ask.chosen, {t}) \subseteq rows
CutInv ==
  /\ pc \in {"more", "trim"} => ask.turns = Window
  /\ pc = "read" \/ (pc = "page" /\ ask.raw /\ ask.turns # {}) => LeftOut /\ Whole

LEMMA CutGrows ==
  ASSUME LogType, Grows, WalkInv, RawInv, CutInv, UNCHANGED <<pc, ask, rows>>
  PROVE  CutInv'
<1>1. ask.chosen \in 0..Len(log)
  BY GrowsKeeps DEF RawInv, WalkInv, WalkType, Asks
<1>2. Window' = Window
  BY <1>1, TurnsPrefix DEF Window
<1>3. \A S : Rows(log', ask.chosen, S) = Rows(log, ask.chosen, S)
  <2>1. \A e \in 1..ask.chosen : log'[e] = log[e]
    BY <1>1, GrowsKeeps
  <2> QED BY <2>1 DEF Rows
<1>4. \A S : Count(log', ask', S) = Count(log, ask, S)
  BY <1>3 DEF Count
<1>5. Unread' = Unread
  <2>1. \A e \in rows : log'[e] = log[e]
    BY GrowsKeeps DEF RawInv
  <2> QED BY <2>1 DEF Unread
<1>6. Left' = Left
  BY <1>2 DEF Left
<1>7. (LeftOut => LeftOut') /\ (Whole => Whole')
  BY <1>3, <1>4, <1>5, <1>6 DEF LeftOut, Whole
<1> QED BY <1>2, <1>7 DEF CutInv

\* The oldest turns that do not fit are left out, and the newest of those would not.
LEMMA TrimCut ==
  ASSUME LogType, WalkInv, RawInv, CutInv, Trim
  PROVE  CutInv'
<1> DEFINE kept == Fitting(log, ask)
<1>1. /\ ask' = [ask EXCEPT !.turns = kept, !.more = @ \/ kept # ask.turns]
      /\ pc = "trim" /\ pc' = "read" /\ UNCHANGED <<log, rows>>
  BY DEF Trim, PageStep
<1>2. /\ ask \in Asks /\ ask.chosen <= Len(log) /\ rows = {} /\ ask.turns = Window
      /\ ask.turns \subseteq 0..MaxEvents /\ ask.turns \subseteq Nat /\ MaxEvents \in Nat
  BY <1>1, BoundsAssumption DEF WalkInv, WalkType, RawInv, CutInv, Asks, Seqs
<1>3. /\ kept \subseteq ask.turns /\ \A t \in ask.turns \ kept, u \in kept : t < u
  BY <1>2, FittingIs
<1>4. /\ ask'.turns = kept /\ ask'.chosen = ask.chosen /\ ask'.bound = ask.bound /\ ask'.start = ask.start
  <2> HIDE DEF kept
  <2> QED BY <1>1, <1>2, <1>3 DEF Asks
<1>5. Left' = ask.turns \ kept
  <2> HIDE DEF kept
  <2>1. Window' = Window
    BY <1>1, <1>4 DEF Window
  <2> QED BY <1>2, <1>4, <2>1 DEF Left
<1>6. ASSUME ask.turns \ kept # {}
      PROVE  Count(log, ask, {Newest(ask.turns \ kept)} \cup kept) > Cap
  <2> DEFINE out == ask.turns \ kept
             n == Newest(out)
  <2>1. n \in out /\ \A u \in out : u <= n
    <3>1. out \subseteq 0..MaxEvents /\ out # {}
      BY <1>2, <1>6
    <3> HIDE DEF out
    <3> QED BY <1>2, <3>1, NewestIs
  <2>2. ~(Count(log, ask, From(ask, n)) <= Cap)
    <3> HIDE DEF n
    <3> QED BY <2>1 DEF Fitting
  <2>3. From(ask, n) \in SUBSET ({n} \cup kept)
    <3> HIDE DEF n, kept
    <3>1. \A u \in ask.turns : u >= n => u = n \/ u \in kept
      BY <1>2, <2>1
    <3> QED BY <3>1 DEF From
  <2> HIDE DEF n, kept, out
  <2>4. /\ Count(log, ask, From(ask, n)) \in Nat /\ Count(log, ask, {n} \cup kept) \in Nat
        /\ Count(log, ask, From(ask, n)) <= Count(log, ask, {n} \cup kept)
    BY <1>2, <2>3, CountIs
  <2>5. Count(log, ask, {n} \cup kept) > Cap
    BY <2>2, <2>4, BoundsAssumption
  <2> QED BY <2>5 DEF n, out
<1> HIDE DEF kept
<1>7. \A S : Count(log', ask', S) = Count(log, ask, S)
  BY <1>1, <1>4 DEF Count
<1>8. LeftOut'
  BY <1>3, <1>4, <1>5, <1>6, <1>7 DEF LeftOut
<1>9. Unread' = ask'.turns
  BY <1>1, <1>2 DEF Unread
<1> QED BY <1>1, <1>8, <1>9 DEF CutInv, Whole

LEMMA ReadCut ==
  ASSUME LogType, WalkInv, RawInv, CutInv, ReadEvents
  PROVE  CutInv'
<1> DEFINE t == Oldest(Unread)
           all == Rows(log, Len(log), {t})
           over == Count(log, ask, {t}) > Cap
           read == IF over THEN {e \in all : Cardinality({f \in all : f > e}) < Cap} ELSE all
<1>1. /\ rows' = rows \cup read /\ ask' = [ask EXCEPT !.more = @ \/ over]
      /\ pc = "read" /\ pc' = "read" /\ log' = log /\ Unread # {}
  BY DEF ReadEvents, PageStep
<1>2. ask \in Asks /\ ask.chosen <= Len(log) /\ TurnsFit /\ LeftOut /\ Whole /\ Len(log) \in Nat
  BY <1>1 DEF WalkInv, WalkType, RawInv, CutInv, LogType
<1>3. /\ ask'.turns = ask.turns /\ ask'.chosen = ask.chosen
      /\ ask'.bound = ask.bound /\ ask'.start = ask.start
  <2> HIDE DEF over
  <2> QED BY <1>1, <1>2 DEF Asks
<1>4. t \in Unread /\ t \in ask.turns /\ \A u \in Unread : t <= u
  <2>1. Unread \subseteq Nat
    BY <1>2 DEF Unread, Asks, Seqs
  <2>2. Oldest(Unread) \in Unread /\ \A u \in Unread : Oldest(Unread) <= u
    BY <1>1, <2>1, LeastExists DEF Oldest
  <2> QED BY <2>2 DEF Unread
<1>5. /\ Rows(log, ask.chosen, {t}) \subseteq all /\ read \subseteq all
      /\ \A e \in all : log[e].turn = t
  BY <1>2 DEF Rows, Asks
<1>6. over => ask.turns = {t}
  <2> SUFFICES ASSUME over PROVE ask.turns = {t}
    OBVIOUS
  <2>1. {t} \in SUBSET ask.turns
    BY <1>4
  <2>2. /\ Count(log, ask, {t}) \in Nat /\ Count(log, ask, ask.turns) \in Nat
        /\ Count(log, ask, {t}) <= Count(log, ask, ask.turns)
    BY <1>2, <2>1, CountIs
  <2>3. ~(Count(log, ask, ask.turns) <= Cap)
    BY <2>2, BoundsAssumption
  <2>4. PICK u \in Seqs : ask.turns = {u}
    BY <1>2, <2>3 DEF TurnsFit
  <2> HIDE DEF t
  <2> QED BY <1>4, <2>4
<1>7. Whole'
  <2> SUFFICES ASSUME NEW u \in ask.turns, u \notin Unread'
               PROVE  ask.turns = {u} \/ Rows(log, ask.chosen, {u}) \subseteq rows'
    BY <1>1, <1>3 DEF Whole
  <2>1. CASE u \notin Unread
    <3> HIDE DEF read
    <3> QED BY <1>1, <1>2, <2>1 DEF Whole
  <2>2. CASE u = t
    <3>1. CASE over
      BY <1>6, <2>2, <3>1
    <3>2. CASE ~over
      BY <1>1, <1>5, <2>2, <3>2
    <3> QED BY <3>1, <3>2
  <2>3. CASE u \in Unread /\ u # t
    <3>1. u \in Nat /\ t \in Nat /\ t < u
      BY <1>2, <1>4, <2>3 DEF Asks, Seqs
    <3>2. \A e \in rows : log[e].turn < u
      BY <2>3 DEF Unread
    <3>3. u \in Unread'
      <4> HIDE DEF t, all, read
      <4> QED BY <1>1, <1>3, <1>5, <3>1, <3>2 DEF Unread
    <3> QED BY <2>3, <3>3
  <2> QED BY <2>1, <2>2, <2>3
<1> HIDE DEF t, all, over, read
<1>8. Left' = Left
  BY <1>1, <1>3 DEF Left, Window
<1>9. \A S : Count(log', ask', S) = Count(log, ask, S)
  BY <1>1, <1>3 DEF Count
<1>10. LeftOut'
  BY <1>2, <1>3, <1>8, <1>9 DEF LeftOut
<1> QED BY <1>1, <1>7, <1>10 DEF CutInv

LEMMA CutNext ==
  ASSUME LogType, Grows, WalkInv, RawInv, CutInv, [Next]_vars
  PROVE  CutInv'
<1>1. ASSUME UNCHANGED <<pc, ask, rows>> PROVE CutInv'
  BY <1>1, CutGrows
<1>2. ASSUME pc' \notin {"more", "trim", "read", "page"} PROVE CutInv'
  BY <1>2 DEF CutInv
<1>3. CASE Page
  <2>1. CASE FindBelow
    <3>1. pc' \in {"start", "page"} /\ (pc' = "page" => ask' = ask) /\ ask.turns = {}
      BY <2>1 DEF FindBelow, Bounded, PageStep, WalkInv, AtBound
    <3> QED BY <3>1 DEF CutInv
  <2>2. CASE ReadTurns
    <3>1. /\ ask' = [ask EXCEPT !.turns = {t \in InRange(Turns(log, Len(log)), ask.bound) : t >= ask.start},
                              !.chosen = Len(log)]
          /\ pc' = "more" /\ log' = log /\ ask \in Asks
      BY <2>2 DEF ReadTurns, PageStep, WalkInv, WalkType
    <3>2. /\ ask'.turns = {t \in InRange(Turns(log, Len(log)), ask.bound) : t >= ask.start}
          /\ ask'.chosen = Len(log) /\ ask'.bound = ask.bound /\ ask'.start = ask.start
      BY <3>1 DEF Asks
    <3>3. ask'.turns = Window'
      BY <3>1, <3>2 DEF Window
    <3> QED BY <3>1, <3>3 DEF CutInv
  <2>3. CASE FindMore
    <3>1. /\ ask' = [ask EXCEPT !.more = MoreBelow(log, ask)] /\ pc = "more" /\ log' = log /\ ask \in Asks
          /\ IF ask.raw THEN pc' = "trim" ELSE pc' = "page"
      BY <2>3 DEF FindMore, PageStep, WalkInv, WalkType
    <3>2. /\ ask'.turns = ask.turns /\ ask'.chosen = ask.chosen /\ ask'.bound = ask.bound
          /\ ask'.start = ask.start /\ ask'.raw = ask.raw
      BY <3>1 DEF Asks
    <3>3. Window' = Window
      BY <3>1, <3>2 DEF Window
    <3> QED BY <3>1, <3>2, <3>3 DEF CutInv
  <2>4. CASE RawDone
    <3>1. pc = "read" /\ pc' = "page" /\ UNCHANGED <<log, ask, rows>>
      BY <2>4 DEF RawDone, PageStep
    <3>2. LeftOut /\ Whole
      BY <3>1 DEF CutInv
    <3>3. LeftOut' /\ Whole'
      BY <3>1, <3>2 DEF LeftOut, Left, Window, Whole, Unread
    <3> QED BY <3>1, <3>3 DEF CutInv
  <2>5. ASSUME NEW raw \in BOOLEAN, NEW limit \in Limits, NEW before \in Ids, AskPage(raw, limit, before)
        PROVE  CutInv'
    BY <1>2, <2>5 DEF AskPage
  <2>6. ASSUME NEW e \in Seqs, AskOlder(e) PROVE CutInv'
    BY <1>2, <2>6 DEF AskOlder
  <2>7. CASE FindBound
    <3>1. pc' \in {"start", "below"}
      BY <2>7 DEF FindBound, Bounded
    <3> QED BY <1>2, <3>1
  <2>8. CASE FindStart \/ CountPrompts \/ FindPlainStart
    <3>1. pc' \in {"rows", "count", "plain"}
      BY <2>8 DEF FindStart, CountPrompts, FindPlainStart
    <3> QED BY <1>2, <3>1
  <2>9. CASE PageLeft
    BY <1>2, <2>9 DEF PageLeft
  <2> QED BY <1>3, <2>1, <2>2, <2>3, <2>4, <2>5, <2>6, <2>7, <2>8, <2>9, TrimCut, ReadCut DEF Page
<1>4. CASE TurnState
  BY <1>2, <1>4 DEF TurnState, AskFirst, AskSecond, StateLeft, StateStep
<1>5. CASE Push
  <2>1. CASE Send
    BY <1>2, <2>1 DEF Send
  <2> QED BY <1>1, <1>5, <2>1 DEF Push, PushStep, StoreFails, Project, Created, GiveUp, StrayFails, StorePushed, StrayStores
<1>6. ASSUME NEW ev \in Event, Arrive(ev) PROVE CutInv'
  BY <1>1, <1>6 DEF Arrive
<1>7. ASSUME NEW types \in SUBSET Types \ {{}}, Poll(types) PROVE CutInv'
  BY <1>2, <1>7 DEF Poll
<1>8. CASE PollLeft
  BY <1>2, <1>8 DEF PollLeft
<1>9. CASE UNCHANGED vars
  BY <1>1, <1>9 DEF vars
<1> QED BY <1>3, <1>4, <1>5, <1>6, <1>7, <1>8, <1>9 DEF Next

\* Of the events counted a raw page holds at most the cap, for any cap.
LEMMA CountedWithinCap ==
  ASSUME LogType, WalkInv, RawInv
  PROVE  Cardinality({e \in rows : e <= ask.chosen}) <= Cap
<1> DEFINE held == {e \in rows : e <= ask.chosen}
<1>1. Len(log) \in Nat /\ rows \subseteq 0..Len(log) /\ ask \in Asks /\ ask.chosen <= Len(log)
  BY DEF LogType, RawInv, WalkInv, WalkType
<1>2. IsFiniteSet(rows) /\ Cardinality(rows) \in Nat
  BY <1>1, BoundedFinite
<1>3. held \in SUBSET rows /\ Cardinality(held) <= Cardinality(rows) /\ Cardinality(held) \in Nat
  BY <1>2, FS_Subset, FS_CardinalityType
<1>4. CASE rows = {} \/ Cardinality(rows) <= Cap
  <2>1. Cardinality(rows) <= Cap
    BY <1>4, FS_EmptySet, BoundsAssumption
  <2> HIDE DEF held
  <2>2. Cardinality(held) <= Cap
    BY <1>2, <1>3, <2>1, BoundsAssumption
  <2> QED BY <2>2 DEF held
<1>5. CASE (\A e \in rows : log[e].turn \in ask.turns) /\ Count(log, ask, ask.turns) <= Cap
  <2>1. held \in SUBSET Rows(log, ask.chosen, ask.turns)
    <3>1. \A e \in rows : e \in 1..Len(log)
      BY DEF RawInv, LogType
    <3>2. ask.chosen \in Nat
      BY <1>1 DEF Asks
    <3> SUFFICES ASSUME NEW e \in rows, e <= ask.chosen
                 PROVE  e \in 1..ask.chosen /\ log[e].turn \in ask.turns
      BY DEF Rows
    <3> QED BY <1>5, <3>1, <3>2
  <2>2. ask.chosen \in Nat /\ Rows(log, ask.chosen, ask.turns) \subseteq 0..ask.chosen
    BY <1>1 DEF Rows, Asks
  <2>3. /\ IsFiniteSet(Rows(log, ask.chosen, ask.turns))
        /\ Cardinality(Rows(log, ask.chosen, ask.turns)) \in Nat
    BY <2>2, BoundedFinite
  <2> HIDE DEF held
  <2>4. Cardinality(held) <= Cardinality(Rows(log, ask.chosen, ask.turns))
    BY <2>1, <2>3, FS_Subset
  <2>5. Cardinality(held) <= Cap
    BY <1>3, <1>5, <2>3, <2>4, BoundsAssumption DEF Count
  <2> QED BY <2>5 DEF held
<1>6. rows = {} \/ RowsFit
  BY DEF RawInv
<1> QED BY <1>4, <1>5, <1>6 DEF RowsFit

\* A raw page leaves out the oldest turns, none of them needlessly, and holds at most
\* its cap of the events there were when its turns were counted, for any cap and
\* though the turns are read one by one later (materializeTail, server.go:214).
THEOREM RawPagesAreCut == Spec => []CutAtCap
<1>1. ASSUME LogType, WalkInv, RawInv, PageInv, CutInv PROVE CutAtCap
  <2> SUFFICES ASSUME pc = "page", ask.raw, ask.turns # {}
               PROVE  /\ Cardinality({e \in rows : e <= ask.chosen}) <= Cap
                      /\ \A t \in Left, u \in ask.turns : t < u
                      /\ Left # {} => Count(log, ask, {Newest(Left)} \cup ask.turns) > Cap
                      /\ \A t \in ask.turns : ask.turns = {t} \/ Rows(log, ask.chosen, {t}) \subseteq rows
    BY DEF CutAtCap, Left
  <2>1. LeftOut /\ Whole /\ Unread = {}
    BY <1>1 DEF CutInv, PageInv, Told
  <2>2. Cardinality({e \in rows : e <= ask.chosen}) <= Cap
    BY <1>1, CountedWithinCap
  <2> QED BY <2>1, <2>2 DEF LeftOut, Whole
<1>2. Init => CutInv
  BY DEF Init, CutInv
<1> QED BY <1>1, <1>2, LogInit, LogNext, WalkInit, WalkNext, PageInit, PageInvNext, CutNext, PTL DEF Spec

-----------------------------------------------------------------------------
(***************************************************************************)
(* Types.                                                                  *)
(***************************************************************************)
\* What the invariants above leave open: the bounds of the log and of what is asked.
AskBounds ==
  /\ ask.limit \in Limits \cup {1} /\ ask.before \in Ids
  /\ ask.bound <= MaxEvents + 1 /\ ask.start \in {1} \cup 0..MaxEvents
  /\ walk.top <= MaxEvents + 1
StateBounds ==
  state \in [asked : 0..Len(log), answered : 0..Len(log), newest : [{"user_message", "result"} -> 0..Len(log)]]
BoundsInv == Len(log) <= MaxEvents /\ pc \in Steps /\ AskBounds /\ StateBounds

LEMMA LogBounded ==
  ASSUME LogType, BoundsInv, [Next]_vars
  PROVE  Len(log') <= MaxEvents
<1>1. CASE log' = log
  BY <1>1 DEF BoundsInv
<1>2. ASSUME NEW ev \in Event, Stored(ev) PROVE Len(log') <= MaxEvents
  BY <1>2, BoundsAssumption DEF Stored, LogType
<1>3. ASSUME NEW ev \in Event, Arrive(ev) \/ StorePushed(ev) \/ StrayStores(ev) PROVE Stored(ev)
  BY <1>3 DEF Arrive, StorePushed, StrayStores
<1>4. CASE Page
  BY <1>1, <1>4 DEF Page, PageStep, AskPage, AskOlder, FindBound, FindBelow, FindStart, CountPrompts,
     FindPlainStart, ReadTurns, FindMore, Trim, ReadEvents, RawDone, PageLeft
<1>5. CASE TurnState
  BY <1>1, <1>5 DEF TurnState, AskFirst, AskSecond, StateLeft, StateStep
<1>6. CASE Push
  <2>1. CASE Send \/ StoreFails \/ Project \/ Created \/ GiveUp \/ StrayFails
    BY <1>1, <2>1 DEF Send, StoreFails, Project, Created, GiveUp, StrayFails
  <2> QED BY <1>2, <1>3, <1>6, <2>1 DEF Push
<1>7. ASSUME NEW types \in SUBSET Types \ {{}}, Poll(types) PROVE Len(log') <= MaxEvents
  BY <1>1, <1>7 DEF Poll
<1>8. CASE PollLeft
  BY <1>1, <1>8 DEF PollLeft
<1>9. CASE UNCHANGED vars
  BY <1>1, <1>9 DEF vars
<1> QED BY <1>2, <1>3, <1>4, <1>5, <1>6, <1>7, <1>8, <1>9 DEF Next

LEMMA StepsAre ==
  ASSUME BoundsInv, [Next]_vars
  PROVE  pc' \in Steps
<1> USE DEF BoundsInv, Steps
<1>1. CASE Page
  BY <1>1 DEF Page, PageStep, AskPage, AskOlder, FindBound, Bounded, FindBelow, FindStart, CountPrompts,
     FindPlainStart, ReadTurns, FindMore, Trim, ReadEvents, RawDone, PageLeft
<1>2. CASE TurnState
  BY <1>2 DEF TurnState, AskFirst, AskSecond, StateLeft, StateStep
<1>3. CASE Push
  BY <1>3 DEF Push, PushStep, Send, StoreFails, Project, Created, GiveUp, StrayFails, StorePushed, StrayStores
<1>4. ASSUME NEW ev \in Event, Arrive(ev) PROVE pc' \in Steps
  BY <1>4 DEF Arrive
<1>5. ASSUME NEW types \in SUBSET Types \ {{}}, Poll(types) PROVE pc' \in Steps
  BY <1>5 DEF Poll
<1>6. CASE PollLeft
  BY <1>6 DEF PollLeft
<1>7. CASE UNCHANGED vars
  BY <1>7 DEF vars
<1> QED BY <1>1, <1>2, <1>3, <1>4, <1>5, <1>6, <1>7 DEF Next

LEMMA StateBounded ==
  ASSUME LogType, Grows, StateInv, BoundsInv, [Next]_vars
  PROVE  StateBounds'
<1>1. CASE state' = state
  <2>1. Len(log) \in Nat /\ Len(log') \in Nat /\ Len(log) <= Len(log')
    BY GrowsKeeps
  <2>2. 0..Len(log) \subseteq 0..Len(log')
    BY <2>1
  <2> QED BY <1>1, <2>2 DEF BoundsInv, StateBounds
<1>2. CASE AskFirst
  <2>1. /\ log' = log
        /\ state' = [NoState EXCEPT !.asked = Len(log),
                                    !.newest["user_message"] = NewestOf(log, Len(log), "user_message")]
    BY <1>2 DEF AskFirst, StateStep, Order
  <2>2. Len(log) \in Nat /\ NewestOf(log, Len(log), "user_message") \in 0..Len(log)
    BY NewestOfIs, GrowsKeeps
  <2>3. state' = [asked |-> Len(log), answered |-> 0,
                  newest |-> [NoState.newest EXCEPT !["user_message"] = NewestOf(log, Len(log), "user_message")]]
    BY <2>1 DEF NoState
  <2>4. NoState.newest \in [{"user_message", "result"} -> 0..Len(log)]
    BY <2>2 DEF NoState
  <2>5. [NoState.newest EXCEPT !["user_message"] = NewestOf(log, Len(log), "user_message")]
           \in [{"user_message", "result"} -> 0..Len(log)]
    BY <2>2, <2>4
  <2>6. PICK newest \in [{"user_message", "result"} -> 0..Len(log)] :
           state' = [asked |-> Len(log), answered |-> 0, newest |-> newest]
    BY <2>3, <2>5
  <2>7. Len(log) \in 0..Len(log) /\ 0 \in 0..Len(log)
    BY <2>2
  <2> QED BY <2>1, <2>6, <2>7 DEF StateBounds
<1>3. CASE AskSecond
  <2>1. /\ log' = log
        /\ state' = [state EXCEPT !.answered = Len(log),
                                  !.newest["result"] = NewestOf(log, Len(log), "result")]
    BY <1>3 DEF AskSecond, StateStep, Order
  <2>2. Len(log) \in Nat /\ NewestOf(log, Len(log), "result") \in 0..Len(log)
    BY NewestOfIs, GrowsKeeps
  <2>3. PICK newest \in [{"user_message", "result"} -> 0..Len(log)] :
           state' = [asked |-> state.asked, answered |-> Len(log), newest |-> newest]
    <3>1. state = [asked |-> state.asked, answered |-> state.answered, newest |-> state.newest]
          /\ state.newest \in [{"user_message", "result"} -> 0..Len(log)]
      BY DEF BoundsInv, StateBounds
    <3>2. state' = [asked |-> state.asked, answered |-> Len(log),
                    newest |-> [state.newest EXCEPT !["result"] = NewestOf(log, Len(log), "result")]]
      BY <2>1, <3>1
    <3> QED BY <2>2, <3>1, <3>2
  <2>4. state.asked \in 0..Len(log) /\ Len(log) \in 0..Len(log)
    BY <2>2 DEF BoundsInv, StateBounds
  <2> QED BY <2>1, <2>3, <2>4 DEF StateBounds
<1>4. CASE StateLeft
  <2>1. state' = NoState /\ Len(log') \in Nat
    BY <1>4, GrowsKeeps DEF StateLeft
  <2> QED BY <2>1 DEF StateBounds, NoState
<1>5. CASE Page
  BY <1>1, <1>5 DEF Page, PageStep, AskPage, AskOlder, FindBound, FindBelow, FindStart, CountPrompts,
     FindPlainStart, ReadTurns, FindMore, Trim, ReadEvents, RawDone, PageLeft
<1>6. CASE Push
  BY <1>1, <1>6 DEF Push, PushStep, Send, StoreFails, Project, Created, GiveUp, StrayFails, StorePushed, StrayStores
<1>7. ASSUME NEW ev \in Event, Arrive(ev) PROVE StateBounds'
  BY <1>1, <1>7 DEF Arrive
<1>8. ASSUME NEW types \in SUBSET Types \ {{}}, Poll(types) PROVE StateBounds'
  BY <1>1, <1>8 DEF Poll
<1>9. CASE PollLeft \/ UNCHANGED vars
  BY <1>1, <1>9 DEF PollLeft, vars
<1> QED BY <1>2, <1>3, <1>4, <1>5, <1>6, <1>7, <1>8, <1>9 DEF Next, TurnState

LEMMA AskBounded ==
  ASSUME LogType, WalkInv, BoundsInv, [Next]_vars
  PROVE  AskBounds'
<1> USE DEF BoundsInv
<1>1. MaxEvents \in Nat /\ ask \in Asks /\ walk \in Walks
  BY BoundsAssumption DEF WalkInv, WalkType
<1>2. CASE UNCHANGED <<ask, walk>>
  BY <1>2 DEF AskBounds
<1>3. ASSUME NEW raw \in BOOLEAN, NEW limit \in Limits, NEW before \in Ids, AskPage(raw, limit, before)
      PROVE  AskBounds'
  BY <1>1, <1>3 DEF AskPage, NoAsk, NoWalk, AskBounds
<1>4. ASSUME NEW e \in Seqs, AskOlder(e) PROVE AskBounds'
  <2>1. /\ ask'.limit = ask.limit /\ ask'.before = 2 * e /\ ask'.bound = 0 /\ ask'.start = 0 /\ walk' = walk
    BY <1>4 DEF AskOlder, NoAsk
  <2>2. 2 * e \in Ids
    BY <1>1 DEF Ids, Seqs
  <2> QED BY <1>1, <2>1, <2>2 DEF AskBounds
<1>5. ASSUME NEW bound \in 0..MaxEvents + 1, Bounded(bound) PROVE AskBounds'
  <2>1. /\ ask'.limit = ask.limit /\ ask'.before = ask.before /\ ask'.bound = bound /\ ask'.start = ask.start
        /\ walk'.top \in {bound, walk.top}
    BY <1>1, <1>5 DEF Bounded, Asks, Walks
  <2> QED BY <1>1, <2>1 DEF AskBounds
<1>6. \A e \in DOMAIN log : log[e].turn \in 1..MaxEvents
  <2>1. \A e \in DOMAIN log : log[e] \in Event
    BY DEF LogType
  <2> QED BY <2>1 DEF Event, Seqs
<1>7. CASE FindBound
  <2>1. \A e \in DOMAIN log : BoundOf(log, e) \in 0..MaxEvents + 1
    BY <1>1, <1>6 DEF BoundOf
  <2>2. 0 \in 0..MaxEvents + 1
    BY <1>1
  <2> QED BY <1>2, <1>5, <1>7, <2>1, <2>2 DEF FindBound
<1>8. CASE FindBelow
  <2> DEFINE below == {e \in DOMAIN log : 2 * e < ask.before}
  <2>1. CASE below # {}
    <3>1. Newest(below) \in below
      <4>1. below \subseteq 0..Len(log) /\ Len(log) \in Nat
        BY DEF LogType
      <4> HIDE DEF below
      <4> QED BY <2>1, <4>1, NewestIs
    <3>2. log[Newest(below)].turn + 1 \in 0..MaxEvents + 1
      BY <1>1, <1>6, <3>1
    <3>3. Bounded(log[Newest(below)].turn + 1)
      BY <1>8, <2>1 DEF FindBelow
    <3> HIDE DEF below
    <3> QED BY <1>5, <3>2, <3>3
  <2>2. CASE below = {}
    <3>1. walk' = [walk EXCEPT !.top = 1] /\ ask' = ask
      BY <1>8, <2>2 DEF FindBelow
    <3>2. walk'.top = 1
      BY <1>1, <3>1 DEF Walks
    <3> QED BY <1>1, <3>1, <3>2 DEF AskBounds
  <2> QED BY <2>1, <2>2
<1>9. ASSUME NEW start \in {1} \cup 0..MaxEvents, ask' = [ask EXCEPT !.start = start], walk' = walk PROVE AskBounds'
  <2>1. ask'.limit = ask.limit /\ ask'.before = ask.before /\ ask'.bound = ask.bound /\ ask'.start = start
    BY <1>1, <1>9 DEF Asks
  <2> QED BY <1>1, <1>9, <2>1 DEF AskBounds
<1>10. \A S \in SUBSET InRange(Turns(log, Len(log)), ask.bound) :
          HasNth(S, ask.limit) => Nth(S, ask.limit) \in {1} \cup 0..MaxEvents
  <2>1. ask.limit \in Nat \ {0} /\ Seqs \subseteq 0..MaxEvents
    BY <1>1 DEF Asks, Seqs
  <2> QED BY <2>1, RangeIs, NthIn
<1>11. CASE FindStart
  <2> DEFINE prompts == InRange(PromptTurns(log, Len(log)), ask.bound)
  <2>1. \/ UNCHANGED <<ask, walk>>
        \/ HasNth(prompts, ask.limit) /\ ask' = [ask EXCEPT !.start = Nth(prompts, ask.limit)] /\ walk' = walk
    BY <1>11 DEF FindStart, StartOf
  <2>2. prompts \in SUBSET InRange(Turns(log, Len(log)), ask.bound)
    BY RangeIs
  <2> HIDE DEF prompts
  <2>3. HasNth(prompts, ask.limit) => Nth(prompts, ask.limit) \in {1} \cup 0..MaxEvents
    BY <1>10, <2>2
  <2> QED BY <1>2, <1>9, <2>1, <2>3
<1>12. CASE CountPrompts
  BY <1>2, <1>9, <1>12 DEF CountPrompts
<1>13. CASE FindPlainStart
  <2> DEFINE range == InRange(Turns(log, Len(log)), ask.bound)
             start == IF HasNth(range, ask.limit) THEN Nth(range, ask.limit) ELSE 1
  <2>1. ask' = [ask EXCEPT !.start = start] /\ walk' = walk
    BY <1>13 DEF FindPlainStart
  <2>2. start \in {1} \cup 0..MaxEvents
    <3> HIDE DEF range
    <3> QED BY <1>10 DEF range
  <2> HIDE DEF start
  <2> QED BY <1>9, <2>1, <2>2
<1>14. ASSUME ask'.limit = ask.limit, ask'.before = ask.before, ask'.bound = ask.bound, ask'.start = ask.start,
              walk'.top = walk.top
       PROVE  AskBounds'
  BY <1>14 DEF AskBounds
<1>15. CASE ReadTurns \/ FindMore \/ Trim \/ ReadEvents \/ RawDone
  BY <1>1, <1>14, <1>15 DEF ReadTurns, FindMore, Trim, ReadEvents, RawDone, Taken, Asks, Walks
<1>16. CASE PageLeft
  BY <1>1, <1>16 DEF PageLeft, NoAsk, NoWalk, AskBounds, Ids
<1>17. CASE TurnState
  BY <1>2, <1>17 DEF TurnState, AskFirst, AskSecond, StateLeft, StateStep
<1>18. CASE Push
  BY <1>2, <1>18 DEF Push, PushStep, Send, StoreFails, Project, Created, GiveUp, StrayFails, StorePushed, StrayStores
<1>19. ASSUME NEW ev \in Event, Arrive(ev) PROVE AskBounds'
  BY <1>2, <1>19 DEF Arrive
<1>20. ASSUME NEW types \in SUBSET Types \ {{}}, Poll(types) PROVE AskBounds'
  BY <1>2, <1>20 DEF Poll
<1>21. CASE PollLeft \/ UNCHANGED vars
  BY <1>2, <1>21 DEF PollLeft, vars
<1> QED BY <1>3, <1>4, <1>7, <1>8, <1>11, <1>12, <1>13, <1>15, <1>16, <1>17, <1>18, <1>19, <1>20, <1>21 DEF Next, Page

LEMMA BoundsInit == Init => BoundsInv
<1> SUFFICES ASSUME Init PROVE BoundsInv
  OBVIOUS
<1>1. Len(log) = 0 /\ pc = "idle" /\ ask = NoAsk /\ walk = NoWalk /\ state = NoState /\ MaxEvents \in Nat
  BY BoundsAssumption DEF Init
<1>2. AskBounds
  BY <1>1 DEF NoAsk, NoWalk, AskBounds, Ids
<1>3. StateBounds
  BY <1>1 DEF NoState, StateBounds
<1> QED BY <1>1, <1>2, <1>3 DEF BoundsInv, Steps

\* What the invariants of this module say together of the types.
LEMMA TypesHold ==
  ASSUME LogType, WalkInv, RawInv, PageInv, PushInv, PollInv, BoundsInv
  PROVE  TypeOK
<1> DEFINE n == Len(log)
<1>1. n \in Nat /\ n <= MaxEvents /\ DOMAIN log = 1..n /\ MaxEvents \in Nat /\ MaxTries \in Nat
  BY BoundsAssumption DEF LogType, BoundsInv
<1>2. ask \in Ask /\ ask.began <= n /\ ask.chosen <= n
  <2>1. ask \in Asks /\ ask.began <= n /\ ask.chosen <= n /\ AskBounds
    BY DEF WalkInv, WalkType, PageInv, RawInv, BoundsInv
  <2>2. /\ ask.bound \in 0..MaxEvents + 1 /\ ask.start \in {1} \cup 0..MaxEvents /\ ask.began \in 0..MaxEvents
        /\ ask.chosen \in 0..MaxEvents
    BY <1>1, <2>1 DEF Asks, AskBounds
  <2> QED BY <2>1, <2>2 DEF Asks, Ask, AskBounds
<1>3. walk \in [began : 0..n, top : 0..MaxEvents + 1, turns : SUBSET Seqs]
  <2>1. walk \in Walks /\ walk.began <= n /\ walk.top <= MaxEvents + 1
    BY DEF WalkInv, WalkType, BoundsInv, AskBounds
  <2>2. walk.began \in 0..n /\ walk.top \in 0..MaxEvents + 1
    BY <1>1, <2>1 DEF Walks
  <2> QED BY <2>1, <2>2 DEF Walks
<1>4. poll \in [types : SUBSET Types, mark : 0..n, asked : 0..n, given : SUBSET DOMAIN log, count : 0..n]
  <2>1. poll \in Polls /\ poll.asked <= n /\ poll.given = OfTypes(log, poll.asked, poll.types)
        /\ poll.mark \in {0} \cup poll.given /\ poll.count = Cardinality(poll.given)
    BY DEF PollInv
  <2>2. poll.asked \in 0..n
    BY <1>1, <2>1 DEF Polls
  <2>3. poll.given \subseteq 1..n
    BY <1>1, <2>1, <2>2 DEF OfTypes
  <2>4. poll.mark \in 0..n
    BY <1>1, <2>1, <2>3
  <2>5. poll.count \in 0..n
    <3>1. IsFiniteSet(1..n) /\ Cardinality(1..n) = n
      <4> HIDE DEF n
      <4>1. 1 \in Int /\ n \in Int /\ (1 > n => n = 0)
        BY <1>1
      <4>2. IsFiniteSet(1..n) /\ Cardinality(1..n) = IF 1 > n THEN 0 ELSE n - 1 + 1
        BY <4>1, FS_Interval
      <4> QED BY <4>1, <4>2
    <3>2. Cardinality(poll.given) <= n
      BY <2>3, <3>1, FS_Subset
    <3> QED BY <1>1, <2>1, <3>2 DEF Polls
  <2> QED BY <1>1, <2>1, <2>2, <2>3, <2>4, <2>5 DEF Polls
<1>5. /\ push \in [at : {"none", "sent", "stored", "projected", "done", "refused", "lost"},
                   tries : 0..MaxTries, lost : 0..MaxTries]
      /\ strays \in 0..MaxTries
  <2>1. /\ push \in Pushes /\ strays \in Nat /\ push.tries <= MaxTries /\ push.lost + Sending <= push.tries
        /\ Kept <= Cardinality(Copies) /\ Cardinality(Copies) + strays <= push.lost + Kept
    BY DEF PushInv
  <2>2. Kept \in Nat /\ Sending \in Nat /\ Cardinality(Copies) \in Nat /\ push.tries \in Nat /\ push.lost \in Nat
    BY <2>1, CopiesCount DEF Kept, Sending, Pushes
  <2>3. push.tries \in 0..MaxTries /\ push.lost \in 0..MaxTries /\ strays \in 0..MaxTries
    BY <1>1, <2>1, <2>2
  <2> QED BY <2>1, <2>3 DEF Pushes
<1>6. rows \subseteq DOMAIN log /\ log \in Seq(Event) /\ n \in 0..MaxEvents /\ pc \in Steps /\ StateBounds
  BY <1>1 DEF RawInv, LogType, BoundsInv
<1> QED BY <1>2, <1>3, <1>4, <1>5, <1>6 DEF TypeOK, StateBounds

\* Every variable keeps its type, and what a call noted is of a log no longer than now.
THEOREM CallsTypes == Spec => []TypeOK
<1>1. LogType /\ Grows /\ WalkInv /\ StateInv /\ BoundsInv /\ [Next]_vars => BoundsInv'
  BY LogBounded, StepsAre, StateBounded, AskBounded DEF BoundsInv
<1>2. Init => StateInv /\ PollInv
  BY FS_EmptySet DEF Init, NoState, StateInv, States, PollInv, Polls, NoPoll, OfTypes
<1> QED BY <1>1, <1>2, TypesHold, LogInit, LogNext, WalkInit, WalkNext, PageInit, PageInvNext, PushInit, PushNext,
       PollNext, StateNext, BoundsInit, PTL DEF Spec
=============================================================================
