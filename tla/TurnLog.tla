------------------------------- MODULE TurnLog -------------------------------
(***************************************************************************)
(* What the turn index promises: a log of events and, per session, either  *)
(* no answer yet or the turn of every event by the builder's rule.         *)
(***************************************************************************)
EXTENDS Integers, Sequences

CONSTANTS Sessions, NoTurn, Hidden,
          Event     \* records with at least a session and a turn

VARIABLES events, answer

vars == <<events, answer>>

SessionEvents(log, s) == {e \in DOMAIN log : log[e].session = s}

NamedUpTo(log, s, e) == {f \in SessionEvents(log, s) : f <= e /\ log[f].turn # NoTurn}

\* The latest named turn at or before e; before any name, the first event's own.
TurnRule(log, s, e) ==
    LET all    == SessionEvents(log, s)
        named  == NamedUpTo(log, s, e)
        first  == CHOOSE f \in all : \A g \in all : f <= g
        latest == CHOOSE f \in named : \A g \in named : g <= f
    IN  IF named = {} THEN first ELSE log[latest].turn

AnswerOf(log, s) == [e \in SessionEvents(log, s) |-> TurnRule(log, s, e)]

Init ==
    /\ events \in Seq(Event)
    /\ answer = [s \in Sessions |-> Hidden]

\* A stored event extends a shown answer; a new session may be shown at once.
Store(ev) ==
    LET s == ev.session IN
    /\ events' = Append(events, ev)
    /\ \/ answer[s] = Hidden /\ UNCHANGED answer
       \/ /\ answer[s] # Hidden \/ SessionEvents(events, s) = {}
          /\ answer' = [answer EXCEPT ![s] = AnswerOf(events', s)]

Show(s) ==
    /\ answer[s] = Hidden
    /\ answer' = [answer EXCEPT ![s] = AnswerOf(events, s)]
    /\ UNCHANGED events

\* A new binary may disown answers that other rules gave, and a build that found
\* no answer clears one that came since.
Withdraw(S) ==
    /\ answer' = [s \in Sessions |-> IF s \in S THEN Hidden ELSE answer[s]]
    /\ UNCHANGED events

Next ==
    \/ \E ev \in Event : Store(ev)
    \/ \E s \in Sessions : Show(s)
    \/ \E S \in SUBSET Sessions : Withdraw(S)

Spec == Init /\ [][Next]_vars
=============================================================================
