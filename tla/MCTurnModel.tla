----------------------------- MODULE MCTurnModel -----------------------------
(* Small instances of TurnModel for TLC. *)
EXTENDS TurnModel, TLC
CONSTANTS hello, tA, tB, m1

Plainly == [type |-> "meta", source |-> "harness", recovered |-> FALSE, text |-> Plain,
            says |-> FALSE, turn |-> NoTurn, message |-> NoMessage, carries |-> {}]
Named(S) == {[ev EXCEPT !.turn = t] : ev \in S, t \in TurnNames}

Reply(source, text) == [Plainly EXCEPT !.type = "result", !.source = source, !.text = text]
Block == [Plainly EXCEPT !.type = "block", !.says = TRUE]
\* Replies of both sources and of none, blocks with and without a message, a
\* recovered block, a delta and the call a message makes.
Said == {Reply("harness", hello), Reply("otel", hello), Reply("harness", Plain),
         Block, [Block EXCEPT !.message = m1], [Block EXCEPT !.recovered = TRUE, !.source = "otel"],
         [Plainly EXCEPT !.type = "delta", !.says = TRUE],
         [Plainly EXCEPT !.type = "tool_call"], [Plainly EXCEPT !.type = "tool_call", !.message = m1]}
Reported == {[Plainly EXCEPT !.carries = {"spend", "context"}], [Plainly EXCEPT !.carries = {"cost"}]}
\* All of them in either turn, and a reply and a block that name none.
AllInputs == Named(Said \cup Reported) \cup {Reply("harness", hello), Block}
NameSymmetry == Permutations(TurnNames)
=============================================================================
