----------------------------- MODULE MCTurnIndex -----------------------------
(* Small instances of TurnIndex for TLC. *)
EXTENDS TurnIndex, TLC

\* The first version knows prompts as candidates, the second also results.
MCCandidateKinds == [v \in Versions |-> IF v = 1 THEN {Prompt} ELSE Kinds]
NameSymmetry == Permutations(TurnNames)
=============================================================================
