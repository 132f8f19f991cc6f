------------------------------ MODULE MCIngest ------------------------------
(* Small instances of Ingest for TLC. *)
EXTENDS Ingest, TLC
CONSTANTS s1, s2, hA, hB

Post(s, kind, harness) == [session |-> s, kind |-> kind, harness |-> harness]
\* Prompts and results of one session, an error of another.
PromptsAndEnds == {Post(s1, "user_message", NoHarness), Post(s1, "result", hA),
                   Post(s2, "error", NoHarness)}
\* Two frames of a session, the second after it resumed under a new uuid.
Resumed == {Post(s1, "other", hA), Post(s1, "other", hB)}
HandlerSymmetry == Permutations(Handlers)
=============================================================================
