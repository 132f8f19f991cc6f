------------------------------- MODULE DualEmit -------------------------------
(***************************************************************************)
(* Pairing of dual-emitted copies (internal/server/dedup.go).  A prompt or *)
(* a reply is reported by the harness stream and again by OTel; the copies *)
(* share no id and perhaps no turn, so they are matched by text, over the  *)
(* whole session.  A log is a sequence of events, each with the text it    *)
(* may pair on (prompts and replies of the same words have two texts, the  *)
(* class being part of the key) or Plain, and its source.                  *)
(***************************************************************************)
EXTENDS Integers, Sequences, FiniteSets

CONSTANT Plain   \* the text of an event that is no candidate

\* Whether f is a copy of e's text from the same source, and e's place among those.
Copy(l, e, f) == l[f].text = l[e].text /\ l[f].source = l[e].source
Place(l, e) == Cardinality({f \in 1..e : Copy(l, e, f)})

\* pairDualEmits: the i-th OTel copy of a text pairs with its i-th harness copy.
\* Mutant: paired from the newest copies back.
TwinFromNewest(l, n, e) ==
    LET late(f) == Cardinality({g \in f..n : Copy(l, f, g)})
        twins == {f \in 1..n : /\ l[f].text = l[e].text /\ l[f].source # l[e].source
                               /\ late(f) = late(e)}
    IN  IF l[e].text = Plain \/ twins = {} THEN 0 ELSE CHOOSE f \in twins : TRUE

\* Mutant: every later copy pairs with one already paired.
TwinOfFirst(l, n, e) ==
    LET twins == {f \in 1..n : l[f].text = l[e].text /\ l[f].source # l[e].source}
    IN  IF e \notin 1..n \/ l[e].text = Plain \/ twins = {} THEN 0
        ELSE CHOOSE f \in twins : \A g \in twins : f <= g

Twin(l, n, e) ==
    LET twins == {f \in 1..n : /\ l[f].text = l[e].text /\ l[f].source # l[e].source
                               /\ Place(l, f) = Place(l, e)}
    IN  IF e \notin 1..n \/ l[e].text = Plain \/ twins = {} THEN 0 ELSE CHOOSE f \in twins : TRUE
=============================================================================
