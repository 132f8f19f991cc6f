---------------------------- MODULE MCStoredTurns ----------------------------
(* Small instances of StoredTurns for TLC. *)
EXTENDS StoredTurns, TLC

VersionSymmetry == Permutations(Versions)

\* A page of both turns, the entry of the third event.
TwoTurns == [kind |-> "page", limit |-> 2, before |-> 0]
ThirdEntry == [kind |-> "entry", event |-> 3]
ReadRequests == {TwoTurns, ThirdEntry}
PageRequests == {TwoTurns}
=============================================================================
