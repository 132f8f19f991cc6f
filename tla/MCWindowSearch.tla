--------------------------- MODULE MCWindowSearch ---------------------------
(* Small instances of WindowSearch for TLC. *)
EXTENDS WindowSearch

\* Every window over the instance's times, open sides and empty windows included.
AllWindows == Window
=============================================================================
