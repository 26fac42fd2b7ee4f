------------------------- MODULE MCConsoleSessions -------------------------
(* Small instances of ConsoleSessions. *)
EXTENDS ConsoleSessions, TLC

(* Requests are interchangeable, and so are the random identifiers.  Used  *)
(* only where no liveness is checked.                                      *)
ConsoleSymmetry ==
  Permutations(Requests) \cup Permutations(SessionIds) \cup Permutations(LoginStates)
=============================================================================
