--------------------------- MODULE MC_GoSession ---------------------------
(***************************************************************************)
(* Small instances of GoSession.  Two calls of SendAndWait are enough for  *)
(* one to be ended by the other's events; a channel of capacity one fills  *)
(* up with the second event.                                               *)
(***************************************************************************)
EXTENDS GoSession, TLC

CallerSymmetry == Permutations(Callers)
============================================================================
