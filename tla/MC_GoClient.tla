--------------------------- MODULE MC_GoClient ----------------------------
(***************************************************************************)
(* Small instances of GoClient: two threads, because the locks are about   *)
(* pairs of operations, and two generations, so that what is left of the   *)
(* first can disturb the second.                                           *)
(***************************************************************************)
EXTENDS GoClient, TLC

CONSTANTS t1, t2

\* One goroutine calls an operation while the other calls three, so that what happens
\* to a client that was started, and to one that was stopped, is among the cases.
MCMaxOps == (t1 :> 3) @@ (t2 :> 1)
============================================================================
