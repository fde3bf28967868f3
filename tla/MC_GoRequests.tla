-------------------------- MODULE MC_GoRequests ---------------------------
(***************************************************************************)
(* A small instance of GoRequests: a session with every handler or with    *)
(* the mandatory one only.  Requests share nothing but the program a panic *)
(* ends, so one request of any kind shows what can happen to each.         *)
(***************************************************************************)
EXTENDS GoRequests

MCHandlerSets == {Slots, {"permission"}}
============================================================================
