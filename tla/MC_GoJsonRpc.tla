--------------------------- MODULE MC_GoJsonRpc ---------------------------
(***************************************************************************)
(* Small instances of GoJsonRpc.  Two requests are enough for answers to be*)
(* swapped and frames to be interleaved; one handled and one unhandled call*)
(* of the server exercise both replies.                                    *)
(***************************************************************************)
EXTENDS GoJsonRpc, TLC

CallSymmetry == Permutations(Calls)
============================================================================
