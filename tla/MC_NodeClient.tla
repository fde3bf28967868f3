--------------------------- MODULE MC_NodeClient ----------------------------
(***************************************************************************)
(* Small instances of NodeClient: two tasks, one of which calls two        *)
(* operations in a row.                                                    *)
(***************************************************************************)
EXTENDS NodeClient, TLC

CONSTANTS t1, t2

MCOps == (t1 :> {"start", "open", "delete", "listModels"})
         @@ (t2 :> {"stop", "forceStop", "open", "query", "listModels"})
\* Session ids, and lists of models, are interchangeable; the properties are safety properties.
MCSymmetry == Permutations(SessionIds) \cup Permutations(Lists)
MCMaxOps == (t1 :> 2) @@ (t2 :> 1)

Option(transport, autoStart, sessionFs) ==
  [transport |-> transport, autoStart |-> autoStart, sessionFs |-> sessionFs]

MCOptions == {Option("stdio", TRUE, FALSE), Option("tcp", TRUE, FALSE),
              Option("cliUrl", TRUE, TRUE), Option("child", FALSE, FALSE)}
=============================================================================
