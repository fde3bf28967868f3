--------------------------- MODULE NodeModelList ---------------------------
(***************************************************************************)
(* What CopilotClient.listModels of the Node.js SDK promises, without its  *)
(* lock, its requests and its connection (nodejs/src/client.ts, listModels *)
(* and the doc comment above it): a call that succeeds returns the cached  *)
(* list, or fetches one, and then caches it; a call fetches only when      *)
(* nothing was cached at some moment while it was in progress; the cache   *)
(* is emptied when the client stops, and then only.                        *)
(*                                                                         *)
(* NodeModels implements this specification.                               *)
(***************************************************************************)
CONSTANTS
  Tasks,   \* asynchronous functions of the application, whose calls may overlap
  Lists,   \* the lists of models a backend may report
  None

VARIABLES
  cache,   \* the cached list, or None
  calling, \* callers with a call in progress
  missed,  \* those of them during whose call nothing was cached
  got      \* what each caller's last call returned, None if it failed

vars == <<cache, calling, missed, got>>

Init ==
  /\ cache = None
  /\ calling = {} /\ missed = {}
  /\ got = [c \in Tasks |-> None]

Call(c) ==
  /\ c \notin calling
  /\ calling' = calling \cup {c}
  /\ missed' = IF cache = None THEN missed \cup {c} ELSE missed
  /\ UNCHANGED <<cache, got>>

Return(c, result) ==
  /\ c \in calling
  /\ calling' = calling \ {c}
  /\ missed' = missed \ {c}
  /\ got' = [got EXCEPT ![c] = result]

ReturnCached(c) == cache # None /\ Return(c, cache) /\ UNCHANGED cache

ReturnFetched(c, list) == c \in missed /\ Return(c, list) /\ cache' = list

Fail(c) == Return(c, None) /\ UNCHANGED cache

\* stop and forceStop.
Clear ==
  /\ cache' = None
  /\ missed' = calling
  /\ UNCHANGED <<calling, got>>

Next ==
  \/ \E c \in Tasks : \/ Call(c) \/ ReturnCached(c) \/ Fail(c)
                        \/ \E list \in Lists : ReturnFetched(c, list)
  \/ Clear

Spec == Init /\ [][Next]_vars
=============================================================================
