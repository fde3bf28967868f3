----------------------------- MODULE NodeModels -----------------------------
(***************************************************************************)
(* CopilotClient.listModels of the Node.js SDK (nodejs/src/client.ts): the *)
(* cache of the model list, the promise its callers use as a lock, and the *)
(* requests for the list, while the connection is made, lost and disposed  *)
(* by the rest of the client, which NodeClient adds.                       *)
(*                                                                         *)
(* JavaScript runs on one thread: what lies between two awaits is one      *)
(* step.  The caller that made a promise stands for it, and None for every *)
(* promise that is resolved.  Connections are numbered, 0 is null.         *)
(***************************************************************************)
EXTENDS Naturals

CONSTANTS
  Tasks,    \* asynchronous functions of the application, whose calls may overlap
  Lists,    \* the lists of models a backend may report
  None,
  Custom    \* whether the option onListModels is given

ASSUME ModelsAssumption ==
  /\ None \notin Tasks /\ None \notin Lists
  /\ Custom \in BOOLEAN

VARIABLES
  connection,      \* this.connection
  disposed,        \* connections that were disposed
  closed,          \* connections whose onClose ran
  modelsCache,     \* this.modelsCache
  modelsCacheLock, \* who has to resolve this.modelsCacheLock
  caller,          \* where each caller is
  awaiting,        \* whose promise it awaits
  request,         \* connection its models.list was sent on
  missed,          \* history: callers during whose call nothing was cached
  got              \* what the caller's last call returned

connVars  == <<connection, disposed, closed>>
callVars  == <<modelsCacheLock, caller, awaiting, request, missed, got>>
modelVars == <<connVars, modelsCache, callVars>>

ModelsInit ==
  /\ connection = 0 /\ disposed = {} /\ closed = {}
  /\ modelsCache = None /\ modelsCacheLock = None
  /\ caller = [c \in Tasks |-> "idle"]
  /\ awaiting = [c \in Tasks |-> None]
  /\ request = [c \in Tasks |-> 0]
  /\ missed = {}
  /\ got = [c \in Tasks |-> None]

ModelsTypeOK ==
  /\ connection \in Nat /\ disposed \subseteq Nat /\ closed \subseteq Nat
  /\ modelsCache \in Lists \cup {None}
  /\ modelsCacheLock \in Tasks \cup {None}
  /\ caller \in [Tasks -> {"idle", "waiting", "fetching"}]
  /\ awaiting \in [Tasks -> Tasks \cup {None}]
  /\ request \in [Tasks -> Nat]
  /\ missed \subseteq Tasks
  /\ got \in [Tasks -> Lists \cup {None}]

----------------------------------------------------------------------------
(* listModels *)

\* Up to the first await: the promise to wait for is looked up once.
listModels(c) ==
  /\ caller[c] = "idle"
  /\ caller' = [caller EXCEPT ![c] = "waiting"]
  /\ awaiting' = [awaiting EXCEPT ![c] = modelsCacheLock]
  /\ missed' = IF modelsCache = None THEN missed \cup {c} ELSE missed
  /\ UNCHANGED <<connVars, modelsCache, modelsCacheLock, request, got>>

\* Mutant of Release: the promise is resolved on success only.
ReleaseOnSuccess(c, result) ==
  IF result # None
  THEN /\ modelsCacheLock' = IF modelsCacheLock = c THEN None ELSE modelsCacheLock
       /\ awaiting' = [d \in Tasks |-> IF awaiting[d] = c THEN None ELSE awaiting[d]]
  ELSE UNCHANGED <<modelsCacheLock, awaiting>>

\* The finally block: everybody who awaits the promise of c goes on.
Release(c, result) ==
  /\ modelsCacheLock' = IF modelsCacheLock = c THEN None ELSE modelsCacheLock
  /\ awaiting' = [d \in Tasks |-> IF awaiting[d] = c THEN None ELSE awaiting[d]]

\* The call returns a list, or throws (None).
Return(c, result) ==
  /\ caller' = [caller EXCEPT ![c] = "idle"]
  /\ request' = [request EXCEPT ![c] = 0]
  /\ missed' = missed \ {c}
  /\ got' = [got EXCEPT ![c] = result]

Unlocked(c) == caller[c] = "waiting" /\ awaiting[c] = None

\* The new promise replaces the one in the field, whoever has it to resolve, and is
\* resolved by the time the call returns.
ReturnAtOnce(c, result) ==
  /\ modelsCacheLock' = None
  /\ Return(c, result)
  /\ UNCHANGED <<connVars, modelsCache, awaiting>>

ListCached(c) ==
  /\ Unlocked(c) /\ modelsCache # None
  /\ ReturnAtOnce(c, modelsCache)

\* Not connected, or sendRequest throws.
ListNotConnected(c) ==
  /\ Unlocked(c) /\ modelsCache = None /\ ~Custom
  /\ connection = 0 \/ connection \in closed
  /\ ReturnAtOnce(c, None)

\* Mutant of ListFetch: the cache is not looked at after the wait.
ListFetchUnchecked(c) ==
  /\ Unlocked(c)
  /\ Custom \/ (connection # 0 /\ connection \notin closed)
  /\ modelsCacheLock' = c
  /\ caller' = [caller EXCEPT ![c] = "fetching"]
  /\ request' = [request EXCEPT ![c] = IF Custom THEN 0 ELSE connection]
  /\ UNCHANGED <<connVars, modelsCache, awaiting, missed, got>>

\* models.list is sent, or the application's handler called.
ListFetch(c) ==
  /\ Unlocked(c) /\ modelsCache = None
  /\ Custom \/ (connection # 0 /\ connection \notin closed)
  /\ modelsCacheLock' = c
  /\ caller' = [caller EXCEPT ![c] = "fetching"]
  /\ request' = [request EXCEPT ![c] = IF Custom THEN 0 ELSE connection]
  /\ UNCHANGED <<connVars, modelsCache, awaiting, missed, got>>

\* An answer can come as long as the connection is open.
ListFetched(c, list) ==
  /\ caller[c] = "fetching"
  /\ request[c] \notin closed \cup disposed
  /\ modelsCache' = list
  /\ Return(c, list) /\ Release(c, list)
  /\ UNCHANGED connVars

\* An error answers, the handler throws, or dispose rejects the request.
ListFetchFails(c) ==
  /\ caller[c] = "fetching"
  /\ request[c] \notin closed \/ request[c] \in disposed
  /\ Return(c, None) /\ Release(c, None)
  /\ UNCHANGED <<connVars, modelsCache>>

CallerNext(c) ==
  \/ listModels(c) \/ ListCached(c) \/ ListNotConnected(c) \/ ListFetch(c)
  \/ (\E list \in Lists : ListFetched(c, list)) \/ ListFetchFails(c)

----------------------------------------------------------------------------
(* The connection: what start, stop, forceStop and onClose do to it *)

NewConnection(n) == connection' = n /\ UNCHANGED <<disposed, closed>>

\* In stop and forceStop: the connection is disposed and the cache emptied.
Disconnect ==
  /\ connection' = 0
  /\ disposed' = disposed \cup ({connection} \ {0})
  /\ modelsCache' = None
  /\ missed' = {c \in Tasks : caller[c] # "idle"}
  /\ UNCHANGED <<closed, modelsCacheLock, caller, awaiting, request, got>>

ConnectionLost(n) ==
  /\ closed' = closed \cup {n}
  /\ UNCHANGED <<connection, disposed>>

\* The rest of the client, seen from listModels: any connection that works may replace
\* the one there is, any may be lost.
ClientNext ==
  \/ /\ connection' \in Nat \ (disposed \cup closed \cup {0})
     /\ UNCHANGED <<disposed, closed, modelsCache, callVars>>
  \/ Disconnect
  \/ /\ closed \subseteq closed' /\ closed' \subseteq Nat \ {0}
     /\ UNCHANGED <<connection, disposed, modelsCache, callVars>>

ModelsNext == (\E c \in Tasks : CallerNext(c)) \/ ClientNext

ModelsSpec == ModelsInit /\ [][ModelsNext]_modelVars

----------------------------------------------------------------------------
(* Properties *)

\* The promise a caller waits for, and the one in the field, if not resolved, are those
\* of a caller whose request is out: nobody waits for a caller that has returned, or for
\* a ring of callers (listModels, the finally block).
WaitersHaveHolder ==
  /\ \A c \in Tasks : awaiting[c] # None => caller[awaiting[c]] = "fetching"
  /\ modelsCacheLock # None => caller[modelsCacheLock] = "fetching"

\* What the comment on the lock says: concurrent calls do not fetch at the same time
\* (client.ts, listModels: promise-based locking, fetch while holding the lock).
OneFetchAtATime ==
  \A c, d \in Tasks : caller[c] = "fetching" /\ caller[d] = "fetching" => c = d

ModelList == INSTANCE NodeModelList
  WITH cache <- modelsCache, calling <- {c \in Tasks : caller[c] # "idle"}

\* listModels keeps the promise of NodeModelList (client.ts, listModels).
ModelListSpec == ModelList!Spec
=============================================================================
