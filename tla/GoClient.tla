----------------------------- MODULE GoClient -----------------------------
(***************************************************************************)
(* Starting and stopping a Go Client (go/client.go): Start, Stop,          *)
(* ForceStop, CreateSession, which starts the client when needed, and      *)
(* ListModels with its cache, called by concurrent goroutines; the         *)
(* processes it spawns and the onClose goroutines of its connections.      *)
(*                                                                         *)
(* Processes and connections are numbered by generation: 0 is nil.  A      *)
(* request ends with an answer, or fails when the process it is for exited *)
(* or its connection was stopped (GoJsonRpc has the detail).  The server   *)
(* is external.                                                            *)
(***************************************************************************)
EXTENDS Naturals, FiniteSets

CONSTANTS
  Threads, \* goroutines of the application
  Modes,   \* transports the client may be created for
  None,
  MaxOps,  \* bound: how many operations each thread calls
  MaxGens  \* bound: processes and connections made

ASSUME ConstantsAssumption ==
  /\ Modes \subseteq {"stdio", "tcp", "external"}
  /\ None \notin Threads
  /\ MaxOps \in [Threads -> Nat] /\ MaxGens \in Nat

VARIABLES
  mode,      \* useStdio and isExternalServer
  startStopMux, modelsCacheMux, \* who holds them
  state,     \* c.state
  client,    \* c.client
  process,   \* c.process
  osProcess, \* c.osProcess
  sessions,  \* c.sessions: who created each and its connection
  modelsCache, \* generation of the connection the cached models came from
  op, pc,    \* what each thread is doing
  conn,      \* connection of its request, 0 if there is none
  todo,      \* sessions its Stop has still to disconnect
  calls,     \* number of operations it has called
  gen,       \* number of the last generation
  alive,     \* processes (servers, if external) alive
  running,   \* JSON-RPC clients started and not stopped
  closers,   \* onClose goroutines waiting for startStopMux
  closed,    \* connections whose onClose ran
  crashed,   \* a nil client was used
  disturbed  \* history: an onClose goroutine marked a working client disconnected

lockVars   == <<startStopMux, modelsCacheMux>>
fieldVars  == <<state, client, process, osProcess>>
threadVars == <<op, pc, conn, todo, calls>>
worldVars  == <<gen, alive, running>>
closeVars  == <<closers, closed, disturbed>>
vars == <<mode, lockVars, fieldVars, sessions, modelsCache, threadVars, worldVars,
          closeVars, crashed>>

Gens == 1..MaxGens
Ops  == {"Start", "Stop", "ForceStop", "CreateSession", "ListModels"}

Init ==
  /\ mode \in Modes
  /\ startStopMux = None /\ modelsCacheMux = None
  /\ state = "disconnected" /\ client = 0 /\ process = 0 /\ osProcess = 0
  /\ sessions = {} /\ modelsCache = 0
  /\ op = [t \in Threads |-> "none"] /\ pc = [t \in Threads |-> "idle"]
  /\ conn = [t \in Threads |-> 0] /\ todo = [t \in Threads |-> {}]
  /\ calls = [t \in Threads |-> 0]
  /\ gen = 0 /\ alive = {} /\ running = {}
  /\ closers = {} /\ closed = {} /\ crashed = FALSE /\ disturbed = FALSE

----------------------------------------------------------------------------
(* Requests, processes and connections *)

\* A nil dereference ends the program, so every step needs that there was none.
At(t, labels) == pc[t] \in labels /\ ~crashed
Goto(t, label) == pc' = [pc EXCEPT ![t] = label]

RequestAnswered(g) == g \in alive /\ g \in running

\* Mutant of RequestFails: a request does not watch processDone.
RequestFailsIfStopped(g) == g \notin running

\* An external server that dies does not fail the requests made of it.
RequestFails(g) == (mode # "external" /\ g \notin alive) \/ g \notin running

\* A kill of a process that was waited for is an error, and leaves c.process.
killProcess ==
  /\ osProcess' = 0
  /\ alive' = alive \ {osProcess}
  /\ process' \in {0} \cup (IF osProcess \in alive \cup {0} THEN {} ELSE {process})

\* A new connection and its JSON-RPC client, started.
Connect(g) == client' = g /\ running' = running \cup {g}

----------------------------------------------------------------------------
(* Calling an operation *)

FirstStep == [Start |-> "start", Stop |-> "snapshot", ForceStop |-> "kill",
              CreateSession |-> "ensure", ListModels |-> "cache"]

Call(t, o) ==
  /\ At(t, {"idle"}) /\ calls[t] < MaxOps[t]
  /\ op' = [op EXCEPT ![t] = o]
  /\ calls' = [calls EXCEPT ![t] = @ + 1]
  /\ Goto(t, FirstStep[o])
  /\ UNCHANGED <<mode, lockVars, fieldVars, sessions, modelsCache, conn, todo,
                 worldVars, closeVars, crashed>>

----------------------------------------------------------------------------
(* Start *)

StartLock(t) ==
  /\ At(t, {"start"}) /\ startStopMux = None
  /\ startStopMux' = t
  /\ IF state = "connected"
     THEN Goto(t, "started") /\ UNCHANGED state
     ELSE /\ state' = "connecting"
          /\ Goto(t, IF mode = "external" THEN "connect" ELSE "spawn")
  /\ UNCHANGED <<mode, modelsCacheMux, client, process, osProcess, sessions,
                 modelsCache, op, conn, todo, calls, worldVars, closeVars, crashed>>

\* Mutant of StartFails: the process is not killed.
StartFailsWithoutKill(t) ==
  /\ state' = "error"
  /\ Goto(t, "failed")
  /\ UNCHANGED <<osProcess, alive, process>>

\* The client, if there is one already, stays where it is.
StartFails(t) ==
  /\ killProcess
  /\ state' = "error"
  /\ Goto(t, "failed")

\* startCLIServer: with stdio the connection is made at once.
StartSpawnFails(t) ==
  /\ At(t, {"spawn"})
  /\ process' = 0 /\ state' = "error"
  /\ Goto(t, "failed")
  /\ UNCHANGED <<mode, lockVars, client, osProcess, sessions, modelsCache, op, conn,
                 todo, calls, worldVars, closeVars, crashed>>

StartSpawn(t) ==
  /\ At(t, {"spawn"}) /\ gen < MaxGens
  /\ gen' = gen + 1
  /\ alive' = alive \cup {gen + 1}
  /\ process' = gen + 1 /\ osProcess' = gen + 1
  /\ IF mode = "stdio" THEN Connect(gen + 1) /\ Goto(t, "verify")
                       ELSE Goto(t, "port") /\ UNCHANGED <<client, running>>
  /\ UNCHANGED <<mode, lockVars, state, sessions, modelsCache, op, conn, todo, calls,
                 closeVars, crashed>>

\* The wait for the port ends with it, with the process or after ten seconds.
StartPort(t) ==
  /\ At(t, {"port"}) /\ gen \in alive
  /\ Goto(t, "connect")
  /\ UNCHANGED <<mode, lockVars, fieldVars, sessions, modelsCache, op, conn, todo, calls,
                 worldVars, closeVars, crashed>>

StartPortFails(t) ==
  /\ At(t, {"port"})
  /\ osProcess' = 0 /\ alive' = alive \ {osProcess}
  /\ process' = 0 /\ state' = "error"
  /\ Goto(t, "failed")
  /\ UNCHANGED <<mode, lockVars, client, sessions, modelsCache, op, conn, todo, calls,
                 gen, running, closeVars, crashed>>

\* connectViaTcp, which reports an error by itself after ten seconds.
StartConnectFails(t) ==
  /\ At(t, {"connect"})
  /\ StartFails(t)
  /\ UNCHANGED <<mode, lockVars, client, sessions, modelsCache, op, conn, todo, calls,
                 gen, running, closeVars, crashed>>

StartConnect(t) ==
  /\ At(t, {"connect"})
  /\ IF mode = "external"
     THEN /\ gen < MaxGens
          /\ gen' = gen + 1 /\ alive' = alive \cup {gen + 1}
          /\ Connect(gen + 1)
     ELSE gen \in alive /\ Connect(gen) /\ UNCHANGED <<gen, alive>>
  /\ Goto(t, "verify")
  /\ UNCHANGED <<mode, lockVars, state, process, osProcess, sessions, modelsCache, op,
                 conn, todo, calls, closeVars, crashed>>

\* verifyProtocolVersion and, with a session filesystem, SetProvider.
StartVerified(t) ==
  /\ At(t, {"verify"}) /\ RequestAnswered(client)
  /\ state' = "connected"
  /\ Goto(t, "started")
  /\ UNCHANGED <<mode, lockVars, client, process, osProcess, sessions, modelsCache, op,
                 conn, todo, calls, worldVars, closeVars, crashed>>

\* The version does not match, or the request fails.
StartVerifyFails(t) ==
  /\ At(t, {"verify"})
  /\ RequestAnswered(client) \/ RequestFails(client)
  /\ StartFails(t)
  /\ UNCHANGED <<mode, lockVars, client, sessions, modelsCache, op, conn, todo, calls,
                 gen, running, closeVars, crashed>>

\* The deferred unlock; CreateSession goes on if it was the caller.
StartReturns(t) ==
  /\ At(t, {"started", "failed"})
  /\ startStopMux' = None
  /\ Goto(t, IF op[t] = "CreateSession" /\ pc[t] = "started" THEN "new" ELSE "idle")
  /\ UNCHANGED <<mode, modelsCacheMux, fieldVars, sessions, modelsCache, op, conn,
                 todo, calls, worldVars, closeVars, crashed>>

----------------------------------------------------------------------------
(* Stop and ForceStop *)

\* The sessions are disconnected before the lock is taken.
StopSnapshot(t) ==
  /\ At(t, {"snapshot"})
  /\ todo' = [todo EXCEPT ![t] = sessions]
  /\ Goto(t, "disconnect")
  /\ UNCHANGED <<mode, lockVars, fieldVars, sessions, modelsCache, op, conn, calls,
                 worldVars, closeVars, crashed>>

StopDisconnect(t, s) ==
  /\ At(t, {"disconnect"}) /\ s \in todo[t]
  /\ \/ /\ s.conn = 0
        /\ crashed' = TRUE
        /\ UNCHANGED todo
     \/ /\ s.conn # 0 /\ (RequestAnswered(s.conn) \/ RequestFails(s.conn))
        /\ todo' = [todo EXCEPT ![t] = @ \ {s}]
        /\ UNCHANGED crashed
  /\ UNCHANGED <<mode, lockVars, fieldVars, sessions, modelsCache, op, pc, conn, calls,
                 worldVars, closeVars>>

StopClearSessions(t) ==
  /\ At(t, {"disconnect"}) /\ todo[t] = {}
  /\ sessions' = {}
  /\ Goto(t, "lock")
  /\ UNCHANGED <<mode, lockVars, fieldVars, modelsCache, op, conn, todo, calls,
                 worldVars, closeVars, crashed>>

\* ForceStop kills the process before it takes the lock, which Start may hold.
ForceKill(t) ==
  /\ At(t, {"kill"})
  /\ osProcess' = 0
  /\ alive' = alive \ {osProcess}
  /\ sessions' = {}
  /\ Goto(t, "lock")
  /\ UNCHANGED <<mode, lockVars, state, client, process, modelsCache, op, conn, todo,
                 calls, gen, running, closeVars, crashed>>

\* Mutant of StopLock: Stop does not take startStopMux.
StopLockUnlocked(t) ==
  /\ At(t, {"lock"})
  /\ Goto(t, "killProcess")
  /\ UNCHANGED <<mode, lockVars, fieldVars, sessions, modelsCache, op, conn, todo,
                 calls, worldVars, closeVars, crashed>>

StopLock(t) ==
  /\ At(t, {"lock"}) /\ startStopMux = None
  /\ startStopMux' = t
  /\ Goto(t, "killProcess")
  /\ UNCHANGED <<mode, modelsCacheMux, fieldVars, sessions, modelsCache, op, conn, todo,
                 calls, worldVars, closeVars, crashed>>

StopKill(t) ==
  /\ At(t, {"killProcess"})
  /\ IF process # 0 /\ mode # "external"
     THEN osProcess' = 0 /\ alive' = alive \ {osProcess}
     ELSE UNCHANGED <<osProcess, alive>>
  /\ process' = 0
  /\ Goto(t, "stopClient")
  /\ UNCHANGED <<mode, lockVars, state, client, sessions, modelsCache, op, conn, todo,
                 calls, gen, running, closeVars, crashed>>

\* jsonrpc2.Client.Stop waits for readLoop, which ends (GoJsonRpc, StopReturns).
StopClient(t) ==
  /\ At(t, {"stopClient"})
  /\ running' = running \ {client}
  /\ client' = 0
  /\ Goto(t, "clearCache")
  /\ UNCHANGED <<mode, lockVars, state, process, osProcess, sessions, modelsCache, op,
                 conn, todo, calls, gen, alive, closeVars, crashed>>

\* Mutant of StopClearCache: the state is not reset.
StopClearCacheKeepsState(t) ==
  /\ At(t, {"clearCache"}) /\ modelsCacheMux = None
  /\ modelsCache' = 0
  /\ startStopMux' = None
  /\ Goto(t, "idle")
  /\ UNCHANGED <<mode, modelsCacheMux, state, client, process, osProcess, sessions, op,
                 conn, todo, calls, worldVars, closeVars, crashed>>

StopClearCache(t) ==
  /\ At(t, {"clearCache"}) /\ modelsCacheMux = None
  /\ modelsCache' = 0
  /\ state' = "disconnected"
  /\ startStopMux' = None
  /\ Goto(t, "idle")
  /\ UNCHANGED <<mode, modelsCacheMux, client, process, osProcess, sessions, op, conn,
                 todo, calls, worldVars, closeVars, crashed>>

----------------------------------------------------------------------------
(* CreateSession and ListModels read c.client without a lock *)

ensureConnected(t) ==
  /\ At(t, {"ensure"})
  /\ Goto(t, IF client # 0 THEN "new" ELSE "start")
  /\ UNCHANGED <<mode, lockVars, fieldVars, sessions, modelsCache, op, conn, todo, calls,
                 worldVars, closeVars, crashed>>

\* The session is registered with the client of that moment.
NewSession(t) ==
  /\ At(t, {"new"})
  /\ sessions' = sessions \cup {[by |-> t, n |-> calls[t], conn |-> client]}
  /\ Goto(t, "ask")
  /\ UNCHANGED <<mode, lockVars, fieldVars, modelsCache, op, conn, todo, calls, worldVars,
                 closeVars, crashed>>

\* session.create and models.list are requests of the client of that moment.
MakeRequest(t) ==
  /\ At(t, {"ask", "fetch"})
  /\ \/ /\ client = 0
        /\ crashed' = TRUE
        /\ UNCHANGED <<pc, conn>>
     \/ /\ client # 0
        /\ conn' = [conn EXCEPT ![t] = client]
        /\ Goto(t, IF pc[t] = "ask" THEN "asked" ELSE "fetching")
        /\ UNCHANGED crashed
  /\ UNCHANGED <<mode, lockVars, fieldVars, sessions, modelsCache, op, todo, calls,
                 worldVars, closeVars>>

CreateReturns(t) ==
  /\ At(t, {"asked"})
  /\ \/ RequestAnswered(conn[t]) /\ UNCHANGED sessions
     \/ /\ RequestAnswered(conn[t]) \/ RequestFails(conn[t])
        /\ sessions' = {s \in sessions : ~(s.by = t /\ s.n = calls[t])}
  /\ conn' = [conn EXCEPT ![t] = 0]
  /\ Goto(t, "idle")
  /\ UNCHANGED <<mode, lockVars, fieldVars, modelsCache, op, todo, calls, worldVars,
                 closeVars, crashed>>

\* The lock of the cache is held during the request.
ListModels(t) ==
  /\ At(t, {"cache"}) /\ modelsCacheMux = None
  /\ IF modelsCache # 0 \/ client = 0
     THEN Goto(t, "idle") /\ UNCHANGED modelsCacheMux
     ELSE Goto(t, "fetch") /\ modelsCacheMux' = t
  /\ UNCHANGED <<mode, startStopMux, fieldVars, sessions, modelsCache, op, conn, todo,
                 calls, worldVars, closeVars, crashed>>

\* An answer that came before the client was stopped is stored after it.
ListModelsAnswered(t) ==
  /\ At(t, {"fetching"}) /\ RequestAnswered(conn[t])
  /\ Goto(t, "store")
  /\ UNCHANGED <<mode, lockVars, fieldVars, sessions, modelsCache, op, conn, todo, calls,
                 worldVars, closeVars, crashed>>

ListModelsReturns(t) ==
  /\ \/ At(t, {"store"}) /\ modelsCache' = conn[t]
     \/ /\ At(t, {"fetching"})
        /\ RequestAnswered(conn[t]) \/ RequestFails(conn[t])
        /\ UNCHANGED modelsCache
  /\ modelsCacheMux' = None
  /\ conn' = [conn EXCEPT ![t] = 0]
  /\ Goto(t, "idle")
  /\ UNCHANGED <<mode, startStopMux, fieldVars, sessions, op, todo, calls,
                 worldVars, closeVars, crashed>>

----------------------------------------------------------------------------
(* Loss of a process, and the goroutine its onClose callback starts *)

ProcessDies(g) ==
  /\ g \in alive /\ ~crashed
  /\ alive' = alive \ {g}
  /\ UNCHANGED <<mode, lockVars, fieldVars, sessions, modelsCache, threadVars, gen,
                 running, closeVars, crashed>>

OnClose(g) ==
  /\ g \in running \ (alive \cup closed) /\ ~crashed
  /\ closers' = closers \cup {g}
  /\ closed' = closed \cup {g}
  /\ UNCHANGED <<mode, lockVars, fieldVars, sessions, modelsCache, threadVars, worldVars,
                 disturbed, crashed>>

\* It does not look whether its connection is still the client's.
SetDisconnected(g) ==
  /\ g \in closers /\ startStopMux = None /\ ~crashed
  /\ state' = "disconnected"
  /\ closers' = closers \ {g}
  /\ disturbed' = (disturbed \/ (state = "connected" /\ client \in alive))
  /\ UNCHANGED <<mode, lockVars, client, process, osProcess, sessions, modelsCache,
                 threadVars, worldVars, closed, crashed>>

----------------------------------------------------------------------------
Start(t) ==
  \/ StartLock(t) \/ StartSpawn(t) \/ StartSpawnFails(t) \/ StartPort(t)
  \/ StartPortFails(t) \/ StartConnect(t) \/ StartConnectFails(t) \/ StartVerified(t)
  \/ StartVerifyFails(t) \/ StartReturns(t)

Stop(t) ==
  \/ StopSnapshot(t) \/ (\E s \in todo[t] : StopDisconnect(t, s))
  \/ StopClearSessions(t) \/ ForceKill(t) \/ StopLock(t) \/ StopKill(t)
  \/ StopClient(t) \/ StopClearCache(t)

Request(t) ==
  \/ ensureConnected(t) \/ NewSession(t) \/ MakeRequest(t) \/ CreateReturns(t)
  \/ ListModels(t) \/ ListModelsAnswered(t) \/ ListModelsReturns(t)

Next ==
  \/ \E t \in Threads : (\E o \in Ops : Call(t, o)) \/ Start(t) \/ Stop(t) \/ Request(t)
  \/ \E g \in Gens : ProcessDies(g) \/ OnClose(g) \/ SetDisconnected(g)

Spec == Init /\ [][Next]_vars

(***************************************************************************)
(* Goroutines are scheduled fairly and a server that is up answers.  No    *)
(* fairness of the mutexes is needed: the calls are finitely many.  Nobody *)
(* has to call an operation, a process need not die.                       *)
(***************************************************************************)
FairSpec == Spec /\ \A t \in Threads : WF_vars(Start(t) \/ Stop(t) \/ Request(t))

----------------------------------------------------------------------------
(* Properties *)

Labels == {"idle", "start", "spawn", "port", "connect", "verify", "started", "failed",
           "snapshot", "disconnect", "kill", "lock", "killProcess", "stopClient",
           "clearCache", "ensure", "new", "ask", "asked", "cache", "fetch", "fetching",
           "store"}
Locked == {"spawn", "port", "connect", "verify", "started", "failed", "killProcess",
           "stopClient", "clearCache"}
Sessions == [by : Threads, n : Nat, conn : 0..MaxGens]

\* Every variable has its type, and what Start and Stop do under startStopMux one
\* goroutine at a time does.
TypeOK ==
  /\ mode \in Modes
  /\ startStopMux \in Threads \cup {None} /\ modelsCacheMux \in Threads \cup {None}
  /\ state \in {"disconnected", "connecting", "connected", "error"}
  /\ client \in 0..MaxGens /\ process \in 0..MaxGens /\ osProcess \in 0..MaxGens
  /\ sessions \subseteq Sessions /\ modelsCache \in 0..MaxGens
  /\ op \in [Threads -> Ops \cup {"none"}] /\ pc \in [Threads -> Labels]
  /\ conn \in [Threads -> 0..MaxGens] /\ todo \in [Threads -> SUBSET Sessions]
  /\ calls \in [Threads -> Nat] /\ \A t \in Threads : calls[t] <= MaxOps[t]
  /\ {t \in Threads : pc[t] \in Locked} \subseteq {startStopMux}
  /\ gen \in 0..MaxGens /\ alive \subseteq Gens /\ running \subseteq Gens
  /\ closers \subseteq Gens /\ closed \subseteq Gens /\ crashed \in BOOLEAN
  /\ disturbed \in BOOLEAN

\* Whenever no Start or Stop is under way, the state is settled, and a client
\* that says it is connected has a connection that was not stopped, whatever
\* onClose goroutines did in between (Start, Stop, ForceStop).
StateSettled ==
  startStopMux = None =>
    /\ state # "connecting"
    /\ state = "connected" => client \in running

\* However Start fails, and whatever ForceStop kills under it, the client knows
\* every process of its own that lives, so that Stop can kill it; unless an onClose
\* goroutine marked a working client disconnected (`disturbed`).
NoProcessForgotten ==
  (mode # "external" /\ startStopMux = None /\ ~disturbed) =>
    alive \subseteq {osProcess} \ {0} /\ (alive # {} => process # 0)

\* Start, Stop and ForceStop return, unless an external server died, which leaves
\* requests waiting: no two of them, nor ListModels, wait for each other.
OperationsReturn ==
  \A t \in Threads :
    pc[t] \in {"start", "snapshot", "kill", "cache"} ~>
      (pc[t] = "idle" \/ crashed \/ (mode = "external" /\ alive # 1..gen))
=============================================================================
