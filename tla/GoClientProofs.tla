-------------------------- MODULE GoClientProofs --------------------------
(***************************************************************************)
(* Safety of the life of a Go client, for any goroutines, transports and   *)
(* numbers of calls and processes: what startStopMux protects, the state   *)
(* when nobody holds it, and the processes the client knows of.            *)
(***************************************************************************)
EXTENDS GoClient, TLAPS

USE ConstantsAssumption

\* The steps of Start, of Stop and ForceStop, and of the requests.
LEMMA TypedStart ==
  ASSUME TypeOK, NEW t \in Threads, Start(t)
  PROVE  TypeOK'
<1> USE DEF TypeOK, At, Goto, Labels, Locked, Gens
<1>1. CASE StartLock(t)
  BY <1>1 DEF StartLock, fieldVars, worldVars, closeVars
<1>2. CASE StartSpawn(t)
  <2>1. gen + 1 \in 0..MaxGens /\ gen + 1 \in 1..MaxGens
    BY <1>2 DEF StartSpawn
  <2>2. CASE mode = "stdio"
    BY <1>2, <2>1, <2>2, ZenonT(60) DEF StartSpawn, Connect, lockVars, closeVars
  <2>3. CASE mode # "stdio"
    BY <1>2, <2>1, <2>3 DEF StartSpawn, lockVars, closeVars
  <2> QED
    BY <2>2, <2>3
<1>3. CASE StartSpawnFails(t)
  BY <1>3 DEF StartSpawnFails, lockVars, worldVars, closeVars
<1>4. CASE StartPort(t)
  BY <1>4 DEF StartPort, lockVars, fieldVars, worldVars, closeVars
<1>5. CASE StartPortFails(t)
  BY <1>5 DEF StartPortFails, lockVars, closeVars
<1>6. CASE StartConnect(t)
  <2>1. CASE mode = "external"
    <3>1. gen + 1 \in 0..MaxGens /\ gen + 1 \in 1..MaxGens
      BY <1>6, <2>1 DEF StartConnect
    <3> QED
      BY <1>6, <2>1, <3>1 DEF StartConnect, Connect, lockVars, closeVars
  <2>2. CASE mode # "external"
    BY <1>6, <2>2 DEF StartConnect, Connect, lockVars, closeVars
  <2> QED
    BY <2>1, <2>2
<1>7. CASE StartConnectFails(t)
  BY <1>7 DEF StartConnectFails, StartFails, killProcess, lockVars, closeVars
<1>8. CASE StartVerified(t)
  BY <1>8 DEF StartVerified, lockVars, worldVars, closeVars
<1>9. CASE StartVerifyFails(t)
  BY <1>9 DEF StartVerifyFails, StartFails, killProcess, lockVars, closeVars
<1>10. CASE StartReturns(t)
  BY <1>10 DEF StartReturns, fieldVars, worldVars, closeVars
<1> QED
  BY <1>1, <1>2, <1>3, <1>4, <1>5, <1>6, <1>7, <1>8, <1>9, <1>10 DEF Start

LEMMA TypedStop ==
  ASSUME TypeOK, NEW t \in Threads, Stop(t)
  PROVE  TypeOK'
<1> USE DEF TypeOK, At, Goto, Labels, Locked, Gens
<1>1. CASE StopSnapshot(t)
  BY <1>1 DEF StopSnapshot, lockVars, fieldVars, worldVars, closeVars
<1>2. ASSUME NEW s \in todo[t], StopDisconnect(t, s)
      PROVE  TypeOK'
  <2>1. crashed' \in BOOLEAN /\ todo' \in [Threads -> SUBSET Sessions]
    <3>1. (crashed' = TRUE /\ UNCHANGED todo)
          \/ (UNCHANGED crashed /\ todo' = [todo EXCEPT ![t] = todo[t] \ {s}])
      BY <1>2 DEF StopDisconnect
    <3>2. crashed \in BOOLEAN /\ todo \in [Threads -> SUBSET Sessions]
      OBVIOUS
    <3> HIDE DEF TypeOK
    <3>3. crashed' \in BOOLEAN
      BY <3>1, <3>2
    <3>4. todo' \in [Threads -> SUBSET Sessions]
      BY <3>1, <3>2
    <3> QED
      BY <3>3, <3>4
  <2> QED
    BY <1>2, <2>1 DEF StopDisconnect, lockVars, fieldVars, worldVars, closeVars
<1>3. CASE StopClearSessions(t)
  BY <1>3 DEF StopClearSessions, lockVars, fieldVars, worldVars, closeVars
<1>4. CASE ForceKill(t)
  BY <1>4 DEF ForceKill, lockVars, closeVars
<1>5. CASE StopLock(t)
  BY <1>5 DEF StopLock, fieldVars, worldVars, closeVars
<1>6. CASE StopKill(t)
  <2>1. osProcess' \in 0..MaxGens /\ process' \in 0..MaxGens /\ alive' \subseteq 1..MaxGens
    <3>1. /\ process' = 0
          /\ \/ osProcess' = 0 /\ alive' = alive \ {osProcess}
             \/ UNCHANGED <<osProcess, alive>>
      BY <1>6 DEF StopKill
    <3>2. process' \in 0..MaxGens /\ osProcess' \in 0..MaxGens
      BY <3>1
    <3>3. alive' \subseteq 1..MaxGens
      BY <3>1
    <3> QED
      BY <3>2, <3>3
  <2>2. pc' \in [Threads -> Labels]
    BY <1>6 DEF StopKill
  <2>3. (\A u \in Threads : pc[u] \in Locked => u = startStopMux)'
    BY <1>6 DEF StopKill, lockVars
  <2> QED
    BY <1>6, <2>1, <2>2, <2>3 DEF StopKill, lockVars, closeVars
<1>7. CASE StopClient(t)
  BY <1>7 DEF StopClient, lockVars, closeVars
<1>8. CASE StopClearCache(t)
  BY <1>8 DEF StopClearCache, worldVars, closeVars
<1> QED
  BY <1>1, <1>2, <1>3, <1>4, <1>5, <1>6, <1>7, <1>8 DEF Stop

LEMMA TypedRequest ==
  ASSUME TypeOK, NEW t \in Threads, Request(t)
  PROVE  TypeOK'
<1> USE DEF TypeOK, At, Goto, Labels, Locked, Gens
<1>1. CASE ensureConnected(t)
  BY <1>1 DEF ensureConnected, lockVars, fieldVars, worldVars, closeVars
<1>2. CASE NewSession(t)
  BY <1>2 DEF NewSession, Sessions, lockVars, fieldVars, worldVars, closeVars
<1>3. CASE MakeRequest(t)
  <2>1. CASE client = 0 /\ UNCHANGED <<pc, conn>> /\ crashed'
    BY <1>3, <2>1 DEF MakeRequest, lockVars, fieldVars, worldVars, closeVars
  <2>2. CASE /\ UNCHANGED crashed /\ conn' = [conn EXCEPT ![t] = client]
             /\ pc' = [pc EXCEPT ![t] = IF pc[t] = "ask" THEN "asked" ELSE "fetching"]
    <3>1. pc' \in [Threads -> Labels] /\ conn' \in [Threads -> 0..MaxGens]
      BY <2>2
    <3>2. (\A u \in Threads : pc[u] \in Locked => u = startStopMux)'
      BY <1>3, <2>2 DEF MakeRequest, lockVars
    <3> QED
      BY <1>3, <2>2, <3>1, <3>2 DEF MakeRequest, lockVars, fieldVars, worldVars, closeVars
  <2> QED
    BY <1>3, <2>1, <2>2 DEF MakeRequest
<1>4. CASE CreateReturns(t)
  BY <1>4 DEF CreateReturns, lockVars, fieldVars, worldVars, closeVars
<1>5. CASE ListModels(t)
  BY <1>5 DEF ListModels, fieldVars, worldVars, closeVars
<1>6. CASE ListModelsAnswered(t)
  BY <1>6 DEF ListModelsAnswered, lockVars, fieldVars, worldVars, closeVars
<1>7. CASE ListModelsReturns(t)
  BY <1>7 DEF ListModelsReturns, fieldVars, worldVars, closeVars
<1> QED
  BY <1>1, <1>2, <1>3, <1>4, <1>5, <1>6, <1>7 DEF Request

LEMMA TypedStep == TypeOK /\ [Next]_vars => TypeOK'
<1> SUFFICES ASSUME TypeOK, [Next]_vars
             PROVE  TypeOK'
  OBVIOUS
<1>1. ASSUME NEW t \in Threads, NEW o \in Ops, Call(t, o)
      PROVE  TypeOK'
  <2>1. FirstStep[o] \in Labels \ Locked
    BY DEF FirstStep, Ops, Labels, Locked
  <2> QED
    BY <1>1, <2>1 DEF Call, At, Goto, TypeOK, lockVars, fieldVars, worldVars, closeVars
<1>2. ASSUME NEW g \in Gens, ProcessDies(g) \/ OnClose(g) \/ SetDisconnected(g)
      PROVE  TypeOK'
  BY <1>2 DEF ProcessDies, OnClose, SetDisconnected, TypeOK, lockVars, fieldVars, threadVars,
     worldVars, closeVars
<1>3. CASE UNCHANGED vars
  BY <1>3 DEF vars, TypeOK, lockVars, fieldVars, threadVars, worldVars, closeVars
<1> QED
  BY <1>1, <1>2, <1>3, TypedStart, TypedStop, TypedRequest DEF Next

\* Every variable has its type, and at most one goroutine is where Start, Stop and
\* ForceStop hold startStopMux: the one that holds it.
THEOREM ClientTyped == Spec => []TypeOK
<1>1. Init => TypeOK
  <2> SUFFICES ASSUME Init
               PROVE  TypeOK
    OBVIOUS
  <2>1. /\ op \in [Threads -> Ops \cup {"none"}] /\ pc \in [Threads -> Labels]
        /\ conn \in [Threads -> 0..MaxGens] /\ todo \in [Threads -> SUBSET Sessions]
        /\ calls \in [Threads -> Nat]
    BY DEF Init, Labels
  <2>2. \A t \in Threads : calls[t] <= MaxOps[t] /\ pc[t] \notin Locked
    BY DEF Init, Locked
  <2>3. /\ {t \in Threads : pc[t] \in Locked} \subseteq {startStopMux}
        /\ alive \subseteq Gens /\ running \subseteq Gens /\ sessions \subseteq Sessions
        /\ closers \subseteq Gens /\ closed \subseteq Gens
    BY <2>2 DEF Init
  <2>4. /\ client \in 0..MaxGens /\ process \in 0..MaxGens /\ osProcess \in 0..MaxGens
        /\ modelsCache \in 0..MaxGens /\ gen \in 0..MaxGens
    BY DEF Init
  <2> QED
    BY <2>1, <2>2, <2>3, <2>4 DEF Init, TypeOK
<1> QED
  BY <1>1, TypedStep, PTL DEF Spec


----------------------------------------------------------------------------
(* The state of the client, and its processes *)

\* Where the goroutine is that holds startStopMux.
Where == IF startStopMux = None THEN "free" ELSE pc[startStopMux]

Starting == {"spawn", "port", "connect", "verify"}

Held == startStopMux # None => pc[startStopMux] \in Locked

\* The state is "connecting" during a Start and at no other time; a client that says it
\* is connected has a connection that runs, but for the end of a Stop.
Settling ==
  /\ state = "connecting" <=> Where \in Starting
  /\ state = "connected" => client \in running \/ Where = "clearCache"

\* At most one process lives, the client knows it, and it is the one the client is
\* connected to; none does when the client says it has none or is about to spawn one.
Known ==
  mode # "external" /\ ~disturbed =>
    /\ alive \subseteq {osProcess} \ {0}
    /\ alive # {} => process # 0
    /\ state \in {"disconnected", "error"} \/ Where \in {"spawn", "stopClient", "clearCache"} =>
         alive = {}
    /\ state = "connected" \/ Where = "verify" => alive \subseteq {client}


Sound == Held /\ Settling /\ Known

core == <<mode, state, client, running, process, osProcess, alive, disturbed>>

\* A goroutine that does not hold startStopMux leaves the one that does where it is.
LEMMA AsideStep ==
  ASSUME TypeOK, Held, NEW t \in Threads, pc[t] \notin Locked, UNCHANGED startStopMux,
         UNCHANGED pc \/ \E label \in Labels : Goto(t, label)
  PROVE  Held' /\ Where' = Where
BY DEF TypeOK, Held, Where, Goto

LEMMA AsideSound ==
  ASSUME TypeOK, Sound, NEW t \in Threads, pc[t] \notin Locked, UNCHANGED startStopMux,
         UNCHANGED pc \/ \E label \in Labels : Goto(t, label), UNCHANGED core
  PROVE  Sound'
<1>1. Held' /\ Where' = Where
  BY AsideStep DEF Sound
<1> QED
  BY <1>1 DEF Sound, Settling, Known, core

\* Where the goroutine goes that holds it.
LEMMA HolderStep ==
  ASSUME TypeOK, NEW t \in Threads, pc[t] \in Locked, UNCHANGED startStopMux,
         NEW label \in Locked, Goto(t, label)
  PROVE  Held' /\ Where = pc[t] /\ Where' = label
<1>1. startStopMux = t
  BY DEF TypeOK
<1> QED
  BY <1>1 DEF TypeOK, Held, Where, Goto

LEMMA FreeStep ==
  ASSUME TypeOK, NEW t \in Threads, pc[t] \in Locked, startStopMux' = None
  PROVE  Held' /\ Where = pc[t] /\ Where' = "free"
BY DEF TypeOK, Held, Where

LEMMA LockStep ==
  ASSUME TypeOK, NEW t \in Threads, startStopMux = None, startStopMux' = t,
         NEW label \in Locked, Goto(t, label)
  PROVE  Held' /\ Where = "free" /\ Where' = label
BY DEF TypeOK, Held, Where, Goto

LEMMA SoundStart ==
  ASSUME TypeOK, Sound, NEW t \in Threads, Start(t)
  PROVE  Sound'
<1> USE DEF Sound, Settling, Known, Starting
<1>1. CASE StartLock(t)
  <2>1. PICK label \in {"started", "connect", "spawn"} :
          /\ Goto(t, label)
          /\ IF state = "connected" THEN label = "started" /\ UNCHANGED state
             ELSE state' = "connecting" /\ label = IF mode = "external" THEN "connect" ELSE "spawn"
    BY <1>1 DEF StartLock
  <2>2. Held' /\ Where = "free" /\ Where' = label
    BY <1>1, <2>1, LockStep DEF StartLock, Locked
  <2>3. UNCHANGED <<mode, client, running, process, osProcess, alive, disturbed>>
    BY <1>1 DEF StartLock, worldVars, closeVars
  <2> QED
    BY <2>1, <2>2, <2>3 DEF TypeOK
<1>2. CASE StartSpawn(t)
  <2>1. /\ UNCHANGED <<mode, startStopMux, state, disturbed>>
        /\ alive' = alive \cup {gen + 1} /\ process' = gen + 1 /\ osProcess' = gen + 1
        /\ gen + 1 # 0 /\ pc[t] = "spawn"
    BY <1>2 DEF StartSpawn, At, lockVars, closeVars, TypeOK
  <2>2. PICK label \in {"verify", "port"} :
          /\ Goto(t, label)
          /\ label = "verify" => client' = gen + 1 /\ running' = running \cup {gen + 1}
          /\ label = "port" => UNCHANGED <<client, running>>
    BY <1>2 DEF StartSpawn, Connect
  <2>3. Held' /\ Where = "spawn" /\ Where' = label
    BY <2>1, <2>2, HolderStep DEF Locked
  <2> QED
    BY <2>1, <2>2, <2>3
<1>3. CASE StartSpawnFails(t)
  <2>1. /\ UNCHANGED <<mode, startStopMux, client, running, osProcess, alive, disturbed>>
        /\ process' = 0 /\ state' = "error" /\ Goto(t, "failed") /\ pc[t] = "spawn"
    BY <1>3 DEF StartSpawnFails, At, lockVars, worldVars, closeVars
  <2>2. Held' /\ Where = "spawn" /\ Where' = "failed"
    BY <2>1, HolderStep DEF Locked
  <2> QED
    BY <2>1, <2>2
<1>4. CASE StartPort(t)
  <2>1. UNCHANGED core /\ UNCHANGED startStopMux /\ Goto(t, "connect") /\ pc[t] = "port"
    BY <1>4 DEF StartPort, At, core, lockVars, fieldVars, worldVars, closeVars
  <2>2. Held' /\ Where = "port" /\ Where' = "connect"
    BY <2>1, HolderStep DEF Locked
  <2> QED
    BY <2>1, <2>2 DEF core
<1>5. CASE StartPortFails(t)
  <2>1. /\ UNCHANGED <<mode, startStopMux, client, running, disturbed>>
        /\ osProcess' = 0 /\ alive' = alive \ {osProcess} /\ process' = 0 /\ state' = "error"
        /\ Goto(t, "failed") /\ pc[t] = "port"
    BY <1>5 DEF StartPortFails, At, lockVars, closeVars
  <2>2. Held' /\ Where = "port" /\ Where' = "failed"
    BY <2>1, HolderStep DEF Locked
  <2> QED
    BY <2>1, <2>2
<1>6. CASE StartConnect(t)
  <2>1. /\ UNCHANGED <<mode, startStopMux, state, process, osProcess, disturbed>>
        /\ Goto(t, "verify") /\ pc[t] = "connect"
    BY <1>6 DEF StartConnect, At, lockVars, closeVars
  <2>2. mode # "external" => /\ gen \in alive /\ client' = gen /\ UNCHANGED alive
    BY <1>6 DEF StartConnect, Connect
  <2>3. Held' /\ Where = "connect" /\ Where' = "verify"
    BY <2>1, HolderStep DEF Locked
  <2> QED
    BY <2>1, <2>2, <2>3
<1>7. ASSUME StartFails(t), pc[t] \in Starting,
             UNCHANGED <<mode, startStopMux, client, running, disturbed>>
      PROVE  Sound'
  <2>1. /\ alive' = alive \ {osProcess} /\ osProcess' = 0 /\ state' = "error"
        /\ Goto(t, "failed")
    BY <1>7 DEF StartFails, killProcess
  <2>2. Held' /\ Where' = "failed"
    BY <1>7, <2>1, HolderStep DEF Locked
  <2> QED
    BY <1>7, <2>1, <2>2
<1>8. CASE StartConnectFails(t)
  BY <1>7, <1>8 DEF StartConnectFails, At, lockVars, closeVars
<1>9. CASE StartVerifyFails(t)
  BY <1>7, <1>9 DEF StartVerifyFails, At, lockVars, closeVars
<1>10. CASE StartVerified(t)
  <2>1. /\ UNCHANGED <<mode, startStopMux, client, process, osProcess, alive, running, disturbed>>
        /\ state' = "connected" /\ client \in running /\ Goto(t, "started") /\ pc[t] = "verify"
    BY <1>10 DEF StartVerified, RequestAnswered, At, lockVars, worldVars, closeVars
  <2>2. Held' /\ Where = "verify" /\ Where' = "started"
    BY <2>1, HolderStep DEF Locked
  <2> QED
    BY <2>1, <2>2
<1>11. CASE StartReturns(t)
  <2>1. UNCHANGED core /\ startStopMux' = None /\ pc[t] \in {"started", "failed"}
    BY <1>11 DEF StartReturns, At, core, fieldVars, worldVars, closeVars
  <2>2. Held' /\ Where \in {"started", "failed"} /\ Where' = "free"
    BY <2>1, FreeStep DEF Locked
  <2> QED
    BY <2>1, <2>2 DEF core
<1> QED
  BY <1>1, <1>2, <1>3, <1>4, <1>5, <1>6, <1>8, <1>9, <1>10, <1>11 DEF Start

LEMMA SoundStop ==
  ASSUME TypeOK, Sound, NEW t \in Threads, Stop(t)
  PROVE  Sound'
<1> USE DEF Sound, Settling, Known, Starting
<1>1. CASE StopSnapshot(t) \/ StopClearSessions(t) \/ \E s \in todo[t] : StopDisconnect(t, s)
  <2>1. /\ pc[t] \in {"snapshot", "disconnect"} /\ UNCHANGED startStopMux /\ UNCHANGED core
        /\ UNCHANGED pc \/ \E label \in {"disconnect", "lock"} : Goto(t, label)
    BY <1>1 DEF StopSnapshot, StopClearSessions, StopDisconnect, At, core, lockVars, fieldVars,
       worldVars, closeVars
  <2> QED
    BY <2>1, AsideSound DEF Labels, Locked
<1>2. CASE ForceKill(t)
  <2>1. /\ UNCHANGED <<mode, startStopMux, state, client, process, running, disturbed>>
        /\ osProcess' = 0 /\ alive' = alive \ {osProcess}
        /\ Goto(t, "lock") /\ pc[t] = "kill"
    BY <1>2 DEF ForceKill, At, lockVars, closeVars
  <2>2. Held' /\ Where' = Where
    BY <2>1, AsideStep DEF Labels, Locked
  <2> QED
    BY <2>1, <2>2
<1>3. CASE StopLock(t)
  <2>1. UNCHANGED core /\ startStopMux = None /\ startStopMux' = t /\ Goto(t, "killProcess")
    BY <1>3 DEF StopLock, core, fieldVars, worldVars, closeVars
  <2>2. Held' /\ Where = "free" /\ Where' = "killProcess"
    BY <2>1, LockStep DEF Locked
  <2> QED
    BY <2>1, <2>2 DEF core
<1>4. CASE StopKill(t)
  <2>1. /\ UNCHANGED <<mode, startStopMux, state, client, running, disturbed>>
        /\ process' = 0 /\ Goto(t, "stopClient") /\ pc[t] = "killProcess"
        /\ \/ process # 0 /\ osProcess' = 0 /\ alive' = alive \ {osProcess}
           \/ (process = 0 \/ mode = "external") /\ UNCHANGED <<osProcess, alive>>
    BY <1>4 DEF StopKill, At, lockVars, closeVars
  <2>2. Held' /\ Where = "killProcess" /\ Where' = "stopClient"
    BY <2>1, HolderStep DEF Locked
  <2> QED
    BY <2>1, <2>2
<1>5. CASE StopClient(t)
  <2>1. /\ UNCHANGED <<mode, startStopMux, state, process, osProcess, alive, disturbed>>
        /\ Goto(t, "clearCache") /\ pc[t] = "stopClient"
    BY <1>5 DEF StopClient, At, lockVars, closeVars
  <2>2. Held' /\ Where = "stopClient" /\ Where' = "clearCache"
    BY <2>1, HolderStep DEF Locked
  <2> QED
    BY <2>1, <2>2
<1>6. CASE StopClearCache(t)
  <2>1. /\ UNCHANGED <<mode, client, process, osProcess, alive, running, disturbed>>
        /\ state' = "disconnected" /\ startStopMux' = None /\ pc[t] = "clearCache"
    BY <1>6 DEF StopClearCache, At, worldVars, closeVars
  <2>2. Held' /\ Where = "clearCache" /\ Where' = "free"
    BY <2>1, FreeStep DEF Locked
  <2> QED
    BY <2>1, <2>2
<1> QED
  BY <1>1, <1>2, <1>3, <1>4, <1>5, <1>6 DEF Stop

LEMMA SoundStep == TypeOK /\ Sound /\ [Next]_vars => Sound'
<1> SUFFICES ASSUME TypeOK, Sound, [Next]_vars
             PROVE  Sound'
  OBVIOUS
<1>1. ASSUME NEW t \in Threads, NEW o \in Ops, Call(t, o)
      PROVE  Sound'
  <2>1. FirstStep[o] \in Labels
    BY DEF FirstStep, Ops, Labels
  <2>2. pc[t] \notin Locked /\ UNCHANGED startStopMux /\ Goto(t, FirstStep[o]) /\ UNCHANGED core
    BY <1>1 DEF Call, At, core, Locked, lockVars, fieldVars, worldVars, closeVars
  <2> QED
    BY <2>1, <2>2, AsideSound
<1>2. ASSUME NEW t \in Threads, Request(t)
      PROVE  Sound'
  <2>1. /\ pc[t] \in {"ensure", "new", "ask", "fetch", "asked", "cache", "fetching", "store"}
        /\ UNCHANGED startStopMux /\ UNCHANGED core
        /\ UNCHANGED pc \/ \E label \in Labels : Goto(t, label)
    BY <1>2 DEF Request, ensureConnected, NewSession, MakeRequest, CreateReturns, ListModels,
       ListModelsAnswered, ListModelsReturns, At, core, Labels, lockVars, fieldVars, worldVars,
       closeVars
  <2> QED
    BY <2>1, AsideSound DEF Locked
<1>3. ASSUME NEW g \in Gens, ProcessDies(g) \/ OnClose(g)
      PROVE  Sound'
  <2>1. /\ UNCHANGED <<mode, startStopMux, pc, state, client, running, process, osProcess, disturbed>>
        /\ alive' \subseteq alive
    BY <1>3 DEF ProcessDies, OnClose, lockVars, fieldVars, threadVars, worldVars, closeVars
  <2> QED
    BY <2>1 DEF Sound, Held, Settling, Known, Where
<1>4. ASSUME NEW g \in Gens, SetDisconnected(g)
      PROVE  Sound'
  <2>1. /\ UNCHANGED <<mode, startStopMux, pc, client, running, process, osProcess, alive>>
        /\ startStopMux = None /\ state' = "disconnected"
        /\ disturbed' <=> disturbed \/ (state = "connected" /\ client \in alive)
    BY <1>4 DEF SetDisconnected, lockVars, threadVars, worldVars
  <2>2. Where = "free" /\ Where' = "free"
    BY <2>1 DEF Where
  <2> QED
    BY <2>1, <2>2 DEF Sound, Held, Settling, Known, Starting, TypeOK
<1>5. CASE UNCHANGED vars
  BY <1>5 DEF vars, lockVars, fieldVars, threadVars, worldVars, closeVars, Sound, Held, Settling,
     Known, Where
<1> QED
  BY <1>1, <1>2, <1>3, <1>4, <1>5, SoundStart, SoundStop DEF Next

LEMMA AlwaysSound == Spec => []Sound
<1>1. Init => Sound
  BY DEF Init, Sound, Held, Settling, Known, Where, Starting
<1> QED
  BY <1>1, SoundStep, ClientTyped, PTL DEF Spec

\* Whenever no Start, Stop or ForceStop is under way the state is settled, and a client
\* that says it is connected has a connection that runs.
THEOREM ClientSettles == Spec => []StateSettled
<1>1. TypeOK /\ Sound => StateSettled
  BY DEF Sound, Settling, StateSettled, Where, Starting
<1> QED
  BY <1>1, ClientTyped, AlwaysSound, PTL

\* Whatever fails and whoever kills, a client no onClose goroutine disturbed knows every
\* process of its own that lives.
THEOREM ProcessesAreKnown == Spec => []NoProcessForgotten
<1>1. Sound => NoProcessForgotten
  BY DEF Sound, Known, NoProcessForgotten
<1> QED
  BY <1>1, AlwaysSound, PTL
=============================================================================
