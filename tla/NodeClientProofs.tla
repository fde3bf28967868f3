-------------------------- MODULE NodeClientProofs --------------------------
(***************************************************************************)
(* Proofs about the Node.js client (NodeClient): whatever start, stop,     *)
(* forceStop and the events of its connections do is what NodeModels       *)
(* allows, so what NodeModelsProofs proves of listModels holds of the      *)
(* whole client, for any number of tasks, processes and connections.       *)
(***************************************************************************)
EXTENDS NodeClient, NodeModelsProofs

\* Connections are numbered in the order they are made; world keeps its fields.
Numbered ==
  /\ world = [f \in DOMAIN world |-> world[f]] /\ "conns" \in DOMAIN world
  /\ world.conns \in Nat
  /\ connection \in 0..world.conns
  /\ disposed \subseteq 1..world.conns
  /\ closed \subseteq 1..world.conns

\* Nothing is connected at first (the fields of CopilotClient).
LEMMA InitNumbered == Init => Numbered
<1> SUFFICES ASSUME Init PROVE Numbered OBVIOUS
<1>1. connection = 0 /\ disposed = {} /\ closed = {} BY DEF Init, ModelsInit
<1>2. world.conns = 0 /\ "conns" \in DOMAIN world BY DEF Init
<1>3. world = [f \in DOMAIN world |-> world[f]] BY Zenon DEF Init
<1> QED BY <1>1, <1>2, <1>3 DEF Numbered

\* A step that makes no connection and loses none.
Quiet == UNCHANGED modelVars /\ DOMAIN world' = DOMAIN world
         /\ world' = [f \in DOMAIN world' |-> world'[f]] /\ world'.conns = world.conns

\* A step of the connection, of the client's own or of a caller of listModels.
Step ==
  \/ Quiet
  \/ /\ DOMAIN world' = DOMAIN world /\ world' = [f \in DOMAIN world' |-> world'[f]]
     /\ \/ world'.conns = world.conns + 1 /\ NewConnection(world.conns + 1)
           /\ UNCHANGED <<modelsCache, callVars>>
        \/ world'.conns = world.conns /\ Disconnect
        \/ /\ world'.conns = world.conns /\ UNCHANGED <<modelsCache, callVars>>
           /\ \E n \in 1..world.conns : ConnectionLost(n)
        \/ world'.conns = world.conns /\ UNCHANGED connVars
           /\ \E c \in Tasks : CallerNext(c)

\* What start does (start, startCLIServer, connectToServer, verifyProtocolVersion).
LEMMA StartStep == ASSUME Numbered, NEW t \in Tasks, StartNext(t) PROVE Step
<1> USE DEF Numbered, Step, Quiet, modelVars, connVars
<1>1. CASE start(t)
  <2>1. CASE StartBegins(t)
    <3>1. CASE isExternalServer /\ StartExternal(t)
      BY <1>1, <2>1, <3>1 DEF start, StartExternal, Connect, OpenSocket, StartFails
    <3>2. CASE Spawn(t) BY <1>1, <2>1, <3>2 DEF start, Spawn
    <3>3. CASE UNCHANGED <<connVars, world>> BY <1>1, <2>1, <3>3 DEF start
    <3> QED BY <2>1, <3>1, <3>2, <3>3 DEF StartBegins
  <2>2. CASE UNCHANGED <<connVars, world>> BY <1>1, <2>2 DEF start
  <2> QED BY <1>1, <2>1, <2>2 DEF start
<1>2. CASE StartPort(t) BY <1>2 DEF StartPort
<1>3. CASE StartConnect(t) BY <1>3 DEF StartConnect, Connect, OpenSocket
<1>4. CASE SocketConnects(t) BY <1>4 DEF SocketConnects, Connect
<1>5. CASE SocketFails(t) BY <1>5 DEF SocketFails
<1>6. CASE StartPing(t) BY <1>6 DEF StartPing
<1>7. CASE StartPinged(t) BY <1>7 DEF StartPinged
<1>8. CASE StartPingFails(t) BY <1>8 DEF StartPingFails
<1>9. CASE StartProviderSet(t) BY <1>9 DEF StartProviderSet
<1> QED BY <1>1, <1>2, <1>3, <1>4, <1>5, <1>6, <1>7, <1>8, <1>9 DEF StartNext

\* What the operations on sessions do (createSession, deleteSession and the queries).
LEMMA SessionStep == ASSUME Numbered, NEW t \in Tasks, SessionNext(t) PROVE Step
BY DEF Numbered, Step, Quiet, SessionNext, open, OpenRegister, OpenAnswered, OpenFails,
       query, deleteSession, Ask, QueryReturns, DeleteReturns

\* What stop and forceStop do.
LEMMA StopStep == ASSUME Numbered, NEW t \in Tasks, StopNext(t) PROVE Step
<1> USE DEF Numbered, Step, Quiet
<1>1. CASE StopEnds(t) BY <1>1 DEF StopEnds, Terminated
<1>2. CASE forceStop(t) BY <1>2 DEF forceStop, Terminated
<1> QED BY <1>1, <1>2 DEF StopNext, StopVisit, StopDisconnected, StopDisconnectFails, StopRetries

\* A caller of listModels touches no connection.
LEMMA CallerStep == ASSUME NEW c \in Tasks, CallerNext(c) PROVE UNCHANGED connVars
BY DEF CallerNext, listModels, ListCached, ListNotConnected, ListFetch, ListFetched,
       ListFetchFails, ReturnAtOnce, connVars

\* What a task of the application does.
LEMMA TaskStep == ASSUME Numbered, NEW t \in Tasks, TaskNext(t) PROVE Step
<1>1. CASE ListNext(t)
  <2>1. CallerNext(t) /\ UNCHANGED world BY <1>1 DEF ListNext, CallerNext
  <2> QED BY <2>1, CallerStep DEF Step, Numbered
<1> QED BY <1>1, StartStep, SessionStep, StopStep DEF TaskNext

\* What processes and connections do (onClose, onError, the handlers of startCLIServer).
LEMMA WorldStep == ASSUME Numbered, WorldNext PROVE Step
BY DEF Numbered, Step, Quiet, WorldNext, ProcessExits, OnClose, OnError, StdinError, Open

\* Every step of the client.
LEMMA NextStep == Numbered /\ [Next]_vars => Step
<1> SUFFICES ASSUME Numbered, [Next]_vars PROVE Step OBVIOUS
<1>1. ASSUME NEW t \in Tasks, NEW o \in AllOps, Call(t, o) PROVE Step
  BY <1>1 DEF Call, Step, Quiet, Numbered
<1>2. CASE UNCHANGED vars BY <1>2 DEF vars, Step, Quiet, Numbered
<1> QED BY <1>1, <1>2, TaskStep, WorldStep DEF Next

\* Such a step keeps the numbering.
LEMMA StepNumbered == Numbered /\ Step => Numbered'
BY DEF Numbered, Step, Quiet, NewConnection, Disconnect, ConnectionLost, modelVars, connVars

\* It is a step of NodeModels, or none.
LEMMA StepModels == Numbered /\ Step => [ModelsNext]_modelVars
BY DEF Numbered, Step, Quiet, NewConnection, ConnectionLost, ModelsNext, ClientNext

\* The client behaves as NodeModels assumes of it (client.ts).
THEOREM ClientIsModels == Spec => ModelsSpec
<1>1. Init => ModelsInit BY DEF Init
<1>2. Numbered /\ [Next]_vars => Numbered' BY NextStep, StepNumbered
<1>3. Numbered /\ [Next]_vars => [ModelsNext]_modelVars BY NextStep, StepModels
<1> QED BY <1>1, <1>2, <1>3, InitNumbered, PTL DEF Spec, ModelsSpec

\* In the whole client, whoever waits for a promise of listModels waits for a caller whose
\* request is out (client.ts, listModels).
THEOREM ClientLeavesNobodyWaiting == Spec => []WaitersHaveHolder
BY ClientIsModels, NobodyLeftWaiting, PTL

\* The whole client keeps the promise of NodeModelList (client.ts, listModels, stop).
THEOREM ClientKeepsPromise == Spec => ModelListSpec
BY ClientIsModels, KeepsPromise, PTL

----------------------------------------------------------------------------
(* Types *)

WorldFields ==
  [procs : 0..MaxProcs, alive : SUBSET (1..MaxProcs), killed : SUBSET (1..MaxProcs),
   conns : 0..MaxConns, peer : [1..MaxConns -> 0..MaxProcs], timers : SUBSET Tasks,
   destroyed : SUBSET Tasks, objects : Nat, crashed : BOOLEAN]
HistoryFields == [verified : SUBSET (0..MaxConns), overlapped : BOOLEAN, tried : SUBSET Nat]

\* The process of the client is one that was spawned, as are those that live.
Spawned == world.alive \cup world.killed \cup ({client.cliProcess} \ {0}) \subseteq 1..world.procs

\* stop waits for a next attempt only after the first two.
Retries == \A t \in Tasks : task[t].pc = "backoff" => task[t].attempt < 3

Fielded ==
  /\ options \in Options
  /\ client \in ClientFields
  /\ sessions \in [SessionIds -> Entries \cup {None}]
  /\ task \in [Tasks -> TaskFields]
  /\ world \in WorldFields /\ Spawned
  /\ history \in HistoryFields
  /\ Retries
  /\ connection \in 0..MaxConns

LEMMA TypedParts == Fielded /\ ModelsTypeOK /\ Numbered => TypeOK
BY DEF Fielded, Numbered, TypeOK, WorldFields, HistoryFields, Spawned

USE ClientAssumption, ModelsAssumption

\* What becomes of a task.
LEMMA TaskTyped ==
  ASSUME task \in [Tasks -> TaskFields], NEW t \in Tasks
  PROVE  /\ Returned(t, task[t]) \in TaskFields
         /\ \A label \in Labels : [task[t] EXCEPT !.pc = label] \in TaskFields
         /\ \A label \in Labels, n \in 0..MaxConns :
              [task[t] EXCEPT !.pc = label, !.conn = n] \in TaskFields
<1>1. task[t] \in TaskFields
  OBVIOUS
<1>2. 0 \in 0..MaxConns /\ 0 \in 0..MaxProcs
  OBVIOUS
<1> QED
  <2>1. PICK r \in TaskFields : r = task[t]
    BY <1>1
  <2>2. "idle" \in Labels
    BY DEF Labels
  <2>3. Returned(t, r) \in TaskFields
    <3> DEFINE r1 == [r EXCEPT !.op = "none", !.pc = "idle", !.id = None]
               r2 == [r1 EXCEPT !.conn = 0, !.proc = 0]
               r3 == [r2 EXCEPT !.visited = {}, !.attempt = 0]
    <3>1. r1 \in TaskFields
      BY <2>2 DEF TaskFields
    <3>2. Returned(t, r) = r3
      BY DEF Returned
    <3> HIDE DEF r1
    <3>3. r2 \in TaskFields
      BY <1>2, <3>1 DEF TaskFields
    <3> HIDE DEF r2
    <3>4. r3 \in TaskFields
      <4>1. 0 \in 0..3 /\ {} \in SUBSET Nat
        OBVIOUS
      <4>2. PICK x \in TaskFields : x = r2
        BY <3>3
      <4>3. [x EXCEPT !.visited = {}, !.attempt = 0] \in TaskFields
        BY <4>1 DEF TaskFields
      <4> QED
        BY <4>2, <4>3
    <3> QED
      BY <3>2, <3>4
  <2>4. \A label \in Labels : [r EXCEPT !.pc = label] \in TaskFields
    BY DEF TaskFields
  <2>5. \A label \in Labels, n \in 0..MaxConns : [r EXCEPT !.pc = label, !.conn = n] \in TaskFields
    BY DEF TaskFields
  <2> QED
    BY <2>1, <2>3, <2>4, <2>5

LEMMA PcTyped ==
  ASSUME NEW r \in TaskFields, NEW label \in Labels
  PROVE  /\ [r EXCEPT !.pc = label] \in TaskFields
         /\ [r EXCEPT !.pc = label].pc = label
         /\ [r EXCEPT !.pc = label].attempt = r.attempt
<1>1. [r EXCEPT !.pc = label] \in TaskFields
  BY DEF TaskFields
<1>2. [r EXCEPT !.pc = label].pc = label /\ [r EXCEPT !.pc = label].attempt = r.attempt
  BY DEF TaskFields
<1> QED
  BY <1>1, <1>2

\* The forms a step gives a task.
LEMMA TaskForms ==
  ASSUME Fielded, NEW t \in Tasks,
         \/ UNCHANGED task
         \/ Returns(t)
         \/ \E label \in Labels \ {"backoff"} : Goto(t, label)
         \/ \E label \in Labels \ {"backoff"}, n \in 0..MaxConns : Send(t, label, n)
  PROVE  task' \in [Tasks -> TaskFields] /\ Retries'
<1>1. task \in [Tasks -> TaskFields] /\ Retries
  BY DEF Fielded
<1>2. ASSUME NEW r \in TaskFields, r.pc # "backoff", task' = [task EXCEPT ![t] = r]
      PROVE  task' \in [Tasks -> TaskFields] /\ Retries'
  BY <1>1, <1>2 DEF Retries
<1>3. CASE UNCHANGED task
  BY <1>1, <1>3 DEF Retries
<1>4. CASE Returns(t)
  <2>1. Returned(t, task[t]).pc = "idle"
    BY <1>1 DEF Returned, TaskFields
  <2> QED
    BY <1>1, <1>2, <1>4, <2>1, TaskTyped DEF Returns
<1>5. ASSUME NEW label \in Labels \ {"backoff"}, Goto(t, label)
      PROVE  task' \in [Tasks -> TaskFields] /\ Retries'
  <2>1. task' = [task EXCEPT ![t] = [task[t] EXCEPT !.pc = label]]
    BY <1>1, <1>5 DEF Goto, TaskFields
  <2>2. [task[t] EXCEPT !.pc = label].pc = label
    BY <1>1 DEF TaskFields
  <2> QED
    BY <1>1, <1>2, <2>1, <2>2, TaskTyped
<1>6. ASSUME NEW label \in Labels \ {"backoff"}, NEW n \in 0..MaxConns, Send(t, label, n)
      PROVE  task' \in [Tasks -> TaskFields] /\ Retries'
  <2>1. task' = [task EXCEPT ![t] = [task[t] EXCEPT !.pc = label, !.conn = n]]
    BY <1>1, <1>6 DEF Send, TaskFields
  <2>2. [task[t] EXCEPT !.pc = label, !.conn = n].pc = label
    BY <1>1 DEF TaskFields
  <2> QED
    BY <1>1, <1>2, <2>1, <2>2, TaskTyped
<1> QED
  BY <1>3, <1>4, <1>5, <1>6


LEMMA ZeroTyped == 0 \in 0..MaxProcs /\ 0 \in 0..MaxConns
OBVIOUS

\* The same for the fields of the client, but for those of a process that is spawned.
LEMMA ClientForms ==
  ASSUME Fielded,
         \/ UNCHANGED client
         \/ client' = Failed(client)
         \/ client' = Reset(client)
         \/ client' = Reset([client EXCEPT !.forceStopping = TRUE])
         \/ \E state \in {"disconnected", "connecting", "connected"} :
              client' = [client EXCEPT !.state = state]
         \/ \E p \in 0..MaxProcs : client' = [client EXCEPT !.actualPort = p]
         \/ \E t \in Tasks : client' = [client EXCEPT !.state = "connecting", !.socket = t]
  PROVE  client' \in ClientFields /\ client'.cliProcess \in {client.cliProcess, 0}
<1>1. PICK c \in ClientFields : c = client
  BY DEF Fielded
<1>2. 0 \in 0..MaxProcs
  BY ZeroTyped
<1>3. /\ Failed(c) \in ClientFields /\ Failed(c).cliProcess = c.cliProcess
      /\ \A state \in {"disconnected", "connecting", "connected"} :
           [c EXCEPT !.state = state] \in ClientFields
           /\ [c EXCEPT !.state = state].cliProcess = c.cliProcess
  BY DEF Failed, ClientFields
<1>4. /\ \A p \in 0..MaxProcs : [c EXCEPT !.actualPort = p] \in ClientFields
                                /\ [c EXCEPT !.actualPort = p].cliProcess = c.cliProcess
      /\ \A t \in Tasks : [c EXCEPT !.state = "connecting", !.socket = t] \in ClientFields
           /\ [c EXCEPT !.state = "connecting", !.socket = t].cliProcess = c.cliProcess
  BY DEF ClientFields
<1>5. \A d \in ClientFields : Reset(d) \in ClientFields /\ Reset(d).cliProcess = 0
  BY <1>2 DEF Reset, ClientFields
<1>6. [c EXCEPT !.forceStopping = TRUE] \in ClientFields
  BY DEF ClientFields
<1> QED
  BY <1>1, <1>3, <1>4, <1>5, <1>6

\* And for the world, when no process is spawned.
LEMMA WorldForms ==
  ASSUME Fielded, client'.cliProcess \in {client.cliProcess, 0},
         \/ UNCHANGED world
         \/ \E p \in 0..MaxProcs : Connect(p)
         \/ \E timers \in SUBSET Tasks : world' = [world EXCEPT !.timers = timers]
         \/ \E destroyed \in SUBSET Tasks : world' = [world EXCEPT !.destroyed = destroyed]
         \/ world' = [world EXCEPT !.objects = world.objects + 1]
         \/ world' = [world EXCEPT !.crashed = TRUE]
         \/ \E p \in 1..MaxProcs : world' = [world EXCEPT !.alive = world.alive \ {p}]
         \/ world' = Terminated(world)
         \/ \E destroyed \in SUBSET Tasks :
              world' = [Terminated(world) EXCEPT !.destroyed = destroyed]
  PROVE  world' \in WorldFields /\ Spawned'
<1>1. PICK w \in WorldFields : w = world
  BY DEF Fielded
<1>2. Spawned /\ client.cliProcess \in 0..MaxProcs
  BY DEF Fielded, ClientFields
<1>3. ASSUME NEW x \in WorldFields, x.procs = w.procs,
             x.alive \subseteq w.alive, x.killed \subseteq w.killed \cup ({client.cliProcess} \ {0}),
             world' = x
      PROVE  world' \in WorldFields /\ Spawned'
  BY <1>1, <1>2, <1>3 DEF Spawned
<1>4. CASE UNCHANGED world
  BY <1>1, <1>3, <1>4
<1>5. ASSUME NEW p \in 0..MaxProcs, Connect(p)
      PROVE  world' \in WorldFields /\ Spawned'
  <2>1. PICK n \in 1..MaxConns : n = w.conns + 1
    <3>1. w.conns \in 0..MaxConns /\ w.conns < MaxConns
      BY <1>1, <1>5 DEF Connect, WorldFields
    <3> QED
      BY <3>1
  <2>2. PICK peer \in [1..MaxConns -> 0..MaxProcs] : peer = [w.peer EXCEPT ![n] = p]
    BY <1>5 DEF WorldFields
  <2>3. n \in 0..MaxConns
    OBVIOUS
  <2> DEFINE x == [w EXCEPT !.conns = n, !.peer = peer]
  <2>4. x \in WorldFields /\ x.procs = w.procs /\ x.alive = w.alive /\ x.killed = w.killed
    BY <2>3 DEF WorldFields
  <2>5. world' = x
    <3>1. world' = [w EXCEPT !.conns = w.conns + 1, !.peer[w.conns + 1] = p]
      BY <1>1, <1>5 DEF Connect
    <3> QED
      BY <2>1, <2>2, <3>1 DEF WorldFields
  <2> QED
    BY <1>3, <2>4, <2>5
<1>6. ASSUME NEW ts \in SUBSET Tasks
      PROVE  /\ [w EXCEPT !.timers = ts] \in WorldFields
             /\ [w EXCEPT !.timers = ts].procs = w.procs
             /\ [w EXCEPT !.timers = ts].alive = w.alive
             /\ [w EXCEPT !.timers = ts].killed = w.killed
  BY DEF WorldFields
<1>7. ASSUME NEW ts \in SUBSET Tasks, NEW v \in WorldFields
      PROVE  /\ [v EXCEPT !.destroyed = ts] \in WorldFields
             /\ [v EXCEPT !.destroyed = ts].procs = v.procs
             /\ [v EXCEPT !.destroyed = ts].alive = v.alive
             /\ [v EXCEPT !.destroyed = ts].killed = v.killed
  BY DEF WorldFields
<1>8. CASE world' = [world EXCEPT !.objects = world.objects + 1]
  <2>1. PICK n \in Nat : n = w.objects + 1
    BY DEF WorldFields
  <2>2. world' = [w EXCEPT !.objects = n]
    BY <1>1, <1>8, <2>1
  <2> DEFINE x == [w EXCEPT !.objects = n]
  <2>3. x \in WorldFields /\ x.procs = w.procs /\ x.alive = w.alive /\ x.killed = w.killed
    BY DEF WorldFields
  <2> QED
    BY <1>3, <2>2, <2>3
<1>9. CASE world' = [world EXCEPT !.crashed = TRUE]
  <2> DEFINE x == [w EXCEPT !.crashed = TRUE]
  <2>1. x \in WorldFields /\ x.procs = w.procs /\ x.alive = w.alive /\ x.killed = w.killed
    BY DEF WorldFields
  <2> QED
    BY <1>1, <1>3, <1>9, <2>1
<1>10. ASSUME NEW p \in 1..MaxProcs, world' = [world EXCEPT !.alive = world.alive \ {p}]
       PROVE  world' \in WorldFields /\ Spawned'
  <2>1. PICK alive \in SUBSET (1..MaxProcs) : alive = w.alive \ {p}
    BY DEF WorldFields
  <2>2. world' = [w EXCEPT !.alive = alive]
    BY <1>1, <1>10, <2>1
  <2> DEFINE x == [w EXCEPT !.alive = alive]
  <2>3. x \in WorldFields /\ x.procs = w.procs /\ x.alive = alive /\ x.killed = w.killed
    BY DEF WorldFields
  <2> QED
    BY <1>3, <2>1, <2>2, <2>3
<1>11. /\ Terminated(w) \in WorldFields /\ Terminated(w).procs = w.procs
       /\ Terminated(w).alive = w.alive
       /\ Terminated(w).killed \subseteq w.killed \cup ({client.cliProcess} \ {0})
  <2>1. PICK killed \in SUBSET (1..MaxProcs) : killed = w.killed \cup ({client.cliProcess} \ {0})
    <3>1. w.killed \subseteq 1..MaxProcs /\ {client.cliProcess} \ {0} \subseteq 1..MaxProcs
      BY <1>2 DEF WorldFields
    <3> QED
      BY <3>1
  <2>2. PICK timers \in SUBSET Tasks : timers = w.timers \ {client.cliStartTimeout}
    BY DEF WorldFields
  <2>3. Terminated(w) = [w EXCEPT !.killed = killed, !.timers = timers]
    BY <2>1, <2>2 DEF Terminated
  <2> QED
    BY <2>1, <2>3 DEF WorldFields
<1>12. ASSUME NEW ts \in SUBSET Tasks, world' = [Terminated(world) EXCEPT !.destroyed = ts]
       PROVE  world' \in WorldFields /\ Spawned'
  <2>1. PICK v \in WorldFields : v = Terminated(w)
    BY <1>11
  <2> DEFINE x == [v EXCEPT !.destroyed = ts]
  <2>2. x \in WorldFields /\ x.procs = v.procs /\ x.alive = v.alive /\ x.killed = v.killed
    BY <1>7
  <2>3. world' = x
    BY <1>1, <1>12, <2>1
  <2> QED
    BY <1>3, <1>11, <2>1, <2>2, <2>3
<1>13. CASE world' = Terminated(world)
  BY <1>1, <1>3, <1>11, <1>13
<1>14. ASSUME NEW ts \in SUBSET Tasks, world' = [world EXCEPT !.timers = ts]
       PROVE  world' \in WorldFields /\ Spawned'
  BY <1>1, <1>3, <1>6, <1>14
<1>15. ASSUME NEW ts \in SUBSET Tasks, world' = [world EXCEPT !.destroyed = ts]
       PROVE  world' \in WorldFields /\ Spawned'
  <2> DEFINE x == [w EXCEPT !.destroyed = ts]
  <2>1. x \in WorldFields /\ x.procs = w.procs /\ x.alive = w.alive /\ x.killed = w.killed
    BY <1>7
  <2>2. world' = x
    BY <1>1, <1>15
  <2> QED
    BY <1>3, <2>1, <2>2
<1> QED
  BY <1>4, <1>5, <1>8, <1>9, <1>10, <1>12, <1>13, <1>14, <1>15


TaskGood == task' \in [Tasks -> TaskFields] /\ Retries'
ClientGood == client' \in ClientFields /\ client'.cliProcess \in {client.cliProcess, 0}
WorldGood == world' \in WorldFields /\ Spawned'

LEMMA FieldedFrom ==
  ASSUME Fielded, Numbered', UNCHANGED options, TaskGood, WorldGood, client' \in ClientFields,
         sessions' \in [SessionIds -> Entries \cup {None}], history' \in HistoryFields
  PROVE  Fielded'
<1>1. connection' \in 0..MaxConns
  <2>1. world'.conns \in 0..MaxConns /\ connection' \in 0..world'.conns
    BY DEF WorldGood, WorldFields, Numbered
  <2> QED
    BY <2>1
<1> QED
  BY <1>1 DEF Fielded, TaskGood, WorldGood

\* connectViaTcp.
LEMMA SocketTyped ==
  ASSUME Fielded, NEW t \in Tasks, NEW p \in 0..MaxProcs, OpenSocket(t, p)
  PROVE  TaskGood /\ ClientGood /\ WorldGood
<1>1. ClientGood
  BY ClientForms DEF OpenSocket, ClientGood
<1>2. WorldGood
  <2>1. PICK destroyed \in SUBSET Tasks : destroyed = world.destroyed \ {t}
    BY DEF Fielded, WorldFields
  <2>2. world' = [world EXCEPT !.destroyed = destroyed]
    BY <2>1 DEF OpenSocket
  <2> QED
    BY <1>1, <2>2, WorldForms DEF ClientGood, WorldGood
<1>3. TaskGood
  <2>1. PICK r \in TaskFields : r = task[t]
    BY DEF Fielded
  <2>2. task' = [task EXCEPT ![t] = [r EXCEPT !.pc = "connecting", !.peer = p]]
    BY <2>1 DEF OpenSocket, Fielded, TaskFields
  <2>3. /\ [r EXCEPT !.pc = "connecting", !.peer = p] \in TaskFields
        /\ [r EXCEPT !.pc = "connecting", !.peer = p].pc = "connecting"
    BY DEF TaskFields, Labels, StartSteps
  <2> QED
    BY <2>2, <2>3 DEF TaskGood, Fielded, Retries
<1> QED
  BY <1>1, <1>2, <1>3

\* startCLIServer.
LEMMA SpawnTyped ==
  ASSUME Fielded, NEW t \in Tasks, Spawn(t)
  PROVE  TaskGood /\ client' \in ClientFields /\ WorldGood
<1>1. PICK w \in WorldFields : w = world
  BY DEF Fielded
<1>2. PICK p \in 1..MaxProcs : p = w.procs + 1 /\ p \in 0..MaxProcs
  <2>1. w.procs \in 0..MaxProcs /\ w.procs < MaxProcs
    BY <1>1 DEF WorldFields, Spawn
  <2> QED
    BY <2>1
<1>3. client' \in ClientFields /\ client'.cliProcess = p
  <2>1. PICK c \in ClientFields : c = client
    BY DEF Fielded
  <2> DEFINE d == [c EXCEPT !.state = "connecting", !.cliProcess = p, !.processExit = p,
                            !.cliStartTimeout = t]
  <2>2. client' = d
    BY <1>1, <1>2, <2>1 DEF Spawn
  <2>3. d \in ClientFields /\ d.cliProcess = p
    BY <1>2 DEF ClientFields
  <2> QED
    BY <2>2, <2>3
<1>4. WorldGood
  <2>1. PICK alive \in SUBSET (1..MaxProcs) : alive = w.alive \cup {p}
    BY DEF WorldFields
  <2>2. PICK timers \in SUBSET Tasks : timers = w.timers \cup {t}
    BY DEF WorldFields
  <2> DEFINE x == [w EXCEPT !.procs = p, !.alive = alive, !.timers = timers]
  <2>3. world' = x
    BY <1>1, <1>2, <2>1, <2>2 DEF Spawn
  <2>4. x \in WorldFields /\ x.procs = p /\ x.alive = alive /\ x.killed = w.killed
    BY <1>2 DEF WorldFields
  <2>5. w.alive \cup w.killed \subseteq 1..w.procs /\ w.procs \in Nat
    BY <1>1 DEF Fielded, Spawned, WorldFields
  <2>6. w.alive \cup w.killed \cup {p} \subseteq 1..p
    BY <1>2, <2>5
  <2> HIDE DEF x
  <2>7. alive \cup w.killed \cup ({p} \ {0}) \subseteq 1..p
    BY <2>1, <2>6
  <2>8. world'.alive \cup world'.killed \cup ({client'.cliProcess} \ {0}) \subseteq 1..world'.procs
    BY <1>3, <2>3, <2>4, <2>7
  <2> QED
    BY <2>3, <2>4, <2>8 DEF WorldGood, Spawned
<1>5. TaskGood
  <2>1. PICK r \in TaskFields : r = task[t]
    BY DEF Fielded
  <2>2. PICK label \in {"connect", "port"} :
          task' = [task EXCEPT ![t] = [r EXCEPT !.proc = p, !.pc = label]]
    BY <1>1, <1>2, <2>1 DEF Spawn, Fielded, TaskFields
  <2>3. /\ [r EXCEPT !.proc = p, !.pc = label] \in TaskFields
        /\ [r EXCEPT !.proc = p, !.pc = label].pc = label
    BY <1>2 DEF TaskFields, Labels, StartSteps
  <2> QED
    BY <2>2, <2>3 DEF TaskGood, Fielded, Retries
<1> QED
  BY <1>3, <1>4, <1>5


\* A step that gives the client, the world and the task one of the forms above.
LEMMA FormsTyped ==
  ASSUME Fielded, Numbered', UNCHANGED options, TaskGood, ClientGood, WorldGood,
         UNCHANGED sessions \/ sessions' \in [SessionIds -> Entries \cup {None}],
         UNCHANGED history \/ history' \in HistoryFields
  PROVE  Fielded'
BY FieldedFrom DEF ClientGood, Fielded

LEMMA StartFailsTyped ==
  ASSUME Fielded, NEW t \in Tasks, StartFails(t)
  PROVE  TaskGood /\ ClientGood
BY TaskForms, ClientForms DEF StartFails, TaskGood, ClientGood

LEMMA StartedTyped ==
  ASSUME Fielded, NEW t \in Tasks, Started(t)
  PROVE  TaskGood
BY TaskForms DEF Started, TaskGood, Labels

LEMMA WorldSame ==
  ASSUME Fielded, ClientGood, UNCHANGED world
  PROVE  WorldGood
BY WorldForms DEF ClientGood, WorldGood

LEMMA ClientSame ==
  ASSUME Fielded, UNCHANGED client
  PROVE  ClientGood
BY ClientForms DEF ClientGood

\* The connection of the client, as long as requests can be sent on it.
LEMMA ConnTyped == ASSUME Fielded PROVE connection \in 0..MaxConns
BY DEF Fielded

LEMMA VerifiedTyped ==
  ASSUME Fielded, NEW t \in Tasks
  PROVE  [history EXCEPT !.verified = @ \cup {task[t].conn}] \in HistoryFields
<1>1. PICK h \in HistoryFields : h = history
  BY DEF Fielded
<1>2. PICK verified \in SUBSET (0..MaxConns) : verified = h.verified \cup {task[t].conn}
  <2>1. task[t].conn \in 0..MaxConns
    BY DEF Fielded, TaskFields
  <2> QED
    BY <2>1 DEF HistoryFields
<1>3. [h EXCEPT !.verified = verified] \in HistoryFields
  BY DEF HistoryFields
<1> QED
  BY <1>1, <1>2, <1>3

\* Where the socket and the port of the client lead.
LEMMA PeersTyped ==
  ASSUME Fielded
  PROVE  /\ client.cliProcess \in 0..MaxProcs /\ client.processExit \in 0..MaxProcs
         /\ client.actualPort # None => client.actualPort \in 0..MaxProcs
         /\ client.socket # None => task[client.socket].peer \in 0..MaxProcs
         /\ \A t \in Tasks : task[t].proc \in 0..MaxProcs
BY DEF Fielded, ClientFields, TaskFields

LEMMA TypedStart ==
  ASSUME Fielded, Numbered', NEW t \in Tasks, StartNext(t)
  PROVE  Fielded'
<1>1. CASE start(t)
  <2>1. UNCHANGED <<options, sessions>>
    BY <1>1 DEF start
  <2>2. CASE StartBegins(t)
    <3>1. history' \in HistoryFields
      <4>1. PICK b \in BOOLEAN :
              b = (history.overlapped \/ \E u \in Tasks \ {t} : task[u].pc \in StartSteps)
        BY DEF Fielded, HistoryFields
      <4>2. history' = [history EXCEPT !.overlapped = b]
        BY <2>2, <4>1 DEF StartBegins
      <4> QED
        BY <4>2 DEF Fielded, HistoryFields
    <3>2. CASE isExternalServer /\ StartExternal(t)
      <4>1. CASE OpenSocket(t, 0)
        BY <2>1, <3>1, <4>1, ZeroTyped, SocketTyped, FormsTyped
      <4>2. CASE Connect(0) /\ client' = [client EXCEPT !.state = "connecting"] /\ Goto(t, "verify")
        <5>1. ClientGood /\ TaskGood
          BY <4>2, ClientForms, TaskForms DEF ClientGood, TaskGood, Labels, StartSteps
        <5>2. WorldGood
          BY <4>2, <5>1, ZeroTyped, WorldForms DEF ClientGood, WorldGood
        <5> QED
          BY <2>1, <3>1, <5>1, <5>2, FormsTyped
      <4>3. CASE StartFails(t) /\ UNCHANGED world
        BY <2>1, <3>1, <4>3, StartFailsTyped, WorldSame, FormsTyped
      <4> QED
        BY <3>2, <4>1, <4>2, <4>3 DEF StartExternal
    <3>3. CASE Spawn(t)
      BY <2>1, <3>1, <3>3, SpawnTyped, FieldedFrom DEF Fielded
    <3>4. CASE StartFails(t) /\ UNCHANGED world
      BY <2>1, <3>1, <3>4, StartFailsTyped, WorldSame, FormsTyped
    <3> QED
      BY <2>2, <3>2, <3>3, <3>4 DEF StartBegins
  <2>3. CASE Started(t) /\ UNCHANGED <<connVars, client, world, history>>
    BY <2>1, <2>3, StartedTyped, ClientSame, WorldSame, FormsTyped
  <2> QED
    BY <1>1, <2>2, <2>3 DEF start
<1>2. CASE StartPort(t)
  <2>1. UNCHANGED <<options, sessions, history>>
    BY <1>2 DEF StartPort
  <2>2. TaskGood /\ ClientGood
    <3>1. CASE StartFails(t)
      BY <3>1, StartFailsTyped
    <3>2. CASE client' = [client EXCEPT !.actualPort = task[t].proc] /\ Goto(t, "connect")
      BY <3>2, PeersTyped, ClientForms, TaskForms DEF ClientGood, TaskGood, Labels, StartSteps
    <3> QED
      BY <1>2, <3>1, <3>2 DEF StartPort
  <2>3. WorldGood
    <3>1. PICK timers \in SUBSET Tasks : timers = world.timers \ {t}
      BY DEF Fielded, WorldFields
    <3>2. world' = [world EXCEPT !.timers = timers]
      BY <1>2, <3>1 DEF StartPort
    <3> QED
      BY <2>2, <3>2, WorldForms DEF ClientGood, WorldGood
  <2> QED
    BY <2>1, <2>2, <2>3, FormsTyped
<1>3. CASE StartConnect(t)
  <2>1. UNCHANGED <<options, sessions, history>>
    BY <1>3 DEF StartConnect
  <2>2. CASE Connect(client.cliProcess) /\ Goto(t, "verify") /\ UNCHANGED client
    <3>1. ClientGood /\ TaskGood
      BY <2>2, ClientSame, TaskForms DEF TaskGood, Labels, StartSteps
    <3>2. WorldGood
      BY <2>2, <3>1, PeersTyped, WorldForms DEF ClientGood, WorldGood
    <3> QED
      BY <2>1, <3>1, <3>2, FormsTyped
  <2>3. CASE client.actualPort # None /\ OpenSocket(t, client.actualPort)
    BY <2>1, <2>3, PeersTyped, SocketTyped, FormsTyped
  <2>4. CASE StartFails(t) /\ UNCHANGED world
    BY <2>1, <2>4, StartFailsTyped, WorldSame, FormsTyped
  <2> QED
    BY <1>3, <2>2, <2>3, <2>4 DEF StartConnect
<1>4. CASE SocketConnects(t)
  <2>1. UNCHANGED <<options, sessions, history, client>>
    BY <1>4 DEF SocketConnects
  <2>2. ClientGood
    BY <2>1, ClientSame
  <2>3. CASE world' = [world EXCEPT !.crashed = TRUE] /\ UNCHANGED task
    BY <2>1, <2>2, <2>3, TaskForms, WorldForms, FormsTyped DEF ClientGood, TaskGood, WorldGood
  <2>4. CASE client.socket # None /\ Connect(task[client.socket].peer) /\ Goto(t, "verify")
    <3>1. TaskGood
      BY <2>4, TaskForms DEF TaskGood, Labels, StartSteps
    <3>2. WorldGood
      BY <2>2, <2>4, PeersTyped, WorldForms DEF ClientGood, WorldGood
    <3> QED
      BY <2>1, <2>2, <3>1, <3>2, FormsTyped
  <2> QED
    BY <1>4, <2>3, <2>4 DEF SocketConnects
<1>5. CASE SocketFails(t) \/ StartPingFails(t)
  BY <1>5, StartFailsTyped, WorldSame, FormsTyped DEF SocketFails, StartPingFails
<1>6. CASE StartPing(t)
  <2>1. UNCHANGED <<options, sessions, history, world>>
    BY <1>6 DEF StartPing
  <2>2. CASE StartFails(t)
    BY <2>1, <2>2, StartFailsTyped, WorldSame, FormsTyped
  <2>3. CASE /\ task' = [task EXCEPT ![t].pc = "ping", ![t].conn = connection,
                                     ![t].proc = client.processExit]
             /\ UNCHANGED client
    <3>1. PICK r \in TaskFields : r = task[t]
      BY DEF Fielded
    <3>2. PICK n \in 0..MaxConns : n = connection
      BY ConnTyped
    <3>3. PICK p \in 0..MaxProcs : p = client.processExit
      BY PeersTyped
    <3>4. task' = [task EXCEPT ![t] = [r EXCEPT !.pc = "ping", !.conn = n, !.proc = p]]
      BY <2>3, <3>1, <3>2, <3>3 DEF Fielded, TaskFields
    <3>5. /\ [r EXCEPT !.pc = "ping", !.conn = n, !.proc = p] \in TaskFields
          /\ [r EXCEPT !.pc = "ping", !.conn = n, !.proc = p].pc = "ping"
      BY DEF TaskFields, Labels, Requesting
    <3>6. TaskGood
      BY <3>4, <3>5 DEF TaskGood, Fielded, Retries
    <3> QED
      BY <2>1, <2>3, <3>6, ClientSame, WorldSame, FormsTyped
  <2> QED
    BY <1>6, <2>2, <2>3 DEF StartPing
<1>7. CASE StartPinged(t)
  <2>1. UNCHANGED <<options, sessions, world>>
    BY <1>7 DEF StartPinged
  <2>2. UNCHANGED history \/ history' \in HistoryFields
    BY <1>7, VerifiedTyped DEF StartPinged
  <2>3. CASE Started(t) /\ client' = [client EXCEPT !.state = "connected"]
    BY <2>1, <2>2, <2>3, StartedTyped, ClientForms, WorldSame, FormsTyped DEF ClientGood
  <2>4. CASE Send(t, "setProvider", connection) /\ UNCHANGED client
    <3>1. TaskGood
      BY <2>4, ConnTyped, TaskForms DEF TaskGood, Labels, StartSteps
    <3> QED
      BY <2>1, <2>2, <2>4, <3>1, ClientSame, WorldSame, FormsTyped
  <2>5. CASE StartFails(t)
    BY <2>1, <2>2, <2>5, StartFailsTyped, WorldSame, FormsTyped
  <2> QED
    BY <1>7, <2>3, <2>4, <2>5 DEF StartPinged
<1>8. CASE StartProviderSet(t)
  <2>1. UNCHANGED <<options, sessions, world, history>>
    BY <1>8 DEF StartProviderSet
  <2>2. CASE Started(t) /\ client' = [client EXCEPT !.state = "connected"]
    BY <2>1, <2>2, StartedTyped, ClientForms, WorldSame, FormsTyped DEF ClientGood
  <2>3. CASE StartFails(t)
    BY <2>1, <2>3, StartFailsTyped, WorldSame, FormsTyped
  <2> QED
    BY <1>8, <2>2, <2>3 DEF StartProviderSet
<1> QED
  BY <1>1, <1>2, <1>3, <1>4, <1>5, <1>6, <1>7, <1>8 DEF StartNext


\* What a step leaves in the Map of sessions.
LEMMA EntrySet ==
  ASSUME Fielded, NEW id, sessions' = [sessions EXCEPT ![id] = SetEntry(id, world.objects + 1)]
  PROVE  sessions' \in [SessionIds -> Entries \cup {None}]
<1>1. sessions \in [SessionIds -> Entries \cup {None}]
  BY DEF Fielded
<1>2. CASE id \notin SessionIds
  BY <1>1, <1>2
<1>3. CASE id \in SessionIds
  <2>1. PICK object \in Nat : object = world.objects + 1
    BY DEF Fielded, WorldFields
  <2>2. PICK n \in 0..MaxConns : n = connection
    BY ConnTyped
  <2>3. PICK slot \in Nat : slot = IF sessions[id] = None THEN object ELSE sessions[id].slot
    BY <1>1, <1>3 DEF Entries
  <2>4. [slot |-> slot, object |-> object, conn |-> n] \in Entries
    BY DEF Entries
  <2>5. SetEntry(id, world.objects + 1) = [slot |-> slot, object |-> object, conn |-> n]
    BY <2>1, <2>2, <2>3 DEF SetEntry
  <2> QED
    BY <1>1, <1>3, <2>4, <2>5
<1> QED
  BY <1>2, <1>3

LEMMA EntryCleared ==
  ASSUME Fielded, NEW id, sessions' = [sessions EXCEPT ![id] = None]
  PROVE  sessions' \in [SessionIds -> Entries \cup {None}]
BY DEF Fielded

LEMMA TypedSession ==
  ASSUME Fielded, Numbered', NEW t \in Tasks, SessionNext(t)
  PROVE  Fielded'
<1>1. CASE OpenRegister(t)
  <2>1. UNCHANGED <<options, client, history>> /\ world' = [world EXCEPT !.objects = world.objects + 1]
    BY <1>1 DEF OpenRegister
  <2>2. ClientGood
    BY <2>1, ClientSame
  <2>3. WorldGood
    BY <2>1, <2>2, WorldForms DEF ClientGood, WorldGood
  <2>4. TaskGood
    BY <1>1, ConnTyped, TaskForms DEF OpenRegister, TaskGood, Labels, Requesting
  <2>5. sessions' \in [SessionIds -> Entries \cup {None}]
    BY <1>1, EntrySet, EntryCleared DEF OpenRegister
  <2> QED
    BY <2>1, <2>2, <2>3, <2>4, <2>5, FormsTyped
<1>2. CASE OpenFails(t) \/ DeleteReturns(t)
  <2>1. UNCHANGED <<options, client, world, history>> /\ Returns(t)
    BY <1>2 DEF OpenFails, DeleteReturns
  <2>2. UNCHANGED sessions \/ sessions' \in [SessionIds -> Entries \cup {None}]
    BY <1>2, EntryCleared DEF OpenFails, DeleteReturns
  <2> QED
    BY <2>1, <2>2, TaskForms, ClientSame, WorldSame, FormsTyped DEF TaskGood
<1>3. CASE open(t) \/ OpenAnswered(t) \/ query(t) \/ deleteSession(t) \/ QueryReturns(t)
  <2>1. UNCHANGED <<options, client, sessions, world, history>>
    BY <1>3 DEF open, OpenAnswered, query, deleteSession, Ask, QueryReturns
  <2>2. TaskGood
    BY <1>3, ConnTyped, TaskForms DEF open, OpenAnswered, query, deleteSession, Ask,
           QueryReturns, TaskGood, Labels, Requesting
  <2> QED
    BY <2>1, <2>2, ClientSame, WorldSame, FormsTyped
<1> QED
  BY <1>1, <1>2, <1>3 DEF SessionNext

\* stop asks a session, a first time or again.
LEMMA AttemptTyped ==
  ASSUME Fielded, NEW t \in Tasks, NEW r \in TaskFields, NEW n \in 0..MaxConns,
         task' = [task EXCEPT ![t] = Disconnecting(t, r, n)]
  PROVE  TaskGood
<1>1. PICK d \in TaskFields :
        d = Disconnecting(t, r, n) /\ (d.pc = "backoff" => d.attempt < 3)
  <2>1. \A label \in {"disconnecting", "backoff", "stop"} :
          /\ [r EXCEPT !.pc = label, !.conn = n] \in TaskFields
          /\ [r EXCEPT !.pc = label, !.conn = n].pc = label
          /\ [r EXCEPT !.pc = label, !.conn = n].attempt = r.attempt
    BY DEF TaskFields, Labels, Requesting
  <2>2. \E label \in {"disconnecting", "backoff", "stop"} :
          /\ Disconnecting(t, r, n) = [r EXCEPT !.pc = label, !.conn = n]
          /\ label = "backoff" => r.attempt < 3
    BY DEF Disconnecting
  <2> QED
    BY <2>1, <2>2
<1> QED
  BY <1>1 DEF TaskGood, Fielded, Retries

\* What stop knows of the session it asks.
LEMMA VisitTyped ==
  ASSUME Fielded, NEW t \in Tasks, NEW id \in SessionIds, sessions[id] # None
  PROVE  Visiting(t, sessions[id]) \in TaskFields /\ sessions[id].conn \in 0..MaxConns
<1>1. PICK r \in TaskFields : r = task[t]
  BY DEF Fielded
<1>2. PICK e \in Entries : e = sessions[id]
  BY DEF Fielded
<1>3. PICK visited \in SUBSET Nat : visited = r.visited \cup {e.slot}
  BY DEF TaskFields, Entries
<1>4. [r EXCEPT !.visited = visited, !.attempt = 1] \in TaskFields
  <2>1. 1 \in 0..3
    OBVIOUS
  <2> QED
    BY <2>1 DEF TaskFields
<1>5. Visiting(t, e) = [r EXCEPT !.visited = visited, !.attempt = 1]
  BY <1>1, <1>3 DEF Visiting, TaskFields
<1> QED
  BY <1>2, <1>4, <1>5 DEF Entries

LEMMA RetryTyped ==
  ASSUME Fielded, NEW t \in Tasks, At(t, "backoff")
  PROVE  Retrying(t) \in TaskFields /\ task[t].conn \in 0..MaxConns
<1>1. PICK r \in TaskFields : r = task[t]
  BY DEF Fielded
<1>2. PICK n \in 0..3 : n = r.attempt + 1
  <2>1. r.attempt \in 0..3 /\ r.attempt < 3
    BY <1>1 DEF At, Fielded, Retries, TaskFields
  <2> QED
    BY <2>1
<1>3. [r EXCEPT !.attempt = n] \in TaskFields
  BY DEF TaskFields
<1>4. Retrying(t) = [r EXCEPT !.attempt = n]
  BY <1>1, <1>2 DEF Retrying, TaskFields
<1> QED
  BY <1>1, <1>3, <1>4 DEF TaskFields

LEMMA TypedStop ==
  ASSUME Fielded, Numbered', NEW t \in Tasks, StopNext(t)
  PROVE  Fielded'
<1>1. PICK r \in TaskFields : r = task[t]
  BY DEF Fielded
<1>2. CASE StopVisit(t)
  <2>1. UNCHANGED <<options, client, sessions, world>>
    BY <1>2 DEF StopVisit
  <2>2. PICK id \in SessionIds :
          /\ sessions[id] # None
          /\ task' = [task EXCEPT ![t] =
               Disconnecting(t, Visiting(t, sessions[id]), sessions[id].conn)]
          /\ history' = [history EXCEPT !.tried = @ \cup {sessions[id].object}]
    <3>1. \A id \in SessionIds : IsNextSession(t, id) => sessions[id] # None
      BY DEF IsNextSession, Unvisited
    <3> QED
      BY <1>2, <3>1 DEF StopVisit
  <2>3. PICK e \in Entries : e = sessions[id]
    BY <2>2 DEF Fielded
  <2>4. e.slot \in Nat /\ e.object \in Nat /\ e.conn \in 0..MaxConns
    BY DEF Entries
  <2>5. TaskGood
    BY <2>2, VisitTyped, AttemptTyped
  <2>6. history' \in HistoryFields
    <3>1. PICK h \in HistoryFields : h = history
      BY DEF Fielded
    <3>2. PICK tried \in SUBSET Nat : tried = h.tried \cup {e.object}
      BY <2>4 DEF HistoryFields
    <3>3. [h EXCEPT !.tried = tried] \in HistoryFields
      BY DEF HistoryFields
    <3> QED
      BY <2>2, <2>3, <3>1, <3>2, <3>3
  <2> QED
    BY <2>1, <2>5, <2>6, ClientSame, WorldSame, FormsTyped
<1>3. CASE StopRetries(t)
  <2>1. UNCHANGED <<options, client, sessions, world, history>>
    BY <1>3 DEF StopRetries
  <2>2. TaskGood
    BY <1>3, RetryTyped, AttemptTyped DEF StopRetries
  <2> QED
    BY <2>1, <2>2, ClientSame, WorldSame, FormsTyped
<1>4. CASE StopDisconnected(t)
  <2>1. UNCHANGED <<options, client, sessions, world, history>> /\ Goto(t, "stop")
    BY <1>4 DEF StopDisconnected
  <2> QED
    BY <2>1, TaskForms, ClientSame, WorldSame, FormsTyped DEF TaskGood, Labels
<1>5. CASE StopDisconnectFails(t)
  <2>1. UNCHANGED <<options, client, sessions, world, history>>
    BY <1>5 DEF StopDisconnectFails
  <2>2. PICK label \in {"backoff", "stop"} :
          Goto(t, label) /\ (label = "backoff" => r.attempt < 3)
    BY <1>1, <1>5 DEF StopDisconnectFails
  <2>3. PICK x \in TaskFields :
          x = [r EXCEPT !.pc = label] /\ x.pc = label /\ x.attempt = r.attempt
    <3>1. label \in Labels
      BY DEF Labels
    <3> QED
      BY <3>1, PcTyped
  <2>4. task' = [task EXCEPT ![t] = x]
    BY <1>1, <2>2, <2>3 DEF Goto, Fielded
  <2>5. TaskGood
    BY <2>2, <2>3, <2>4 DEF TaskGood, Fielded, Retries
  <2> QED
    BY <2>1, <2>5, ClientSame, WorldSame, FormsTyped
<1>6. CASE StopEnds(t) \/ forceStop(t)
  <2>1. UNCHANGED <<options, history>> /\ Returns(t) /\ sessions' = [id \in SessionIds |-> None]
    BY <1>6 DEF StopEnds, forceStop
  <2>2. ClientGood
    BY <1>6, ClientForms DEF StopEnds, forceStop, ClientGood
  <2>3. WorldGood
    <3>1. CASE StopEnds(t)
      BY <2>2, <3>1, WorldForms DEF StopEnds, ClientGood, WorldGood
    <3>2. CASE forceStop(t)
      <4>1. PICK destroyed \in SUBSET Tasks :
              destroyed = Terminated(world).destroyed \cup ({client.socket} \ {None})
        BY DEF Terminated, Fielded, WorldFields, ClientFields
      <4>2. world' = [Terminated(world) EXCEPT !.destroyed = destroyed]
        BY <3>2, <4>1 DEF forceStop
      <4> QED
        BY <2>2, <4>2, WorldForms DEF ClientGood, WorldGood
    <3> QED
      BY <1>6, <3>1, <3>2
  <2>4. sessions' \in [SessionIds -> Entries \cup {None}]
    BY <2>1
  <2> QED
    BY <2>1, <2>2, <2>3, <2>4, TaskForms, FormsTyped DEF TaskGood
<1> QED
  BY <1>2, <1>3, <1>4, <1>5, <1>6 DEF StopNext

\* The application calls an operation.
LEMMA TypedCall ==
  ASSUME Fielded, Numbered', NEW t \in Tasks, NEW o \in AllOps, Call(t, o)
  PROVE  Fielded'
<1>1. PICK r \in TaskFields : r = task[t]
  BY DEF Fielded
<1>2. PICK id \in SessionIds \cup {None} :
        task' = [task EXCEPT ![t].op = o, ![t].pc = o, ![t].calls = @ + 1, ![t].id = id]
  BY DEF Call
<1>3. PICK calls \in Nat : calls = r.calls + 1
  BY DEF TaskFields
<1>4. o \in Labels \ {"backoff"}
  BY DEF AllOps, Labels
<1>5. PICK x \in TaskFields :
        x = [r EXCEPT !.op = o, !.pc = o, !.calls = calls, !.id = id] /\ x.pc = o
  <2>1. PICK y \in TaskFields : y = [r EXCEPT !.pc = o] /\ y.pc = o
    BY <1>4, PcTyped
  <2>2. [y EXCEPT !.op = o, !.calls = calls, !.id = id] \in TaskFields
    BY DEF TaskFields
  <2>3. [y EXCEPT !.op = o, !.calls = calls, !.id = id].pc = y.pc
    BY DEF TaskFields
  <2>4. [y EXCEPT !.op = o, !.calls = calls, !.id = id]
          = [r EXCEPT !.op = o, !.pc = o, !.calls = calls, !.id = id]
    BY <2>1 DEF TaskFields
  <2> QED
    BY <2>1, <2>2, <2>3, <2>4
<1>6. task' = [task EXCEPT ![t] = x]
  BY <1>1, <1>2, <1>3, <1>5 DEF Fielded, TaskFields
<1>7. TaskGood
  BY <1>4, <1>5, <1>6 DEF TaskGood, Fielded, Retries
<1> QED
  BY <1>7, ClientSame, WorldSame, FormsTyped DEF Call

LEMMA TypedWorld ==
  ASSUME Fielded, Numbered', WorldNext
  PROVE  Fielded'
<1>1. UNCHANGED <<options, sessions, task, history>>
  BY DEF WorldNext, ProcessExits, OnClose, OnError, StdinError
<1>2. TaskGood
  BY <1>1 DEF TaskGood, Fielded, Retries
<1>3. ClientGood
  BY ClientForms DEF WorldNext, ProcessExits, OnClose, OnError, StdinError, ClientGood
<1>4. WorldGood
  BY <1>3, WorldForms DEF WorldNext, ProcessExits, OnClose, OnError, StdinError, ClientGood, WorldGood
<1> QED
  BY <1>1, <1>2, <1>3, <1>4, FormsTyped

LEMMA TypedNext == Fielded /\ Numbered' /\ [Next]_vars => Fielded'
<1> SUFFICES ASSUME Fielded, Numbered', [Next]_vars PROVE Fielded'
  OBVIOUS
<1>1. ASSUME NEW t \in Tasks, ListNext(t) PROVE Fielded'
  <2>1. UNCHANGED <<options, client, sessions, world, history>>
    BY <1>1 DEF ListNext
  <2>2. TaskGood
    BY <1>1, TaskForms DEF ListNext, TaskGood, Labels
  <2> QED
    BY <2>1, <2>2, ClientSame, WorldSame, FormsTyped
<1>2. CASE UNCHANGED vars
  <2>1. UNCHANGED <<options, client, sessions, task, world, history>>
    BY <1>2 DEF vars
  <2>2. TaskGood
    BY <2>1 DEF TaskGood, Fielded, Retries
  <2> QED
    BY <2>1, <2>2, ClientSame, WorldSame, FormsTyped
<1> QED
  BY <1>1, <1>2, TypedStart, TypedSession, TypedStop, TypedCall, TypedWorld DEF Next, TaskNext

LEMMA TypedInit == Init => Fielded
<1> SUFFICES ASSUME Init PROVE Fielded
  OBVIOUS
<1>1. options \in Options /\ connection \in 0..MaxConns
  BY ZeroTyped DEF Init, ModelsInit
<1>2. client \in ClientFields /\ client.cliProcess = 0
  BY ZeroTyped DEF Init, ClientFields
<1>3. sessions \in [SessionIds -> Entries \cup {None}]
  BY DEF Init
<1>4. task \in [Tasks -> TaskFields] /\ Retries
  <2> DEFINE r == [op |-> "none", pc |-> "idle", calls |-> 0, id |-> None,
                   conn |-> 0, proc |-> 0, peer |-> 0, visited |-> {}, attempt |-> 0]
  <2>1. r \in TaskFields /\ r.pc = "idle"
    <3>1. 0 \in Nat /\ {} \in SUBSET Nat /\ 0 \in 0..3 /\ "idle" \in Labels
      BY DEF Labels
    <3> QED
      BY <3>1, ZeroTyped DEF TaskFields
  <2>2. task = [t \in Tasks |-> r]
    BY DEF Init
  <2> HIDE DEF r
  <2> QED
    BY <2>1, <2>2 DEF Retries
<1>5. world \in WorldFields /\ Spawned
  <2>1. PICK peer \in [1..MaxConns -> 0..MaxProcs] : peer = [n \in 1..MaxConns |-> 0]
    BY ZeroTyped
  <2>2. world = [procs |-> 0, alive |-> {}, killed |-> {}, conns |-> 0, peer |-> peer,
                 timers |-> {}, destroyed |-> {}, objects |-> 0, crashed |-> FALSE]
    BY <2>1 DEF Init
  <2>3. world \in WorldFields
    BY <2>2, ZeroTyped DEF WorldFields
  <2>4. world.alive = {} /\ world.killed = {}
    BY <2>2
  <2> QED
    BY <1>2, <2>3, <2>4 DEF Spawned
<1>6. history \in HistoryFields
  BY DEF Init, HistoryFields
<1> QED
  BY <1>1, <1>2, <1>3, <1>4, <1>5, <1>6 DEF Fielded

\* The client keeps to its types: a process it knows was spawned, a connection it holds was
\* made, stop makes no fourth attempt (client.ts).
THEOREM ClientTyped == Spec => []TypeOK
<1>1. Numbered /\ [Next]_vars => Numbered'
  BY NextStep, StepNumbered
<1>2. Spec => []Numbered
  BY <1>1, InitNumbered, PTL DEF Spec
<1>3. Spec => []Fielded
  BY <1>2, TypedInit, TypedNext, PTL DEF Spec
<1>4. Spec => []ModelsTypeOK
  BY ClientIsModels, ModelsTyped, PTL
<1> QED
  BY <1>2, <1>3, <1>4, TypedParts, PTL


----------------------------------------------------------------------------
(* The state of the client *)

\* Of starts that do not overlap there is one at a time.
OneStart ==
  \A t, u \in Tasks : task[t].pc \in StartSteps /\ task[u].pc \in StartSteps => t = u

\* Where a start waits for an answer of the server.
Asking == {"ping", "setProvider"}

\* The ping and the request for the file system are made on the connection of the client,
\* as long as they can be answered.
Pinging ==
  \A t \in Tasks : task[t].pc \in Asking =>
    /\ task[t].conn # 0
    /\ Answered(t) => connection = task[t].conn
    /\ task[t].pc = "setProvider" => task[t].conn \in history.verified

\* A client that says it is connected is, and nothing starts it.
Connected ==
  client.state = "connected" =>
    /\ Sendable(connection) /\ connection \in history.verified
    /\ \A t \in Tasks : task[t].pc \notin StartSteps

Orderly == ~history.overlapped => OneStart /\ Pinging /\ Connected

LEMMA StepsOfStart == Asking \subseteq StartSteps
BY DEF Asking, StartSteps

\* What is closed or disposed stays so.
LEMMA OnlyGrow ==
  ASSUME Numbered, [Next]_vars
  PROVE  /\ closed \subseteq closed' /\ disposed \subseteq disposed'
<1>1. Step
  BY NextStep
<1> QED
  BY <1>1 DEF Step, Quiet, modelVars, connVars, NewConnection, Disconnect, ConnectionLost

Remembers ==
  /\ history.verified \subseteq history'.verified
  /\ history.overlapped => history'.overlapped

\* A step that starts nothing and makes no connection.
LEMMA OrderlyKept ==
  ASSUME Orderly, Remembers,
         closed \subseteq closed', disposed \subseteq disposed',
         \A u \in Tasks : task'[u].pc \in StartSteps => task[u].pc \in StartSteps,
         \A u \in Tasks : task'[u].pc \in Asking =>
            task'[u].pc = task[u].pc /\ task'[u].conn = task[u].conn,
         UNCHANGED connection \/ Disconnect,
         client'.state # "connected" \/ (client'.state = client.state /\ UNCHANGED connVars)
  PROVE  Orderly'
<1> SUFFICES ASSUME ~history'.overlapped PROVE OneStart' /\ Pinging' /\ Connected'
  BY DEF Orderly
<1>1. OneStart /\ Pinging /\ Connected
  BY DEF Orderly, Remembers
<1>2. OneStart'
  BY <1>1 DEF OneStart
<1>3. Pinging'
  <2> SUFFICES ASSUME NEW t \in Tasks, task'[t].pc \in Asking
               PROVE  /\ task'[t].conn # 0
                      /\ Answered(t)' => connection' = task'[t].conn
                      /\ task'[t].pc = "setProvider" => task'[t].conn \in history'.verified
    BY DEF Pinging
  <2>1. task'[t].pc = task[t].pc /\ task'[t].conn = task[t].conn
    OBVIOUS
  <2>2. /\ task[t].conn # 0
        /\ Answered(t) => connection = task[t].conn
        /\ task[t].pc = "setProvider" => task[t].conn \in history.verified
    BY <1>1, <2>1 DEF Pinging
  <2>3. Answered(t)' => connection' = task'[t].conn
    <3> SUFFICES ASSUME Answered(t)' PROVE connection' = task'[t].conn
      OBVIOUS
    <3>1. Answered(t) /\ task[t].conn \notin disposed'
      BY <2>1 DEF Answered
    <3> QED
      BY <2>1, <2>2, <3>1 DEF Disconnect
  <2> QED
    BY <2>1, <2>2, <2>3 DEF Remembers
<1>4. Connected'
  <2> SUFFICES ASSUME client'.state = "connected"
               PROVE  /\ Sendable(connection)' /\ connection' \in history'.verified
                      /\ \A t \in Tasks : task'[t].pc \notin StartSteps
    BY DEF Connected
  <2>1. client.state = "connected" /\ UNCHANGED connVars
    OBVIOUS
  <2>2. Sendable(connection) /\ connection \in history.verified
        /\ \A t \in Tasks : task[t].pc \notin StartSteps
    BY <1>1, <2>1 DEF Connected
  <2>3. Sendable(connection)'
    BY <2>1, <2>2 DEF Sendable, connVars
  <2> QED
    BY <2>1, <2>2, <2>3 DEF Remembers, connVars
<1> QED
  BY <1>2, <1>3, <1>4

\* A step of the only start, before the ping.
LEMMA OrderlyStarting ==
  ASSUME Orderly, Remembers, NEW t \in Tasks,
         \A u \in Tasks \ {t} : task'[u] = task[u],
         ~history'.overlapped => \A u \in Tasks \ {t} : task[u].pc \notin StartSteps,
         task'[t].pc \notin Asking,
         client'.state # "connected"
  PROVE  Orderly'
<1> SUFFICES ASSUME ~history'.overlapped PROVE OneStart' /\ Pinging' /\ Connected'
  BY DEF Orderly
<1>1. \A u \in Tasks \ {t} : task'[u].pc \notin StartSteps
  OBVIOUS
<1>2. OneStart' /\ Connected'
  BY <1>1 DEF OneStart, Connected
<1>3. \A u \in Tasks : task'[u].pc \notin Asking
  BY <1>1, StepsOfStart
<1>4. Pinging'
  BY <1>3 DEF Pinging
<1> QED
  BY <1>2, <1>4

\* A step of the only start, from the ping on.
LEMMA OrderlyPinging ==
  ASSUME Orderly, Remembers, UNCHANGED connVars, NEW t \in Tasks,
         \A u \in Tasks \ {t} : task'[u] = task[u],
         task[t].pc \in StartSteps,
         \/ /\ UNCHANGED client
            /\ task'[t].conn = connection /\ connection # 0
            /\ task'[t].pc = "setProvider" => connection \in history'.verified
         \/ /\ Sendable(connection) /\ connection \in history'.verified
            /\ task'[t].pc \notin StartSteps
  PROVE  Orderly'
<1> SUFFICES ASSUME ~history'.overlapped PROVE OneStart' /\ Pinging' /\ Connected'
  BY DEF Orderly
<1>1. OneStart /\ Pinging /\ Connected
  BY DEF Orderly, Remembers
<1>2. \A u \in Tasks \ {t} : task'[u].pc \notin StartSteps
  BY <1>1 DEF OneStart
<1>3. OneStart'
  BY <1>2 DEF OneStart
<1>4. client.state # "connected"
  BY <1>1 DEF Connected
<1>5. \A u \in Tasks \ {t} : task'[u].pc \notin Asking
  BY <1>2, StepsOfStart
<1>6. UNCHANGED <<connection, closed, disposed>>
  BY DEF connVars
<1>7. CASE /\ UNCHANGED client
           /\ task'[t].conn = connection /\ connection # 0
           /\ task'[t].pc = "setProvider" => connection \in history'.verified
  <2>1. Connected'
    BY <1>4, <1>7 DEF Connected
  <2>2. Pinging'
    BY <1>5, <1>6, <1>7 DEF Pinging
  <2> QED
    BY <1>3, <2>1, <2>2
<1>8. CASE /\ Sendable(connection) /\ connection \in history'.verified
           /\ task'[t].pc \notin StartSteps
  <2>1. \A u \in Tasks : task'[u].pc \notin StartSteps
    BY <1>2, <1>8
  <2>2. Sendable(connection)'
    BY <1>6, <1>8 DEF Sendable
  <2>3. Connected'
    BY <1>6, <1>8, <2>1, <2>2 DEF Connected
  <2>4. Pinging'
    BY <2>1, StepsOfStart DEF Pinging
  <2> QED
    BY <1>3, <2>3, <2>4
<1> QED
  BY <1>7, <1>8


\* Tasks that come to no step of a start, and none that starts to wait for an answer in it.
Calm ==
  /\ \A u \in Tasks : task'[u].pc \in StartSteps => task[u].pc \in StartSteps
  /\ \A u \in Tasks : task'[u].pc \in Asking =>
       task'[u].pc = task[u].pc /\ task'[u].conn = task[u].conn

Alone(t) == \A u \in Tasks \ {t} : task'[u] = task[u]

LEMMA CalmSet ==
  ASSUME Fielded, NEW t \in Tasks, NEW r, task' = [task EXCEPT ![t] = r], r.pc \notin StartSteps
  PROVE  Calm /\ Alone(t)
<1>1. task'[t] = r /\ Alone(t)
  BY DEF Fielded, Alone
<1> QED
  BY <1>1, StepsOfStart DEF Calm, Alone

LEMMA GotoEffect ==
  ASSUME Fielded, NEW t \in Tasks, NEW label \in Labels, Goto(t, label)
  PROVE  /\ task'[t].pc = label /\ task'[t].conn = task[t].conn /\ Alone(t)
         /\ label \notin StartSteps => Calm
<1>1. PICK r \in TaskFields : r = task[t]
  BY DEF Fielded
<1>2. PICK x : x = [r EXCEPT !.pc = label]
  OBVIOUS
<1>3. task' = [task EXCEPT ![t] = x] /\ x.pc = label /\ x.conn = r.conn
  BY <1>1, <1>2 DEF Goto, Fielded, TaskFields
<1> QED
  BY <1>1, <1>3, CalmSet DEF Fielded, Alone

LEMMA SendEffect ==
  ASSUME Fielded, NEW t \in Tasks, NEW label \in Labels, NEW n \in 0..MaxConns, Send(t, label, n)
  PROVE  /\ task'[t].pc = label /\ task'[t].conn = n /\ Alone(t)
         /\ label \notin StartSteps => Calm
<1>1. PICK r \in TaskFields : r = task[t]
  BY DEF Fielded
<1>2. PICK x : x = [r EXCEPT !.pc = label, !.conn = n]
  OBVIOUS
<1>3. task' = [task EXCEPT ![t] = x] /\ x.pc = label /\ x.conn = n
  BY <1>1, <1>2 DEF Send, Fielded, TaskFields
<1> QED
  BY <1>1, <1>3, CalmSet DEF Fielded, Alone

LEMMA ReturnsEffect ==
  ASSUME Fielded, NEW t \in Tasks, Returns(t)
  PROVE  task'[t].pc = "idle" /\ Alone(t) /\ Calm
<1>1. Returned(t, task[t]).pc = "idle"
  BY DEF Fielded, Returned, TaskFields
<1>2. task' = [task EXCEPT ![t] = Returned(t, task[t])]
  BY DEF Returns, Fielded
<1> QED
  BY <1>1, <1>2, CalmSet DEF StartSteps, Fielded

LEMMA StartedEffect ==
  ASSUME Fielded, NEW t \in Tasks, Started(t)
  PROVE  task'[t].pc \notin StartSteps /\ Alone(t) /\ Calm
BY ReturnsEffect, GotoEffect DEF Started, StartSteps, Labels

LEMMA CalmSame == UNCHANGED task => Calm
BY DEF Calm

\* A step of what does not start.
LEMMA OrderlyCalm ==
  ASSUME Orderly, Calm, Remembers, closed \subseteq closed', disposed \subseteq disposed',
         UNCHANGED connection \/ Disconnect,
         client'.state # "connected" \/ (client'.state = client.state /\ UNCHANGED connVars)
  PROVE  Orderly'
BY OrderlyKept DEF Calm

LEMMA CalmSession ==
  ASSUME Fielded, NEW t \in Tasks, SessionNext(t)
  PROVE  Calm /\ UNCHANGED <<modelVars, client, history>>
<1>1. UNCHANGED <<modelVars, client, history>>
  BY DEF SessionNext, open, OpenRegister, OpenAnswered, OpenFails, query, deleteSession, Ask,
         QueryReturns, DeleteReturns
<1>2. \/ Returns(t)
      \/ Goto(t, "register") \/ Goto(t, "start")
      \/ Send(t, "opening", connection) \/ Send(t, "querying", connection)
      \/ Send(t, "deleting", connection)
  BY DEF SessionNext, open, OpenRegister, OpenAnswered, OpenFails, query, deleteSession, Ask,
         QueryReturns, DeleteReturns
<1>3. Calm
  BY <1>2, ReturnsEffect, GotoEffect, SendEffect, ConnTyped DEF Labels, Requesting, StartSteps
<1> QED
  BY <1>1, <1>3

LEMMA CalmAttempt ==
  ASSUME Fielded, NEW t \in Tasks, NEW r \in TaskFields, NEW n \in 0..MaxConns,
         task' = [task EXCEPT ![t] = Disconnecting(t, r, n)]
  PROVE  Calm
<1>1. \A label \in {"disconnecting", "backoff", "stop"} :
        [r EXCEPT !.pc = label, !.conn = n].pc \notin StartSteps
  BY DEF TaskFields, StartSteps
<1>2. Disconnecting(t, r, n).pc \notin StartSteps
  BY <1>1 DEF Disconnecting
<1> QED
  BY <1>2, CalmSet

LEMMA CalmStop ==
  ASSUME Fielded, NEW t \in Tasks, StopNext(t)
  PROVE  /\ Calm
         /\ \/ UNCHANGED <<modelVars, client>>
            \/ Disconnect /\ client'.state = "disconnected"
         /\ UNCHANGED <<history.verified, history.overlapped>>
<1>1. CASE StopVisit(t)
  <2>1. UNCHANGED <<modelVars, client>>
    BY <1>1 DEF StopVisit
  <2>2. PICK id \in SessionIds :
          /\ sessions[id] # None
          /\ task' = [task EXCEPT ![t] =
               Disconnecting(t, Visiting(t, sessions[id]), sessions[id].conn)]
          /\ history' = [history EXCEPT !.tried = @ \cup {sessions[id].object}]
    <3>1. \A id \in SessionIds : IsNextSession(t, id) => sessions[id] # None
      BY DEF IsNextSession, Unvisited
    <3> QED
      BY <1>1, <3>1 DEF StopVisit
  <2>3. Calm
    BY <2>2, VisitTyped, CalmAttempt
  <2>4. UNCHANGED <<history.verified, history.overlapped>>
    BY <2>2 DEF Fielded, HistoryFields
  <2> QED
    BY <2>1, <2>3, <2>4
<1>2. CASE StopRetries(t)
  <2>1. Calm
    BY <1>2, RetryTyped, CalmAttempt DEF StopRetries
  <2> QED
    BY <1>2, <2>1 DEF StopRetries
<1>3. CASE StopDisconnected(t) \/ StopDisconnectFails(t)
  <2>1. Goto(t, "stop") \/ Goto(t, "backoff")
    BY <1>3 DEF StopDisconnected, StopDisconnectFails
  <2>2. Calm
    BY <2>1, GotoEffect DEF Labels, StartSteps
  <2> QED
    BY <1>3, <2>2 DEF StopDisconnected, StopDisconnectFails
<1>4. CASE StopEnds(t) \/ forceStop(t)
  <2>1. Calm
    BY <1>4, ReturnsEffect DEF StopEnds, forceStop
  <2>2. client'.state = "disconnected"
    BY <1>4 DEF StopEnds, forceStop, Reset, Fielded, ClientFields
  <2> QED
    BY <1>4, <2>1, <2>2 DEF StopEnds, forceStop
<1> QED
  BY <1>1, <1>2, <1>3, <1>4 DEF StopNext

LEMMA CalmCall ==
  ASSUME Fielded, NEW t \in Tasks, NEW o \in AllOps, Call(t, o)
  PROVE  Calm /\ UNCHANGED <<modelVars, client, history>>
<1>1. PICK r \in TaskFields : r = task[t]
  BY DEF Fielded
<1>2. PICK id : task' = [task EXCEPT ![t].op = o, ![t].pc = o, ![t].calls = @ + 1, ![t].id = id]
  BY DEF Call
<1>3. PICK x : x = [r EXCEPT !.op = o, !.pc = o, !.calls = @ + 1, !.id = id]
  OBVIOUS
<1>4. task' = [task EXCEPT ![t] = x] /\ x.pc = o
  BY <1>1, <1>2, <1>3 DEF Fielded, TaskFields
<1>5. o \notin StartSteps
  BY DEF AllOps, StartSteps
<1> QED
  BY <1>4, <1>5, CalmSet DEF Call

LEMMA CalmList ==
  ASSUME Fielded, NEW t \in Tasks, ListNext(t)
  PROVE  Calm /\ UNCHANGED <<connVars, client, history>>
<1>1. UNCHANGED <<client, history>> /\ CallerNext(t)
  BY DEF ListNext, CallerNext
<1>2. Goto(t, "listing") \/ Returns(t) \/ UNCHANGED task
  BY DEF ListNext
<1>3. Calm
  BY <1>2, GotoEffect, ReturnsEffect, CalmSame DEF Labels, StartSteps
<1> QED
  BY <1>1, <1>3, CallerStep

LEMMA CalmWorld ==
  ASSUME Fielded, WorldNext
  PROVE  /\ Calm /\ UNCHANGED <<connection, history>>
         /\ client'.state # "connected" \/ (UNCHANGED client /\ UNCHANGED connVars)
<1>1. UNCHANGED <<task, history, connection>>
  BY DEF WorldNext, ProcessExits, OnClose, OnError, StdinError, ConnectionLost, modelVars, connVars
<1>2. client'.state # "connected" \/ (UNCHANGED client /\ UNCHANGED connVars)
  BY DEF WorldNext, ProcessExits, OnClose, OnError, StdinError, modelVars, Fielded, ClientFields
<1> QED
  BY <1>1, <1>2, CalmSame


LEMMA FailsEffect ==
  ASSUME Fielded, NEW t \in Tasks, StartFails(t)
  PROVE  task'[t].pc = "idle" /\ Alone(t) /\ client'.state = "error"
BY ReturnsEffect DEF StartFails, Failed, Fielded, ClientFields

LEMMA SocketEffect ==
  ASSUME Fielded, NEW t \in Tasks, NEW p, OpenSocket(t, p)
  PROVE  task'[t].pc = "connecting" /\ Alone(t) /\ client'.state = "connecting"
<1>1. client'.state = "connecting"
  BY DEF OpenSocket, Fielded, ClientFields
<1>2. PICK r \in TaskFields : r = task[t]
  BY DEF Fielded
<1>3. PICK x : x = [r EXCEPT !.pc = "connecting", !.peer = p]
  OBVIOUS
<1>4. task' = [task EXCEPT ![t] = x] /\ x.pc = "connecting"
  BY <1>2, <1>3 DEF OpenSocket, Fielded, TaskFields
<1> QED
  BY <1>1, <1>4 DEF Fielded, Alone

LEMMA SpawnEffect ==
  ASSUME Fielded, NEW t \in Tasks, Spawn(t)
  PROVE  task'[t].pc \in {"connect", "port"} /\ Alone(t) /\ client'.state = "connecting"
<1>1. client'.state = "connecting"
  BY DEF Spawn, Fielded, ClientFields
<1>2. PICK r \in TaskFields : r = task[t]
  BY DEF Fielded
<1> DEFINE p == world.procs + 1
<1>3. PICK label \in {"connect", "port"} :
        task' = [task EXCEPT ![t].proc = p, ![t].pc = label]
  BY DEF Spawn
<1> HIDE DEF p
<1>4. PICK x : x = [r EXCEPT !.proc = p, !.pc = label]
  OBVIOUS
<1>5. task' = [task EXCEPT ![t] = x] /\ x.pc = label
  BY <1>2, <1>3, <1>4 DEF Fielded, TaskFields
<1> QED
  BY <1>1, <1>5 DEF Fielded, Alone

\* start, when it begins.
LEMMA BeginsEffect ==
  ASSUME Fielded, NEW t \in Tasks, StartBegins(t)
  PROVE  /\ task'[t].pc \notin Asking /\ Alone(t) /\ client'.state # "connected"
         /\ Remembers
         /\ ~history'.overlapped => \A u \in Tasks \ {t} : task[u].pc \notin StartSteps
<1>1. /\ Remembers
      /\ ~history'.overlapped => \A u \in Tasks \ {t} : task[u].pc \notin StartSteps
  <2>1. PICK h \in HistoryFields : h = history
    BY DEF Fielded
  <2>2. PICK b \in BOOLEAN :
          b = (h.overlapped \/ \E u \in Tasks \ {t} : task[u].pc \in StartSteps)
    BY <2>1 DEF HistoryFields
  <2>3. history' = [h EXCEPT !.overlapped = b]
    BY <2>1, <2>2 DEF StartBegins
  <2>4. history'.overlapped = b /\ history'.verified = h.verified
    BY <2>3 DEF HistoryFields
  <2> QED
    BY <2>1, <2>2, <2>4 DEF Remembers
<1>2. /\ task'[t].pc \in {"idle", "connect", "connecting", "port", "verify"} /\ Alone(t)
      /\ client'.state \in {"connecting", "error"}
  <2>1. CASE StartFails(t)
    BY <2>1, FailsEffect
  <2>2. CASE Spawn(t)
    BY <2>2, SpawnEffect
  <2>3. CASE OpenSocket(t, 0)
    BY <2>3, SocketEffect
  <2>4. CASE client' = [client EXCEPT !.state = "connecting"] /\ Goto(t, "verify")
    BY <2>4, GotoEffect DEF Labels, StartSteps, Fielded, ClientFields
  <2> QED
    BY <2>1, <2>2, <2>3, <2>4 DEF StartBegins, StartExternal
<1> QED
  BY <1>1, <1>2 DEF Asking

\* A start goes on to connect.
LEMMA StartingEffect ==
  ASSUME Fielded, NEW t \in Tasks,
         StartPort(t) \/ StartConnect(t) \/ SocketConnects(t)
  PROVE  /\ task[t].pc \in StartSteps
         /\ task'[t].pc \notin Asking /\ Alone(t) /\ UNCHANGED history
         /\ client'.state \in {client.state, "connecting", "error"}
<1>1. task[t].pc \in StartSteps /\ UNCHANGED history
  BY DEF StartPort, StartConnect, SocketConnects, At, StartSteps
<1>2. /\ task'[t].pc \in {"idle", "connect", "connecting", "verify"} /\ Alone(t)
      /\ client'.state \in {client.state, "connecting", "error"}
  <2>1. CASE StartFails(t)
    BY <2>1, FailsEffect
  <2>2. ASSUME NEW p, OpenSocket(t, p)
        PROVE  /\ task'[t].pc = "connecting" /\ Alone(t) /\ client'.state = "connecting"
    BY <2>2, SocketEffect
  <2>3. CASE UNCHANGED client /\ Goto(t, "verify")
    BY <2>3, GotoEffect DEF Labels, StartSteps
  <2>4. CASE client' = [client EXCEPT !.actualPort = task[t].proc] /\ Goto(t, "connect")
    BY <2>4, GotoEffect DEF Labels, StartSteps, Fielded, ClientFields
  <2>5. CASE UNCHANGED <<client, task>> /\ task[t].pc = "connecting"
    BY <2>5 DEF Alone
  <2> QED
    BY <2>1, <2>2, <2>3, <2>4, <2>5 DEF StartPort, StartConnect, SocketConnects, At
<1> QED
  BY <1>1, <1>2 DEF Asking

\* start keeps the order, if it overlaps none.
LEMMA OrderlyStart ==
  ASSUME Fielded, Orderly, NEW t \in Tasks, StartNext(t),
         closed \subseteq closed', disposed \subseteq disposed'
  PROVE  Orderly'
<1> SUFFICES ASSUME ~history'.overlapped PROVE Orderly'
  BY DEF Orderly
<1>1. ASSUME Remembers, task[t].pc \in StartSteps
      PROVE  /\ \A u \in Tasks \ {t} : task[u].pc \notin StartSteps
             /\ client.state # "connected"
             /\ Pinging
  BY <1>1 DEF Remembers, Orderly, OneStart, Connected
<1>2. UNCHANGED history => Remembers
  BY DEF Remembers
<1>3. CASE start(t)
  <2>1. CASE StartBegins(t)
    BY <2>1, BeginsEffect, OrderlyStarting DEF Alone
  <2>2. CASE Started(t) /\ UNCHANGED <<connVars, client, world, history>>
    BY <1>2, <2>2, StartedEffect, OrderlyCalm DEF connVars
  <2> QED
    BY <1>3, <2>1, <2>2 DEF start
<1>4. CASE StartPort(t) \/ StartConnect(t) \/ SocketConnects(t)
  BY <1>1, <1>2, <1>4, StartingEffect, OrderlyStarting DEF Alone
<1>5. ASSUME StartFails(t), Remembers, task[t].pc \in StartSteps PROVE Orderly'
  BY <1>1, <1>5, FailsEffect, OrderlyStarting DEF Alone, Asking
<1>6. CASE SocketFails(t) \/ StartPingFails(t)
  BY <1>2, <1>5, <1>6 DEF SocketFails, StartPingFails, At, StartSteps
<1>7. CASE StartPing(t)
  <2>1. task[t].pc \in StartSteps /\ Remembers /\ UNCHANGED connVars
    BY <1>2, <1>7 DEF StartPing, At, StartSteps, modelVars
  <2>2. CASE StartFails(t)
    BY <1>5, <2>1, <2>2
  <2>3. CASE /\ Sendable(connection)
             /\ task' = [task EXCEPT ![t].pc = "ping", ![t].conn = connection,
                                     ![t].proc = client.processExit]
             /\ UNCHANGED client
    <3>1. PICK r \in TaskFields : r = task[t]
      BY DEF Fielded
    <3>2. PICK x : x = [r EXCEPT !.pc = "ping", !.conn = connection, !.proc = client.processExit]
      OBVIOUS
    <3>3. task' = [task EXCEPT ![t] = x] /\ x.pc = "ping" /\ x.conn = connection
      BY <2>3, <3>1, <3>2 DEF Fielded, TaskFields
    <3>4. task'[t].pc = "ping" /\ task'[t].conn = connection /\ Alone(t)
      BY <3>3 DEF Fielded, Alone
    <3> QED
      BY <2>1, <2>3, <3>4, OrderlyPinging DEF Sendable, Alone
  <2> QED
    BY <1>7, <2>2, <2>3 DEF StartPing
<1>8. CASE StartPinged(t)
  <2>1. task[t].pc = "ping" /\ Answered(t) /\ UNCHANGED connVars
    BY <1>8 DEF StartPinged, At, modelVars
  <2>2. task[t].pc \in StartSteps /\ task[t].pc \in Asking
    BY <2>1 DEF StartSteps, Asking
  <2>3. CASE StartFails(t) /\ UNCHANGED history
    BY <1>2, <1>5, <2>2, <2>3
  <2>4. CASE history' = [history EXCEPT !.verified = @ \cup {task[t].conn}]
    <3>1. Remembers /\ task[t].conn \in history'.verified
      BY <2>4 DEF Remembers, Fielded, HistoryFields
    <3>2. connection = task[t].conn /\ connection # 0
      BY <1>1, <2>1, <2>2, <3>1 DEF Pinging
    <3>3. Sendable(connection)
      BY <2>1, <3>2 DEF Sendable, Answered
    <3>4. CASE Started(t)
      BY <2>1, <2>2, <3>1, <3>2, <3>3, <3>4, StartedEffect, OrderlyPinging DEF Alone
    <3>5. CASE Send(t, "setProvider", connection) /\ UNCHANGED client
      <4>1. task'[t].pc = "setProvider" /\ task'[t].conn = connection /\ Alone(t)
        BY <3>5, ConnTyped, SendEffect DEF Labels, StartSteps
      <4> QED
        BY <2>1, <2>2, <3>1, <3>2, <3>5, <4>1, OrderlyPinging DEF Alone
    <3>6. CASE StartFails(t)
      BY <1>5, <2>2, <3>1, <3>6
    <3> QED
      BY <1>8, <3>4, <3>5, <3>6 DEF StartPinged
  <2> QED
    BY <1>8, <2>3, <2>4 DEF StartPinged
<1>9. CASE StartProviderSet(t)
  <2>1. task[t].pc = "setProvider" /\ UNCHANGED connVars /\ Remembers
    BY <1>2, <1>9 DEF StartProviderSet, At, modelVars
  <2>2. task[t].pc \in StartSteps /\ task[t].pc \in Asking
    BY <2>1 DEF StartSteps, Asking
  <2>3. CASE StartFails(t)
    BY <1>5, <2>1, <2>2, <2>3
  <2>4. CASE Answered(t) /\ Started(t)
    <3>1. connection = task[t].conn /\ connection # 0 /\ connection \in history'.verified
      BY <1>1, <2>1, <2>2, <2>4 DEF Pinging, Remembers
    <3>2. Sendable(connection)
      BY <2>4, <3>1 DEF Sendable, Answered
    <3> QED
      BY <2>1, <2>2, <2>4, <3>1, <3>2, StartedEffect, OrderlyPinging DEF Alone
  <2> QED
    BY <1>9, <2>3, <2>4 DEF StartProviderSet
<1> QED
  BY <1>3, <1>4, <1>6, <1>7, <1>8, <1>9 DEF StartNext

\* Every other step keeps it.
LEMMA OrderlyNext == Numbered /\ Fielded /\ Orderly /\ [Next]_vars => Orderly'
<1> SUFFICES ASSUME Numbered, Fielded, Orderly, [Next]_vars PROVE Orderly'
  OBVIOUS
<1>1. closed \subseteq closed' /\ disposed \subseteq disposed'
  BY OnlyGrow
<1>2. ASSUME UNCHANGED history PROVE Remembers
  BY <1>2 DEF Remembers
<1>3. ASSUME NEW t \in Tasks, TaskNext(t) PROVE Orderly'
  <2>1. CASE SessionNext(t)
    BY <1>1, <1>2, <2>1, CalmSession, OrderlyCalm DEF modelVars, connVars
  <2>2. CASE StopNext(t)
    BY <1>1, <2>2, CalmStop, OrderlyCalm DEF modelVars, connVars, Remembers
  <2>3. CASE ListNext(t)
    BY <1>1, <1>2, <2>3, CalmList, OrderlyCalm DEF connVars
  <2> QED
    BY <1>1, <1>3, <2>1, <2>2, <2>3, OrderlyStart DEF TaskNext
<1>4. ASSUME NEW t \in Tasks, NEW o \in AllOps, Call(t, o) PROVE Orderly'
  BY <1>1, <1>2, <1>4, CalmCall, OrderlyCalm DEF modelVars, connVars
<1>5. CASE WorldNext
  BY <1>1, <1>2, <1>5, CalmWorld, OrderlyCalm
<1>6. CASE UNCHANGED vars
  BY <1>1, <1>2, <1>6, CalmSame, OrderlyCalm DEF vars, modelVars, connVars
<1> QED
  BY <1>3, <1>4, <1>5, <1>6 DEF Next

\* A client that says it is connected has a connection that is open and whose server was
\* asked for its version, as long as no two starts overlapped (client.ts, start, stop and
\* attachConnectionHandlers).
THEOREM ConnectedIsOpen == Spec => []ConnectedMeansOpen
<1>1. Numbered /\ [Next]_vars => Numbered'
  BY NextStep, StepNumbered
<1>2. Spec => [](Numbered /\ Fielded)
  BY <1>1, InitNumbered, TypedInit, TypedNext, PTL DEF Spec
<1>3. Init => Orderly
  BY DEF Init, Orderly, OneStart, Pinging, Connected, StartSteps, Asking
<1>4. Orderly => ConnectedMeansOpen
  BY DEF Orderly, Connected, ConnectedMeansOpen
<1> QED
  BY <1>2, <1>3, <1>4, OrderlyNext, PTL DEF Spec


----------------------------------------------------------------------------
(* What stop asks *)

\* Objects are numbered as they are made; a slot is the number of the object that was
\* first put there, and belongs to one id.
Slotted ==
  /\ \A id \in SessionIds : sessions[id] # None =>
       sessions[id].slot <= sessions[id].object /\ sessions[id].object <= world.objects
  /\ \A id, other \in SessionIds :
       sessions[id] # None /\ sessions[other] # None /\ sessions[id].slot = sessions[other].slot
       => id = other

\* A session is visited by its slot, and tried unless another has taken its place.
Tried ==
  \A t \in Tasks :
    /\ \A n \in task[t].visited : n <= world.objects
    /\ \A id \in SessionIds :
         sessions[id] # None /\ sessions[id].slot \in task[t].visited
         /\ sessions[id].slot = sessions[id].object
         => sessions[id].object \in history.tried

Visits == Slotted /\ Tried

\* A step that visits nobody, and adds no session.
LEMMA VisitsKept ==
  ASSUME Visits, UNCHANGED world.objects, history.tried \subseteq history'.tried,
         \A id \in SessionIds : sessions'[id] = sessions[id] \/ sessions'[id] = None,
         \A t \in Tasks : task'[t].visited \subseteq task[t].visited
  PROVE  Visits'
<1>1. Slotted'
  BY DEF Visits, Slotted
<1>2. Tried'
  BY DEF Visits, Tried
<1> QED
  BY <1>1, <1>2 DEF Visits

Unvisiting == \A t \in Tasks : task'[t].visited \subseteq task[t].visited

LEMMA UnvisitingSet ==
  ASSUME Fielded, NEW t \in Tasks, NEW x, task' = [task EXCEPT ![t] = x],
         x.visited \subseteq task[t].visited
  PROVE  Unvisiting
BY DEF Fielded, Unvisiting

LEMMA UnvisitingSend ==
  ASSUME Fielded, NEW t \in Tasks, NEW label, NEW n, Send(t, label, n)
  PROVE  Unvisiting
<1>1. PICK r \in TaskFields : r = task[t]
  BY DEF Fielded
<1>2. PICK x : x = [r EXCEPT !.pc = label, !.conn = n]
  OBVIOUS
<1>3. x.visited = r.visited /\ task' = [task EXCEPT ![t] = x]
  BY <1>1, <1>2 DEF Send, Fielded, TaskFields
<1> QED
  BY <1>1, <1>3, UnvisitingSet

\* Tasks forget whom they visited, or keep it.
LEMMA UnvisitingForms ==
  ASSUME Fielded, NEW t \in Tasks,
         \/ UNCHANGED task \/ Returns(t) \/ Started(t)
         \/ \E label \in Labels : Goto(t, label)
         \/ \E label \in Labels, n \in 0..MaxConns : Send(t, label, n)
  PROVE  Unvisiting
<1>1. PICK r \in TaskFields : r = task[t]
  BY DEF Fielded
<1>2. ASSUME NEW x, task' = [task EXCEPT ![t] = x], x.visited \subseteq r.visited
      PROVE  Unvisiting
  BY <1>1, <1>2 DEF Fielded, Unvisiting
<1>3. CASE UNCHANGED task
  BY <1>3 DEF Unvisiting
<1>4. CASE Returns(t)
  <2>1. PICK x : x = Returned(t, r)
    OBVIOUS
  <2>2. x.visited = {}
    BY <2>1 DEF Returned, TaskFields
  <2> QED
    BY <1>1, <1>2, <1>4, <2>1, <2>2 DEF Returns, Fielded
<1>5. ASSUME NEW label, Goto(t, label)
      PROVE  Unvisiting
  <2>1. PICK x : x = [r EXCEPT !.pc = label]
    OBVIOUS
  <2>2. x.visited = r.visited
    BY <2>1 DEF TaskFields
  <2> QED
    BY <1>1, <1>2, <1>5, <2>1, <2>2 DEF Goto, Fielded
<1> QED
  BY <1>3, <1>4, <1>5, UnvisitingSend DEF Started

\* The steps of a start visit nobody, and make no session.
LEMMA UnvisitingStart ==
  ASSUME Fielded, NEW t \in Tasks, StartNext(t)
  PROVE  Unvisiting /\ UNCHANGED <<sessions, world.objects, history.tried>>
<1>1. UNCHANGED sessions
  BY DEF StartNext, start, StartPort, StartConnect, SocketConnects, SocketFails, StartPing,
         StartPinged, StartPingFails, StartProviderSet
<1>2. UNCHANGED world.objects
  <2>1. PICK w \in WorldFields : w = world
    BY DEF Fielded
  <2>2. \/ UNCHANGED world
        \/ \E p : Connect(p)
        \/ \E p : OpenSocket(t, p)
        \/ Spawn(t)
        \/ world' = [world EXCEPT !.timers = @ \ {t}]
        \/ world' = [world EXCEPT !.crashed = TRUE]
    BY DEF StartNext, start, StartBegins, StartExternal, StartPort, StartConnect, SocketConnects,
           SocketFails, StartPing, StartPinged, StartPingFails, StartProviderSet
  <2>3. ASSUME NEW p, Connect(p) PROVE UNCHANGED world.objects
    <3>1. PICK n, peer : n = w.conns + 1 /\ peer = [w.peer EXCEPT ![n] = p]
      OBVIOUS
    <3>2. world' = [w EXCEPT !.conns = n, !.peer = peer]
      BY <2>1, <2>3, <3>1 DEF Connect, WorldFields
    <3> QED
      BY <2>1, <3>2 DEF WorldFields
  <2>4. ASSUME NEW p, OpenSocket(t, p) PROVE UNCHANGED world.objects
    BY <2>1, <2>4 DEF OpenSocket, WorldFields
  <2>5. ASSUME Spawn(t) PROVE UNCHANGED world.objects
    <3>1. PICK n, alive, timers : n = w.procs + 1 /\ alive = w.alive \cup {n}
                                  /\ timers = w.timers \cup {t}
      OBVIOUS
    <3>2. world' = [w EXCEPT !.procs = n, !.alive = alive, !.timers = timers]
      BY <2>1, <2>5, <3>1 DEF Spawn
    <3> QED
      BY <2>1, <3>2 DEF WorldFields
  <2>6. CASE \/ world' = [world EXCEPT !.timers = @ \ {t}]
             \/ world' = [world EXCEPT !.crashed = TRUE]
    BY <2>1, <2>6 DEF WorldFields
  <2> QED
    BY <2>2, <2>3, <2>4, <2>5, <2>6
<1>3. UNCHANGED history.tried
  BY DEF Fielded, HistoryFields, StartNext, start, StartBegins, StartPort, StartConnect,
         SocketConnects, SocketFails, StartPing, StartPinged, StartPingFails, StartProviderSet
<1>4. Unvisiting
  <2>1. PICK r \in TaskFields : r = task[t]
    BY DEF Fielded
  <2>2. ASSUME NEW p, OpenSocket(t, p)
        PROVE  Unvisiting
    <3>1. PICK x : x = [r EXCEPT !.pc = "connecting", !.peer = p]
      OBVIOUS
    <3>2. task' = [task EXCEPT ![t] = x] /\ x.visited = r.visited
      BY <2>1, <2>2, <3>1 DEF OpenSocket, Fielded, TaskFields
    <3> QED
      BY <2>1, <3>2, UnvisitingSet
  <2>3. ASSUME Spawn(t)
        PROVE  Unvisiting
    <3> DEFINE p == world.procs + 1
    <3>1. PICK label \in {"connect", "port"} :
            task' = [task EXCEPT ![t].proc = p, ![t].pc = label]
      BY <2>3 DEF Spawn
    <3> HIDE DEF p
    <3>2. PICK x : x = [r EXCEPT !.proc = p, !.pc = label]
      OBVIOUS
    <3>3. task' = [task EXCEPT ![t] = x] /\ x.visited = r.visited
      BY <2>1, <3>1, <3>2 DEF Fielded, TaskFields
    <3> QED
      BY <2>1, <3>3, UnvisitingSet
  <2>4. ASSUME task' = [task EXCEPT ![t].pc = "ping", ![t].conn = connection,
                                    ![t].proc = client.processExit]
        PROVE  Unvisiting
    <3>1. PICK x : x = [r EXCEPT !.pc = "ping", !.conn = connection, !.proc = client.processExit]
      OBVIOUS
    <3>2. task' = [task EXCEPT ![t] = x] /\ x.visited = r.visited
      BY <2>1, <2>4, <3>1 DEF Fielded, TaskFields
    <3> QED
      BY <2>1, <3>2, UnvisitingSet
  <2>5. \/ UNCHANGED task \/ Returns(t) \/ Started(t)
        \/ Goto(t, "verify") \/ Goto(t, "connect") \/ Send(t, "setProvider", connection)
        \/ (\E p : OpenSocket(t, p)) \/ Spawn(t)
        \/ task' = [task EXCEPT ![t].pc = "ping", ![t].conn = connection,
                                ![t].proc = client.processExit]
    BY DEF StartNext, start, StartBegins, StartExternal, StartPort, StartConnect, SocketConnects,
           SocketFails, StartPing, StartPinged, StartPingFails, StartProviderSet, StartFails
  <2> QED
    BY <2>2, <2>3, <2>4, <2>5, ConnTyped, UnvisitingForms DEF Labels, StartSteps
<1> QED
  BY <1>1, <1>2, <1>3, <1>4

LEMMA VisitsSession ==
  ASSUME Fielded, Visits, NEW t \in Tasks, SessionNext(t)
  PROVE  Visits'
<1>1. UNCHANGED history
  BY CalmSession
<1>2. Unvisiting
  <2>1. \/ Returns(t) \/ Goto(t, "register") \/ Goto(t, "start")
        \/ Send(t, "opening", connection) \/ Send(t, "querying", connection)
        \/ Send(t, "deleting", connection)
    BY DEF SessionNext, open, OpenRegister, OpenAnswered, OpenFails, query, deleteSession, Ask,
           QueryReturns, DeleteReturns
  <2> QED
    BY <2>1, ConnTyped, UnvisitingForms DEF Labels, Requesting
<1>3. CASE OpenRegister(t)
  <2>1. world.objects \in Nat /\ world'.objects = world.objects + 1
    BY <1>3 DEF OpenRegister, Fielded, WorldFields
  <2>2. PICK object \in Nat : object = world.objects + 1
    BY <2>1
  <2>3. \E id \in SessionIds \cup {None} :
          \/ sessions' = [sessions EXCEPT ![id] = SetEntry(id, object)]
          \/ sessions' = [sessions EXCEPT ![id] = None]
    <3>1. task[t].id \in SessionIds \cup {None}
      BY DEF Fielded, TaskFields
    <3> QED
      BY <1>3, <2>2, <3>1 DEF OpenRegister
  <2>4. PICK id \in SessionIds \cup {None} :
          \A other \in SessionIds :
            \/ sessions'[other] = sessions[other]
            \/ sessions'[other] = None
            \/ other = id /\ sessions'[id] = SetEntry(id, object)
    BY <2>3 DEF Fielded
  <2>5. \A other \in SessionIds : sessions[other] # None =>
          /\ sessions[other].slot \in Nat /\ sessions[other].object \in Nat
          /\ sessions[other].slot <= world.objects /\ sessions[other].object <= world.objects
    BY <2>1 DEF Fielded, Entries, Visits, Slotted
  <2>6. id \in SessionIds =>
          /\ SetEntry(id, object).object = object
          /\ SetEntry(id, object).slot = IF sessions[id] = None THEN object ELSE sessions[id].slot
    BY DEF SetEntry
  <2>7. Slotted'
    <3>1. ASSUME NEW other \in SessionIds, sessions'[other] # None
          PROVE  /\ sessions'[other].slot <= sessions'[other].object
                 /\ sessions'[other].object <= world'.objects
      BY <2>1, <2>2, <2>4, <2>5, <2>6, <3>1 DEF Visits, Slotted
    <3>2. ASSUME NEW one \in SessionIds, NEW other \in SessionIds,
                 sessions'[one] # None, sessions'[other] # None,
                 sessions'[one].slot = sessions'[other].slot
          PROVE  one = other
      BY <2>1, <2>2, <2>4, <2>5, <2>6, <3>2 DEF Visits, Slotted
    <3> QED
      BY <3>1, <3>2 DEF Slotted
  <2>8. Tried'
    <3> SUFFICES ASSUME NEW u \in Tasks
                 PROVE  /\ \A n \in task'[u].visited : n <= world'.objects
                        /\ \A other \in SessionIds :
                             sessions'[other] # None /\ sessions'[other].slot \in task'[u].visited
                             /\ sessions'[other].slot = sessions'[other].object
                             => sessions'[other].object \in history'.tried
      BY DEF Tried
    <3>1. \A n \in task'[u].visited : n \in Nat /\ n <= world.objects
      BY <1>2 DEF Unvisiting, Visits, Tried, Fielded, TaskFields
    <3>2. \A other \in SessionIds :
            sessions[other] # None /\ sessions[other].slot \in task'[u].visited
            /\ sessions[other].slot = sessions[other].object
            => sessions[other].object \in history'.tried
      BY <1>1, <1>2 DEF Unvisiting, Visits, Tried
    <3>3. \A other \in SessionIds :
            sessions'[other] # None /\ sessions'[other] # sessions[other]
            => sessions'[other].slot # sessions'[other].object
               \/ sessions'[other].slot \notin task'[u].visited
      BY <2>1, <2>2, <2>4, <2>5, <2>6, <3>1
    <3> QED
      BY <2>1, <3>1, <3>2, <3>3
  <2> QED
    BY <2>7, <2>8 DEF Visits
<1>4. CASE ~OpenRegister(t)
  <2>1. UNCHANGED world /\ (UNCHANGED sessions \/ sessions' = [sessions EXCEPT ![task[t].id] = None])
    BY <1>4 DEF SessionNext, open, OpenAnswered, OpenFails, query, deleteSession, Ask,
           QueryReturns, DeleteReturns
  <2>2. \A id \in SessionIds : sessions'[id] = sessions[id] \/ sessions'[id] = None
    BY <2>1 DEF Fielded
  <2> QED
    BY <1>1, <1>2, <2>1, <2>2, VisitsKept DEF Unvisiting
<1> QED
  BY <1>3, <1>4

LEMMA VisitedAttempt ==
  ASSUME NEW t, NEW r \in TaskFields, NEW n \in 0..MaxConns
  PROVE  Disconnecting(t, r, n).visited = r.visited /\ Disconnecting(t, r, n).pc # "idle"
<1>1. \A label \in {"disconnecting", "backoff", "stop"} :
        /\ [r EXCEPT !.pc = label, !.conn = n].visited = r.visited
        /\ [r EXCEPT !.pc = label, !.conn = n].pc = label
  BY DEF TaskFields
<1>2. \E label \in {"disconnecting", "backoff", "stop"} :
        Disconnecting(t, r, n) = [r EXCEPT !.pc = label, !.conn = n]
  BY DEF Disconnecting
<1> QED
  BY <1>1, <1>2

LEMMA VisitsStop ==
  ASSUME Fielded, Visits, NEW t \in Tasks, StopNext(t)
  PROVE  Visits'
<1>1. CASE StopVisit(t)
  <2>1. UNCHANGED <<sessions, world>>
    BY <1>1 DEF StopVisit
  <2>2. PICK id \in SessionIds :
          /\ sessions[id] # None
          /\ task' = [task EXCEPT ![t] =
               Disconnecting(t, Visiting(t, sessions[id]), sessions[id].conn)]
          /\ history' = [history EXCEPT !.tried = @ \cup {sessions[id].object}]
    <3>1. \A id \in SessionIds : IsNextSession(t, id) => sessions[id] # None
      BY DEF IsNextSession, Unvisited
    <3> QED
      BY <1>1, <3>1 DEF StopVisit
  <2>3. history'.tried = history.tried \cup {sessions[id].object}
    BY <2>2 DEF Fielded, HistoryFields
  <2>4. PICK x \in TaskFields : x = Visiting(t, sessions[id])
    BY <2>2, VisitTyped
  <2>5. x.visited = task[t].visited \cup {sessions[id].slot}
    <3>1. PICK r \in TaskFields : r = task[t]
      BY DEF Fielded
    <3> QED
      BY <2>4, <3>1 DEF Visiting, TaskFields
  <2>6. task'[t].visited = task[t].visited \cup {sessions[id].slot}
        /\ \A u \in Tasks \ {t} : task'[u] = task[u]
    <3>1. PICK y : y = Disconnecting(t, x, sessions[id].conn)
      OBVIOUS
    <3>2. y.visited = x.visited
      BY <2>2, <3>1, VisitTyped, VisitedAttempt
    <3> QED
      BY <2>2, <2>4, <2>5, <3>1, <3>2 DEF Fielded
  <2>7. Slotted'
    BY <2>1 DEF Visits, Slotted
  <2>8. Tried'
    <3>1. sessions[id].slot <= world.objects
      BY <2>2 DEF Visits, Slotted, Fielded, Entries, WorldFields
    <3>2. \A u \in Tasks : \A n \in task'[u].visited : n <= world'.objects
      BY <2>1, <2>6, <3>1 DEF Visits, Tried
    <3>3. ASSUME NEW u \in Tasks, NEW other \in SessionIds,
                 sessions[other] # None, sessions[other].slot \in task'[u].visited,
                 sessions[other].slot = sessions[other].object
          PROVE  sessions[other].object \in history'.tried
      <4>1. CASE sessions[other].slot \in task[u].visited
        BY <2>3, <3>3, <4>1 DEF Visits, Tried
      <4>2. CASE sessions[other].slot = sessions[id].slot
        BY <2>2, <2>3, <3>3, <4>2 DEF Visits, Slotted
      <4> QED
        BY <2>6, <3>3, <4>1, <4>2
    <3> QED
      BY <2>1, <3>2, <3>3 DEF Tried
  <2> QED
    BY <2>7, <2>8 DEF Visits
<1>2. CASE StopRetries(t)
  <2>1. PICK x \in TaskFields : x = Retrying(t)
    BY <1>2, RetryTyped DEF StopRetries
  <2>2. x.visited = task[t].visited
    <3>1. PICK r \in TaskFields : r = task[t]
      BY DEF Fielded
    <3> QED
      BY <2>1, <3>1 DEF Retrying, TaskFields
  <2>3. PICK y : y = Disconnecting(t, x, task[t].conn)
    OBVIOUS
  <2>4. y.visited = x.visited
    BY <1>2, <2>3, RetryTyped, VisitedAttempt DEF StopRetries
  <2>5. task' = [task EXCEPT ![t] = y]
    BY <1>2, <2>1, <2>3 DEF StopRetries
  <2>6. Unvisiting
    BY <2>2, <2>4, <2>5, UnvisitingSet
  <2> QED
    BY <1>2, <2>6, VisitsKept DEF StopRetries, Unvisiting
<1>3. CASE StopDisconnected(t) \/ StopDisconnectFails(t)
  <2>1. Goto(t, "stop") \/ Goto(t, "backoff")
    BY <1>3 DEF StopDisconnected, StopDisconnectFails
  <2>2. Unvisiting
    BY <2>1, UnvisitingForms DEF Labels
  <2> QED
    BY <1>3, <2>2, VisitsKept DEF StopDisconnected, StopDisconnectFails, Unvisiting
<1>4. CASE StopEnds(t) \/ forceStop(t)
  <2>1. Unvisiting
    BY <1>4, UnvisitingForms DEF StopEnds, forceStop
  <2>2. UNCHANGED history /\ \A id \in SessionIds : sessions'[id] = None
    BY <1>4 DEF StopEnds, forceStop
  <2>3. UNCHANGED world.objects
    BY <1>4 DEF StopEnds, forceStop, Terminated, Fielded, WorldFields
  <2> QED
    BY <2>1, <2>2, <2>3, VisitsKept DEF Unvisiting
<1> QED
  BY <1>1, <1>2, <1>3, <1>4 DEF StopNext

LEMMA VisitsNext == Fielded /\ Visits /\ [Next]_vars => Visits'
<1> SUFFICES ASSUME Fielded, Visits, [Next]_vars PROVE Visits'
  OBVIOUS
<1>1. ASSUME NEW t \in Tasks, StartNext(t) PROVE Visits'
  BY <1>1, UnvisitingStart, VisitsKept DEF Unvisiting
<1>2. ASSUME NEW t \in Tasks, ListNext(t) PROVE Visits'
  <2>1. UNCHANGED <<sessions, world, history>>
    BY <1>2 DEF ListNext
  <2>2. Unvisiting
    BY <1>2, UnvisitingForms DEF ListNext, Labels
  <2> QED
    BY <2>1, <2>2, VisitsKept DEF Unvisiting
<1>3. ASSUME NEW t \in Tasks, NEW o \in AllOps, Call(t, o) PROVE Visits'
  <2>1. PICK r \in TaskFields : r = task[t]
    BY DEF Fielded
  <2>2. PICK id \in SessionIds \cup {None} :
          task' = [task EXCEPT ![t].op = o, ![t].pc = o, ![t].calls = @ + 1, ![t].id = id]
    BY <1>3 DEF Call
  <2>3. PICK x : x = [r EXCEPT !.op = o, !.pc = o, !.calls = @ + 1, !.id = id]
    OBVIOUS
  <2>4. task' = [task EXCEPT ![t] = x] /\ x.visited = r.visited
    BY <2>1, <2>2, <2>3 DEF Fielded, TaskFields
  <2>5. Unvisiting
    BY <2>1, <2>4, UnvisitingSet
  <2> QED
    BY <1>3, <2>5, VisitsKept DEF Call, Unvisiting
<1>4. ASSUME WorldNext PROVE Visits'
  <2>1. UNCHANGED <<task, sessions, history>>
    BY <1>4 DEF WorldNext, ProcessExits, OnClose, OnError, StdinError
  <2>2. UNCHANGED world.objects
    BY <1>4 DEF WorldNext, ProcessExits, OnClose, OnError, StdinError, Fielded, WorldFields
  <2> QED
    BY <2>1, <2>2, VisitsKept
<1>5. CASE UNCHANGED vars
  BY <1>5, VisitsKept DEF vars
<1> QED
  BY <1>1, <1>2, <1>3, <1>4, <1>5, VisitsSession, VisitsStop DEF Next, TaskNext

\* A task moves alone.
LEMMA AloneTask ==
  ASSUME Fielded, NEW t \in Tasks, TaskNext(t)
  PROVE  Alone(t)
<1>1. ASSUME NEW x, task' = [task EXCEPT ![t] = x] PROVE Alone(t)
  BY <1>1 DEF Fielded, Alone
<1>2. ASSUME NEW label, Goto(t, label) PROVE Alone(t)
  BY <1>2 DEF Fielded, Alone, Goto
<1>3. ASSUME NEW label, NEW n, Send(t, label, n) PROVE Alone(t)
  BY <1>3 DEF Fielded, Alone, Send
<1>4. CASE Returns(t)
  BY <1>1, <1>4 DEF Returns
<1>5. CASE UNCHANGED task
  BY <1>5 DEF Alone
<1>6. CASE StartNext(t)
  <2>1. ASSUME StartPing(t) PROVE Alone(t)
    <3>1. CASE task' = [task EXCEPT ![t].pc = "ping", ![t].conn = connection,
                                    ![t].proc = client.processExit]
      BY <3>1 DEF Fielded, Alone
    <3> QED
      BY <1>4, <2>1, <3>1 DEF StartPing, StartFails
  <2>2. CASE start(t)
    BY <2>2, BeginsEffect, StartedEffect DEF start
  <2>3. CASE \/ SocketFails(t) \/ StartPinged(t) \/ StartPingFails(t) \/ StartProviderSet(t)
    BY <1>2, <1>3, <1>4, <2>3 DEF SocketFails, StartPinged, StartPingFails, StartProviderSet,
         StartFails, Started
  <2> QED
    BY <1>6, <2>1, <2>2, <2>3, StartingEffect DEF StartNext
<1>7. CASE SessionNext(t)
  BY <1>2, <1>3, <1>4, <1>7 DEF SessionNext, open, OpenRegister, OpenAnswered, OpenFails, query,
       deleteSession, Ask, QueryReturns, DeleteReturns
<1>8. CASE StopNext(t)
  BY <1>1, <1>2, <1>4, <1>8 DEF StopNext, StopVisit, StopDisconnected, StopDisconnectFails,
       StopRetries, StopEnds, forceStop
<1>9. CASE ListNext(t)
  BY <1>2, <1>4, <1>5, <1>9 DEF ListNext
<1> QED
  BY <1>6, <1>7, <1>8, <1>9 DEF TaskNext

\* Only its end takes a stop from its loop to idle.
LEMMA StopEndsIt ==
  ASSUME Fielded, [Next]_vars, NEW t \in Tasks, task[t].pc = "stop", task'[t].pc = "idle"
  PROVE  StopEnds(t)
<1>1. ASSUME NEW u \in Tasks, TaskNext(u) PROVE u = t
  BY <1>1, AloneTask DEF Alone
<1>2. ASSUME NEW u \in Tasks, NEW o \in AllOps, Call(u, o) PROVE FALSE
  <2>1. task[u].pc = "idle"
    BY <1>2 DEF Call, At
  <2>2. task'[t] = task[t]
    BY <1>2, <2>1 DEF Call, Fielded
  <2> QED
    BY <2>2
<1>3. UNCHANGED task => FALSE
  OBVIOUS
<1>4. WorldNext \/ UNCHANGED vars => UNCHANGED task
  BY DEF WorldNext, ProcessExits, OnClose, OnError, StdinError, vars
<1>5. TaskNext(t)
  BY <1>1, <1>2, <1>3, <1>4 DEF Next
<1>6. StopVisit(t) \/ StopEnds(t)
  BY <1>5 DEF TaskNext, At, StartNext, start, StartPort, StartConnect, SocketConnects,
       SocketFails, StartPing, StartPinged, StartPingFails, StartProviderSet, SessionNext, open,
       OpenRegister, OpenAnswered, OpenFails, query, deleteSession, Ask, QueryReturns,
       DeleteReturns, StopNext, StopDisconnected, StopDisconnectFails, StopRetries, forceStop,
       ListNext
<1>7. ASSUME StopVisit(t) PROVE FALSE
  <2>1. PICK id \in SessionIds :
          /\ sessions[id] # None
          /\ task' = [task EXCEPT ![t] =
               Disconnecting(t, Visiting(t, sessions[id]), sessions[id].conn)]
    <3>1. \A id \in SessionIds : IsNextSession(t, id) => sessions[id] # None
      BY DEF IsNextSession, Unvisited
    <3> QED
      BY <1>7, <3>1 DEF StopVisit
  <2> QED
    BY <2>1, VisitTyped, VisitedAttempt DEF Fielded
<1> QED
  BY <1>6, <1>7

LEMMA VisitsInit == Init => Visits
<1> SUFFICES ASSUME Init PROVE Visits
  OBVIOUS
<1>1. \A id \in SessionIds : sessions[id] = None
  BY DEF Init
<1>2. ASSUME NEW t \in Tasks PROVE task[t].visited = {}
  <2>1. task[t] = [op |-> "none", pc |-> "idle", calls |-> 0, id |-> None,
                   conn |-> 0, proc |-> 0, peer |-> 0, visited |-> {}, attempt |-> 0]
    BY DEF Init
  <2> QED
    BY <2>1
<1> QED
  BY <1>1, <1>2 DEF Visits, Slotted, Tried

\* When stop ends, every session in the Map was asked to disconnect, those included that
\* were opened while it waited for others; only a session that resumeSession put in the
\* place of one it had asked already may have been left out (client.ts, stop).
THEOREM StopAsksAll == Spec => StopAsksEverySession
<1>1. Numbered /\ [Next]_vars => Numbered'
  BY NextStep, StepNumbered
<1>2. Spec => [](Numbered /\ Fielded)
  BY <1>1, InitNumbered, TypedInit, TypedNext, PTL DEF Spec
<1> DEFINE Asked(t) ==
      task[t].pc = "stop" /\ task'[t].pc = "idle" =>
        \A id \in SessionIds : sessions[id] # None =>
          \/ sessions[id].object \in history.tried
          \/ sessions[id].slot # sessions[id].object /\ sessions[id].slot \in task[t].visited
<1>3. ASSUME Fielded, Visits, [Next]_vars PROVE \A t \in Tasks : Asked(t)
  <2> SUFFICES ASSUME NEW t \in Tasks, task[t].pc = "stop", task'[t].pc = "idle",
                      NEW id \in SessionIds, sessions[id] # None
               PROVE  \/ sessions[id].object \in history.tried
                      \/ /\ sessions[id].slot # sessions[id].object
                         /\ sessions[id].slot \in task[t].visited
    OBVIOUS
  <2>1. sessions[id].slot \in task[t].visited
    BY <1>3, StopEndsIt DEF StopEnds, Unvisited
  <2> QED
    BY <1>3, <2>1 DEF Visits, Tried
<1>4. Fielded /\ Visits /\ [Next]_vars => [\A t \in Tasks : Asked(t)]_vars
  BY <1>3
<1> QED
  BY <1>2, <1>4, VisitsInit, VisitsNext, PTL DEF Spec, StopAsksEverySession
=============================================================================
