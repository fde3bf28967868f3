----------------------------- MODULE NodeClient -----------------------------
(***************************************************************************)
(* The life of a CopilotClient of the Node.js SDK (nodejs/src/client.ts):  *)
(* start, stop, forceStop, createSession and resumeSession, which start    *)
(* the client when needed, deleteSession, the requests that only ask, and  *)
(* listModels (NodeModels), called by asynchronous functions of the        *)
(* application that overlap; the processes, sockets and connections they   *)
(* leave behind, and the events of those.                                  *)
(*                                                                         *)
(* Nothing guards start, stop and the rest from each other: a step is what *)
(* runs between two awaits.  Processes, connections and session objects    *)
(* are numbered, 0 is null.  vscode-jsonrpc and Node.js are external:      *)
(* dispose rejects the requests of a connection and silences it; one that  *)
(* closes fires onClose and leaves its requests as they are.               *)
(***************************************************************************)
EXTENDS NodeModels, FiniteSets

CONSTANTS
  SessionIds,
  Options,    \* the options clients are made with
  Ops,        \* the operations each task calls
  MaxOps,     \* bound: how many each task calls
  MaxProcs,   \* bound: processes spawned
  MaxConns    \* bound: connections made

AllOps == {"start", "stop", "forceStop", "open", "delete", "query", "listModels"}

\* What decides how a client starts: how it reaches its server, whether a session starts
\* it, and whether the application keeps the files of its sessions.
ClientOptions ==
  [transport : {"stdio", "tcp", "cliUrl", "child"}, autoStart : BOOLEAN, sessionFs : BOOLEAN]

ASSUME ClientAssumption ==
  /\ Options \subseteq ClientOptions
  /\ None \notin SessionIds
  /\ Ops \in [Tasks -> SUBSET AllOps]
  /\ MaxOps \in [Tasks -> Nat] /\ MaxProcs \in Nat /\ MaxConns \in Nat

VARIABLES
  options,
  client,   \* the fields of the client that start and stop write
  sessions, \* this.sessions: what the Map holds for each id, or None
  task,     \* what each task is doing
  world,    \* processes, connections, sockets and timers there are
  history   \* what happened, for the properties

vars == <<modelVars, options, client, sessions, task, world, history>>

\* processExit is the process this.processExitPromise is about, actualPort the process
\* whose port it is (0: the port of a cliUrl), socket and cliStartTimeout the task that
\* made them.
ClientFields ==
  [state : {"disconnected", "connecting", "connected", "error"},
   cliProcess : 0..MaxProcs, processExit : 0..MaxProcs,
   actualPort : 0..MaxProcs \cup {None}, socket : Tasks \cup {None},
   cliStartTimeout : Tasks \cup {None}, forceStopping : BOOLEAN]

\* An entry keeps its place (slot) in the Map when its value is replaced.
Entries == [slot : Nat, object : Nat, conn : 0..MaxConns]

Requesting == {"ping", "setProvider", "opening", "deleting", "querying", "disconnecting"}
StartSteps == {"port", "connect", "connecting", "verify", "ping", "setProvider"}
Labels == Requesting \cup StartSteps
          \cup {"idle", "start", "open", "register", "delete", "query", "stop", "forceStop", "backoff",
               "listModels", "listing"}

\* conn is the connection of the request, proc the process whose exit ends the wait, peer
\* what the socket connects to; visited and attempt are of stop.
TaskFields ==
  [op : AllOps \cup {"none"}, pc : Labels, calls : Nat, id : SessionIds \cup {None},
   conn : 0..MaxConns, proc : 0..MaxProcs, peer : 0..MaxProcs,
   visited : SUBSET Nat, attempt : 0..3]

isExternalServer == options.transport \in {"cliUrl", "child"}

Init ==
  /\ ModelsInit
  /\ options \in Options
  /\ client = [state |-> "disconnected", cliProcess |-> 0, processExit |-> 0,
               actualPort |-> IF options.transport = "cliUrl" THEN 0 ELSE None,
               socket |-> None, cliStartTimeout |-> None, forceStopping |-> FALSE]
  /\ sessions = [id \in SessionIds |-> None]
  /\ task = [t \in Tasks |-> [op |-> "none", pc |-> "idle", calls |-> 0, id |-> None,
                              conn |-> 0, proc |-> 0, peer |-> 0,
                              visited |-> {}, attempt |-> 0]]
  /\ world = [procs |-> 0, alive |-> {}, killed |-> {}, conns |-> 0,
              peer |-> [n \in 1..MaxConns |-> 0], timers |-> {}, destroyed |-> {},
              objects |-> 0, crashed |-> FALSE]
  /\ history = [verified |-> {}, overlapped |-> FALSE, tried |-> {}]

----------------------------------------------------------------------------
(* Tasks and requests *)

At(t, label) == task[t].pc = label /\ ~world.crashed
Goto(t, label) == task' = [task EXCEPT ![t].pc = label]

Call(t, o) ==
  /\ At(t, "idle") /\ o \in Ops[t] /\ task[t].calls < MaxOps[t]
  /\ \E id \in IF o \in {"open", "delete"} THEN SessionIds ELSE {None} :
       task' = [task EXCEPT ![t].op = o, ![t].pc = o, ![t].calls = @ + 1, ![t].id = id]
  /\ UNCHANGED <<modelVars, options, client, sessions, world, history>>

Returned(t, r) ==
  [r EXCEPT !.op = "none", !.pc = "idle", !.id = None, !.conn = 0, !.proc = 0,
            !.visited = {}, !.attempt = 0]
Returns(t) == task' = [task EXCEPT ![t] = Returned(t, @)]

\* sendRequest throws when there is no connection, or it is known to be gone.
Sendable(n) == n # 0 /\ n \notin closed \cup disposed

Send(t, label, n) == task' = [task EXCEPT ![t].pc = label, ![t].conn = n]

\* An answer may come until the connection is closed or disposed.
Answered(t) == task[t].conn \notin closed \cup disposed

\* An error answers, the request cannot be written, or dispose rejects it.
Fails(t) == task[t].conn \notin closed \/ task[t].conn \in disposed

----------------------------------------------------------------------------
(* start *)

\* The catch block of start; what was spawned and connected stays.
Failed(c) == [c EXCEPT !.state = "error"]

StartFails(t) == Returns(t) /\ client' = Failed(client)

\* start returns; createSession, if it called it, goes on.
Started(t) == IF task[t].op = "start" THEN Returns(t) ELSE Goto(t, "register")

\* A connection to peer p is made and becomes the client's.
Connect(p) ==
  /\ world.conns < MaxConns
  /\ world' = [world EXCEPT !.conns = @ + 1, !.peer[world.conns + 1] = p]
  /\ NewConnection(world.conns + 1)

\* connectViaTcp, up to the connection of the socket to peer p.
OpenSocket(t, p) ==
  /\ client' = [client EXCEPT !.state = "connecting", !.socket = t]
  /\ task' = [task EXCEPT ![t].pc = "connecting", ![t].peer = p]
  /\ world' = [world EXCEPT !.destroyed = @ \ {t}]
  /\ UNCHANGED connVars

\* What start does at once when the server is not its own: connect.
StartExternal(t) ==
  \/ /\ options.transport = "child"
     /\ Connect(0)
     /\ client' = [client EXCEPT !.state = "connecting"]
     /\ Goto(t, "verify")
  \/ options.transport = "cliUrl" /\ client.actualPort # None /\ OpenSocket(t, 0)
  \/ /\ options.transport = "cliUrl" /\ client.actualPort = None
     /\ StartFails(t)
     /\ UNCHANGED <<connVars, world>>

\* startCLIServer: with stdio it is ready at once, otherwise it waits for the port.
Spawn(t) ==
  /\ ~isExternalServer /\ world.procs < MaxProcs
  /\ LET p == world.procs + 1
     IN /\ world' = [world EXCEPT !.procs = p, !.alive = @ \cup {p},
                                  !.timers = @ \cup {t}]
        /\ client' = [client EXCEPT !.state = "connecting", !.cliProcess = p,
                                    !.processExit = p, !.cliStartTimeout = t]
        /\ task' = [task EXCEPT ![t].proc = p, ![t].pc =
                      IF options.transport = "stdio" THEN "connect" ELSE "port"]
  /\ UNCHANGED connVars

\* No guard but the state: a start in progress, or what a failed one left, is not seen.
StartBegins(t) ==
  /\ client.state # "connected"
  /\ history' = [history EXCEPT !.overlapped =
                   @ \/ \E u \in Tasks \ {t} : task[u].pc \in StartSteps]
  /\ \/ isExternalServer /\ StartExternal(t)
     \/ Spawn(t)
     \/ /\ ~isExternalServer \* no CLI at cliPath
        /\ StartFails(t) /\ UNCHANGED <<connVars, world>>

start(t) ==
  /\ At(t, "start")
  /\ \/ StartBegins(t)
     \/ client.state = "connected" /\ Started(t)
        /\ UNCHANGED <<connVars, client, world, history>>
  /\ UNCHANGED <<modelsCache, callVars, options, sessions>>

\* The process announces its port, exits, or ten seconds pass.
StartPort(t) ==
  /\ At(t, "port")
  /\ \/ /\ task[t].proc \in world.alive
        /\ client' = [client EXCEPT !.actualPort = task[t].proc]
        /\ Goto(t, "connect")
     \/ /\ task[t].proc \notin world.alive \/ t \in world.timers
        /\ StartFails(t)
  /\ world' = [world EXCEPT !.timers = @ \ {t}]
  /\ UNCHANGED <<modelVars, options, sessions, history>>

\* connectToServer, to what the fields hold now.
StartConnect(t) ==
  /\ At(t, "connect")
  /\ \/ /\ options.transport = "stdio" /\ client.cliProcess # 0
        /\ Connect(client.cliProcess) /\ Goto(t, "verify") /\ UNCHANGED client
     \/ /\ options.transport = "tcp" /\ client.actualPort # None
        /\ OpenSocket(t, client.actualPort)
     \/ /\ IF options.transport = "stdio" THEN client.cliProcess = 0
                                          ELSE client.actualPort = None
        /\ StartFails(t) /\ UNCHANGED <<connVars, world>>
  /\ UNCHANGED <<modelsCache, callVars, options, sessions, history>>

\* The callback of the socket takes the socket from the field, and throws, to nobody, if
\* there is none any more.
SocketConnects(t) ==
  /\ At(t, "connecting") /\ t \notin world.destroyed
  /\ task[t].peer \in world.alive \cup {0}
  /\ IF client.socket = None
     THEN world' = [world EXCEPT !.crashed = TRUE] /\ UNCHANGED <<connVars, task>>
     ELSE Connect(task[client.socket].peer) /\ Goto(t, "verify")
  /\ UNCHANGED <<modelsCache, callVars, options, client, sessions, history>>

SocketFails(t) ==
  /\ At(t, "connecting") /\ t \notin world.destroyed
  /\ StartFails(t)
  /\ UNCHANGED <<modelVars, options, sessions, world, history>>

\* verifyProtocolVersion: the ping races the exit of the process.
StartPing(t) ==
  /\ At(t, "verify")
  /\ \/ /\ Sendable(connection)
        /\ task' = [task EXCEPT ![t].pc = "ping", ![t].conn = connection,
                                ![t].proc = client.processExit]
        /\ UNCHANGED client
     \/ ~Sendable(connection) /\ StartFails(t)
  /\ UNCHANGED <<modelVars, options, sessions, world, history>>

\* The server answers with a version, in the supported range or not.
StartPinged(t) ==
  /\ At(t, "ping") /\ Answered(t)
  /\ \/ /\ ~options.sessionFs /\ Started(t)
        /\ client' = [client EXCEPT !.state = "connected"]
        /\ history' = [history EXCEPT !.verified = @ \cup {task[t].conn}]
     \/ /\ options.sessionFs /\ Sendable(connection)
        /\ Send(t, "setProvider", connection)
        /\ history' = [history EXCEPT !.verified = @ \cup {task[t].conn}]
        /\ UNCHANGED client
     \/ StartFails(t) /\ UNCHANGED history
  /\ UNCHANGED <<modelVars, options, sessions, world>>

\* Mutant of StartPingFails: the ping does not race the exit of the process.
StartPingFailsAlone(t) ==
  /\ At(t, "ping") /\ Fails(t)
  /\ StartFails(t)
  /\ UNCHANGED <<modelVars, options, sessions, world, history>>

StartPingFails(t) ==
  /\ At(t, "ping")
  /\ Fails(t) \/ task[t].proc \notin world.alive \cup {0}
  /\ StartFails(t)
  /\ UNCHANGED <<modelVars, options, sessions, world, history>>

StartProviderSet(t) ==
  /\ At(t, "setProvider")
  /\ \/ Answered(t) /\ Started(t) /\ client' = [client EXCEPT !.state = "connected"]
     \/ Fails(t) /\ StartFails(t)
  /\ UNCHANGED <<modelVars, options, sessions, world, history>>

----------------------------------------------------------------------------
(* createSession and resumeSession *)

\* Without a connection the client is started first, or the call fails.
open(t) ==
  /\ At(t, "open")
  /\ \/ connection # 0 /\ Goto(t, "register")
     \/ connection = 0 /\ options.autoStart /\ Goto(t, "start")
     \/ connection = 0 /\ ~options.autoStart /\ Returns(t)
  /\ UNCHANGED <<modelVars, options, client, sessions, world, history>>

\* What sessions.set leaves in the Map: a value that is there is replaced in place.
SetEntry(id, object) ==
  [slot |-> IF sessions[id] = None THEN object ELSE sessions[id].slot,
   object |-> object, conn |-> connection]

\* The session is registered before its request is sent.  Without a handler for its file
\* system the call fails and the session stays; if the request cannot be sent it goes.
\* Whether start left a connection is not looked at.
OpenRegister(t) ==
  /\ At(t, "register")
  /\ LET id == task[t].id
         object == world.objects + 1
     IN /\ world' = [world EXCEPT !.objects = object]
        /\ \/ /\ options.sessionFs /\ Returns(t)
              /\ sessions' = [sessions EXCEPT ![id] = SetEntry(id, object)]
           \/ /\ Sendable(connection) /\ Send(t, "opening", connection)
              /\ sessions' = [sessions EXCEPT ![id] = SetEntry(id, object)]
           \/ /\ ~Sendable(connection) /\ Returns(t)
              /\ sessions' = [sessions EXCEPT ![id] = None]
  /\ UNCHANGED <<modelVars, options, client, history>>

OpenAnswered(t) ==
  /\ At(t, "opening") /\ Answered(t)
  /\ Returns(t)
  /\ UNCHANGED <<modelVars, options, client, sessions, world, history>>

\* Whatever the Map holds under the id goes.
OpenFails(t) ==
  /\ At(t, "opening") /\ Fails(t)
  /\ Returns(t)
  /\ sessions' = [sessions EXCEPT ![task[t].id] = None]
  /\ UNCHANGED <<modelVars, options, client, world, history>>

----------------------------------------------------------------------------
(* deleteSession, and the requests that only ask *)

\* ping, getStatus, getAuthStatus, getLastSessionId, listSessions, getSessionMetadata
\* and the foreground session.
Ask(t, label, next) ==
  /\ At(t, label)
  /\ IF Sendable(connection) THEN Send(t, next, connection) ELSE Returns(t)
  /\ UNCHANGED <<modelVars, options, client, sessions, world, history>>

query(t) == Ask(t, "query", "querying")
deleteSession(t) == Ask(t, "delete", "deleting")

QueryReturns(t) ==
  /\ At(t, "querying")
  /\ Answered(t) \/ Fails(t)
  /\ Returns(t)
  /\ UNCHANGED <<modelVars, options, client, sessions, world, history>>

\* The server may answer that it could not delete the session.
DeleteReturns(t) ==
  /\ At(t, "deleting")
  /\ \/ Answered(t) /\ sessions' = [sessions EXCEPT ![task[t].id] = None]
     \/ (Answered(t) \/ Fails(t)) /\ UNCHANGED sessions
  /\ Returns(t)
  /\ UNCHANGED <<modelVars, options, client, world, history>>

----------------------------------------------------------------------------
(* stop and forceStop *)

\* Mutant of Unvisited: the loop ends with the first session.
UnvisitedFirst(t) == {id \in SessionIds : sessions[id] # None /\ task[t].visited = {}}

\* A Map is iterated live, in the order of its slots: a session that is added is visited,
\* one that is deleted is not, one that replaces a visited one is not.
Unvisited(t) ==
  {id \in SessionIds : sessions[id] # None /\ sessions[id].slot \notin task[t].visited}

IsNextSession(t, id) ==
  id \in Unvisited(t) /\ \A other \in Unvisited(t) : sessions[id].slot <= sessions[other].slot

\* Mutant of Disconnecting: one attempt more.
DisconnectingOnceMore(t, r, n) ==
  IF Sendable(n) THEN [r EXCEPT !.pc = "disconnecting", !.conn = n]
  ELSE [r EXCEPT !.pc = IF r.attempt <= 3 THEN "backoff" ELSE "stop", !.conn = n]

\* session.disconnect on the connection the session was made with; a request that cannot
\* be sent is a failed attempt.
Disconnecting(t, r, n) ==
  IF Sendable(n) THEN [r EXCEPT !.pc = "disconnecting", !.conn = n]
  ELSE [r EXCEPT !.pc = IF r.attempt < 3 THEN "backoff" ELSE "stop", !.conn = n]

Visiting(t, e) == [task[t] EXCEPT !.visited = @ \cup {e.slot}, !.attempt = 1]
Retrying(t) == [task[t] EXCEPT !.attempt = @ + 1]

StopVisit(t) ==
  /\ At(t, "stop")
  /\ \E id \in SessionIds :
       LET e == sessions[id]
       IN /\ IsNextSession(t, id)
          /\ task' = [task EXCEPT ![t] =
                Disconnecting(t, Visiting(t, e), e.conn)]
          /\ history' = [history EXCEPT !.tried = @ \cup {e.object}]
  /\ UNCHANGED <<modelVars, options, client, sessions, world>>

StopDisconnected(t) ==
  /\ At(t, "disconnecting") /\ Answered(t)
  /\ Goto(t, "stop")
  /\ UNCHANGED <<modelVars, options, client, sessions, world, history>>

\* Three attempts.
StopDisconnectFails(t) ==
  /\ At(t, "disconnecting") /\ Fails(t)
  /\ Goto(t, IF task[t].attempt < 3 THEN "backoff" ELSE "stop")
  /\ UNCHANGED <<modelVars, options, client, sessions, world, history>>

StopRetries(t) ==
  /\ At(t, "backoff")
  /\ task' = [task EXCEPT ![t] = Disconnecting(t, Retrying(t), task[t].conn)]
  /\ UNCHANGED <<modelVars, options, client, sessions, world, history>>

\* The fields after stop.
Reset(c) == [c EXCEPT !.state = "disconnected", !.cliProcess = 0, !.processExit = 0,
                      !.actualPort = None, !.socket = None, !.cliStartTimeout = None]

\* What stop and forceStop do to the rest: the process is sent a signal, the timer of its
\* start cleared.
Terminated(w) ==
  [w EXCEPT !.killed = @ \cup ({client.cliProcess} \ {0}),
            !.timers = @ \ {client.cliStartTimeout}]

StopEnds(t) ==
  /\ At(t, "stop") /\ Unvisited(t) = {}
  /\ sessions' = [id \in SessionIds |-> None]
  /\ Disconnect
  /\ client' = Reset(client)
  /\ world' = Terminated(world)
  /\ Returns(t)
  /\ UNCHANGED <<options, history>>

\* The socket is destroyed: if it was connecting, nobody hears of it again.
forceStop(t) ==
  /\ At(t, "forceStop")
  /\ sessions' = [id \in SessionIds |-> None]
  /\ Disconnect
  /\ client' = Reset([client EXCEPT !.forceStopping = TRUE])
  /\ world' = [Terminated(world) EXCEPT !.destroyed = @ \cup ({client.socket} \ {None})]
  /\ Returns(t)
  /\ UNCHANGED <<options, history>>

----------------------------------------------------------------------------
(* Processes and connections *)

ProcessExits(p) ==
  /\ ~world.crashed /\ p \in world.alive
  /\ world' = [world EXCEPT !.alive = @ \ {p}]
  /\ UNCHANGED <<modelVars, options, client, sessions, task, history>>

Open(n) == ~world.crashed /\ n \in 1..world.conns /\ n \notin closed \cup disposed

PeerGone(n) == world.peer[n] \notin world.alive \cup {0}

\* Mutant of OnClose: the client does not listen to onClose.
OnCloseUnheard(n) ==
  /\ Open(n) /\ world.peer[n] \notin world.alive
  /\ ConnectionLost(n)
  /\ UNCHANGED <<modelsCache, callVars, options, client, sessions, task, world, history>>

\* The connection ends: the peer died, or it is an external server that went.  Whichever
\* connection it is, the client's state is set.
OnClose(n) ==
  /\ Open(n) /\ world.peer[n] \notin world.alive
  /\ ConnectionLost(n)
  /\ client' = [client EXCEPT !.state = "disconnected"]
  /\ UNCHANGED <<modelsCache, callVars, options, sessions, task, world, history>>

\* onError: something could not be read or written.
OnError(n) ==
  /\ Open(n) /\ client.state # "disconnected"
  /\ client' = [client EXCEPT !.state = "disconnected"]
  /\ UNCHANGED <<modelVars, options, sessions, task, world, history>>

\* A request is written to the pipe of a process that died: the error handler of stdin
\* throws, to nobody, unless forceStop was called.
StdinError(n) ==
  /\ Open(n) /\ PeerGone(n) /\ options.transport = "stdio" /\ ~client.forceStopping
  /\ \E t \in Tasks : task[t].pc \in Requesting /\ task[t].conn = n
  /\ world' = [world EXCEPT !.crashed = TRUE]
  /\ UNCHANGED <<modelVars, options, client, sessions, task, history>>

----------------------------------------------------------------------------

StartNext(t) ==
  \/ start(t) \/ StartPort(t) \/ StartConnect(t) \/ SocketConnects(t) \/ SocketFails(t)
  \/ StartPing(t) \/ StartPinged(t) \/ StartPingFails(t) \/ StartProviderSet(t)

SessionNext(t) ==
  \/ open(t) \/ OpenRegister(t) \/ OpenAnswered(t) \/ OpenFails(t)
  \/ query(t) \/ QueryReturns(t) \/ deleteSession(t) \/ DeleteReturns(t)

StopNext(t) ==
  \/ StopVisit(t) \/ StopDisconnected(t) \/ StopDisconnectFails(t) \/ StopRetries(t)
  \/ StopEnds(t) \/ forceStop(t)

ListNext(t) ==
  /\ \/ At(t, "listModels") /\ listModels(t) /\ Goto(t, "listing")
     \/ At(t, "listing") /\ CallerNext(t)
        /\ IF caller'[t] = "idle" THEN Returns(t) ELSE UNCHANGED task
  /\ UNCHANGED <<options, client, sessions, world, history>>

TaskNext(t) == StartNext(t) \/ SessionNext(t) \/ StopNext(t) \/ ListNext(t)

WorldNext ==
  \/ \E p \in 1..MaxProcs : ProcessExits(p)
  \/ \E n \in 1..MaxConns : OnClose(n) \/ OnError(n) \/ StdinError(n)

Next ==
  \/ \E t \in Tasks : TaskNext(t) \/ \E o \in AllOps : Call(t, o)
  \/ WorldNext

Spec == Init /\ [][Next]_vars

----------------------------------------------------------------------------
(* Properties *)

TypeOK ==
  /\ ModelsTypeOK /\ connection \in 0..world.conns
  /\ options \in Options
  /\ client \in ClientFields
  /\ sessions \in [SessionIds -> Entries \cup {None}]
  /\ task \in [Tasks -> TaskFields]
  /\ world \in [procs : 0..MaxProcs, alive : SUBSET (1..MaxProcs), killed : SUBSET (1..MaxProcs),
                conns : 0..MaxConns, peer : [1..MaxConns -> 0..MaxProcs], timers : SUBSET Tasks,
                destroyed : SUBSET Tasks, objects : Nat, crashed : BOOLEAN]
  /\ world.alive \cup world.killed \cup ({client.cliProcess} \ {0}) \subseteq 1..world.procs
  /\ history \in [verified : SUBSET (0..MaxConns), overlapped : BOOLEAN, tried : SUBSET Nat]

\* A client that says it is connected has a connection that is open and whose server was
\* asked for its version, whatever stops, losses and failed starts came before, as long
\* as no two starts overlapped (client.ts, start, stop and attachConnectionHandlers).
ConnectedMeansOpen ==
  client.state = "connected" /\ ~history.overlapped
  => Sendable(connection) /\ connection \in history.verified

\* When stop ends, every session in the Map was asked to disconnect, those included that
\* were opened while it waited for others; only a session that resumeSession put in the
\* place of one it had asked already may have been left out (client.ts, stop).
StopAsksEverySession ==
  [][\A t \in Tasks : task[t].pc = "stop" /\ task'[t].pc = "idle" =>
       \A id \in SessionIds : sessions[id] # None =>
         \/ sessions[id].object \in history.tried
         \/ sessions[id].slot # sessions[id].object /\ sessions[id].slot \in task[t].visited]_vars

\* A start that the bounds hold up.
AtBound(t) == task[t].pc \in {"start", "connect", "connecting"} /\ world.conns = MaxConns

\* A request was lost with its connection: only stop or forceStop can
\* end it now.
LostRequest(label, n) == label \in Requesting \cup {"fetching"} /\ n \in closed \ disposed

\* The exit of the process ends the wait for its answer to the ping.
PingWatched(t) ==
  task[t].pc = "ping" /\ task[t].proc # 0 /\ task[t].proc = world.peer[task[t].conn]

\* No operation waits for what cannot happen any more, but for one whose request was lost
\* with its connection, a listModels that waits for one that is fetching, and a start
\* whose socket forceStop destroyed while it was connecting.  As no operation repeats a step for ever,
\* it ends if the server answers, timers fire and processes that are killed exit
\* (client.ts, start, stop, createSession, listModels).
StuckOnlyIfLost ==
  \A t \in Tasks :
    \/ task[t].pc = "idle" \/ world.crashed \/ AtBound(t)
    \/ ENABLED TaskNext(t)
    \/ LostRequest(task[t].pc, task[t].conn) /\ ~PingWatched(t)
    \/ LostRequest(caller[t], request[t])
    \/ awaiting[t] # None /\ caller[awaiting[t]] = "fetching"
    \/ task[t].pc = "connecting" /\ t \in world.destroyed
    \/ task[t].pc = "port" /\ task[t].proc \in world.killed
=============================================================================
