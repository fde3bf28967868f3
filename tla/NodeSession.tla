---------------------------- MODULE NodeSession ----------------------------
(***************************************************************************)
(* One session of the Node.js SDK (nodejs/src/session.ts) with the part of *)
(* the client that hands it what the server sends (nodejs/src/client.ts,   *)
(* attachConnectionHandlers): events and their subscribers, send and       *)
(* sendAndWait, disconnect, capabilities, and the requests of the server,  *)
(* which protocol 3 broadcasts as events and protocol 2 sends as calls.    *)
(*                                                                         *)
(* Messages are taken one at a time; what a message sets off up to the     *)
(* next await, and the continuations it releases, run before the next one. *)
(* A dispatch is one step for each handler it calls, during which nothing  *)
(* else runs.  The connection and the server are external.                 *)
(***************************************************************************)
EXTENDS Naturals, Sequences, FiniteSets

CONSTANTS
  Tasks,      \* asynchronous functions of the application
  Handlers,   \* functions it subscribes
  Subject,    \* what each handler is subscribed to: [of, type]
  Requests,   \* requests of the server
  None,
  MaxTurns,   \* bound: turns the server opens
  Limits      \* bounds: of one of these each behaviour calls, emits and changes no more

Broadcast == {"tool", "permission", "command", "elicitation"}
Routed == {"toolV2", "permissionV2", "userInput", "hooks", "transform", "sessionFs"}
TurnEvents == {"message", "idle", "error"}
EventTypes == TurnEvents \cup Broadcast \cup {"capabilities"}
Ops == {"send", "sendAndWait", "disconnect", "request", "elicit"}

ASSUME SessionAssumption ==
  /\ Subject \in [Handlers -> [of : {"session", "client"}, type : EventTypes \cup {"lifecycle", "*"}]]
  /\ Tasks \cap Handlers = {} /\ MaxTurns \in Nat
  /\ Limits \subseteq [ops : SUBSET Ops, calls : [Tasks -> Nat], events : Nat,
                       types : SUBSET (TurnEvents \cup {"capabilities", "lifecycle"}), changes : Nat,
                       kind : [Requests -> Broadcast \cup Routed \cup {"none"}],
                       handled : BOOLEAN, lose : BOOLEAN]

VARIABLES
  limits,     \* the bounds of this behaviour
  connection, \* "open", "closed" or "disposed"
  inbox,      \* messages of the server the client has not taken yet
  session,    \* the fields of the session, but for its event handlers
  subs,       \* place of each subscriber in its Set or Map, 0 if there is none
  slots,      \* the last place given
  dispatch,   \* the dispatch that runs, or None
  task,       \* what each task is doing
  request,    \* what became of each request of the server
  server      \* the server, for this session

vars == <<limits, connection, inbox, session, subs, slots, dispatch, task, request, server>>

\* A sendAndWait subscribes a function of its own, named by its task.
Keys == Handlers \cup Tasks
Subjects == [k \in Keys |-> IF k \in Handlers THEN Subject[k] ELSE [of |-> "session", type |-> "*"]]

Message(type, about, ok) == [type |-> type, about |-> about, ok |-> ok]
MessageTypes == EventTypes \cup Routed \cup {"lifecycle", "created", "answer", "reply"}
Messages == [type : MessageTypes, about : Requests \cup Tasks \cup BOOLEAN \cup Nat, ok : BOOLEAN]

\* The event whose subscribers are called, the place of the last one called, and those
\* who were subscribed from the start and are still to be called.
Dispatches == [event : Messages, cursor : [any : BOOLEAN, place : Nat], owed : SUBSET Keys]
ASSUME NoneAssumption == None \notin Dispatches

Labels == {"idle", "tracing", "sending", "waiting", "disconnecting", "requesting"}
Phases == {"none", "sent", "running", "answering", "failing", "done", "ignored"}
Outcomes == {"none", "nothing", "text", "object", "odd", "approved", "denied", "no-result", "throws"}

Idle(calls) == [op |-> "none", pc |-> "idle", calls |-> calls, settled |-> "pending", last |-> 0,
                timer |-> FALSE, turn |-> 0, alone |-> FALSE]

\* The handlers of a SessionConfig: all may be missing but that of permissions.
Configured(handled) ==
  [tool |-> handled, permission |-> TRUE, command |-> handled, elicitation |-> handled,
   userInput |-> handled, hooks |-> handled, transform |-> handled, sessionFs |-> handled,
   registered |-> TRUE, created |-> FALSE, capabilities |-> FALSE]

\* The session is registered, with its handlers, before session.create is sent.
Init ==
  /\ limits \in Limits
  /\ connection = "open" /\ inbox = <<>>
  /\ session = Configured(limits.handled)
  /\ subs = [k \in Keys |-> 0] /\ slots = 0
  /\ dispatch = None
  /\ task = [t \in Tasks |-> Idle(0)]
  /\ request = [r \in Requests |-> [phase |-> "none", outcome |-> "none", answers |-> <<>>, refused |-> FALSE]]
  /\ server = [created |-> FALSE, capabilities |-> FALSE, turns |-> 0, queue |-> <<>>,
               said |-> [turn \in 1..MaxTurns |-> 0],
               pending |-> {}, taken |-> {}, replied |-> {}, events |-> 0, changes |-> 0]

Free == dispatch = None

Kind(r) == limits.kind[r]

----------------------------------------------------------------------------
(* Subscriptions and their dispatch *)

\* on: a function that is in the Set keeps its place.
Subscribed(k) == IF subs[k] = 0 THEN [subs EXCEPT ![k] = slots + 1] ELSE subs

on(h) == subs' = Subscribed(h) /\ slots' = slots + 1

\* The function on returns.
unsubscribe(h) == subs' = [subs EXCEPT ![h] = 0] /\ UNCHANGED slots

Changes(h) == Subject[h].of = "session" /\ (on(h) \/ unsubscribe(h))

\* The same of the client: handlers of lifecycle events.
ClientChanges(h) == Subject[h].of = "client" /\ (on(h) \/ unsubscribe(h))

MayChange == server.changes < limits.changes /\ server' = [server EXCEPT !.changes = @ + 1]

\* The application subscribes and unsubscribes between dispatches.
ApplicationChanges(h) ==
  /\ Free /\ MayChange
  /\ Changes(h) \/ ClientChanges(h)
  /\ UNCHANGED <<limits, connection, inbox, session, dispatch, task, request>>

Hears(k, m) ==
  /\ subs[k] # 0
  /\ Subjects[k].of = (IF m.type = "lifecycle" THEN "client" ELSE "session")
  /\ Subjects[k].type \in {m.type, "*"}

\* Typed handlers are called before the others, each in the order they were added.
Rank(k) == [any |-> Subjects[k].type = "*", place |-> subs[k]]
Precedes(p, q) == (~p.any /\ q.any) \/ (p.any = q.any /\ p.place < q.place)

\* The Sets are iterated live: a handler that is added is called, one that is deleted is not.
Due == {k \in Keys : Hears(k, dispatch.event) /\ Precedes(dispatch.cursor, Rank(k))}
IsNext(k) == k \in Due /\ \A other \in Due \ {k} : Precedes(Rank(k), Rank(other))

\* Mutant of Heard: the first message is kept.
HeardFirst(w, m) ==
  CASE m.type = "message" -> [w EXCEPT !.last = IF @ = 0 THEN m.about ELSE @]
    [] m.type \in {"idle", "error"} -> [w EXCEPT !.settled = IF @ = "pending" THEN m.type ELSE @]
    [] OTHER -> w

\* What the function sendAndWait subscribes does; a promise settles once.
Heard(w, m) ==
  CASE m.type = "message" -> [w EXCEPT !.last = m.about]
    [] m.type \in {"idle", "error"} -> [w EXCEPT !.settled = IF @ = "pending" THEN m.type ELSE @]
    [] OTHER -> w

Called(k) == [dispatch EXCEPT !.cursor = Rank(k), !.owed = @ \ {k}]

CallWaiter(t) ==
  /\ dispatch # None /\ IsNext(t)
  /\ task' = [task EXCEPT ![t] = Heard(@, dispatch.event)]
  /\ dispatch' = Called(t)
  /\ UNCHANGED <<limits, connection, inbox, session, subs, slots, request, server>>

\* Mutant of CallHandler: an exception ends the dispatch.
CallHandlerUncaught(h) ==
  /\ dispatch # None /\ IsNext(h)
  /\ \/ dispatch' = Called(h) /\ UNCHANGED <<subs, slots, server>>
     \/ dispatch' = None /\ UNCHANGED <<subs, slots, server>>
     \/ /\ MayChange /\ \E other \in Handlers : Changes(other) \/ ClientChanges(other)
        /\ dispatch' = [Called(h) EXCEPT !.owed = {k \in @ : subs'[k] # 0}]
  /\ UNCHANGED <<limits, connection, inbox, session, task, request>>

\* A handler may subscribe or unsubscribe; what it throws is swallowed.
CallHandler(h) ==
  /\ dispatch # None /\ IsNext(h)
  /\ \/ dispatch' = Called(h) /\ UNCHANGED <<subs, slots, server>>
     \/ /\ MayChange /\ \E other \in Handlers : Changes(other) \/ ClientChanges(other)
        /\ dispatch' = [Called(h) EXCEPT !.owed = {k \in @ : subs'[k] # 0}]
  /\ UNCHANGED <<limits, connection, inbox, session, task, request>>

\* What follows on a sendAndWait whose promise was settled, if it awaits that by now.
Settled == {t \in Tasks : task[t].pc = "waiting" /\ task[t].settled # "pending"}

\* Mutant of Ended: the timer is not cleared.
EndedTimerLeft(ts) ==
  [t \in Tasks |-> IF t \in ts THEN [Idle(task[t].calls) EXCEPT !.timer = task[t].timer] ELSE task[t]]

\* The finally block of sendAndWait: the timer is cleared and the function unsubscribed.
Finished(ts) == [k \in Keys |-> IF k \in ts THEN 0 ELSE subs[k]]
Ended(ts) == [t \in Tasks |-> IF t \in ts THEN Idle(task[t].calls) ELSE task[t]]

DispatchEnds ==
  /\ dispatch # None /\ Due = {}
  /\ dispatch' = None
  /\ subs' = Finished(Settled) /\ task' = Ended(Settled)
  /\ UNCHANGED <<limits, connection, inbox, session, slots, request, server>>

----------------------------------------------------------------------------
(* The requests of the server *)

Send(r, answer, phase) ==
  IF connection = "open"
  THEN [request[r] EXCEPT !.answers = Append(@, answer), !.phase = phase]
  ELSE [request[r] EXCEPT !.phase = "done"]

\* What an error handler answers: of the kinds that are broadcast, with a second call.
Failure(kind) ==
  CASE kind \in {"tool", "command", "userInput", "sessionFs"} -> "error"
    [] kind \in {"permission", "permissionV2"} -> "denied"
    [] kind = "elicitation" -> "cancel"
    [] kind = "toolV2" -> "failure"
    [] kind = "hooks" -> "nothing"
    [] kind = "transform" -> "unchanged"

\* Whether the session has a handler for the request.
Handled(kind) ==
  CASE kind \in {"tool", "toolV2"} -> session.tool
    [] kind \in {"permission", "permissionV2"} -> session.permission
    [] OTHER -> session[kind]

\* _handleBroadcastEvent: ok says that a hook has resolved the request.
Asked(m) ==
  [request EXCEPT ![m.about] =
     IF Handled(Kind(m.about)) /\ ~m.ok THEN [@ EXCEPT !.phase = "running"]
     ELSE IF Kind(m.about) = "command" THEN Send(m.about, "error", "failing")
     ELSE [@ EXCEPT !.phase = "ignored"]]

\* A call of the server for a session the client does not know is answered with an error,
\* one that nobody handles as if its handler failed.
AnswerTo(m, answer) == [request EXCEPT ![m.about].phase = "done", ![m.about].answers = <<answer>>]

CalledFor(m) ==
  IF ~session.registered THEN AnswerTo(m, "error")
  ELSE IF Handled(Kind(m.about)) THEN [request EXCEPT ![m.about].phase = "running"]
  ELSE AnswerTo(m, Failure(Kind(m.about)))

\* How a handler of each kind may end.
OutcomesOf(kind) ==
  CASE kind \in {"tool", "toolV2"} -> {"nothing", "text", "object", "odd", "throws"}
    [] kind \in {"permission", "permissionV2"} -> {"approved", "denied", "no-result", "throws"}
    [] OTHER -> {"object", "throws"}

\* Protocol 3 sends an object of an unknown kind as text, and "" for no result.
ToolResult(outcome) == IF outcome \in {"odd", "nothing"} THEN "text" ELSE outcome

\* normalizeToolResultV2: only the shape of an object is looked at.
ToolResultV2(outcome) ==
  CASE outcome = "nothing" -> "failure" [] outcome = "odd" -> "object" [] OTHER -> outcome

\* Mutant of Failed: the catch block of _handleElicitationRequest does nothing.
FailedSilently(r) ==
  IF Kind(r) = "elicitation" THEN [request[r] EXCEPT !.phase = "done"]
  ELSE Send(r, Failure(Kind(r)), "failing")

\* The catch blocks of _execute..AndRespond: a second call, whose failure is swallowed.
Failed(r) == Send(r, Failure(Kind(r)), "failing")

BroadcastAnswered(r, outcome) ==
  IF outcome = "throws" THEN Failed(r)
  ELSE IF outcome = "no-result" THEN [request[r] EXCEPT !.phase = "ignored"]
  ELSE Send(r, IF Kind(r) = "tool" THEN ToolResult(outcome) ELSE outcome, "answering")

RoutedResult(kind, outcome) ==
  IF outcome = "throws" THEN Failure(kind)
  ELSE IF outcome = "no-result" THEN "error"
  ELSE IF kind = "toolV2" THEN ToolResultV2(outcome) ELSE outcome

RoutedAnswered(r, outcome) ==
  [request[r] EXCEPT !.phase = "done", !.answers = <<RoutedResult(Kind(r), outcome)>>]

\* The handler was called with the request; it may take any time.
HandlerReturns(r) ==
  /\ Free /\ request[r].phase = "running"
  /\ \E outcome \in OutcomesOf(Kind(r)) :
       request' = [request EXCEPT ![r] =
         [(IF Kind(r) \in Broadcast THEN BroadcastAnswered(r, outcome) ELSE RoutedAnswered(r, outcome))
          EXCEPT !.outcome = outcome]]
  /\ UNCHANGED <<limits, connection, inbox, session, subs, slots, dispatch, task, server>>

\* Mutant of Replied: a refused answer is sent again.
RepliedAgain(m) ==
  [request EXCEPT ![m.about] =
     IF request[m.about].phase = "answering" /\ ~m.ok
     THEN [Send(m.about, request[m.about].answers[1], "failing") EXCEPT !.refused = TRUE]
     ELSE [@ EXCEPT !.phase = "done"]]

\* The server's reply to handlePending..: a refused answer is followed by the failure.
Replied(m) ==
  [request EXCEPT ![m.about] =
     IF request[m.about].phase = "answering" /\ ~m.ok
     THEN [Failed(m.about) EXCEPT !.refused = TRUE]
     ELSE [@ EXCEPT !.phase = "done"]]
----------------------------------------------------------------------------
(* What the client does with each message *)

Take == Free /\ connection # "disposed" /\ inbox # <<>> /\ inbox' = Tail(inbox)

Dispatch(m) == dispatch' = [event |-> m, cursor |-> [any |-> FALSE, place |-> 0], owed |-> {k \in Keys : Hears(k, m)}]

\* Mutant of ReceiveEvent: what is there wins over what changed.
ReceiveEventOldWins ==
  /\ Take /\ Head(inbox).type \in EventTypes
  /\ LET m == Head(inbox)
     IN IF ~session.registered THEN UNCHANGED <<dispatch, request, session>>
        ELSE /\ Dispatch(m)
             /\ request' = IF m.type \in Broadcast THEN Asked(m) ELSE request
             /\ UNCHANGED session
  /\ UNCHANGED <<limits, connection, subs, slots, task, server>>

\* handleSessionEventNotification and _dispatchEvent: first what the event asks for is
\* begun, then its subscribers are called.  The event of an unknown session is dropped.
ReceiveEvent ==
  /\ Take /\ Head(inbox).type \in EventTypes
  /\ LET m == Head(inbox)
     IN IF ~session.registered THEN UNCHANGED <<dispatch, request, session>>
        ELSE /\ Dispatch(m)
             /\ request' = IF m.type \in Broadcast THEN Asked(m) ELSE request
             /\ session' = IF m.type = "capabilities" THEN [session EXCEPT !.capabilities = m.about]
                           ELSE session
  /\ UNCHANGED <<limits, connection, subs, slots, task, server>>

ReceiveLifecycle ==
  /\ Take /\ Head(inbox).type = "lifecycle"
  /\ Dispatch(Head(inbox))
  /\ UNCHANGED <<limits, connection, session, subs, slots, task, request, server>>

ReceiveCall ==
  /\ Take /\ Head(inbox).type \in Routed
  /\ request' = CalledFor(Head(inbox))
  /\ UNCHANGED <<limits, connection, session, subs, slots, dispatch, task, server>>

ReceiveReply ==
  /\ Take /\ Head(inbox).type = "reply"
  /\ request' = Replied(Head(inbox))
  /\ UNCHANGED <<limits, connection, session, subs, slots, dispatch, task, server>>

\* createSession goes on with the answer to session.create before the next message.
ReceiveCreated ==
  /\ Take /\ Head(inbox).type = "created"
  /\ session' = IF Head(inbox).ok
                THEN [session EXCEPT !.created = TRUE, !.capabilities = Head(inbox).about]
                ELSE [session EXCEPT !.registered = FALSE]
  /\ UNCHANGED <<limits, connection, subs, slots, dispatch, task, request, server>>

\* Mutant of Waits: there is no timer.
WaitsWithoutTimer(w) == [w EXCEPT !.pc = "waiting"]

\* The timer of sendAndWait starts with the answer to session.send.
Waits(w) == [w EXCEPT !.pc = "waiting", !.timer = TRUE]

\* The answer to a task's request, whose continuation runs at once.
ReceiveAnswer ==
  /\ Take /\ Head(inbox).type = "answer"
  /\ LET t == Head(inbox).about
         ok == Head(inbox).ok
     IN IF task[t].op = "sendAndWait" /\ ok /\ task[t].settled = "pending"
        THEN /\ task' = [task EXCEPT ![t] = Waits(@)]
             /\ UNCHANGED <<subs, session>>
        ELSE /\ task' = Ended({t})
             /\ IF task[t].op = "disconnect" /\ ok
                THEN /\ subs' = [k \in Keys |-> IF Subjects[k].of = "session" THEN 0 ELSE subs[k]]
                     /\ session' = [session EXCEPT !.tool = FALSE, !.permission = FALSE]
                ELSE subs' = Finished({t}) /\ UNCHANGED session
  /\ UNCHANGED <<limits, connection, slots, dispatch, request, server>>

----------------------------------------------------------------------------
(* The tasks of the application *)

Sends(ts) == {t \in ts : task[t].op \in {"send", "sendAndWait"}}

\* No turn is open, nor was another asked for.
Alone ==
  /\ Sends(Tasks) = {} /\ server.queue = <<>>
  /\ \A i \in DOMAIN inbox : inbox[i].type \notin TurnEvents

Starts(t, op, label) ==
  task' = [u \in Tasks |->
    IF u = t THEN [task[t] EXCEPT !.op = op, !.pc = label, !.calls = @ + 1, !.alone = Alone]
    ELSE [task[u] EXCEPT !.alone = @ /\ op \notin {"send", "sendAndWait"}]]

Calls(t, op) ==
  /\ Free /\ session.created
  /\ task[t].pc = "idle" /\ task[t].calls < limits.calls[t] /\ op \in limits.ops
  /\ UNCHANGED <<limits, connection, inbox, session, dispatch, request>>

\* send: the trace context is asked for first.
send(t) ==
  /\ Calls(t, "send") /\ Starts(t, "send", "tracing")
  /\ UNCHANGED <<subs, slots, server>>

\* sendAndWait subscribes before it sends.
sendAndWait(t) ==
  /\ Calls(t, "sendAndWait") /\ Starts(t, "sendAndWait", "tracing") /\ on(t)
  /\ UNCHANGED server

\* A request is written, or sendRequest throws.
Ask(t, op, label) ==
  /\ Calls(t, op)
  /\ IF connection = "open"
     THEN Starts(t, op, label) /\ server' = [server EXCEPT !.pending = @ \cup {t}]
     ELSE task' = [task EXCEPT ![t].calls = @ + 1] /\ UNCHANGED server
  /\ UNCHANGED <<subs, slots>>

disconnect(t) == Ask(t, "disconnect", "disconnecting")

\* getMessages, abort, setModel, log.
ask(t) == Ask(t, "request", "requesting")

\* ui.elicitation, confirm, select and input: they throw without the capability.
elicit(t) == session.capabilities /\ Ask(t, "elicit", "requesting")

\* getTraceContext returns, with nothing if the provider fails, and session.send is sent.
Traced(t) ==
  /\ Free /\ task[t].pc = "tracing"
  /\ IF connection = "open"
     THEN /\ task' = [task EXCEPT ![t].pc = "sending"]
          /\ server' = [server EXCEPT !.pending = @ \cup {t}]
          /\ UNCHANGED subs
     ELSE task' = Ended({t}) /\ subs' = Finished({t}) /\ UNCHANGED server
  /\ UNCHANGED <<limits, connection, inbox, session, slots, dispatch, request>>

Timeout(t) ==
  /\ Free /\ task[t].pc = "waiting" /\ task[t].timer
  /\ task' = Ended({t}) /\ subs' = Finished({t})
  /\ UNCHANGED <<limits, connection, inbox, session, slots, dispatch, request, server>>

----------------------------------------------------------------------------
(* The connection *)

\* The client stops: the session is forgotten, what waits for an answer is rejected.
Dispose ==
  /\ Free /\ limits.lose /\ connection # "disposed"
  /\ connection' = "disposed" /\ inbox' = <<>>
  /\ session' = [session EXCEPT !.registered = FALSE]
  /\ LET rejected == {t \in Tasks : task[t].pc \in {"sending", "disconnecting", "requesting"}}
     IN task' = Ended(rejected) /\ subs' = Finished(rejected)
  /\ request' = [r \in Requests |->
       IF request[r].phase \in {"answering", "failing"} THEN [request[r] EXCEPT !.phase = "done"]
       ELSE request[r]]
  /\ UNCHANGED <<limits, slots, dispatch, server>>

\* The connection is lost: what was received is still taken, what waits goes on waiting.
Close ==
  /\ Free /\ limits.lose /\ connection = "open"
  /\ connection' = "closed"
  /\ UNCHANGED <<limits, inbox, session, subs, slots, dispatch, task, request, server>>

\* deleteSession, or a resumeSession of the same session that failed.
Forget ==
  /\ Free /\ limits.lose /\ session.created /\ session.registered
  /\ session' = [session EXCEPT !.registered = FALSE]
  /\ UNCHANGED <<limits, connection, inbox, subs, slots, dispatch, task, request, server>>

----------------------------------------------------------------------------
(* The server *)

Emits(m) == connection = "open" /\ inbox' = Append(inbox, m)

ServerSteps == UNCHANGED <<limits, connection, session, subs, slots, dispatch>>

ServerCreates ==
  /\ ~server.created
  /\ \E ok \in BOOLEAN : Emits(Message("created", server.capabilities, ok))
  /\ server' = [server EXCEPT !.created = TRUE]
  /\ ServerSteps /\ UNCHANGED <<task, request>>

\* session.send opens a turn.
ServerTakes(t) ==
  /\ t \in server.pending /\ task[t].op \in {"send", "sendAndWait"} /\ connection = "open"
  /\ server.turns < MaxTurns
  /\ server' = [server EXCEPT !.pending = @ \ {t}, !.taken = @ \cup {t}, !.turns = @ + 1,
                              !.queue = Append(@, server.turns + 1)]
  /\ task' = [task EXCEPT ![t].turn = server.turns + 1]
  /\ ServerSteps /\ UNCHANGED <<inbox, request>>

ServerAnswers(t) ==
  /\ \/ t \in server.taken /\ Emits(Message("answer", t, TRUE))
     \/ /\ t \in server.pending
        /\ \E ok \in BOOLEAN : /\ ok => task[t].op \notin {"send", "sendAndWait"}
                               /\ Emits(Message("answer", t, ok))
  /\ server' = [server EXCEPT !.pending = @ \ {t}, !.taken = @ \ {t}]
  /\ ServerSteps /\ UNCHANGED <<task, request>>

MayEmit == server.events < limits.events

\* The events of the turn that is open, which idle closes.
ServerEmits ==
  /\ MayEmit /\ server.queue # <<>>
  /\ LET turn == Head(server.queue)
     IN \E type \in TurnEvents \cap limits.types :
          /\ Emits(Message(type, server.events + 1, FALSE))
          /\ server' = [server EXCEPT !.events = @ + 1,
                          !.said[turn] = IF type = "message" THEN server.events + 1 ELSE @,
                          !.queue = IF type = "idle" THEN Tail(@) ELSE @]
  /\ ServerSteps /\ UNCHANGED <<task, request>>

ServerNotifies ==
  /\ MayEmit
  /\ \/ /\ "capabilities" \in limits.types /\ Emits(Message("capabilities", ~server.capabilities, FALSE))
        /\ server' = [server EXCEPT !.events = @ + 1, !.capabilities = ~@]
     \/ /\ "lifecycle" \in limits.types /\ Emits(Message("lifecycle", 0, FALSE))
        /\ server' = [server EXCEPT !.events = @ + 1]
  /\ ServerSteps /\ UNCHANGED <<task, request>>

ServerAsks(r) ==
  /\ Kind(r) # "none" /\ request[r].phase = "none"
  /\ \E ok \in BOOLEAN : /\ ok => Kind(r) = "permission"
                         /\ Emits(Message(Kind(r), r, ok))
  /\ request' = [request EXCEPT ![r].phase = "sent"]
  /\ ServerSteps /\ UNCHANGED <<task, server>>

ServerReplies(r) ==
  /\ request[r].phase \in {"answering", "failing"}
  /\ <<r, Len(request[r].answers)>> \notin server.replied
  /\ \E ok \in BOOLEAN : Emits(Message("reply", r, ok))
  /\ server' = [server EXCEPT !.replied = @ \cup {<<r, Len(request[r].answers)>>}]
  /\ ServerSteps /\ UNCHANGED <<task, request>>

----------------------------------------------------------------------------

Receive ==
  \/ ReceiveEvent \/ ReceiveLifecycle \/ ReceiveCall \/ ReceiveReply \/ ReceiveCreated \/ ReceiveAnswer

\* What runs on the thread of the client once there is a message.
ThreadNext ==
  \/ Receive \/ DispatchEnds
  \/ (\E t \in Tasks : CallWaiter(t)) \/ (\E h \in Handlers : CallHandler(h))

TaskNext(t) ==
  send(t) \/ sendAndWait(t) \/ disconnect(t) \/ ask(t) \/ elicit(t) \/ Traced(t) \/ Timeout(t)

ServerNext ==
  \/ ServerCreates \/ ServerEmits \/ ServerNotifies
  \/ (\E t \in Tasks : ServerTakes(t) \/ ServerAnswers(t))
  \/ (\E r \in Requests : ServerAsks(r) \/ ServerReplies(r))

Next ==
  \/ ThreadNext \/ ServerNext
  \/ (\E t \in Tasks : TaskNext(t))
  \/ (\E h \in Handlers : ApplicationChanges(h))
  \/ (\E r \in Requests : HandlerReturns(r))
  \/ Dispose \/ Close \/ Forget

\* The thread runs what is ready, timers fire, handlers return and the server replies.
Fairness ==
  /\ WF_vars(ThreadNext)
  /\ \A t \in Tasks : WF_vars(Timeout(t))
  /\ \A r \in Requests : WF_vars(HandlerReturns(r)) /\ WF_vars(ServerReplies(r))

Spec == Init /\ [][Next]_vars /\ Fairness

----------------------------------------------------------------------------
(* Properties *)

Fields == {"registered", "created", "capabilities", "tool", "permission", "command",
           "elicitation", "userInput", "hooks", "transform", "sessionFs"}

WellTyped(m) ==
  /\ m.type \in MessageTypes /\ m.ok \in BOOLEAN
  /\ m.type \in Broadcast \cup Routed => m.about \in Requests /\ Kind(m.about) = m.type
  /\ m.type = "reply" => m.about \in Requests /\ Kind(m.about) # "none"
  /\ m.type = "answer" => m.about \in Tasks
  /\ m.type \in {"created", "capabilities"} => m.about \in BOOLEAN
  /\ m.type \in TurnEvents \cup {"lifecycle"} => m.about \in Nat

DispatchTypes ==
  dispatch # None => /\ WellTyped(dispatch.event) /\ dispatch.owed \subseteq Keys
                     /\ dispatch.cursor \in [any : BOOLEAN, place : Nat]

SubscriberTypes ==
  /\ slots \in Nat /\ subs \in [Keys -> 0..slots]
  /\ \A k, l \in Keys : subs[k] = subs[l] /\ subs[k] # 0 => k = l

TaskTypes ==
  /\ task \in [Tasks ->
       [op : Ops \cup {"none"}, pc : Labels, calls : Nat, settled : {"pending", "idle", "error"},
        last : Nat, timer : BOOLEAN, turn : Nat, alone : BOOLEAN]]
  /\ \A t \in Tasks : task[t].timer <=> task[t].pc = "waiting"

Answers == {"error", "denied", "cancel", "failure", "nothing", "unchanged", "text", "object",
            "approved"}
RequestTypes ==
  /\ request \in [Requests -> [phase : Phases, outcome : Outcomes, answers : Seq(Answers),
                              refused : BOOLEAN]]
  /\ \A r \in Requests : request[r].phase # "none" => Kind(r) # "none"

ServerTypes ==
  server \in [created : BOOLEAN, capabilities : BOOLEAN, turns : Nat, queue : Seq(Nat),
              said : [1..MaxTurns -> Nat], pending : SUBSET Tasks, taken : SUBSET Tasks,
              replied : SUBSET (Requests \X Nat), events : Nat, changes : Nat]

TypeOK ==
  /\ limits \in Limits
  /\ connection \in {"open", "closed", "disposed"}
  /\ session \in [Fields -> BOOLEAN]
  /\ \A i \in 1..Len(inbox) : WellTyped(inbox[i])
  /\ DispatchTypes /\ SubscriberTypes /\ TaskTypes /\ RequestTypes /\ ServerTypes

\* When a dispatch ends, everybody who was subscribed when it began, and was not
\* unsubscribed meanwhile, has been called, whatever the handlers added, removed or threw
\* (session.ts, _dispatchEvent; client.ts, handleSessionLifecycleNotification).
EveryoneCalled == [][dispatch # None /\ dispatch' = None => dispatch.owed = {}]_vars

\* A sendAndWait no other send overlaps returns the last message of its own turn, or none
\* if the turn had none, even if the turn ends before session.send is answered, or what a
\* turn before left is still to be delivered (session.ts, sendAndWait).
ReturnsOwnMessage ==
  [][\A t \in Tasks :
       task[t].alone /\ task[t].settled = "idle" /\ task'[t].pc = "idle" =>
         task[t].last = server.said[task[t].turn]]_vars

\* Once the messages about capabilities are taken the session has those of the server,
\* in whichever order session.create is answered and they change (session.ts,
\* setCapabilities and _handleBroadcastEvent).
CapabilitiesFollowServer ==
  session.created /\ session.registered
  /\ (\A i \in DOMAIN inbox : inbox[i].type \notin {"created", "capabilities"})
  => session.capabilities = server.capabilities

\* Every answer follows from what the handler did: what grants something is what it
\* returned, a second answer is a failure and follows on one the server refused, and of a
\* request that is done with an open connection the server has an answer (session.ts,
\* _execute..AndRespond and _handle..; client.ts, the adapters of protocol 2).
Grants == {"text", "object", "approved"}
AnswersEarned ==
  \A r \in Requests :
    LET q == request[r]
    IN /\ \A i \in DOMAIN q.answers :
            q.answers[i] \in Grants => i = 1 /\ q.outcome \notin {"none", "throws", "denied", "no-result"}
       /\ Len(q.answers) <= 2 /\ (Len(q.answers) = 2 => q.refused)
       /\ q.phase = "done" /\ connection = "open" => q.answers # <<>>

\* Once session.send is answered, sendAndWait ends, whatever becomes of the session and
\* its connection (session.ts, sendAndWait).
WaitsEnd == \A t \in Tasks : task[t].pc = "waiting" ~> task[t].pc = "idle"

\* The server gets an answer to every request a handler took, unless that says no-result
\* or the connection goes (session.ts, _execute..AndRespond; client.ts, the adapters).
RequestsSettle ==
  \A r \in Requests :
    request[r].phase = "running" ~>
      \/ request[r].answers # <<>> /\ request[r].phase \in {"done", "answering", "failing"}
      \/ request[r].outcome = "no-result" \/ connection # "open"
=============================================================================
