----------------------------- MODULE GoSession -----------------------------
(***************************************************************************)
(* Event delivery in a Go Session (go/session.go): the readLoop goroutine  *)
(* that dispatches events into eventCh, the single consumer processEvents, *)
(* the handlers of On and its unsubscribe function, SendAndWait and        *)
(* Disconnect.                                                             *)
(*                                                                         *)
(* A request is put to the server in one step and its answer comes back    *)
(* through readLoop, in order with the events (GoJsonRpc has the           *)
(* connection in detail).  The server is external: it answers requests in  *)
(* any order, and works on the messages sent to it one turn at a time; a   *)
(* turn emits messages and errors and ends with an idle or an error event. *)
(***************************************************************************)
EXTENDS Naturals, Sequences, FiniteSets

CONSTANTS
  Callers,       \* invocations of SendAndWait, each by its own goroutine
  Apps,          \* handlers the application registers with On
  RpcApps,       \* the Apps that make a request of the session when called
  Disconnectors, \* invocations of Disconnect
  Worker,        \* the processEvents goroutine, as the maker of a request
  None,
  QueueCap,      \* capacity of eventCh (128 in the code)
  MaxEvents      \* bound: events the server emits

ASSUME ConstantsAssumption ==
  /\ RpcApps \subseteq Apps
  /\ Callers \cap (Apps \cup Disconnectors \cup {Worker}) = {}
  /\ Disconnectors \cap (Apps \cup {Worker}) = {}
  /\ None \notin Callers \cup Apps \cup Disconnectors \cup {Worker}
  /\ QueueCap \in Nat \ {0} /\ MaxEvents \in Nat

VARIABLES
  wire,          \* messages on their way to readLoop
  loopEvent,     \* the event readLoop is sending on eventCh, or NoEvent
  eventCh,       \* contents of the channel
  closes,        \* how often eventCh was closed
  handlers,      \* s.handlers
  nextHandlerID,
  current,       \* the event processEvents is delivering, or NoEvent
  todo,          \* handlers of its snapshot still to be called
  workerPc,
  pc,            \* control state of each SendAndWait
  idleCh, errCh, \* its 1-buffered channels
  lastMessage,   \* lastAssistantMessage
  outcome, answer, \* what it returned
  subscription,  \* id the On of a caller or application handler returned
  appPc,         \* "new", "on" or "off"
  discPc,        \* control state of each Disconnect
  reply,         \* answer a requester got from the server
  requests,      \* server: requests it has not answered
  turns,         \* server: senders whose turns are not over, oldest first
  finished,      \* server: senders whose turns are over
  emitted,       \* server: number of events emitted
  said,          \* server: last message emitted in the turn of each sender
  delivered,     \* history: numbers of the events each handler was called with
  alone          \* history: no other call was in the way of this one

queueVars  == <<loopEvent, eventCh, closes>>
onVars     == <<handlers, nextHandlerID, subscription>>
workerVars == <<current, todo, workerPc, delivered>>
callVars   == <<pc, idleCh, errCh, lastMessage, outcome, answer>>
serverVars == <<turns, finished, emitted, said>>
vars == <<wire, queueVars, onVars, workerVars, callVars, appPc, discPc, reply,
          requests, serverVars, alone>>

Subscribers == Callers \cup Apps
Requesters  == Callers \cup Disconnectors \cup {Worker}

Events  == [n : Nat, kind : {"message", "idle", "error"}, turn : Callers]
NoEvent == [n |-> 0, kind |-> "idle", turn |-> None]
Messages == [kind : {"event"}, event : Events]
              \cup [kind : {"response"}, to : Requesters, ok : BOOLEAN]

Init ==
  /\ wire = <<>> /\ loopEvent = NoEvent /\ eventCh = <<>> /\ closes = 0
  /\ handlers = <<>> /\ nextHandlerID = 0
  /\ current = NoEvent /\ todo = <<>> /\ workerPc = "recv"
  /\ pc = [c \in Callers |-> "idle"]
  /\ idleCh = [c \in Callers |-> FALSE] /\ errCh = [c \in Callers |-> FALSE]
  /\ lastMessage = [c \in Callers |-> NoEvent]
  /\ outcome = [c \in Callers |-> "none"]
  /\ answer = [c \in Callers |-> NoEvent]
  /\ subscription = [h \in Subscribers |-> 0]
  /\ appPc = [a \in Apps |-> "new"]
  /\ discPc = [d \in Disconnectors |-> "idle"]
  /\ reply = [r \in Requesters |-> "none"]
  /\ requests = {} /\ turns = <<>> /\ finished = {} /\ emitted = 0
  /\ said = [c \in Callers |-> 0]
  /\ alone = [c \in Callers |-> FALSE]
  /\ delivered = [h \in Subscribers |-> <<>>]

----------------------------------------------------------------------------
(* On and the function it returns *)

On(h) ==
  /\ handlers' = Append(handlers, [id |-> nextHandlerID, fn |-> h])
  /\ subscription' = [subscription EXCEPT ![h] = nextHandlerID]
  /\ nextHandlerID' = nextHandlerID + 1

\* Mutant of Unsubscribe: the position is captured instead of the id.
UnsubscribeByPosition(h) ==
  /\ handlers' = SelectSeq(handlers,
       LAMBDA e : \A i \in 1..Len(handlers) :
                    handlers[i] = e => i # subscription[h] + 1)
  /\ UNCHANGED <<nextHandlerID, subscription>>

\* The first handler registered under the id is cut out, if it is still there.
Unsubscribe(h) ==
  /\ \/ \E i \in 1..Len(handlers) :
          /\ handlers[i].id = subscription[h]
          /\ \A j \in 1..(i - 1) : handlers[j].id # subscription[h]
          /\ handlers' = SubSeq(handlers, 1, i - 1)
                           \o SubSeq(handlers, i + 1, Len(handlers))
     \/ /\ \A i \in 1..Len(handlers) : handlers[i].id # subscription[h]
        /\ UNCHANGED handlers
  /\ UNCHANGED <<nextHandlerID, subscription>>

AppOn(a) ==
  /\ appPc[a] = "new"
  /\ On(a)
  /\ appPc' = [appPc EXCEPT ![a] = "on"]
  /\ UNCHANGED <<wire, queueVars, workerVars, callVars, discPc, reply, requests,
                 serverVars, alone>>

\* The unsubscribe function may be called again after that.
AppOff(a) ==
  /\ appPc[a] \in {"on", "off"}
  /\ Unsubscribe(a)
  /\ appPc' = [appPc EXCEPT ![a] = "off"]
  /\ UNCHANGED <<wire, queueVars, workerVars, callVars, discPc, reply, requests,
                 serverVars, alone>>

----------------------------------------------------------------------------
(* SendAndWait *)

\* Put a request to the server.
Ask(r) ==
  /\ requests' = requests \cup {r}
  /\ reply' = [reply EXCEPT ![r] = "none"]

Goto(c, label) == pc' = [pc EXCEPT ![c] = label]

\* The call has not begun, or it had no other in its way either and is over,
\* its turn included.
OutOfTheWay(a) ==
  \/ pc[a] = "idle"
  \/ pc[a] = "returned" /\ alone[a] /\ outcome[a] \in {"idle", "sendError"}

Subscribe(c) ==
  /\ pc[c] = "idle"
  /\ On(c)
  /\ Goto(c, "send")
  /\ alone' = [b \in Callers |->
       IF b = c THEN \A a \in Callers \ {c} : OutOfTheWay(a)
                ELSE alone[b] /\ OutOfTheWay(b)]
  /\ UNCHANGED <<wire, queueVars, workerVars, idleCh, errCh, lastMessage, outcome,
                 answer, appPc, discPc, reply, requests, serverVars>>

Send(c) ==
  /\ pc[c] = "send"
  /\ Ask(c)
  /\ Goto(c, "sending")
  /\ UNCHANGED <<wire, queueVars, onVars, workerVars, idleCh, errCh, lastMessage,
                 outcome, answer, appPc, discPc, serverVars, alone>>

Finish(c, how, what) ==
  /\ outcome' = [outcome EXCEPT ![c] = how]
  /\ answer' = [answer EXCEPT ![c] = what]
  /\ Goto(c, "leaving")

\* Send does not look at the context: only its answer ends it.
SendReturns(c) ==
  /\ pc[c] = "sending"
  /\ \/ reply[c] = "ok" /\ Goto(c, "waiting") /\ UNCHANGED <<outcome, answer>>
     \/ reply[c] = "error" /\ Finish(c, "sendError", NoEvent)
  /\ UNCHANGED <<wire, queueVars, onVars, workerVars, idleCh, errCh, lastMessage,
                 appPc, discPc, reply, requests, serverVars, alone>>

\* Mutant of WaitReturns: the deadline is missing from the select.
WaitReturnsNoTimeout(c) ==
  /\ pc[c] = "waiting"
  /\ idleCh[c]
  /\ idleCh' = [idleCh EXCEPT ![c] = FALSE]
  /\ Finish(c, "idle", lastMessage[c])
  /\ UNCHANGED <<wire, queueVars, onVars, workerVars, errCh, lastMessage, appPc,
                 discPc, reply, requests, serverVars, alone>>

\* The select on idleCh, errCh and the deadline.
WaitReturns(c) ==
  /\ pc[c] = "waiting"
  /\ \/ /\ idleCh[c]
        /\ idleCh' = [idleCh EXCEPT ![c] = FALSE]
        /\ Finish(c, "idle", lastMessage[c])
        /\ UNCHANGED errCh
     \/ /\ errCh[c]
        /\ errCh' = [errCh EXCEPT ![c] = FALSE]
        /\ Finish(c, "error", NoEvent)
        /\ UNCHANGED idleCh
     \/ /\ Finish(c, "timeout", NoEvent)
        /\ UNCHANGED <<idleCh, errCh>>
  /\ UNCHANGED <<wire, queueVars, onVars, workerVars, lastMessage, appPc, discPc,
                 reply, requests, serverVars, alone>>

\* The deferred unsubscribe.
Leave(c) ==
  /\ pc[c] = "leaving"
  /\ Unsubscribe(c)
  /\ Goto(c, "returned")
  /\ UNCHANGED <<wire, queueVars, workerVars, idleCh, errCh, lastMessage, outcome,
                 answer, appPc, discPc, reply, requests, serverVars, alone>>

----------------------------------------------------------------------------
(* readLoop: responses, and session.event notifications (dispatchEvent) *)

ReadResponse ==
  /\ loopEvent = NoEvent
  /\ wire # <<>> /\ Head(wire).kind = "response"
  /\ reply' = [reply EXCEPT ![Head(wire).to] = IF Head(wire).ok THEN "ok" ELSE "error"]
  /\ wire' = Tail(wire)
  /\ UNCHANGED <<queueVars, onVars, workerVars, callVars, appPc, discPc, requests,
                 serverVars, alone>>

ReadEvent ==
  /\ loopEvent = NoEvent
  /\ wire # <<>> /\ Head(wire).kind = "event"
  /\ loopEvent' = Head(wire).event
  /\ wire' = Tail(wire)
  /\ UNCHANGED <<eventCh, closes, onVars, workerVars, callVars, appPc, discPc,
                 reply, requests, serverVars, alone>>

\* Mutant of dispatchEvent: an event is dropped while the channel is full.
dispatchEventDrops ==
  /\ loopEvent # NoEvent
  /\ eventCh' = IF closes > 0 \/ Len(eventCh) = QueueCap THEN eventCh
                ELSE Append(eventCh, loopEvent)
  /\ loopEvent' = NoEvent
  /\ UNCHANGED <<wire, closes, onVars, workerVars, callVars, appPc, discPc, reply,
                 requests, serverVars, alone>>

\* Mutant of dispatchEvent: the channel is not bounded.
dispatchEventUnbounded ==
  /\ loopEvent # NoEvent
  /\ eventCh' = IF closes > 0 THEN eventCh ELSE Append(eventCh, loopEvent)
  /\ loopEvent' = NoEvent
  /\ UNCHANGED <<wire, closes, onVars, workerVars, callVars, appPc, discPc, reply,
                 requests, serverVars, alone>>

\* The send on eventCh, made by readLoop: it waits while the channel is full.
\* A send on the closed channel panics and is recovered: the event is dropped.
dispatchEvent ==
  /\ loopEvent # NoEvent
  /\ \/ closes > 0 /\ UNCHANGED eventCh
     \/ /\ closes = 0 /\ Len(eventCh) < QueueCap
        /\ eventCh' = Append(eventCh, loopEvent)
  /\ loopEvent' = NoEvent
  /\ UNCHANGED <<wire, closes, onVars, workerVars, callVars, appPc, discPc, reply,
                 requests, serverVars, alone>>

----------------------------------------------------------------------------
(* processEvents *)

\* Receive an event and copy the handlers registered at that moment.
Receive ==
  /\ workerPc = "recv"
  /\ eventCh # <<>>
  /\ current' = Head(eventCh)
  /\ eventCh' = Tail(eventCh)
  /\ todo' = [i \in 1..Len(handlers) |-> handlers[i].fn]
  /\ workerPc' = "call"
  /\ UNCHANGED <<wire, loopEvent, closes, onVars, delivered, callVars, appPc,
                 discPc, reply, requests, serverVars, alone>>

\* Mutant of CallerHandler: the first message is kept.
CallerHandlerKeepsFirst(c) ==
  CASE current.kind = "message" ->
         /\ lastMessage' = [lastMessage EXCEPT ![c] =
                             IF @ = NoEvent THEN current ELSE @]
         /\ UNCHANGED <<idleCh, errCh>>
    [] current.kind = "idle" ->
         /\ idleCh' = [idleCh EXCEPT ![c] = TRUE]
         /\ UNCHANGED <<errCh, lastMessage>>
    [] current.kind = "error" ->
         /\ errCh' = [errCh EXCEPT ![c] = TRUE]
         /\ UNCHANGED <<idleCh, lastMessage>>

\* The handler of SendAndWait: it never blocks.
CallerHandler(c) ==
  CASE current.kind = "message" ->
         /\ lastMessage' = [lastMessage EXCEPT ![c] = current]
         /\ UNCHANGED <<idleCh, errCh>>
    [] current.kind = "idle" ->
         /\ idleCh' = [idleCh EXCEPT ![c] = TRUE]
         /\ UNCHANGED <<errCh, lastMessage>>
    [] current.kind = "error" ->
         /\ errCh' = [errCh EXCEPT ![c] = TRUE]
         /\ UNCHANGED <<idleCh, lastMessage>>

\* A handler that panics is recovered, so that it ends like one that returns.
CallHandler ==
  /\ workerPc = "call" /\ todo # <<>>
  /\ LET h == Head(todo) IN
       /\ delivered' = [delivered EXCEPT ![h] = Append(@, current.n)]
       /\ \/ h \in Callers /\ CallerHandler(h) /\ UNCHANGED <<workerPc, reply, requests>>
          \/ /\ h \in RpcApps
             /\ Ask(Worker) /\ workerPc' = "rpc"
             /\ UNCHANGED <<idleCh, errCh, lastMessage>>
          \/ /\ h \in Apps \ RpcApps
             /\ UNCHANGED <<workerPc, reply, requests, idleCh, errCh, lastMessage>>
  /\ todo' = Tail(todo)
  /\ UNCHANGED <<wire, queueVars, onVars, current, pc, outcome, answer, appPc,
                 discPc, serverVars, alone>>

\* The request a handler made returns.
HandlerRequestReturns ==
  /\ workerPc = "rpc"
  /\ reply[Worker] # "none"
  /\ workerPc' = "call"
  /\ UNCHANGED <<wire, queueVars, onVars, current, todo, delivered, callVars,
                 appPc, discPc, reply, requests, serverVars, alone>>

HandlersDone ==
  /\ workerPc = "call" /\ todo = <<>>
  /\ current' = NoEvent
  /\ workerPc' = "recv"
  /\ UNCHANGED <<wire, queueVars, onVars, todo, delivered, callVars, appPc, discPc,
                 reply, requests, serverVars, alone>>

\* The range over a closed channel ends when it is drained.
ConsumerEnd ==
  /\ workerPc = "recv"
  /\ eventCh = <<>> /\ closes > 0
  /\ workerPc' = "ended"
  /\ UNCHANGED <<wire, queueVars, onVars, current, todo, delivered, callVars,
                 appPc, discPc, reply, requests, serverVars, alone>>

----------------------------------------------------------------------------
(* Disconnect *)

DiscGoto(d, label) == discPc' = [discPc EXCEPT ![d] = label]

Disconnect(d) ==
  /\ discPc[d] = "idle"
  /\ Ask(d)
  /\ DiscGoto(d, "asking")
  /\ UNCHANGED <<wire, queueVars, onVars, workerVars, callVars, appPc, serverVars, alone>>

\* An error leaves the session as it is.
DestroyReturns(d) ==
  /\ discPc[d] = "asking"
  /\ \/ reply[d] = "ok" /\ DiscGoto(d, "close")
     \/ reply[d] = "error" /\ DiscGoto(d, "failed")
  /\ UNCHANGED <<wire, queueVars, onVars, workerVars, callVars, appPc, reply,
                 requests, serverVars, alone>>

\* Mutant of CloseEventCh: the channel stays open.
CloseEventChSkipped(d) ==
  /\ discPc[d] = "close"
  /\ DiscGoto(d, "clear")
  /\ UNCHANGED <<wire, queueVars, onVars, workerVars, callVars, appPc, reply,
                 requests, serverVars, alone>>

\* closeOnce
CloseEventCh(d) ==
  /\ discPc[d] = "close"
  /\ closes' = IF closes = 0 THEN 1 ELSE closes
  /\ DiscGoto(d, "clear")
  /\ UNCHANGED <<wire, loopEvent, eventCh, onVars, workerVars, callVars, appPc,
                 reply, requests, serverVars, alone>>

ClearHandlers(d) ==
  /\ discPc[d] = "clear"
  /\ handlers' = <<>>
  /\ DiscGoto(d, "done")
  /\ UNCHANGED <<wire, queueVars, nextHandlerID, subscription, workerVars, callVars,
                 appPc, reply, requests, serverVars, alone>>

----------------------------------------------------------------------------
(* The CLI server (external) *)

\* An accepted message opens a turn.
ServerAnswer(r, ok) ==
  /\ r \in requests
  /\ requests' = requests \ {r}
  /\ wire' = Append(wire, [kind |-> "response", to |-> r, ok |-> ok])
  /\ turns' = IF r \in Callers /\ ok THEN Append(turns, r) ELSE turns
  /\ UNCHANGED <<queueVars, onVars, workerVars, callVars, appPc, discPc, reply,
                 finished, emitted, said, alone>>

\* An idle event ends the turn, an error event may.
ServerEmit(kind, last) ==
  /\ turns # <<>> /\ emitted < MaxEvents
  /\ (kind = "message" => ~last) /\ (kind = "idle" => last)
  /\ emitted' = emitted + 1
  /\ wire' = Append(wire, [kind |-> "event", event |->
               [n |-> emitted + 1, kind |-> kind, turn |-> Head(turns)]])
  /\ said' = IF kind = "message" THEN [said EXCEPT ![Head(turns)] = emitted + 1] ELSE said
  /\ IF last THEN /\ finished' = finished \cup {Head(turns)}
                  /\ turns' = Tail(turns)
             ELSE UNCHANGED <<finished, turns>>
  /\ UNCHANGED <<queueVars, onVars, workerVars, callVars, appPc, discPc, reply,
                 requests, alone>>

----------------------------------------------------------------------------
SendAndWait(c) ==
  \/ Subscribe(c) \/ Send(c) \/ SendReturns(c) \/ WaitReturns(c) \/ Leave(c)

readLoop == ReadResponse \/ ReadEvent \/ dispatchEvent

processEvents ==
  \/ Receive \/ CallHandler \/ HandlerRequestReturns \/ HandlersDone \/ ConsumerEnd

DisconnectStep(d) ==
  \/ Disconnect(d) \/ DestroyReturns(d) \/ CloseEventCh(d) \/ ClearHandlers(d)

Server ==
  \/ \E r \in Requesters, ok \in BOOLEAN : ServerAnswer(r, ok)
  \/ \E kind \in {"message", "idle", "error"}, last \in BOOLEAN :
       ServerEmit(kind, last)

Next ==
  \/ \E a \in Apps : AppOn(a) \/ AppOff(a)
  \/ \E c \in Callers : SendAndWait(c)
  \/ \E d \in Disconnectors : DisconnectStep(d)
  \/ readLoop \/ processEvents \/ Server

Spec == Init /\ [][Next]_vars

(***************************************************************************)
(* Goroutines are scheduled fairly, deadlines pass, handlers return and    *)
(* the server answers requests.  Nobody has to register, send, disconnect  *)
(* or emit.                                                                *)
(***************************************************************************)
GoFairness ==
  /\ WF_vars(readLoop)
  /\ WF_vars(processEvents)
  /\ \A c \in Callers :
       WF_vars(Send(c) \/ SendReturns(c) \/ WaitReturns(c) \/ Leave(c))
  /\ \A d \in Disconnectors :
       WF_vars(DestroyReturns(d) \/ CloseEventCh(d) \/ ClearHandlers(d))

ServerFairness ==
  \A r \in Requesters : WF_vars(\E ok \in BOOLEAN : ServerAnswer(r, ok))

FairSpec == Spec /\ GoFairness /\ ServerFairness

----------------------------------------------------------------------------
(* Properties *)

CallerStates == {"idle", "send", "sending", "waiting", "leaving", "returned"}

\* Every variable has its type and eventCh never exceeds its capacity.
QueueTypes ==
  /\ wire \in Seq(Messages)
  /\ loopEvent \in Events \cup {NoEvent}
  /\ eventCh \in Seq(Events) /\ Len(eventCh) <= QueueCap
  /\ closes \in Nat

OnTypes ==
  /\ handlers \in Seq([id : Nat, fn : Subscribers])
  /\ nextHandlerID \in Nat
  /\ subscription \in [Subscribers -> Nat]
  /\ appPc \in [Apps -> {"new", "on", "off"}]

WorkerTypes ==
  /\ current \in Events \cup {NoEvent}
  /\ todo \in Seq(Subscribers)
  /\ workerPc \in {"recv", "call", "rpc", "ended"}
  /\ delivered \in [Subscribers -> Seq(Nat)]

CallTypes ==
  /\ pc \in [Callers -> CallerStates]
  /\ idleCh \in [Callers -> BOOLEAN] /\ errCh \in [Callers -> BOOLEAN]
  /\ lastMessage \in [Callers -> Events \cup {NoEvent}]
  /\ outcome \in [Callers -> {"none", "idle", "error", "timeout", "sendError"}]
  /\ answer \in [Callers -> Events \cup {NoEvent}]
  /\ alone \in [Callers -> BOOLEAN]

RequestTypes ==
  /\ discPc \in [Disconnectors ->
                  {"idle", "asking", "failed", "close", "clear", "done"}]
  /\ reply \in [Requesters -> {"none", "ok", "error"}]
  /\ requests \subseteq Requesters

ServerTypes ==
  /\ turns \in Seq(Callers) /\ finished \subseteq Callers
  /\ emitted \in Nat /\ said \in [Callers -> Nat]

TypeOK ==
  /\ QueueTypes /\ OnTypes /\ WorkerTypes /\ CallTypes /\ RequestTypes
  /\ ServerTypes

\* A handler is called with consecutive events, each once and in the order in
\* which the server emitted them (dispatchEvent, processEvents).
DeliveredInOrder ==
  \A h \in Subscribers : \A i \in 1..(Len(delivered[h]) - 1) :
    delivered[h][i + 1] = delivered[h][i] + 1

\* Registering and unsubscribing one handler never adds or removes another,
\* also when an unsubscribe function is called again (On).
Subscribed(h) == IF h \in Apps THEN appPc[h] = "on"
                 ELSE pc[h] \in {"send", "sending", "waiting", "leaving"}
Entries(h) == {i \in 1..Len(handlers) : handlers[i].fn = h}
SubscribersKept ==
  (\A d \in Disconnectors : discPc[d] # "done") =>
    \A h \in Subscribers :
      Cardinality(Entries(h)) = IF Subscribed(h) THEN 1 ELSE 0

\* Calls of SendAndWait made one after the other, each of which ended with an
\* idle event or was refused, return the last assistant message of their own
\* turn, when that turn is over: nothing of it is missed, reordered, or left
\* over for the next call (SendAndWait's handler and the order of readLoop).
SequentialCallsGetOwnAnswer ==
  \A c \in Callers :
    (alone[c] /\ outcome[c] = "idle") => (c \in finished /\ answer[c].n = said[c])

\* SendAndWait returns: its answer, an error or its deadline ends it.
SendAndWaitReturns ==
  \A c \in Callers : pc[c] = "send" ~> pc[c] = "returned"

\* The consumer goroutine ends once a Disconnect succeeded (no leak).
ConsumerEnds ==
  \A d \in Disconnectors : discPc[d] = "done" ~> workerPc = "ended"

\* What dispatchEvent's comment says: delivery to handlers does not block the
\* read loop.
ReadLoopNotBlocked == loopEvent # NoEvent ~> loopEvent = NoEvent
=============================================================================
