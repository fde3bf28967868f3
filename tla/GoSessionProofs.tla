-------------------------- MODULE GoSessionProofs --------------------------
(***************************************************************************)
(* Safety of event delivery in a Go Session, for any number of calls,      *)
(* handlers, Disconnects and events and every capacity of the channel:     *)
(* types, the order of delivery, the handlers of On and the answers of     *)
(* calls made one after the other.                                         *)
(***************************************************************************)
EXTENDS GoSession, FiniteSetTheorems, SequenceTheorems, TLAPS

USE ConstantsAssumption DEF Subscribers, Requesters

Entry == [id : Nat, fn : Subscribers]

\* A sequence without its i-th element.
LEMMA Cut ==
  ASSUME NEW S, NEW s \in Seq(S), NEW i \in 1..Len(s)
  PROVE  LET t == SubSeq(s, 1, i - 1) \o SubSeq(s, i + 1, Len(s))
         IN  /\ t \in Seq(S) /\ Len(t) = Len(s) - 1
             /\ \A j \in 1..(Len(s) - 1) : t[j] = IF j < i THEN s[j] ELSE s[j + 1]
<1> DEFINE n == Len(s)
           a == SubSeq(s, 1, i - 1)
           b == SubSeq(s, i + 1, n)
<1>1. n \in Nat /\ i \in Nat /\ \A j \in 1..n : s[j] \in S
  BY LenProperties, ElementOfSeq
<1>2. a \in Seq(S) /\ Len(a) = i - 1 /\ \A j \in 1..(i - 1) : a[j] = s[j]
  <2>1. /\ a \in Seq(S)
        /\ Len(a) = IF 1 <= i - 1 THEN i - 1 - 1 + 1 ELSE 0
        /\ \A j \in 1..(i - 1 - 1 + 1) : a[j] = s[1 + j - 1]
    BY <1>1, SubSeqProperties, SMTT(60)
  <2>2. /\ (IF 1 <= i - 1 THEN i - 1 - 1 + 1 ELSE 0) = i - 1
        /\ i - 1 - 1 + 1 = i - 1 /\ \A j \in 1..(i - 1) : 1 + j - 1 = j
    BY <1>1, SMTT(60)
  <2> QED
    BY <2>1, <2>2
<1>3. b \in Seq(S) /\ Len(b) = n - i /\ \A j \in 1..(n - i) : b[j] = s[i + j]
  <2>1. /\ b \in Seq(S)
        /\ Len(b) = IF i + 1 <= n THEN n - (i + 1) + 1 ELSE 0
        /\ \A j \in 1..(n - (i + 1) + 1) : b[j] = s[i + 1 + j - 1]
    BY <1>1, SubSeqProperties
  <2>2. /\ (IF i + 1 <= n THEN n - (i + 1) + 1 ELSE 0) = n - i
        /\ n - (i + 1) + 1 = n - i /\ \A j \in 1..(n - i) : i + 1 + j - 1 = i + j
    BY <1>1
  <2> QED
    BY <2>1, <2>2
<1> HIDE DEF a, b
<1>4. /\ a \o b \in Seq(S) /\ Len(a \o b) = i - 1 + (n - i)
      /\ \A j \in 1..(i - 1 + (n - i)) :
           (a \o b)[j] = IF j <= i - 1 THEN a[j] ELSE b[j - (i - 1)]
  <2>1. /\ a \o b \in Seq(S) /\ Len(a \o b) = Len(a) + Len(b)
        /\ \A j \in 1..(Len(a) + Len(b)) :
             (a \o b)[j] = IF j <= Len(a) THEN a[j] ELSE b[j - Len(a)]
    BY <1>2, <1>3, ConcatProperties, SMTT(60)
  <2> QED
    BY <1>2, <1>3, <2>1
<1>5. i - 1 + (n - i) = n - 1
  BY <1>1
<1>6. ASSUME NEW j \in 1..(n - 1)
      PROVE  (a \o b)[j] = IF j < i THEN s[j] ELSE s[j + 1]
  <2>1. CASE j < i
    BY <1>1, <1>2, <1>4, <1>5, <2>1
  <2>2. CASE ~(j < i)
    <3>1. j - (i - 1) \in 1..(n - i) /\ i + (j - (i - 1)) = j + 1 /\ ~(j <= i - 1)
      BY <1>1, <2>2
    <3> QED
      BY <1>3, <1>4, <1>5, <2>2, <3>1
  <2> QED
    BY <2>1, <2>2
<1> QED
  BY <1>4, <1>5, <1>6 DEF a, b

\* What On does: one entry more, at the end.
LEMMA OnAdds ==
  ASSUME OnTypes, NEW h \in Subscribers, On(h)
  PROVE  /\ handlers' \in Seq(Entry) /\ Len(handlers') = Len(handlers) + 1
         /\ \A i \in 1..Len(handlers) : handlers'[i] = handlers[i]
         /\ handlers'[Len(handlers) + 1] = [id |-> nextHandlerID, fn |-> h]
         /\ nextHandlerID' = nextHandlerID + 1
         /\ subscription' \in [Subscribers -> Nat] /\ subscription'[h] = nextHandlerID
         /\ \A g \in Subscribers \ {h} : subscription'[g] = subscription[g]
<1>1. [id |-> nextHandlerID, fn |-> h] \in Entry
  BY DEF OnTypes, Entry
<1> QED
  BY <1>1, AppendProperties DEF OnTypes, On, Entry

\* What the function returned by On does: it cuts out the first entry with its
\* id, or there is none.
LEMMA UnsubscribeCuts ==
  ASSUME OnTypes, NEW h \in Subscribers, Unsubscribe(h)
  PROVE  /\ handlers' \in Seq(Entry)
         /\ UNCHANGED <<nextHandlerID, subscription>>
         /\ \/ /\ handlers' = handlers
               /\ \A i \in 1..Len(handlers) : handlers[i].id # subscription[h]
            \/ \E i \in 1..Len(handlers) :
                 /\ handlers[i].id = subscription[h]
                 /\ Len(handlers') = Len(handlers) - 1
                 /\ \A j \in 1..(Len(handlers) - 1) :
                      handlers'[j] = IF j < i THEN handlers[j] ELSE handlers[j + 1]
<1>1. handlers \in Seq(Entry)
  BY DEF OnTypes, Entry
<1>2. UNCHANGED <<nextHandlerID, subscription>>
  BY DEF Unsubscribe
<1>3. CASE UNCHANGED handlers /\ \A i \in 1..Len(handlers) : handlers[i].id # subscription[h]
  BY <1>1, <1>2, <1>3
<1>4. ASSUME NEW i \in 1..Len(handlers), handlers[i].id = subscription[h],
             handlers' = SubSeq(handlers, 1, i - 1) \o SubSeq(handlers, i + 1, Len(handlers))
      PROVE  /\ handlers' \in Seq(Entry) /\ Len(handlers') = Len(handlers) - 1
             /\ \A j \in 1..(Len(handlers) - 1) :
                  handlers'[j] = IF j < i THEN handlers[j] ELSE handlers[j + 1]
  BY <1>1, <1>4, Cut
<1> QED
  BY <1>2, <1>3, <1>4 DEF Unsubscribe

----------------------------------------------------------------------------
(* Types *)

\* Taking the first element keeps the rest in order.
LEMMA HeadTail ==
  ASSUME NEW S, NEW s \in Seq(S), s # <<>>
  PROVE  /\ 1 \in 1..Len(s) /\ Head(s) = s[1] /\ s[1] \in S /\ Tail(s) \in Seq(S)
         /\ Len(Tail(s)) = Len(s) - 1
         /\ \A i \in 1..Len(Tail(s)) : i + 1 \in 2..Len(s) /\ Tail(s)[i] = s[i + 1]
BY HeadTailProperties, LenProperties, EmptySeq

\* NoEvent is not an event.
LEMMA NoEventIsNone == NoEvent \notin Events
BY DEF NoEvent, Events

LEMMA AppTypes ==
  ASSUME TypeOK, NEW a \in Apps, AppOn(a) \/ AppOff(a)
  PROVE  TypeOK'
<1>1. UNCHANGED <<wire, queueVars, workerVars, callVars, alone, discPc, reply,
                  requests, serverVars>>
  BY DEF AppOn, AppOff
<1>2. OnTypes'
  <2>1. CASE AppOn(a)
    <3>1. On(a) /\ OnTypes /\ appPc' = [appPc EXCEPT ![a] = "on"]
      BY <2>1 DEF AppOn, TypeOK
    <3>2. /\ handlers' \in Seq(Entry) /\ nextHandlerID' = nextHandlerID + 1
          /\ subscription' \in [Subscribers -> Nat]
      BY <3>1, OnAdds
    <3>3. nextHandlerID' \in Nat
      BY <3>1, <3>2 DEF OnTypes
    <3>4. appPc' \in [Apps -> {"new", "on", "off"}]
      BY <3>1 DEF OnTypes
    <3> QED
      BY <3>2, <3>3, <3>4 DEF OnTypes, Entry
  <2>2. CASE AppOff(a)
    BY <2>2, UnsubscribeCuts DEF AppOff, TypeOK, OnTypes, Entry
  <2> QED
    BY <2>1, <2>2
<1> QED
  BY <1>1, <1>2 DEF TypeOK, QueueTypes, WorkerTypes, CallTypes, RequestTypes,
     ServerTypes, queueVars, workerVars, callVars, serverVars

LEMMA CallerTypes ==
  ASSUME TypeOK, NEW c \in Callers, SendAndWait(c)
  PROVE  TypeOK'
<1> USE DEF CallerStates, Goto
<1>1. UNCHANGED <<wire, queueVars, workerVars, discPc, serverVars, appPc, lastMessage>>
  BY DEF SendAndWait, Subscribe, Send, SendReturns, WaitReturns, Leave
<1>2. OnTypes'
  <2>1. CASE Subscribe(c)
    <3>1. On(c) /\ OnTypes
      BY <2>1 DEF Subscribe, TypeOK
    <3>2. /\ handlers' \in Seq(Entry) /\ nextHandlerID' = nextHandlerID + 1
          /\ subscription' \in [Subscribers -> Nat]
      BY <3>1, OnAdds
    <3> QED
      BY <1>1, <3>1, <3>2 DEF OnTypes, Entry
  <2>2. CASE Leave(c)
    BY <1>1, <2>2, UnsubscribeCuts DEF Leave, TypeOK, OnTypes, Entry
  <2>3. CASE Send(c) \/ SendReturns(c) \/ WaitReturns(c)
    BY <1>1, <2>3 DEF Send, SendReturns, WaitReturns, TypeOK, OnTypes, onVars
  <2> QED
    BY <2>1, <2>2, <2>3 DEF SendAndWait
<1>3. RequestTypes'
  BY <1>1 DEF SendAndWait, Subscribe, Send, SendReturns, WaitReturns, Leave, Ask,
     TypeOK, RequestTypes
<1>4. (pc' \in [Callers -> CallerStates]) /\ (alone' \in [Callers -> BOOLEAN])
  BY ZenonT(60) DEF SendAndWait, Subscribe, Send, SendReturns, WaitReturns, Leave, Finish,
     OutOfTheWay, TypeOK, CallTypes
<1>5. CallTypes'
  <2>1. CASE Subscribe(c) \/ Send(c) \/ Leave(c)
    BY <1>1, <1>4, <2>1 DEF Subscribe, Send, Leave, TypeOK, CallTypes
  <2>2. CASE SendReturns(c)
    BY <1>1, <1>4, <2>2 DEF SendReturns, Finish, TypeOK, CallTypes
  <2>3. CASE WaitReturns(c)
    BY <1>1, <1>4, <2>3, ZenonT(60) DEF WaitReturns, Finish, TypeOK, CallTypes
  <2> QED
    BY <2>1, <2>2, <2>3 DEF SendAndWait
<1> QED
  BY <1>1, <1>2, <1>3, <1>5 DEF TypeOK, QueueTypes, WorkerTypes, ServerTypes,
     queueVars, workerVars, serverVars

LEMMA LoopTypes ==
  ASSUME TypeOK, readLoop
  PROVE  TypeOK'
<1>1. UNCHANGED <<closes, onVars, workerVars, callVars, alone, appPc, discPc,
                  requests, serverVars>>
  BY DEF readLoop, ReadResponse, ReadEvent, dispatchEvent, queueVars
<1>2. wire # <<>> => Head(wire) \in Messages /\ Tail(wire) \in Seq(Messages)
  BY HeadTail DEF TypeOK, QueueTypes
<1>3. QueueTypes' /\ reply' \in [Requesters -> {"none", "ok", "error"}]
  <2>1. CASE ReadResponse
    BY <1>2, <2>1 DEF ReadResponse, TypeOK, QueueTypes, RequestTypes, queueVars
  <2>2. CASE ReadEvent
    <3>1. Head(wire).event \in Events
      BY <1>2, <2>2 DEF ReadEvent, Messages
    <3> QED
      BY <1>2, <2>2, <3>1 DEF ReadEvent, TypeOK, QueueTypes, RequestTypes
  <2>3. CASE dispatchEvent
    BY <2>3, AppendProperties, LenProperties, SMTT(60)
       DEF dispatchEvent, TypeOK, QueueTypes, RequestTypes
  <2> QED
    BY <2>1, <2>2, <2>3 DEF readLoop
<1> QED
  BY <1>1, <1>3 DEF TypeOK, OnTypes, WorkerTypes, CallTypes, RequestTypes,
     ServerTypes, onVars, workerVars, callVars, serverVars

\* What a snapshot of the handlers holds.
LEMMA Snapshot ==
  ASSUME OnTypes, todo' = [i \in 1..Len(handlers) |-> handlers[i].fn]
  PROVE  /\ todo' \in Seq(Subscribers) /\ Len(todo') = Len(handlers)
         /\ \A i \in 1..Len(handlers) : todo'[i] = handlers[i].fn
<1>1. Len(handlers) \in Nat /\ \A i \in 1..Len(handlers) : handlers[i].fn \in Subscribers
  <2>1. \A i \in 1..Len(handlers) : handlers[i] \in Entry
    BY ElementOfSeq DEF OnTypes, Entry
  <2> QED
    BY <2>1, LenProperties DEF OnTypes, Entry
<1> QED
  BY <1>1

\* The handler of SendAndWait looks at the kind of the event.
LEMMA Handling ==
  ASSUME TypeOK, NEW c \in Callers, CallerHandler(c)
  PROVE  \/ /\ current.kind = "message" /\ lastMessage' = [lastMessage EXCEPT ![c] = current]
            /\ UNCHANGED <<idleCh, errCh>>
         \/ /\ current.kind = "idle" /\ idleCh' = [idleCh EXCEPT ![c] = TRUE]
            /\ UNCHANGED <<errCh, lastMessage>>
         \/ /\ current.kind = "error" /\ errCh' = [errCh EXCEPT ![c] = TRUE]
            /\ UNCHANGED <<idleCh, lastMessage>>
<1>1. current.kind \in {"message", "idle", "error"}
  BY DEF TypeOK, WorkerTypes, Events, NoEvent
<1> QED
  BY <1>1, Zenon DEF CallerHandler

LEMMA ConsumerTypes ==
  ASSUME TypeOK, processEvents
  PROVE  TypeOK'
<1>1. UNCHANGED <<wire, loopEvent, closes, onVars, pc, outcome, answer, alone, appPc,
                  discPc, serverVars>>
  BY DEF processEvents, Receive, CallHandler, HandlerRequestReturns, HandlersDone,
         ConsumerEnd, queueVars, callVars
<1>2. (OnTypes /\ ServerTypes)'
  BY <1>1 DEF TypeOK, OnTypes, ServerTypes, onVars, serverVars
<1>3. CASE Receive
  <2>1. /\ Head(eventCh) \in Events /\ Tail(eventCh) \in Seq(Events)
        /\ Len(Tail(eventCh)) <= QueueCap
    BY <1>3, HeadTail, LenProperties DEF Receive, TypeOK, QueueTypes
  <2> QED
    BY <1>1, <1>2, <1>3, <2>1, Snapshot DEF Receive, TypeOK, QueueTypes, WorkerTypes,
       CallTypes, RequestTypes, callVars
<1>4. CASE CallHandler
  <2>1. PICK h \in Subscribers : h = Head(todo) /\ Tail(todo) \in Seq(Subscribers)
    BY <1>4, HeadTail DEF CallHandler, TypeOK, WorkerTypes
  <2>2. /\ todo' = Tail(todo) /\ UNCHANGED <<queueVars, current>>
        /\ delivered' = [delivered EXCEPT ![h] = Append(@, current.n)]
    BY <1>4, <2>1 DEF CallHandler
  <2>3. current.n \in Nat
    BY DEF TypeOK, WorkerTypes, Events, NoEvent
  <2>4. delivered' \in [Subscribers -> Seq(Nat)]
    BY <2>2, <2>3, AppendProperties DEF TypeOK, WorkerTypes
  <2>5. /\ workerPc' \in {workerPc, "rpc"}
        /\ UNCHANGED <<requests, reply>> \/ Ask(Worker)
    BY <1>4 DEF CallHandler
  <2>6. ASSUME NEW c \in Callers, CallerHandler(c)
        PROVE  /\ idleCh' \in [Callers -> BOOLEAN] /\ errCh' \in [Callers -> BOOLEAN]
               /\ lastMessage' \in [Callers -> Events \cup {NoEvent}]
    <3>3. CASE lastMessage' = [lastMessage EXCEPT ![c] = current] /\ UNCHANGED <<idleCh, errCh>>
      BY <3>3 DEF TypeOK, CallTypes, WorkerTypes
    <3>4. CASE idleCh' = [idleCh EXCEPT ![c] = TRUE] /\ UNCHANGED <<errCh, lastMessage>>
      BY <3>4 DEF TypeOK, CallTypes
    <3>5. CASE errCh' = [errCh EXCEPT ![c] = TRUE] /\ UNCHANGED <<idleCh, lastMessage>>
      BY <3>5 DEF TypeOK, CallTypes
    <3> QED
      BY <2>6, <3>3, <3>4, <3>5, Handling
  <2>7. CallTypes'
    <3>1. UNCHANGED <<idleCh, errCh, lastMessage>> \/ \E c \in Callers : CallerHandler(c)
      BY <1>4, Zenon DEF CallHandler
    <3> QED
      BY <1>1, <2>6, <3>1 DEF TypeOK, CallTypes
  <2>8. RequestTypes'
    BY <1>1, <2>5 DEF Ask, TypeOK, RequestTypes
  <2> QED
    BY <1>1, <1>2, <2>1, <2>2, <2>4, <2>5, <2>7, <2>8 DEF TypeOK, QueueTypes,
       WorkerTypes, queueVars
<1>5. CASE HandlerRequestReturns \/ HandlersDone \/ ConsumerEnd
  BY <1>1, <1>2, <1>5 DEF HandlerRequestReturns, HandlersDone, ConsumerEnd, TypeOK,
     QueueTypes, WorkerTypes, CallTypes, RequestTypes, queueVars, callVars
<1> QED
  BY <1>3, <1>4, <1>5 DEF processEvents

LEMMA DisconnectTypes ==
  ASSUME TypeOK, NEW d \in Disconnectors, DisconnectStep(d)
  PROVE  TypeOK'
<1>1. UNCHANGED <<wire, loopEvent, eventCh, nextHandlerID, subscription, workerVars,
                  callVars, alone, appPc, serverVars>>
  BY DEF DisconnectStep, Disconnect, DestroyReturns, CloseEventCh, ClearHandlers,
         queueVars, onVars
<1>2. closes' \in Nat /\ RequestTypes'
  BY SMTT(60) DEF DisconnectStep, Disconnect, DestroyReturns, CloseEventCh, ClearHandlers,
         DiscGoto, Ask, queueVars, TypeOK, QueueTypes, RequestTypes
<1>3. handlers' = handlers \/ handlers' = <<>>
  BY DEF DisconnectStep, Disconnect, DestroyReturns, CloseEventCh, ClearHandlers, onVars
<1>4. OnTypes'
  BY <1>1, <1>3, EmptySeq, ZenonT(60) DEF TypeOK, OnTypes
<1> QED
  BY <1>1, <1>2, <1>4 DEF TypeOK, QueueTypes, WorkerTypes, CallTypes, ServerTypes,
     workerVars, callVars, serverVars

LEMMA CliTypes ==
  ASSUME TypeOK, Server
  PROVE  TypeOK'
<1>1. UNCHANGED <<queueVars, onVars, workerVars, callVars, alone, appPc, discPc, reply>>
  BY DEF Server, ServerAnswer, ServerEmit
<1>2. ASSUME NEW m \in Messages, wire' = Append(wire, m)
      PROVE  QueueTypes'
  BY <1>1, <1>2, AppendProperties DEF TypeOK, QueueTypes, queueVars
<1>3. (OnTypes /\ WorkerTypes /\ CallTypes)'
  BY <1>1 DEF TypeOK, OnTypes, WorkerTypes, CallTypes, onVars, workerVars, callVars
<1>4. ASSUME NEW r \in Requesters, NEW ok \in BOOLEAN, ServerAnswer(r, ok)
      PROVE  TypeOK'
  <2>1. [kind |-> "response", to |-> r, ok |-> ok] \in Messages
    BY DEF Messages
  <2>2. QueueTypes'
    BY <1>2, <1>4, <2>1 DEF ServerAnswer
  <2>3. ServerTypes'
    BY <1>4, AppendProperties DEF ServerAnswer, TypeOK, ServerTypes
  <2> QED
    BY <1>1, <1>3, <1>4, <2>2, <2>3 DEF ServerAnswer, TypeOK, RequestTypes
<1>5. ASSUME NEW k \in {"message", "idle", "error"}, NEW last \in BOOLEAN,
             ServerEmit(k, last)
      PROVE  TypeOK'
  <2>1. Head(turns) \in Callers /\ Tail(turns) \in Seq(Callers)
    BY <1>5, HeadTail DEF ServerEmit, TypeOK, ServerTypes
  <2>2. emitted + 1 \in Nat
    BY DEF TypeOK, ServerTypes
  <2>3. [kind |-> "event", event |-> [n |-> emitted + 1, kind |-> k, turn |-> Head(turns)]]
          \in Messages
    BY <2>1, <2>2 DEF Messages, Events
  <2>4. QueueTypes'
    BY <1>2, <1>5, <2>3 DEF ServerEmit
  <2>5. ServerTypes'
    BY <1>5, <2>1, <2>2 DEF ServerEmit, TypeOK, ServerTypes
  <2>6. RequestTypes'
    BY <1>1, <1>5 DEF ServerEmit, TypeOK, RequestTypes
  <2> QED
    BY <1>3, <2>4, <2>5, <2>6 DEF TypeOK
<1> QED
  BY <1>4, <1>5 DEF Server

\* Every step keeps the types.
LEMMA TypesStep ==
  ASSUME TypeOK, [Next]_vars
  PROVE  TypeOK'
<1>1. UNCHANGED vars => TypeOK'
  BY DEF vars, queueVars, onVars, workerVars, callVars, serverVars, TypeOK, QueueTypes,
     OnTypes, WorkerTypes, CallTypes, RequestTypes, ServerTypes
<1> QED
  BY <1>1, AppTypes, CallerTypes, LoopTypes, ConsumerTypes, DisconnectTypes, CliTypes
     DEF Next

\* Every variable always has its type, and eventCh holds at most QueueCap events.
THEOREM SessionTyped == Spec => []TypeOK
<1>1. Init => TypeOK
  BY EmptySeq DEF Init, TypeOK, QueueTypes, OnTypes, WorkerTypes, CallTypes,
     RequestTypes, ServerTypes, CallerStates
<1> QED
  BY <1>1, TypesStep, PTL DEF Spec

----------------------------------------------------------------------------
(* The handlers of On *)

\* The handler was never registered.
New(h) == IF h \in Apps THEN appPc[h] = "new" ELSE pc[h] = "idle"

Registered(h) == \E i \in 1..Len(handlers) : handlers[i].fn = h

\* Every entry stands under the id its subscriber was given, ids are never given
\* twice, and every subscriber has an entry until a Disconnect clears them.
Registry ==
  /\ \A i \in 1..Len(handlers), h \in Subscribers : handlers[i].fn = h =>
       /\ Subscribed(h)
       /\ handlers[i].id = subscription[h]
       /\ \A j \in 1..Len(handlers) : handlers[j].fn = h => i = j
  /\ \A h \in Subscribers : ~New(h) =>
       /\ subscription[h] < nextHandlerID
       /\ \A g \in Subscribers : ~New(g) /\ subscription[g] = subscription[h] => g = h
  /\ (\A d \in Disconnectors : discPc[d] # "done") =>
       \A h \in Subscribers : Subscribed(h) => Registered(h)

LEMMA SubscribedIsOld == \A h \in Subscribers : Subscribed(h) => ~New(h)
BY DEF Subscribed, New

\* Every step registers one handler, unregisters one, clears them all, or leaves
\* them alone.
LEMMA RegistrySteps ==
  ASSUME TypeOK, [Next]_vars
  PROVE  \/ \E h \in Subscribers :
              /\ On(h) /\ New(h) /\ ~New(h)' /\ Subscribed(h)'
              /\ \A g \in Subscribers \ {h} :
                   (New(g)' <=> New(g)) /\ (Subscribed(g)' <=> Subscribed(g))
              /\ UNCHANGED <<workerVars, queueVars, discPc>>
         \/ \E h \in Subscribers :
              /\ Unsubscribe(h) /\ ~New(h) /\ ~New(h)' /\ ~Subscribed(h)'
              /\ \A g \in Subscribers \ {h} :
                   (New(g)' <=> New(g)) /\ (Subscribed(g)' <=> Subscribed(g))
              /\ UNCHANGED <<workerVars, queueVars, discPc>>
         \/ /\ handlers' = <<>> /\ \E d \in Disconnectors : discPc'[d] = "done"
            /\ \A g \in Subscribers :
                 (New(g)' <=> New(g)) /\ (Subscribed(g)' <=> Subscribed(g))
            /\ UNCHANGED <<workerVars, queueVars, nextHandlerID, subscription>>
         \/ /\ \A g \in Subscribers :
                 (New(g)' <=> New(g)) /\ (Subscribed(g)' <=> Subscribed(g))
            /\ \A d \in Disconnectors : discPc'[d] = "done" <=> discPc[d] = "done"
            /\ UNCHANGED onVars
<1> USE DEF TypeOK, CallTypes, OnTypes, New, Subscribed
<1>1. ASSUME NEW a \in Apps, AppOn(a)
      PROVE  /\ On(a) /\ New(a) /\ ~New(a)' /\ Subscribed(a)'
             /\ \A g \in Subscribers \ {a} :
                  (New(g)' <=> New(g)) /\ (Subscribed(g)' <=> Subscribed(g))
             /\ UNCHANGED <<workerVars, queueVars, discPc>>
  BY <1>1 DEF AppOn, callVars
<1>2. ASSUME NEW a \in Apps, AppOff(a)
      PROVE  /\ Unsubscribe(a) /\ ~New(a) /\ ~New(a)' /\ ~Subscribed(a)'
             /\ \A g \in Subscribers \ {a} :
                  (New(g)' <=> New(g)) /\ (Subscribed(g)' <=> Subscribed(g))
             /\ UNCHANGED <<workerVars, queueVars, discPc>>
  BY <1>2 DEF AppOff, callVars
<1>3. ASSUME NEW c \in Callers, Subscribe(c)
      PROVE  /\ On(c) /\ New(c) /\ ~New(c)' /\ Subscribed(c)'
             /\ \A g \in Subscribers \ {c} :
                  (New(g)' <=> New(g)) /\ (Subscribed(g)' <=> Subscribed(g))
             /\ UNCHANGED <<workerVars, queueVars, discPc>>
  BY <1>3 DEF Subscribe, Goto
<1>4. ASSUME NEW c \in Callers, Leave(c)
      PROVE  /\ Unsubscribe(c) /\ ~New(c) /\ ~New(c)' /\ ~Subscribed(c)'
             /\ \A g \in Subscribers \ {c} :
                  (New(g)' <=> New(g)) /\ (Subscribed(g)' <=> Subscribed(g))
             /\ UNCHANGED <<workerVars, queueVars, discPc>>
  BY <1>4 DEF Leave, Goto
<1>5. ASSUME NEW c \in Callers, Send(c) \/ SendReturns(c) \/ WaitReturns(c)
      PROVE  /\ \A g \in Subscribers :
                  (New(g)' <=> New(g)) /\ (Subscribed(g)' <=> Subscribed(g))
             /\ UNCHANGED <<discPc, onVars>>
  BY <1>5 DEF Send, SendReturns, WaitReturns, Finish, Goto
<1>6. ASSUME NEW d \in Disconnectors, ClearHandlers(d)
      PROVE  /\ handlers' = <<>> /\ discPc'[d] = "done"
             /\ \A g \in Subscribers :
                  (New(g)' <=> New(g)) /\ (Subscribed(g)' <=> Subscribed(g))
             /\ UNCHANGED <<workerVars, queueVars, nextHandlerID, subscription>>
  BY <1>6 DEF ClearHandlers, DiscGoto, RequestTypes, callVars
<1>7. ASSUME NEW d \in Disconnectors,
             Disconnect(d) \/ DestroyReturns(d) \/ CloseEventCh(d)
      PROVE  /\ UNCHANGED <<onVars, pc, appPc>>
             /\ \A e \in Disconnectors : discPc'[e] = "done" <=> discPc[e] = "done"
  BY <1>7 DEF Disconnect, DestroyReturns, CloseEventCh, DiscGoto, RequestTypes, callVars
<1>8. ASSUME readLoop \/ processEvents \/ Server \/ UNCHANGED vars
      PROVE  UNCHANGED <<onVars, pc, appPc, discPc>>
  BY <1>8 DEF readLoop, ReadResponse, ReadEvent, dispatchEvent, processEvents, Receive,
     CallHandler, HandlerRequestReturns, HandlersDone, ConsumerEnd, Server,
     ServerAnswer, ServerEmit, callVars, vars
<1> HIDE DEF TypeOK, CallTypes, OnTypes
<1>9. CASE \E a \in Apps : AppOn(a) \/ AppOff(a)
  BY <1>1, <1>2, <1>9
<1>10. CASE \E c \in Callers : SendAndWait(c)
  BY <1>3, <1>4, <1>5, <1>10 DEF SendAndWait
<1>11. CASE \E d \in Disconnectors : DisconnectStep(d)
  BY <1>6, <1>7, <1>11 DEF DisconnectStep
<1> QED
  BY <1>8, <1>9, <1>10, <1>11 DEF Next

\* Registering adds the one handler.
LEMMA OnRegisters ==
  ASSUME OnTypes, NEW h \in Subscribers, On(h)
  PROVE  /\ Registered(h)' /\ \A g \in Subscribers \ {h} : Registered(g)' <=> Registered(g)
         /\ \A i \in 1..Len(handlers') :
              \/ i = Len(handlers) + 1 /\ handlers'[i] = [id |-> nextHandlerID, fn |-> h]
              \/ i \in 1..Len(handlers) /\ handlers'[i] = handlers[i]
<1>1. Len(handlers) \in Nat
  BY LenProperties DEF OnTypes
<1>2. \A i \in 1..(Len(handlers) + 1) : i = Len(handlers) + 1 \/ i \in 1..Len(handlers)
  BY <1>1
<1>3. Len(handlers) + 1 \in 1..(Len(handlers) + 1) /\ \A i \in 1..Len(handlers) : i \in 1..(Len(handlers) + 1)
  BY <1>1
<1>4. /\ Len(handlers') = Len(handlers) + 1
      /\ \A i \in 1..Len(handlers) : handlers'[i] = handlers[i]
      /\ handlers'[Len(handlers) + 1] = [id |-> nextHandlerID, fn |-> h]
  BY OnAdds
<1>5. handlers'[Len(handlers) + 1].fn = h
  BY <1>4
<1>6. Registered(h)'
  BY <1>3, <1>4, <1>5 DEF Registered
<1>7. ASSUME NEW g \in Subscribers \ {h} PROVE Registered(g)' <=> Registered(g)
  BY <1>2, <1>3, <1>4, <1>5 DEF Registered
<1> QED
  BY <1>2, <1>4, <1>6, <1>7

\* Unregistering removes the one handler, if it is still there, and no other.
LEMMA UnsubscribeRemoves ==
  ASSUME TypeOK, Registry, NEW h \in Subscribers, ~New(h), Unsubscribe(h)
  PROVE  /\ ~Registered(h)' /\ \A g \in Subscribers \ {h} : Registered(g)' <=> Registered(g)
         /\ \A j \in 1..Len(handlers') : \E i \in 1..Len(handlers) : handlers'[j] = handlers[i]
         /\ \A i, j \in 1..Len(handlers') : handlers'[i].fn = handlers'[j].fn => i = j
<1>1. /\ OnTypes /\ Len(handlers) \in Nat
      /\ \A i \in 1..Len(handlers) : handlers[i].fn \in Subscribers
  <2>1. OnTypes /\ handlers \in Seq(Entry)
    BY DEF TypeOK, OnTypes, Entry
  <2>2. \A i \in 1..Len(handlers) : handlers[i] \in Entry
    BY <2>1, ElementOfSeq
  <2> QED
    BY <2>1, <2>2, LenProperties DEF Entry
<1>2. \A i \in 1..Len(handlers) : handlers[i].id = subscription[h] => handlers[i].fn = h
  BY <1>1, SubscribedIsOld DEF Registry
<1>3. CASE /\ handlers' = handlers
           /\ \A i \in 1..Len(handlers) : handlers[i].id # subscription[h]
  <2>1. ~Registered(h)
    BY <1>3 DEF Registered, Registry
  <2> QED
    BY <1>1, <1>3, <2>1 DEF Registered, Registry
<1>4. ASSUME NEW i \in 1..Len(handlers), handlers[i].id = subscription[h],
             Len(handlers') = Len(handlers) - 1,
             \A j \in 1..(Len(handlers) - 1) :
               handlers'[j] = IF j < i THEN handlers[j] ELSE handlers[j + 1]
      PROVE  /\ ~Registered(h)'
             /\ \A g \in Subscribers \ {h} : Registered(g)' <=> Registered(g)
             /\ \A j \in 1..Len(handlers') : \E m \in 1..Len(handlers) : handlers'[j] = handlers[m]
             /\ \A l, j \in 1..Len(handlers') : handlers'[l].fn = handlers'[j].fn => l = j
  <2> DEFINE At(j) == IF j < i THEN j ELSE j + 1
  <2>1. \A j \in 1..Len(handlers') : /\ At(j) \in 1..Len(handlers) /\ At(j) # i
                                     /\ handlers'[j] = handlers[At(j)]
    BY <1>1, <1>4
  <2>2. \A l, j \in 1..Len(handlers') : At(l) = At(j) => l = j
    BY <1>1, <1>4
  <2>3. \A m \in 1..Len(handlers) : m # i => \E j \in 1..Len(handlers') : At(j) = m
    <3> SUFFICES ASSUME NEW m \in 1..Len(handlers), m # i
                 PROVE  \E j \in 1..Len(handlers') : At(j) = m
      OBVIOUS
    <3>1. CASE m < i
      <4>1. m \in 1..Len(handlers') /\ At(m) = m
        BY <1>1, <1>4, <3>1
      <4> QED
        BY <4>1
    <3>2. CASE ~(m < i)
      <4>1. m - 1 \in 1..Len(handlers') /\ At(m - 1) = m
        BY <1>1, <1>4, <3>2
      <4> QED
        BY <4>1
    <3> QED
      BY <3>1, <3>2
  <2> HIDE DEF At
  <2>4. handlers[i].fn = h /\ \A m \in 1..Len(handlers) : handlers[m].fn = h => m = i
    BY <1>2, <1>4 DEF Registry
  <2>5. \A l, j \in 1..Len(handlers') : handlers'[l].fn = handlers'[j].fn => l = j
    <3>1. ASSUME NEW l \in 1..Len(handlers'), NEW j \in 1..Len(handlers'),
                 handlers'[l].fn = handlers'[j].fn
          PROVE  l = j
      <4>1. PICK g \in Subscribers : handlers[At(l)].fn = g /\ handlers[At(j)].fn = g
        BY <1>1, <2>1, <3>1
      <4>2. \A m, o \in 1..Len(handlers) :
              handlers[m].fn = g /\ handlers[o].fn = g => m = o
        BY DEF Registry
      <4>3. At(l) = At(j)
        BY <2>1, <4>1, <4>2
      <4> QED
        BY <2>2, <4>3
    <3> QED
      BY <3>1
  <2>6. ~Registered(h)'
    BY <2>1, <2>4 DEF Registered
  <2>7. \A g \in Subscribers \ {h} : Registered(g)' <=> Registered(g)
    <3> SUFFICES ASSUME NEW g \in Subscribers, g # h
                 PROVE  Registered(g)' <=> Registered(g)
      OBVIOUS
    <3>1. Registered(g)' => Registered(g)
      BY <2>1 DEF Registered
    <3>2. ASSUME NEW m \in 1..Len(handlers), handlers[m].fn = g
          PROVE  Registered(g)'
      <4>1. PICK j \in 1..Len(handlers') : At(j) = m
        BY <2>3, <2>4, <3>2
      <4> QED
        BY <2>1, <3>2, <4>1 DEF Registered
    <3> QED
      BY <3>1, <3>2 DEF Registered
  <2> QED
    BY <2>1, <2>5, <2>6, <2>7
<1> QED
  BY <1>1, <1>3, <1>4, UnsubscribeCuts

\* Every step keeps the registry.
LEMMA RegistryStep ==
  ASSUME TypeOK, Registry, [Next]_vars
  PROVE  Registry'
<1>1. /\ OnTypes /\ nextHandlerID \in Nat
      /\ \A h \in Subscribers : subscription[h] \in Nat
      /\ \A i \in 1..Len(handlers) : handlers[i].fn \in Subscribers
  <2>1. OnTypes /\ handlers \in Seq(Entry)
    BY DEF TypeOK, OnTypes, Entry
  <2>2. \A i \in 1..Len(handlers) : handlers[i] \in Entry
    BY <2>1, ElementOfSeq
  <2> QED
    BY <2>1, <2>2 DEF OnTypes, Entry
<1>2. ASSUME NEW h \in Subscribers,
             On(h), New(h), ~New(h)', Subscribed(h)',
             \A g \in Subscribers \ {h} :
               (New(g)' <=> New(g)) /\ (Subscribed(g)' <=> Subscribed(g)),
             UNCHANGED discPc
      PROVE  Registry'
  <2>1. /\ subscription'[h] = nextHandlerID /\ nextHandlerID' = nextHandlerID + 1
        /\ \A g \in Subscribers \ {h} : subscription'[g] = subscription[g]
    BY <1>1, <1>2, OnAdds
  <2>2. \A i \in 1..Len(handlers) : handlers[i].fn # h
    BY <1>1, <1>2, SubscribedIsOld DEF Registry
  <2>3. ASSUME NEW i \in 1..Len(handlers'), NEW g \in Subscribers, handlers'[i].fn = g
        PROVE  /\ Subscribed(g)' /\ handlers'[i].id = subscription'[g]
               /\ \A j \in 1..Len(handlers') : handlers'[j].fn = g => i = j
    <3>1. \A j \in 1..Len(handlers') :
             \/ j = Len(handlers) + 1 /\ handlers'[j] = [id |-> nextHandlerID, fn |-> h]
             \/ /\ j \in 1..Len(handlers) /\ handlers'[j] = handlers[j]
      BY <1>1, <1>2, OnRegisters
    <3>2. CASE i = Len(handlers) + 1 /\ handlers'[i] = [id |-> nextHandlerID, fn |-> h]
      <4>1. g = h
        BY <2>3, <3>2
      <4>2. \A j \in 1..Len(handlers') : handlers'[j].fn = h => i = j
        BY <2>2, <3>1, <3>2
      <4> QED
        BY <1>2, <2>1, <3>2, <4>1, <4>2
    <3>3. CASE i \in 1..Len(handlers) /\ handlers'[i] = handlers[i]
      <4>1. g # h /\ handlers[i].fn = g
        BY <2>2, <2>3, <3>3
      <4>2. Subscribed(g) /\ handlers[i].id = subscription[g]
        BY <3>3, <4>1 DEF Registry
      <4>3. \A j \in 1..Len(handlers') : handlers'[j].fn = g => i = j
        BY <3>1, <3>3, <4>1 DEF Registry
      <4> QED
        BY <1>2, <2>1, <3>3, <4>1, <4>2, <4>3
    <3> QED
      BY <3>1, <3>2, <3>3
  <2>4. ASSUME NEW g \in Subscribers, ~New(g)'
        PROVE  /\ subscription'[g] < nextHandlerID'
               /\ \A f \in Subscribers :
                    ~New(f)' /\ subscription'[f] = subscription'[g] => f = g
    BY <1>1, <1>2, <2>1, <2>4 DEF Registry
  <2>5. ASSUME \A d \in Disconnectors : discPc'[d] # "done", NEW g \in Subscribers, Subscribed(g)'
        PROVE  Registered(g)'
    <3>1. Registered(h)' /\ (g # h => (Registered(g)' <=> Registered(g)))
      BY <1>1, <1>2, OnRegisters
    <3>2. g # h => Registered(g)
      BY <1>2, <2>5 DEF Registry
    <3> QED
      BY <3>1, <3>2
  <2> QED
    BY <2>3, <2>4, <2>5 DEF Registry
<1>3. ASSUME NEW h \in Subscribers,
             Unsubscribe(h), ~New(h), ~New(h)', ~Subscribed(h)',
             \A g \in Subscribers \ {h} :
               (New(g)' <=> New(g)) /\ (Subscribed(g)' <=> Subscribed(g)),
             UNCHANGED discPc
      PROVE  Registry'
  <2>1. UNCHANGED <<nextHandlerID, subscription>>
    BY <1>1, <1>3, UnsubscribeCuts
  <2>2. /\ ~Registered(h)'
        /\ \A g \in Subscribers \ {h} : Registered(g)' <=> Registered(g)
        /\ \A j \in 1..Len(handlers') : \E i \in 1..Len(handlers) : handlers'[j] = handlers[i]
        /\ \A i, j \in 1..Len(handlers') : handlers'[i].fn = handlers'[j].fn => i = j
    BY <1>3, UnsubscribeRemoves
  <2>3. ASSUME NEW j \in 1..Len(handlers'), NEW g \in Subscribers, handlers'[j].fn = g
        PROVE  Subscribed(g)' /\ handlers'[j].id = subscription'[g]
    <3>1. PICK i \in 1..Len(handlers) : handlers'[j] = handlers[i]
      BY <2>2
    <3>2. g # h
      BY <2>2, <2>3 DEF Registered
    <3> QED
      BY <1>3, <2>1, <2>3, <3>1, <3>2 DEF Registry
  <2>4. \A g \in Subscribers : New(g)' <=> New(g)
    BY <1>3
  <2>5. ASSUME \A d \in Disconnectors : discPc'[d] # "done", NEW g \in Subscribers, Subscribed(g)'
        PROVE  Registered(g)'
    BY <1>3, <2>2, <2>5 DEF Registry
  <2>6. \A g \in Subscribers : ~New(g)' =>
          /\ subscription'[g] < nextHandlerID'
          /\ \A f \in Subscribers : ~New(f)' /\ subscription'[f] = subscription'[g] => f = g
    BY <2>1, <2>4 DEF Registry
  <2> QED
    BY <2>2, <2>3, <2>5, <2>6 DEF Registry
<1>4. ASSUME handlers' = <<>>, \E d \in Disconnectors : discPc'[d] = "done",
             \A g \in Subscribers : New(g)' <=> New(g),
             UNCHANGED <<nextHandlerID, subscription>>
      PROVE  Registry'
  BY <1>4 DEF Registry
<1>5. ASSUME \A g \in Subscribers :
               (New(g)' <=> New(g)) /\ (Subscribed(g)' <=> Subscribed(g)),
             \A d \in Disconnectors : discPc'[d] = "done" <=> discPc[d] = "done",
             UNCHANGED onVars
      PROVE  Registry'
  <2>1. \A g \in Subscribers : Registered(g)' <=> Registered(g)
    BY <1>5 DEF onVars, Registered
  <2> QED
    BY <1>1, <1>5, <2>1 DEF onVars, Registry
<1> QED
  BY <1>2, <1>3, <1>4, <1>5, RegistrySteps

\* Registering and unsubscribing one handler never adds or removes another, for
\* any number of handlers and however often an unsubscribe function is called.
THEOREM HandlersKept == Spec => []SubscribersKept
<1>1. Init => Registry
  <2> SUFFICES ASSUME Init PROVE Registry
    OBVIOUS
  <2>1. \A h \in Subscribers : New(h) /\ ~Subscribed(h)
    BY DEF Init, New, Subscribed
  <2>2. Len(handlers) = 0
    BY DEF Init
  <2> QED
    BY <2>1, <2>2 DEF Registry
<1>2. TypeOK /\ Registry => SubscribersKept
  <2> SUFFICES ASSUME TypeOK, Registry, \A d \in Disconnectors : discPc[d] # "done",
                      NEW h \in Subscribers
               PROVE  Cardinality(Entries(h)) = IF Subscribed(h) THEN 1 ELSE 0
    BY DEF SubscribersKept
  <2>1. CASE Subscribed(h)
    <3>1. PICK i \in 1..Len(handlers) : handlers[i].fn = h
      BY <2>1 DEF Registry, Registered
    <3>2. Entries(h) = {i}
      BY <3>1 DEF Entries, Registry
    <3>3. Cardinality(Entries(h)) = 1
      BY <3>2, FS_Singleton
    <3> QED
      BY <2>1, <3>3
  <2>2. CASE ~Subscribed(h)
    <3>1. Entries(h) = {}
      BY <2>2 DEF Entries, Registry
    <3>2. Cardinality(Entries(h)) = 0
      BY <3>1, FS_EmptySet
    <3> QED
      BY <2>2, <3>2
  <2> QED
    BY <2>1, <2>2
<1> QED
  BY <1>1, <1>2, SessionTyped, RegistryStep, PTL DEF Spec

----------------------------------------------------------------------------
(* The order of delivery *)

\* The number of the last event that left the wire, when k is the number of the
\* last one the consumer received.
Taken(k) == IF loopEvent = NoEvent THEN k + Len(eventCh) ELSE loopEvent.n

\* Events queue in the order of their numbers behind event k; none is missing
\* as long as eventCh is open.
Numbered(k) ==
  /\ current # NoEvent => current.n = k
  /\ \A i \in 1..Len(eventCh) : eventCh[i].n = k + i
  /\ k + Len(eventCh) <= Taken(k) /\ Taken(k) <= emitted
  /\ loopEvent # NoEvent => k + Len(eventCh) < loopEvent.n
  /\ \A i \in 1..Len(wire) : wire[i].kind = "event" =>
       /\ Taken(k) < wire[i].event.n /\ wire[i].event.n <= emitted
       /\ \A j \in 1..(i - 1) :
            wire[j].kind = "event" => wire[j].event.n < wire[i].event.n
  /\ closes = 0 =>
       /\ loopEvent # NoEvent => loopEvent.n = k + Len(eventCh) + 1
       /\ \A n \in (Taken(k) + 1)..emitted :
            \E i \in 1..Len(wire) : wire[i].kind = "event" /\ wire[i].event.n = n

ToCall(h) == \E i \in 1..Len(todo) : todo[i] = h

Last(h) == delivered[h][Len(delivered[h])]

\* The consumer has delivered event k, or is delivering it, to every handler that
\* stayed registered; a handler that is gone gets at most the event in hand.
Served(k) ==
  /\ workerPc \in {"recv", "ended"} <=> current = NoEvent
  /\ current = NoEvent => todo = <<>>
  /\ \A i, j \in 1..Len(todo) : todo[i] = todo[j] => i = j
  /\ \A h \in Subscribers :
       /\ New(h) => ~ToCall(h) /\ delivered[h] = <<>>
       /\ ToCall(h) => delivered[h] = <<>> \/ Last(h) + 1 = k
       /\ Registered(h) /\ ~ToCall(h) => delivered[h] = <<>> \/ Last(h) = k

InOrder == \E k \in 0..emitted : Numbered(k) /\ Served(k)

\* What is in the queue is an event, with a number.
LEMMA QueueElements ==
  ASSUME TypeOK
  PROVE  /\ wire \in Seq(Messages) /\ Len(wire) \in Nat
         /\ eventCh \in Seq(Events) /\ Len(eventCh) \in Nat
         /\ \A i \in 1..Len(wire) :
              /\ wire[i] \in Messages
              /\ wire[i].kind = "event" => wire[i].event \in Events /\ wire[i].event.n \in Nat
         /\ \A i \in 1..Len(eventCh) : eventCh[i] \in Events /\ eventCh[i].n \in Nat
         /\ loopEvent.n \in Nat /\ current.n \in Nat /\ emitted \in Nat
<1>1. wire \in Seq(Messages) /\ eventCh \in Seq(Events)
  BY DEF TypeOK, QueueTypes
<1>2. \A i \in 1..Len(wire) : wire[i] \in Messages
  BY <1>1, ElementOfSeq
<1>3. \A m \in Messages : m.kind = "event" => m.event \in Events
  BY DEF Messages
<1>4. \A i \in 1..Len(eventCh) : eventCh[i] \in Events
  BY <1>1, ElementOfSeq
<1>5. \A e \in Events \cup {NoEvent} : e.n \in Nat
  BY DEF Events, NoEvent
<1>6. loopEvent.n \in Nat /\ current.n \in Nat /\ emitted \in Nat
  BY <1>5 DEF TypeOK, QueueTypes, WorkerTypes, ServerTypes
<1> QED
  BY <1>1, <1>2, <1>3, <1>4, <1>5, <1>6, LenProperties

\* A message more on the wire.
LEMMA NumberedAppend ==
  ASSUME TypeOK, NEW k \in Nat, Numbered(k),
         NEW m \in Messages, wire' = Append(wire, m),
         UNCHANGED <<loopEvent, eventCh, closes, current>>,
         \/ m.kind = "event" /\ m.event.n = emitted + 1 /\ emitted' = emitted + 1
         \/ m.kind = "response" /\ emitted' = emitted
  PROVE  Numbered(k)'
<1>1. /\ Len(wire') = Len(wire) + 1 /\ wire'[Len(wire) + 1] = m
      /\ \A i \in 1..Len(wire) : wire'[i] = wire[i]
  BY QueueElements, AppendProperties
<1>2. Taken(k)' = Taken(k) /\ Taken(k) \in Nat /\ Len(wire) \in Nat /\ emitted \in Nat
  BY QueueElements DEF Taken
<1>3. \A i \in 1..Len(wire') : i \in 1..Len(wire) \/ i = Len(wire) + 1
  BY <1>1, <1>2
<1>4. ASSUME NEW i \in 1..Len(wire'), wire'[i].kind = "event"
      PROVE  /\ Taken(k) < wire'[i].event.n /\ wire'[i].event.n <= emitted'
             /\ \A j \in 1..(i - 1) :
                  wire'[j].kind = "event" => wire'[j].event.n < wire'[i].event.n
  <2>1. CASE i \in 1..Len(wire)
    <3>1. \A j \in 1..(i - 1) : j \in 1..Len(wire)
      BY <1>2, <2>1
    <3>2. wire[i].event.n \in Nat
      BY <1>1, <1>4, <2>1, QueueElements
    <3> QED
      BY <1>1, <1>2, <1>4, <2>1, <3>1, <3>2, SMTT(60) DEF Numbered
  <2>2. CASE i = Len(wire) + 1
    <3>1. \A j \in 1..(i - 1) : j \in 1..Len(wire)
      BY <1>2, <2>2
    <3>2. m.kind = "event" /\ m.event.n = emitted + 1
      BY <1>1, <1>4, <2>2
    <3>3. \A j \in 1..Len(wire) : wire[j].kind = "event" =>
            wire[j].event.n <= emitted /\ wire[j].event.n \in Nat
      BY QueueElements DEF Numbered
    <3> QED
      BY <1>1, <1>2, <2>2, <3>1, <3>2, <3>3, SMTT(60) DEF Numbered
  <2> QED
    BY <1>3, <2>1, <2>2
<1>5. ASSUME closes = 0, NEW n \in (Taken(k) + 1)..emitted'
      PROVE  \E i \in 1..Len(wire') : wire'[i].kind = "event" /\ wire'[i].event.n = n
  <2>1. CASE n <= emitted
    <3>1. PICK i \in 1..Len(wire) : wire[i].kind = "event" /\ wire[i].event.n = n
      BY <1>2, <1>5, <2>1 DEF Numbered
    <3>2. i \in 1..Len(wire')
      BY <1>1, <1>2
    <3> QED
      BY <1>1, <3>1, <3>2
  <2>2. CASE ~(n <= emitted)
    <3>1. m.kind = "event" /\ m.event.n = n /\ Len(wire) + 1 \in 1..Len(wire')
      BY <1>1, <1>2, <1>5, <2>2
    <3> QED
      BY <1>1, <3>1
  <2> QED
    BY <2>1, <2>2
<1>6. Taken(k)' <= emitted'
  BY <1>2 DEF Numbered
<1> QED
  BY <1>2, <1>4, <1>5, <1>6, SMTT(60) DEF Numbered

\* A message less at the head of the wire, a response or the event that readLoop
\* takes.
LEMMA NumberedTail ==
  ASSUME TypeOK, NEW k \in Nat, Numbered(k), wire # <<>>, wire' = Tail(wire),
         UNCHANGED <<eventCh, closes, current, emitted>>,
         \/ Head(wire).kind = "response" /\ loopEvent' = loopEvent
         \/ /\ Head(wire).kind = "event" /\ loopEvent = NoEvent
            /\ loopEvent' = Head(wire).event
  PROVE  Numbered(k)'
<1>1. /\ 1 \in 1..Len(wire) /\ Head(wire) = wire[1] /\ Len(wire) \in Nat
      /\ Len(wire') = Len(wire) - 1
      /\ \A i \in 1..Len(wire') : i + 1 \in 2..Len(wire) /\ wire'[i] = wire[i + 1]
  BY QueueElements, HeadTail
<1>2. \A i \in 1..Len(wire') : i + 1 \in 1..Len(wire) /\ 1 \in 1..(i + 1 - 1)
  BY <1>1
<1>3. Taken(k) \in Nat /\ emitted \in Nat /\ Len(eventCh) \in Nat
  BY QueueElements DEF Taken
<1>4. \A i \in 1..Len(wire) : wire[i].kind = "event" =>
        wire[i].event \in Events /\ wire[i].event.n \in Nat
  BY QueueElements
<1>5. ASSUME NEW i \in 1..Len(wire'), wire'[i].kind = "event"
      PROVE  /\ wire'[i].event.n <= emitted /\ Taken(k) < wire'[i].event.n
             /\ wire[1].kind = "event" => wire[1].event.n < wire'[i].event.n
             /\ \A j \in 1..(i - 1) :
                  wire'[j].kind = "event" => wire'[j].event.n < wire'[i].event.n
  <2>1. \A j \in 1..(i - 1) : j \in 1..Len(wire') /\ j + 1 \in 1..(i + 1 - 1)
    BY <1>1
  <2>2. wire'[i] = wire[i + 1] /\ i + 1 \in 1..Len(wire) /\ 1 \in 1..(i + 1 - 1)
    BY <1>1, <1>2
  <2> QED
    BY <1>1, <1>5, <2>1, <2>2 DEF Numbered
<1>6. \A i \in 1..Len(wire) : i = 1 \/ (i - 1 \in 1..Len(wire') /\ (i - 1) + 1 = i)
  BY <1>1
<1>7. CASE Head(wire).kind = "response" /\ loopEvent' = loopEvent
  <2>1. Taken(k)' = Taken(k)
    BY <1>7 DEF Taken
  <2>2. ASSUME closes = 0, NEW n \in (Taken(k) + 1)..emitted
        PROVE  \E i \in 1..Len(wire') : wire'[i].kind = "event" /\ wire'[i].event.n = n
    <3>1. PICK i \in 1..Len(wire) : wire[i].kind = "event" /\ wire[i].event.n = n
      BY <2>2 DEF Numbered
    <3>2. i # 1
      BY <1>1, <1>7, <3>1
    <3> QED
      BY <1>1, <1>6, <3>1, <3>2
  <2> QED
    BY <1>5, <1>7, <2>1, <2>2 DEF Numbered
<1>8. CASE /\ Head(wire).kind = "event" /\ loopEvent = NoEvent
           /\ loopEvent' = Head(wire).event
  <2> DEFINE n1 == wire[1].event.n
  <2>1. /\ wire[1].kind = "event" /\ n1 \in Nat /\ wire[1].event # NoEvent
        /\ Taken(k) < n1 /\ n1 <= emitted
    BY <1>1, <1>4, <1>8, NoEventIsNone DEF Numbered
  <2>2. Taken(k)' = n1 /\ Taken(k) = k + Len(eventCh) /\ loopEvent' # NoEvent /\ loopEvent'.n = n1
    BY <1>1, <1>8, <2>1 DEF Taken
  <2>3. closes = 0 => n1 = Taken(k) + 1
    <3> SUFFICES ASSUME closes = 0 PROVE n1 = Taken(k) + 1
      OBVIOUS
    <3>1. Taken(k) + 1 \in (Taken(k) + 1)..emitted
      BY <1>3, <2>1
    <3>2. PICK i \in 1..Len(wire) : wire[i].kind = "event" /\ wire[i].event.n = Taken(k) + 1
      BY <3>1 DEF Numbered
    <3>3. i = 1 \/ n1 < Taken(k) + 1
      <4>1. i # 1 => 1 \in 1..(i - 1)
        BY <1>1
      <4> QED
        BY <2>1, <3>2, <4>1 DEF Numbered
    <3> QED
      BY <1>3, <2>1, <3>2, <3>3
  <2>4. ASSUME closes = 0, NEW n \in (n1 + 1)..emitted
        PROVE  \E i \in 1..Len(wire') : wire'[i].kind = "event" /\ wire'[i].event.n = n
    <3>1. n \in (Taken(k) + 1)..emitted
      BY <1>3, <2>1, SMTT(60)
    <3>2. PICK i \in 1..Len(wire) : wire[i].kind = "event" /\ wire[i].event.n = n
      BY <2>4, <3>1 DEF Numbered
    <3>3. i # 1
      BY <2>1, <3>2
    <3> QED
      BY <1>1, <1>6, <3>2, <3>3
  <2> HIDE DEF n1
  <2>5. \A i \in 1..Len(wire') : wire'[i].kind = "event" => n1 < wire'[i].event.n
    BY <1>5, <2>1 DEF n1
  <2>6. k + Len(eventCh) < n1
    BY <2>1, <2>2
  <2>7. k + Len(eventCh) <= n1
    BY <1>3, <2>1, <2>6
  <2>8. /\ current' # NoEvent => current'.n = k
        /\ \A i \in 1..Len(eventCh') : eventCh'[i].n = k + i
    BY DEF Numbered
  <2>9. \A i \in 1..Len(wire') : wire'[i].kind = "event" =>
          /\ Taken(k)' < wire'[i].event.n /\ wire'[i].event.n <= emitted'
          /\ \A j \in 1..(i - 1) :
               wire'[j].kind = "event" => wire'[j].event.n < wire'[i].event.n
    BY <1>5, <2>2, <2>5
  <2>10. closes' = 0 =>
           /\ loopEvent' # NoEvent => loopEvent'.n = k + Len(eventCh') + 1
           /\ \A n \in (Taken(k)' + 1)..emitted' :
                \E i \in 1..Len(wire') : wire'[i].kind = "event" /\ wire'[i].event.n = n
    BY <2>2, <2>3, <2>4
  <2>11. /\ k + Len(eventCh') <= Taken(k)' /\ Taken(k)' <= emitted'
         /\ loopEvent' # NoEvent => k + Len(eventCh') < loopEvent'.n
    BY <2>1, <2>2, <2>6, <2>7
  <2> QED
    BY <2>8, <2>9, <2>10, <2>11 DEF Numbered
<1> QED
  BY <1>7, <1>8

\* The event in readLoop's hands goes to eventCh, or is dropped once it is closed.
LEMMA NumberedDispatch ==
  ASSUME TypeOK, NEW k \in Nat, Numbered(k), dispatchEvent
  PROVE  Numbered(k)'
<1>1. /\ loopEvent # NoEvent /\ loopEvent' = NoEvent
      /\ UNCHANGED <<wire, closes, current, emitted>>
  BY DEF dispatchEvent, workerVars, serverVars
<1>2. /\ loopEvent \in Events /\ loopEvent.n \in Nat /\ Len(eventCh) \in Nat
      /\ eventCh \in Seq(Events)
  BY <1>1, QueueElements DEF TypeOK, QueueTypes
<1>3. Taken(k) = loopEvent.n /\ Taken(k)' = k + Len(eventCh')
  BY <1>1 DEF Taken
<1>4. \A i \in 1..Len(wire) : wire[i].kind = "event" => wire[i].event.n \in Nat
  BY QueueElements
<1>5. CASE closes > 0 /\ UNCHANGED eventCh
  <2>1. k + Len(eventCh) < loopEvent.n /\ loopEvent.n <= emitted /\ closes # 0
    BY <1>1, <1>3, <1>5 DEF Numbered
  <2>2. \A i \in 1..Len(wire') : wire'[i].kind = "event" => Taken(k)' < wire'[i].event.n
    BY <1>1, <1>2, <1>3, <1>4, <1>5, <2>1 DEF Numbered
  <2>3. Taken(k)' <= emitted'
    BY <1>1, <1>2, <1>3, <1>5, <2>1, QueueElements
  <2> QED
    BY <1>1, <1>2, <1>3, <1>5, <2>1, <2>2, <2>3 DEF Numbered
<1>6. CASE closes = 0 /\ eventCh' = Append(eventCh, loopEvent)
  <2>1. /\ Len(eventCh') = Len(eventCh) + 1 /\ eventCh'[Len(eventCh) + 1] = loopEvent
        /\ \A i \in 1..Len(eventCh) : eventCh'[i] = eventCh[i]
    BY <1>2, <1>6, AppendProperties
  <2>2. loopEvent.n = k + Len(eventCh) + 1
    BY <1>1, <1>6 DEF Numbered
  <2>3. Taken(k)' = Taken(k)
    BY <1>2, <1>3, <2>1, <2>2
  <2>4. \A i \in 1..Len(eventCh') : eventCh'[i].n = k + i
    <3>1. \A i \in 1..Len(eventCh') : i \in 1..Len(eventCh) \/ i = Len(eventCh) + 1
      BY <1>2, <2>1
    <3>2. k + (Len(eventCh) + 1) = k + Len(eventCh) + 1
      BY <1>2
    <3> QED
      BY <2>1, <2>2, <3>1, <3>2 DEF Numbered
  <2>5. k + Len(eventCh') <= Taken(k)'
    BY <1>2, <1>3, <2>1
  <2> QED
    BY <1>1, <1>3, <1>6, <2>3, <2>4, <2>5 DEF Numbered
<1> QED
  BY <1>5, <1>6 DEF dispatchEvent

\* The consumer takes the next event.
LEMMA NumberedReceive ==
  ASSUME TypeOK, NEW k \in Nat, Numbered(k), Receive
  PROVE  Numbered(k + 1)' /\ current'.n = k + 1 /\ k + 1 <= emitted
<1>1. /\ 1 \in 1..Len(eventCh) /\ Head(eventCh) = eventCh[1] /\ Len(eventCh) \in Nat
      /\ Len(eventCh') = Len(eventCh) - 1
      /\ \A i \in 1..Len(eventCh') : i + 1 \in 2..Len(eventCh) /\ eventCh'[i] = eventCh[i + 1]
  BY QueueElements, HeadTail DEF Receive
<1>2. /\ current' = eventCh[1] /\ UNCHANGED <<wire, loopEvent, closes, emitted>>
  BY <1>1 DEF Receive, serverVars
<1>3. /\ k + 1 + Len(eventCh') = k + Len(eventCh) /\ Taken(k + 1)' = Taken(k)
  BY <1>1, <1>2 DEF Taken
<1>4. \A i \in 1..Len(eventCh') : eventCh'[i].n = k + 1 + i
  <2>1. \A i \in 1..Len(eventCh') : i + 1 \in 1..Len(eventCh) /\ k + (i + 1) = k + 1 + i
    BY <1>1
  <2> QED
    BY <1>1, <2>1 DEF Numbered
<1>5. current'.n = k + 1
  BY <1>1, <1>2 DEF Numbered
<1>6. k + 1 <= emitted
  BY <1>1, <1>3, QueueElements DEF Numbered, Taken
<1> QED
  BY <1>2, <1>3, <1>4, <1>5, <1>6 DEF Numbered

\* The other steps leave the queue alone, but for the end of an event and the
\* closing of eventCh.
LEMMA NumberedOther ==
  ASSUME NEW k \in Nat, Numbered(k), UNCHANGED <<wire, loopEvent, eventCh, emitted>>,
         closes' = closes \/ closes' # 0, current' = current \/ current' = NoEvent
  PROVE  Numbered(k)'
<1>1. Taken(k)' = Taken(k)
  BY DEF Taken
<1> QED
  BY <1>1 DEF Numbered

\* Every step numbers the queue from k on, or from k + 1 on when the consumer
\* receives.
LEMMA NumberedStep ==
  ASSUME TypeOK, NEW k \in Nat, Numbered(k), [Next]_vars
  PROVE  IF Receive THEN Numbered(k + 1)' ELSE Numbered(k)'
<1>1. ASSUME NEW r \in Requesters, NEW ok \in BOOLEAN, ServerAnswer(r, ok)
      PROVE  Numbered(k)'
  <2>1. [kind |-> "response", to |-> r, ok |-> ok] \in Messages
    BY DEF Messages
  <2> QED
    BY <1>1, <2>1, NumberedAppend DEF ServerAnswer, queueVars, workerVars
<1>2. ASSUME NEW kind \in {"message", "idle", "error"}, NEW last \in BOOLEAN,
             ServerEmit(kind, last)
      PROVE  Numbered(k)'
  <2> DEFINE m == [kind |-> "event", event |->
                    [n |-> emitted + 1, kind |-> kind, turn |-> Head(turns)]]
  <2>1. Head(turns) \in Callers /\ emitted + 1 \in Nat
    BY <1>2, HeadTail DEF ServerEmit, TypeOK, ServerTypes
  <2>2. m \in Messages /\ m.kind = "event" /\ m.event.n = emitted + 1
    BY <2>1 DEF Messages, Events
  <2>3. /\ wire' = Append(wire, m) /\ emitted' = emitted + 1
        /\ UNCHANGED <<loopEvent, eventCh, closes, current>>
    BY <1>2 DEF ServerEmit, queueVars, workerVars
  <2> HIDE DEF m
  <2> QED
    BY <2>2, <2>3, NumberedAppend
<1>3. ASSUME readLoop
      PROVE  Numbered(k)'
  <2>1. CASE ReadResponse
    BY <2>1, NumberedTail DEF ReadResponse, queueVars, workerVars, serverVars
  <2>2. CASE ReadEvent
    BY <2>2, NumberedTail DEF ReadEvent, workerVars, serverVars
  <2>3. CASE dispatchEvent
    BY <2>3, NumberedDispatch
  <2> QED
    BY <1>3, <2>1, <2>2, <2>3 DEF readLoop
<1>4. ASSUME processEvents, ~Receive
      PROVE  Numbered(k)'
  <2>1. UNCHANGED <<wire, loopEvent, eventCh, emitted, closes>>
    BY <1>4 DEF processEvents, CallHandler, HandlerRequestReturns, HandlersDone,
       ConsumerEnd, queueVars, serverVars
  <2>2. current' = current \/ current' = NoEvent
    BY <1>4 DEF processEvents, CallHandler, HandlerRequestReturns, HandlersDone,
       ConsumerEnd
  <2> QED
    BY <2>1, <2>2, NumberedOther
<1>5. ASSUME NEW d \in Disconnectors, DisconnectStep(d)
      PROVE  Numbered(k)'
  <2>1. UNCHANGED <<wire, loopEvent, eventCh, emitted, current>>
    BY <1>5 DEF DisconnectStep, Disconnect, DestroyReturns, CloseEventCh, ClearHandlers,
       queueVars, workerVars, serverVars
  <2>2. closes' = closes \/ closes' # 0
    BY <1>5 DEF DisconnectStep, Disconnect, DestroyReturns, CloseEventCh, ClearHandlers,
       queueVars
  <2> QED
    BY <2>1, <2>2, NumberedOther
<1>6. ASSUME \/ \E a \in Apps : AppOn(a) \/ AppOff(a)
             \/ \E c \in Callers : SendAndWait(c)
             \/ UNCHANGED vars
      PROVE  Numbered(k)'
  <2>1. UNCHANGED <<wire, queueVars, workerVars, serverVars>>
    BY <1>6 DEF AppOn, AppOff, SendAndWait, Subscribe, Send, SendReturns, WaitReturns,
       Leave, vars
  <2> QED
    BY <2>1, NumberedOther DEF queueVars, workerVars, serverVars
<1>7. Receive \/ (\E r \in Requesters, ok \in BOOLEAN : ServerAnswer(r, ok))
      \/ (\E kind \in {"message", "idle", "error"}, last \in BOOLEAN : ServerEmit(kind, last))
      \/ readLoop \/ (processEvents /\ ~Receive)
      \/ (\E d \in Disconnectors : DisconnectStep(d))
      \/ (\E a \in Apps : AppOn(a) \/ AppOff(a))
      \/ (\E c \in Callers : SendAndWait(c)) \/ UNCHANGED vars
  BY DEF Next, Server
<1>8. CASE Receive
  BY <1>8, NumberedReceive
<1>9. CASE ~Receive
  BY <1>1, <1>2, <1>3, <1>4, <1>5, <1>6, <1>7, <1>9
<1> QED
  BY <1>8, <1>9

\* The handlers of a snapshot, one by one.
LEMMA TodoElements ==
  ASSUME TypeOK
  PROVE  /\ todo \in Seq(Subscribers) /\ Len(todo) \in Nat
         /\ \A i \in 1..Len(todo) : todo[i] \in Subscribers
BY ElementOfSeq, LenProperties DEF TypeOK, WorkerTypes

\* The snapshot holds who is registered when the event is received.
LEMMA SnapshotOfAll ==
  ASSUME TypeOK, Receive
  PROVE  \A h \in Subscribers : ToCall(h)' <=> Registered(h)
<1>1. OnTypes /\ todo' = [i \in 1..Len(handlers) |-> handlers[i].fn]
  BY DEF Receive, TypeOK
<1>2. /\ Len(todo') = Len(handlers) /\ \A i \in 1..Len(handlers) : todo'[i] = handlers[i].fn
  BY <1>1, Snapshot
<1> QED
  BY <1>2 DEF ToCall, Registered

\* The consumer receives event k + 1 after event k was delivered to everybody.
LEMMA ServedReceive ==
  ASSUME TypeOK, Registry, NEW k \in Nat, Served(k), Receive, current' # NoEvent
  PROVE  Served(k + 1)'
<1>1. /\ workerPc = "recv" /\ workerPc' = "call" /\ UNCHANGED <<onVars, delivered, pc, appPc>>
      /\ OnTypes /\ todo' = [i \in 1..Len(handlers) |-> handlers[i].fn]
  BY DEF Receive, callVars, TypeOK
<1>2. current = NoEvent /\ \A h \in Subscribers : ~ToCall(h)
  <2>1. current = NoEvent /\ todo = <<>>
    BY <1>1 DEF Served
  <2> QED
    BY <2>1 DEF ToCall
<1>3. /\ Len(todo') = Len(handlers) /\ \A i \in 1..Len(handlers) : todo'[i] = handlers[i].fn
  BY <1>1, Snapshot
<1>4. \A h \in Subscribers : ToCall(h)' <=> Registered(h)
  BY SnapshotOfAll
<1>5. \A i, j \in 1..Len(todo') : todo'[i] = todo'[j] => i = j
  <2> SUFFICES ASSUME NEW i \in 1..Len(todo'), NEW j \in 1..Len(todo'), todo'[i] = todo'[j]
               PROVE  i = j
    OBVIOUS
  <2>1. PICK g \in Subscribers : handlers[i].fn = g
    <3>1. handlers \in Seq(Entry)
      BY <1>1 DEF OnTypes, Entry
    <3>2. handlers[i] \in Entry
      BY <1>3, <3>1, ElementOfSeq
    <3> QED
      BY <3>2 DEF Entry
  <2> QED
    BY <1>3, <2>1 DEF Registry
<1>6. \A h \in Subscribers :
        /\ New(h)' <=> New(h)
        /\ Registered(h)' <=> Registered(h)
        /\ Registered(h) => ~New(h)
  BY <1>1, SubscribedIsOld DEF New, Registered, onVars, Registry
<1>7. ASSUME NEW h \in Subscribers
      PROVE  /\ New(h)' => ~ToCall(h)' /\ delivered'[h] = <<>>
             /\ ToCall(h)' => delivered'[h] = <<>> \/ Last(h)' + 1 = k + 1
             /\ Registered(h)' /\ ~ToCall(h)' => FALSE
  BY <1>1, <1>2, <1>4, <1>6 DEF Served, Last
<1> QED
  BY <1>1, <1>5, <1>7 DEF Served

\* The first of the remaining handlers is called; the others remain.
LEMMA Calling ==
  ASSUME TypeOK, NEW k \in Nat, Served(k), CallHandler
  PROVE  \E h \in Subscribers :
           /\ h = Head(todo) /\ ToCall(h) /\ ~ToCall(h)'
           /\ \A g \in Subscribers \ {h} : ToCall(g)' <=> ToCall(g)
<1>1. PICK h \in Subscribers : h = Head(todo)
  BY HeadTail, TodoElements DEF CallHandler
<1>2. /\ 1 \in 1..Len(todo) /\ h = todo[1] /\ Len(todo) \in Nat /\ todo' = Tail(todo)
      /\ Len(todo') = Len(todo) - 1
      /\ \A i \in 1..Len(todo') : i + 1 \in 2..Len(todo) /\ todo'[i] = todo[i + 1]
  BY <1>1, HeadTail, TodoElements DEF CallHandler
<1>3. ToCall(h)
  BY <1>2 DEF ToCall
<1>4. ~ToCall(h)'
  <2>1. \A i \in 1..Len(todo') : todo'[i] # h
    BY <1>2 DEF Served
  <2> QED
    BY <2>1 DEF ToCall
<1>5. \A g \in Subscribers : ToCall(g)' => ToCall(g)
  BY <1>2 DEF ToCall
<1>6. \A g \in Subscribers \ {h} : ToCall(g) => ToCall(g)'
  <2> SUFFICES ASSUME NEW g \in Subscribers \ {h}, NEW i \in 1..Len(todo), todo[i] = g
               PROVE  ToCall(g)'
    BY DEF ToCall
  <2>1. i - 1 \in 1..Len(todo') /\ (i - 1) + 1 = i
    BY <1>2
  <2> QED
    BY <1>2, <2>1 DEF ToCall
<1> QED
  BY <1>1, <1>3, <1>4, <1>5, <1>6

\* The consumer calls the first of the remaining handlers with event k.
LEMMA ServedCall ==
  ASSUME TypeOK, NEW k \in Nat, Served(k), CallHandler, current # NoEvent => current.n = k
  PROVE  /\ Served(k)'
         /\ \A h \in Subscribers :
              \/ delivered'[h] = delivered[h]
              \/ /\ delivered[h] \in Seq(Nat) /\ delivered'[h] = Append(delivered[h], k)
                 /\ delivered[h] = <<>> \/ Last(h) + 1 = k
<1>1. PICK h \in Subscribers :
        /\ h = Head(todo) /\ ToCall(h) /\ ~ToCall(h)'
        /\ \A g \in Subscribers \ {h} : ToCall(g)' <=> ToCall(g)
  BY Calling
<1>2. /\ Len(todo) \in Nat /\ Len(todo') = Len(todo) - 1
      /\ \A i \in 1..Len(todo') : i + 1 \in 2..Len(todo) /\ todo'[i] = todo[i + 1]
  BY HeadTail, TodoElements DEF CallHandler
<1>3. /\ workerPc = "call" /\ workerPc' \in {"call", "rpc"} /\ current # NoEvent
      /\ delivered' = [delivered EXCEPT ![h] = Append(@, current.n)]
      /\ UNCHANGED <<current, onVars, pc, appPc>>
  BY <1>1 DEF CallHandler, Served
<1>4. current.n = k
  BY <1>3
<1>5. delivered \in [Subscribers -> Seq(Nat)]
  BY DEF TypeOK, WorkerTypes
<1>6. ~New(h) /\ (delivered[h] = <<>> \/ Last(h) + 1 = k)
  BY <1>1 DEF Served
<1>9. \A g \in Subscribers : (New(g)' <=> New(g)) /\ (Registered(g)' <=> Registered(g))
  BY <1>3 DEF New, Registered, onVars
<1>10. \A g \in Subscribers \ {h} : delivered'[g] = delivered[g]
  BY <1>3, <1>5
<1>11. delivered'[h] = Append(delivered[h], k) /\ delivered'[h] # <<>> /\ Last(h)' = k
  BY <1>3, <1>4, <1>5, AppendProperties DEF Last
<1>12. \A i, j \in 1..Len(todo') : todo'[i] = todo'[j] => i = j
  <2> SUFFICES ASSUME NEW i \in 1..Len(todo'), NEW j \in 1..Len(todo'), todo'[i] = todo'[j]
               PROVE  i = j
    OBVIOUS
  <2>1. i + 1 \in 1..Len(todo) /\ j + 1 \in 1..Len(todo) /\ todo[i + 1] = todo[j + 1]
    BY <1>2
  <2>2. i + 1 = j + 1
    BY <2>1 DEF Served
  <2> QED
    BY <2>2
<1>13. \A g \in Subscribers :
         /\ New(g)' => ~ToCall(g)' /\ delivered'[g] = <<>>
         /\ ToCall(g)' => delivered'[g] = <<>> \/ Last(g)' + 1 = k
         /\ Registered(g)' /\ ~ToCall(g)' => delivered'[g] = <<>> \/ Last(g)' = k
  BY <1>1, <1>6, <1>9, <1>10, <1>11, SMTT(60) DEF Served, Last
<1>14. Served(k)'
  BY <1>3, <1>12, <1>13 DEF Served
<1> QED
  BY <1>5, <1>6, <1>10, <1>11, <1>14

\* Between two events, and while a handler waits for its request, nobody is called.
LEMMA ServedIdle ==
  ASSUME NEW k \in Nat, Served(k), HandlerRequestReturns \/ HandlersDone \/ ConsumerEnd
  PROVE  Served(k)' /\ UNCHANGED delivered
<1>1. UNCHANGED <<onVars, delivered, pc, appPc, todo>>
  BY DEF HandlerRequestReturns, HandlersDone, ConsumerEnd, callVars
<1>2. \A h \in Subscribers :
        /\ New(h)' <=> New(h)
        /\ Registered(h)' <=> Registered(h)
        /\ ToCall(h)' <=> ToCall(h)
        /\ Last(h)' = Last(h)
  BY <1>1 DEF New, Registered, ToCall, Last, onVars
<1>3. /\ workerPc' \in {"recv", "ended"} <=> current' = NoEvent
      /\ current' = NoEvent => todo' = <<>>
  BY <1>1 DEF HandlerRequestReturns, HandlersDone, ConsumerEnd, Served
<1> QED
  BY <1>1, <1>2, <1>3 DEF Served

\* Who is registered after a step was registered before it or is new.
LEMMA RegisteredStep ==
  ASSUME TypeOK, Registry, [Next]_vars
  PROVE  \A h \in Subscribers : (New(h)' => New(h))
           /\ (Registered(h)' => Registered(h) \/ (New(h) /\ ~New(h)'))
<1>1. ASSUME NEW g \in Subscribers, On(g), New(g), ~New(g)',
             \A f \in Subscribers \ {g} : New(f)' <=> New(f)
      PROVE  \A h \in Subscribers : (New(h)' => New(h))
               /\ (Registered(h)' => Registered(h) \/ (New(h) /\ ~New(h)'))
  BY <1>1, OnRegisters DEF TypeOK
<1>2. ASSUME NEW g \in Subscribers, Unsubscribe(g), ~New(g), ~New(g)',
             \A f \in Subscribers \ {g} : New(f)' <=> New(f)
      PROVE  \A h \in Subscribers : (New(h)' => New(h))
               /\ (Registered(h)' => Registered(h) \/ (New(h) /\ ~New(h)'))
  BY <1>2, UnsubscribeRemoves
<1>3. ASSUME handlers' = <<>>
      PROVE  \A h \in Subscribers : ~Registered(h)'
  BY <1>3 DEF Registered
<1>4. ASSUME UNCHANGED onVars
      PROVE  \A h \in Subscribers : Registered(h)' <=> Registered(h)
  BY <1>4 DEF Registered, onVars
<1> QED
  BY <1>1, <1>2, <1>3, <1>4, RegistrySteps

\* Registering and unregistering change nobody's deliveries.
LEMMA ServedOther ==
  ASSUME TypeOK, Registry, NEW k \in Nat, Served(k), [Next]_vars, ~processEvents
  PROVE  Served(k)' /\ UNCHANGED delivered
<1>1. UNCHANGED workerVars
  BY DEF Next, AppOn, AppOff, SendAndWait, Subscribe, Send, SendReturns, WaitReturns,
     Leave, readLoop, ReadResponse, ReadEvent, dispatchEvent, Server, ServerAnswer,
     ServerEmit, DisconnectStep, Disconnect, DestroyReturns, CloseEventCh, ClearHandlers, vars
<1>2. UNCHANGED <<workerPc, current, todo, delivered>>
      /\ \A h \in Subscribers : (ToCall(h)' <=> ToCall(h)) /\ Last(h)' = Last(h)
  BY <1>1 DEF workerVars, ToCall, Last
<1>3. \A h \in Subscribers : (New(h)' => New(h))
        /\ (Registered(h)' => Registered(h) \/ New(h))
  BY RegisteredStep
<1> QED
  BY <1>2, <1>3 DEF Served

\* Every step serves the queue from k on, or from k + 1 on when the consumer
\* receives.
LEMMA QueueStep ==
  ASSUME TypeOK, Registry, [Next]_vars, NEW k \in 0..emitted, Numbered(k), Served(k)
  PROVE  IF Receive
         THEN /\ k + 1 \in 0..emitted' /\ Numbered(k + 1)' /\ Served(k + 1)'
              /\ current' # NoEvent
         ELSE k \in 0..emitted' /\ Numbered(k)' /\ Served(k)'
<1>1. k \in Nat /\ emitted \in Nat /\ emitted' \in Nat /\ emitted <= emitted'
  <2>1. emitted' = emitted \/ emitted' = emitted + 1
    BY DEF Next, AppOn, AppOff, SendAndWait, Subscribe, Send, SendReturns, WaitReturns,
       Leave, readLoop, ReadResponse, ReadEvent, dispatchEvent, Server, ServerAnswer,
       ServerEmit, DisconnectStep, Disconnect, DestroyReturns, CloseEventCh,
       ClearHandlers, processEvents, Receive, CallHandler, HandlerRequestReturns,
       HandlersDone, ConsumerEnd, serverVars, vars
  <2> QED
    BY <2>1, QueueElements
<1>2. CASE Receive
  <2>1. Numbered(k + 1)' /\ current'.n = k + 1 /\ k + 1 <= emitted
    BY <1>1, <1>2, NumberedReceive
  <2>2. current' # NoEvent
    <3>1. current' \in Events
      BY <1>2, HeadTail, QueueElements DEF Receive
    <3> QED
      BY <3>1, NoEventIsNone
  <2>3. Served(k + 1)'
    BY <1>1, <1>2, <2>2, ServedReceive
  <2>4. k + 1 \in 0..emitted'
    BY <1>1, <2>1
  <2> QED
    BY <1>2, <2>1, <2>2, <2>3, <2>4
<1>3. CASE ~Receive
  <2>1. Numbered(k)' /\ k \in 0..emitted'
    BY <1>1, <1>3, NumberedStep
  <2>2. Served(k)'
    <3>1. CASE CallHandler
      <4>1. current # NoEvent => current.n = k
        BY DEF Numbered
      <4> QED
        BY <1>1, <3>1, <4>1, ServedCall
    <3>2. CASE ~CallHandler
      BY <1>1, <1>3, <3>2, ServedIdle, ServedOther DEF processEvents
    <3> QED
      BY <3>1, <3>2
  <2> QED
    BY <1>3, <2>1, <2>2
<1> QED
  BY <1>2, <1>3

\* At the start nobody is registered and nothing is queued.
LEMMA InitQueue ==
  ASSUME Init
  PROVE  Registry /\ InOrder
<1>1. \A h \in Subscribers : New(h) /\ ~Subscribed(h)
  BY DEF Init, New, Subscribed
<1>2. /\ Len(handlers) = 0 /\ Len(wire) = 0 /\ Len(eventCh) = 0 /\ todo = <<>> /\ Len(todo) = 0
      /\ loopEvent = NoEvent /\ current = NoEvent /\ emitted = 0 /\ workerPc = "recv"
  BY DEF Init
<1>3. \A h \in Subscribers : delivered[h] = <<>>
  BY DEF Init
<1>4. Numbered(0)
  BY <1>2 DEF Numbered, Taken
<1>5. Served(0)
  BY <1>1, <1>2, <1>3 DEF Served, ToCall
<1> QED
  BY <1>1, <1>2, <1>4, <1>5 DEF Registry, InOrder

\* A handler is called with consecutive events, each once and in order, for any
\* number of handlers, events and Disconnects and every capacity of eventCh.
THEOREM EventsInOrder == Spec => []DeliveredInOrder
<1>1. Init => Registry /\ InOrder /\ DeliveredInOrder
  <2> SUFFICES ASSUME Init PROVE DeliveredInOrder
    BY InitQueue
  <2>1. \A h \in Subscribers : Len(delivered[h]) = 0
    BY DEF Init
  <2> QED
    BY <2>1 DEF DeliveredInOrder
<1>2. TypeOK /\ Registry /\ InOrder /\ DeliveredInOrder /\ [Next]_vars
        => InOrder' /\ DeliveredInOrder'
  <2> SUFFICES ASSUME TypeOK, Registry, InOrder, DeliveredInOrder, [Next]_vars
               PROVE  InOrder' /\ DeliveredInOrder'
    OBVIOUS
  <2>1. PICK k \in 0..emitted : Numbered(k) /\ Served(k)
    BY DEF InOrder
  <2>2. InOrder'
    BY <2>1, QueueStep DEF InOrder
  <2>3. CASE CallHandler
    <3>1. current # NoEvent => current.n = k
      BY <2>1 DEF Numbered
    <3>2. k \in Nat
      BY QueueElements
    <3>3. \A h \in Subscribers :
            \/ delivered'[h] = delivered[h]
            \/ /\ delivered[h] \in Seq(Nat) /\ delivered'[h] = Append(delivered[h], k)
               /\ delivered[h] = <<>> \/ Last(h) + 1 = k
      BY <2>1, <2>3, <3>1, <3>2, ServedCall
    <3>4. ASSUME NEW h \in Subscribers, NEW i \in 1..(Len(delivered'[h]) - 1)
          PROVE  delivered'[h][i + 1] = delivered'[h][i] + 1
      <4>1. CASE delivered'[h] = delivered[h]
        BY <3>4, <4>1 DEF DeliveredInOrder
      <4>2. CASE /\ delivered[h] \in Seq(Nat) /\ delivered'[h] = Append(delivered[h], k)
                 /\ delivered[h] = <<>> \/ Last(h) + 1 = k
        <5> DEFINE s == delivered[h]
                   n == Len(s)
        <5>1. /\ n \in Nat /\ Len(delivered'[h]) = n + 1 /\ delivered'[h][n + 1] = k
              /\ \A j \in 1..n : delivered'[h][j] = s[j]
          BY <3>2, <4>2, AppendProperties, LenProperties
        <5>2. i \in 1..n /\ (i = n \/ (i + 1 \in 1..n /\ i \in 1..(n - 1)))
          BY <3>4, <5>1
        <5>3. CASE i = n
          <6>1. s # <<>> /\ s[n] + 1 = k
            BY <4>2, <5>2, <5>3 DEF Last
          <6> QED
            BY <5>1, <5>2, <5>3, <6>1
        <5>4. CASE i + 1 \in 1..n /\ i \in 1..(n - 1)
          BY <5>1, <5>2, <5>4 DEF DeliveredInOrder
        <5> QED
          BY <5>2, <5>3, <5>4
      <4> QED
        BY <3>3, <4>1, <4>2
    <3> QED
      BY <2>2, <3>4 DEF DeliveredInOrder
  <2>4. CASE ~CallHandler
    <3>1. UNCHANGED delivered
      <4>1. CASE processEvents
        BY <2>4, <4>1 DEF processEvents, Receive, HandlerRequestReturns, HandlersDone,
           ConsumerEnd
      <4>2. CASE ~processEvents
        <5>1. k \in Nat
          BY QueueElements
        <5> QED
          BY <2>1, <4>2, <5>1, ServedOther
      <4> QED
        BY <4>1, <4>2
    <3> QED
      BY <2>2, <3>1 DEF DeliveredInOrder
  <2> QED
    BY <2>3, <2>4
<1> QED
  BY <1>1, <1>2, SessionTyped, RegistryStep, PTL DEF Spec


----------------------------------------------------------------------------
(* Calls made one after the other *)

\* The events that have not reached the consumer, and those with the one in hand.
Pending ==
  {wire[i].event : i \in {j \in 1..Len(wire) : wire[j].kind = "event"}}
    \cup {eventCh[i] : i \in 1..Len(eventCh)} \cup ({loopEvent} \ {NoEvent})

InFlight == Pending \cup ({current} \ {NoEvent})

InTurns(c) == \E i \in 1..Len(turns) : turns[i] = c

\* No message of c was accepted: it has no turn and no event.
Unaccepted(c) ==
  /\ ~InTurns(c) /\ c \notin finished /\ said[c] = 0
  /\ \A e \in InFlight : e.turn # c

Answers(c) == {i \in 1..Len(wire) : wire[i].kind = "response" /\ wire[i].to = c}

\* A caller asks once and is answered once; it has a turn only if it was accepted.
Asked(c) ==
  /\ pc[c] \in {"idle", "send"} =>
       /\ c \notin requests /\ Answers(c) = {} /\ reply[c] = "none"
       /\ Unaccepted(c) /\ outcome[c] = "none"
  /\ c \in requests => Answers(c) = {} /\ reply[c] = "none" /\ Unaccepted(c)
  /\ Answers(c) # {} => reply[c] = "none"
  /\ \A i, j \in Answers(c) : i = j
  /\ \A i \in Answers(c) : ~wire[i].ok => Unaccepted(c)
  /\ reply[c] = "error" => Unaccepted(c)
  /\ outcome[c] = "sendError" => reply[c] = "error"

AskedOnce == \A c \in Callers : Asked(c)

\* What the server says in a turn: messages up to the last one, and nothing
\* after the idle event that ends it.
OneTurnEach ==
  /\ \A i, j \in 1..Len(turns) : turns[i] = turns[j] => i = j
  /\ \A i \in 1..Len(turns) : turns[i] \notin finished
  /\ \A c \in Callers : said[c] <= emitted
  /\ \A e \in InFlight :
       /\ e.kind = "message" => e.n <= said[e.turn]
       /\ e.n = said[e.turn] => e.kind = "message"
       /\ e.kind = "idle" =>
            /\ e.turn \in finished /\ said[e.turn] < e.n
            /\ \A f \in InFlight : f.turn = e.turn => f.n <= e.n

\* While a call is alone every other one is out of its way.
OneAtATime ==
  \A b, c \in Callers :
    b # c /\ alone[c] /\ ~OutOfTheWay(c) => OutOfTheWay(b)

\* A call that is alone is called with events of its own turn only; once it has
\* the idle event it has the last message, and nothing of its turn is left.
OwnTurn(c) ==
  /\ pc[c] = "idle" => ~idleCh[c] /\ lastMessage[c].n = 0
  /\ alone[c] =>
       /\ ToCall(c) => current.turn = c
       /\ idleCh[c] =>
            /\ c \in finished /\ lastMessage[c].n = said[c] /\ ~ToCall(c)
            /\ \A e \in Pending : e.turn # c
       /\ outcome[c] = "idle" =>
            /\ c \in finished /\ answer[c].n = said[c]
            /\ \A e \in Pending : e.turn # c

OwnTurnOnly == \A c \in Callers : OwnTurn(c)

\* What a call has heard: the last message, unless its event is still to come.
HeardUpTo(c, k) ==
  /\ alone[c]
  /\ IF ToCall(c) THEN said[c] < k ELSE Registered(c) /\ said[c] <= k
  => lastMessage[c].n = said[c]

Heard(k) == \A c \in Callers : HeardUpTo(c, k)

HeardInOrder == \E k \in 0..emitted : Numbered(k) /\ Served(k) /\ Heard(k)


\* Events on their way are events, of a caller's turn.
LEMMA FlightElements ==
  ASSUME TypeOK
  PROVE  /\ Pending \subseteq Events /\ InFlight \subseteq Events
         /\ \A e \in Events : e # NoEvent /\ e.n \in Nat /\ e.turn \in Callers
<1>1. \A e \in Events : e # NoEvent /\ e.n \in Nat /\ e.turn \in Callers
  BY NoEventIsNone DEF Events
<1>2. loopEvent \in Events \cup {NoEvent} /\ current \in Events \cup {NoEvent}
  BY DEF TypeOK, QueueTypes, WorkerTypes
<1>3. Pending \subseteq Events
  BY <1>2, QueueElements DEF Pending
<1> QED
  BY <1>1, <1>2, <1>3 DEF InFlight

\* Nothing enters the queue by itself: an event on its way was on its way before.
LEMMA Flow ==
  ASSUME TypeOK, readLoop
  PROVE  Pending' \subseteq Pending
<1>1. CASE ReadResponse \/ ReadEvent
  <2>1. /\ UNCHANGED eventCh
        /\ \A i \in 1..Len(wire') : i + 1 \in 1..Len(wire) /\ wire'[i] = wire[i + 1]
        /\ 1 \in 1..Len(wire) /\ Head(wire) = wire[1]
    <3>1. wire \in Seq(Messages) /\ wire # <<>> /\ wire' = Tail(wire) /\ UNCHANGED eventCh
      BY <1>1, QueueElements DEF ReadResponse, ReadEvent, queueVars
    <3> QED
      BY <3>1, HeadTail
  <2>2. loopEvent' = loopEvent \/ (wire[1].kind = "event" /\ loopEvent' = wire[1].event)
    BY <1>1, <2>1 DEF ReadResponse, ReadEvent, queueVars
  <2> QED
    BY <2>1, <2>2, SMTT(60) DEF Pending
<1>2. CASE dispatchEvent
  <2>1. UNCHANGED wire /\ loopEvent' = NoEvent /\ loopEvent # NoEvent
    BY <1>2 DEF dispatchEvent
  <2>2. \A i \in 1..Len(eventCh') : \/ i \in 1..Len(eventCh) /\ eventCh'[i] = eventCh[i]
                                    \/ eventCh'[i] = loopEvent
    <3>1. CASE UNCHANGED eventCh
      BY <3>1
    <3>2. CASE eventCh' = Append(eventCh, loopEvent)
      <4>1. /\ Len(eventCh') = Len(eventCh) + 1 /\ eventCh'[Len(eventCh) + 1] = loopEvent
            /\ \A i \in 1..Len(eventCh) : eventCh'[i] = eventCh[i]
        BY <3>2, QueueElements, AppendProperties
      <4>2. \A i \in 1..Len(eventCh') : i \in 1..Len(eventCh) \/ i = Len(eventCh) + 1
        BY <4>1, QueueElements
      <4> QED
        BY <4>1, <4>2
    <3> QED
      BY <1>2, <3>1, <3>2 DEF dispatchEvent
  <2> QED
    BY <2>1, <2>2 DEF Pending
<1> QED
  BY <1>1, <1>2 DEF readLoop

\* The consumer takes one of them in hand.
LEMMA Taking ==
  ASSUME TypeOK, Receive
  PROVE  Pending' \subseteq Pending /\ current' \in Pending
<1>1. /\ UNCHANGED <<wire, loopEvent>> /\ 1 \in 1..Len(eventCh) /\ current' = eventCh[1]
      /\ \A i \in 1..Len(eventCh') : i + 1 \in 1..Len(eventCh) /\ eventCh'[i] = eventCh[i + 1]
  BY HeadTail, QueueElements DEF Receive
<1> QED
  BY <1>1 DEF Pending

\* What an answer of the server puts on the wire is no event.
LEMMA Answering ==
  ASSUME TypeOK, NEW m \in Messages, wire' = Append(wire, m), UNCHANGED <<eventCh, loopEvent>>
  PROVE  /\ m.kind = "response" => Pending' = Pending
         /\ m.kind = "event" => Pending' = Pending \cup {m.event}
<1>1. /\ Len(wire') = Len(wire) + 1 /\ wire'[Len(wire) + 1] = m /\ Len(wire) \in Nat
      /\ \A i \in 1..Len(wire) : i \in 1..Len(wire') /\ wire'[i] = wire[i]
      /\ \A i \in 1..Len(wire') : i \in 1..Len(wire) \/ i = Len(wire) + 1
  BY QueueElements, AppendProperties
<1>2. Len(wire) + 1 \in 1..Len(wire')
  BY <1>1
<1>3. m.kind = "response" => m.kind # "event"
  OBVIOUS
<1> QED
  BY <1>1, <1>2, <1>3 DEF Pending

\* The steps but an emission neither add to what is on its way nor to what was said.
LEMMA Quiet ==
  ASSUME TypeOK, [Next]_vars,
         \A kind \in {"message", "idle", "error"}, last \in BOOLEAN : ~ServerEmit(kind, last)
  PROVE  /\ Pending' \subseteq Pending /\ InFlight' \subseteq InFlight
         /\ UNCHANGED <<finished, emitted, said>>
         /\ \/ UNCHANGED turns
            \/ \E c \in Callers : ServerAnswer(c, TRUE) /\ turns' = Append(turns, c)
<1>1. CASE readLoop
  <2>1. UNCHANGED <<current, serverVars>>
    BY <1>1 DEF readLoop, ReadResponse, ReadEvent, dispatchEvent, workerVars
  <2> QED
    BY <1>1, <2>1, Flow DEF InFlight, serverVars
<1>2. CASE Receive
  <2>1. UNCHANGED serverVars
    BY <1>2 DEF Receive
  <2> QED
    BY <1>2, <2>1, Taking DEF InFlight, serverVars
<1>3. ASSUME NEW r \in Requesters, NEW ok \in BOOLEAN, ServerAnswer(r, ok)
      PROVE  /\ Pending' \subseteq Pending /\ InFlight' \subseteq InFlight
             /\ UNCHANGED <<finished, emitted, said>>
             /\ \/ UNCHANGED turns
                \/ \E c \in Callers : ServerAnswer(c, TRUE) /\ turns' = Append(turns, c)
  <2>1. [kind |-> "response", to |-> r, ok |-> ok] \in Messages
    BY DEF Messages
  <2>2. Pending' = Pending
    BY <1>3, <2>1, Answering DEF ServerAnswer, queueVars
  <2>3. UNCHANGED <<current, finished, emitted, said>>
    BY <1>3 DEF ServerAnswer, workerVars
  <2>4. CASE r \in Callers /\ ok
    <3>1. ServerAnswer(r, TRUE) /\ turns' = Append(turns, r)
      BY <1>3, <2>4 DEF ServerAnswer
    <3> QED
      BY <2>2, <2>3, <2>4, <3>1 DEF InFlight
  <2>5. CASE ~(r \in Callers /\ ok)
    BY <1>3, <2>2, <2>3, <2>5 DEF ServerAnswer, InFlight
  <2> QED
    BY <2>4, <2>5
<1>4. ASSUME \/ CallHandler \/ HandlerRequestReturns \/ HandlersDone \/ ConsumerEnd
             \/ \E d \in Disconnectors : DisconnectStep(d)
             \/ \E a \in Apps : AppOn(a) \/ AppOff(a)
             \/ \E c \in Callers : SendAndWait(c)
             \/ UNCHANGED vars
      PROVE  /\ Pending' \subseteq Pending /\ InFlight' \subseteq InFlight
             /\ UNCHANGED <<finished, emitted, said, turns>>
  <2>1. UNCHANGED <<wire, loopEvent, eventCh, serverVars>>
    BY <1>4 DEF CallHandler, HandlerRequestReturns, HandlersDone, ConsumerEnd, DisconnectStep,
       Disconnect, DestroyReturns, CloseEventCh, ClearHandlers, AppOn, AppOff, SendAndWait,
       Subscribe, Send, SendReturns, WaitReturns, Leave, queueVars, vars
  <2>2. current' = current \/ current' = NoEvent
    BY <1>4 DEF CallHandler, HandlerRequestReturns, HandlersDone, ConsumerEnd, DisconnectStep,
       Disconnect, DestroyReturns, CloseEventCh, ClearHandlers, AppOn, AppOff, SendAndWait,
       Subscribe, Send, SendReturns, WaitReturns, Leave, workerVars, vars
  <2>3. Pending' = Pending
    BY <2>1 DEF Pending
  <2> QED
    BY <2>1, <2>2, <2>3 DEF InFlight, serverVars
<1> QED
  BY <1>1, <1>2, <1>3, <1>4 DEF Next, processEvents, Server

\* An emission adds one event of the oldest turn, behind all the others.
LEMMA Emission ==
  ASSUME TypeOK, NEW kind \in {"message", "idle", "error"}, NEW last \in BOOLEAN,
         ServerEmit(kind, last)
  PROVE  \E c \in Callers : \E e \in Events :
           /\ turns # <<>> /\ c = turns[1] /\ InTurns(c)
           /\ e.n = emitted + 1 /\ e.kind = kind /\ e.turn = c
           /\ emitted' = emitted + 1 /\ (kind = "idle" => last)
           /\ Pending' = Pending \cup {e} /\ InFlight' = InFlight \cup {e}
           /\ IF kind = "message" THEN said' = [said EXCEPT ![c] = emitted + 1]
                                  ELSE UNCHANGED said
           /\ \/ last /\ finished' = finished \cup {c} /\ turns' = Tail(turns)
              \/ ~last /\ UNCHANGED <<finished, turns>>
           /\ UNCHANGED current
<1> DEFINE e == [n |-> emitted + 1, kind |-> kind, turn |-> Head(turns)]
<1>1. turns # <<>> /\ Head(turns) = turns[1] /\ Head(turns) \in Callers /\ 1 \in 1..Len(turns)
  BY HeadTail DEF ServerEmit, TypeOK, ServerTypes
<1>2. e \in Events /\ e.n = emitted + 1 /\ e.kind = kind /\ e.turn = Head(turns)
  BY <1>1, QueueElements DEF Events
<1>3. [kind |-> "event", event |-> e] \in Messages /\ wire' = Append(wire, [kind |-> "event", event |-> e])
  BY <1>2 DEF ServerEmit, Messages
<1>4. UNCHANGED <<eventCh, loopEvent, current>>
  BY DEF ServerEmit, queueVars, workerVars
<1> HIDE DEF e
<1>5. Pending' = Pending \cup {e}
  BY <1>3, <1>4, Answering
<1>6. InFlight' = InFlight \cup {e}
  BY <1>4, <1>5 DEF InFlight
<1>7. InTurns(Head(turns))
  BY <1>1 DEF InTurns
<1>8. /\ emitted' = emitted + 1 /\ (kind = "idle" => last)
      /\ IF kind = "message" THEN said' = [said EXCEPT ![Head(turns)] = emitted + 1]
                             ELSE UNCHANGED said
      /\ \/ last /\ finished' = finished \cup {Head(turns)} /\ turns' = Tail(turns)
         \/ ~last /\ UNCHANGED <<finished, turns>>
  BY DEF ServerEmit
<1> QED
  BY <1>1, <1>2, <1>4, <1>5, <1>6, <1>7, <1>8


\* The turns, one by one.
LEMMA TurnsAppend ==
  ASSUME TypeOK, NEW c \in Callers, turns' = Append(turns, c)
  PROVE  /\ Len(turns) \in Nat /\ Len(turns') = Len(turns) + 1 /\ turns'[Len(turns) + 1] = c
         /\ \A i \in 1..Len(turns) : turns[i] \in Callers /\ turns'[i] = turns[i]
         /\ \A i \in 1..Len(turns') : i \in 1..Len(turns) \/ i = Len(turns) + 1
<1>1. turns \in Seq(Callers) /\ Len(turns) \in Nat /\ \A i \in 1..Len(turns) : turns[i] \in Callers
  BY ElementOfSeq, LenProperties DEF TypeOK, ServerTypes
<1> QED
  BY <1>1, AppendProperties

LEMMA TurnsTail ==
  ASSUME TypeOK, turns # <<>>, turns' = Tail(turns)
  PROVE  /\ Len(turns) \in Nat /\ Len(turns') = Len(turns) - 1 /\ 1 \in 1..Len(turns)
         /\ \A i \in 1..Len(turns') : i + 1 \in 2..Len(turns) /\ turns'[i] = turns[i + 1]
<1>1. turns \in Seq(Callers) /\ Len(turns) \in Nat
  BY LenProperties DEF TypeOK, ServerTypes
<1> QED
  BY <1>1, HeadTail

LEMMA InTurnsAppend ==
  ASSUME TypeOK, NEW b \in Callers, turns' = Append(turns, b), NEW c \in Callers
  PROVE  InTurns(c)' => InTurns(c) \/ c = b
<1> SUFFICES ASSUME NEW i \in 1..Len(turns'), turns'[i] = c
             PROVE  InTurns(c) \/ c = b
  BY DEF InTurns
<1> QED
  BY TurnsAppend DEF InTurns

LEMMA InTurnsTail ==
  ASSUME TypeOK, turns # <<>>, turns' = Tail(turns), NEW c \in Callers
  PROVE  InTurns(c)' => InTurns(c)
<1> SUFFICES ASSUME NEW i \in 1..Len(turns'), turns'[i] = c
             PROVE  InTurns(c)
  BY DEF InTurns
<1>1. i + 1 \in 1..Len(turns) /\ turns[i + 1] = c
  BY TurnsTail
<1> QED
  BY <1>1 DEF InTurns

\* A message that was not accepted leaves no trace until it is accepted.
LEMMA UnacceptedStep ==
  ASSUME TypeOK, [Next]_vars, NEW c \in Callers, Unaccepted(c), ~ServerAnswer(c, TRUE)
  PROVE  Unaccepted(c)'
<1>1. ASSUME NEW kind \in {"message", "idle", "error"}, NEW last \in BOOLEAN,
             ServerEmit(kind, last)
      PROVE  Unaccepted(c)'
  <2>1. PICK b \in Callers : \E e \in Events :
           /\ turns # <<>> /\ b = turns[1] /\ InTurns(b)
           /\ e.n = emitted + 1 /\ e.kind = kind /\ e.turn = b
           /\ emitted' = emitted + 1 /\ (kind = "idle" => last)
           /\ Pending' = Pending \cup {e} /\ InFlight' = InFlight \cup {e}
           /\ IF kind = "message" THEN said' = [said EXCEPT ![b] = emitted + 1]
                                  ELSE UNCHANGED said
           /\ \/ last /\ finished' = finished \cup {b} /\ turns' = Tail(turns)
              \/ ~last /\ UNCHANGED <<finished, turns>>
           /\ UNCHANGED current
    BY <1>1, Emission
  <2>2. b # c
    BY <2>1 DEF Unaccepted
  <2>3. said'[c] = 0
    BY <2>1, <2>2 DEF Unaccepted, TypeOK, ServerTypes
  <2>4. ~InTurns(c)'
    <3>1. CASE turns' = Tail(turns)
      BY <2>1, <3>1, InTurnsTail DEF Unaccepted
    <3>2. CASE UNCHANGED turns
      BY <3>2 DEF Unaccepted, InTurns
    <3> QED
      BY <2>1, <3>1, <3>2
  <2> QED
    BY <2>1, <2>2, <2>3, <2>4 DEF Unaccepted
<1>2. ASSUME \A kind \in {"message", "idle", "error"}, last \in BOOLEAN : ~ServerEmit(kind, last)
      PROVE  Unaccepted(c)'
  <2>1. /\ InFlight' \subseteq InFlight /\ UNCHANGED <<finished, said>>
        /\ \/ UNCHANGED turns
           \/ \E b \in Callers : ServerAnswer(b, TRUE) /\ turns' = Append(turns, b)
    BY <1>2, Quiet
  <2>2. ~InTurns(c)'
    <3>1. CASE UNCHANGED turns
      BY <3>1 DEF Unaccepted, InTurns
    <3>2. ASSUME NEW b \in Callers, ServerAnswer(b, TRUE), turns' = Append(turns, b)
          PROVE  ~InTurns(c)'
      BY <3>2, InTurnsAppend DEF Unaccepted
    <3> QED
      BY <2>1, <3>1, <3>2
  <2> QED
    BY <2>1, <2>2 DEF Unaccepted
<1> QED
  BY <1>1, <1>2

\* The answers to c that are on the wire.
LEMMA AnswersTail ==
  ASSUME TypeOK, wire # <<>>, wire' = Tail(wire), NEW c \in Callers
  PROVE  \A i \in Answers(c)' : i + 1 \in Answers(c) /\ i + 1 # 1 /\ i \in Nat /\ wire'[i] = wire[i + 1]
<1>1. \A i \in 1..Len(wire') : i \in Nat /\ i + 1 \in 2..Len(wire) /\ wire'[i] = wire[i + 1]
  BY HeadTail, QueueElements
<1> QED
  BY <1>1 DEF Answers

LEMMA AnswersAppend ==
  ASSUME TypeOK, NEW m \in Messages, wire' = Append(wire, m), NEW c \in Callers
  PROVE  \A i \in Answers(c)' : \/ i \in Answers(c) /\ wire'[i] = wire[i]
                                \/ /\ i = Len(wire) + 1 /\ wire'[i] = m
                                   /\ m.kind = "response" /\ m.to = c
<1>1. /\ Len(wire') = Len(wire) + 1 /\ wire'[Len(wire) + 1] = m /\ Len(wire) \in Nat
      /\ \A i \in 1..Len(wire) : wire'[i] = wire[i]
      /\ \A i \in 1..Len(wire') : i \in 1..Len(wire) \/ i = Len(wire) + 1
  BY QueueElements, AppendProperties
<1> QED
  BY <1>1 DEF Answers


\* What leaves a caller's own request, its answers and its outcome alone.
LEMMA AskedKept ==
  ASSUME NEW c \in Callers, Asked(c), NEW d \in {0, 1},
         \A i \in Answers(c)' : i \in Nat /\ i + d \in Answers(c) /\ wire'[i] = wire[i + d],
         c \in requests' => c \in requests,
         pc'[c] = pc[c] \/ ~(pc'[c] \in {"idle", "send"}) \/ (pc[c] = "idle" /\ pc'[c] = "send"),
         outcome'[c] = outcome[c] \/ (pc'[c] # "send" /\ outcome'[c] # "none"
                                       /\ (outcome'[c] = "sendError" => reply[c] = "error")),
         outcome'[c] # outcome[c] => ~(pc'[c] \in {"idle", "send"}),
         reply'[c] = reply[c], Unaccepted(c) => Unaccepted(c)'
  PROVE  Asked(c)'
<1>1. Answers(c)' # {} => Answers(c) # {}
  OBVIOUS
<1>2. \A i, j \in Answers(c)' : i = j
  <2> SUFFICES ASSUME NEW i \in Answers(c)', NEW j \in Answers(c)' PROVE i = j
    OBVIOUS
  <2>1. i + d = j + d /\ i \in Nat /\ j \in Nat
    BY DEF Asked
  <2> QED
    BY <2>1
<1>3. \A i \in Answers(c)' : ~wire'[i].ok => Unaccepted(c)'
  BY DEF Asked
<1>4. pc'[c] \in {"idle", "send"} =>
        /\ c \notin requests' /\ Answers(c)' = {} /\ reply'[c] = "none"
        /\ Unaccepted(c)' /\ outcome'[c] = "none"
  BY <1>1 DEF Asked
<1>5. c \in requests' => Answers(c)' = {} /\ reply'[c] = "none" /\ Unaccepted(c)'
  BY <1>1 DEF Asked
<1> QED
  BY <1>1, <1>2, <1>3, <1>4, <1>5 DEF Asked

\* A step of the server answers one request, in one way.
LEMMA OneAnswer ==
  ASSUME TypeOK, NEW r \in Requesters, NEW ok \in BOOLEAN, ServerAnswer(r, ok),
         NEW q \in Requesters, ServerAnswer(q, TRUE)
  PROVE  q = r /\ ok # FALSE
<1> DEFINE m == [kind |-> "response", to |-> r, ok |-> ok]
           o == [kind |-> "response", to |-> q, ok |-> TRUE]
<1>1. m \in Messages /\ o \in Messages /\ m.to = r /\ o.to = q /\ m.ok = ok /\ o.ok = TRUE
  BY DEF Messages
<1>2. wire' = Append(wire, m) /\ wire' = Append(wire, o)
  BY DEF ServerAnswer
<1> HIDE DEF m, o
<1>3. \A x \in Messages : wire' = Append(wire, x) => wire'[Len(wire) + 1] = x
  BY QueueElements, AppendProperties
<1>4. m = o
  BY <1>1, <1>2, <1>3
<1> QED
  BY <1>1, <1>4

LEMMA Refusal ==
  ASSUME TypeOK, NEW r \in Requesters, NEW ok \in BOOLEAN, ServerAnswer(r, ok), ok = FALSE
  PROVE  \A q \in Requesters : ~ServerAnswer(q, TRUE)
BY OneAnswer

\* Every step keeps what is known of a caller's request.
LEMMA AskedStep ==
  ASSUME TypeOK, [Next]_vars, NEW c \in Callers, Asked(c)
  PROVE  Asked(c)'
<1>0. /\ c \in Requesters /\ c # Worker /\ c \notin Disconnectors
      /\ reply \in [Requesters -> {"none", "ok", "error"}]
      /\ pc \in [Callers -> CallerStates] /\ outcome \in [Callers -> {"none", "idle", "error", "timeout", "sendError"}]
      /\ \A i \in Answers(c) : i \in Nat /\ i + 0 = i
  BY DEF TypeOK, RequestTypes, CallTypes, Answers
<1>1. ASSUME NEW r \in Requesters, NEW ok \in BOOLEAN, ServerAnswer(r, ok)
      PROVE  Asked(c)'
  <2> DEFINE m == [kind |-> "response", to |-> r, ok |-> ok]
  <2>1. m \in Messages /\ m.to = r /\ m.ok = ok /\ wire' = Append(wire, m) /\ requests' = requests \ {r}
    BY <1>1 DEF ServerAnswer, Messages
  <2>2. UNCHANGED <<pc, outcome, reply>> /\ r \in requests
    BY <1>1 DEF ServerAnswer, callVars
  <2> HIDE DEF m
  <2>3. \A i \in Answers(c)' : \/ i \in Answers(c) /\ wire'[i] = wire[i]
                               \/ /\ i = Len(wire) + 1 /\ wire'[i] = m
                                  /\ m.kind = "response" /\ m.to = c
    BY <2>1, AnswersAppend, Zenon
  <2>4. CASE r = c
    <3>1. Answers(c) = {} /\ Unaccepted(c) /\ reply[c] = "none" /\ ~(pc[c] \in {"idle", "send"})
          /\ outcome[c] # "sendError"
      BY <2>2, <2>4 DEF Asked
    <3>2. ~ok => Unaccepted(c)'
      <4>1. ASSUME ok = FALSE, ServerAnswer(c, TRUE) PROVE FALSE
        <5>1. \A q \in Requesters : ~ServerAnswer(q, TRUE)
          BY <1>1, <4>1, Refusal
        <5> QED
          BY <1>0, <4>1, <5>1
      <4>2. ~ServerAnswer(c, TRUE) => Unaccepted(c)'
        BY <3>1, UnacceptedStep
      <4> QED
        BY <4>1, <4>2, Zenon
    <3>3. \A i \in Answers(c)' : i = Len(wire) + 1 /\ wire'[i].ok = ok
      BY <2>1, <2>3, <3>1
    <3>4. \A i, j \in Answers(c)' : i = j
      BY <3>3
    <3>5. \A i \in Answers(c)' : ~wire'[i].ok => Unaccepted(c)'
      BY <3>2, <3>3
    <3> QED
      BY <2>1, <2>2, <2>4, <3>1, <3>4, <3>5 DEF Asked
  <2>5. CASE r # c
    <3>1. \A i \in Answers(c)' : i \in Nat /\ i + 0 \in Answers(c) /\ wire'[i] = wire[i + 0]
      BY <1>0, <2>1, <2>3, <2>5
    <3>2. ASSUME ServerAnswer(c, TRUE) PROVE FALSE
      <4>1. c = r
        BY <1>0, <1>1, <3>2, OneAnswer
      <4> QED
        BY <2>5, <4>1
    <3>3. Unaccepted(c) => Unaccepted(c)'
      BY <3>2, UnacceptedStep
    <3> QED
      BY <2>1, <2>2, <3>1, <3>3, AskedKept
  <2> QED
    BY <2>4, <2>5
<1>2. ASSUME \A r \in Requesters, ok \in BOOLEAN : ~ServerAnswer(r, ok)
      PROVE  Asked(c)'
  <2>1. Unaccepted(c) => Unaccepted(c)'
    BY <1>0, <1>2, UnacceptedStep
  <2>2. CASE ReadResponse
    <3>0. /\ wire # <<>> /\ wire' = Tail(wire) /\ Head(wire).kind = "response"
          /\ UNCHANGED <<pc, outcome, requests>>
          /\ reply' = [reply EXCEPT ![Head(wire).to] = IF Head(wire).ok THEN "ok" ELSE "error"]
      BY <2>2 DEF ReadResponse, callVars
    <3>a. wire \in Seq(Messages)
      BY QueueElements
    <3>b. 1 \in 1..Len(wire) /\ Head(wire) = wire[1] /\ wire[1] \in Messages
      BY <3>0, <3>a, HeadTail
    <3>1. /\ wire # <<>> /\ wire' = Tail(wire) /\ 1 \in 1..Len(wire)
          /\ wire[1] \in Messages /\ wire[1].kind = "response"
          /\ UNCHANGED <<pc, outcome, requests>>
          /\ reply' = [reply EXCEPT ![wire[1].to] = IF wire[1].ok THEN "ok" ELSE "error"]
      BY <3>0, <3>b
    <3>2. \A i \in Answers(c)' : i + 1 \in Answers(c) /\ i + 1 # 1 /\ i \in Nat /\ wire'[i] = wire[i + 1]
      BY <3>1, AnswersTail
    <3>3. CASE wire[1].to = c
      <4>1. 1 \in Answers(c)
        BY <3>1, <3>3 DEF Answers
      <4>2. Answers(c)' = {}
        BY <3>2, <4>1 DEF Asked
      <4>3. reply'[c] = (IF wire[1].ok THEN "ok" ELSE "error")
        BY <1>0, <3>1, <3>3
      <4>4. reply[c] = "none" /\ c \notin requests /\ ~(pc[c] \in {"idle", "send"})
            /\ outcome[c] # "sendError" /\ (~wire[1].ok => Unaccepted(c)')
        BY <2>1, <4>1 DEF Asked
      <4> QED
        BY <3>1, <4>2, <4>3, <4>4 DEF Asked
    <3>4. CASE wire[1].to # c
      <4>1. reply'[c] = reply[c]
        BY <1>0, <3>1, <3>4
      <4> QED
        BY <2>1, <3>1, <3>2, <4>1, AskedKept
    <3> QED
      BY <3>3, <3>4
  <2>3. CASE ReadEvent
    <3>1. /\ wire # <<>> /\ wire' = Tail(wire) /\ UNCHANGED <<pc, outcome, requests, reply>>
      BY <2>3 DEF ReadEvent, callVars
    <3>2. \A i \in Answers(c)' : i \in Nat /\ i + 1 \in Answers(c) /\ wire'[i] = wire[i + 1]
      BY <3>1, AnswersTail
    <3> QED
      BY <2>1, <3>1, <3>2, AskedKept
  <2>4. ASSUME NEW kind \in {"message", "idle", "error"}, NEW last \in BOOLEAN,
               ServerEmit(kind, last)
        PROVE  Asked(c)'
    <3> DEFINE m == [kind |-> "event", event |->
                      [n |-> emitted + 1, kind |-> kind, turn |-> Head(turns)]]
    <3>1. Head(turns) \in Callers /\ emitted + 1 \in Nat
      BY <2>4, HeadTail DEF ServerEmit, TypeOK, ServerTypes
    <3>2. m \in Messages /\ m.kind = "event"
      BY <3>1 DEF Messages, Events
    <3>3. wire' = Append(wire, m) /\ UNCHANGED <<pc, outcome, requests, reply>>
      BY <2>4 DEF ServerEmit, callVars
    <3> HIDE DEF m
    <3>4. \A i \in Answers(c)' : i \in Answers(c) /\ wire'[i] = wire[i]
      <4>1. \A i \in Answers(c)' : \/ i \in Answers(c) /\ wire'[i] = wire[i]
                                   \/ /\ i = Len(wire) + 1 /\ wire'[i] = m
                                      /\ m.kind = "response" /\ m.to = c
        BY <3>2, <3>3, AnswersAppend, Zenon
      <4> QED
        BY <3>2, <4>1
    <3>5. \A i \in Answers(c)' : i \in Nat /\ i + 0 \in Answers(c) /\ wire'[i] = wire[i + 0]
      BY <1>0, <3>4
    <3> QED
      BY <2>1, <3>3, <3>5, AskedKept
  <2>5. ASSUME UNCHANGED wire
        PROVE  /\ Answers(c)' = Answers(c)
               /\ \A i \in Answers(c)' : i \in Nat /\ i + 0 \in Answers(c) /\ wire'[i] = wire[i + 0]
    BY <1>0, <2>5 DEF Answers
  <2>6. ASSUME \/ dispatchEvent \/ processEvents \/ UNCHANGED vars
               \/ \E d \in Disconnectors : DisconnectStep(d)
               \/ \E a \in Apps : AppOn(a) \/ AppOff(a)
        PROVE  Asked(c)'
    <3>1. UNCHANGED <<wire, pc, outcome>>
      BY <2>6 DEF dispatchEvent, processEvents, Receive, CallHandler, HandlerRequestReturns,
         HandlersDone, ConsumerEnd, DisconnectStep, Disconnect, DestroyReturns, CloseEventCh,
         ClearHandlers, AppOn, AppOff, callVars, vars
    <3>2. UNCHANGED <<requests, reply>> \/ \E r \in {Worker} \cup Disconnectors : Ask(r)
      BY <2>6, Zenon DEF dispatchEvent, processEvents, Receive, CallHandler, HandlerRequestReturns,
         HandlersDone, ConsumerEnd, DisconnectStep, Disconnect, DestroyReturns, CloseEventCh,
         ClearHandlers, AppOn, AppOff, vars
    <3>3. reply'[c] = reply[c] /\ (c \in requests' => c \in requests)
      BY <1>0, <3>2 DEF Ask
    <3> QED
      BY <2>1, <2>5, <3>1, <3>3, AskedKept
  <2>7. ASSUME NEW b \in Callers, SendAndWait(b), b # c
        PROVE  Asked(c)'
    <3>1. UNCHANGED wire /\ pc'[c] = pc[c] /\ outcome'[c] = outcome[c]
      BY <1>0, <2>7 DEF SendAndWait, Subscribe, Send, SendReturns, WaitReturns, Leave, Goto, Finish
    <3>2. UNCHANGED <<requests, reply>> \/ Ask(b)
      BY <2>7 DEF SendAndWait, Subscribe, Send, SendReturns, WaitReturns, Leave
    <3>3. reply'[c] = reply[c] /\ (c \in requests' => c \in requests)
      BY <1>0, <2>7, <3>2 DEF Ask
    <3> QED
      BY <2>1, <2>5, <3>1, <3>3, AskedKept
  <2>8. ASSUME SendAndWait(c)
        PROVE  Asked(c)'
    <3>1. UNCHANGED wire
      BY <2>8 DEF SendAndWait, Subscribe, Send, SendReturns, WaitReturns, Leave
    <3>2. CASE Send(c)
      <4>1. /\ requests' = requests \cup {c} /\ reply'[c] = "none" /\ pc'[c] = "sending"
            /\ pc[c] = "send" /\ UNCHANGED outcome
        BY <1>0, <3>2 DEF Send, Ask, Goto
      <4> QED
        BY <2>1, <2>5, <3>1, <4>1 DEF Asked
    <3>3. CASE Subscribe(c) \/ Leave(c)
      <4>1. UNCHANGED <<outcome, requests, reply>>
        BY <3>3 DEF Subscribe, Leave
      <4>2. pc' = [pc EXCEPT ![c] = "returned"] \/ (pc[c] = "idle" /\ pc' = [pc EXCEPT ![c] = "send"])
        BY <3>3 DEF Subscribe, Leave, Goto
      <4>3. pc'[c] = "returned" \/ (pc[c] = "idle" /\ pc'[c] = "send")
        BY <1>0, <4>2
      <4> QED
        BY <2>1, <2>5, <3>1, <4>1, <4>3, AskedKept
    <3>4. CASE SendReturns(c)
      <4>1. /\ UNCHANGED <<requests, reply>> /\ pc'[c] \in {"waiting", "leaving"}
            /\ outcome'[c] = outcome[c] \/ (outcome'[c] = "sendError" /\ reply[c] = "error")
        BY <1>0, <3>4 DEF SendReturns, Goto, Finish
      <4> QED
        BY <2>1, <2>5, <3>1, <4>1, AskedKept
    <3>5. CASE WaitReturns(c)
      <4>1. /\ UNCHANGED <<requests, reply>> /\ pc'[c] = "leaving"
            /\ outcome'[c] \in {"idle", "error", "timeout"}
        BY <1>0, <3>5 DEF WaitReturns, Goto, Finish
      <4> QED
        BY <2>1, <2>5, <3>1, <4>1, AskedKept
    <3> QED
      BY <2>8, <3>2, <3>3, <3>4, <3>5 DEF SendAndWait
  <2>9. \/ ReadResponse \/ ReadEvent \/ dispatchEvent \/ processEvents \/ UNCHANGED vars
        \/ \E d \in Disconnectors : DisconnectStep(d)
        \/ \E a \in Apps : AppOn(a) \/ AppOff(a)
        \/ \E b \in Callers : SendAndWait(b)
        \/ \E kind \in {"message", "idle", "error"}, last \in BOOLEAN : ServerEmit(kind, last)
    BY <1>2 DEF Next, readLoop, Server
  <2> QED
    BY <2>2, <2>3, <2>4, <2>6, <2>7, <2>8, <2>9
<1> QED
  BY <1>1, <1>2


\* Every number given out is at most emitted, and what is pending comes after what
\* the consumer has received.
LEMMA FlightNumbers ==
  ASSUME TypeOK, NEW k \in 0..emitted, Numbered(k)
  PROVE  /\ \A e \in Pending : k < e.n /\ e.n <= emitted
         /\ \A e \in InFlight : e.n <= emitted
         /\ current # NoEvent => current.n = k
<1>1. k \in Nat /\ emitted \in Nat /\ current # NoEvent => current.n = k
  BY QueueElements DEF Numbered
<1>2. /\ k + Len(eventCh) <= Taken(k) /\ Taken(k) <= emitted /\ Taken(k) \in Nat
      /\ Len(eventCh) \in Nat
  BY QueueElements DEF Numbered, Taken
<1>3. ASSUME NEW i \in 1..Len(wire), wire[i].kind = "event"
      PROVE  k < wire[i].event.n /\ wire[i].event.n <= emitted
  BY <1>1, <1>2, <1>3, QueueElements, SMTT(60) DEF Numbered
<1>4. ASSUME NEW i \in 1..Len(eventCh)
      PROVE  k < eventCh[i].n /\ eventCh[i].n <= emitted
  BY <1>1, <1>2, QueueElements DEF Numbered
<1>5. loopEvent # NoEvent => k < loopEvent.n /\ loopEvent.n <= emitted
  BY <1>1, <1>2, QueueElements DEF Numbered, Taken
<1>6. \A e \in Pending : k < e.n /\ e.n <= emitted
  BY <1>3, <1>4, <1>5 DEF Pending
<1>7. current # NoEvent => current.n = k
  BY DEF Numbered
<1>8. k <= emitted
  OBVIOUS
<1>9. \A e \in InFlight : e.n <= emitted
  BY <1>6, <1>7, <1>8 DEF InFlight
<1> QED
  BY <1>6, <1>7, <1>9

\* A turn starts when the message of a caller that has none is accepted.
LEMMA TurnsStep ==
  ASSUME TypeOK, [Next]_vars, OneTurnEach, AskedOnce
  PROVE  /\ \A i, j \in 1..Len(turns') : turns'[i] = turns'[j] => i = j
         /\ \A i \in 1..Len(turns') : turns'[i] \notin finished'
<1>1. ASSUME NEW kind \in {"message", "idle", "error"}, NEW last \in BOOLEAN,
             ServerEmit(kind, last)
      PROVE  /\ \A i, j \in 1..Len(turns') : turns'[i] = turns'[j] => i = j
             /\ \A i \in 1..Len(turns') : turns'[i] \notin finished'
  <2>1. /\ turns # <<>>
        /\ \/ finished' = finished \cup {turns[1]} /\ turns' = Tail(turns)
           \/ UNCHANGED <<finished, turns>>
    BY <1>1, Emission
  <2>2. CASE turns' = Tail(turns) /\ finished' = finished \cup {turns[1]}
    <3>1. /\ Len(turns) \in Nat /\ Len(turns') = Len(turns) - 1 /\ 1 \in 1..Len(turns)
          /\ \A i \in 1..Len(turns') : i \in Nat /\ i + 1 \in 1..Len(turns) /\ i + 1 # 1
                                       /\ turns'[i] = turns[i + 1]
      BY <2>1, <2>2, TurnsTail
    <3>2. \A i \in 1..Len(turns') : turns'[i] \notin finished'
      BY <2>2, <3>1 DEF OneTurnEach
    <3>3. ASSUME NEW i \in 1..Len(turns'), NEW j \in 1..Len(turns'), turns'[i] = turns'[j]
          PROVE  i = j
      <4>1. i + 1 = j + 1
        BY <3>1, <3>3 DEF OneTurnEach
      <4> QED
        BY <3>1, <4>1
    <3> QED
      BY <3>2, <3>3
  <2>3. CASE UNCHANGED <<finished, turns>>
    BY <2>3 DEF OneTurnEach
  <2> QED
    BY <2>1, <2>2, <2>3
<1>2. ASSUME \A kind \in {"message", "idle", "error"}, last \in BOOLEAN : ~ServerEmit(kind, last)
      PROVE  /\ \A i, j \in 1..Len(turns') : turns'[i] = turns'[j] => i = j
             /\ \A i \in 1..Len(turns') : turns'[i] \notin finished'
  <2>1. /\ UNCHANGED finished
        /\ \/ UNCHANGED turns
           \/ \E c \in Callers : ServerAnswer(c, TRUE) /\ turns' = Append(turns, c)
    BY <1>2, Quiet
  <2>2. CASE UNCHANGED turns
    BY <2>1, <2>2 DEF OneTurnEach
  <2>3. ASSUME NEW c \in Callers, ServerAnswer(c, TRUE), turns' = Append(turns, c)
        PROVE  /\ \A i, j \in 1..Len(turns') : turns'[i] = turns'[j] => i = j
               /\ \A i \in 1..Len(turns') : turns'[i] \notin finished'
    <3>1. c \notin finished /\ \A i \in 1..Len(turns) : turns[i] # c
      BY <2>3 DEF ServerAnswer, AskedOnce, Asked, Unaccepted, InTurns
    <3>2. /\ Len(turns) \in Nat /\ Len(turns') = Len(turns) + 1 /\ turns'[Len(turns) + 1] = c
          /\ \A i \in 1..Len(turns) : turns[i] \in Callers /\ turns'[i] = turns[i]
          /\ \A i \in 1..Len(turns') : i \in 1..Len(turns) \/ i = Len(turns) + 1
      BY <2>3, TurnsAppend
    <3>3. \A i \in 1..Len(turns') : turns'[i] \notin finished'
      BY <2>1, <3>1, <3>2 DEF OneTurnEach
    <3>4. ASSUME NEW i \in 1..Len(turns'), NEW j \in 1..Len(turns'), turns'[i] = turns'[j]
          PROVE  i = j
      BY <3>1, <3>2, <3>4 DEF OneTurnEach
    <3> QED
      BY <3>3, <3>4
  <2> QED
    BY <2>1, <2>2, <2>3
<1> QED
  BY <1>1, <1>2

\* Every step keeps what the server says in a turn in order.
LEMMA TurnStep ==
  ASSUME TypeOK, [Next]_vars, OneTurnEach, AskedOnce, NEW k \in 0..emitted, Numbered(k)
  PROVE  OneTurnEach'
<1>1. \A e \in InFlight : e \in Events /\ e.n \in Nat /\ e.turn \in Callers /\ e.n <= emitted
  BY FlightElements, FlightNumbers
<1>2. emitted \in Nat /\ said \in [Callers -> Nat]
  BY DEF TypeOK, ServerTypes
<1>3. ASSUME NEW kind \in {"message", "idle", "error"}, NEW last \in BOOLEAN,
             ServerEmit(kind, last)
      PROVE  OneTurnEach'
  <2>1. PICK c \in Callers : \E e \in Events :
           /\ turns # <<>> /\ c = turns[1] /\ InTurns(c)
           /\ e.n = emitted + 1 /\ e.kind = kind /\ e.turn = c
           /\ emitted' = emitted + 1 /\ (kind = "idle" => last)
           /\ Pending' = Pending \cup {e} /\ InFlight' = InFlight \cup {e}
           /\ IF kind = "message" THEN said' = [said EXCEPT ![c] = emitted + 1]
                                  ELSE UNCHANGED said
           /\ \/ last /\ finished' = finished \cup {c} /\ turns' = Tail(turns)
              \/ ~last /\ UNCHANGED <<finished, turns>>
           /\ UNCHANGED current
    BY <1>3, Emission
  <2>2. PICK e \in Events :
           /\ e.n = emitted + 1 /\ e.kind = kind /\ e.turn = c
           /\ emitted' = emitted + 1 /\ (kind = "idle" => last)
           /\ InFlight' = InFlight \cup {e}
           /\ IF kind = "message" THEN said' = [said EXCEPT ![c] = emitted + 1]
                                  ELSE UNCHANGED said
           /\ \/ last /\ finished' = finished \cup {c}
              \/ ~last /\ UNCHANGED finished
    BY <2>1
  <2>3. c \notin finished
    BY <2>1 DEF OneTurnEach, InTurns
  <2>4. /\ said'[c] = IF kind = "message" THEN emitted + 1 ELSE said[c]
        /\ \A b \in Callers \ {c} : said'[b] = said[b]
        /\ \A b \in Callers : said[b] \in Nat /\ said[b] <= emitted
    BY <1>2, <2>2 DEF OneTurnEach
  <2>5. finished \subseteq finished' /\ (kind = "idle" => c \in finished')
    BY <2>2
  <2>6. \A b \in Callers : said'[b] <= emitted'
    BY <1>2, <2>2, <2>4
  <2>7. ASSUME NEW f \in InFlight
        PROVE  /\ f.kind = "message" => f.n <= said'[f.turn]
               /\ f.n = said'[f.turn] => f.kind = "message"
               /\ f.kind = "idle" =>
                    /\ f.turn \in finished' /\ said'[f.turn] < f.n
                    /\ \A g \in InFlight' : g.turn = f.turn => g.n <= f.n
    <3>1. /\ f.kind = "message" => f.n <= said[f.turn]
          /\ f.n = said[f.turn] => f.kind = "message"
          /\ f.kind = "idle" =>
               /\ f.turn \in finished /\ said[f.turn] < f.n
               /\ \A g \in InFlight : g.turn = f.turn => g.n <= f.n
      BY DEF OneTurnEach
    <3>2. f.n \in Nat /\ f.turn \in Callers /\ f.n <= emitted
      BY <1>1
    <3>3. f.kind = "idle" => f.turn # c
      BY <2>3, <3>1
    <3>4. f.kind = "idle" => \A g \in InFlight' : g.turn = f.turn => g.n <= f.n
      BY <2>2, <3>1, <3>3
    <3>5. CASE f.turn = c
      BY <1>2, <2>4, <3>1, <3>2, <3>3, <3>5
    <3>6. CASE f.turn # c
      BY <2>4, <2>5, <3>1, <3>2, <3>4, <3>6
    <3> QED
      BY <3>5, <3>6
  <2>8. /\ e.kind = "message" => e.n <= said'[e.turn]
        /\ e.n = said'[e.turn] => e.kind = "message"
        /\ e.kind = "idle" =>
             /\ e.turn \in finished' /\ said'[e.turn] < e.n
             /\ \A g \in InFlight' : g.turn = e.turn => g.n <= e.n
    <3>1. \A g \in InFlight' : g.n <= e.n
      BY <1>1, <1>2, <2>2
    <3>2. said[c] <= emitted /\ said[c] \in Nat /\ said[c] # emitted + 1 /\ said[c] < emitted + 1
      BY <1>2, <2>4
    <3> QED
      BY <1>2, <2>2, <2>4, <2>5, <3>1, <3>2
  <2>9. InFlight' = InFlight \cup {e}
    BY <2>2
  <2> QED
    BY <2>6, <2>7, <2>8, <2>9, TurnsStep DEF OneTurnEach
<1>4. ASSUME \A kind \in {"message", "idle", "error"}, last \in BOOLEAN : ~ServerEmit(kind, last)
      PROVE  OneTurnEach'
  <2>1. InFlight' \subseteq InFlight /\ UNCHANGED <<finished, emitted, said>>
    BY <1>4, Quiet
  <2> QED
    BY <2>1, TurnsStep DEF OneTurnEach
<1> QED
  BY <1>3, <1>4


\* Being out of the way lasts; only a new call can end that of the one before it.
LEMMA WayStep ==
  ASSUME TypeOK, [Next]_vars
  PROVE  \/ \E x \in Callers :
              /\ Subscribe(x) /\ pc[x] = "idle" /\ pc' = [pc EXCEPT ![x] = "send"]
              /\ UNCHANGED outcome
              /\ alone'[x] => \A a \in Callers \ {x} : OutOfTheWay(a)
              /\ \A b \in Callers \ {x} : alone'[b] <=> alone[b] /\ OutOfTheWay(b)
         \/ /\ UNCHANGED alone
            /\ \A b \in Callers : OutOfTheWay(b) => OutOfTheWay(b)'
<1>0. pc \in [Callers -> CallerStates]
      /\ outcome \in [Callers -> {"none", "idle", "error", "timeout", "sendError"}]
  BY DEF TypeOK, CallTypes
<1>1. ASSUME NEW x \in Callers, Subscribe(x)
      PROVE  /\ Subscribe(x) /\ pc[x] = "idle" /\ pc' = [pc EXCEPT ![x] = "send"]
             /\ UNCHANGED outcome
             /\ alone'[x] => \A a \in Callers \ {x} : OutOfTheWay(a)
             /\ \A b \in Callers \ {x} : alone'[b] <=> alone[b] /\ OutOfTheWay(b)
  BY <1>1 DEF Subscribe, Goto
<1>2. ASSUME NEW x \in Callers, Send(x) \/ SendReturns(x) \/ WaitReturns(x) \/ Leave(x)
      PROVE  UNCHANGED alone /\ \A b \in Callers : OutOfTheWay(b) => OutOfTheWay(b)'
  <2>1. UNCHANGED alone
    BY <1>2 DEF Send, SendReturns, WaitReturns, Leave
  <2>2. ~OutOfTheWay(x)
    BY <1>2 DEF Send, SendReturns, WaitReturns, Leave, OutOfTheWay
  <2>3. ASSUME NEW b \in Callers \ {x}
        PROVE  pc'[b] = pc[b] /\ outcome'[b] = outcome[b]
    BY <1>0, <1>2 DEF Send, SendReturns, WaitReturns, Leave, Goto, Finish
  <2> QED
    BY <2>1, <2>2, <2>3 DEF OutOfTheWay
<1>3. ASSUME \A c \in Callers : ~SendAndWait(c)
      PROVE  UNCHANGED <<alone, pc, outcome>>
  BY <1>3 DEF Next, AppOn, AppOff, readLoop, ReadResponse, ReadEvent, dispatchEvent, Server,
     ServerAnswer, ServerEmit, DisconnectStep, Disconnect, DestroyReturns, CloseEventCh,
     ClearHandlers, processEvents, Receive, CallHandler, HandlerRequestReturns,
     HandlersDone, ConsumerEnd, callVars, vars
<1>4. CASE \A c \in Callers : ~SendAndWait(c)
  BY <1>3, <1>4 DEF OutOfTheWay
<1>5. CASE \E c \in Callers : SendAndWait(c)
  BY <1>1, <1>2, <1>5 DEF SendAndWait
<1> QED
  BY <1>4, <1>5

LEMMA OneAtATimeStep ==
  ASSUME TypeOK, [Next]_vars, OneAtATime
  PROVE  OneAtATime'
<1>1. CASE UNCHANGED alone /\ \A b \in Callers : OutOfTheWay(b) => OutOfTheWay(b)'
  BY <1>1 DEF OneAtATime
<1>2. ASSUME NEW x \in Callers, pc[x] = "idle", pc' = [pc EXCEPT ![x] = "send"],
             UNCHANGED outcome,
             alone'[x] => \A a \in Callers \ {x} : OutOfTheWay(a),
             \A b \in Callers \ {x} : alone'[b] <=> alone[b] /\ OutOfTheWay(b)
      PROVE  OneAtATime'
  <2>1. \A b \in Callers \ {x} : pc'[b] = pc[b]
    BY <1>2 DEF TypeOK, CallTypes
  <2>2. ASSUME NEW b \in Callers \ {x}, OutOfTheWay(b)
        PROVE  OutOfTheWay(b)'
    BY <1>2, <2>1, <2>2 DEF OutOfTheWay
  <2>3. ASSUME NEW b \in Callers, NEW c \in Callers, b # c, alone'[c], ~OutOfTheWay(c)'
        PROVE  OutOfTheWay(b)'
    <3>1. c = x
      BY <1>2, <2>2, <2>3
    <3> QED
      BY <1>2, <2>2, <2>3, <3>1
  <2> QED
    BY <2>3 DEF OneAtATime
<1> QED
  BY <1>1, <1>2, WayStep

\* While a call that is alone runs, what is pending is of its turn.
LEMMA PendingOwn ==
  ASSUME TypeOK, AskedOnce, OneAtATime, OwnTurnOnly,
         NEW c \in Callers, alone[c], ~OutOfTheWay(c), NEW e \in Pending
  PROVE  e.turn = c
<1> DEFINE b == e.turn
<1>1. b \in Callers /\ e \in InFlight
  BY FlightElements DEF InFlight
<1>2. Unaccepted(b) => FALSE
  BY <1>1 DEF Unaccepted
<1>3. SUFFICES ASSUME b # c PROVE FALSE
  OBVIOUS
<1>4. OutOfTheWay(b)
  BY <1>1, <1>3 DEF OneAtATime
<1>5. pc[b] # "idle"
  BY <1>1, <1>2 DEF AskedOnce, Asked
<1>6. outcome[b] # "sendError"
  BY <1>1, <1>2 DEF AskedOnce, Asked
<1>7. ~(alone[b] /\ outcome[b] = "idle")
  BY <1>1 DEF OwnTurnOnly, OwnTurn
<1> QED
  BY <1>4, <1>5, <1>6, <1>7 DEF OutOfTheWay

\* A turn that is over stays over, nothing is added to what was said in it.
LEMMA OverStays ==
  ASSUME TypeOK, [Next]_vars, OneTurnEach, NEW c \in Callers, c \in finished
  PROVE  /\ c \in finished' /\ said'[c] = said[c]
         /\ (\A e \in Pending : e.turn # c) => (\A e \in Pending' : e.turn # c)
<1>1. ASSUME NEW kind \in {"message", "idle", "error"}, NEW last \in BOOLEAN,
             ServerEmit(kind, last)
      PROVE  /\ c \in finished' /\ said'[c] = said[c]
             /\ (\A e \in Pending : e.turn # c) => (\A e \in Pending' : e.turn # c)
  <2>1. PICK b \in Callers : \E e \in Events :
           /\ turns # <<>> /\ b = turns[1] /\ InTurns(b)
           /\ e.n = emitted + 1 /\ e.kind = kind /\ e.turn = b
           /\ emitted' = emitted + 1 /\ (kind = "idle" => last)
           /\ Pending' = Pending \cup {e} /\ InFlight' = InFlight \cup {e}
           /\ IF kind = "message" THEN said' = [said EXCEPT ![b] = emitted + 1]
                                  ELSE UNCHANGED said
           /\ \/ last /\ finished' = finished \cup {b} /\ turns' = Tail(turns)
              \/ ~last /\ UNCHANGED <<finished, turns>>
           /\ UNCHANGED current
    BY <1>1, Emission
  <2>2. b # c
    BY <2>1 DEF OneTurnEach, InTurns
  <2>3. said \in [Callers -> Nat]
    BY DEF TypeOK, ServerTypes
  <2> QED
    BY <2>1, <2>2, <2>3
<1>2. ASSUME \A kind \in {"message", "idle", "error"}, last \in BOOLEAN : ~ServerEmit(kind, last)
      PROVE  Pending' \subseteq Pending /\ UNCHANGED <<finished, said>>
  BY <1>2, Quiet
<1> QED
  BY <1>1, <1>2


\* What a step does to a caller c that it is not about.
LEMMA OwnTurnKept ==
  ASSUME TypeOK, [Next]_vars, OneTurnEach, NEW c \in Callers, OwnTurn(c),
         alone'[c] => alone[c], pc'[c] = "idle" => pc[c] = "idle",
         idleCh'[c] = idleCh[c], lastMessage'[c] = lastMessage[c],
         ToCall(c)' => ToCall(c) /\ current' = current,
         outcome'[c] = "idle" => outcome[c] = "idle" /\ answer'[c] = answer[c]
  PROVE  OwnTurn(c)'
<1>1. pc'[c] = "idle" => ~idleCh'[c] /\ lastMessage'[c].n = 0
  BY DEF OwnTurn
<1>2. ASSUME alone'[c]
      PROVE  /\ ToCall(c)' => current'.turn = c
             /\ idleCh'[c] =>
                  /\ c \in finished' /\ lastMessage'[c].n = said'[c] /\ ~ToCall(c)'
                  /\ \A e \in Pending' : e.turn # c
             /\ outcome'[c] = "idle" =>
                  /\ c \in finished' /\ answer'[c].n = said'[c]
                  /\ \A e \in Pending' : e.turn # c
  <2>1. ToCall(c)' => current'.turn = c
    BY <1>2 DEF OwnTurn
  <2>2. ASSUME idleCh'[c]
        PROVE  /\ c \in finished' /\ lastMessage'[c].n = said'[c] /\ ~ToCall(c)'
               /\ \A e \in Pending' : e.turn # c
    <3>1. /\ c \in finished /\ lastMessage[c].n = said[c] /\ ~ToCall(c)
          /\ \A e \in Pending : e.turn # c
      BY <1>2, <2>2 DEF OwnTurn
    <3>2. /\ c \in finished' /\ said'[c] = said[c]
          /\ \A e \in Pending' : e.turn # c
      BY <3>1, OverStays
    <3> QED
      BY <3>1, <3>2
  <2>3. ASSUME outcome'[c] = "idle"
        PROVE  /\ c \in finished' /\ answer'[c].n = said'[c]
               /\ \A e \in Pending' : e.turn # c
    <3>1. /\ c \in finished /\ answer[c].n = said[c] /\ \A e \in Pending : e.turn # c
      BY <1>2, <2>3 DEF OwnTurn
    <3>2. /\ c \in finished' /\ said'[c] = said[c]
          /\ \A e \in Pending' : e.turn # c
      BY <3>1, OverStays
    <3> QED
      BY <2>3, <3>1, <3>2
  <2> QED
    BY <2>1, <2>2, <2>3
<1> QED
  BY <1>1, <1>2 DEF OwnTurn

\* The caller's own steps: it returns what its handler was given last.
LEMMA OwnTurnCaller ==
  ASSUME TypeOK, Registry, [Next]_vars, AskedOnce, OneTurnEach, OwnTurnOnly,
         NEW k \in Nat, Served(k), NEW b \in Callers, SendAndWait(b), NEW c \in Callers
  PROVE  OwnTurn(c)'
<1>0. /\ pc \in [Callers -> CallerStates] /\ idleCh \in [Callers -> BOOLEAN]
      /\ outcome \in [Callers -> {"none", "idle", "error", "timeout", "sendError"}]
      /\ answer \in [Callers -> Events \cup {NoEvent}]
  BY DEF TypeOK, CallTypes
<1>1. UNCHANGED <<current, todo, lastMessage>>
  BY DEF SendAndWait, Subscribe, Send, SendReturns, WaitReturns, Leave, workerVars
<1>2. ToCall(c)' <=> ToCall(c)
  BY <1>1 DEF ToCall
<1>3. OwnTurn(c) /\ Asked(c)
  BY DEF OwnTurnOnly, AskedOnce
<1>4. b # c /\ alone'[c] => alone[c]
  BY DEF SendAndWait, Subscribe, Send, SendReturns, WaitReturns, Leave
<1>5. CASE b # c
  <2>1. /\ pc'[c] = pc[c] /\ idleCh'[c] = idleCh[c]
        /\ outcome'[c] = outcome[c] /\ answer'[c] = answer[c]
    BY <1>0, <1>5 DEF SendAndWait, Subscribe, Send, SendReturns, WaitReturns, Leave,
       Finish, Goto
  <2> QED
    BY <1>1, <1>2, <1>3, <1>4, <1>5, <2>1, OwnTurnKept
<1>6. CASE Subscribe(c) /\ b = c
  <2>1. /\ pc[c] = "idle" /\ pc'[c] = "send" /\ UNCHANGED <<idleCh, outcome>>
    BY <1>0, <1>6 DEF Subscribe, Goto
  <2>2. ~ToCall(c) /\ ~idleCh[c] /\ outcome[c] = "none"
    BY <1>3, <2>1 DEF Served, New, OwnTurn, Asked
  <2> QED
    BY <1>1, <1>2, <2>1, <2>2 DEF OwnTurn
<1>7. CASE b = c /\ (Send(c) \/ Leave(c))
  <2>1. /\ pc' \in {[pc EXCEPT ![c] = "sending"], [pc EXCEPT ![c] = "returned"]}
        /\ UNCHANGED <<idleCh, outcome, answer, alone>>
    BY <1>7 DEF Send, Leave, Goto
  <2>2. pc'[c] # "idle"
    BY <1>0, <2>1
  <2> QED
    BY <1>1, <1>2, <1>3, <2>1, <2>2, OwnTurnKept
<1>8. CASE b = c /\ SendReturns(c)
  <2>1. /\ pc'[c] \in {"waiting", "leaving"} /\ UNCHANGED <<idleCh, alone>>
        /\ (outcome'[c] = outcome[c] /\ answer'[c] = answer[c]) \/ outcome'[c] = "sendError"
    BY <1>0, <1>8 DEF SendReturns, Finish, Goto
  <2> QED
    BY <1>1, <1>2, <1>3, <2>1, OwnTurnKept
<1>9. CASE b = c /\ WaitReturns(c)
  <2>1. /\ pc'[c] = "leaving" /\ UNCHANGED alone
        /\ \/ /\ idleCh[c] /\ ~idleCh'[c] /\ outcome'[c] = "idle"
              /\ answer'[c] = lastMessage[c]
           \/ idleCh'[c] = idleCh[c] /\ outcome'[c] \in {"error", "timeout"}
    BY <1>0, <1>9 DEF WaitReturns, Finish, Goto
  <2>2. CASE /\ idleCh[c] /\ ~idleCh'[c] /\ outcome'[c] = "idle"
             /\ answer'[c] = lastMessage[c]
    <3>1. ASSUME alone[c]
          PROVE  /\ c \in finished' /\ answer'[c].n = said'[c]
                 /\ \A e \in Pending' : e.turn # c
      <4>1. /\ c \in finished /\ lastMessage[c].n = said[c]
            /\ \A e \in Pending : e.turn # c
        BY <1>3, <2>2, <3>1 DEF OwnTurn
      <4>2. /\ c \in finished' /\ said'[c] = said[c] /\ \A e \in Pending' : e.turn # c
        BY <4>1, OverStays
      <4> QED
        BY <2>2, <4>1, <4>2
    <3>2. alone[c] /\ ToCall(c)' => current'.turn = c
      BY <1>1, <1>2, <1>3 DEF OwnTurn
    <3> QED
      BY <2>1, <2>2, <3>1, <3>2 DEF OwnTurn
  <2>3. CASE idleCh'[c] = idleCh[c] /\ outcome'[c] \in {"error", "timeout"}
    BY <1>1, <1>2, <1>3, <2>1, <2>3, OwnTurnKept
  <2> QED
    BY <2>1, <2>2, <2>3
<1> QED
  BY <1>5, <1>6, <1>7, <1>8, <1>9 DEF SendAndWait


\* The consumer takes an event, or calls a handler.
LEMMA OwnTurnConsumer ==
  ASSUME TypeOK, Registry, [Next]_vars, AskedOnce, OneTurnEach, OneAtATime, OwnTurnOnly,
         NEW k \in 0..emitted, Numbered(k), Served(k), Heard(k), processEvents,
         NEW c \in Callers
  PROVE  OwnTurn(c)'
<1>1. UNCHANGED <<pc, outcome, answer, alone>>
  BY DEF processEvents, Receive, CallHandler, HandlerRequestReturns, HandlersDone,
         ConsumerEnd, callVars
<1>2. OwnTurn(c) /\ k \in Nat /\ c \in Subscribers
  BY QueueElements DEF OwnTurnOnly
<1>3. CASE HandlerRequestReturns \/ HandlersDone \/ ConsumerEnd
  <2>1. UNCHANGED <<todo, idleCh, lastMessage>>
    BY <1>3 DEF HandlerRequestReturns, HandlersDone, ConsumerEnd, callVars
  <2>2. current' = current \/ todo = <<>>
    BY <1>3 DEF HandlerRequestReturns, HandlersDone, ConsumerEnd
  <2>3. ToCall(c)' => ToCall(c) /\ current' = current
    BY <2>1, <2>2 DEF ToCall
  <2> QED
    BY <1>1, <1>2, <2>1, <2>3, OwnTurnKept
<1>4. CASE Receive
  <2>1. UNCHANGED <<idleCh, lastMessage>> /\ current' \in Pending
    BY <1>4, Taking DEF Receive, callVars
  <2>2. ToCall(c)' => Registered(c)
    BY <1>4, SnapshotOfAll
  <2>3. ASSUME ToCall(c)', alone[c]
        PROVE  current'.turn = c
    <3>1. Subscribed(c)
      BY <2>2, <2>3 DEF Registered, Registry
    <3>2. ~OutOfTheWay(c)
      BY <3>1 DEF Subscribed, OutOfTheWay
    <3> QED
      BY <2>1, <2>3, <3>2, PendingOwn
  <2>4. ASSUME idleCh[c], alone[c]
        PROVE  /\ c \in finished' /\ lastMessage'[c].n = said'[c] /\ ~ToCall(c)'
               /\ \A e \in Pending' : e.turn # c
    <3>1. c \in finished /\ lastMessage[c].n = said[c] /\ \A e \in Pending : e.turn # c
      BY <1>2, <2>4 DEF OwnTurn
    <3>2. c \in finished' /\ said'[c] = said[c] /\ \A e \in Pending' : e.turn # c
      BY <3>1, OverStays
    <3> QED
      BY <2>1, <2>3, <2>4, <3>1, <3>2
  <2>5. ASSUME outcome[c] = "idle", alone[c]
        PROVE  /\ c \in finished' /\ answer'[c].n = said'[c]
               /\ \A e \in Pending' : e.turn # c
    <3>1. c \in finished /\ answer[c].n = said[c] /\ \A e \in Pending : e.turn # c
      BY <1>2, <2>5 DEF OwnTurn
    <3>2. c \in finished' /\ said'[c] = said[c] /\ \A e \in Pending' : e.turn # c
      BY <3>1, OverStays
    <3> QED
      BY <1>1, <3>1, <3>2
  <2>6. pc[c] = "idle" => ~idleCh[c] /\ lastMessage[c].n = 0
    BY <1>2 DEF OwnTurn
  <2> QED
    BY <1>1, <2>1, <2>3, <2>4, <2>5, <2>6 DEF OwnTurn
<1>5. CASE CallHandler
  <2>1. PICK h \in Subscribers :
          /\ h = Head(todo) /\ ToCall(h) /\ ~ToCall(h)'
          /\ \A g \in Subscribers \ {h} : ToCall(g)' <=> ToCall(g)
    BY <1>2, <1>5, Calling
  <2>2. UNCHANGED <<current, finished, said>> /\ Pending' = Pending
    BY <1>5 DEF CallHandler, queueVars, serverVars, Pending
  <2>3. (h \in Callers /\ CallerHandler(h)) \/ (h \notin Callers /\ UNCHANGED <<idleCh, lastMessage>>)
    BY <1>5, <2>1 DEF CallHandler
  <2>4. CASE h # c
    <3>1. idleCh'[c] = idleCh[c] /\ lastMessage'[c] = lastMessage[c]
      BY <2>3, <2>4, Handling DEF TypeOK, CallTypes
    <3>2. ToCall(c)' => ToCall(c)
      BY <1>2, <2>1, <2>4
    <3> QED
      BY <1>1, <1>2, <2>2, <3>1, <3>2, OwnTurnKept
  <2>5. CASE h = c
    <3>1. current # NoEvent /\ current \in InFlight /\ current.n = k /\ pc[c] # "idle"
      <4>1. current # NoEvent
        BY <1>5 DEF CallHandler, Served
      <4>2. pc[c] # "idle"
        BY <1>2, <2>1, <2>5 DEF Served, New
      <4> QED
        BY <4>1, <4>2 DEF InFlight, Numbered
    <3>2. CallerHandler(c)
      BY <2>3, <2>5
    <3>3. CASE current.kind = "idle"
      <4>1. idleCh' = [idleCh EXCEPT ![c] = TRUE] /\ UNCHANGED lastMessage
        BY <3>2, <3>3 DEF CallerHandler
      <4>2. ASSUME alone[c]
            PROVE  /\ c \in finished /\ lastMessage[c].n = said[c]
                   /\ \A e \in Pending : e.turn # c
        <5>1. current.turn = c
          BY <1>2, <2>1, <2>5, <4>2 DEF OwnTurn
        <5>2. /\ c \in finished /\ said[c] < k
              /\ \A e \in InFlight : e.turn = c => e.n <= k
          BY <3>1, <3>3, <5>1 DEF OneTurnEach
        <5>3. lastMessage[c].n = said[c]
          BY <2>1, <2>5, <4>2, <5>2 DEF Heard, HeardUpTo
        <5>4. \A e \in Pending : e \in InFlight /\ e \in Events /\ e.n \in Nat /\ k < e.n
          BY FlightElements, FlightNumbers DEF InFlight
        <5>5. \A e \in Pending : e.turn # c
          BY <1>2, <5>2, <5>4
        <5> QED
          BY <5>2, <5>3, <5>5
      <4>3. ASSUME alone[c], outcome[c] = "idle"
            PROVE  c \in finished /\ answer[c].n = said[c] /\ \A e \in Pending : e.turn # c
        BY <1>2, <4>3 DEF OwnTurn
      <4> QED
        BY <1>1, <2>1, <2>2, <2>5, <3>1, <4>1, <4>2, <4>3 DEF OwnTurn
    <3>4. CASE current.kind # "idle"
      <4>1. UNCHANGED idleCh
        BY <3>2, <3>4, Handling
      <4>2. alone[c] => ~idleCh[c]
        BY <1>2, <2>1, <2>5 DEF OwnTurn
      <4>3. ASSUME alone[c], outcome[c] = "idle"
            PROVE  c \in finished /\ answer[c].n = said[c] /\ \A e \in Pending : e.turn # c
        BY <1>2, <4>3 DEF OwnTurn
      <4> QED
        BY <1>1, <2>1, <2>2, <2>5, <3>1, <4>1, <4>2, <4>3 DEF OwnTurn
    <3> QED
      BY <3>3, <3>4
  <2> QED
    BY <2>4, <2>5
<1> QED
  BY <1>3, <1>4, <1>5 DEF processEvents

\* Every step keeps what is known of a call that is alone.
LEMMA OwnTurnStep ==
  ASSUME TypeOK, Registry, [Next]_vars, AskedOnce, OneTurnEach, OneAtATime, OwnTurnOnly,
         NEW k \in 0..emitted, Numbered(k), Served(k), Heard(k)
  PROVE  OwnTurnOnly'
<1> SUFFICES ASSUME NEW c \in Callers PROVE OwnTurn(c)'
  BY DEF OwnTurnOnly
<1>1. k \in Nat
  BY QueueElements
<1>2. CASE processEvents
  BY <1>2, OwnTurnConsumer
<1>3. ASSUME NEW b \in Callers, SendAndWait(b)
      PROVE  OwnTurn(c)'
  BY <1>1, <1>3, OwnTurnCaller
<1>4. CASE ~processEvents /\ \A b \in Callers : ~SendAndWait(b)
  <2>1. UNCHANGED <<pc, outcome, answer, alone, idleCh, lastMessage, todo, current>>
    BY <1>4 DEF Next, AppOn, AppOff, readLoop, ReadResponse, ReadEvent, dispatchEvent, Server,
       ServerAnswer, ServerEmit, DisconnectStep, Disconnect, DestroyReturns, CloseEventCh,
       ClearHandlers, callVars, workerVars, vars
  <2>2. ToCall(c)' => ToCall(c)
    BY <2>1 DEF ToCall
  <2>3. OwnTurn(c)
    BY DEF OwnTurnOnly
  <2> QED
    BY <2>1, <2>2, <2>3, OwnTurnKept
<1> QED
  BY <1>2, <1>3, <1>4


\* A number that is given out in this step is later than what the consumer has.
LEMMA SaidLater ==
  ASSUME TypeOK, [Next]_vars, NEW c \in Callers, NEW k \in 0..emitted
  PROVE  said'[c] = said[c] \/ ~(said'[c] <= k)
<1>1. k \in Nat /\ emitted \in Nat /\ k <= emitted /\ said \in [Callers -> Nat]
  BY DEF TypeOK, ServerTypes
<1>2. ASSUME NEW kind \in {"message", "idle", "error"}, NEW last \in BOOLEAN,
             ServerEmit(kind, last)
      PROVE  said'[c] = said[c] \/ said'[c] = emitted + 1
  <2>1. PICK b \in Callers : said' = [said EXCEPT ![b] = emitted + 1] \/ UNCHANGED said
    BY <1>2, Emission
  <2> QED
    BY <1>1, <2>1
<1>3. ASSUME \A kind \in {"message", "idle", "error"}, last \in BOOLEAN : ~ServerEmit(kind, last)
      PROVE  UNCHANGED said
  BY <1>3, Quiet
<1>4. said'[c] = said[c] \/ said'[c] = emitted + 1
  BY <1>2, <1>3
<1> QED
  BY <1>1, <1>4

\* The steps that neither receive an event nor call the handler of c.
LEMMA HeardKept ==
  ASSUME TypeOK, [Next]_vars, NEW c \in Callers, NEW k \in 0..emitted, HeardUpTo(c, k),
         alone'[c] => alone[c], ToCall(c)' <=> ToCall(c), Registered(c)' => Registered(c),
         lastMessage'[c] = lastMessage[c]
  PROVE  HeardUpTo(c, k)'
<1>1. k \in Nat /\ said[c] \in Nat /\ said'[c] \in Nat
  <2>1. k \in Nat /\ said \in [Callers -> Nat]
    BY DEF TypeOK, ServerTypes
  <2>2. said'[c] = said[c] \/ said'[c] \in Nat
    <3>1. TypeOK'
      BY TypesStep
    <3> QED
      BY <3>1 DEF TypeOK, ServerTypes
  <2> QED
    BY <2>1, <2>2
<1>2. said'[c] <= k => said'[c] = said[c]
  BY SaidLater
<1>3. said'[c] < k => said'[c] = said[c]
  BY <1>1, <1>2
<1> QED
  BY <1>2, <1>3 DEF HeardUpTo

\* A step of a call registers its handler, before its turn begins, or changes
\* nothing that was heard.
LEMMA HeardCaller ==
  ASSUME TypeOK, Registry, [Next]_vars, AskedOnce, OwnTurnOnly, NEW c \in Callers,
         NEW k \in 0..emitted, Served(k), HeardUpTo(c, k), ~processEvents
  PROVE  HeardUpTo(c, k)'
<1>1. UNCHANGED <<todo, lastMessage>>
  BY DEF Next, AppOn, AppOff, readLoop, ReadResponse, ReadEvent, dispatchEvent, Server,
     ServerAnswer, ServerEmit, DisconnectStep, Disconnect, DestroyReturns, CloseEventCh,
     ClearHandlers, SendAndWait, Subscribe, Send, SendReturns, WaitReturns, Leave,
     callVars, workerVars, vars
<1>2. ToCall(c)' <=> ToCall(c)
  BY <1>1 DEF ToCall
<1>3. Registered(c)' => Registered(c) \/ (New(c) /\ ~New(c)')
  BY RegisteredStep
<1>4. CASE Subscribe(c)
  <2>1. pc[c] = "idle" /\ UNCHANGED said
    BY <1>4 DEF Subscribe, serverVars
  <2>2. lastMessage[c].n = 0 /\ said[c] = 0
    BY <2>1 DEF OwnTurnOnly, OwnTurn, AskedOnce, Asked, Unaccepted
  <2> QED
    BY <1>1, <2>1, <2>2 DEF HeardUpTo
<1>5. CASE ~Subscribe(c)
  <2>1. alone'[c] => alone[c]
    BY <1>5, WayStep
  <2>2. New(c) => New(c)'
    <3>1. pc \in [Callers -> CallerStates]
      BY DEF TypeOK, CallTypes
    <3>2. pc[c] = "idle" => pc'[c] = "idle"
      <4>1. ASSUME NEW b \in Callers, SendAndWait(b), pc[c] = "idle"
            PROVE  pc'[c] = "idle"
        <5>1. CASE b = c
          BY <1>5, <4>1, <5>1 DEF SendAndWait, Send, SendReturns, WaitReturns, Leave
        <5>2. CASE b # c
          BY <3>1, <4>1, <5>2 DEF SendAndWait, Subscribe, Send, SendReturns, WaitReturns,
             Leave, Goto, Finish
        <5> QED
          BY <5>1, <5>2
      <4>2. ASSUME \A b \in Callers : ~SendAndWait(b)
            PROVE  UNCHANGED pc
        BY <4>2 DEF Next, AppOn, AppOff, readLoop, ReadResponse, ReadEvent, dispatchEvent,
           Server, ServerAnswer, ServerEmit, DisconnectStep, Disconnect, DestroyReturns,
           CloseEventCh, ClearHandlers, callVars, vars
      <4> QED
        BY <4>1, <4>2
    <3> QED
      BY <3>2 DEF New
  <2>3. Registered(c)' => Registered(c)
    BY <1>3, <2>2
  <2> QED
    BY <1>1, <1>2, <2>1, <2>3, HeardKept
<1> QED
  BY <1>4, <1>5

\* The consumer receives an event, or calls a handler.
LEMMA HeardConsumer ==
  ASSUME TypeOK, Registry, [Next]_vars, OneTurnEach, OwnTurnOnly, NEW c \in Callers,
         NEW k \in 0..emitted, Numbered(k), Served(k), HeardUpTo(c, k), processEvents
  PROVE  IF Receive THEN HeardUpTo(c, k + 1)' ELSE HeardUpTo(c, k)'
<1>1. UNCHANGED <<handlers, alone, said>> /\ k \in Nat /\ said[c] \in Nat
  BY QueueElements DEF processEvents, Receive, CallHandler, HandlerRequestReturns, HandlersDone,
         ConsumerEnd, onVars, serverVars, TypeOK, ServerTypes
<1>2. Registered(c)' <=> Registered(c)
  BY <1>1 DEF Registered
<1>3. CASE Receive
  <2>1. ToCall(c)' <=> Registered(c)
    BY <1>3, SnapshotOfAll
  <2>2. ~ToCall(c) /\ UNCHANGED lastMessage
    BY <1>3 DEF Receive, Served, ToCall, callVars
  <2>3. said[c] < k + 1 => said[c] <= k
    BY <1>1
  <2>4. HeardUpTo(c, k + 1)'
    BY <1>1, <1>2, <2>1, <2>2, <2>3 DEF HeardUpTo
  <2> QED
    BY <1>3, <2>4
<1>4. CASE HandlerRequestReturns \/ HandlersDone \/ ConsumerEnd
  <2>1. UNCHANGED <<todo, lastMessage>> /\ ~Receive
    BY <1>4 DEF HandlerRequestReturns, HandlersDone, ConsumerEnd, Receive, callVars
  <2>2. ToCall(c)' <=> ToCall(c)
    BY <2>1 DEF ToCall
  <2> QED
    BY <1>1, <1>2, <2>1, <2>2, HeardKept
<1>5. CASE CallHandler
  <2>0. ~Receive
    BY <1>5 DEF CallHandler, Receive
  <2>1. PICK h \in Subscribers :
          /\ h = Head(todo) /\ ToCall(h) /\ ~ToCall(h)'
          /\ \A g \in Subscribers \ {h} : ToCall(g)' <=> ToCall(g)
    BY <1>1, <1>5, Calling
  <2>2. (h \in Callers /\ CallerHandler(h)) \/ (h \notin Callers /\ UNCHANGED <<idleCh, lastMessage>>)
    BY <1>5, <2>1 DEF CallHandler
  <2>3. CASE h # c
    <3>1. lastMessage'[c] = lastMessage[c]
      BY <2>2, <2>3, Handling DEF TypeOK, CallTypes
    <3>2. ToCall(c)' <=> ToCall(c)
      BY <2>1, <2>3
    <3> QED
      BY <1>1, <1>2, <2>0, <3>1, <3>2, HeardKept
  <2>4. CASE h = c
    <3>1. current # NoEvent /\ current \in InFlight /\ current.n = k
      BY <1>5 DEF CallHandler, Served, InFlight, Numbered
    <3>2. CallerHandler(c) /\ ToCall(c) /\ ~ToCall(c)'
      BY <2>1, <2>2, <2>4
    <3>3. ASSUME alone[c], Registered(c), said[c] <= k
          PROVE  lastMessage'[c].n = said[c]
      <4>1. current.turn = c
        BY <3>2, <3>3 DEF OwnTurnOnly, OwnTurn
      <4>2. /\ current.kind = "message" => k <= said[c]
            /\ k = said[c] => current.kind = "message"
        BY <3>1, <4>1 DEF OneTurnEach
      <4>3. CASE current.kind = "message"
        <5>1. lastMessage' = [lastMessage EXCEPT ![c] = current]
          BY <3>2, <4>3, Handling
        <5>2. lastMessage'[c] = current
          BY <5>1 DEF TypeOK, CallTypes
        <5> QED
          BY <1>1, <3>1, <3>3, <4>2, <4>3, <5>2
      <4>4. CASE current.kind # "message"
        <5>1. UNCHANGED lastMessage
          BY <3>2, <4>4, Handling
        <5>2. said[c] < k
          BY <1>1, <3>3, <4>2, <4>4
        <5> QED
          BY <3>2, <3>3, <5>1, <5>2 DEF HeardUpTo
      <4> QED
        BY <4>3, <4>4
    <3>4. HeardUpTo(c, k)'
      BY <1>1, <1>2, <3>2, <3>3 DEF HeardUpTo
    <3> QED
      BY <2>0, <3>4
  <2> QED
    BY <2>3, <2>4
<1> QED
  BY <1>3, <1>4, <1>5 DEF processEvents

\* Calls of SendAndWait made one after the other, each of which ended with an
\* idle event or was refused, return the last message of their own turn, when that
\* turn is over: for any number of calls, handlers, Disconnects and events.
THEOREM OwnAnswers == Spec => []SequentialCallsGetOwnAnswer
<1> DEFINE Inv == AskedOnce /\ OneTurnEach /\ OneAtATime /\ OwnTurnOnly /\ HeardInOrder
<1>1. Init => Registry /\ Inv
  <2> SUFFICES ASSUME Init PROVE Registry /\ Inv
    OBVIOUS
  <2>1. Registry /\ InOrder
    BY InitQueue
  <2>2. /\ Len(wire) = 0 /\ Len(eventCh) = 0 /\ Len(todo) = 0 /\ Len(turns) = 0 /\ emitted = 0
        /\ loopEvent = NoEvent /\ current = NoEvent /\ finished = {} /\ requests = {}
    BY DEF Init
  <2>3. InFlight = {} /\ Pending = {}
    BY <2>2 DEF InFlight, Pending
  <2>4. \A c \in Callers : /\ ~alone[c] /\ ~idleCh[c] /\ said[c] = 0 /\ pc[c] = "idle"
                           /\ lastMessage[c].n = 0 /\ reply[c] = "none" /\ outcome[c] = "none"
                           /\ Answers(c) = {}
    BY <2>2 DEF Init, NoEvent, Answers
  <2>5. AskedOnce
    BY <2>2, <2>3, <2>4 DEF AskedOnce, Asked, Unaccepted, InTurns
  <2>6. OneTurnEach /\ OneAtATime
    BY <2>2, <2>3, <2>4 DEF OneTurnEach, OneAtATime
  <2>7. OwnTurnOnly
    BY <2>4 DEF OwnTurnOnly, OwnTurn
  <2>8. HeardInOrder
    BY <2>1, <2>4 DEF InOrder, HeardInOrder, Heard, HeardUpTo
  <2> QED
    BY <2>1, <2>5, <2>6, <2>7, <2>8
<1>2. TypeOK /\ Registry /\ Inv /\ [Next]_vars => Inv'
  <2> SUFFICES ASSUME TypeOK, Registry, Inv, [Next]_vars PROVE Inv'
    OBVIOUS
  <2>1. PICK k \in 0..emitted : Numbered(k) /\ Served(k) /\ Heard(k)
    BY DEF HeardInOrder
  <2>2. AskedOnce'
    BY AskedStep DEF AskedOnce
  <2>3. OneTurnEach'
    BY <2>1, TurnStep
  <2>4. OneAtATime'
    BY OneAtATimeStep
  <2>5. OwnTurnOnly'
    BY <2>1, OwnTurnStep
  <2>6. HeardInOrder'
    <3>1. CASE Receive
      <4>1. processEvents
        BY <3>1 DEF processEvents
      <4>2. k + 1 \in 0..emitted' /\ Numbered(k + 1)' /\ Served(k + 1)'
        BY <2>1, <3>1, QueueStep
      <4>3. \A c \in Callers : HeardUpTo(c, k + 1)'
        BY <2>1, <3>1, <4>1, HeardConsumer DEF Heard
      <4> QED
        BY <4>2, <4>3 DEF HeardInOrder, Heard
    <3>2. CASE ~Receive
      <4>1. k \in 0..emitted' /\ Numbered(k)' /\ Served(k)'
        BY <2>1, <3>2, QueueStep
      <4>2. \A c \in Callers : HeardUpTo(c, k)'
        BY <2>1, <3>2, HeardConsumer, HeardCaller DEF Heard
      <4> QED
        BY <4>1, <4>2 DEF HeardInOrder, Heard
    <3> QED
      BY <3>1, <3>2
  <2> QED
    BY <2>2, <2>3, <2>4, <2>5, <2>6
<1>3. Inv => SequentialCallsGetOwnAnswer
  BY DEF OwnTurnOnly, OwnTurn, SequentialCallsGetOwnAnswer
<1> HIDE DEF Inv
<1> QED
  BY <1>1, <1>2, <1>3, SessionTyped, RegistryStep, PTL DEF Spec
=============================================================================
