------------------------- MODULE NodeSessionProofs -------------------------
(***************************************************************************)
(* Safety of one session of the Node.js SDK, for any tasks, handlers,      *)
(* requests and bounds: types, who is called by a dispatch, the            *)
(* capabilities of the session, the answers to the server's requests and   *)
(* what sendAndWait returns.                                               *)
(***************************************************************************)
EXTENDS NodeSession, SequenceTheorems, TLAPS

USE SessionAssumption, NoneAssumption

Typed ==
  /\ TypeOK
  /\ inbox \in Seq(Messages)
  /\ dispatch # None => dispatch \in Dispatches

----------------------------------------------------------------------------
(* Types *)

\* What the bounds of a behaviour are.
LEMMA LimitsTyped ==
  ASSUME Typed
  PROVE  /\ limits.kind \in [Requests -> Broadcast \cup Routed \cup {"none"}]
         /\ limits.types \subseteq TurnEvents \cup {"capabilities", "lifecycle"}
         /\ limits.handled \in BOOLEAN
BY DEF Typed, TypeOK

\* The message the client takes.
LEMMA HeadTyped ==
  ASSUME Typed, inbox # <<>>
  PROVE  /\ Head(inbox) \in Messages /\ WellTyped(Head(inbox)) /\ Head(inbox) = inbox[1]
         /\ Tail(inbox) \in Seq(Messages)
         /\ Len(inbox) \in Nat /\ 1 \in 1..Len(inbox) /\ Len(Tail(inbox)) = Len(inbox) - 1
         /\ \A i \in 1..Len(Tail(inbox)) :
              i + 1 \in 1..Len(inbox) /\ Tail(inbox)[i] = inbox[i + 1]
<1>1. inbox \in Seq(Messages) /\ Len(inbox) \in Nat /\ \A i \in 1..Len(inbox) : WellTyped(inbox[i])
  BY LenProperties DEF Typed, TypeOK
<1>2. 1 \in 1..Len(inbox) /\ Head(inbox) = inbox[1] /\ inbox[1] \in Messages
  BY <1>1, EmptySeq, ElementOfSeq, HeadTailProperties
<1> QED
  BY <1>1, <1>2, HeadTailProperties

\* What is in the inbox after a message was added to it.
LEMMA EmitsTyped ==
  ASSUME Typed, NEW m \in Messages, WellTyped(m), Emits(m)
  PROVE  /\ inbox' \in Seq(Messages) /\ Len(inbox) \in Nat
         /\ Len(inbox') = Len(inbox) + 1 /\ inbox'[Len(inbox) + 1] = m
         /\ \A i \in 1..Len(inbox) : inbox'[i] = inbox[i]
         /\ \A i \in 1..Len(inbox') : WellTyped(inbox'[i])
<1>1. /\ inbox \in Seq(Messages) /\ inbox' = Append(inbox, m) /\ Len(inbox) \in Nat
      /\ \A i \in 1..Len(inbox) : WellTyped(inbox[i])
  BY LenProperties DEF Typed, TypeOK, Emits
<1>2. /\ inbox' \in Seq(Messages)
      /\ Len(inbox') = Len(inbox) + 1 /\ inbox'[Len(inbox) + 1] = m
      /\ \A i \in 1..Len(inbox) : inbox'[i] = inbox[i]
  BY <1>1, AppendProperties
<1>3. \A i \in 1..Len(inbox') : i \in 1..Len(inbox) \/ i = Len(inbox) + 1
  BY <1>1, <1>2
<1> QED
  BY <1>1, <1>2, <1>3

ServerRecords ==
  [created : BOOLEAN, capabilities : BOOLEAN, turns : Nat, queue : Seq(Nat),
   said : [1..MaxTurns -> Nat], pending : SUBSET Tasks, taken : SUBSET Tasks,
   replied : SUBSET (Requests \X Nat), events : Nat, changes : Nat]

Asking(m) == m.type \in Broadcast \cup Routed
AboutCapabilities(m) == m.type \in {"created", "capabilities"}

\* What the server puts into the inbox, and what it notes of it.
LEMMA ServerEffects ==
  ASSUME Typed, ServerNext
  PROVE  \/ UNCHANGED <<inbox, request, server.created, server.capabilities, server.replied>>
         \/ \E m \in Messages :
              /\ Emits(m) /\ WellTyped(m)
              /\ \/ /\ m.type = "created" /\ m.about = server.capabilities
                    /\ ~server.created /\ server'.created
                    /\ UNCHANGED <<request, server.capabilities, server.replied>>
                 \/ /\ m.type = "capabilities" /\ m.about = server'.capabilities
                    /\ UNCHANGED <<request, server.created, server.replied>>
                 \/ /\ ~AboutCapabilities(m) /\ ~Asking(m) /\ m.type # "reply"
                    /\ UNCHANGED <<request, server.created, server.capabilities, server.replied>>
                 \/ \E r \in Requests : /\ ServerAsks(r) /\ m.about = r /\ Asking(m)
                                        /\ UNCHANGED server
                 \/ \E r \in Requests : /\ ServerReplies(r) /\ m.about = r /\ m.type = "reply"
                                        /\ UNCHANGED <<request, server.created, server.capabilities>>
<1> USE DEF Message, Messages, MessageTypes, WellTyped, EventTypes, Asking, AboutCapabilities
<1>1. /\ server \in ServerRecords /\ server.capabilities \in BOOLEAN /\ server.events + 1 \in Nat
  BY DEF Typed, TypeOK, ServerTypes, ServerRecords
<1>2. ASSUME ServerCreates
      PROVE  \E m \in Messages :
               /\ Emits(m) /\ WellTyped(m) /\ m.type = "created" /\ m.about = server.capabilities
               /\ ~server.created /\ server'.created
               /\ UNCHANGED <<request, server.capabilities, server.replied>>
  <2>1. PICK ok \in BOOLEAN : Emits(Message("created", server.capabilities, ok))
    BY <1>2 DEF ServerCreates
  <2>2. WellTyped(Message("created", server.capabilities, ok))
        /\ Message("created", server.capabilities, ok) \in Messages
    BY <1>1 DEF TurnEvents, Broadcast, Routed
  <2>3. /\ ~server.created /\ server'.created
        /\ UNCHANGED <<request, server.capabilities, server.replied>>
    BY <1>1, <1>2 DEF ServerCreates, ServerRecords
  <2> QED
    BY <2>1, <2>2, <2>3
<1>3. ASSUME NEW t \in Tasks, ServerAnswers(t)
      PROVE  \E m \in Messages :
               /\ Emits(m) /\ WellTyped(m)
               /\ ~AboutCapabilities(m) /\ ~Asking(m) /\ m.type # "reply"
               /\ UNCHANGED <<request, server.created, server.capabilities, server.replied>>
  <2>1. PICK ok \in BOOLEAN : Emits(Message("answer", t, ok))
    BY <1>3 DEF ServerAnswers
  <2>2. WellTyped(Message("answer", t, ok)) /\ Message("answer", t, ok) \in Messages
    BY DEF TurnEvents, Broadcast, Routed
  <2>3. ~AboutCapabilities(Message("answer", t, ok)) /\ ~Asking(Message("answer", t, ok))
    BY DEF Broadcast, Routed
  <2>4. UNCHANGED <<request, server.created, server.capabilities, server.replied>>
    BY <1>1, <1>3 DEF ServerAnswers, ServerRecords
  <2> QED
    BY <2>1, <2>2, <2>3, <2>4
<1>4. ASSUME ServerEmits
      PROVE  \E m \in Messages :
               /\ Emits(m) /\ WellTyped(m)
               /\ ~AboutCapabilities(m) /\ ~Asking(m) /\ m.type # "reply"
               /\ UNCHANGED <<request, server.created, server.capabilities, server.replied>>
  <2>1. PICK type \in TurnEvents : Emits(Message(type, server.events + 1, FALSE))
    BY <1>4 DEF ServerEmits
  <2>2. /\ WellTyped(Message(type, server.events + 1, FALSE))
        /\ Message(type, server.events + 1, FALSE) \in Messages
    BY <1>1 DEF TurnEvents, Broadcast, Routed
  <2>3. /\ ~AboutCapabilities(Message(type, server.events + 1, FALSE))
        /\ ~Asking(Message(type, server.events + 1, FALSE)) /\ type # "reply"
    BY DEF TurnEvents, Broadcast, Routed
  <2>4. UNCHANGED <<request, server.created, server.capabilities, server.replied>>
    BY <1>1, <1>4 DEF ServerEmits, ServerRecords
  <2> QED
    BY <2>1, <2>2, <2>3, <2>4
<1>5. ASSUME ServerNotifies
      PROVE  \E m \in Messages :
               /\ Emits(m) /\ WellTyped(m)
               /\ \/ /\ m.type = "capabilities" /\ m.about = server'.capabilities
                     /\ UNCHANGED <<request, server.created, server.replied>>
                  \/ /\ ~AboutCapabilities(m) /\ ~Asking(m) /\ m.type # "reply"
                     /\ UNCHANGED <<request, server.created, server.capabilities, server.replied>>
  <2>1. CASE /\ Emits(Message("capabilities", ~server.capabilities, FALSE))
             /\ server' = [server EXCEPT !.events = @ + 1, !.capabilities = ~@]
    <3>1. PICK b \in BOOLEAN : b = ~server.capabilities
      BY <1>1
    <3>2. WellTyped(Message("capabilities", b, FALSE)) /\ Message("capabilities", b, FALSE) \in Messages
      BY DEF TurnEvents, Broadcast, Routed
    <3>3. server'.capabilities = b /\ UNCHANGED <<request, server.created, server.replied>>
      <4>1. server' = [server EXCEPT !.events = server.events + 1, !.capabilities = b]
        BY <1>1, <2>1, <3>1 DEF ServerRecords
      <4> QED
        BY <1>1, <1>5, <4>1 DEF ServerNotifies, ServerRecords
    <3> QED
      BY <2>1, <3>1, <3>2, <3>3
  <2>2. CASE /\ Emits(Message("lifecycle", 0, FALSE))
             /\ server' = [server EXCEPT !.events = @ + 1]
    <3>1. WellTyped(Message("lifecycle", 0, FALSE)) /\ Message("lifecycle", 0, FALSE) \in Messages
      BY DEF TurnEvents, Broadcast, Routed
    <3>2. ~AboutCapabilities(Message("lifecycle", 0, FALSE)) /\ ~Asking(Message("lifecycle", 0, FALSE))
      BY DEF Broadcast, Routed
    <3>3. UNCHANGED <<request, server.created, server.capabilities, server.replied>>
      BY <1>1, <1>5, <2>2 DEF ServerNotifies, ServerRecords
    <3> QED
      BY <2>2, <3>1, <3>2, <3>3
  <2> QED
    BY <1>5, <2>1, <2>2 DEF ServerNotifies
<1>6. ASSUME NEW r \in Requests, ServerAsks(r)
      PROVE  \E m \in Messages :
               /\ Emits(m) /\ WellTyped(m) /\ m.about = r /\ Asking(m) /\ UNCHANGED server
  <2>1. PICK ok \in BOOLEAN : Emits(Message(Kind(r), r, ok))
    BY <1>6 DEF ServerAsks
  <2>2. PICK k \in Broadcast \cup Routed : k = Kind(r)
    BY <1>6, LimitsTyped DEF ServerAsks, Kind
  <2>3. WellTyped(Message(k, r, ok)) /\ Message(k, r, ok) \in Messages
    BY <2>2 DEF TurnEvents, Broadcast, Routed
  <2>4. UNCHANGED server
    BY <1>6 DEF ServerAsks
  <2> QED
    BY <2>1, <2>2, <2>3, <2>4
<1>7. ASSUME NEW r \in Requests, ServerReplies(r)
      PROVE  \E m \in Messages :
               /\ Emits(m) /\ WellTyped(m) /\ m.about = r /\ m.type = "reply"
               /\ UNCHANGED <<request, server.created, server.capabilities>>
  <2>1. PICK ok \in BOOLEAN : Emits(Message("reply", r, ok))
    BY <1>7 DEF ServerReplies
  <2>2. Kind(r) # "none"
    BY <1>7 DEF ServerReplies, Typed, TypeOK, RequestTypes
  <2>3. WellTyped(Message("reply", r, ok)) /\ Message("reply", r, ok) \in Messages
    BY <2>2 DEF TurnEvents, Broadcast, Routed
  <2>4. UNCHANGED <<request, server.created, server.capabilities>>
    BY <1>1, <1>7 DEF ServerReplies, ServerRecords
  <2> QED
    BY <2>1, <2>3, <2>4
<1>8. ASSUME NEW t \in Tasks, ServerTakes(t)
      PROVE  UNCHANGED <<inbox, request, server.created, server.capabilities, server.replied>>
  BY <1>1, <1>8 DEF ServerTakes, ServerRecords
<1> HIDE DEF Message, Messages, MessageTypes, WellTyped, EventTypes, Asking, AboutCapabilities
<1> QED
  BY <1>2, <1>3, <1>4, <1>5, <1>6, <1>7, <1>8, ZenonT(60) DEF ServerNext

\* Which steps change what.
LEMMA ChangesOf ==
  ASSUME Typed, [Next]_vars
  PROVE  /\ UNCHANGED limits
         /\ UNCHANGED inbox \/ Receive \/ Dispose \/ ServerNext
         /\ \/ UNCHANGED session \/ ReceiveEvent \/ ReceiveCreated \/ ReceiveAnswer
            \/ Dispose \/ Forget
         /\ UNCHANGED connection \/ Dispose \/ Close
         /\ \/ UNCHANGED dispatch \/ ReceiveEvent \/ ReceiveLifecycle \/ DispatchEnds
            \/ (\E t \in Tasks : CallWaiter(t)) \/ (\E h \in Handlers : CallHandler(h))
         /\ \/ UNCHANGED request \/ ReceiveEvent \/ ReceiveCall \/ ReceiveReply
            \/ (\E r \in Requests : HandlerReturns(r) \/ ServerAsks(r)) \/ Dispose
         /\ \/ UNCHANGED server \/ ServerNext
            \/ \E n \in Nat : server' = [server EXCEPT !.changes = n]
            \/ \E ts \in SUBSET Tasks : server' = [server EXCEPT !.pending = ts]
<1> USE DEF Receive, ReceiveEvent, ReceiveLifecycle, ReceiveCall, ReceiveReply, ReceiveCreated,
            ReceiveAnswer, CallWaiter, CallHandler, DispatchEnds, Traced, Timeout, Calls,
            ApplicationChanges, HandlerReturns, Dispose, Close, Forget
<1>1. server.changes + 1 \in Nat /\ server.pending \subseteq Tasks
  BY DEF Typed, TypeOK, ServerTypes
<1>2. ASSUME Receive \/ DispatchEnds \/ \E t \in Tasks : CallWaiter(t)
      PROVE  /\ UNCHANGED <<limits, connection, server>> /\ (UNCHANGED inbox \/ Receive)
             /\ UNCHANGED session \/ ReceiveEvent \/ ReceiveCreated \/ ReceiveAnswer
             /\ \/ UNCHANGED dispatch \/ ReceiveEvent \/ ReceiveLifecycle \/ DispatchEnds
                \/ \E t \in Tasks : CallWaiter(t)
             /\ UNCHANGED request \/ ReceiveEvent \/ ReceiveCall \/ ReceiveReply
  BY <1>2
<1>3. ASSUME NEW h \in Handlers, CallHandler(h) \/ ApplicationChanges(h)
      PROVE  /\ UNCHANGED <<limits, connection, inbox, session, request>>
             /\ UNCHANGED dispatch \/ CallHandler(h)
             /\ UNCHANGED server \/ \E n \in Nat : server' = [server EXCEPT !.changes = n]
  BY <1>1, <1>3 DEF MayChange
<1>4. ASSUME NEW t \in Tasks, TaskNext(t)
      PROVE  /\ UNCHANGED <<limits, connection, inbox, session, dispatch, request>>
             /\ \/ UNCHANGED server
                \/ \E ts \in SUBSET Tasks : server' = [server EXCEPT !.pending = ts]
  <2>1. CASE UNCHANGED server
    BY <1>4, <2>1 DEF TaskNext, send, sendAndWait, disconnect, ask, elicit, Ask
  <2>2. CASE server' = [server EXCEPT !.pending = server.pending \cup {t}]
    BY <1>1, <1>4, <2>2 DEF TaskNext, send, sendAndWait, disconnect, ask, elicit, Ask
  <2>3. UNCHANGED server \/ server' = [server EXCEPT !.pending = server.pending \cup {t}]
    BY <1>4, SMTT(60) DEF TaskNext, send, sendAndWait, disconnect, ask, elicit, Ask
  <2> QED
    BY <2>1, <2>2, <2>3
<1>5. ASSUME ServerNext
      PROVE  /\ UNCHANGED <<limits, connection, session, subs, slots, dispatch>>
             /\ UNCHANGED request \/ \E r \in Requests : ServerAsks(r)
  BY <1>5 DEF ServerNext, ServerSteps, ServerCreates, ServerTakes, ServerAnswers, ServerEmits,
     ServerNotifies, ServerAsks, ServerReplies
<1>6. ASSUME NEW r \in Requests, HandlerReturns(r)
      PROVE  UNCHANGED <<limits, connection, inbox, session, dispatch, server>>
  BY <1>6
<1>7. ASSUME Dispose \/ Close \/ Forget
      PROVE  /\ UNCHANGED <<limits, dispatch, server>> /\ (UNCHANGED inbox \/ Dispose)
             /\ UNCHANGED session \/ Dispose \/ Forget
             /\ UNCHANGED connection \/ Dispose \/ Close
             /\ UNCHANGED request \/ Dispose
  BY <1>7
<1>8. CASE UNCHANGED vars
  BY <1>8 DEF vars
<1> HIDE DEF Receive, ReceiveEvent, ReceiveLifecycle, ReceiveCall, ReceiveReply, ReceiveCreated,
            ReceiveAnswer, CallWaiter, CallHandler, DispatchEnds, Traced, Timeout, Calls,
            ApplicationChanges, HandlerReturns, Dispose, Close, Forget
<1>9. \/ Receive \/ DispatchEnds \/ (\E t \in Tasks : CallWaiter(t))
      \/ (\E h \in Handlers : CallHandler(h) \/ ApplicationChanges(h))
      \/ (\E t \in Tasks : TaskNext(t)) \/ ServerNext
      \/ (\E r \in Requests : HandlerReturns(r)) \/ Dispose \/ Close \/ Forget
      \/ UNCHANGED vars
  BY DEF Next, ThreadNext
<1>10. CASE Receive \/ DispatchEnds \/ \E t \in Tasks : CallWaiter(t)
  BY <1>2, <1>10
<1>11. CASE \E h \in Handlers : CallHandler(h) \/ ApplicationChanges(h)
  BY <1>3, <1>11
<1>12. CASE \E t \in Tasks : TaskNext(t)
  BY <1>4, <1>12
<1>13. CASE ServerNext
  BY <1>5, <1>13
<1>14. CASE \E r \in Requests : HandlerReturns(r)
  BY <1>6, <1>14
<1>15. CASE Dispose \/ Close \/ Forget
  BY <1>7, <1>15
<1> QED
  BY <1>8, <1>9, <1>10, <1>11, <1>12, <1>13, <1>14, <1>15

LEMMA ReceiveTakes ==
  ASSUME Receive
  PROVE  Take /\ UNCHANGED <<limits, connection, server>>
BY DEF Receive, ReceiveEvent, ReceiveLifecycle, ReceiveCall, ReceiveReply, ReceiveCreated,
       ReceiveAnswer

LEMMA InboxStep ==
  ASSUME Typed, [Next]_vars
  PROVE  inbox' \in Seq(Messages) /\ \A i \in 1..Len(inbox') : WellTyped(inbox'[i])
<1>1. CASE UNCHANGED inbox
  BY <1>1 DEF Typed, TypeOK
<1>2. CASE Receive
  <2>1. inbox # <<>> /\ inbox' = Tail(inbox)
    BY <1>2, ReceiveTakes DEF Take
  <2>2. \A i \in 1..Len(inbox) : WellTyped(inbox[i])
    BY DEF Typed, TypeOK
  <2> QED
    BY <2>1, <2>2, HeadTyped
<1>3. CASE Dispose
  BY <1>3, EmptySeq DEF Dispose
<1>4. CASE ServerNext
  <2>1. CASE UNCHANGED inbox
    BY <1>1, <2>1
  <2>2. ASSUME NEW m \in Messages, WellTyped(m), Emits(m)
        PROVE  inbox' \in Seq(Messages) /\ \A i \in 1..Len(inbox') : WellTyped(inbox'[i])
    BY <2>2, EmitsTyped
  <2> QED
    BY <1>4, <2>1, <2>2, ServerEffects
<1> QED
  BY <1>1, <1>2, <1>3, <1>4, ChangesOf

LEMMA SessionStep ==
  ASSUME Typed, [Next]_vars
  PROVE  session' \in [Fields -> BOOLEAN]
<1>1. session \in [Fields -> BOOLEAN]
  BY DEF Typed, TypeOK
<1>2. CASE UNCHANGED session
  BY <1>1, <1>2
<1>3. ASSUME inbox # <<>>, Head(inbox).type \in {"created", "capabilities"}
      PROVE  Head(inbox).about \in BOOLEAN
  BY <1>3, HeadTyped DEF WellTyped
<1>4. CASE ReceiveEvent
  BY <1>1, <1>3, <1>4 DEF ReceiveEvent, Take, Fields
<1>5. CASE ReceiveCreated
  BY <1>1, <1>3, <1>5 DEF ReceiveCreated, Take, Fields
<1>6. CASE ReceiveAnswer
  <2>1. UNCHANGED session \/ session' = [session EXCEPT !.tool = FALSE, !.permission = FALSE]
    BY <1>6, Zenon DEF ReceiveAnswer
  <2>2. [session EXCEPT !.tool = FALSE, !.permission = FALSE] \in [Fields -> BOOLEAN]
    BY <1>1
  <2> QED
    BY <1>1, <2>1, <2>2
<1>7. CASE Dispose \/ Forget
  BY <1>1, <1>7, ZenonT(60) DEF Dispose, Forget, Fields
<1> QED
  BY <1>2, <1>4, <1>5, <1>6, <1>7, ChangesOf

\* A dispatch that runs, and what its parts are.
LEMMA DispatchTyped ==
  ASSUME Typed, dispatch # None
  PROVE  /\ dispatch \in Dispatches /\ dispatch.event \in Messages
         /\ dispatch.owed \subseteq Keys /\ WellTyped(dispatch.event)
         /\ dispatch.cursor \in [any : BOOLEAN, place : Nat]
BY DEF Typed, TypeOK, DispatchTypes, Dispatches

LEMMA RankTyped ==
  ASSUME Typed, NEW k \in Keys
  PROVE  subs[k] \in Nat /\ Rank(k) \in [any : BOOLEAN, place : Nat]
BY DEF Typed, TypeOK, SubscriberTypes, Rank

\* What a call in a dispatch does to it.
LEMMA CallStep ==
  ASSUME Typed, \/ \E t \in Tasks : CallWaiter(t)
                \/ \E h \in Handlers : CallHandler(h)
  PROVE  /\ dispatch # None /\ dispatch' \in Dispatches
         /\ dispatch'.event = dispatch.event
         /\ \E k \in Keys :
              /\ IsNext(k) /\ dispatch'.cursor = Rank(k)
              /\ dispatch'.owed \subseteq dispatch.owed \ {k}
              /\ \/ UNCHANGED subs
                 \/ \A j \in dispatch'.owed : subs'[j] # 0
<1>1. dispatch # None
  BY DEF CallWaiter, CallHandler
<1>2. PICK k \in Keys : /\ IsNext(k)
                        /\ \/ dispatch' = Called(k) /\ UNCHANGED subs
                           \/ dispatch' = [Called(k) EXCEPT !.owed = {j \in @ : subs'[j] # 0}]
  BY DEF CallWaiter, CallHandler, Keys
<1>3. dispatch \in Dispatches /\ Rank(k) \in [any : BOOLEAN, place : Nat]
  BY <1>1, DispatchTyped, RankTyped
<1>4. CASE dispatch' = Called(k) /\ UNCHANGED subs
  BY <1>1, <1>2, <1>3, <1>4 DEF Called, Dispatches
<1>5. CASE dispatch' = [Called(k) EXCEPT !.owed = {j \in @ : subs'[j] # 0}]
  <2> DEFINE d == Called(k)
             owed == {j \in d.owed : subs'[j] # 0}
  <2>1. /\ d \in Dispatches /\ d.event = dispatch.event /\ d.cursor = Rank(k)
        /\ d.owed = dispatch.owed \ {k}
    BY <1>3 DEF Called, Dispatches
  <2>2. owed \subseteq d.owed /\ owed \subseteq Keys
    BY <2>1, DispatchTyped, <1>1
  <2>3. dispatch' = [d EXCEPT !.owed = owed]
    BY <1>5
  <2> HIDE DEF d
  <2>4. dispatch' \in Dispatches /\ dispatch'.event = d.event /\ dispatch'.cursor = d.cursor
        /\ dispatch'.owed = owed
    BY <2>1, <2>2, <2>3 DEF Dispatches
  <2> QED
    BY <1>1, <1>2, <2>1, <2>2, <2>4
<1> QED
  BY <1>2, <1>4, <1>5

\* The same messages stay well typed.
LEMMA StillTyped ==
  ASSUME UNCHANGED limits, NEW m
  PROVE  WellTyped(m)' <=> WellTyped(m)
BY DEF WellTyped, Kind

LEMMA DispatchStep ==
  ASSUME Typed, [Next]_vars
  PROVE  (dispatch' # None => dispatch' \in Dispatches) /\ DispatchTypes'
<1>. UNCHANGED limits /\ \A m : (WellTyped(m))' <=> WellTyped(m)
  BY ChangesOf, StillTyped
<1>1. CASE UNCHANGED dispatch
  BY <1>1 DEF Typed, TypeOK, DispatchTypes
<1>2. CASE ReceiveEvent \/ ReceiveLifecycle
  <2>1. UNCHANGED dispatch \/ (inbox # <<>> /\ Dispatch(Head(inbox)))
    BY <1>2 DEF ReceiveEvent, ReceiveLifecycle, Take
  <2>2. CASE inbox # <<>> /\ Dispatch(Head(inbox))
    <3>1. PICK m \in Messages : m = Head(inbox) /\ WellTyped(m)
      BY <2>2, HeadTyped
    <3>2. dispatch' = [event |-> m, cursor |-> [any |-> FALSE, place |-> 0],
                       owed |-> {k \in Keys : Hears(k, m)}]
      BY <2>2, <3>1 DEF Dispatch
    <3> QED
      BY <3>1, <3>2 DEF Dispatches, DispatchTypes
  <2> QED
    BY <1>1, <2>1, <2>2
<1>3. CASE DispatchEnds
  BY <1>3 DEF DispatchEnds, DispatchTypes
<1>4. CASE (\E t \in Tasks : CallWaiter(t)) \/ (\E h \in Handlers : CallHandler(h))
  <2>1. dispatch # None /\ dispatch' \in Dispatches /\ dispatch'.event = dispatch.event
    BY <1>4, CallStep
  <2>2. WellTyped(dispatch'.event)
    BY <2>1, DispatchTyped
  <2> QED
    BY <2>1, <2>2 DEF Dispatches, DispatchTypes
<1> QED
  BY <1>1, <1>2, <1>3, <1>4, ChangesOf

\* Subscribers get the next place, lose theirs, or keep it.
LEMMA SubscribersChange ==
  ASSUME Typed, [Next]_vars
  PROVE  \/ \E k \in Keys : on(k)
         \/ /\ UNCHANGED slots /\ subs' \in [Keys -> Nat]
            /\ \A k \in Keys : subs'[k] = subs[k] \/ subs'[k] = 0
<1> DEFINE Shrinks == /\ UNCHANGED slots /\ subs' \in [Keys -> Nat]
                      /\ \A k \in Keys : subs'[k] = subs[k] \/ subs'[k] = 0
<1>1. subs \in [Keys -> Nat]
  BY DEF Typed, TypeOK, SubscriberTypes
<1>2. CASE UNCHANGED <<subs, slots>>
  BY <1>1, <1>2
<1>3. ASSUME NEW ts, subs' = Finished(ts), UNCHANGED slots
      PROVE  Shrinks
  BY <1>1, <1>3 DEF Finished
<1>4. ASSUME NEW h \in Handlers, Changes(h) \/ ClientChanges(h)
      PROVE  Shrinks \/ on(h)
  BY <1>1, <1>4 DEF Changes, ClientChanges, unsubscribe
<1>5. ASSUME NEW h \in Handlers, CallHandler(h) \/ ApplicationChanges(h)
      PROVE  Shrinks \/ \E k \in Keys : on(k)
  <2>1. UNCHANGED <<subs, slots>> \/ \E g \in Handlers : Changes(g) \/ ClientChanges(g)
    BY <1>5 DEF CallHandler, ApplicationChanges
  <2>2. Handlers \subseteq Keys
    BY DEF Keys
  <2> QED
    BY <1>1, <1>4, <2>1, <2>2
<1>6. ASSUME Receive \/ DispatchEnds \/ \E t \in Tasks : CallWaiter(t)
      PROVE  Shrinks
  <2>1. CASE UNCHANGED <<subs, slots>>
    BY <1>1, <2>1
  <2>2. CASE DispatchEnds
    BY <1>3, <2>2 DEF DispatchEnds
  <2>3. CASE ReceiveAnswer
    <3>1. /\ UNCHANGED slots
          /\ \/ UNCHANGED subs
             \/ subs' = [k \in Keys |-> IF Subjects[k].of = "session" THEN 0 ELSE subs[k]]
             \/ subs' = Finished({Head(inbox).about})
      BY <2>3 DEF ReceiveAnswer
    <3>2. CASE UNCHANGED subs
      BY <1>1, <3>1, <3>2
    <3>3. CASE subs' = [k \in Keys |-> IF Subjects[k].of = "session" THEN 0 ELSE subs[k]]
      BY <1>1, <3>1, <3>3
    <3> QED
      BY <1>3, <3>1, <3>2, <3>3
  <2> QED
    BY <1>6, <2>1, <2>2, <2>3 DEF Receive, ReceiveEvent, ReceiveLifecycle, ReceiveCall,
       ReceiveReply, ReceiveCreated, CallWaiter
<1>7. ASSUME NEW t \in Tasks, TaskNext(t)
      PROVE  Shrinks \/ on(t)
  <2>1. /\ UNCHANGED slots /\ (UNCHANGED subs \/ subs' = Finished({t}))
        \/ on(t)
    BY <1>7, SMTT(60) DEF TaskNext, send, sendAndWait, disconnect, ask, elicit, Ask, Traced, Timeout
  <2> QED
    BY <1>1, <1>3, <2>1
<1>8. ASSUME ServerNext
      PROVE  UNCHANGED <<subs, slots>>
  BY <1>8 DEF ServerNext, ServerSteps, ServerCreates, ServerTakes, ServerAnswers, ServerEmits,
     ServerNotifies, ServerAsks, ServerReplies
<1>9. ASSUME Dispose \/ Close \/ Forget \/ \E r \in Requests : HandlerReturns(r)
      PROVE  Shrinks
  <2>1. CASE UNCHANGED <<subs, slots>>
    BY <1>1, <2>1
  <2>2. CASE Dispose
    BY <1>3, <2>2 DEF Dispose
  <2> QED
    BY <1>9, <2>1, <2>2 DEF Close, Forget, HandlerReturns
<1> HIDE DEF Shrinks
<1>10. \/ Receive \/ DispatchEnds \/ (\E t \in Tasks : CallWaiter(t))
       \/ (\E h \in Handlers : CallHandler(h) \/ ApplicationChanges(h))
       \/ (\E t \in Tasks : TaskNext(t)) \/ ServerNext
       \/ (\E r \in Requests : HandlerReturns(r)) \/ Dispose \/ Close \/ Forget
       \/ UNCHANGED vars
  BY DEF Next, ThreadNext
<1>11. UNCHANGED vars => UNCHANGED <<subs, slots>>
  BY DEF vars
<1>12. Shrinks \/ \E k \in Keys : on(k)
  <2>1. UNCHANGED <<subs, slots>> => Shrinks
    BY <1>1 DEF Shrinks
  <2>2. Tasks \subseteq Keys
    BY DEF Keys
  <2> QED
    BY <1>5, <1>6, <1>7, <1>8, <1>9, <1>10, <1>11, <2>1, <2>2
<1> QED
  BY <1>12 DEF Shrinks

LEMMA SubscribersStep ==
  ASSUME Typed, [Next]_vars
  PROVE  SubscriberTypes'
<1>1. SubscriberTypes
  BY DEF Typed, TypeOK
<1>2. ASSUME NEW k \in Keys, on(k)
      PROVE  SubscriberTypes'
  BY <1>1, <1>2 DEF SubscriberTypes, on, Subscribed
<1>3. ASSUME UNCHANGED slots, subs' \in [Keys -> Nat],
             \A k \in Keys : subs'[k] = subs[k] \/ subs'[k] = 0
      PROVE  SubscriberTypes'
  BY <1>1, <1>3 DEF SubscriberTypes
<1> QED
  BY <1>2, <1>3, SubscribersChange

TaskRecords ==
  [op : Ops \cup {"none"}, pc : Labels, calls : Nat, settled : {"pending", "idle", "error"},
   last : Nat, timer : BOOLEAN, turn : Nat, alone : BOOLEAN]

LEMMA TasksStep ==
  ASSUME Typed, [Next]_vars
  PROVE  TaskTypes'
<1> DEFINE Good(w) == w \in TaskRecords /\ (w.timer <=> w.pc = "waiting")
<1>1. task \in [Tasks -> TaskRecords] /\ \A t \in Tasks : Good(task[t])
  BY DEF Typed, TypeOK, TaskTypes, TaskRecords
<1>2. ASSUME UNCHANGED task
      PROVE  TaskTypes'
  BY <1>2 DEF Typed, TypeOK, TaskTypes
<1>3. ASSUME NEW t \in Tasks, NEW w, Good(w), task' = [task EXCEPT ![t] = w]
      PROVE  TaskTypes'
  BY <1>1, <1>3 DEF TaskTypes, TaskRecords
<1>4. ASSUME NEW ts, task' = Ended(ts)
      PROVE  TaskTypes'
  <2>1. \A n \in Nat : Good(Idle(n))
    BY DEF Idle, TaskRecords, Labels, Ops
  <2>2. \A t \in Tasks : task[t].calls \in Nat
    BY <1>1 DEF TaskRecords
  <2>3. \A t \in Tasks : Good(task'[t])
    BY <1>1, <1>4, <2>1, <2>2 DEF Ended
  <2>4. task' = [t \in Tasks |-> task'[t]]
    BY <1>4 DEF Ended
  <2> QED
    BY <2>3, <2>4 DEF TaskTypes, TaskRecords
<1>5. ASSUME NEW t \in Tasks, CallWaiter(t)
      PROVE  TaskTypes'
  <2>1. /\ task' = [task EXCEPT ![t] = Heard(task[t], dispatch.event)] /\ dispatch # None
    BY <1>5 DEF CallWaiter
  <2>2. PICK m \in Messages : m = dispatch.event /\ WellTyped(m)
    BY <2>1, DispatchTyped
  <2>3. PICK w \in TaskRecords : w = task[t] /\ Good(w)
    BY <1>1
  <2>4. Good(Heard(w, m))
    <3>1. m.type = "message" => m.about \in Nat
      BY <2>2 DEF WellTyped, TurnEvents
    <3>2. CASE m.type = "message"
      BY <2>3, <3>1, <3>2 DEF Heard, TaskRecords
    <3>3. CASE m.type \in {"idle", "error"}
      BY <2>3, <3>3 DEF Heard, TaskRecords
    <3>4. CASE m.type \notin {"message", "idle", "error"}
      BY <2>3, <3>4 DEF Heard
    <3> QED
      BY <3>2, <3>3, <3>4
  <2> QED
    BY <1>3, <2>1, <2>2, <2>3, <2>4
<1>6. ASSUME ReceiveAnswer
      PROVE  TaskTypes'
  <2>1. PICK t \in Tasks : t = Head(inbox).about
    BY <1>6, HeadTyped DEF ReceiveAnswer, Take, WellTyped
  <2>2. task' = [task EXCEPT ![t] = Waits(task[t])] \/ task' = Ended({t})
    BY <1>6, <2>1 DEF ReceiveAnswer
  <2>3. Good(Waits(task[t]))
    BY <1>1, ZenonT(60) DEF Waits, TaskRecords, Labels
  <2> QED
    BY <1>3, <1>4, <2>2, <2>3
<1>7. ASSUME NEW t \in Tasks, NEW op \in Ops, NEW label \in Labels \ {"waiting"},
             task[t].pc = "idle", Starts(t, op, label)
      PROVE  TaskTypes'
  <2>1. Alone \in BOOLEAN
    BY DEF Alone
  <2> DEFINE w(u) == IF u = t
                     THEN [task[t] EXCEPT !.op = op, !.pc = label, !.calls = @ + 1, !.alone = Alone]
                     ELSE [task[u] EXCEPT !.alone = @ /\ op \notin {"send", "sendAndWait"}]
  <2>2. task' = [u \in Tasks |-> w(u)]
    BY <1>7 DEF Starts
  <2>3. ASSUME NEW u \in Tasks
        PROVE  Good(w(u))
    <3>1. PICK v \in TaskRecords : v = task[u] /\ Good(v)
      BY <1>1
    <3>2. CASE u = t
      <4>1. PICK b \in BOOLEAN : b = Alone
        BY <2>1
      <4> DEFINE x == [v EXCEPT !.op = op, !.pc = label, !.calls = @ + 1, !.alone = b]
      <4>2. v.calls + 1 \in Nat
        BY <3>1 DEF TaskRecords
      <4>3. x \in TaskRecords /\ x.timer = v.timer /\ x.pc = label /\ v.pc = "idle"
        BY <1>7, <3>1, <3>2, <4>2 DEF TaskRecords
      <4>4. w(u) = x
        BY <3>1, <3>2, <4>1
      <4> QED
        BY <1>7, <3>1, <4>3, <4>4
    <3>3. CASE u # t
      <4> DEFINE b == v.alone /\ op \notin {"send", "sendAndWait"}
                 x == [v EXCEPT !.alone = b]
      <4>1. b \in BOOLEAN
        BY <3>1 DEF TaskRecords
      <4> HIDE DEF b
      <4>2. x \in TaskRecords /\ x.timer = v.timer /\ x.pc = v.pc
        BY <3>1, <4>1 DEF TaskRecords
      <4> QED
        BY <3>1, <3>3, <4>2 DEF b
    <3> QED
      BY <3>2, <3>3
  <2> HIDE DEF w
  <2>4. task' \in [Tasks -> TaskRecords] /\ \A u \in Tasks : Good(task'[u])
    BY <2>2, <2>3
  <2> QED
    BY <2>4 DEF TaskTypes, TaskRecords
<1>8. ASSUME NEW t \in Tasks, TaskNext(t)
      PROVE  TaskTypes'
  <2> DEFINE Asks == \/ Starts(t, "disconnect", "disconnecting")
                     \/ Starts(t, "request", "requesting") \/ Starts(t, "elicit", "requesting")
                     \/ Starts(t, "send", "tracing") \/ Starts(t, "sendAndWait", "tracing")
  <2>1. \/ UNCHANGED task \/ task' = Ended({t})
        \/ task[t].pc = "idle" /\ Asks
        \/ task' = [task EXCEPT ![t].calls = @ + 1]
        \/ task[t].pc = "tracing" /\ task' = [task EXCEPT ![t].pc = "sending"]
    BY <1>8 DEF TaskNext, send, sendAndWait, disconnect, ask, elicit, Ask, Calls, Traced, Timeout
  <2>2. CASE task[t].pc = "idle" /\ Asks
    BY <1>7, <2>2 DEF Ops, Labels
  <2>3. Good([task[t] EXCEPT !.calls = @ + 1])
    BY <1>1 DEF TaskRecords
  <2>4. task[t].pc = "tracing" => Good([task[t] EXCEPT !.pc = "sending"])
    BY <1>1 DEF TaskRecords, Labels
  <2> HIDE DEF Asks
  <2>5. CASE task' = [task EXCEPT ![t].calls = @ + 1]
    BY <1>1, <1>3, <2>3, <2>5 DEF TaskRecords
  <2>6. CASE task[t].pc = "tracing" /\ task' = [task EXCEPT ![t].pc = "sending"]
    BY <1>1, <1>3, <2>4, <2>6 DEF TaskRecords
  <2> QED
    BY <1>2, <1>4, <2>1, <2>2, <2>5, <2>6
<1>9. ASSUME ServerNext
      PROVE  TaskTypes'
  <2>1. UNCHANGED task \/ \E t \in Tasks : task' = [task EXCEPT ![t].turn = server.turns + 1]
    BY <1>9 DEF ServerNext, ServerCreates, ServerTakes, ServerAnswers, ServerEmits,
       ServerNotifies, ServerAsks, ServerReplies
  <2>2. ASSUME NEW t \in Tasks, task' = [task EXCEPT ![t].turn = server.turns + 1]
        PROVE  TaskTypes'
    <3>1. server.turns + 1 \in Nat
      BY DEF Typed, TypeOK, ServerTypes
    <3>2. Good([task[t] EXCEPT !.turn = server.turns + 1])
      BY <1>1, <3>1 DEF TaskRecords
    <3> QED
      BY <1>1, <1>3, <2>2, <3>2 DEF TaskRecords
  <2> QED
    BY <1>2, <2>1, <2>2, SMTT(60)
<1>10. ASSUME DispatchEnds \/ Dispose
       PROVE  TaskTypes'
  <2>1. \E ts : task' = Ended(ts)
    BY <1>10 DEF DispatchEnds, Dispose
  <2> QED
    BY <1>4, <2>1
<1>11. ASSUME \/ ReceiveEvent \/ ReceiveLifecycle \/ ReceiveCall \/ ReceiveReply \/ ReceiveCreated
              \/ (\E h \in Handlers : CallHandler(h) \/ ApplicationChanges(h))
              \/ (\E r \in Requests : HandlerReturns(r)) \/ Close \/ Forget \/ UNCHANGED vars
       PROVE  UNCHANGED task
  BY <1>11 DEF ReceiveEvent, ReceiveLifecycle, ReceiveCall, ReceiveReply, ReceiveCreated,
     CallHandler, ApplicationChanges, HandlerReturns, Close, Forget, vars
<1> QED
  BY <1>2, <1>5, <1>6, <1>8, <1>9, <1>10, <1>11 DEF Next, ThreadNext, Receive

RequestRecords == [phase : Phases, outcome : Outcomes, answers : Seq(Answers), refused : BOOLEAN]

\* What becomes of a request when an answer is sent.
LEMMA SendTyped ==
  ASSUME Typed, NEW r \in Requests, NEW answer \in Answers, NEW phase \in Phases
  PROVE  /\ Send(r, answer, phase) \in RequestRecords
         /\ Send(r, answer, phase).outcome = request[r].outcome
         /\ Send(r, answer, phase).refused = request[r].refused
         /\ connection = "open" =>
              /\ Send(r, answer, phase).phase = phase
              /\ Send(r, answer, phase).answers = Append(request[r].answers, answer)
         /\ connection # "open" =>
              /\ Send(r, answer, phase).phase = "done"
              /\ Send(r, answer, phase).answers = request[r].answers
<1>1. PICK q \in RequestRecords : q = request[r]
  BY DEF Typed, TypeOK, RequestTypes, RequestRecords
<1>2. Append(q.answers, answer) \in Seq(Answers)
  BY <1>1, AppendProperties DEF RequestRecords
<1>3. [q EXCEPT !.answers = Append(q.answers, answer), !.phase = phase] \in RequestRecords
  BY <1>1, <1>2 DEF RequestRecords
<1>4. [q EXCEPT !.phase = "done"] \in RequestRecords
  BY <1>1 DEF RequestRecords, Phases
<1> QED
  BY <1>1, <1>3, <1>4 DEF Send, RequestRecords

\* A failure grants nothing.
LEMMA FailureTyped ==
  ASSUME NEW kind \in Broadcast \cup Routed
  PROVE  Failure(kind) \in Answers \ Grants
BY DEF Failure, Broadcast, Routed, Answers, Grants

\* What a handler of a broadcast request that did not throw answers.
LEMMA BroadcastResult ==
  ASSUME NEW kind \in Broadcast, NEW outcome \in OutcomesOf(kind) \ {"throws", "no-result"},
         NEW answer, answer = IF kind = "tool" THEN ToolResult(outcome) ELSE outcome
  PROVE  answer \in Answers /\ outcome \in Outcomes
         /\ (answer \in Grants => outcome \notin {"none", "denied"})
BY DEF OutcomesOf, Outcomes, ToolResult, Broadcast, Answers, Grants

\* The same of a call of the server.
LEMMA CallResult ==
  ASSUME NEW kind \in Routed, NEW outcome \in OutcomesOf(kind)
  PROVE  /\ RoutedResult(kind, outcome) \in Answers /\ outcome \in Outcomes
         /\ RoutedResult(kind, outcome) \in Grants =>
              outcome \notin {"none", "throws", "denied", "no-result"}
<1>1. CASE outcome = "throws"
  BY <1>1, FailureTyped DEF RoutedResult, Outcomes
<1>2. CASE outcome # "throws"
  BY <1>2 DEF RoutedResult, OutcomesOf, Outcomes, ToolResultV2, Routed, Answers, Grants
<1> QED
  BY <1>1, <1>2

LEMMA RequestsStep ==
  ASSUME Typed, [Next]_vars
  PROVE  RequestTypes'
<1>1. /\ request \in [Requests -> RequestRecords]
      /\ \A r \in Requests : request[r].phase # "none" => Kind(r) # "none"
  BY DEF Typed, TypeOK, RequestTypes, RequestRecords
<1>2. UNCHANGED limits /\ \A r \in Requests : Kind(r)' = Kind(r)
  BY ChangesOf DEF Kind
<1>3. ASSUME NEW r \in Requests, NEW q \in RequestRecords, Kind(r) # "none",
             request' = [request EXCEPT ![r] = q]
      PROVE  RequestTypes'
  BY <1>1, <1>2, <1>3 DEF RequestTypes, RequestRecords
<1>4. CASE UNCHANGED request
  BY <1>1, <1>2, <1>4 DEF RequestTypes, RequestRecords
<1>5. ASSUME NEW r \in Requests, NEW phase \in Phases
      PROVE  [request[r] EXCEPT !.phase = phase] \in RequestRecords
  BY <1>1 DEF RequestRecords
<1>6. ASSUME NEW r \in Requests, Kind(r) # "none"
      PROVE  Failed(r) \in RequestRecords
  <2>1. Failure(Kind(r)) \in Answers
    BY <1>6, LimitsTyped, FailureTyped DEF Kind
  <2> QED
    BY <2>1, SendTyped DEF Failed, Phases
<1>7. CASE ReceiveEvent
  <2>1. PICK m \in Messages : m = Head(inbox) /\ WellTyped(m)
    BY <1>7, HeadTyped DEF ReceiveEvent, Take
  <2>2. UNCHANGED request \/ (m.type \in Broadcast /\ request' = Asked(m))
    BY <1>7, <2>1 DEF ReceiveEvent
  <2>3. CASE m.type \in Broadcast /\ request' = Asked(m)
    <3>1. PICK r \in Requests : r = m.about /\ Kind(r) = m.type
      BY <2>1, <2>3, SMTT(60) DEF WellTyped
    <3>2. \/ request' = [request EXCEPT ![r] = [request[r] EXCEPT !.phase = "running"]]
          \/ request' = [request EXCEPT ![r] = Send(r, "error", "failing")]
          \/ request' = [request EXCEPT ![r] = [request[r] EXCEPT !.phase = "ignored"]]
      BY <2>3, <3>1 DEF Asked
    <3>3. Send(r, "error", "failing") \in RequestRecords
      BY SendTyped DEF Phases, Answers
    <3>4. Kind(r) # "none"
      BY <2>3, <3>1 DEF Broadcast
    <3> QED
      BY <1>3, <1>5, <3>2, <3>3, <3>4 DEF Phases
  <2> QED
    BY <1>4, <2>2, <2>3
<1>8. CASE ReceiveCall
  <2>1. PICK m \in Messages : m = Head(inbox) /\ WellTyped(m) /\ m.type \in Routed
    BY <1>8, HeadTyped DEF ReceiveCall, Take
  <2>2. PICK r \in Requests : r = m.about /\ Kind(r) = m.type
    BY <2>1 DEF WellTyped
  <2>3. Failure(Kind(r)) \in Answers /\ "error" \in Answers /\ Kind(r) # "none"
    BY <2>1, <2>2, FailureTyped DEF Answers, Routed
  <2>4. ASSUME NEW answer \in Answers
        PROVE  [request[r] EXCEPT !.phase = "done", !.answers = <<answer>>] \in RequestRecords
    <3>1. <<answer>> \in Seq(Answers)
      OBVIOUS
    <3>2. request[r] \in RequestRecords
      BY <1>1
    <3> HIDE DEF Answers
    <3> QED
      BY <3>1, <3>2 DEF RequestRecords, Phases
  <2>5. \/ request' = [request EXCEPT ![r] = [request[r] EXCEPT !.phase = "running"]]
        \/ \E answer \in Answers : request' = [request EXCEPT ![r] =
             [request[r] EXCEPT !.phase = "done", !.answers = <<answer>>]]
    <3>1. \/ request' = [request EXCEPT ![r].phase = "running"]
          \/ \E answer \in Answers :
               request' = [request EXCEPT ![r].phase = "done", ![r].answers = <<answer>>]
      BY <1>8, <2>1, <2>2, <2>3 DEF ReceiveCall, CalledFor, AnswerTo
    <3> QED
      BY <1>1, <3>1 DEF RequestRecords
  <2> QED
    BY <1>3, <1>5, <2>3, <2>4, <2>5 DEF Phases
<1>9. CASE ReceiveReply
  <2>1. PICK m \in Messages : m = Head(inbox) /\ WellTyped(m) /\ m.type = "reply"
    BY <1>9, HeadTyped DEF ReceiveReply, Take
  <2>2. PICK r \in Requests : r = m.about /\ Kind(r) # "none"
    BY <2>1 DEF WellTyped
  <2>3. \/ request' = [request EXCEPT ![r] = [Failed(r) EXCEPT !.refused = TRUE]]
        \/ request' = [request EXCEPT ![r] = [request[r] EXCEPT !.phase = "done"]]
    BY <1>9, <2>1, <2>2 DEF ReceiveReply, Replied
  <2>4. [Failed(r) EXCEPT !.refused = TRUE] \in RequestRecords
    BY <1>6, <2>2 DEF RequestRecords
  <2> QED
    BY <1>3, <1>5, <2>2, <2>3, <2>4 DEF Phases
<1>10. ASSUME NEW r \in Requests, HandlerReturns(r)
       PROVE  RequestTypes'
  <2>1. PICK kind \in Broadcast \cup Routed : kind = Kind(r)
    BY <1>1, <1>10, LimitsTyped DEF HandlerReturns, Kind
  <2>2. PICK outcome \in OutcomesOf(kind) :
          request' = [request EXCEPT ![r] =
            [(IF kind \in Broadcast THEN BroadcastAnswered(r, outcome) ELSE RoutedAnswered(r, outcome))
             EXCEPT !.outcome = outcome]]
    BY <1>10, <2>1 DEF HandlerReturns
  <2>3. CASE kind \in Broadcast
    <3>1. BroadcastAnswered(r, outcome) \in RequestRecords
      <4>1. CASE outcome = "throws"
        BY <1>6, <2>1, <4>1 DEF BroadcastAnswered, Broadcast, Routed
      <4>2. CASE outcome = "no-result"
        BY <1>5, <4>2 DEF BroadcastAnswered, Phases
      <4>3. CASE outcome \notin {"throws", "no-result"}
        <5>1. (IF kind = "tool" THEN ToolResult(outcome) ELSE outcome) \in Answers
          BY <2>2, <2>3, <4>3, BroadcastResult
        <5> QED
          BY <2>1, <4>3, <5>1, SendTyped DEF BroadcastAnswered, Phases
      <4> QED
        BY <4>1, <4>2, <4>3
    <3>2. outcome \in Outcomes
      BY <2>3 DEF OutcomesOf, Outcomes, Broadcast
    <3>3. [BroadcastAnswered(r, outcome) EXCEPT !.outcome = outcome] \in RequestRecords
      BY <3>1, <3>2 DEF RequestRecords
    <3> QED
      BY <1>3, <2>1, <2>2, <2>3, <3>3 DEF Broadcast, Routed
  <2>4. CASE kind \notin Broadcast
    <3>1. RoutedResult(kind, outcome) \in Answers /\ outcome \in Outcomes
      BY <2>4, CallResult
    <3>2. [RoutedAnswered(r, outcome) EXCEPT !.outcome = outcome] \in RequestRecords
      <4>1. PICK a \in Answers : a = RoutedResult(kind, outcome)
        BY <3>1
      <4>2. <<a>> \in Seq(Answers)
        OBVIOUS
      <4>3. PICK s \in Seq(Answers) : s = <<a>>
        BY <4>2
      <4>4. [request[r] EXCEPT !.phase = "done", !.answers = s] \in RequestRecords
        <5>1. PICK q \in RequestRecords : q = request[r]
          BY <1>1
        <5>2. "done" \in Phases
          BY DEF Phases
        <5>3. [q EXCEPT !.phase = "done", !.answers = s] \in RequestRecords
          <6> HIDE DEF Answers, Phases, Outcomes
          <6> QED
            BY <5>2 DEF RequestRecords
        <5> QED
          BY <5>1, <5>3
      <4>5. RoutedAnswered(r, outcome) \in RequestRecords
        BY <2>1, <4>1, <4>3, <4>4 DEF RoutedAnswered
      <4> QED
        BY <3>1, <4>5 DEF RequestRecords
    <3> QED
      BY <1>3, <2>1, <2>2, <2>4, <3>2 DEF Broadcast, Routed
  <2> QED
    BY <2>3, <2>4
<1>11. ASSUME NEW r \in Requests, ServerAsks(r)
       PROVE  RequestTypes'
  <2>1. Kind(r) # "none" /\ request' = [request EXCEPT ![r] = [request[r] EXCEPT !.phase = "sent"]]
    BY <1>1, <1>11 DEF ServerAsks, RequestRecords
  <2> QED
    BY <1>3, <1>5, <2>1 DEF Phases
<1>12. CASE Dispose
  <2>1. request' = [r \in Requests |->
          IF request[r].phase \in {"answering", "failing"} THEN [request[r] EXCEPT !.phase = "done"]
          ELSE request[r]]
    BY <1>12 DEF Dispose
  <2>2. \A r \in Requests : request'[r] \in RequestRecords
    BY <1>1, <1>5, <2>1 DEF Phases
  <2>3. \A r \in Requests : request'[r].phase # "none" => request[r].phase # "none"
    BY <2>1
  <2> QED
    BY <1>1, <1>2, <2>1, <2>2, <2>3 DEF RequestTypes, RequestRecords
<1> QED
  BY <1>4, <1>7, <1>8, <1>9, <1>10, <1>11, <1>12, ChangesOf

LEMMA ServerStep ==
  ASSUME Typed, [Next]_vars
  PROVE  ServerTypes'
<1>1. server \in ServerRecords
  BY DEF Typed, TypeOK, ServerTypes, ServerRecords
<1>2. server.turns + 1 \in Nat /\ server.events + 1 \in Nat /\ server.queue \in Seq(Nat)
  BY <1>1 DEF ServerRecords
<1>3. CASE UNCHANGED server
  BY <1>1, <1>3 DEF ServerTypes, ServerRecords
<1>4. ASSUME NEW n \in Nat, server' = [server EXCEPT !.changes = n]
      PROVE  ServerTypes'
  BY <1>1, <1>4 DEF ServerTypes, ServerRecords
<1>5. ASSUME NEW ts \in SUBSET Tasks, server' = [server EXCEPT !.pending = ts]
      PROVE  ServerTypes'
  BY <1>1, <1>5 DEF ServerTypes, ServerRecords
<1>6. ASSUME ServerCreates
      PROVE  ServerTypes'
  <2>1. server' = [server EXCEPT !.created = TRUE]
    BY <1>6 DEF ServerCreates
  <2> QED
    BY <1>1, <2>1 DEF ServerTypes, ServerRecords
<1>7. ASSUME NEW t \in Tasks, ServerTakes(t)
      PROVE  ServerTypes'
  <2>1. PICK queue \in Seq(Nat) : queue = Append(server.queue, server.turns + 1)
    BY <1>2, AppendProperties
  <2>2. PICK pending \in SUBSET Tasks : pending = server.pending \ {t}
    BY <1>1 DEF ServerRecords
  <2>3. PICK taken \in SUBSET Tasks : taken = server.taken \cup {t}
    BY <1>1 DEF ServerRecords
  <2>4. server' = [server EXCEPT !.pending = pending, !.taken = taken,
                                 !.turns = server.turns + 1, !.queue = queue]
    BY <1>7, <2>1, <2>2, <2>3 DEF ServerTakes
  <2> QED
    BY <1>1, <1>2, <2>4 DEF ServerTypes, ServerRecords
<1>8. ASSUME NEW t \in Tasks, ServerAnswers(t)
      PROVE  ServerTypes'
  <2>1. PICK pending \in SUBSET Tasks : pending = server.pending \ {t}
    BY <1>1 DEF ServerRecords
  <2>2. PICK taken \in SUBSET Tasks : taken = server.taken \ {t}
    BY <1>1 DEF ServerRecords
  <2>3. server' = [server EXCEPT !.pending = pending, !.taken = taken]
    BY <1>8, <2>1, <2>2 DEF ServerAnswers
  <2> QED
    BY <1>1, <2>3 DEF ServerTypes, ServerRecords
<1>9. ASSUME ServerEmits
      PROVE  ServerTypes'
  <2> DEFINE turn == Head(server.queue)
  <2>1. PICK type \in TurnEvents :
          server' = [server EXCEPT !.events = @ + 1,
                       !.said[turn] = IF type = "message" THEN server.events + 1 ELSE @,
                       !.queue = IF type = "idle" THEN Tail(@) ELSE @]
    BY <1>9 DEF ServerEmits
  <2>2. PICK queue \in Seq(Nat) : queue = IF type = "idle" THEN Tail(server.queue) ELSE server.queue
    BY <1>2, <1>9, HeadTailProperties DEF ServerEmits
  <2>3. PICK said \in [1..MaxTurns -> Nat] :
          said = [server.said EXCEPT ![turn] = IF type = "message" THEN server.events + 1 ELSE @]
    BY <1>1, <1>2 DEF ServerRecords
  <2>4. server' = [server EXCEPT !.events = server.events + 1, !.said = said, !.queue = queue]
    BY <1>1, <2>1, <2>2, <2>3 DEF ServerRecords
  <2> QED
    BY <1>1, <1>2, <2>4 DEF ServerTypes, ServerRecords
<1>10. ASSUME ServerNotifies
       PROVE  ServerTypes'
  <2>1. \/ server' = [server EXCEPT !.events = server.events + 1,
                                    !.capabilities = ~server.capabilities]
        \/ server' = [server EXCEPT !.events = server.events + 1]
    BY <1>10 DEF ServerNotifies
  <2>2. PICK b \in BOOLEAN : b = ~server.capabilities
    BY <1>1 DEF ServerRecords
  <2>3. \/ server' = [server EXCEPT !.events = server.events + 1, !.capabilities = b]
        \/ server' = [server EXCEPT !.events = server.events + 1]
    BY <2>1, <2>2
  <2> QED
    BY <1>1, <1>2, <2>3 DEF ServerTypes, ServerRecords
<1>11. ASSUME NEW r \in Requests, ServerAsks(r)
       PROVE  UNCHANGED server
  BY <1>11 DEF ServerAsks
<1>12. ASSUME NEW r \in Requests, ServerReplies(r)
       PROVE  ServerTypes'
  <2>1. PICK n \in Nat : n = Len(request[r].answers)
    <3>1. request[r].answers \in Seq(Answers)
      BY DEF Typed, TypeOK, RequestTypes
    <3> QED
      BY <3>1, LenProperties
  <2>2. PICK replied \in SUBSET (Requests \X Nat) :
          replied = server.replied \cup {<<r, Len(request[r].answers)>>}
    <3>1. server.replied \subseteq Requests \X Nat /\ <<r, n>> \in Requests \X Nat
      BY <1>1 DEF ServerRecords
    <3> QED
      BY <2>1, <3>1
  <2>3. server' = [server EXCEPT !.replied = replied]
    BY <1>12, <2>2 DEF ServerReplies
  <2> QED
    BY <1>1, <2>3 DEF ServerTypes, ServerRecords
<1>13. CASE ServerNext
  BY <1>3, <1>6, <1>7, <1>8, <1>9, <1>10, <1>11, <1>12, <1>13 DEF ServerNext
<1> QED
  BY <1>3, <1>4, <1>5, <1>13, ChangesOf

LEMMA AlwaysTyped == Spec => []Typed
<1>1. Init => Typed
  <2> SUFFICES ASSUME Init PROVE Typed
    OBVIOUS
  <2>1. /\ limits \in Limits /\ connection = "open" /\ inbox = <<>> /\ Len(inbox) = 0
        /\ dispatch = None
    BY DEF Init
  <2>2. session \in [Fields -> BOOLEAN]
    <3>1. PICK b \in BOOLEAN : b = limits.handled
      BY <2>1
    <3>2. Configured(b) \in
            [tool : BOOLEAN, permission : BOOLEAN, command : BOOLEAN, elicitation : BOOLEAN,
             userInput : BOOLEAN, hooks : BOOLEAN, transform : BOOLEAN, sessionFs : BOOLEAN,
             registered : BOOLEAN, created : BOOLEAN, capabilities : BOOLEAN]
      BY DEF Configured
    <3>3. Configured(b) \in [Fields -> BOOLEAN]
      BY <3>2 DEF Fields
    <3> QED
      BY <3>1, <3>3 DEF Init
  <2>3. SubscriberTypes
    BY DEF Init, SubscriberTypes
  <2>4. TaskTypes
    BY DEF Init, TaskTypes, Idle, Labels, Ops
  <2>5. RequestTypes
    BY EmptySeq DEF Init, RequestTypes, Phases, Outcomes
  <2>6. ServerTypes
    BY EmptySeq DEF Init, ServerTypes
  <2> QED
    BY <2>1, <2>2, <2>3, <2>4, <2>5, <2>6, EmptySeq DEF Typed, TypeOK, DispatchTypes
<1>2. Typed /\ [Next]_vars => Typed'
  <2> SUFFICES ASSUME Typed, [Next]_vars PROVE Typed'
    OBVIOUS
  <2>1. UNCHANGED limits
    BY ChangesOf
  <2>2. inbox' \in Seq(Messages) /\ \A i \in 1..Len(inbox') : (WellTyped(inbox[i]))'
    <3>1. inbox' \in Seq(Messages) /\ \A i \in 1..Len(inbox') : WellTyped(inbox'[i])
      BY InboxStep
    <3> QED
      BY <2>1, <3>1 DEF WellTyped, Kind
  <2>3. connection' \in {"open", "closed", "disposed"}
    BY ChangesOf DEF Dispose, Close, Typed, TypeOK
  <2> QED
    BY <2>1, <2>2, <2>3, SessionStep, DispatchStep, SubscribersStep, TasksStep, RequestsStep,
       ServerStep DEF Typed, TypeOK
<1> QED
  BY <1>1, <1>2, PTL DEF Spec

\* Every reachable state is well typed, for any tasks, handlers, requests and bounds;
\* no two subscribers share a place, and a timer runs exactly while a task waits.
THEOREM SessionTyped == Spec => []TypeOK
<1>1. Typed => TypeOK
  BY DEF Typed
<1> QED
  BY <1>1, AlwaysTyped, PTL

----------------------------------------------------------------------------
(* Dispatches *)

\* Whoever a dispatch still owes a call is subscribed, and comes after the last one it
\* called.
Owed == dispatch # None =>
  \A k \in dispatch.owed : Hears(k, dispatch.event) /\ Precedes(dispatch.cursor, Rank(k))

\* Nothing but the dispatch itself and the server moves while a dispatch runs.
LEMMA Busy ==
  ASSUME [Next]_vars, dispatch # None
  PROVE  \/ (\E t \in Tasks : CallWaiter(t)) \/ (\E h \in Handlers : CallHandler(h))
         \/ DispatchEnds \/ UNCHANGED <<subs, dispatch>>
<1>1. ~Receive
  BY DEF Receive, ReceiveEvent, ReceiveLifecycle, ReceiveCall, ReceiveReply, ReceiveCreated,
     ReceiveAnswer, Take, Free
<1>2. \A t \in Tasks : ~TaskNext(t)
  BY DEF TaskNext, send, sendAndWait, disconnect, ask, elicit, Ask, Calls, Traced, Timeout, Free
<1>3. /\ \A h \in Handlers : ~ApplicationChanges(h)
      /\ \A r \in Requests : ~HandlerReturns(r)
      /\ ~Dispose /\ ~Close /\ ~Forget
  BY SMTT(60) DEF ApplicationChanges, HandlerReturns, Dispose, Close, Forget, Free
<1>4. ServerNext => UNCHANGED <<subs, dispatch>>
  BY DEF ServerNext, ServerSteps, ServerCreates, ServerTakes, ServerAnswers, ServerEmits,
     ServerNotifies, ServerAsks, ServerReplies
<1>5. UNCHANGED vars => UNCHANGED <<subs, dispatch>>
  BY DEF vars
<1> QED
  BY <1>1, <1>2, <1>3, <1>4, <1>5 DEF Next, ThreadNext

LEMMA OwedStep ==
  ASSUME Typed, Owed, [Next]_vars
  PROVE  Owed'
<1> SUFFICES ASSUME dispatch' # None, NEW k \in dispatch'.owed
             PROVE  Hears(k, dispatch.event)' /\ Precedes(dispatch.cursor, Rank(k))'
  BY DEF Owed
<1>1. CASE UNCHANGED <<subs, dispatch>>
  BY <1>1 DEF Owed, Hears, Rank, Precedes
<1>2. CASE dispatch = None
  <2>1. UNCHANGED subs /\ Dispatch(Head(inbox))
    BY <1>2, ChangesOf DEF ReceiveEvent, ReceiveLifecycle, DispatchEnds, CallWaiter, CallHandler
  <2>2. PICK m : m = Head(inbox)
    OBVIOUS
  <2>3. /\ dispatch'.event = m /\ dispatch'.cursor = [any |-> FALSE, place |-> 0]
        /\ k \in Keys /\ Hears(k, m)
    BY <2>1, <2>2 DEF Dispatch
  <2>4. subs[k] \in Nat /\ subs[k] # 0
    BY <2>3, RankTyped DEF Hears
  <2>5. Hears(k, dispatch.event)'
    BY <2>1, <2>3 DEF Hears
  <2>6. PICK b \in BOOLEAN : b = (Subjects[k].type = "*")
    OBVIOUS
  <2>7. (Rank(k))' = [any |-> b, place |-> subs[k]]
    BY <2>1, <2>6 DEF Rank
  <2>8. Precedes([any |-> FALSE, place |-> 0], [any |-> b, place |-> subs[k]])
    <3>1. ASSUME NEW n \in Nat \ {0}
          PROVE  /\ Precedes([any |-> FALSE, place |-> 0], [any |-> TRUE, place |-> n])
                 /\ Precedes([any |-> FALSE, place |-> 0], [any |-> FALSE, place |-> n])
      <4>1. 0 < n
        OBVIOUS
      <4> QED
        BY <4>1 DEF Precedes
    <3> QED
      BY <2>4, <2>6, <3>1
  <2> QED
    BY <2>3, <2>5, <2>7, <2>8 DEF Precedes
<1>3. CASE (\E t \in Tasks : CallWaiter(t)) \/ (\E h \in Handlers : CallHandler(h))
  <2>1. PICK j \in Keys :
          /\ IsNext(j) /\ dispatch'.cursor = Rank(j) /\ dispatch'.owed \subseteq dispatch.owed \ {j}
          /\ UNCHANGED subs \/ \A l \in dispatch'.owed : subs'[l] # 0
    BY <1>3, CallStep
  <2>2. dispatch # None /\ dispatch'.event = dispatch.event
    BY <1>3, CallStep
  <2>3. k \in dispatch.owed \ {j} /\ k \in Keys
    BY <2>1, <2>2, DispatchTyped
  <2>4. k \in Due \ {j} /\ Hears(k, dispatch.event)
    BY <2>2, <2>3 DEF Owed, Due
  <2>5. Precedes(Rank(j), Rank(k))
    BY <2>1, <2>4 DEF IsNext
  <2>6. subs'[k] = subs[k]
    <3>1. subs[k] # 0 /\ subs \in [Keys -> 0..slots]
      BY <2>4 DEF Hears, Typed, TypeOK, SubscriberTypes
    <3>2. CASE UNCHANGED subs
      BY <3>2
    <3>3. ASSUME NEW g \in Keys, on(g)
          PROVE  subs'[k] = subs[k]
      BY <2>3, <3>1, <3>3 DEF on, Subscribed
    <3> QED
      BY <2>1, <2>3, <3>2, <3>3, SubscribersChange
  <2> QED
    BY <2>1, <2>2, <2>4, <2>5, <2>6 DEF Hears, Rank
<1>4. CASE DispatchEnds
  BY <1>4 DEF DispatchEnds
<1> QED
  BY <1>1, <1>2, <1>3, <1>4, Busy

\* A dispatch ends only when everybody who was subscribed when it began, and stayed, has
\* been called, whatever the handlers add, remove or throw, for any number of them.
THEOREM NobodyMissed == Spec => EveryoneCalled
<1>1. Init => Owed
  BY DEF Init, Owed
<1>2. Typed /\ Owed /\ [Next]_vars => Owed'
  BY OwedStep
<1>3. Typed /\ Owed /\ [Next]_vars =>
        [dispatch # None /\ dispatch' = None => dispatch.owed = {}]_vars
  <2> SUFFICES ASSUME Typed, Owed, [Next]_vars, dispatch # None, dispatch' = None
               PROVE  dispatch.owed = {}
    OBVIOUS
  <2>1. DispatchEnds
    BY Busy, CallStep
  <2>2. \A k \in dispatch.owed : k \in Due
    BY DispatchTyped DEF Owed, Due
  <2> QED
    BY <2>1, <2>2 DEF DispatchEnds
<1> QED
  BY <1>1, <1>2, <1>3, AlwaysTyped, PTL DEF Spec, EveryoneCalled

----------------------------------------------------------------------------
(* Capabilities *)


\* session.create is answered once, before the session is created; the last message about
\* capabilities tells those of the server, and when none is under way the session has them.
CapabilitiesInv ==
  /\ session.created => server.created
  /\ \A i \in 1..Len(inbox) : inbox[i].type = "created" =>
       /\ server.created /\ ~session.created
       /\ \A j \in 1..Len(inbox) : inbox[j].type = "created" => j = i
  /\ \A i \in 1..Len(inbox) :
       AboutCapabilities(inbox[i]) /\ (\A j \in (i + 1)..Len(inbox) : ~AboutCapabilities(inbox[j]))
         => inbox[i].about = server.capabilities
  /\ session.created /\ session.registered
     /\ (\A i \in 1..Len(inbox) : ~AboutCapabilities(inbox[i]))
       => session.capabilities = server.capabilities

LEMMA CapabilitiesEmit ==
  ASSUME Typed, CapabilitiesInv, UNCHANGED session,
         NEW m \in Messages, WellTyped(m), Emits(m),
         \/ /\ m.type = "created" /\ m.about = server.capabilities
            /\ ~server.created /\ server'.created /\ UNCHANGED server.capabilities
         \/ /\ m.type = "capabilities" /\ m.about = server'.capabilities
            /\ UNCHANGED server.created
         \/ ~AboutCapabilities(m) /\ UNCHANGED <<server.created, server.capabilities>>
  PROVE  CapabilitiesInv'
<1>1. /\ Len(inbox) \in Nat /\ Len(inbox') = Len(inbox) + 1 /\ inbox'[Len(inbox) + 1] = m
      /\ \A i \in 1..Len(inbox) : inbox'[i] = inbox[i]
  BY EmitsTyped
<1>2. \A i \in 1..Len(inbox') : i \in 1..Len(inbox) \/ i = Len(inbox) + 1
  BY <1>1
<1>3. session'.created => server'.created
  BY DEF CapabilitiesInv
<1>4. \A i \in 1..Len(inbox') : inbox'[i].type = "created" =>
        /\ server'.created /\ ~session'.created
        /\ \A j \in 1..Len(inbox') : inbox'[j].type = "created" => j = i
  BY <1>1, <1>2, ZenonT(60) DEF CapabilitiesInv, AboutCapabilities
<1>5. ASSUME NEW i \in 1..Len(inbox'), AboutCapabilities(inbox'[i]),
             \A j \in (i + 1)..Len(inbox') : ~AboutCapabilities(inbox'[j])
      PROVE  inbox'[i].about = server'.capabilities
  <2>1. CASE i = Len(inbox) + 1
    BY <1>1, <1>5, <2>1 DEF AboutCapabilities
  <2>2. CASE i \in 1..Len(inbox)
    <3>1. Len(inbox) + 1 \in (i + 1)..Len(inbox')
      BY <1>1, <2>2
    <3>2. ~AboutCapabilities(m)
      BY <1>1, <1>5, <3>1
    <3>3. \A j \in (i + 1)..Len(inbox) : ~AboutCapabilities(inbox[j])
      <4>1. \A j \in (i + 1)..Len(inbox) : j \in (i + 1)..Len(inbox') /\ j \in 1..Len(inbox)
        BY <1>1, <2>2
      <4> QED
        BY <1>1, <1>5, <4>1
    <3>4. inbox[i].about = server.capabilities
      BY <1>1, <1>5, <2>2, <3>3 DEF CapabilitiesInv
    <3>5. UNCHANGED server.capabilities
      BY <3>2 DEF AboutCapabilities
    <3> QED
      BY <1>1, <2>2, <3>4, <3>5
  <2> QED
    BY <1>2, <2>1, <2>2
<1>6. ASSUME session'.created, session'.registered,
             \A i \in 1..Len(inbox') : ~AboutCapabilities(inbox'[i])
      PROVE  session'.capabilities = server'.capabilities
  <2>1. ~AboutCapabilities(m)
    BY <1>1, <1>6
  <2>2. \A i \in 1..Len(inbox) : ~AboutCapabilities(inbox[i])
    BY <1>1, <1>6
  <2>3. UNCHANGED server.capabilities
    BY <2>1 DEF AboutCapabilities
  <2> QED
    BY <1>6, <2>2, <2>3 DEF CapabilitiesInv
<1> QED
  BY <1>3, <1>4, <1>5, <1>6 DEF CapabilitiesInv

LEMMA CapabilitiesReceive ==
  ASSUME Typed, CapabilitiesInv, Receive
  PROVE  CapabilitiesInv'
<1>1. inbox # <<>> /\ inbox' = Tail(inbox) /\ UNCHANGED server
  BY ReceiveTakes DEF Take
<1>2. /\ Len(inbox) \in Nat /\ 1 \in 1..Len(inbox) /\ Len(inbox') = Len(inbox) - 1
      /\ \A i \in 1..Len(inbox') : i + 1 \in 1..Len(inbox) /\ inbox'[i] = inbox[i + 1]
  BY <1>1, HeadTyped
<1>3. PICK m \in Messages : m = inbox[1] /\ m = Head(inbox) /\ WellTyped(m)
  BY <1>1, HeadTyped
<1>4. /\ session \in [Fields -> BOOLEAN]
      /\ m.type \in {"created", "capabilities"} => m.about \in BOOLEAN
  BY <1>3 DEF Typed, TypeOK, WellTyped
<1>5. \/ /\ m.type = "created" /\ session'.created /\ session'.capabilities = m.about
         /\ UNCHANGED session.registered
      \/ m.type = "created" /\ ~session'.registered /\ UNCHANGED session.created
      \/ /\ m.type = "capabilities" /\ UNCHANGED <<session.created, session.registered>>
         /\ session.registered => session'.capabilities = m.about
      \/ /\ ~AboutCapabilities(m)
         /\ UNCHANGED <<session.created, session.registered, session.capabilities>>
  <2>1. CASE ReceiveCreated
    BY <1>3, <1>4, <2>1 DEF ReceiveCreated, Fields
  <2>2. CASE ReceiveEvent
    <3>1. m.type \in EventTypes
      BY <1>3, <2>2 DEF ReceiveEvent
    <3>2. m.type # "created"
      BY <3>1 DEF EventTypes, TurnEvents, Broadcast
    <3>3. CASE m.type = "capabilities"
      BY <1>3, <1>4, <2>2, <3>3 DEF ReceiveEvent, Fields
    <3>4. CASE m.type # "capabilities"
      BY <1>3, <2>2, <3>2, <3>4 DEF ReceiveEvent, AboutCapabilities
    <3> QED
      BY <3>3, <3>4
  <2>3. CASE ReceiveAnswer
    BY <1>3, <1>4, <2>3, ZenonT(60) DEF ReceiveAnswer, AboutCapabilities, Fields
  <2>4. CASE ReceiveLifecycle \/ ReceiveCall \/ ReceiveReply
    BY <1>3, <2>4 DEF ReceiveLifecycle, ReceiveCall, ReceiveReply, AboutCapabilities, Routed
  <2> QED
    BY <2>1, <2>2, <2>3, <2>4 DEF Receive
<1>6. \A i \in 1..Len(inbox) : i = 1 \/ (i - 1 \in 1..Len(inbox') /\ (i - 1) + 1 = i)
  BY <1>2
<1>7. session'.created => server'.created
  BY <1>1, <1>2, <1>3, <1>5 DEF CapabilitiesInv
<1>8. ASSUME NEW i \in 1..Len(inbox'), inbox'[i].type = "created"
      PROVE  /\ server'.created /\ ~session'.created
             /\ \A j \in 1..Len(inbox') : inbox'[j].type = "created" => j = i
  <2>1. i + 1 \in 1..Len(inbox) /\ inbox[i + 1].type = "created" /\ i + 1 # 1
    BY <1>2, <1>8
  <2>2. \A j \in 1..Len(inbox) : inbox[j].type = "created" => j = i + 1
    BY <2>1 DEF CapabilitiesInv
  <2>3. server.created /\ ~session.created /\ m.type # "created"
    BY <1>2, <1>3, <2>1, <2>2 DEF CapabilitiesInv
  <2>4. \A j \in 1..Len(inbox') : inbox'[j].type = "created" => j + 1 = i + 1
    BY <1>2, <2>2
  <2> QED
    BY <1>1, <1>2, <1>5, <2>3, <2>4
<1>9. ASSUME NEW i \in 1..Len(inbox'), AboutCapabilities(inbox'[i]),
             \A j \in (i + 1)..Len(inbox') : ~AboutCapabilities(inbox'[j])
      PROVE  inbox'[i].about = server'.capabilities
  <2>1. \A j \in (i + 2)..Len(inbox) : j - 1 \in (i + 1)..Len(inbox') /\ inbox'[j - 1] = inbox[j]
    <3>1. \A j \in (i + 2)..Len(inbox) : /\ j - 1 \in (i + 1)..Len(inbox')
                                          /\ j - 1 \in 1..Len(inbox') /\ (j - 1) + 1 = j
      BY <1>2
    <3> QED
      BY <1>2, <3>1
  <2>2. \A j \in ((i + 1) + 1)..Len(inbox) : ~AboutCapabilities(inbox[j])
    BY <1>2, <1>9, <2>1
  <2>3. i + 1 \in 1..Len(inbox) /\ inbox'[i] = inbox[i + 1]
    BY <1>2
  <2>4. inbox[i + 1].about = server.capabilities
    BY <1>9, <2>2, <2>3 DEF CapabilitiesInv
  <2> QED
    BY <1>1, <2>3, <2>4
<1>10. ASSUME session'.created, session'.registered,
              \A i \in 1..Len(inbox') : ~AboutCapabilities(inbox'[i])
       PROVE  session'.capabilities = server'.capabilities
  <2>1. ASSUME NEW i \in 2..Len(inbox)
        PROVE  ~AboutCapabilities(inbox[i])
    <3>1. i - 1 \in 1..Len(inbox') /\ (i - 1) + 1 = i
      BY <1>2
    <3>2. inbox'[i - 1] = inbox[i]
      BY <1>2, <3>1
    <3> QED
      BY <1>10, <3>1, <3>2
  <2>2. AboutCapabilities(m) => m.about = server.capabilities
    <3>1. \A j \in (1 + 1)..Len(inbox) : ~AboutCapabilities(inbox[j])
      BY <2>1
    <3> QED
      BY <1>2, <1>3, <3>1 DEF CapabilitiesInv
  <2>3. ~AboutCapabilities(m) => \A i \in 1..Len(inbox) : ~AboutCapabilities(inbox[i])
    BY <1>2, <1>3, <2>1
  <2> QED
    BY <1>1, <1>5, <1>10, <2>2, <2>3 DEF CapabilitiesInv, AboutCapabilities
<1> QED
  BY <1>7, <1>8, <1>9, <1>10 DEF CapabilitiesInv

LEMMA CapabilitiesStep ==
  ASSUME Typed, CapabilitiesInv, [Next]_vars
  PROVE  CapabilitiesInv'
<1>1. CASE UNCHANGED <<session, inbox, server.created, server.capabilities>>
  BY <1>1 DEF CapabilitiesInv, AboutCapabilities
<1>2. CASE Receive
  BY <1>2, CapabilitiesReceive, SMTT(60)
<1>3. CASE ServerNext
  <2>1. UNCHANGED session
    BY <1>3 DEF ServerNext, ServerSteps, ServerCreates, ServerTakes, ServerAnswers, ServerEmits,
       ServerNotifies, ServerAsks, ServerReplies
  <2>2. CASE UNCHANGED <<inbox, request, server.created, server.capabilities, server.replied>>
    BY <1>1, <2>1, <2>2
  <2>3. ASSUME NEW m \in Messages, Emits(m), WellTyped(m),
               \/ /\ m.type = "created" /\ m.about = server.capabilities
                  /\ ~server.created /\ server'.created /\ UNCHANGED server.capabilities
               \/ /\ m.type = "capabilities" /\ m.about = server'.capabilities
                  /\ UNCHANGED server.created
               \/ ~AboutCapabilities(m) /\ UNCHANGED <<server.created, server.capabilities>>
        PROVE  CapabilitiesInv'
    BY <2>1, <2>3, CapabilitiesEmit
  <2>4. \A m : Asking(m) \/ m.type = "reply" => ~AboutCapabilities(m)
    BY DEF Asking, AboutCapabilities, Broadcast, Routed
  <2> QED
    BY <1>3, <2>2, <2>3, <2>4, ServerEffects, SMTT(60)
<1>4. CASE Dispose
  <2>1. ~session'.registered /\ inbox' = <<>> /\ Len(inbox') = 0
        /\ UNCHANGED <<server, session.created>>
    BY <1>4 DEF Dispose, Typed, TypeOK, Fields
  <2> QED
    BY <2>1 DEF CapabilitiesInv
<1>5. CASE UNCHANGED inbox /\ ~Receive /\ ~ServerNext /\ ~Dispose
  <2>1. UNCHANGED <<server.created, server.capabilities>>
    BY <1>5, ChangesOf DEF Typed, TypeOK, ServerTypes
  <2>2. UNCHANGED session \/ Forget
    BY <1>5, ChangesOf DEF Receive
  <2>3. UNCHANGED session.created /\ (UNCHANGED session \/ ~session'.registered)
    BY <2>2 DEF Forget, Typed, TypeOK, Fields
  <2> QED
    BY <1>5, <2>1, <2>3 DEF CapabilitiesInv, AboutCapabilities
<1> QED
  BY <1>2, <1>3, <1>4, <1>5, ChangesOf

\* Once the messages about capabilities are taken, the session has those of the server,
\* in whichever order session.create is answered and they change, and however often.
THEOREM CapabilitiesFollow == Spec => []CapabilitiesFollowServer
<1>1. Init => CapabilitiesInv
  BY DEF Init, CapabilitiesInv, Configured
<1>2. Typed /\ CapabilitiesInv /\ [Next]_vars => CapabilitiesInv'
  BY CapabilitiesStep
<1>3. Typed /\ CapabilitiesInv => CapabilitiesFollowServer
  <2> SUFFICES ASSUME Typed, CapabilitiesInv, session.created, session.registered,
                      \A i \in DOMAIN inbox : inbox[i].type \notin {"created", "capabilities"}
               PROVE  session.capabilities = server.capabilities
    BY DEF CapabilitiesFollowServer
  <2>1. DOMAIN inbox = 1..Len(inbox)
    BY LenProperties DEF Typed
  <2> QED
    BY <2>1 DEF CapabilitiesInv, AboutCapabilities
<1> QED
  BY <1>1, <1>2, <1>3, AlwaysTyped, PTL DEF Spec


----------------------------------------------------------------------------
(* Answers to the server's requests *)

Refusals == {"none", "throws", "denied", "no-result"}

\* What was answered fits how far the request got and what its handler did.
Fits(q, open) ==
  /\ q.phase \in {"none", "sent", "running", "ignored"} => q.answers = <<>> /\ ~q.refused
  /\ q.phase = "answering" => Len(q.answers) = 1 /\ ~q.refused
  /\ q.phase = "failing" => Len(q.answers) = IF q.refused THEN 2 ELSE 1
  /\ q.phase = "done" /\ open => Len(q.answers) > 0
  /\ Len(q.answers) <= 2 /\ (Len(q.answers) = 2 => q.refused)
  /\ \A i \in 1..Len(q.answers) : q.answers[i] \in Grants => i = 1 /\ q.outcome \notin Refusals

AsksFor(m, r) == Asking(m) /\ m.about = r
RepliesTo(m, r) == m.type = "reply" /\ m.about = r

\* A request comes once, and the reply to an answer before the next answer.
OnceEach(r) ==
  \A i \in 1..Len(inbox) :
    /\ AsksFor(inbox[i], r) =>
         /\ request[r].phase = "sent"
         /\ \A j \in 1..Len(inbox) : AsksFor(inbox[j], r) => j = i
    /\ RepliesTo(inbox[i], r) =>
         /\ request[r].phase \in {"answering", "failing"}
         /\ <<r, Len(request[r].answers)>> \in server.replied
         /\ \A j \in 1..Len(inbox) : RepliesTo(inbox[j], r) => j = i

RepliedInOrder(r) == \A n \in Nat : <<r, n>> \in server.replied => n <= Len(request[r].answers)

Earned(r) == Fits(request[r], connection = "open") /\ OnceEach(r) /\ RepliedInOrder(r)

\* The record of a request and its parts.
LEMMA RequestTyped ==
  ASSUME Typed, NEW r \in Requests
  PROVE  /\ request[r] \in RequestRecords /\ request[r].answers \in Seq(Answers)
         /\ Len(request[r].answers) \in Nat
<1>1. request[r] \in RequestRecords
  BY DEF Typed, TypeOK, RequestTypes, RequestRecords
<1> QED
  BY <1>1, LenProperties DEF RequestRecords

\* Steps that are not about a request leave what was said of it, also when the
\* connection goes.
LEMMA EarnedSame ==
  ASSUME Typed, NEW r \in Requests, Earned(r), request'[r] = request[r],
         UNCHANGED <<inbox, server.replied>>, connection' = "open" => connection = "open"
  PROVE  Earned(r)'
BY DEF Earned, Fits, OnceEach, RepliedInOrder, AsksFor, RepliesTo, Asking

\* Nothing about the request is under way.
Silent(r) == \A i \in 1..Len(inbox) : ~AsksFor(inbox[i], r) /\ ~RepliesTo(inbox[i], r)

LEMMA SilentFits ==
  ASSUME NEW r \in Requests, Silent(r)', Fits(request'[r], connection' = "open"), RepliedInOrder(r)'
  PROVE  Earned(r)'
<1>1. (\A i \in 1..Len(inbox) : ~AsksFor(inbox[i], r) /\ ~RepliesTo(inbox[i], r))'
  BY DEF Silent
<1> QED
  BY <1>1 DEF Earned, OnceEach

LEMMA EarnedEmit ==
  ASSUME Typed, NEW r \in Requests, Earned(r), request'[r] = request[r], UNCHANGED connection,
         \A n \in Nat : <<r, n>> \in server'.replied <=> <<r, n>> \in server.replied,
         NEW m \in Messages, WellTyped(m), Emits(m), ~AsksFor(m, r), ~RepliesTo(m, r)
  PROVE  Earned(r)'
<1>1. /\ Len(inbox) \in Nat /\ Len(inbox') = Len(inbox) + 1 /\ inbox'[Len(inbox) + 1] = m
      /\ \A i \in 1..Len(inbox) : inbox'[i] = inbox[i]
  BY EmitsTyped
<1>2. \A i \in 1..Len(inbox') :
        i \in 1..Len(inbox) \/ (~AsksFor(inbox'[i], r) /\ ~RepliesTo(inbox'[i], r))
  BY <1>1
<1>3. OnceEach(r)'
  BY <1>1, <1>2, RequestTyped, ZenonT(60) DEF Earned, OnceEach, AsksFor, RepliesTo, Asking
<1> QED
  BY <1>3 DEF Earned, Fits, RepliedInOrder

LEMMA EarnedTake ==
  ASSUME Typed, NEW r \in Requests, Earned(r), request'[r] = request[r],
         UNCHANGED <<connection, server>>, inbox # <<>>, inbox' = Tail(inbox)
  PROVE  Earned(r)'
<1>1. /\ Len(inbox') = Len(inbox) - 1 /\ Len(inbox) \in Nat
      /\ \A i \in 1..Len(inbox') : i + 1 \in 1..Len(inbox) /\ inbox'[i] = inbox[i + 1]
  BY HeadTyped
<1>2. ASSUME NEW i \in 1..Len(inbox'), AsksFor(inbox'[i], r)
      PROVE  /\ request[r].phase = "sent"
             /\ \A j \in 1..Len(inbox') : AsksFor(inbox'[j], r) => j = i
  <2>1. i + 1 \in 1..Len(inbox) /\ AsksFor(inbox[i + 1], r)
    BY <1>1, <1>2
  <2>2. \A j \in 1..Len(inbox) : AsksFor(inbox[j], r) => j = i + 1
    BY <2>1 DEF Earned, OnceEach
  <2>3. \A j \in 1..Len(inbox') : AsksFor(inbox'[j], r) => j + 1 = i + 1
    BY <1>1, <2>2
  <2> QED
    BY <2>1, <2>3 DEF Earned, OnceEach
<1>3. ASSUME NEW i \in 1..Len(inbox'), RepliesTo(inbox'[i], r)
      PROVE  /\ request[r].phase \in {"answering", "failing"}
             /\ <<r, Len(request[r].answers)>> \in server.replied
             /\ \A j \in 1..Len(inbox') : RepliesTo(inbox'[j], r) => j = i
  <2>1. PICK k \in 1..Len(inbox) : k = i + 1 /\ RepliesTo(inbox[k], r)
    BY <1>1, <1>3
  <2>2. /\ request[r].phase \in {"answering", "failing"}
        /\ <<r, Len(request[r].answers)>> \in server.replied
        /\ \A j \in 1..Len(inbox) : RepliesTo(inbox[j], r) => j = k
    BY <2>1 DEF Earned, OnceEach
  <2>3. \A j \in 1..Len(inbox') : RepliesTo(inbox'[j], r) => j + 1 = i + 1
    BY <1>1, <2>1, <2>2
  <2> QED
    BY <2>2, <2>3
<1>4. OnceEach(r)'
  BY <1>2, <1>3 DEF OnceEach, AsksFor, RepliesTo, Asking
<1> QED
  BY <1>4 DEF Earned, Fits, RepliedInOrder

\* When the message about a request is taken there is no other about it.
LEMMA TakenIsLast ==
  ASSUME Typed, NEW r \in Requests, Earned(r), inbox # <<>>, inbox' = Tail(inbox),
         AsksFor(Head(inbox), r) \/ RepliesTo(Head(inbox), r)
  PROVE  /\ (Silent(r))'
         /\ AsksFor(Head(inbox), r) => request[r].phase = "sent"
         /\ RepliesTo(Head(inbox), r) => request[r].phase \in {"answering", "failing"}
<1>1. /\ 1 \in 1..Len(inbox) /\ Head(inbox) = inbox[1] /\ Len(inbox) \in Nat
      /\ \A i \in 1..Len(inbox') : i + 1 \in 1..Len(inbox) /\ inbox'[i] = inbox[i + 1] /\ i + 1 # 1
  BY HeadTyped
<1>2. /\ AsksFor(inbox[1], r) => request[r].phase = "sent"
      /\ RepliesTo(inbox[1], r) => request[r].phase \in {"answering", "failing"}
  BY <1>1 DEF Earned, OnceEach
<1>3. \A i \in 1..Len(inbox) :
        /\ AsksFor(inbox[i], r) => request[r].phase = "sent"
        /\ RepliesTo(inbox[i], r) => request[r].phase \in {"answering", "failing"}
        /\ AsksFor(inbox[i], r) /\ AsksFor(inbox[1], r) => i = 1
        /\ RepliesTo(inbox[i], r) /\ RepliesTo(inbox[1], r) => i = 1
  BY <1>1 DEF Earned, OnceEach
<1>4. \A i \in 1..Len(inbox') : ~AsksFor(inbox'[i], r) /\ ~RepliesTo(inbox'[i], r)
  <2> SUFFICES ASSUME NEW i \in 1..Len(inbox'), AsksFor(inbox'[i], r) \/ RepliesTo(inbox'[i], r)
               PROVE  FALSE
    OBVIOUS
  <2>1. PICK j \in 1..Len(inbox) : j = i + 1 /\ j # 1 /\ inbox[j] = inbox'[i]
    BY <1>1
  <2>2. AsksFor(inbox[j], r) \/ RepliesTo(inbox[j], r)
    BY <2>1
  <2> QED
    BY <1>1, <1>2, <1>3, <2>1, <2>2
<1> QED
  BY <1>1, <1>2, <1>4 DEF Silent, AsksFor, RepliesTo, Asking


\* The same of a request something happens to, once nothing about it is under way.
LEMMA EarnedAlone ==
  ASSUME Typed, NEW r \in Requests, Earned(r), (Silent(r))', UNCHANGED server.replied,
         Len(request'[r].answers) \in Nat, Len(request[r].answers) <= Len(request'[r].answers),
         Fits(request'[r], connection' = "open")
  PROVE  Earned(r)'
<1>1. RepliedInOrder(r)'
  BY RequestTyped DEF Earned, RepliedInOrder
<1> QED
  BY <1>1, SilentFits

\* A failure fits a request that has no answer, or one that was refused.
LEMMA FailureFits ==
  ASSUME Typed, NEW r \in Requests, Fits(request[r], connection = "open"),
         NEW answer \in Answers \ Grants,
         NEW q, q.phase = Send(r, answer, "failing").phase,
         q.answers = Send(r, answer, "failing").answers,
         q.refused <=> request[r].answers # <<>>,
         request[r].phase \in {"sent", "running"}
           \/ (request[r].phase = "answering" /\ q.outcome = request[r].outcome)
  PROVE  /\ Fits(q, connection = "open")
         /\ Len(q.answers) \in Nat /\ Len(request[r].answers) <= Len(q.answers)
<1>1. PICK s \in Seq(Answers) : s = request[r].answers /\ Len(s) \in Nat
  BY RequestTyped
<1>2. \/ s = <<>> /\ Len(s) = 0 /\ ~q.refused
      \/ Len(s) = 1 /\ q.refused /\ s # <<>> /\ q.outcome = request[r].outcome
  BY <1>1, EmptySeq DEF Fits
<1>3. \A i \in 1..Len(s) : s[i] \in Grants => i = 1 /\ q.outcome \notin Refusals
  BY <1>1, <1>2 DEF Fits
<1>4. CASE connection = "open"
  <2>1. q.phase = "failing" /\ q.answers = Append(s, answer)
    BY <1>1, <1>4, SendTyped DEF Phases
  <2>2. /\ Len(q.answers) = Len(s) + 1 /\ q.answers[Len(s) + 1] = answer
        /\ \A i \in 1..Len(s) : q.answers[i] = s[i]
    BY <1>1, <2>1, AppendProperties
  <2>3. \A i \in 1..Len(q.answers) : i \in 1..Len(s) \/ i = Len(s) + 1
    BY <1>1, <2>2
  <2>4. \A i \in 1..Len(q.answers) : q.answers[i] \in Grants => i = 1 /\ q.outcome \notin Refusals
    BY <1>3, <2>2, <2>3
  <2> QED
    BY <1>1, <1>2, <2>1, <2>2, <2>4 DEF Fits
<1>5. CASE connection # "open"
  <2>1. q.phase = "done" /\ q.answers = s
    BY <1>1, <1>5, SendTyped DEF Phases
  <2> QED
    BY <1>1, <1>2, <1>3, <1>5, <2>1 DEF Fits
<1> QED
  BY <1>4, <1>5

\* The one answer of a call, or of a handler that returned.
LEMMA AnswerFits ==
  ASSUME NEW open \in BOOLEAN, NEW answer \in Answers,
         NEW q, q.answers = <<answer>>, ~q.refused, q.phase \in {"answering", "done"},
         answer \in Grants => q.outcome \notin Refusals
  PROVE  Fits(q, open) /\ Len(q.answers) = 1
BY DEF Fits


LEMMA EarnedReceive ==
  ASSUME Typed, NEW r \in Requests, Earned(r), Receive, RequestTypes'
  PROVE  Earned(r)'
<1>1. inbox # <<>> /\ inbox' = Tail(inbox) /\ UNCHANGED <<limits, connection, server>>
  BY ReceiveTakes DEF Take
<1>2. PICK m \in Messages : m = Head(inbox) /\ WellTyped(m)
  BY <1>1, HeadTyped
<1>3. /\ request \in [Requests -> RequestRecords] /\ request[r].answers \in Seq(Answers)
      /\ Len(request[r].answers) \in Nat
  BY RequestTyped DEF Typed, TypeOK, RequestTypes, RequestRecords
<1>4. CASE request'[r] = request[r]
  BY <1>1, <1>4, EarnedTake
<1>5. ASSUME AsksFor(m, r) \/ RepliesTo(m, r),
             Len(request'[r].answers) \in Nat, Len(request[r].answers) <= Len(request'[r].answers),
             Fits(request'[r], connection = "open")
      PROVE  Earned(r)'
  BY <1>1, <1>2, <1>5, TakenIsLast, EarnedAlone
<1>6. AsksFor(m, r) \/ RepliesTo(m, r) => Fits(request[r], connection = "open")
  BY DEF Earned
<1>7. AsksFor(m, r) => request[r].phase = "sent" /\ request[r].answers = <<>> /\ ~request[r].refused
                       /\ Len(request[r].answers) = 0
  BY <1>1, <1>2, TakenIsLast, EmptySeq DEF Earned, Fits
<1>8. RepliesTo(m, r) => request[r].phase \in {"answering", "failing"}
  BY <1>1, <1>2, TakenIsLast
<1>9. CASE ReceiveEvent /\ request'[r] # request[r]
  <2>1. m.type \in Broadcast /\ request' = Asked(m)
    BY <1>2, <1>9 DEF ReceiveEvent
  <2>2. m.about = r /\ AsksFor(m, r)
    BY <1>3, <1>9, <2>1 DEF Asked, AsksFor, Asking
  <2>3. \/ request'[r] = [request[r] EXCEPT !.phase = "running"]
        \/ request'[r] = [request[r] EXCEPT !.phase = "ignored"]
        \/ request'[r] = Send(r, "error", "failing")
    BY <1>3, <2>1, <2>2 DEF Asked
  <2>4. CASE request'[r] = Send(r, "error", "failing")
    <3>1. "error" \in Answers \ Grants /\ "failing" \in Phases
      BY DEF Answers, Grants, Phases
    <3>2. ~request'[r].refused
      BY <1>7, <2>2, <2>4, <3>1, SendTyped
    <3>3. /\ Len(request'[r].answers) \in Nat /\ Len(request[r].answers) <= Len(request'[r].answers)
          /\ Fits(request'[r], connection = "open")
      BY <1>6, <1>7, <2>2, <2>4, <3>1, <3>2, FailureFits
    <3> QED
      BY <1>5, <2>2, <3>3
  <2>5. CASE request'[r] # Send(r, "error", "failing")
    <3>1. /\ request'[r].phase \in {"running", "ignored"} /\ request'[r].answers = <<>>
          /\ ~request'[r].refused
      BY <1>3, <1>7, <2>2, <2>3, <2>5 DEF RequestRecords
    <3>2. Fits(request'[r], connection = "open") /\ Len(request'[r].answers) = 0
      BY <3>1, EmptySeq DEF Fits
    <3> QED
      BY <1>5, <1>7, <2>2, <3>2
  <2> QED
    BY <2>4, <2>5
<1>10. CASE ReceiveCall /\ request'[r] # request[r]
  <2>1. m.type \in Routed /\ request' = CalledFor(m)
    BY <1>2, <1>10 DEF ReceiveCall
  <2>2. m.about = r /\ AsksFor(m, r) /\ Kind(r) = m.type
    BY <1>2, <1>3, <1>10, <2>1 DEF CalledFor, AnswerTo, AsksFor, Asking, WellTyped
  <2>3. Failure(Kind(r)) \in Answers \ Grants /\ "error" \in Answers \ Grants
    BY <2>1, <2>2, FailureTyped DEF Answers, Grants
  <2>4. \/ request'[r].phase = "running" /\ request'[r].answers = <<>>
        \/ \E answer \in Answers \ Grants :
             request'[r].phase = "done" /\ request'[r].answers = <<answer>>
    <3>1. \/ request' = [request EXCEPT ![r].phase = "running"]
          \/ \E answer \in Answers \ Grants :
               request' = [request EXCEPT ![r].phase = "done", ![r].answers = <<answer>>]
      BY <2>1, <2>2, <2>3 DEF CalledFor, AnswerTo
    <3> QED
      BY <1>3, <1>7, <2>2, <3>1 DEF RequestRecords
  <2>5. ~request'[r].refused
    BY <1>3, <1>7, <2>1, <2>2 DEF CalledFor, AnswerTo, RequestRecords
  <2>6. CASE request'[r].phase = "running" /\ request'[r].answers = <<>>
    <3>1. Fits(request'[r], connection = "open") /\ Len(request'[r].answers) = 0
      BY <2>5, <2>6, EmptySeq DEF Fits
    <3> QED
      BY <1>5, <1>7, <2>2, <3>1
  <2>7. ASSUME NEW answer \in Answers \ Grants,
               request'[r].phase = "done", request'[r].answers = <<answer>>
        PROVE  Earned(r)'
    <3>1. Fits(request'[r], connection = "open") /\ Len(request'[r].answers) = 1
      BY <2>5, <2>7, AnswerFits
    <3> QED
      BY <1>5, <1>7, <2>2, <3>1
  <2> QED
    BY <2>4, <2>6, <2>7
<1>11. CASE ReceiveReply /\ request'[r] # request[r]
  <2>1. m.type = "reply" /\ request' = Replied(m)
    BY <1>2, <1>11 DEF ReceiveReply
  <2>2. m.about = r /\ RepliesTo(m, r) /\ Kind(r) # "none"
    BY <1>2, <1>3, <1>11, <2>1 DEF Replied, RepliesTo, WellTyped
  <2>3. \/ /\ request[r].phase = "answering"
           /\ request'[r] = [Failed(r) EXCEPT !.refused = TRUE]
        \/ request'[r] = [request[r] EXCEPT !.phase = "done"]
    BY <1>3, <2>1, <2>2 DEF Replied
  <2>4. CASE request'[r] = [request[r] EXCEPT !.phase = "done"]
    <3>1. PICK s \in Seq(Answers) : s = request[r].answers /\ Len(s) \in Nat
      BY <1>3
    <3>2. /\ request'[r].phase = "done" /\ request'[r].answers = s
          /\ request'[r].refused = request[r].refused /\ request'[r].outcome = request[r].outcome
      BY <1>3, <2>4, <3>1 DEF RequestRecords
    <3>3. Len(s) \in {1, 2}
      <4>1. request[r].phase = "answering" => Len(s) = 1
        BY <1>6, <2>2, <3>1 DEF Fits
      <4>2. request[r].phase = "failing" => Len(s) = IF request[r].refused THEN 2 ELSE 1
        BY <1>6, <2>2, <3>1 DEF Fits
      <4> QED
        BY <1>8, <2>2, <4>1, <4>2
    <3>4. /\ Len(s) = 2 => request'[r].refused
          /\ \A i \in 1..Len(s) : s[i] \in Grants => i = 1 /\ request'[r].outcome \notin Refusals
      BY <1>6, <2>2, <3>1, <3>2 DEF Fits
    <3>5. Fits(request'[r], connection = "open")
      <4>1. Len(s) > 0 /\ Len(s) <= 2
        <5>1. \A n \in {1, 2} : n > 0 /\ n <= 2
          OBVIOUS
        <5> QED
          BY <3>3, <5>1, Zenon
      <4>2. /\ Len(request'[r].answers) > 0 /\ Len(request'[r].answers) <= 2
            /\ Len(request'[r].answers) = 2 => request'[r].refused
            /\ \A i \in 1..Len(request'[r].answers) :
                 request'[r].answers[i] \in Grants => i = 1 /\ request'[r].outcome \notin Refusals
        BY <3>2, <3>4, <4>1, Zenon
      <4> QED
        BY <3>2, <4>2 DEF Fits
    <3> QED
      BY <1>5, <2>2, <3>1, <3>2, <3>5
  <2>5. CASE /\ request[r].phase = "answering"
             /\ request'[r] = [Failed(r) EXCEPT !.refused = TRUE]
    <3>1. PICK answer \in Answers \ Grants : answer = Failure(Kind(r))
      BY <2>2, LimitsTyped, FailureTyped DEF Kind
    <3>2. /\ Send(r, answer, "failing") \in RequestRecords
          /\ Send(r, answer, "failing").outcome = request[r].outcome
          /\ Failed(r) = Send(r, answer, "failing")
      BY <3>1, SendTyped DEF Failed, Phases
    <3>3. /\ request'[r].phase = Send(r, answer, "failing").phase
          /\ request'[r].answers = Send(r, answer, "failing").answers
          /\ request'[r].refused /\ request'[r].outcome = request[r].outcome
      BY <2>5, <3>2 DEF RequestRecords
    <3>4. request[r].answers # <<>>
      BY <1>6, <2>2, <2>5, EmptySeq DEF Fits
    <3>5. /\ Len(request'[r].answers) \in Nat /\ Len(request[r].answers) <= Len(request'[r].answers)
          /\ Fits(request'[r], connection = "open")
      BY <1>6, <2>2, <2>5, <3>3, <3>4, FailureFits
    <3> QED
      BY <1>5, <2>2, <3>5
  <2> QED
    BY <2>3, <2>4, <2>5
<1>12. ReceiveEvent \/ ReceiveCall \/ ReceiveReply \/ UNCHANGED request
  BY DEF Receive, ReceiveLifecycle, ReceiveCreated, ReceiveAnswer
<1> QED
  BY <1>4, <1>9, <1>10, <1>11, <1>12


\* A message about a request of which nothing was under way is the only one about it.
LEMMA EmitOnly ==
  ASSUME Typed, NEW r \in Requests, Silent(r), NEW m \in Messages, WellTyped(m), Emits(m)
  PROVE  \A i \in 1..Len(inbox') :
           AsksFor(inbox'[i], r) \/ RepliesTo(inbox'[i], r) => i = Len(inbox) + 1 /\ inbox'[i] = m
<1>1. /\ Len(inbox) \in Nat /\ Len(inbox') = Len(inbox) + 1 /\ inbox'[Len(inbox) + 1] = m
      /\ \A i \in 1..Len(inbox) : inbox'[i] = inbox[i]
  BY EmitsTyped
<1>2. \A i \in 1..Len(inbox') : i \in 1..Len(inbox) \/ i = Len(inbox) + 1
  BY <1>1
<1> QED
  BY <1>1, <1>2 DEF Silent

LEMMA EarnedAsks ==
  ASSUME Typed, NEW r \in Requests, Earned(r), ServerAsks(r), UNCHANGED server,
         NEW m \in Messages, WellTyped(m), Emits(m), m.about = r, Asking(m)
  PROVE  Earned(r)'
<1>1. /\ request[r].phase = "none" /\ request[r] \in RequestRecords
      /\ request' = [request EXCEPT ![r].phase = "sent"] /\ UNCHANGED connection
  BY RequestTyped DEF ServerAsks, ServerSteps
<1>2. /\ request'[r].phase = "sent" /\ request'[r].answers = request[r].answers
      /\ request'[r].refused = request[r].refused /\ request'[r].outcome = request[r].outcome
  BY <1>1 DEF RequestRecords, Typed, TypeOK, RequestTypes
<1>3. request[r].answers = <<>> /\ ~request[r].refused
  BY <1>1 DEF Earned, Fits
<1>4. Fits(request'[r], connection' = "open")
  BY <1>2, <1>3, EmptySeq DEF Fits
<1>5. Silent(r)
  BY <1>1 DEF Earned, OnceEach, Silent
<1>6. m.type # "reply"
  BY DEF Asking, Broadcast, Routed
<1>7. OnceEach(r)'
  <2>1. \A i \in 1..Len(inbox') : AsksFor(inbox'[i], r) \/ RepliesTo(inbox'[i], r) =>
          i = Len(inbox) + 1 /\ inbox'[i] = m
    BY <1>5, EmitOnly
  <2>2. \A i \in 1..Len(inbox') : ~RepliesTo(inbox'[i], r)
    BY <1>6, <2>1 DEF RepliesTo
  <2> QED
    BY <1>2, <2>1, <2>2 DEF OnceEach, AsksFor, RepliesTo, Asking
<1>8. RepliedInOrder(r)'
  BY <1>2 DEF Earned, RepliedInOrder
<1> QED
  BY <1>4, <1>7, <1>8 DEF Earned

LEMMA EarnedReplies ==
  ASSUME Typed, NEW r \in Requests, Earned(r), ServerReplies(r), UNCHANGED request,
         NEW m \in Messages, WellTyped(m), Emits(m), m.about = r, m.type = "reply"
  PROVE  Earned(r)'
<1>1. PICK n \in Nat : n = Len(request[r].answers)
  BY RequestTyped
<1>2. /\ request[r].phase \in {"answering", "failing"} /\ <<r, n>> \notin server.replied
      /\ server' = [server EXCEPT !.replied = server.replied \cup {<<r, n>>}]
      /\ UNCHANGED connection
  BY <1>1 DEF ServerReplies, ServerSteps
<1>3. server'.replied = server.replied \cup {<<r, n>>}
  BY <1>2 DEF Typed, TypeOK, ServerTypes
<1>4. Silent(r)
  BY <1>1, <1>2 DEF Earned, OnceEach, Silent
<1>5. OnceEach(r)'
  <2>1. \A i \in 1..Len(inbox') : AsksFor(inbox'[i], r) \/ RepliesTo(inbox'[i], r) =>
          i = Len(inbox) + 1 /\ inbox'[i] = m
    BY <1>4, EmitOnly
  <2>2. \A i \in 1..Len(inbox') : ~AsksFor(inbox'[i], r)
    BY <2>1 DEF AsksFor, Asking, Broadcast, Routed
  <2>3. <<r, Len(request'[r].answers)>> \in server'.replied
    BY <1>1, <1>3
  <2> QED
    BY <1>2, <2>1, <2>2, <2>3 DEF OnceEach, AsksFor, RepliesTo, Asking
<1>6. RepliedInOrder(r)'
  BY <1>1, <1>3 DEF Earned, RepliedInOrder
<1> QED
  BY <1>2, <1>5, <1>6 DEF Earned, Fits

LEMMA EarnedServer ==
  ASSUME Typed, NEW r \in Requests, Earned(r), ServerNext
  PROVE  Earned(r)'
<1>1. UNCHANGED connection
  <2>1. ServerSteps
    BY Zenon DEF ServerNext, ServerCreates, ServerTakes, ServerAnswers, ServerEmits,
       ServerNotifies, ServerAsks, ServerReplies
  <2> QED
    BY <2>1 DEF ServerSteps
<1>2. CASE UNCHANGED <<inbox, request, server.created, server.capabilities, server.replied>>
  BY <1>1, <1>2, EarnedSame
<1>3. ASSUME NEW m \in Messages, Emits(m), WellTyped(m), ~Asking(m), m.type # "reply",
             UNCHANGED <<request, server.replied>>
      PROVE  Earned(r)'
  BY <1>1, <1>3, EarnedEmit DEF AsksFor, RepliesTo
<1>4. ASSUME NEW m \in Messages, Emits(m), WellTyped(m),
             NEW s \in Requests, ServerAsks(s), m.about = s, Asking(m), UNCHANGED server
      PROVE  Earned(r)'
  <2>1. CASE s = r
    BY <1>4, <2>1, EarnedAsks
  <2>2. CASE s # r
    <3>1. request'[r] = request[r]
      BY <1>4, <2>2 DEF ServerAsks, Typed, TypeOK, RequestTypes
    <3>2. ~AsksFor(m, r) /\ ~RepliesTo(m, r)
      BY <1>4, <2>2 DEF AsksFor, RepliesTo
    <3> QED
      BY <1>1, <1>4, <3>1, <3>2, EarnedEmit
  <2> QED
    BY <2>1, <2>2
<1>5. ASSUME NEW m \in Messages, Emits(m), WellTyped(m),
             NEW s \in Requests, ServerReplies(s), m.about = s, m.type = "reply", UNCHANGED request
      PROVE  Earned(r)'
  <2>1. CASE s = r
    BY <1>5, <2>1, EarnedReplies
  <2>2. CASE s # r
    <3>1. ~AsksFor(m, r) /\ ~RepliesTo(m, r)
      BY <1>5, <2>2 DEF AsksFor, RepliesTo
    <3>2. server'.replied = server.replied \cup {<<s, Len(request[s].answers)>>}
      BY <1>5 DEF ServerReplies, Typed, TypeOK, ServerTypes
    <3>3. \A n \in Nat : <<r, n>> \in server'.replied <=> <<r, n>> \in server.replied
      BY <2>2, <3>2
    <3> QED
      BY <1>1, <1>5, <3>1, <3>3, EarnedEmit
  <2> QED
    BY <2>1, <2>2
<1>6. \A m : (m.type = "created" \/ m.type = "capabilities") => ~Asking(m) /\ m.type # "reply"
  BY DEF Asking, Broadcast, Routed
<1> QED
  BY <1>2, <1>3, <1>4, <1>5, <1>6, ServerEffects


LEMMA EarnedHandler ==
  ASSUME Typed, NEW r \in Requests, Earned(r), HandlerReturns(r)
  PROVE  Earned(r)'
<1>1. /\ request[r].phase = "running" /\ request[r] \in RequestRecords
      /\ UNCHANGED <<inbox, connection, server>>
      /\ request \in [Requests -> RequestRecords]
  BY RequestTyped DEF HandlerReturns, Typed, TypeOK, RequestTypes, RequestRecords
<1>2. request[r].answers = <<>> /\ ~request[r].refused /\ Fits(request[r], connection = "open")
      /\ Len(request[r].answers) = 0
  BY <1>1, EmptySeq DEF Earned, Fits
<1>3. PICK kind \in Broadcast \cup Routed : kind = Kind(r)
  BY <1>1, LimitsTyped DEF Kind, Typed, TypeOK, RequestTypes
<1>4. PICK outcome \in OutcomesOf(kind) :
        request' = [request EXCEPT ![r] =
          [(IF kind \in Broadcast THEN BroadcastAnswered(r, outcome) ELSE RoutedAnswered(r, outcome))
           EXCEPT !.outcome = outcome]]
  BY <1>3 DEF HandlerReturns
<1>5. (Silent(r))'
  BY <1>1 DEF Earned, OnceEach, Silent, AsksFor, RepliesTo, Asking
<1>6. ASSUME Len(request'[r].answers) \in Nat, Fits(request'[r], connection = "open")
      PROVE  Earned(r)'
  BY <1>1, <1>2, <1>5, <1>6, EarnedAlone
<1>7. CASE kind \in Broadcast /\ outcome = "throws"
  <2>1. PICK answer \in Answers \ Grants : answer = Failure(kind)
    BY FailureTyped
  <2>2. /\ Send(r, answer, "failing") \in RequestRecords
        /\ Send(r, answer, "failing").refused = request[r].refused
        /\ BroadcastAnswered(r, outcome) = Send(r, answer, "failing")
    BY <1>3, <1>7, <2>1, SendTyped DEF BroadcastAnswered, Failed, Phases
  <2>3. request'[r] = [Send(r, answer, "failing") EXCEPT !.outcome = outcome]
    BY <1>1, <1>4, <1>7, <2>2
  <2>4. /\ request'[r].phase = Send(r, answer, "failing").phase
        /\ request'[r].answers = Send(r, answer, "failing").answers
        /\ ~request'[r].refused
    BY <1>2, <2>2, <2>3 DEF RequestRecords
  <2> QED
    BY <1>1, <1>2, <1>6, <2>4, FailureFits
<1>8. CASE kind \in Broadcast /\ outcome = "no-result"
  <2>1. BroadcastAnswered(r, outcome) = [request[r] EXCEPT !.phase = "ignored"]
    BY <1>8 DEF BroadcastAnswered
  <2>2. request'[r] = [[request[r] EXCEPT !.phase = "ignored"] EXCEPT !.outcome = outcome]
    BY <1>1, <1>4, <1>8, <2>1
  <2>3. request'[r].phase = "ignored" /\ request'[r].answers = <<>> /\ ~request'[r].refused
    BY <1>1, <1>2, <2>2 DEF RequestRecords
  <2> QED
    BY <1>6, <2>3, EmptySeq DEF Fits
<1>9. CASE kind \in Broadcast /\ outcome \notin {"throws", "no-result"}
  <2>1. PICK answer : answer = IF kind = "tool" THEN ToolResult(outcome) ELSE outcome
    OBVIOUS
  <2>2. answer \in Answers /\ (answer \in Grants => outcome \notin Refusals)
    BY <1>9, <2>1, BroadcastResult DEF Refusals
  <2>3. BroadcastAnswered(r, outcome) = Send(r, answer, "answering")
    BY <1>3, <1>9, <2>1 DEF BroadcastAnswered
  <2>4. request'[r] = [Send(r, answer, "answering") EXCEPT !.outcome = outcome]
    BY <1>1, <1>4, <1>9, <2>3
  <2>5. Send(r, answer, "answering") \in RequestRecords
    BY <2>2, SendTyped DEF Phases
  <2>6. /\ request'[r].phase = Send(r, answer, "answering").phase
        /\ request'[r].answers = Send(r, answer, "answering").answers
        /\ ~request'[r].refused /\ request'[r].outcome = outcome
    BY <1>2, <2>2, <2>4, <2>5, SendTyped DEF RequestRecords, Phases
  <2>7. CASE connection = "open"
    <3>1. request'[r].phase = "answering" /\ request'[r].answers = <<answer>>
      BY <1>2, <2>2, <2>6, <2>7, SendTyped DEF Phases
    <3>2. Fits(request'[r], connection = "open") /\ Len(request'[r].answers) = 1
      BY <2>2, <2>6, <3>1, AnswerFits
    <3> QED
      BY <1>6, <3>2
  <2>8. CASE connection # "open"
    <3>1. request'[r].phase = "done" /\ request'[r].answers = <<>>
      BY <1>2, <2>2, <2>6, <2>8, SendTyped DEF Phases
    <3>2. Fits(request'[r], connection = "open") /\ Len(request'[r].answers) = 0
      BY <2>6, <2>8, <3>1, EmptySeq DEF Fits
    <3> QED
      BY <1>6, <3>2
  <2> QED
    BY <2>7, <2>8
<1>10. CASE kind \notin Broadcast
  <2>1. PICK answer \in Answers : /\ answer = RoutedResult(kind, outcome)
                                  /\ answer \in Grants => outcome \notin Refusals
    BY <1>10, CallResult DEF Refusals
  <2>2. PICK s \in Seq(Answers) : s = <<answer>>
    <3>1. <<answer>> \in Seq(Answers)
      OBVIOUS
    <3> QED
      BY <3>1
  <2>3. RoutedAnswered(r, outcome) = [request[r] EXCEPT !.phase = "done", !.answers = s]
    BY <1>3, <2>1, <2>2 DEF RoutedAnswered
  <2>4. request'[r] = [[request[r] EXCEPT !.phase = "done", !.answers = s] EXCEPT !.outcome = outcome]
    BY <1>1, <1>4, <1>10, <2>3
  <2>5. /\ request'[r].phase = "done" /\ request'[r].answers = <<answer>>
        /\ ~request'[r].refused /\ request'[r].outcome = outcome
    BY <1>1, <1>2, <2>2, <2>4 DEF RequestRecords
  <2>6. Fits(request'[r], connection = "open") /\ Len(request'[r].answers) = 1
    BY <2>1, <2>5, AnswerFits
  <2> QED
    BY <1>6, <2>6
<1> QED
  BY <1>7, <1>8, <1>9, <1>10

LEMMA EarnedDispose ==
  ASSUME Typed, NEW r \in Requests, Earned(r), Dispose
  PROVE  Earned(r)'
<1>1. /\ inbox' = <<>> /\ Len(inbox') = 0 /\ connection' = "disposed" /\ UNCHANGED server
      /\ request'[r] = IF request[r].phase \in {"answering", "failing"}
                       THEN [request[r] EXCEPT !.phase = "done"] ELSE request[r]
  BY DEF Dispose
<1>2. /\ request'[r].answers = request[r].answers /\ request'[r].refused = request[r].refused
      /\ request'[r].outcome = request[r].outcome
      /\ request'[r].phase = request[r].phase \/ request'[r].phase = "done"
  BY <1>1, RequestTyped DEF RequestRecords
<1>3. Fits(request'[r], connection' = "open")
  BY <1>1, <1>2 DEF Earned, Fits
<1>4. OnceEach(r)' /\ RepliedInOrder(r)'
  BY <1>1, <1>2 DEF Earned, OnceEach, RepliedInOrder
<1> QED
  BY <1>3, <1>4 DEF Earned

LEMMA EarnedStep ==
  ASSUME Typed, NEW r \in Requests, Earned(r), [Next]_vars
  PROVE  Earned(r)'
<1>1. CASE Receive
  BY <1>1, RequestsStep, EarnedReceive
<1>2. CASE ServerNext
  BY <1>2, EarnedServer
<1>3. CASE Dispose
  BY <1>3, EarnedDispose
<1>4. ASSUME NEW s \in Requests, HandlerReturns(s)
      PROVE  Earned(r)'
  <2>1. CASE s = r
    BY <1>4, <2>1, EarnedHandler
  <2>2. CASE s # r
    BY <1>4, <2>2, EarnedSame DEF HandlerReturns, Typed, TypeOK, RequestTypes
  <2> QED
    BY <2>1, <2>2
<1>5. CASE ~Receive /\ ~ServerNext /\ ~Dispose /\ ~\E s \in Requests : HandlerReturns(s)
  <2>1. UNCHANGED inbox /\ (UNCHANGED connection \/ Close)
    BY <1>5, ChangesOf
  <2>2. UNCHANGED request
    BY <1>5, ChangesOf DEF Receive, ServerNext
  <2>3. UNCHANGED server.replied
    BY <1>5, ChangesOf DEF Typed, TypeOK, ServerTypes
  <2>4. connection' = "open" => connection = "open"
    BY <2>1 DEF Close
  <2> QED
    BY <2>1, <2>2, <2>3, <2>4, EarnedSame
<1> QED
  BY <1>1, <1>2, <1>3, <1>4, <1>5

\* Whatever the handlers do and the server refuses, and whenever the connection goes, an
\* answer that grants something is the first and what the handler returned, a second one
\* follows on a refusal, and with an open connection no request is done unanswered.
THEOREM AnswersAreEarned == Spec => []AnswersEarned
<1> DEFINE AllEarned == \A r \in Requests : Earned(r)
<1>1. Init => AllEarned
  <2> SUFFICES ASSUME Init, NEW r \in Requests
               PROVE  Earned(r)
    OBVIOUS
  <2>1. /\ request[r].phase = "none" /\ request[r].answers = <<>> /\ ~request[r].refused
        /\ inbox = <<>> /\ server.replied = {}
    BY DEF Init
  <2>2. Len(request[r].answers) = 0 /\ Len(inbox) = 0
    BY <2>1, EmptySeq
  <2> QED
    BY <2>1, <2>2 DEF Earned, Fits, OnceEach, RepliedInOrder
<1>2. Typed /\ AllEarned /\ [Next]_vars => AllEarned'
  <2> SUFFICES ASSUME Typed, AllEarned, [Next]_vars, NEW r \in Requests
               PROVE  Earned(r)'
    OBVIOUS
  <2> QED
    BY EarnedStep
<1>3. Typed /\ AllEarned => AnswersEarned
  <2> SUFFICES ASSUME Typed, AllEarned, NEW r \in Requests
               PROVE  /\ \A i \in DOMAIN request[r].answers : request[r].answers[i] \in Grants =>
                           i = 1 /\ request[r].outcome \notin {"none", "throws", "denied", "no-result"}
                      /\ Len(request[r].answers) <= 2
                      /\ Len(request[r].answers) = 2 => request[r].refused
                      /\ request[r].phase = "done" /\ connection = "open" => request[r].answers # <<>>
    BY DEF AnswersEarned
  <2>1. PICK s \in Seq(Answers) : s = request[r].answers /\ DOMAIN s = 1..Len(s)
    BY RequestTyped, LenProperties
  <2>2. request[r].phase = "done" /\ connection = "open" => s # <<>>
    BY <2>1, EmptySeq DEF Earned, Fits
  <2> QED
    BY <2>1, <2>2 DEF Earned, Fits, Refusals
<1> QED
  BY <1>1, <1>2, <1>3, AlwaysTyped, PTL DEF Spec


----------------------------------------------------------------------------
(* What sendAndWait returns *)

AnswerFor(m, t) == m.type = "answer" /\ m.about = t
AskingLabels == {"sending", "disconnecting", "requesting"}
Awaited(t) == t \in server.pending \cup server.taken

\* A task that is idle remembers nothing and hears nothing; one that asked is answered at
\* most once.
AnsweredOnce(t) ==
  /\ task[t].pc = "idle" => task[t] = Idle(task[t].calls) /\ subs[t] = 0
  /\ Awaited(t) /\ connection # "disposed" => task[t].pc \in AskingLabels
  /\ \A i \in 1..Len(inbox) : AnswerFor(inbox[i], t) =>
       /\ task[t].pc \in AskingLabels /\ ~Awaited(t)
       /\ \A j \in 1..Len(inbox) : AnswerFor(inbox[j], t) => j = i
  /\ connection = "disposed" => inbox = <<>>

\* A task has a turn once the server took its session.send.
TurnTaken(t) ==
  /\ task[t].pc \in {"idle", "tracing"} => task[t].turn = 0
  /\ t \in server.pending /\ connection # "disposed" => task[t].turn = 0
  /\ task[t].turn <= server.turns

\* The turns are numbered, and nothing was said yet in those to come.
TurnsNumbered ==
  /\ server.turns <= MaxTurns
  /\ \A i \in 1..Len(server.queue) : server.queue[i] \in 1..server.turns
  /\ \A n \in 1..MaxTurns : n > server.turns => server.said[n] = 0

\* Only while it is registered do the subscribers of the session hear its events.
RunsRegistered == dispatch # None => session.registered \/ dispatch.event.type = "lifecycle"

Runs(type) == dispatch # None /\ dispatch.event.type = type
NoEvents(types) == \A i \in 1..Len(inbox) : inbox[i].type \notin types
Listens(t) == subs[t] # 0 /\ session.registered

\* The last message on its way is number n.
LastMessageIs(n) ==
  \A i \in 1..Len(inbox) :
    inbox[i].type = "message" /\ (\A j \in 1..Len(inbox) : j > i => inbox[j].type # "message") =>
      inbox[i].about = n

NothingAfterIdle ==
  \A i, j \in 1..Len(inbox) : inbox[i].type = "idle" /\ j > i => inbox[j].type \notin TurnEvents

\* The last message on its way to the task is the last of its turn; when none is, the
\* task has that.
LastOnTheWay(t) ==
  LET said == server.said[task[t].turn]
  IN /\ LastMessageIs(said)
     /\ NoEvents({"message"}) =>
          /\ Runs("message") => dispatch.event.about = said
          /\ ~Runs("message") \/ t \notin dispatch.owed => task[t].last = said

\* Nothing of the turn comes after its idle event.
IdleIsLast(t) ==
  /\ NothingAfterIdle
  /\ NoEvents({"idle"}) \/ server.queue = <<>>
  /\ Runs("idle") => server.queue = <<>> /\ NoEvents(TurnEvents)
  /\ task[t].settled = "idle" => NoEvents(TurnEvents) /\ ~Runs("message")

\* While no other send overlaps that of a task, the turn that is open is its own, and it
\* hears all of that turn for as long as it listens.
OwnTurn(t) ==
  task[t].alone =>
    /\ Sends(Tasks) \subseteq {t} /\ server.queue \in {<<>>, <<task[t].turn>>}
    /\ task[t].turn = 0 =>
         /\ server.queue = <<>> /\ NoEvents(TurnEvents)
         /\ \A type \in TurnEvents : ~Runs(type)
         /\ task[t].settled = "pending" /\ task[t].last = 0
    /\ task[t].settled = "idle" =>
         server.queue = <<>> /\ task[t].last = server.said[task[t].turn]
    /\ task[t].turn # 0 /\ Listens(t) => LastOnTheWay(t) /\ IdleIsLast(t)

OwnTurnInv ==
  /\ TurnsNumbered /\ RunsRegistered
  /\ \A t \in Tasks : AnsweredOnce(t) /\ TurnTaken(t) /\ OwnTurn(t)


\* Without its first message the inbox holds what it held, but for that message.
LEMMA InboxTaken ==
  ASSUME Typed, inbox # <<>>, inbox' = Tail(inbox)
  PROVE  /\ \A types : NoEvents(types) <=> Head(inbox).type \notin types /\ NoEvents(types)'
         /\ \A n : LastMessageIs(n) =>
              /\ (LastMessageIs(n))'
              /\ Head(inbox).type = "message" /\ NoEvents({"message"})' => Head(inbox).about = n
         /\ NothingAfterIdle =>
              NothingAfterIdle' /\ (Head(inbox).type = "idle" => NoEvents(TurnEvents)')
<1>1. /\ Head(inbox) = inbox[1] /\ Len(inbox) \in Nat /\ 1 \in 1..Len(inbox)
      /\ Len(inbox') = Len(inbox) - 1
      /\ \A i \in 1..Len(inbox') : i + 1 \in 1..Len(inbox) /\ inbox'[i] = inbox[i + 1]
  BY HeadTyped
<1>2. \A i \in 1..Len(inbox) : i = 1 \/ (i - 1 \in 1..Len(inbox') /\ inbox'[i - 1] = inbox[i])
  BY <1>1
<1>3. \A types : NoEvents(types) <=> Head(inbox).type \notin types /\ NoEvents(types)'
  BY <1>1, <1>2 DEF NoEvents
<1>4. ASSUME NEW n, LastMessageIs(n)
      PROVE  /\ (LastMessageIs(n))'
             /\ Head(inbox).type = "message" /\ NoEvents({"message"})' => Head(inbox).about = n
  <2>1. ASSUME NEW i \in 1..Len(inbox'), inbox'[i].type = "message",
               \A j \in 1..Len(inbox') : j > i => inbox'[j].type # "message"
        PROVE  inbox'[i].about = n
    <3>1. i + 1 \in 1..Len(inbox) /\ inbox[i + 1] = inbox'[i]
      BY <1>1
    <3>2. ASSUME NEW j \in 1..Len(inbox), j > i + 1
          PROVE  inbox[j].type # "message"
      <4>1. j - 1 \in 1..Len(inbox') /\ j - 1 > i /\ inbox'[j - 1] = inbox[j]
        BY <1>2, <3>2
      <4> QED
        BY <2>1, <4>1
    <3> QED
      BY <1>4, <2>1, <3>1, <3>2 DEF LastMessageIs
  <2>2. ASSUME Head(inbox).type = "message", NoEvents({"message"})'
        PROVE  Head(inbox).about = n
    <3>1. ASSUME NEW j \in 1..Len(inbox), j > 1
          PROVE  inbox[j].type # "message"
      <4>1. j - 1 \in 1..Len(inbox') /\ inbox'[j - 1] = inbox[j]
        BY <1>2, <3>1
      <4> QED
        BY <2>2, <4>1 DEF NoEvents
    <3> QED
      BY <1>1, <1>4, <2>2, <3>1 DEF LastMessageIs
  <2> QED
    BY <2>1, <2>2 DEF LastMessageIs
<1>5. ASSUME NothingAfterIdle
      PROVE  NothingAfterIdle' /\ (Head(inbox).type = "idle" => NoEvents(TurnEvents)')
  <2>1. NothingAfterIdle'
    <3> SUFFICES ASSUME NEW i \in 1..Len(inbox'), NEW j \in 1..Len(inbox'),
                        inbox'[i].type = "idle", j > i
                 PROVE  inbox'[j].type \notin TurnEvents
      BY DEF NothingAfterIdle
    <3>1. /\ i + 1 \in 1..Len(inbox) /\ j + 1 \in 1..Len(inbox) /\ j + 1 > i + 1
          /\ inbox[i + 1] = inbox'[i] /\ inbox[j + 1] = inbox'[j]
      BY <1>1
    <3> QED
      BY <1>5, <3>1 DEF NothingAfterIdle
  <2>2. ASSUME Head(inbox).type = "idle", NEW i \in 1..Len(inbox')
        PROVE  inbox'[i].type \notin TurnEvents
    <3>1. i + 1 \in 1..Len(inbox) /\ i + 1 > 1 /\ inbox'[i] = inbox[i + 1]
      BY <1>1
    <3> QED
      BY <1>1, <1>5, <2>2, <3>1 DEF NothingAfterIdle
  <2> QED
    BY <2>1, <2>2 DEF NoEvents
<1> QED
  BY <1>3, <1>4, <1>5

\* What it holds with one more message.
LEMMA InboxGrown ==
  ASSUME Typed, NEW m \in Messages, WellTyped(m), Emits(m)
  PROVE  /\ \A types : NoEvents(types)' <=> NoEvents(types) /\ m.type \notin types
         /\ \A n : m.type # "message" /\ LastMessageIs(n) => (LastMessageIs(n))'
         /\ m.type = "message" => (LastMessageIs(m.about))'
         /\ NothingAfterIdle /\ (m.type \notin TurnEvents \/ NoEvents({"idle"})) => NothingAfterIdle'
<1>1. /\ Len(inbox) \in Nat /\ Len(inbox') = Len(inbox) + 1 /\ inbox'[Len(inbox) + 1] = m
      /\ \A i \in 1..Len(inbox) : inbox'[i] = inbox[i] /\ i \in 1..Len(inbox')
  <2>1. /\ Len(inbox) \in Nat /\ Len(inbox') = Len(inbox) + 1 /\ inbox'[Len(inbox) + 1] = m
        /\ \A i \in 1..Len(inbox) : inbox'[i] = inbox[i]
    BY EmitsTyped
  <2> QED
    BY <2>1
<1>2. \A i \in 1..Len(inbox') : i \in 1..Len(inbox) \/ i = Len(inbox) + 1
  BY <1>1
<1>3. Len(inbox) + 1 \in 1..Len(inbox')
  BY <1>1
<1>4. \A types : NoEvents(types)' <=> NoEvents(types) /\ m.type \notin types
  BY <1>1, <1>2, <1>3 DEF NoEvents
<1>5. ASSUME NEW n, m.type # "message", LastMessageIs(n)
      PROVE  (LastMessageIs(n))'
  <2> SUFFICES ASSUME NEW i \in 1..Len(inbox'), inbox'[i].type = "message",
                      \A j \in 1..Len(inbox') : j > i => inbox'[j].type # "message"
               PROVE  inbox'[i].about = n
    BY DEF LastMessageIs
  <2>1. i \in 1..Len(inbox) /\ inbox'[i] = inbox[i]
    BY <1>1, <1>2, <1>5
  <2>2. \A j \in 1..Len(inbox) : j > i => inbox[j].type # "message"
    BY <1>1
  <2> QED
    BY <1>5, <2>1, <2>2 DEF LastMessageIs
<1>6. ASSUME m.type = "message"
      PROVE  (LastMessageIs(m.about))'
  <2> SUFFICES ASSUME NEW i \in 1..Len(inbox'),
                      \A j \in 1..Len(inbox') : j > i => inbox'[j].type # "message"
               PROVE  inbox'[i].about = m.about
    BY DEF LastMessageIs
  <2>1. ~(Len(inbox) + 1 > i)
    BY <1>1, <1>3, <1>6
  <2> QED
    BY <1>1, <1>2, <2>1
<1>7. ASSUME NothingAfterIdle, m.type \notin TurnEvents \/ NoEvents({"idle"})
      PROVE  NothingAfterIdle'
  <2> SUFFICES ASSUME NEW i \in 1..Len(inbox'), NEW j \in 1..Len(inbox'),
                      inbox'[i].type = "idle", j > i
               PROVE  inbox'[j].type \notin TurnEvents
    BY DEF NothingAfterIdle
  <2>1. i \in 1..Len(inbox) /\ inbox'[i] = inbox[i]
    BY <1>1, <1>2
  <2>2. ~NoEvents({"idle"})
    BY <2>1 DEF NoEvents
  <2>3. CASE j \in 1..Len(inbox)
    BY <1>1, <1>7, <2>1, <2>3 DEF NothingAfterIdle
  <2>4. CASE j = Len(inbox) + 1
    BY <1>1, <1>7, <2>2, <2>4
  <2> QED
    BY <1>2, <2>3, <2>4
<1> QED
  BY <1>4, <1>5, <1>6, <1>7


LEMMA TaskTyped ==
  ASSUME Typed, NEW t \in Tasks
  PROVE  /\ task \in [Tasks -> TaskRecords] /\ task[t] \in TaskRecords
         /\ server \in ServerRecords /\ subs \in [Keys -> Nat] /\ t \in Keys /\ t \notin Handlers
<1>1. subs \in [Keys -> 0..slots] /\ slots \in Nat
  BY DEF Typed, TypeOK, SubscriberTypes
<1>2. subs \in [Keys -> Nat]
  BY <1>1
<1>3. t \in Keys /\ t \notin Handlers
  BY DEF Keys
<1> QED
  BY <1>2, <1>3 DEF Typed, TypeOK, TaskTypes, TaskRecords, ServerTypes, ServerRecords

\* The server takes a session.send.
LEMMA TurnOpens ==
  ASSUME Typed, NEW t \in Tasks, ServerTakes(t)
  PROVE  /\ connection = "open" /\ t \in server.pending /\ t \in Sends(Tasks)
         /\ server.turns < MaxTurns /\ server'.turns = server.turns + 1
         /\ server'.queue = Append(server.queue, server.turns + 1)
         /\ server'.pending = server.pending \ {t} /\ server'.taken = server.taken \cup {t}
         /\ task' = [task EXCEPT ![t] = [task[t] EXCEPT !.turn = server.turns + 1]]
         /\ UNCHANGED <<inbox, connection, session, subs, dispatch, server.said>>
<1>1. server \in ServerRecords /\ task \in [Tasks -> TaskRecords]
  BY TaskTyped
<1> QED
  BY <1>1 DEF ServerTakes, ServerSteps, ServerRecords, TaskRecords, Sends

\* It answers a task.
LEMMA TaskAnswered ==
  ASSUME Typed, NEW t \in Tasks, ServerAnswers(t)
  PROVE  /\ Awaited(t) /\ connection = "open"
         /\ \E m \in Messages : Emits(m) /\ WellTyped(m) /\ AnswerFor(m, t)
         /\ server'.pending = server.pending \ {t} /\ server'.taken = server.taken \ {t}
         /\ UNCHANGED <<task, connection, session, subs, dispatch,
                        server.turns, server.queue, server.said>>
<1>1. server \in ServerRecords
  BY TaskTyped
<1>2. PICK ok \in BOOLEAN : Emits(Message("answer", t, ok))
  BY DEF ServerAnswers
<1>3. /\ Message("answer", t, ok) \in Messages /\ WellTyped(Message("answer", t, ok))
      /\ AnswerFor(Message("answer", t, ok), t)
  BY DEF Message, Messages, MessageTypes, WellTyped, TurnEvents, Broadcast, Routed, AnswerFor
<1>4. Awaited(t) /\ connection = "open"
  BY <1>2 DEF ServerAnswers, Awaited, Emits
<1>5. server' = [server EXCEPT !.pending = @ \ {t}, !.taken = @ \ {t}]
      /\ UNCHANGED <<task, connection, session, subs, dispatch>>
  BY DEF ServerAnswers, ServerSteps
<1> QED
  BY <1>1, <1>2, <1>3, <1>4, <1>5 DEF ServerRecords

\* It says something in the turn that is open.
LEMMA TurnGoesOn ==
  ASSUME Typed, ServerEmits
  PROVE  /\ server.queue # <<>>
         /\ \E m \in Messages :
              /\ Emits(m) /\ WellTyped(m) /\ m.type \in TurnEvents
              /\ server'.said = IF m.type = "message"
                                THEN [server.said EXCEPT ![Head(server.queue)] = m.about]
                                ELSE server.said
              /\ server'.queue = IF m.type = "idle" THEN Tail(server.queue) ELSE server.queue
         /\ UNCHANGED <<task, connection, session, subs, dispatch,
                        server.turns, server.pending, server.taken>>
<1>1. server \in ServerRecords /\ server.events + 1 \in Nat
  BY DEF Typed, TypeOK, ServerTypes, ServerRecords
<1> DEFINE turn == Head(server.queue)
<1>2. PICK type \in TurnEvents :
        /\ Emits(Message(type, server.events + 1, FALSE))
        /\ server' = [server EXCEPT !.events = @ + 1,
                        !.said[turn] = IF type = "message" THEN server.events + 1 ELSE @,
                        !.queue = IF type = "idle" THEN Tail(@) ELSE @]
  BY Zenon DEF ServerEmits
<1>3. PICK m : m = Message(type, server.events + 1, FALSE)
  OBVIOUS
<1>4. m \in Messages /\ WellTyped(m) /\ m.type = type /\ m.about = server.events + 1
  BY <1>1, <1>3 DEF Message, Messages, MessageTypes, EventTypes, WellTyped, TurnEvents, Broadcast,
     Routed
<1>5. PICK said : said = [server.said EXCEPT ![turn] = IF type = "message" THEN m.about ELSE @]
  OBVIOUS
<1>6. PICK queue : queue = IF type = "idle" THEN Tail(server.queue) ELSE server.queue
  OBVIOUS
<1>7. server' = [server EXCEPT !.events = m.about, !.said = said, !.queue = queue]
  BY <1>1, <1>2, <1>4, <1>5, <1>6 DEF ServerRecords
<1>8. type # "message" => said = server.said
  BY <1>1, <1>5 DEF ServerRecords
<1>9. /\ server'.said = said /\ server'.queue = queue
      /\ UNCHANGED <<server.turns, server.pending, server.taken>>
  BY <1>1, <1>7 DEF ServerRecords
<1>10. server.queue # <<>> /\ UNCHANGED <<task, connection, session, subs, dispatch>>
  BY DEF ServerEmits, ServerSteps
<1>11. /\ server'.said = IF m.type = "message"
                         THEN [server.said EXCEPT ![turn] = m.about] ELSE server.said
       /\ server'.queue = IF m.type = "idle" THEN Tail(server.queue) ELSE server.queue
  BY <1>4, <1>5, <1>6, <1>8, <1>9
<1>12. Emits(m)
  BY <1>2, <1>3
<1> QED
  BY <1>4, <1>9, <1>10, <1>11, <1>12

\* What else it does is about neither turns nor tasks.
LEMMA ServerElse ==
  ASSUME Typed, ServerCreates \/ ServerNotifies \/ \E r \in Requests : ServerAsks(r) \/ ServerReplies(r)
  PROVE  /\ \E m \in Messages :
              Emits(m) /\ WellTyped(m) /\ m.type \notin TurnEvents /\ m.type # "answer"
         /\ UNCHANGED <<task, connection, session, subs, dispatch, server.turns, server.queue,
                        server.said, server.pending, server.taken>>
<1>1. server \in ServerRecords /\ server.capabilities \in BOOLEAN
  BY DEF Typed, TypeOK, ServerTypes, ServerRecords
<1>2. UNCHANGED <<task, connection, session, subs, dispatch>>
  BY DEF ServerCreates, ServerNotifies, ServerAsks, ServerReplies, ServerSteps
<1>3. UNCHANGED <<server.turns, server.queue, server.said, server.pending, server.taken>>
  <2>1. CASE ServerCreates
    BY <1>1, <2>1 DEF ServerCreates, ServerRecords
  <2>2. CASE ServerNotifies
    <3>1. \/ server' = [server EXCEPT !.events = @ + 1, !.capabilities = ~@]
          \/ server' = [server EXCEPT !.events = @ + 1]
      BY <2>2 DEF ServerNotifies
    <3> QED
      BY <1>1, <3>1 DEF ServerRecords
  <2>3. CASE \E r \in Requests : ServerAsks(r) \/ ServerReplies(r)
    BY <1>1, <2>3 DEF ServerAsks, ServerReplies, ServerRecords
  <2> QED
    BY <2>1, <2>2, <2>3
<1>4. \E m \in Messages : Emits(m) /\ WellTyped(m) /\ m.type \notin TurnEvents /\ m.type # "answer"
  <2> USE DEF Message, Messages, MessageTypes, WellTyped, EventTypes
  <2>1. CASE ServerCreates
    <3>1. PICK ok \in BOOLEAN : Emits(Message("created", server.capabilities, ok))
      BY <2>1 DEF ServerCreates
    <3> QED
      BY <1>1, <3>1 DEF TurnEvents, Broadcast, Routed
  <2>2. CASE ServerNotifies
    <3>1. \/ Emits(Message("capabilities", ~server.capabilities, FALSE))
          \/ Emits(Message("lifecycle", 0, FALSE))
      BY <2>2 DEF ServerNotifies
    <3>2. PICK b \in BOOLEAN : b = ~server.capabilities
      BY <1>1
    <3>3. Emits(Message("capabilities", b, FALSE)) \/ Emits(Message("lifecycle", 0, FALSE))
      BY <3>1, <3>2
    <3>4. /\ Message("capabilities", b, FALSE) \in Messages
          /\ WellTyped(Message("capabilities", b, FALSE))
          /\ Message("capabilities", b, FALSE).type = "capabilities"
      BY DEF TurnEvents, Broadcast, Routed
    <3>5. /\ Message("lifecycle", 0, FALSE) \in Messages
          /\ WellTyped(Message("lifecycle", 0, FALSE))
          /\ Message("lifecycle", 0, FALSE).type = "lifecycle"
      BY DEF TurnEvents, Broadcast, Routed
    <3>6. "capabilities" \notin TurnEvents /\ "lifecycle" \notin TurnEvents
      BY DEF TurnEvents
    <3> HIDE DEF Message, Messages, MessageTypes, WellTyped, EventTypes
    <3> QED
      BY <3>3, <3>4, <3>5, <3>6
  <2>3. ASSUME NEW r \in Requests, ServerAsks(r)
        PROVE  \E m \in Messages :
                 Emits(m) /\ WellTyped(m) /\ m.type \notin TurnEvents /\ m.type # "answer"
    <3>1. PICK ok \in BOOLEAN : Emits(Message(Kind(r), r, ok))
      BY <2>3 DEF ServerAsks
    <3>2. PICK k \in Broadcast \cup Routed : k = Kind(r)
      BY <2>3, LimitsTyped DEF ServerAsks, Kind
    <3> QED
      BY <3>1, <3>2 DEF TurnEvents, Broadcast, Routed
  <2>4. ASSUME NEW r \in Requests, ServerReplies(r)
        PROVE  \E m \in Messages :
                 Emits(m) /\ WellTyped(m) /\ m.type \notin TurnEvents /\ m.type # "answer"
    <3>1. PICK ok \in BOOLEAN : Emits(Message("reply", r, ok))
      BY <2>4 DEF ServerReplies
    <3>2. Kind(r) # "none"
      BY <2>4 DEF ServerReplies, Typed, TypeOK, RequestTypes
    <3> QED
      BY <3>1, <3>2 DEF TurnEvents, Broadcast, Routed
  <2> QED
    BY <2>1, <2>2, <2>3, <2>4
<1> QED
  BY <1>2, <1>3, <1>4


\* What a task does when it runs.
Begins(t) ==
  /\ task[t].pc = "idle" /\ \A u \in Tasks \ {t} : subs'[u] = subs[u]
  /\ \/ \E op \in {"send", "sendAndWait"} : Starts(t, op, "tracing") /\ UNCHANGED server.pending
     \/ /\ connection = "open" /\ server'.pending = server.pending \cup {t} /\ UNCHANGED subs
        /\ \E op \in Ops \ {"send", "sendAndWait"}, label \in AskingLabels : Starts(t, op, label)

Refused(t) ==
  /\ task[t].pc = "idle" /\ task' = [task EXCEPT ![t] = [task[t] EXCEPT !.calls = task[t].calls + 1]]
  /\ UNCHANGED <<subs, server.pending>>

GoesOn(t) ==
  /\ task[t].pc = "tracing" /\ task' = [task EXCEPT ![t] = [task[t] EXCEPT !.pc = "sending"]]
  /\ connection = "open" /\ server'.pending = server.pending \cup {t} /\ UNCHANGED subs

GivesUp(t) ==
  /\ task[t].pc \in {"tracing", "waiting"}
  /\ task' = Ended({t}) /\ subs' = Finished({t}) /\ UNCHANGED server.pending

LEMMA TaskMoves ==
  ASSUME Typed, NEW t \in Tasks, TaskNext(t)
  PROVE  /\ dispatch = None
         /\ UNCHANGED <<connection, inbox, session, dispatch, server.turns, server.queue,
                        server.said, server.taken>>
         /\ Begins(t) \/ Refused(t) \/ GoesOn(t) \/ GivesUp(t)
<1>1. /\ task \in [Tasks -> TaskRecords] /\ server \in ServerRecords /\ subs \in [Keys -> Nat]
      /\ t \in Keys /\ Tasks \subseteq Keys
  BY TaskTyped DEF Keys
<1>2. ASSUME server' = [server EXCEPT !.pending = @ \cup {t}]
      PROVE  /\ server'.pending = server.pending \cup {t}
             /\ UNCHANGED <<server.turns, server.queue, server.said, server.taken>>
  BY <1>1, <1>2 DEF ServerRecords
<1>3. CASE send(t) \/ sendAndWait(t)
  <2>1. Calls(t, "send") \/ Calls(t, "sendAndWait")
    BY <1>3 DEF send, sendAndWait
  <2>2. /\ dispatch = None /\ task[t].pc = "idle"
        /\ UNCHANGED <<connection, inbox, session, dispatch>>
    BY <2>1 DEF Calls, Free
  <2>3. UNCHANGED server
    BY <1>3 DEF send, sendAndWait
  <2>4. \E op \in {"send", "sendAndWait"} : Starts(t, op, "tracing")
    BY <1>3 DEF send, sendAndWait
  <2>5. \A u \in Tasks \ {t} : subs'[u] = subs[u]
    <3>1. UNCHANGED subs \/ on(t)
      BY <1>3 DEF send, sendAndWait
    <3> QED
      BY <1>1, <3>1 DEF on, Subscribed
  <2> QED
    BY <2>2, <2>3, <2>4, <2>5 DEF Begins
<1>4. ASSUME NEW op \in Ops \ {"send", "sendAndWait"}, NEW label \in AskingLabels, Ask(t, op, label)
      PROVE  /\ dispatch = None
             /\ UNCHANGED <<connection, inbox, session, dispatch, server.turns, server.queue,
                            server.said, server.taken>>
             /\ Begins(t) \/ Refused(t)
  <2>1. /\ dispatch = None /\ task[t].pc = "idle"
        /\ UNCHANGED <<connection, inbox, session, dispatch>>
    BY <1>4 DEF Ask, Calls, Free
  <2>2. UNCHANGED subs
    BY <1>4 DEF Ask
  <2>3. CASE connection = "open"
    <3>1. Starts(t, op, label) /\ server' = [server EXCEPT !.pending = @ \cup {t}]
      BY <1>4, <2>3 DEF Ask
    <3> QED
      BY <1>2, <2>1, <2>2, <2>3, <3>1 DEF Begins
  <2>4. CASE connection # "open"
    <3>1. task' = [task EXCEPT ![t].calls = @ + 1] /\ UNCHANGED server
      BY <1>4, <2>4 DEF Ask
    <3>2. task' = [task EXCEPT ![t] = [task[t] EXCEPT !.calls = task[t].calls + 1]]
      BY <1>1, <3>1
    <3> QED
      BY <2>1, <2>2, <3>1, <3>2 DEF Refused
  <2> QED
    BY <2>3, <2>4
<1>5. CASE Traced(t)
  <2>1. /\ dispatch = None /\ task[t].pc = "tracing"
        /\ UNCHANGED <<connection, inbox, session, dispatch>>
    BY <1>5 DEF Traced, Free
  <2>2. CASE connection = "open"
    <3>1. /\ task' = [task EXCEPT ![t].pc = "sending"] /\ UNCHANGED subs
          /\ server' = [server EXCEPT !.pending = @ \cup {t}]
      BY <1>5, <2>2 DEF Traced
    <3>2. task' = [task EXCEPT ![t] = [task[t] EXCEPT !.pc = "sending"]]
      BY <1>1, <3>1
    <3> QED
      BY <1>2, <2>1, <2>2, <3>1, <3>2 DEF GoesOn
  <2>3. CASE connection # "open"
    <3>1. task' = Ended({t}) /\ subs' = Finished({t}) /\ UNCHANGED server
      BY <1>5, <2>3 DEF Traced
    <3> QED
      BY <2>1, <3>1 DEF GivesUp
  <2> QED
    BY <2>2, <2>3
<1>6. CASE Timeout(t)
  BY <1>6 DEF Timeout, Free, GivesUp
<1>7. CASE disconnect(t) \/ ask(t) \/ elicit(t)
  <2>1. \/ Ask(t, "disconnect", "disconnecting") \/ Ask(t, "request", "requesting")
        \/ Ask(t, "elicit", "requesting")
    BY <1>7 DEF disconnect, ask, elicit
  <2>2. /\ {"disconnect", "request", "elicit"} \subseteq Ops \ {"send", "sendAndWait"}
        /\ {"disconnecting", "requesting"} \subseteq AskingLabels
    BY DEF Ops, AskingLabels
  <2>3. CASE Ask(t, "disconnect", "disconnecting")
    BY <1>4, <2>2, <2>3
  <2>4. CASE Ask(t, "request", "requesting")
    BY <1>4, <2>2, <2>4
  <2>5. CASE Ask(t, "elicit", "requesting")
    BY <1>4, <2>2, <2>5
  <2> QED
    BY <2>1, <2>3, <2>4, <2>5
<1> QED
  BY <1>3, <1>5, <1>6, <1>7 DEF TaskNext

\* The answer to a task's request: it goes on waiting, or ends.
LEMMA AnswerTaken ==
  ASSUME Typed, ReceiveAnswer
  PROVE  \E u \in Tasks :
           /\ AnswerFor(Head(inbox), u)
           /\ UNCHANGED <<connection, dispatch, server, session.registered>>
           /\ \/ task' = [task EXCEPT ![u] = Waits(task[u])] /\ UNCHANGED subs
              \/ /\ task' = Ended({u}) /\ subs'[u] = 0
                 /\ \A t \in Tasks : subs'[t] = 0 \/ subs'[t] = subs[t]
<1>1. PICK u \in Tasks : u = Head(inbox).about
  BY HeadTyped DEF ReceiveAnswer, Take, WellTyped
<1>2. AnswerFor(Head(inbox), u)
  BY <1>1 DEF ReceiveAnswer, AnswerFor
<1>3. UNCHANGED <<connection, dispatch, server>>
  BY DEF ReceiveAnswer
<1>4. session \in [Fields -> BOOLEAN] /\ Tasks \subseteq Keys
  BY DEF Typed, TypeOK, Keys
<1>5. \/ task' = [task EXCEPT ![u] = Waits(@)] /\ UNCHANGED <<subs, session>>
      \/ /\ task' = Ended({u})
         /\ \/ /\ subs' = [k \in Keys |-> IF Subjects[k].of = "session" THEN 0 ELSE subs[k]]
               /\ session' = [session EXCEPT !.tool = FALSE, !.permission = FALSE]
            \/ subs' = Finished({u}) /\ UNCHANGED session
  BY <1>1 DEF ReceiveAnswer
<1>6. Subjects[u].of = "session"
  BY <1>4 DEF Subjects
<1>7. UNCHANGED session.registered
  BY <1>4, <1>5 DEF Fields
<1>8. CASE task' = [task EXCEPT ![u] = Waits(@)] /\ UNCHANGED subs
  BY <1>2, <1>3, <1>7, <1>8
<1>9. CASE /\ task' = Ended({u})
           /\ \/ subs' = [k \in Keys |-> IF Subjects[k].of = "session" THEN 0 ELSE subs[k]]
              \/ subs' = Finished({u})
  <2>1. subs'[u] = 0 /\ \A t \in Tasks : subs'[t] = 0 \/ subs'[t] = subs[t]
    BY <1>4, <1>6, <1>9 DEF Finished
  <2> QED
    BY <1>2, <1>3, <1>7, <1>9, <2>1
<1> QED
  BY <1>5, <1>8, <1>9


\* The steps that are about no task.
Elsewhere ==
  \/ (\E h \in Handlers : CallHandler(h) \/ ApplicationChanges(h))
  \/ (\E r \in Requests : HandlerReturns(r)) \/ Close \/ Forget \/ UNCHANGED vars

LEMMA NothingOfTasks ==
  ASSUME Typed, Elsewhere, NEW t \in Tasks
  PROVE  /\ UNCHANGED <<inbox, task, server.turns, server.queue, server.said, server.pending,
                        server.taken>>
         /\ subs'[t] = subs[t] /\ (session'.registered => session.registered)
         /\ UNCHANGED connection \/ (connection = "open" /\ connection' = "closed")
<1>1. /\ task \in [Tasks -> TaskRecords] /\ server \in ServerRecords /\ subs \in [Keys -> Nat]
      /\ t \in Keys /\ t \notin Handlers
  BY TaskTyped
<1>2. ASSUME NEW h \in Handlers, CallHandler(h) \/ ApplicationChanges(h)
      PROVE  /\ UNCHANGED <<inbox, task, connection, session, server.turns, server.queue,
                            server.said, server.pending, server.taken>>
             /\ subs'[t] = subs[t]
  <2>1. UNCHANGED <<inbox, task, connection, session>>
    BY <1>2 DEF CallHandler, ApplicationChanges
  <2>2. \/ UNCHANGED <<subs, server>>
        \/ MayChange /\ \E g \in Handlers : Changes(g) \/ ClientChanges(g)
    BY <1>2 DEF CallHandler, ApplicationChanges
  <2>3. ASSUME MayChange
        PROVE  UNCHANGED <<server.turns, server.queue, server.said, server.pending, server.taken>>
    BY <1>1, <2>3 DEF MayChange, ServerRecords
  <2>4. ASSUME NEW g \in Handlers, Changes(g) \/ ClientChanges(g)
        PROVE  subs'[t] = subs[t]
    BY <1>1, <2>4 DEF Changes, ClientChanges, on, unsubscribe, Subscribed
  <2> QED
    BY <2>1, <2>2, <2>3, <2>4
<1>3. CASE (\E r \in Requests : HandlerReturns(r)) \/ UNCHANGED vars
  BY <1>3 DEF HandlerReturns, vars
<1>4. CASE Close
  BY <1>4 DEF Close
<1>5. CASE Forget
  <2>1. session \in [Fields -> BOOLEAN]
    BY DEF Typed, TypeOK
  <2> QED
    BY <1>5, <2>1 DEF Forget, Fields
<1> QED
  BY <1>2, <1>3, <1>4, <1>5 DEF Elsewhere

LEMMA StepKinds ==
  ASSUME [Next]_vars
  PROVE  \/ Receive \/ DispatchEnds \/ (\E t \in Tasks : CallWaiter(t) \/ TaskNext(t))
         \/ ServerNext \/ Dispose \/ Elsewhere
BY DEF Next, ThreadNext, Elsewhere

\* What a message but an answer to a task leaves alone.
LEMMA OtherTaken ==
  ASSUME Receive, ~ReceiveAnswer
  PROVE  UNCHANGED <<task, subs>>
BY DEF Receive, ReceiveEvent, ReceiveLifecycle, ReceiveCall, ReceiveReply, ReceiveCreated

\* What a task that is called remembers.
LEMMA HeardFields ==
  ASSUME NEW w \in TaskRecords, NEW m
  PROVE  /\ Heard(w, m).pc = w.pc /\ Heard(w, m).op = w.op /\ Heard(w, m).turn = w.turn
         /\ Heard(w, m).alone = w.alone
         /\ Heard(w, m).last = IF m.type = "message" THEN m.about ELSE w.last
         /\ Heard(w, m).settled = IF m.type \in {"idle", "error"} /\ w.settled = "pending"
                                 THEN m.type ELSE w.settled
<1>1. CASE m.type = "message"
  BY <1>1 DEF Heard, TaskRecords
<1>2. CASE m.type \in {"idle", "error"}
  BY <1>2 DEF Heard, TaskRecords
<1>3. CASE m.type \notin {"message", "idle", "error"}
  BY <1>3 DEF Heard
<1> QED
  BY <1>1, <1>2, <1>3

\* It is not idle.
LEMMA TaskCalled ==
  ASSUME Typed, NEW t \in Tasks, AnsweredOnce(t), CallWaiter(t)
  PROVE  /\ task[t].pc # "idle" /\ subs[t] # 0 /\ t \in Due /\ dispatch # None
         /\ task' = [task EXCEPT ![t] = Heard(task[t], dispatch.event)]
         /\ UNCHANGED <<connection, inbox, session, subs, server>>
<1>1. t \in Due /\ subs[t] # 0 /\ dispatch # None
  BY DEF CallWaiter, IsNext, Due, Hears
<1>2. task[t].pc # "idle"
  BY <1>1 DEF AnsweredOnce
<1> QED
  BY <1>1, <1>2 DEF CallWaiter

\* The tasks that end: those whose answers nobody waits for any more.
LEMMA TasksEnd ==
  ASSUME Typed, NEW ts, task' = Ended(ts), NEW t \in Tasks
  PROVE  task'[t] = IF t \in ts THEN Idle(task[t].calls) ELSE task[t]
BY DEF Ended

LEMMA IdleFields ==
  ASSUME NEW n, NEW w, w = Idle(n)
  PROVE  /\ w = Idle(w.calls) /\ w.pc = "idle" /\ w.turn = 0 /\ ~w.alone
         /\ w.settled = "pending" /\ w.last = 0 /\ w.op = "none"
BY DEF Idle


\* A task whose answers are those that were under way already.
LEMMA AnsweredKept ==
  ASSUME Typed, NEW t \in Tasks, AnsweredOnce(t), NEW d \in Nat,
         inbox' \in Seq(Messages),
         \A i \in 1..Len(inbox') : AnswerFor(inbox'[i], t) =>
           i + d \in 1..Len(inbox) /\ inbox[i + d] = inbox'[i],
         task'[t].pc = task[t].pc, task[t].pc = "idle" => task'[t] = Idle(task'[t].calls),
         subs'[t] = 0 \/ subs'[t] = subs[t], Awaited(t)' => Awaited(t),
         connection = "disposed" => inbox' = <<>>, connection' = "disposed" <=> connection = "disposed"
  PROVE  AnsweredOnce(t)'
<1>1. task'[t].pc = "idle" => task'[t] = Idle(task'[t].calls) /\ subs'[t] = 0
  BY DEF AnsweredOnce
<1>2. Awaited(t)' /\ connection' # "disposed" => task'[t].pc \in AskingLabels
  BY DEF AnsweredOnce
<1>3. ASSUME NEW i \in 1..Len(inbox'), AnswerFor(inbox'[i], t)
      PROVE  /\ task'[t].pc \in AskingLabels /\ ~Awaited(t)'
             /\ \A j \in 1..Len(inbox') : AnswerFor(inbox'[j], t) => j = i
  <2>1. /\ i + d \in 1..Len(inbox) /\ AnswerFor(inbox[i + d], t)
    BY <1>3
  <2>2. ASSUME NEW j \in 1..Len(inbox'), AnswerFor(inbox'[j], t)
        PROVE  j = i
    <3>1. /\ j + d \in 1..Len(inbox) /\ AnswerFor(inbox[j + d], t)
      BY <2>2
    <3>2. j + d = i + d
      BY <2>1, <3>1 DEF AnsweredOnce
    <3> QED
      BY <3>2
  <2> QED
    BY <2>1, <2>2 DEF AnsweredOnce
<1> QED
  BY <1>1, <1>2, <1>3 DEF AnsweredOnce

\* The same when the inbox stays as it is, grows or shrinks.
LEMMA AnswersUnderWay ==
  ASSUME Typed, NEW t \in Tasks,
         \/ UNCHANGED inbox
         \/ \E m \in Messages : Emits(m) /\ WellTyped(m) /\ ~AnswerFor(m, t)
         \/ inbox # <<>> /\ inbox' = Tail(inbox)
  PROVE  /\ inbox' \in Seq(Messages)
         /\ \E d \in Nat : \A i \in 1..Len(inbox') : AnswerFor(inbox'[i], t) =>
              i + d \in 1..Len(inbox) /\ inbox[i + d] = inbox'[i]
<1>1. CASE UNCHANGED inbox
  <2>1. inbox \in Seq(Messages) /\ \A i \in 1..Len(inbox) : i + 0 = i
    BY DEF Typed
  <2> QED
    BY <1>1, <2>1
<1>2. ASSUME NEW m \in Messages, Emits(m), WellTyped(m), ~AnswerFor(m, t)
      PROVE  /\ inbox' \in Seq(Messages)
             /\ \A i \in 1..Len(inbox') : AnswerFor(inbox'[i], t) =>
                  i + 0 \in 1..Len(inbox) /\ inbox[i + 0] = inbox'[i]
  <2>1. /\ inbox' \in Seq(Messages) /\ Len(inbox) \in Nat
        /\ Len(inbox') = Len(inbox) + 1 /\ inbox'[Len(inbox) + 1] = m
        /\ \A i \in 1..Len(inbox) : inbox'[i] = inbox[i]
    BY <1>2, EmitsTyped
  <2>2. \A i \in 1..Len(inbox') : i \in 1..Len(inbox) \/ i = Len(inbox) + 1
    BY <2>1
  <2>3. \A i \in 1..Len(inbox) : i + 0 = i
    BY <2>1
  <2> QED
    BY <1>2, <2>1, <2>2, <2>3
<1>3. CASE inbox # <<>> /\ inbox' = Tail(inbox)
  <2>1. /\ inbox' \in Seq(Messages) /\ 1 \in Nat
        /\ \A i \in 1..Len(inbox') : i + 1 \in 1..Len(inbox) /\ inbox[i + 1] = inbox'[i]
    BY <1>3, HeadTyped
  <2> QED
    BY <2>1, Zenon
<1> QED
  BY <1>1, <1>2, <1>3

\* What each kind of step leaves of it.
LEMMA AnsweredServer ==
  ASSUME Typed, NEW t \in Tasks, AnsweredOnce(t), ServerNext
  PROVE  AnsweredOnce(t)'
<1>1. ASSUME \/ UNCHANGED inbox
             \/ \E m \in Messages : Emits(m) /\ WellTyped(m) /\ ~AnswerFor(m, t),
             task'[t].pc = task[t].pc, task[t].pc # "idle" \/ task'[t] = task[t],
             Awaited(t)' => Awaited(t), UNCHANGED <<subs, connection>>
      PROVE  AnsweredOnce(t)'
  <2>1. /\ inbox' \in Seq(Messages)
        /\ \E d \in Nat : \A i \in 1..Len(inbox') : AnswerFor(inbox'[i], t) =>
             i + d \in 1..Len(inbox) /\ inbox[i + d] = inbox'[i]
    BY <1>1, AnswersUnderWay
  <2>2. task[t].pc = "idle" => task'[t] = Idle(task'[t].calls)
    BY <1>1 DEF AnsweredOnce
  <2>3. connection = "disposed" => inbox' = <<>>
    BY <1>1 DEF AnsweredOnce, Emits
  <2> QED
    BY <1>1, <2>1, <2>2, <2>3, AnsweredKept
<1>2. ASSUME NEW u \in Tasks, ServerTakes(u)
      PROVE  AnsweredOnce(t)'
  <2>1. /\ UNCHANGED <<inbox, subs, connection>> /\ connection = "open" /\ Awaited(u)
        /\ task' = [task EXCEPT ![u] = [task[u] EXCEPT !.turn = server.turns + 1]]
        /\ server'.pending = server.pending \ {u} /\ server'.taken = server.taken \cup {u}
    BY <1>2, TurnOpens DEF Awaited
  <2>2. task[t] \in TaskRecords /\ task \in [Tasks -> TaskRecords]
    BY TaskTyped
  <2>3. Awaited(t)' => Awaited(t)
    BY <2>1 DEF Awaited
  <2>4. CASE t = u
    <3>1. task[t].pc \in AskingLabels
      BY <2>1, <2>4 DEF AnsweredOnce
    <3>2. task[t].pc # "idle"
      BY <3>1 DEF AskingLabels
    <3>3. task'[t].pc = task[t].pc
      BY <2>1, <2>2, <2>4 DEF TaskRecords
    <3> QED
      BY <1>1, <2>1, <2>3, <3>2, <3>3
  <2>5. CASE t # u
    <3>1. task'[t] = task[t]
      BY <2>1, <2>2, <2>5
    <3> QED
      BY <1>1, <2>1, <2>3, <3>1
  <2> QED
    BY <2>4, <2>5
<1>3. ASSUME NEW u \in Tasks, ServerAnswers(u)
      PROVE  AnsweredOnce(t)'
  <2>1. PICK m \in Messages : Emits(m) /\ WellTyped(m) /\ AnswerFor(m, u)
    BY <1>3, TaskAnswered
  <2>2. /\ Awaited(u) /\ connection = "open" /\ UNCHANGED <<task, connection, subs>>
        /\ server'.pending = server.pending \ {u} /\ server'.taken = server.taken \ {u}
    BY <1>3, TaskAnswered
  <2>3. CASE t # u
    <3>1. ~AnswerFor(m, t)
      BY <2>1, <2>3 DEF AnswerFor
    <3>2. Awaited(t)' => Awaited(t)
      BY <2>2 DEF Awaited
    <3> QED
      BY <1>1, <2>1, <2>2, <3>1, <3>2
  <2>4. CASE t = u
    <3>1. task[t].pc \in AskingLabels /\ \A i \in 1..Len(inbox) : ~AnswerFor(inbox[i], t)
      BY <2>2, <2>4 DEF AnsweredOnce
    <3>2. ~Awaited(t)'
      BY <2>2, <2>4 DEF Awaited
    <3>3. /\ Len(inbox) \in Nat /\ Len(inbox') = Len(inbox) + 1
          /\ \A i \in 1..Len(inbox) : inbox'[i] = inbox[i]
      BY <2>1, EmitsTyped
    <3>4. \A i \in 1..Len(inbox') : AnswerFor(inbox'[i], t) => i = Len(inbox) + 1
      BY <3>1, <3>3
    <3>5. task'[t].pc # "idle"
      BY <2>2, <3>1 DEF AskingLabels
    <3> QED
      BY <2>2, <3>1, <3>2, <3>4, <3>5 DEF AnsweredOnce
  <2> QED
    BY <2>3, <2>4
<1>4. ASSUME \/ ServerEmits \/ ServerCreates \/ ServerNotifies
             \/ \E r \in Requests : ServerAsks(r) \/ ServerReplies(r)
      PROVE  AnsweredOnce(t)'
  <2>1. /\ UNCHANGED <<task, connection, subs, server.pending, server.taken>>
        /\ \E m \in Messages : Emits(m) /\ WellTyped(m) /\ m.type # "answer"
    BY <1>4, TurnGoesOn, ServerElse DEF TurnEvents
  <2>2. \E m \in Messages : Emits(m) /\ WellTyped(m) /\ ~AnswerFor(m, t)
    BY <2>1 DEF AnswerFor
  <2> QED
    BY <1>1, <2>1, <2>2 DEF Awaited
<1> QED
  BY <1>2, <1>3, <1>4 DEF ServerNext

LEMMA AnsweredReceive ==
  ASSUME Typed, NEW t \in Tasks, AnsweredOnce(t), Receive
  PROVE  AnsweredOnce(t)'
<1>1. inbox # <<>> /\ inbox' = Tail(inbox) /\ connection # "disposed"
      /\ UNCHANGED <<connection, server>>
  BY ReceiveTakes DEF Take
<1>2. ASSUME task'[t] = task[t], subs'[t] = 0 \/ subs'[t] = subs[t]
      PROVE  AnsweredOnce(t)'
  <2>1. /\ inbox' \in Seq(Messages)
        /\ \E d \in Nat : \A i \in 1..Len(inbox') : AnswerFor(inbox'[i], t) =>
             i + d \in 1..Len(inbox) /\ inbox[i + d] = inbox'[i]
    BY <1>1, AnswersUnderWay
  <2>2. task[t].pc = "idle" => task'[t] = Idle(task'[t].calls)
    BY <1>2 DEF AnsweredOnce
  <2>3. Awaited(t)' => Awaited(t)
    BY <1>1 DEF Awaited
  <2> QED
    BY <1>1, <1>2, <2>1, <2>2, <2>3, AnsweredKept
<1>3. CASE ~ReceiveAnswer
  BY <1>2, <1>3, OtherTaken
<1>4. CASE ReceiveAnswer
  <2>1. PICK u \in Tasks :
          /\ AnswerFor(Head(inbox), u)
          /\ \/ task' = [task EXCEPT ![u] = Waits(task[u])] /\ UNCHANGED subs
             \/ /\ task' = Ended({u}) /\ subs'[u] = 0
                /\ \A v \in Tasks : subs'[v] = 0 \/ subs'[v] = subs[v]
    BY <1>4, AnswerTaken
  <2>2. task \in [Tasks -> TaskRecords]
    BY TaskTyped
  <2>3. CASE t # u
    <3>1. task'[t] = task[t]
      BY <2>1, <2>2, <2>3, TasksEnd
    <3> QED
      BY <1>2, <2>1, <3>1
  <2>4. CASE t = u
    <3>1. 1 \in 1..Len(inbox) /\ AnswerFor(inbox[1], t) /\ Len(inbox) \in Nat
          /\ \A i \in 1..Len(inbox') : i + 1 \in 1..Len(inbox) /\ inbox'[i] = inbox[i + 1]
      BY <1>1, <2>1, <2>4, HeadTyped
    <3>2. ~Awaited(t) /\ \A i \in 1..Len(inbox) : AnswerFor(inbox[i], t) => i = 1
      BY <3>1 DEF AnsweredOnce
    <3>3. \A i \in 1..Len(inbox') : ~AnswerFor(inbox'[i], t)
      BY <3>1, <3>2
    <3>4. ~Awaited(t)'
      BY <1>1, <3>2 DEF Awaited
    <3>5. task'[t].pc = "idle" => task'[t] = Idle(task'[t].calls) /\ subs'[t] = 0
      <4>1. CASE task' = [task EXCEPT ![u] = Waits(task[u])]
        BY <2>2, <2>4, <4>1 DEF Waits, TaskRecords
      <4>2. CASE task' = Ended({u}) /\ subs'[u] = 0
        <5>1. task'[t] = Idle(task[t].calls)
          BY <2>4, <4>2, TasksEnd
        <5> QED
          BY <2>4, <4>2, <5>1, IdleFields
      <4> QED
        BY <2>1, <4>1, <4>2
    <3> QED
      BY <1>1, <3>3, <3>4, <3>5 DEF AnsweredOnce
  <2> QED
    BY <2>3, <2>4
<1> QED
  BY <1>3, <1>4


LEMMA AnsweredTask ==
  ASSUME Typed, NEW t \in Tasks, AnsweredOnce(t), NEW u \in Tasks, TaskNext(u)
  PROVE  AnsweredOnce(t)'
<1>1. UNCHANGED <<connection, inbox, server.taken>> /\ (Begins(u) \/ Refused(u) \/ GoesOn(u) \/ GivesUp(u))
  BY TaskMoves
<1>2. /\ task \in [Tasks -> TaskRecords] /\ subs \in [Keys -> Nat] /\ Tasks \subseteq Keys
      /\ inbox \in Seq(Messages)
  BY TaskTyped DEF Typed, Keys
\* The other tasks lose at most that they were alone.
<1>3. CASE t # u
  <2>1. task'[t] = task[t] \/ \E b \in BOOLEAN : task'[t] = [task[t] EXCEPT !.alone = task[t].alone /\ b]
    <3>1. ASSUME NEW op, NEW label, Starts(u, op, label)
          PROVE  \E b \in BOOLEAN : task'[t] = [task[t] EXCEPT !.alone = task[t].alone /\ b]
      <4>1. PICK b \in BOOLEAN : b = (op \notin {"send", "sendAndWait"})
        OBVIOUS
      <4>2. task'[t] = [task[t] EXCEPT !.alone = task[t].alone /\ b]
        BY <1>3, <3>1, <4>1 DEF Starts
      <4> QED
        BY <4>2
    <3>2. CASE Begins(u)
      BY <3>1, <3>2 DEF Begins
    <3>3. CASE Refused(u) \/ GoesOn(u)
      BY <1>2, <1>3, <3>3 DEF Refused, GoesOn
    <3>4. CASE GivesUp(u)
      <4>1. task' = Ended({u}) /\ t \notin {u}
        BY <1>3, <3>4 DEF GivesUp
      <4> QED
        BY <4>1, TasksEnd
    <3> QED
      BY <1>1, <3>2, <3>3, <3>4
  <2>2. /\ task'[t].pc = task[t].pc
        /\ task[t].pc = "idle" => task'[t] = Idle(task'[t].calls)
    <3>1. CASE task'[t] = task[t]
      BY <3>1 DEF AnsweredOnce
    <3>2. ASSUME NEW b \in BOOLEAN, task'[t] = [task[t] EXCEPT !.alone = task[t].alone /\ b]
          PROVE  /\ task'[t].pc = task[t].pc
                 /\ task[t].pc = "idle" => task'[t] = Idle(task'[t].calls)
      <4>1. PICK w \in TaskRecords : w = task[t]
        BY <1>2
      <4>2. task'[t].pc = w.pc /\ task'[t].calls = w.calls
        BY <3>2, <4>1 DEF TaskRecords
      <4>3. ASSUME ~w.alone
            PROVE  task'[t] = w
        <5>1. PICK c \in BOOLEAN : c = (w.alone /\ b)
          BY <4>3
        <5>2. c = FALSE /\ w.alone = FALSE
          BY <4>1, <4>3, <5>1 DEF TaskRecords
        <5>3. task'[t] = [w EXCEPT !.alone = c]
          BY <3>2, <4>1, <5>1
        <5> QED
          BY <5>2, <5>3 DEF TaskRecords
      <4>4. w.pc = "idle" => w = Idle(w.calls)
        BY <4>1 DEF AnsweredOnce
      <4> QED
        BY <4>1, <4>2, <4>3, <4>4, IdleFields
    <3> QED
      BY <2>1, <3>1, <3>2
  <2>3. subs'[t] = 0 \/ subs'[t] = subs[t]
    BY <1>1, <1>2, <1>3 DEF Begins, Refused, GoesOn, GivesUp, Finished
  <2>4. Awaited(t)' => Awaited(t)
    BY <1>1, <1>3 DEF Begins, Refused, GoesOn, GivesUp, Awaited
  <2>5. \A i \in 1..Len(inbox') : AnswerFor(inbox'[i], t) =>
          i + 0 \in 1..Len(inbox) /\ inbox[i + 0] = inbox'[i]
    BY <1>1
  <2>6. inbox' \in Seq(Messages) /\ (connection = "disposed" => inbox' = <<>>)
    BY <1>1, <1>2 DEF AnsweredOnce
  <2> QED
    BY <1>1, <2>2, <2>3, <2>4, <2>5, <2>6, AnsweredKept
\* It asks for nothing yet, and nothing it asked for is to be answered.
<1>4. CASE t = u
  <2>1. task[t].pc \notin AskingLabels
    BY <1>1, <1>4 DEF Begins, Refused, GoesOn, GivesUp, AskingLabels
  <2>2. /\ connection # "disposed" => ~Awaited(t)
        /\ \A i \in 1..Len(inbox') : ~AnswerFor(inbox'[i], t)
        /\ connection' = "disposed" => inbox' = <<>>
    BY <1>1, <2>1 DEF AnsweredOnce
  <2>3. CASE Begins(t)
    <3>1. ASSUME NEW op, NEW label, Starts(t, op, label)
          PROVE  task'[t].pc = label
      BY <1>2, <3>1 DEF Starts, TaskRecords
    <3>2. CASE UNCHANGED server.pending /\ task'[t].pc = "tracing"
      BY <1>1, <2>2, <3>2 DEF AnsweredOnce, Awaited
    <3>3. CASE task'[t].pc \in AskingLabels
      BY <1>1, <2>2, <3>3 DEF AnsweredOnce, AskingLabels
    <3> QED
      BY <2>3, <3>1, <3>2, <3>3 DEF Begins
  <2>4. CASE Refused(t)
    <3>1. PICK n : n = task[t].calls + 1
      OBVIOUS
    <3>2. task[t] = Idle(task[t].calls) /\ task'[t] = [task[t] EXCEPT !.calls = n] /\ subs'[t] = 0
      BY <1>2, <2>4, <3>1 DEF Refused, AnsweredOnce
    <3>3. task'[t] = Idle(n)
      <4>1. PICK c : c = task[t].calls
        OBVIOUS
      <4>2. task'[t] = [Idle(c) EXCEPT !.calls = n]
        BY <3>2, <4>1
      <4> QED
        BY <4>2 DEF Idle
    <3>4. task'[t] = Idle(task'[t].calls) /\ task'[t].pc = "idle"
      BY <3>3, IdleFields
    <3>5. connection # "disposed" => ~Awaited(t)'
      BY <1>1, <2>2, <2>4 DEF Refused, Awaited
    <3> QED
      BY <1>1, <2>2, <3>2, <3>4, <3>5 DEF AnsweredOnce
  <2>5. CASE GoesOn(t)
    <3>1. task'[t].pc = "sending"
      BY <1>2, <2>5 DEF GoesOn, TaskRecords
    <3> QED
      BY <2>2, <3>1 DEF AnsweredOnce, AskingLabels
  <2>6. CASE GivesUp(t)
    <3>1. task'[t] = Idle(task[t].calls) /\ subs'[t] = 0
      BY <1>2, <2>6, TasksEnd DEF GivesUp, Finished
    <3>2. task'[t] = Idle(task'[t].calls)
      BY <3>1, IdleFields
    <3>3. connection # "disposed" => ~Awaited(t)'
      BY <1>1, <2>2, <2>6 DEF GivesUp, Awaited
    <3> QED
      BY <1>1, <2>2, <3>1, <3>2, <3>3 DEF AnsweredOnce
  <2> QED
    BY <1>1, <1>4, <2>3, <2>4, <2>5, <2>6
<1> QED
  BY <1>3, <1>4

LEMMA AnsweredOnceStep ==
  ASSUME Typed, NEW t \in Tasks, AnsweredOnce(t), [Next]_vars
  PROVE  AnsweredOnce(t)'
<1>1. task \in [Tasks -> TaskRecords] /\ inbox \in Seq(Messages) /\ t \in Keys
  BY TaskTyped DEF Typed, Keys
\* Where neither the inbox nor what is awaited changes.
<1>2. ASSUME UNCHANGED <<inbox, server.pending, server.taken>>,
             task'[t].pc = task[t].pc, task[t].pc = "idle" => task'[t] = task[t],
             subs'[t] = 0 \/ subs'[t] = subs[t], connection' = "disposed" <=> connection = "disposed"
      PROVE  AnsweredOnce(t)'
  <2>1. \A i \in 1..Len(inbox') : AnswerFor(inbox'[i], t) =>
          i + 0 \in 1..Len(inbox) /\ inbox[i + 0] = inbox'[i]
    BY <1>2
  <2>2. /\ inbox' \in Seq(Messages) /\ (connection = "disposed" => inbox' = <<>>)
        /\ task[t].pc = "idle" => task'[t] = Idle(task'[t].calls)
    BY <1>1, <1>2 DEF AnsweredOnce
  <2>3. Awaited(t)' => Awaited(t)
    BY <1>2 DEF Awaited
  <2> QED
    BY <1>2, <2>1, <2>2, <2>3, AnsweredKept
<1>3. CASE Elsewhere
  BY <1>2, <1>3, NothingOfTasks
<1>4. ASSUME NEW u \in Tasks, CallWaiter(u)
      PROVE  AnsweredOnce(t)'
  <2>1. /\ task' = [task EXCEPT ![u] = Heard(task[u], dispatch.event)]
        /\ UNCHANGED <<inbox, server, subs, connection>>
    BY <1>4 DEF CallWaiter
  <2>2. CASE t # u
    BY <1>1, <1>2, <2>1, <2>2
  <2>3. CASE t = u
    <3>1. task[t].pc # "idle"
      BY <1>4, <2>3, TaskCalled
    <3>2. task'[t].pc = task[t].pc
      BY <1>1, <2>1, <2>3, HeardFields
    <3> QED
      BY <1>2, <2>1, <3>1, <3>2
  <2> QED
    BY <2>2, <2>3
<1>5. CASE DispatchEnds
  <2>1. task' = Ended(Settled) /\ subs' = Finished(Settled) /\ UNCHANGED <<inbox, server, connection>>
    BY <1>5 DEF DispatchEnds
  <2>2. subs'[t] = IF t \in Settled THEN 0 ELSE subs[t]
    BY <1>1, <2>1 DEF Finished
  <2>3. CASE t \notin Settled
    <3>1. task'[t] = task[t]
      BY <2>1, <2>3, TasksEnd
    <3> QED
      BY <1>2, <2>1, <2>2, <3>1
  <2>4. CASE t \in Settled
    <3>1. task'[t] = Idle(task[t].calls) /\ subs'[t] = 0
      BY <2>1, <2>2, <2>4, TasksEnd
    <3>2. task'[t] = Idle(task'[t].calls)
      BY <3>1, IdleFields
    <3>3. task[t].pc \notin AskingLabels
      BY <2>4 DEF Settled, AskingLabels
    <3>4. /\ connection # "disposed" => ~Awaited(t)'
          /\ \A i \in 1..Len(inbox') : ~AnswerFor(inbox'[i], t)
      BY <2>1, <3>3 DEF AnsweredOnce, Awaited
    <3> QED
      BY <2>1, <3>1, <3>2, <3>4 DEF AnsweredOnce
  <2> QED
    BY <2>3, <2>4
<1>6. CASE Dispose
  <2>1. PICK ts : /\ task' = Ended(ts) /\ subs' = Finished(ts)
                  /\ connection' = "disposed" /\ inbox' = <<>>
    BY <1>6 DEF Dispose
  <2>2. subs'[t] = IF t \in ts THEN 0 ELSE subs[t]
    BY <1>1, <2>1 DEF Finished
  <2>3. task'[t] = IF t \in ts THEN Idle(task[t].calls) ELSE task[t]
    BY <2>1, TasksEnd
  <2>4. task'[t].pc = "idle" => task'[t] = Idle(task'[t].calls) /\ subs'[t] = 0
    BY <2>2, <2>3, IdleFields DEF AnsweredOnce
  <2>5. Len(inbox') = 0
    BY <2>1
  <2>6. 1..Len(inbox') = {}
    BY <2>5
  <2> QED
    BY <2>1, <2>4, <2>6 DEF AnsweredOnce
<1> QED
  BY <1>3, <1>4, <1>5, <1>6, StepKinds, AnsweredServer, AnsweredReceive, AnsweredTask


\* Who has a turn keeps it until it ends.
LEMMA TurnKept ==
  ASSUME Typed, NEW t \in Tasks, TurnTaken(t), server'.turns \in Nat, server.turns <= server'.turns,
         connection = "disposed" => connection' = "disposed",
         \/ task'[t].turn = 0
         \/ /\ task'[t].turn = task[t].turn /\ (t \in server'.pending => t \in server.pending)
            /\ task'[t].pc \in {"idle", "tracing"} => task[t].pc \in {"idle", "tracing"}
  PROVE  TurnTaken(t)'
<1>1. task[t].turn \in Nat /\ server.turns \in Nat
  BY TaskTyped DEF TaskRecords, ServerRecords
<1>2. task'[t].turn <= server'.turns
  BY <1>1 DEF TurnTaken
<1> QED
  BY <1>2 DEF TurnTaken

LEMMA TurnTakenStep ==
  ASSUME Typed, NEW t \in Tasks, AnsweredOnce(t), TurnTaken(t), [Next]_vars
  PROVE  TurnTaken(t)'
<1>1. /\ task \in [Tasks -> TaskRecords] /\ task[t] \in TaskRecords
      /\ server.turns \in Nat /\ server.turns <= server.turns
  BY TaskTyped DEF ServerRecords
<1>2. ASSUME UNCHANGED server.turns, connection = "disposed" => connection' = "disposed",
             \/ task'[t].turn = 0
             \/ /\ task'[t].turn = task[t].turn /\ (t \in server'.pending => t \in server.pending)
                /\ task'[t].pc \in {"idle", "tracing"} => task[t].pc \in {"idle", "tracing"}
      PROVE  TurnTaken(t)'
  BY <1>1, <1>2, TurnKept
<1>3. ASSUME NEW ts, task' = Ended(ts), UNCHANGED server, connection' \in {connection, "disposed"}
      PROVE  TurnTaken(t)'
  <2>1. task'[t] = Idle(task[t].calls) \/ task'[t] = task[t]
    BY <1>3, TasksEnd
  <2>2. task'[t] = Idle(task[t].calls) => task'[t].turn = 0
    BY IdleFields
  <2> QED
    BY <1>2, <1>3, <2>1, <2>2
<1>4. CASE Elsewhere
  BY <1>2, <1>4, NothingOfTasks
<1>5. CASE ServerNext
  <2>1. ASSUME NEW u \in Tasks, ServerTakes(u)
        PROVE  TurnTaken(t)'
    <3>1. /\ UNCHANGED connection /\ server'.turns = server.turns + 1 /\ u \in server.pending
          /\ connection = "open" /\ server'.pending = server.pending \ {u}
          /\ task' = [task EXCEPT ![u] = [task[u] EXCEPT !.turn = server.turns + 1]]
      BY <2>1, TurnOpens
    <3>2. server'.turns \in Nat /\ server.turns <= server'.turns
      BY <1>1, <3>1
    <3>3. CASE t # u
      <4>1. task'[t] = task[t]
        BY <1>1, <3>1, <3>3
      <4> QED
        BY <3>1, <3>2, <4>1, TurnKept
    <3>4. CASE t = u
      <4>1. task[t].pc \notin {"idle", "tracing"}
        BY <3>1, <3>4 DEF AnsweredOnce, AskingLabels, Awaited
      <4>2. task'[t].turn = server.turns + 1 /\ task'[t].pc = task[t].pc
        BY <1>1, <3>1, <3>4 DEF TaskRecords
      <4>3. t \notin server'.pending /\ task'[t].turn <= server'.turns
        BY <3>1, <3>2, <3>4, <4>2
      <4> QED
        BY <4>1, <4>2, <4>3 DEF TurnTaken
    <3> QED
      BY <3>3, <3>4
  <2>2. ASSUME NEW u \in Tasks, ServerAnswers(u)
        PROVE  TurnTaken(t)'
    <3>1. UNCHANGED <<task, connection, server.turns>> /\ server'.pending = server.pending \ {u}
      BY <2>2, TaskAnswered
    <3> QED
      BY <1>2, <3>1
  <2>3. CASE \/ ServerEmits \/ ServerCreates \/ ServerNotifies
             \/ \E r \in Requests : ServerAsks(r) \/ ServerReplies(r)
    <3>1. UNCHANGED <<task, connection, server.turns, server.pending>>
      BY <2>3, TurnGoesOn, ServerElse
    <3> QED
      BY <1>2, <3>1
  <2> QED
    BY <1>5, <2>1, <2>2, <2>3 DEF ServerNext
<1>6. CASE Receive
  <2>1. UNCHANGED <<connection, server>>
    BY <1>6, ReceiveTakes
  <2>2. CASE ~ReceiveAnswer
    BY <1>2, <1>6, <2>1, <2>2, OtherTaken
  <2>3. CASE ReceiveAnswer
    <3>1. PICK u \in Tasks : task' = [task EXCEPT ![u] = Waits(task[u])] \/ task' = Ended({u})
      BY <2>3, AnswerTaken
    <3>2. CASE task' = Ended({u})
      BY <1>3, <2>1, <3>2
    <3>3. CASE task' = [task EXCEPT ![u] = Waits(task[u])]
      <4>1. task'[t] = task[t] \/ task'[t] = Waits(task[t])
        BY <1>1, <3>3
      <4>2. Waits(task[t]).turn = task[t].turn /\ Waits(task[t]).pc = "waiting"
        BY <1>1 DEF Waits, TaskRecords
      <4> QED
        BY <1>2, <2>1, <4>1, <4>2
    <3> QED
      BY <3>1, <3>2, <3>3
  <2> QED
    BY <2>2, <2>3
<1>7. ASSUME NEW u \in Tasks, TaskNext(u)
      PROVE  TurnTaken(t)'
  <2>1. /\ UNCHANGED <<connection, server.turns>>
        /\ Begins(u) \/ Refused(u) \/ GoesOn(u) \/ GivesUp(u)
    BY <1>7, TaskMoves
  <2>2. CASE t = u
    <3>1. task[t].pc \in {"idle", "tracing"} => task[t].turn = 0
      BY DEF TurnTaken
    <3>2. CASE Begins(u)
      <4>1. ASSUME NEW op, NEW label, Starts(u, op, label)
            PROVE  task'[t].turn = task[t].turn
        BY <1>1, <2>2, <4>1 DEF Starts, TaskRecords
      <4>2. task'[t].turn = 0
        BY <2>2, <3>1, <3>2, <4>1 DEF Begins
      <4> QED
        BY <1>2, <2>1, <4>2
    <3>3. CASE Refused(u) \/ GoesOn(u)
      <4>1. task'[t].turn = task[t].turn /\ task[t].pc \in {"idle", "tracing"}
        BY <1>1, <2>2, <3>3 DEF Refused, GoesOn, TaskRecords
      <4> QED
        BY <1>2, <2>1, <3>1, <4>1
    <3>4. CASE GivesUp(u)
      <4>1. task'[t] = Idle(task[t].calls)
        BY <2>2, <3>4, TasksEnd DEF GivesUp
      <4>2. task'[t].turn = 0
        BY <4>1, IdleFields
      <4> QED
        BY <1>2, <2>1, <4>2
    <3> QED
      BY <2>1, <3>2, <3>3, <3>4
  <2>3. CASE t # u
    <3>1. t \in server'.pending => t \in server.pending
      BY <2>1, <2>3 DEF Begins, Refused, GoesOn, GivesUp
    <3>2. task'[t].turn = task[t].turn /\ task'[t].pc = task[t].pc
      <4>1. ASSUME NEW op, NEW label, Starts(u, op, label)
            PROVE  task'[t].turn = task[t].turn /\ task'[t].pc = task[t].pc
        BY <1>1, <2>3, <4>1 DEF Starts, TaskRecords
      <4>2. CASE Begins(u)
        BY <4>1, <4>2 DEF Begins
      <4>3. CASE Refused(u) \/ GoesOn(u)
        BY <1>1, <2>3, <4>3 DEF Refused, GoesOn
      <4>4. CASE GivesUp(u)
        <5>1. task' = Ended({u}) /\ t \notin {u}
          BY <2>3, <4>4 DEF GivesUp
        <5> QED
          BY <5>1, TasksEnd
      <4> QED
        BY <2>1, <4>2, <4>3, <4>4
    <3> QED
      BY <1>2, <2>1, <3>1, <3>2
  <2> QED
    BY <2>2, <2>3
<1>8. ASSUME NEW u \in Tasks, CallWaiter(u)
      PROVE  TurnTaken(t)'
  <2>1. task' = [task EXCEPT ![u] = Heard(task[u], dispatch.event)] /\ UNCHANGED <<connection, server>>
    BY <1>8 DEF CallWaiter
  <2>2. task'[t] = task[t] \/ task'[t] = Heard(task[t], dispatch.event)
    BY <1>1, <2>1
  <2>3. task'[t].turn = task[t].turn /\ task'[t].pc = task[t].pc
    <3>1. PICK w \in TaskRecords : w = task[t]
      BY <1>1
    <3>2. PICK m : m = dispatch.event
      OBVIOUS
    <3>3. Heard(w, m).turn = w.turn /\ Heard(w, m).pc = w.pc
      BY HeardFields
    <3> QED
      BY <2>2, <3>1, <3>2, <3>3
  <2> QED
    BY <1>2, <2>1, <2>3
<1>9. CASE DispatchEnds
  BY <1>3, <1>9 DEF DispatchEnds
<1>10. CASE Dispose
  BY <1>3, <1>10 DEF Dispose
<1> QED
  BY <1>4, <1>5, <1>6, <1>7, <1>8, <1>9, <1>10, StepKinds

\* Only two of its steps change what the server says in which turns.
LEMMA TurnsStay ==
  ASSUME Typed, [Next]_vars, ~ServerEmits, \A t \in Tasks : ~ServerTakes(t)
  PROVE  UNCHANGED <<server.turns, server.queue, server.said>>
<1>1. CASE ServerNext
  BY <1>1, TaskAnswered, ServerElse DEF ServerNext
<1>2. CASE UNCHANGED server
  BY <1>2
<1>3. ASSUME NEW n \in Nat, server' = [server EXCEPT !.changes = n]
      PROVE  UNCHANGED <<server.turns, server.queue, server.said>>
  BY <1>3 DEF Typed, TypeOK, ServerTypes
<1>4. ASSUME NEW ts \in SUBSET Tasks, server' = [server EXCEPT !.pending = ts]
      PROVE  UNCHANGED <<server.turns, server.queue, server.said>>
  BY <1>4 DEF Typed, TypeOK, ServerTypes
<1> QED
  BY <1>1, <1>2, <1>3, <1>4, ChangesOf

LEMMA TurnsNumberedStep ==
  ASSUME Typed, TurnsNumbered, [Next]_vars
  PROVE  TurnsNumbered'
<1>1. server.turns \in Nat /\ server.queue \in Seq(Nat) /\ server.said \in [1..MaxTurns -> Nat]
  BY TaskTyped DEF Typed, TypeOK, ServerTypes
<1>2. ASSUME NEW t \in Tasks, ServerTakes(t)
      PROVE  TurnsNumbered'
  <2>1. /\ server.turns < MaxTurns /\ server'.turns = server.turns + 1 /\ server'.said = server.said
        /\ server'.queue = Append(server.queue, server.turns + 1)
    BY <1>2, TurnOpens
  <2>2. /\ Len(server.queue) \in Nat /\ Len(server'.queue) = Len(server.queue) + 1
        /\ \A i \in 1..Len(server.queue) : server'.queue[i] = server.queue[i]
        /\ server'.queue[Len(server.queue) + 1] = server.turns + 1
    BY <1>1, <2>1, AppendProperties, LenProperties
  <2>3. \A i \in 1..Len(server'.queue) : server'.queue[i] \in 1..server'.turns
    <3> SUFFICES ASSUME NEW i \in 1..Len(server'.queue)
                 PROVE  server'.queue[i] \in 1..server'.turns
      OBVIOUS
    <3>1. i \in 1..Len(server.queue) \/ i = Len(server.queue) + 1
      BY <2>2
    <3>2. server.turns + 1 \in 1..server'.turns
      BY <1>1, <2>1
    <3>3. \A n \in 1..server.turns : n \in 1..server'.turns
      BY <1>1, <2>1
    <3> QED
      BY <2>2, <3>1, <3>2, <3>3 DEF TurnsNumbered
  <2>4. \A n \in 1..MaxTurns : n > server'.turns => n > server.turns
    BY <1>1, <2>1
  <2>5. server'.turns <= MaxTurns
    BY <1>1, <2>1
  <2> QED
    BY <2>1, <2>3, <2>4, <2>5 DEF TurnsNumbered
<1>3. CASE ServerEmits
  <2>1. /\ server.queue # <<>> /\ UNCHANGED server.turns
        /\ server'.queue \in {server.queue, Tail(server.queue)}
        /\ \/ UNCHANGED server.said
           \/ \E n : server'.said = [server.said EXCEPT ![Head(server.queue)] = n]
    BY <1>3, TurnGoesOn
  <2>2. /\ Len(server.queue) \in Nat /\ 1 \in 1..Len(server.queue)
        /\ Head(server.queue) = server.queue[1] /\ Len(Tail(server.queue)) = Len(server.queue) - 1
        /\ \A i \in 1..Len(Tail(server.queue)) : Tail(server.queue)[i] = server.queue[i + 1]
    BY <1>1, <2>1, HeadTailProperties, LenProperties, EmptySeq
  <2>3. \A i \in 1..Len(Tail(server.queue)) : i + 1 \in 1..Len(server.queue)
    BY <2>2
  <2>4. Head(server.queue) \in 1..server.turns
    BY <2>2 DEF TurnsNumbered
  <2>5. \A i \in 1..Len(server'.queue) : server'.queue[i] \in 1..server'.turns
    <3>1. CASE server'.queue = server.queue
      BY <2>1, <3>1 DEF TurnsNumbered
    <3>2. CASE server'.queue = Tail(server.queue)
      BY <2>1, <2>2, <2>3, <3>2 DEF TurnsNumbered
    <3> QED
      BY <2>1, <3>1, <3>2
  <2>6. \A n \in 1..MaxTurns : n > server'.turns => server'.said[n] = 0
    <3>1. ASSUME NEW n \in 1..MaxTurns, n > server.turns
          PROVE  n # Head(server.queue)
      BY <1>1, <2>4, <3>1
    <3> QED
      BY <1>1, <2>1, <3>1 DEF TurnsNumbered
  <2> QED
    BY <2>1, <2>5, <2>6 DEF TurnsNumbered
<1>4. CASE ~ServerEmits /\ \A t \in Tasks : ~ServerTakes(t)
  BY <1>4, TurnsStay DEF TurnsNumbered
<1> QED
  BY <1>2, <1>3, <1>4

LEMMA RunsRegisteredStep ==
  ASSUME Typed, RunsRegistered, [Next]_vars
  PROVE  RunsRegistered'
<1>1. session \in [Fields -> BOOLEAN]
  BY DEF Typed, TypeOK
<1>2. CASE dispatch # None
  <2>1. UNCHANGED session
    BY <1>2, ChangesOf DEF ReceiveEvent, ReceiveCreated, ReceiveAnswer, Dispose, Forget, Take, Free
  <2>2. CASE (\E t \in Tasks : CallWaiter(t)) \/ (\E h \in Handlers : CallHandler(h))
    BY <1>2, <2>1, <2>2, CallStep DEF RunsRegistered
  <2>3. CASE DispatchEnds
    BY <2>3 DEF DispatchEnds, RunsRegistered
  <2>4. CASE UNCHANGED dispatch
    BY <2>1, <2>4 DEF RunsRegistered
  <2> QED
    BY <1>2, <2>2, <2>3, <2>4, Busy
<1>3. CASE dispatch = None
  <2>1. CASE UNCHANGED dispatch
    BY <1>3, <2>1 DEF RunsRegistered
  <2>2. CASE ReceiveEvent
    <3>1. UNCHANGED dispatch \/ session.registered
      BY <2>2 DEF ReceiveEvent
    <3>2. session' = session \/ session' = [session EXCEPT !.capabilities = Head(inbox).about]
      BY <2>2 DEF ReceiveEvent
    <3>3. session'.registered = session.registered
      BY <1>1, <3>2 DEF Fields
    <3> QED
      BY <1>3, <3>1, <3>3 DEF RunsRegistered
  <2>3. CASE ReceiveLifecycle
    BY <2>3 DEF ReceiveLifecycle, Dispatch, RunsRegistered
  <2>4. ~DispatchEnds /\ (\A t \in Tasks : ~CallWaiter(t)) /\ (\A h \in Handlers : ~CallHandler(h))
    BY <1>3 DEF DispatchEnds, CallWaiter, CallHandler
  <2> QED
    BY <2>1, <2>2, <2>3, <2>4, ChangesOf
<1> QED
  BY <1>2, <1>3


\* What a step leaves of the events under way, of the dispatch that runs, and of a task.
EventsStay ==
  /\ \A types \in SUBSET TurnEvents : NoEvents(types)' <=> NoEvents(types)
  /\ \A n : LastMessageIs(n) => (LastMessageIs(n))'
  /\ NothingAfterIdle => NothingAfterIdle'

DispatchStays(t) ==
  /\ \A type \in TurnEvents : Runs(type)' <=> Runs(type)
  /\ Runs("message") => /\ dispatch'.event = dispatch.event
                        /\ subs'[t] # 0 /\ t \in dispatch.owed => t \in dispatch'.owed

TaskStays(t) ==
  task'[t].alone =>
    /\ task[t].alone /\ Sends(Tasks)' \subseteq Sends(Tasks)
    /\ task'[t].turn = task[t].turn /\ task'[t].settled = task[t].settled
    /\ task'[t].last = task[t].last

ListensNoMore(t) == Listens(t)' => Listens(t)

LEMMA EventsOf ==
  ASSUME Typed,
         \/ UNCHANGED inbox
         \/ \E m \in Messages : Emits(m) /\ WellTyped(m) /\ m.type \notin TurnEvents
         \/ inbox # <<>> /\ inbox' = Tail(inbox) /\ Head(inbox).type \notin TurnEvents
  PROVE  EventsStay
<1>1. CASE UNCHANGED inbox
  BY <1>1 DEF EventsStay, NoEvents, LastMessageIs, NothingAfterIdle
<1>2. ASSUME NEW m \in Messages, Emits(m), WellTyped(m), m.type \notin TurnEvents
      PROVE  EventsStay
  <2>1. m.type # "message" /\ \A types \in SUBSET TurnEvents : m.type \notin types
    BY <1>2 DEF TurnEvents
  <2> QED
    BY <1>2, <2>1, InboxGrown DEF EventsStay
<1>3. CASE inbox # <<>> /\ inbox' = Tail(inbox) /\ Head(inbox).type \notin TurnEvents
  <2>1. \A types \in SUBSET TurnEvents : Head(inbox).type \notin types
    BY <1>3
  <2> QED
    BY <1>3, <2>1, InboxTaken DEF EventsStay
<1> QED
  BY <1>1, <1>2, <1>3

\* Nothing changes for a task whose events and record stay as they are.
LEMMA OwnTurnKept ==
  ASSUME NEW t \in Tasks, OwnTurn(t), EventsStay, DispatchStays(t), TaskStays(t), ListensNoMore(t),
         UNCHANGED <<server.queue, server.said>>
  PROVE  OwnTurn(t)'
<1> SUFFICES ASSUME task'[t].alone
             PROVE  OwnTurn(t)'
  BY DEF OwnTurn
<1>1. /\ task[t].alone /\ Sends(Tasks)' \subseteq Sends(Tasks)
      /\ task'[t].turn = task[t].turn /\ task'[t].settled = task[t].settled
      /\ task'[t].last = task[t].last
  BY DEF TaskStays
<1>2. PICK said : said = server.said[task[t].turn]
  OBVIOUS
<1>3. /\ NoEvents(TurnEvents)' <=> NoEvents(TurnEvents)
      /\ NoEvents({"message"})' <=> NoEvents({"message"})
      /\ NoEvents({"idle"})' <=> NoEvents({"idle"})
  BY DEF EventsStay, TurnEvents
<1>4. /\ Runs("message")' <=> Runs("message")
      /\ Runs("idle")' <=> Runs("idle")
  BY DEF DispatchStays, TurnEvents
<1>5. ASSUME Listens(t)', task[t].turn # 0
      PROVE  LastOnTheWay(t)'
  <2>1. LastOnTheWay(t) /\ subs'[t] # 0
    BY <1>1, <1>5 DEF OwnTurn, ListensNoMore, Listens
  <2>2. LastMessageIs(said)
    BY <1>2, <2>1 DEF LastOnTheWay
  <2>3. (LastMessageIs(said))'
    BY <2>2 DEF EventsStay
  <2> QED
    BY <1>1, <1>2, <1>3, <1>4, <2>1, <2>3 DEF LastOnTheWay, DispatchStays
<1>6. ASSUME Listens(t)', task[t].turn # 0
      PROVE  IdleIsLast(t)'
  <2>1. IdleIsLast(t)
    BY <1>1, <1>6 DEF OwnTurn, ListensNoMore
  <2> QED
    BY <1>1, <1>3, <1>4, <2>1 DEF IdleIsLast, EventsStay
<1>7. Sends(Tasks)' \subseteq {t} /\ server'.queue \in {<<>>, <<task'[t].turn>>}
  BY <1>1 DEF OwnTurn
<1>8. task'[t].turn = 0 =>
        /\ server'.queue = <<>> /\ NoEvents(TurnEvents)'
        /\ \A type \in TurnEvents : ~Runs(type)'
        /\ task'[t].settled = "pending" /\ task'[t].last = 0
  BY <1>1, <1>3 DEF OwnTurn, DispatchStays
<1>9. task'[t].settled = "idle" =>
        server'.queue = <<>> /\ task'[t].last = server'.said[task'[t].turn]
  BY <1>1 DEF OwnTurn
<1> QED
  BY <1>1, <1>5, <1>6, <1>7, <1>8, <1>9 DEF OwnTurn

\* Nor for one that does not hear what is under way.
LEMMA OwnTurnDeaf ==
  ASSUME NEW t \in Tasks, OwnTurn(t), TaskStays(t), ~Listens(t)',
         NoEvents(TurnEvents) => NoEvents(TurnEvents)',
         \A type \in TurnEvents : Runs(type)' => Runs(type),
         UNCHANGED <<server.queue, server.said>>
  PROVE  OwnTurn(t)'
BY DEF OwnTurn, TaskStays

\* The turn of a task that is alone opens when it has none, and nothing was said in it.
LEMMA OwnTurnOpens ==
  ASSUME Typed, TurnsNumbered, NEW t \in Tasks, TurnTaken(t), OwnTurn(t),
         NEW u \in Tasks, ServerTakes(u)
  PROVE  OwnTurn(t)'
<1>1. /\ task \in [Tasks -> TaskRecords] /\ server.turns \in Nat /\ MaxTurns \in Nat
  BY TaskTyped DEF ServerRecords
<1>2. /\ connection = "open" /\ u \in server.pending /\ u \in Sends(Tasks)
      /\ server.turns < MaxTurns /\ server'.queue = Append(server.queue, server.turns + 1)
      /\ task' = [task EXCEPT ![u] = [task[u] EXCEPT !.turn = server.turns + 1]]
      /\ UNCHANGED <<inbox, session, subs, dispatch, server.said>>
  BY TurnOpens
<1> SUFFICES ASSUME task'[t].alone
             PROVE  OwnTurn(t)'
  BY DEF OwnTurn
<1>3. task[t].alone
  BY <1>1, <1>2 DEF TaskRecords
<1>4. u = t
  BY <1>2, <1>3 DEF OwnTurn
<1>5. task[t].turn = 0
  BY <1>2, <1>4 DEF TurnTaken
<1>6. /\ server.queue = <<>> /\ NoEvents(TurnEvents) /\ ~Runs("message") /\ ~Runs("idle")
      /\ task[t].settled = "pending" /\ task[t].last = 0
  BY <1>3, <1>5 DEF OwnTurn, TurnEvents
<1>7. PICK n \in 1..MaxTurns : n = server.turns + 1
  BY <1>1, <1>2
<1>8. n # 0 /\ server.said[n] = 0
  BY <1>1, <1>7 DEF TurnsNumbered
<1>9. /\ task'[t].turn = n /\ task'[t].settled = "pending" /\ task'[t].last = 0
      /\ \A v \in Tasks : task'[v].op = task[v].op
  BY <1>1, <1>2, <1>4, <1>6, <1>7 DEF TaskRecords
<1>10. server'.queue = <<n>>
  BY <1>2, <1>6, <1>7
<1>11. Sends(Tasks)' \subseteq {t}
  BY <1>3, <1>9 DEF OwnTurn, Sends
<1>12. NoEvents(TurnEvents)' /\ NoEvents({"idle"})' /\ ~Runs("message")' /\ ~Runs("idle")'
  BY <1>2, <1>6 DEF NoEvents, Runs, TurnEvents
<1>13. LastOnTheWay(t)'
  <2>1. (LastMessageIs(0))'
    BY <1>12 DEF LastMessageIs, NoEvents, TurnEvents
  <2> QED
    BY <1>2, <1>8, <1>9, <1>12, <2>1 DEF LastOnTheWay
<1>14. IdleIsLast(t)'
  <2>1. NothingAfterIdle'
    BY <1>12 DEF NothingAfterIdle, NoEvents, TurnEvents
  <2> QED
    BY <1>9, <1>12, <2>1 DEF IdleIsLast
<1> QED
  BY <1>8, <1>9, <1>10, <1>11, <1>13, <1>14 DEF OwnTurn


\* What the server says is in its turn.
LEMMA OwnTurnSpeaks ==
  ASSUME Typed, TurnsNumbered, NEW t \in Tasks, OwnTurn(t), ServerEmits
  PROVE  OwnTurn(t)'
<1>1. /\ server.queue # <<>> /\ server.queue \in Seq(Nat)
      /\ server.said \in [1..MaxTurns -> Nat] /\ server.turns \in Nat /\ MaxTurns \in Nat
      /\ UNCHANGED <<task, session, subs, dispatch>>
  BY TurnGoesOn DEF Typed, TypeOK, ServerTypes
<1>2. PICK m \in Messages :
        /\ Emits(m) /\ WellTyped(m) /\ m.type \in TurnEvents
        /\ server'.said = IF m.type = "message"
                          THEN [server.said EXCEPT ![Head(server.queue)] = m.about]
                          ELSE server.said
        /\ server'.queue = IF m.type = "idle" THEN Tail(server.queue) ELSE server.queue
  BY TurnGoesOn
<1> SUFFICES ASSUME task[t].alone
             PROVE  OwnTurn(t)'
  BY <1>1 DEF OwnTurn
<1>3. PICK turn : turn = task[t].turn
  OBVIOUS
<1>4. /\ server.queue = <<turn>> /\ turn # 0 /\ task[t].settled # "idle"
      /\ Sends(Tasks) \subseteq {t}
  BY <1>1, <1>3 DEF OwnTurn
<1>5. turn \in 1..MaxTurns
  <2>1. 1 \in 1..Len(server.queue) /\ server.queue[1] = turn
    BY <1>4
  <2>2. turn \in 1..server.turns
    BY <2>1 DEF TurnsNumbered
  <2> QED
    BY <1>1, <2>2 DEF TurnsNumbered
<1>6. Head(server.queue) = turn /\ Tail(server.queue) = <<>>
  BY <1>4
<1>7. server'.queue = IF m.type = "idle" THEN <<>> ELSE <<turn>>
  BY <1>2, <1>4, <1>6
<1>8. server'.said[turn] = IF m.type = "message" THEN m.about ELSE server.said[turn]
  BY <1>1, <1>2, <1>5, <1>6
<1>9. UNCHANGED Sends(Tasks)
  BY <1>1 DEF Sends
<1>10. Listens(t)' <=> Listens(t)
  BY <1>1 DEF Listens
<1>11. ASSUME Listens(t)
       PROVE  LastOnTheWay(t)' /\ IdleIsLast(t)'
  <2>1. LastOnTheWay(t) /\ IdleIsLast(t)
    BY <1>3, <1>4, <1>11 DEF OwnTurn
  <2>2. NoEvents({"idle"}) /\ ~Runs("idle")
    BY <1>1, <2>1 DEF IdleIsLast
  <2>3. NothingAfterIdle'
    BY <1>2, <2>1, <2>2, InboxGrown DEF IdleIsLast
  <2>4. m.type # "idle" => NoEvents({"idle"})'
    BY <1>2, <2>2, InboxGrown
  <2>5. IdleIsLast(t)'
    BY <1>1, <1>4, <1>7, <2>2, <2>3, <2>4 DEF IdleIsLast, Runs
  <2>6. PICK said : said = server'.said[turn]
    OBVIOUS
  <2>7. (LastMessageIs(said))'
    <3>1. CASE m.type = "message"
      BY <1>2, <1>8, <2>6, <3>1, InboxGrown
    <3>2. CASE m.type # "message"
      <4>1. LastMessageIs(said)
        BY <1>3, <1>8, <2>1, <2>6, <3>2 DEF LastOnTheWay
      <4> QED
        BY <1>2, <3>2, <4>1, InboxGrown
    <3> QED
      BY <3>1, <3>2
  <2>8. NoEvents({"message"})' => NoEvents({"message"}) /\ m.type # "message"
    BY <1>2, InboxGrown
  <2>9. LastOnTheWay(t)'
    BY <1>1, <1>3, <1>8, <2>1, <2>6, <2>7, <2>8 DEF LastOnTheWay, Runs
  <2> QED
    BY <2>5, <2>9
<1> QED
  BY <1>1, <1>3, <1>4, <1>7, <1>9, <1>10, <1>11 DEF OwnTurn

\* A dispatch begins with the first event under way.
LEMMA OwnTurnHears ==
  ASSUME Typed, NEW t \in Tasks, OwnTurn(t), ReceiveEvent, session.registered,
         Head(inbox).type \in TurnEvents
  PROVE  OwnTurn(t)'
<1>1. PICK m \in Messages : m = Head(inbox) /\ WellTyped(m) /\ m.type \in TurnEvents
  BY HeadTyped DEF ReceiveEvent, Take
<1>2. m.type # "lifecycle" /\ m.type # "capabilities"
  BY <1>1 DEF TurnEvents
<1>3. /\ dispatch = None /\ inbox # <<>> /\ inbox' = Tail(inbox)
      /\ dispatch' = [event |-> m, cursor |-> [any |-> FALSE, place |-> 0],
                      owed |-> {k \in Keys : Hears(k, m)}]
      /\ UNCHANGED <<session, subs, task, server>>
  BY <1>1, <1>2 DEF ReceiveEvent, Take, Free, Dispatch
<1>4. dispatch' # None /\ dispatch'.event = m
  <2>1. dispatch' \in Dispatches
    BY <1>1, <1>3 DEF Dispatches
  <2> QED
    BY <1>3, <2>1
<1> SUFFICES ASSUME task[t].alone
             PROVE  OwnTurn(t)'
  BY <1>3 DEF OwnTurn
<1>5. ~NoEvents(TurnEvents)
  BY <1>1, <1>3, InboxTaken
<1>6. task[t].turn # 0
  BY <1>5 DEF OwnTurn
<1>7. ASSUME Listens(t)
      PROVE  LastOnTheWay(t)' /\ IdleIsLast(t)'
  <2>1. LastOnTheWay(t) /\ IdleIsLast(t)
    BY <1>6, <1>7 DEF OwnTurn
  <2>2. task[t].settled # "idle"
    BY <1>5, <2>1 DEF IdleIsLast
  <2>3. t \in dispatch'.owed
    <3>1. t \in Keys /\ Subjects[t] = [of |-> "session", type |-> "*"]
      BY TaskTyped DEF Subjects
    <3>2. Hears(t, m)
      BY <1>2, <1>7, <3>1 DEF Hears, Listens
    <3> QED
      BY <1>3, <3>1, <3>2
  <2>4. IdleIsLast(t)'
    <3>1. NothingAfterIdle' /\ (m.type = "idle" => NoEvents(TurnEvents)')
      BY <1>1, <1>3, <2>1, InboxTaken DEF IdleIsLast
    <3>2. m.type = "idle" => server.queue = <<>>
      BY <1>1, <1>3, <2>1, InboxTaken DEF IdleIsLast
    <3>3. NoEvents({"idle"})' \/ server.queue = <<>>
      BY <1>1, <1>3, <2>1, InboxTaken DEF IdleIsLast
    <3> QED
      BY <1>3, <1>4, <2>2, <3>1, <3>2, <3>3 DEF IdleIsLast, Runs
  <2>5. PICK said : said = server.said[task[t].turn]
    OBVIOUS
  <2>6. LastMessageIs(said)
    BY <2>1, <2>5 DEF LastOnTheWay
  <2>7. /\ (LastMessageIs(said))'
        /\ m.type = "message" /\ NoEvents({"message"})' => m.about = said
        /\ m.type # "message" /\ NoEvents({"message"})' => NoEvents({"message"})
    BY <1>1, <1>3, <2>6, InboxTaken
  <2>8. m.type # "message" /\ NoEvents({"message"})' => task[t].last = said
    BY <1>3, <2>1, <2>5, <2>7 DEF LastOnTheWay, Runs
  <2>9. Runs("message")' <=> m.type = "message"
    BY <1>4 DEF Runs
  <2>10. LastOnTheWay(t)'
    BY <1>3, <1>4, <2>3, <2>5, <2>7, <2>8, <2>9 DEF LastOnTheWay
  <2> QED
    BY <2>4, <2>10
<1>8. UNCHANGED Sends(Tasks) /\ (Listens(t)' <=> Listens(t))
  BY <1>3 DEF Sends, Listens
<1> QED
  BY <1>3, <1>6, <1>7, <1>8 DEF OwnTurn

\* What the client takes from the server.
LEMMA OwnTurnReceive ==
  ASSUME Typed, NEW t \in Tasks, OwnTurn(t), Receive
  PROVE  OwnTurn(t)'
<1>1. /\ inbox # <<>> /\ inbox' = Tail(inbox) /\ dispatch = None /\ connection # "disposed"
      /\ UNCHANGED server
  BY ReceiveTakes DEF Take, Free
<1>2. task \in [Tasks -> TaskRecords] /\ session \in [Fields -> BOOLEAN]
  BY TaskTyped DEF Typed, TypeOK
<1>3. ASSUME Head(inbox).type \notin TurnEvents, \A type \in TurnEvents : ~Runs(type)',
             TaskStays(t), ListensNoMore(t)
      PROVE  OwnTurn(t)'
  <2>1. EventsStay
    BY <1>1, <1>3, EventsOf
  <2>2. DispatchStays(t)
    BY <1>1, <1>3 DEF DispatchStays, Runs
  <2> QED
    BY <1>1, <1>3, <2>1, <2>2, OwnTurnKept
<1>4. UNCHANGED <<task>> => TaskStays(t)
  BY DEF TaskStays, Sends
<1>5. UNCHANGED dispatch => \A type : ~Runs(type)'
  BY <1>1 DEF Runs
<1>6. CASE ReceiveEvent
  <2>1. UNCHANGED <<subs, task>>
    BY <1>6 DEF ReceiveEvent
  <2>2. session'.registered = session.registered
    <3>1. UNCHANGED session \/ session' = [session EXCEPT !.capabilities = Head(inbox).about]
      BY <1>6 DEF ReceiveEvent
    <3> QED
      BY <1>2, <3>1 DEF Fields
  <2>3. TaskStays(t) /\ ListensNoMore(t)
    BY <1>4, <2>1, <2>2 DEF ListensNoMore, Listens
  <2>4. CASE session.registered /\ Head(inbox).type \in TurnEvents
    BY <1>6, <2>4, OwnTurnHears
  <2>5. CASE session.registered /\ Head(inbox).type \notin TurnEvents
    <3>1. PICK m : m = Head(inbox)
      OBVIOUS
    <3>2. dispatch' = [event |-> m, cursor |-> [any |-> FALSE, place |-> 0],
                       owed |-> {k \in Keys : Hears(k, m)}]
      BY <1>6, <2>5, <3>1 DEF ReceiveEvent, Dispatch
    <3>3. dispatch'.event = m
      BY <3>2
    <3>4. \A type \in TurnEvents : ~Runs(type)'
      BY <2>5, <3>1, <3>3 DEF Runs
    <3> QED
      BY <1>3, <2>3, <2>5, <3>4
  <2>6. CASE ~session.registered
    <3>1. UNCHANGED dispatch
      BY <1>6, <2>6 DEF ReceiveEvent
    <3>2. ~Listens(t)'
      BY <2>2, <2>6 DEF Listens
    <3>3. NoEvents(TurnEvents) => NoEvents(TurnEvents)'
      BY <1>1, InboxTaken
    <3> QED
      BY <1>1, <1>5, <2>3, <3>1, <3>2, <3>3, OwnTurnDeaf
  <2> QED
    BY <2>4, <2>5, <2>6
<1>7. CASE ReceiveLifecycle
  <2>1. /\ Head(inbox).type = "lifecycle" /\ Dispatch(Head(inbox))
        /\ UNCHANGED <<session, subs, task>>
    BY <1>7 DEF ReceiveLifecycle
  <2>2. dispatch'.event = Head(inbox)
    BY <2>1 DEF Dispatch
  <2>3. \A type \in TurnEvents : ~Runs(type)'
    BY <2>1, <2>2 DEF Runs, TurnEvents
  <2> QED
    BY <1>3, <1>4, <2>1, <2>3 DEF ListensNoMore, Listens, TurnEvents
<1>8. CASE ReceiveCall \/ ReceiveReply \/ ReceiveCreated
  <2>1. /\ Head(inbox).type \notin TurnEvents /\ UNCHANGED <<dispatch, subs, task>>
    BY <1>8 DEF ReceiveCall, ReceiveReply, ReceiveCreated, TurnEvents, Routed
  <2>2. \/ UNCHANGED session \/ session' = [session EXCEPT !.registered = FALSE]
        \/ session' = [session EXCEPT !.created = TRUE, !.capabilities = Head(inbox).about]
    BY <1>8 DEF ReceiveCall, ReceiveReply, ReceiveCreated
  <2>3. session'.registered => session.registered
    BY <1>2, <2>2 DEF Fields
  <2> QED
    BY <1>3, <1>4, <1>5, <2>1, <2>3 DEF ListensNoMore, Listens
<1>9. CASE ReceiveAnswer
  <2>1. PICK u \in Tasks :
          /\ UNCHANGED <<dispatch, session.registered>>
          /\ \/ task' = [task EXCEPT ![u] = Waits(task[u])] /\ UNCHANGED subs
             \/ /\ task' = Ended({u})
                /\ \A v \in Tasks : subs'[v] = 0 \/ subs'[v] = subs[v]
    BY <1>9, AnswerTaken
  <2>2. Head(inbox).type \notin TurnEvents
    BY <1>9 DEF ReceiveAnswer, TurnEvents
  <2>3. ListensNoMore(t)
    BY <2>1 DEF ListensNoMore, Listens
  <2>4. TaskStays(t)
    <3>1. CASE task' = [task EXCEPT ![u] = Waits(task[u])]
      <4>1. ASSUME NEW v \in Tasks
            PROVE  /\ task'[v].op = task[v].op /\ task'[v].alone = task[v].alone
                   /\ task'[v].turn = task[v].turn /\ task'[v].settled = task[v].settled
                   /\ task'[v].last = task[v].last
        BY <1>2, <3>1 DEF Waits, TaskRecords
      <4> QED
        BY <4>1 DEF TaskStays, Sends
    <3>2. CASE task' = Ended({u})
      <4>1. \A v \in Tasks : task'[v] = task[v] \/ task'[v] = Idle(task[v].calls)
        BY <3>2, TasksEnd
      <4>2. \A v \in Tasks : task'[v] = task[v] \/ (~task'[v].alone /\ task'[v].op = "none")
        BY <4>1, IdleFields
      <4> QED
        BY <4>2 DEF TaskStays, Sends
    <3> QED
      BY <2>1, <3>1, <3>2
  <2> QED
    BY <1>3, <1>5, <2>1, <2>2, <2>3, <2>4
<1> QED
  BY <1>6, <1>7, <1>8, <1>9 DEF Receive


\* A task beside which another begins keeps all but that it was alone.
LEMMA AloneLost ==
  ASSUME Typed, NEW u \in Tasks, NEW op, NEW label, Starts(u, op, label), NEW v \in Tasks \ {u}
  PROVE  /\ task'[v].op = task[v].op /\ task'[v].turn = task[v].turn
         /\ task'[v].settled = task[v].settled /\ task'[v].last = task[v].last
         /\ task'[v].alone => task[v].alone /\ op \notin {"send", "sendAndWait"}
<1>1. PICK w \in TaskRecords : w = task[v]
  BY TaskTyped
<1>2. PICK c : c = (w.alone /\ op \notin {"send", "sendAndWait"})
  OBVIOUS
<1>3. task'[v] = [w EXCEPT !.alone = c]
  BY <1>1, <1>2 DEF Starts
<1>4. task'[v].alone = c
  BY <1>3 DEF TaskRecords
<1>5. task'[v].alone => w.alone /\ op \notin {"send", "sendAndWait"}
  BY <1>2, <1>4
<1>6. /\ task'[v].op = w.op /\ task'[v].turn = w.turn
      /\ task'[v].settled = w.settled /\ task'[v].last = w.last
  BY <1>3 DEF TaskRecords
<1> QED
  BY <1>1, <1>5, <1>6

\* A task that begins is alone if no turn is open nor asked for; the others are alone no
\* more if it sends.
LEMMA OwnTurnTask ==
  ASSUME Typed, NEW t \in Tasks, AnsweredOnce(t), OwnTurn(t), NEW u \in Tasks, TaskNext(u)
  PROVE  OwnTurn(t)'
<1>1. /\ dispatch = None
      /\ UNCHANGED <<connection, inbox, session, dispatch, server.queue, server.said>>
      /\ Begins(u) \/ Refused(u) \/ GoesOn(u) \/ GivesUp(u)
  BY TaskMoves
<1>2. task \in [Tasks -> TaskRecords] /\ subs \in [Keys -> Nat] /\ Tasks \subseteq Keys
  BY TaskTyped DEF Keys
<1>3. ASSUME TaskStays(t), ListensNoMore(t)
      PROVE  OwnTurn(t)'
  <2>1. EventsStay
    BY <1>1, EventsOf
  <2>2. DispatchStays(t)
    BY <1>1 DEF DispatchStays, Runs
  <2> QED
    BY <1>1, <1>3, <2>1, <2>2, OwnTurnKept
<1>4. CASE Refused(u) \/ GoesOn(u)
  <2>1. ASSUME NEW v \in Tasks
        PROVE  /\ task'[v].op = task[v].op /\ task'[v].alone = task[v].alone
               /\ task'[v].turn = task[v].turn /\ task'[v].settled = task[v].settled
               /\ task'[v].last = task[v].last
    BY <1>2, <1>4 DEF Refused, GoesOn, TaskRecords
  <2>2. UNCHANGED subs
    BY <1>4 DEF Refused, GoesOn
  <2> QED
    BY <1>1, <1>3, <2>1, <2>2 DEF TaskStays, Sends, ListensNoMore, Listens
<1>5. CASE GivesUp(u)
  <2>1. task' = Ended({u}) /\ subs' = Finished({u})
    BY <1>5 DEF GivesUp
  <2>2. \A v \in Tasks : task'[v] = task[v] \/ task'[v] = Idle(task[v].calls)
    BY <2>1, TasksEnd
  <2>3. \A v \in Tasks : task'[v] = task[v] \/ (~task'[v].alone /\ task'[v].op = "none")
    BY <2>2, IdleFields
  <2>4. TaskStays(t)
    BY <2>3 DEF TaskStays, Sends
  <2>5. ListensNoMore(t)
    BY <1>1, <1>2, <2>1 DEF ListensNoMore, Listens, Finished
  <2> QED
    BY <1>3, <2>4, <2>5
<1>6. CASE Begins(u)
  <2>1. PICK op, label : Starts(u, op, label)
    BY <1>6 DEF Begins
  <2>2. task[u].pc = "idle" /\ \A v \in Tasks \ {u} : subs'[v] = subs[v]
    BY <1>6 DEF Begins
  <2>3. CASE t # u
    <3>2. /\ task'[t].turn = task[t].turn /\ task'[t].settled = task[t].settled
          /\ task'[t].last = task[t].last
          /\ task'[t].alone => task[t].alone /\ op \notin {"send", "sendAndWait"}
      BY <2>1, <2>3, AloneLost
    <3>3. task'[u].op = op /\ \A v \in Tasks \ {u} : task'[v].op = task[v].op
      <4>2. task'[u] = [task[u] EXCEPT !.op = op, !.pc = label, !.calls = @ + 1, !.alone = Alone]
        BY <2>1 DEF Starts
      <4>3. task'[u].op = op
        BY <1>2, <4>2 DEF TaskRecords
      <4>4. \A v \in Tasks \ {u} : task'[v].op = task[v].op
        BY <2>1, AloneLost
      <4> QED
        BY <4>3, <4>4
    <3>4. task'[t].alone => Sends(Tasks)' \subseteq Sends(Tasks)
      BY <3>2, <3>3 DEF Sends
    <3> QED
      BY <1>1, <1>3, <2>2, <2>3, <3>2, <3>4 DEF TaskStays, ListensNoMore, Listens
  <2>4. CASE t = u
    <3>1. task[t] = Idle(task[t].calls)
      BY <2>2, <2>4 DEF AnsweredOnce
    <3>2. task[t].turn = 0 /\ task[t].settled = "pending" /\ task[t].last = 0
      BY <3>1, IdleFields
    <3>3. PICK b \in BOOLEAN : b = Alone
      BY DEF Alone
    <3>4. task'[t] = [task[t] EXCEPT !.op = op, !.pc = label, !.calls = @ + 1, !.alone = b]
      BY <2>1, <2>4, <3>3 DEF Starts
    <3>5. /\ task'[t].turn = 0 /\ task'[t].settled = "pending" /\ task'[t].last = 0
          /\ task'[t].alone = b
      BY <1>2, <3>2, <3>4 DEF TaskRecords
    <3>6. \A v \in Tasks \ {t} : task'[v].op = task[v].op
      BY <2>1, <2>4, AloneLost
    <3>7. ASSUME Alone
          PROVE  OwnTurn(t)'
      <4>1. Sends(Tasks) = {} /\ server'.queue = <<>>
        BY <1>1, <3>7 DEF Alone
      <4>2. Sends(Tasks)' \subseteq {t}
        BY <3>6, <4>1 DEF Sends
      <4>3. NoEvents(TurnEvents)'
        <5>1. inbox \in Seq(Messages) /\ \A i \in DOMAIN inbox : inbox[i].type \notin TurnEvents
          BY <3>7 DEF Alone, Typed
        <5> QED
          BY <1>1, <5>1 DEF NoEvents
      <4>4. \A type : ~Runs(type)'
        BY <1>1 DEF Runs
      <4> QED
        BY <3>5, <4>1, <4>2, <4>3, <4>4 DEF OwnTurn
    <3>8. ASSUME ~Alone
          PROVE  OwnTurn(t)'
      <4>1. ~task'[t].alone
        BY <3>3, <3>5, <3>8
      <4> QED
        BY <4>1 DEF OwnTurn
    <3> QED
      BY <3>7, <3>8
  <2> QED
    BY <2>3, <2>4
<1> QED
  BY <1>1, <1>4, <1>5, <1>6

\* A task hears the event of the dispatch.
LEMMA OwnTurnCalled ==
  ASSUME Typed, RunsRegistered, NEW t \in Tasks, AnsweredOnce(t), OwnTurn(t),
         NEW u \in Tasks, CallWaiter(u)
  PROVE  OwnTurn(t)'
<1>1. /\ task \in [Tasks -> TaskRecords] /\ dispatch # None
      /\ task' = [task EXCEPT ![u] = Heard(task[u], dispatch.event)]
      /\ dispatch' = Called(u)
      /\ UNCHANGED <<inbox, session, subs, server>>
  BY TaskTyped DEF CallWaiter
<1>2. PICK m \in Messages : m = dispatch.event
  BY <1>1, DispatchTyped
<1>3. dispatch' # None /\ dispatch'.event = m
  <2>1. dispatch' \in Dispatches /\ dispatch'.event = dispatch.event
    BY CallStep
  <2> QED
    BY <1>2, <2>1
<1>4. dispatch'.owed = dispatch.owed \ {u}
  <2>1. dispatch \in Dispatches
    BY <1>1, DispatchTyped
  <2> QED
    BY <1>1, <2>1 DEF Called, Dispatches
<1>5. \A v \in Tasks : task'[v].op = task[v].op
  <2>1. task'[u].op = task[u].op
    <3>1. PICK w \in TaskRecords : w = task[u]
      BY <1>1
    <3>2. Heard(w, m).op = w.op
      BY HeardFields
    <3> QED
      BY <1>1, <1>2, <3>1, <3>2
  <2> QED
    BY <1>1, <2>1
<1>6. Sends(Tasks)' \subseteq Sends(Tasks)
  BY <1>5 DEF Sends
<1>7. EventsStay /\ ListensNoMore(t) /\ (Listens(t)' <=> Listens(t))
  BY <1>1, EventsOf DEF ListensNoMore, Listens
<1>8. \A type : Runs(type)' <=> Runs(type)
  BY <1>1, <1>2, <1>3 DEF Runs
<1>9. CASE t # u
  <2>1. task'[t] = task[t]
    BY <1>1, <1>9
  <2>2. DispatchStays(t)
    BY <1>2, <1>3, <1>4, <1>8, <1>9 DEF DispatchStays
  <2> QED
    BY <1>1, <1>6, <1>7, <2>1, <2>2, OwnTurnKept DEF TaskStays
<1>10. CASE t = u
  <2>1. PICK w \in TaskRecords : w = task[t]
    BY <1>1
  <2>2. task'[t] = Heard(w, m)
    BY <1>1, <1>2, <1>10, <2>1
  <2>3. /\ task'[t].turn = w.turn /\ task'[t].alone = w.alone
        /\ task'[t].last = IF m.type = "message" THEN m.about ELSE w.last
        /\ task'[t].settled = IF m.type \in {"idle", "error"} /\ w.settled = "pending"
                              THEN m.type ELSE w.settled
    BY <2>2, HeardFields
  <2> SUFFICES ASSUME w.alone
               PROVE  OwnTurn(t)'
    BY <2>3 DEF OwnTurn
  <2>4. CASE m.type \notin TurnEvents
    <3>1. task'[t].last = w.last /\ task'[t].settled = w.settled
      BY <2>3, <2>4 DEF TurnEvents
    <3>2. TaskStays(t)
      BY <1>6, <2>1, <2>3, <3>1 DEF TaskStays
    <3>3. ~Runs("message")
      BY <1>2, <2>4 DEF Runs, TurnEvents
    <3>4. DispatchStays(t)
      BY <1>8, <3>3 DEF DispatchStays
    <3> QED
      BY <1>1, <1>7, <3>2, <3>4, OwnTurnKept
  <2>5. CASE m.type \in TurnEvents
    <3>1. Runs(m.type)
      BY <1>1, <1>2 DEF Runs
    <3>2. w.turn # 0
      BY <2>1, <2>5, <3>1 DEF OwnTurn
    <3>3. Listens(t)
      <4>1. m.type # "lifecycle"
        BY <2>5 DEF TurnEvents
      <4>2. subs[t] # 0
        BY <1>10, TaskCalled
      <4> QED
        BY <1>1, <1>2, <4>1, <4>2 DEF RunsRegistered, Listens
    <3>4. LastOnTheWay(t) /\ IdleIsLast(t)
      BY <2>1, <3>2, <3>3 DEF OwnTurn
    <3>5. PICK said : said = server.said[w.turn]
      OBVIOUS
    <3>6. /\ Runs("message") <=> m.type = "message"
          /\ Runs("idle") <=> m.type = "idle"
      BY <1>1, <1>2 DEF Runs
    <3>7. /\ NoEvents({"message"})' <=> NoEvents({"message"})
          /\ NoEvents({"idle"})' <=> NoEvents({"idle"})
          /\ NoEvents(TurnEvents)' <=> NoEvents(TurnEvents)
          /\ LastMessageIs(said) /\ (LastMessageIs(said))' /\ NothingAfterIdle'
      <4>1. LastMessageIs(said) /\ NothingAfterIdle
        BY <2>1, <3>4, <3>5 DEF LastOnTheWay, IdleIsLast
      <4> QED
        BY <1>7, <4>1 DEF EventsStay, TurnEvents
    <3>8. NoEvents({"message"}) => task'[t].last = said
      <4>1. CASE m.type = "message"
        BY <1>2, <2>1, <2>3, <3>4, <3>5, <3>6, <4>1 DEF LastOnTheWay
      <4>2. CASE m.type # "message"
        BY <2>1, <2>3, <3>4, <3>5, <3>6, <4>2 DEF LastOnTheWay
      <4> QED
        BY <4>1, <4>2
    <3>9. m.type = "message" /\ NoEvents({"message"}) => m.about = said
      BY <1>2, <2>1, <3>4, <3>5, <3>6 DEF LastOnTheWay
    <3>10. LastOnTheWay(t)'
      BY <1>1, <1>3, <1>8, <2>3, <3>5, <3>6, <3>7, <3>8, <3>9 DEF LastOnTheWay
    <3>11. task'[t].settled = "idle" => /\ server.queue = <<>> /\ NoEvents(TurnEvents)
                                        /\ m.type # "message"
      <4>1. CASE w.settled = "idle"
        BY <2>1, <2>3, <3>4, <3>6, <4>1, Zenon DEF IdleIsLast, OwnTurn
      <4>2. CASE w.settled # "idle"
        BY <2>3, <3>4, <3>6, <4>2 DEF IdleIsLast
      <4> QED
        BY <4>1, <4>2
    <3>12. IdleIsLast(t)'
      BY <1>1, <1>8, <3>4, <3>6, <3>7, <3>11 DEF IdleIsLast
    <3>13. task'[t].settled = "idle" =>
             server'.queue = <<>> /\ task'[t].last = server'.said[task'[t].turn]
      <4>1. NoEvents(TurnEvents) => NoEvents({"message"})
        BY DEF NoEvents, TurnEvents
      <4> QED
        BY <1>1, <2>3, <3>5, <3>8, <3>11, <4>1
    <3>14. Sends(Tasks)' \subseteq {t} /\ server'.queue \in {<<>>, <<task'[t].turn>>}
      BY <1>1, <1>6, <2>1, <2>3 DEF OwnTurn
    <3> QED
      BY <2>3, <3>2, <3>10, <3>12, <3>13, <3>14 DEF OwnTurn
  <2> QED
    BY <2>4, <2>5
<1> QED
  BY <1>9, <1>10

\* A dispatch ends, and with it the sendAndWait that it settled.
LEMMA OwnTurnEnds ==
  ASSUME Typed, Owed, NEW t \in Tasks, OwnTurn(t), DispatchEnds
  PROVE  OwnTurn(t)'
<1>1. /\ dispatch # None /\ Due = {} /\ dispatch' = None
      /\ subs' = Finished(Settled) /\ task' = Ended(Settled)
      /\ UNCHANGED <<inbox, session, server>>
  BY DEF DispatchEnds
<1>2. dispatch.owed = {}
  <2>1. \A k \in dispatch.owed : k \in Due
    BY <1>1, DispatchTyped DEF Owed, Due
  <2> QED
    BY <1>1, <2>1
<1>3. \A type : ~Runs(type)'
  BY <1>1 DEF Runs
<1>4. \A v \in Tasks : task'[v] = task[v] \/ task'[v] = Idle(task[v].calls)
  BY <1>1, TasksEnd
<1>5. \A v \in Tasks : task'[v] = task[v] \/ (~task'[v].alone /\ task'[v].op = "none")
  BY <1>4, IdleFields
<1> SUFFICES ASSUME task'[t].alone
             PROVE  OwnTurn(t)'
  BY DEF OwnTurn
<1>6. task'[t] = task[t] /\ task[t].alone
  BY <1>5
<1>7. Sends(Tasks)' \subseteq Sends(Tasks)
  BY <1>5 DEF Sends
<1>8. Listens(t)' => Listens(t)
  <2>1. subs \in [Keys -> Nat] /\ t \in Keys
    BY TaskTyped
  <2> QED
    BY <1>1, <2>1 DEF Listens, Finished
<1>9. \A types : NoEvents(types)' <=> NoEvents(types)
  BY <1>1 DEF NoEvents
<1>10. ASSUME LastOnTheWay(t)
       PROVE  LastOnTheWay(t)'
  <2>1. PICK said : said = server.said[task[t].turn]
    OBVIOUS
  <2>2. (LastMessageIs(said))'
    BY <1>1, <1>10, <2>1 DEF LastOnTheWay, LastMessageIs
  <2>3. NoEvents({"message"}) => task[t].last = said
    BY <1>2, <1>10, <2>1 DEF LastOnTheWay
  <2> QED
    BY <1>1, <1>3, <1>6, <1>9, <2>1, <2>2, <2>3 DEF LastOnTheWay
<1>11. ASSUME IdleIsLast(t)
       PROVE  IdleIsLast(t)'
  BY <1>1, <1>3, <1>6, <1>9, <1>11 DEF IdleIsLast, NothingAfterIdle
<1> QED
  BY <1>1, <1>3, <1>6, <1>7, <1>8, <1>9, <1>10, <1>11 DEF OwnTurn


LEMMA OwnTurnStep ==
  ASSUME Typed, Owed, OwnTurnInv, [Next]_vars, NEW t \in Tasks
  PROVE  OwnTurn(t)'
<1>1. /\ OwnTurn(t) /\ AnsweredOnce(t) /\ TurnTaken(t) /\ TurnsNumbered /\ RunsRegistered
      /\ task \in [Tasks -> TaskRecords]
  BY TaskTyped DEF OwnTurnInv
<1>2. CASE ServerNext
  <2>1. ASSUME \E m \in Messages : Emits(m) /\ WellTyped(m) /\ m.type \notin TurnEvents,
               UNCHANGED <<task, session, subs, dispatch, server.queue, server.said>>
        PROVE  OwnTurn(t)'
    <3>1. EventsStay
      BY <2>1, EventsOf
    <3>2. DispatchStays(t) /\ TaskStays(t) /\ ListensNoMore(t)
      BY <2>1 DEF DispatchStays, TaskStays, ListensNoMore, Runs, Listens, Sends
    <3> QED
      BY <1>1, <2>1, <3>1, <3>2, OwnTurnKept
  <2>2. ASSUME NEW u \in Tasks, ServerTakes(u)
        PROVE  OwnTurn(t)'
    BY <1>1, <2>2, OwnTurnOpens
  <2>3. ASSUME NEW u \in Tasks, ServerAnswers(u)
        PROVE  OwnTurn(t)'
    <3>1. \E m \in Messages : Emits(m) /\ WellTyped(m) /\ m.type \notin TurnEvents
      BY <2>3, TaskAnswered DEF AnswerFor, TurnEvents
    <3>2. UNCHANGED <<task, session, subs, dispatch, server.queue, server.said>>
      BY <2>3, TaskAnswered
    <3> QED
      BY <2>1, <3>1, <3>2
  <2>4. CASE ServerEmits
    BY <1>1, <2>4, OwnTurnSpeaks
  <2>5. CASE ServerCreates \/ ServerNotifies \/ \E r \in Requests : ServerAsks(r) \/ ServerReplies(r)
    <3>1. \E m \in Messages : Emits(m) /\ WellTyped(m) /\ m.type \notin TurnEvents
      BY <2>5, ServerElse
    <3>2. UNCHANGED <<task, session, subs, dispatch, server.queue, server.said>>
      BY <2>5, ServerElse
    <3> QED
      BY <2>1, <3>1, <3>2
  <2> QED
    BY <1>2, <2>2, <2>3, <2>4, <2>5 DEF ServerNext
<1>3. CASE Elsewhere
  <2>1. /\ UNCHANGED <<inbox, task, server.queue, server.said>> /\ subs'[t] = subs[t]
        /\ session'.registered => session.registered
    BY <1>3, NothingOfTasks
  <2>2. EventsStay /\ TaskStays(t) /\ ListensNoMore(t)
    BY <2>1, EventsOf DEF TaskStays, ListensNoMore, Listens, Sends
  <2>3. CASE UNCHANGED dispatch
    <3>1. DispatchStays(t)
      BY <2>3 DEF DispatchStays, Runs
    <3> QED
      BY <1>1, <2>1, <2>2, <3>1, OwnTurnKept
  <2>4. ASSUME NEW h \in Handlers, CallHandler(h)
        PROVE  DispatchStays(t)
    <3>1. dispatch # None /\ dispatch' \in Dispatches /\ dispatch'.event = dispatch.event
      BY <2>4, CallStep
    <3>2. dispatch' # None
      BY <3>1
    <3>3. t \in Keys /\ t # h
      BY TaskTyped
    <3>4. dispatch \in Dispatches
      BY <3>1, DispatchTyped
    <3>5. Called(h).owed = dispatch.owed \ {h} /\ Called(h) \in [event : Messages, cursor : {Rank(h)}, owed : SUBSET Keys]
      BY <3>4 DEF Called, Dispatches
    <3>6. dispatch' = Called(h) \/ dispatch' = [Called(h) EXCEPT !.owed = {k \in @ : subs'[k] # 0}]
      BY <2>4 DEF CallHandler
    <3>7. dispatch'.owed = Called(h).owed \/ dispatch'.owed = {k \in Called(h).owed : subs'[k] # 0}
      BY <3>5, <3>6
    <3>8. subs'[t] # 0 /\ t \in dispatch.owed => t \in dispatch'.owed
      BY <3>3, <3>5, <3>7
    <3> QED
      BY <3>1, <3>2, <3>8 DEF DispatchStays, Runs
  <2>5. UNCHANGED dispatch \/ \E h \in Handlers : CallHandler(h)
    BY <1>3 DEF Elsewhere, ApplicationChanges, HandlerReturns, Close, Forget, vars
  <2> QED
    BY <1>1, <2>1, <2>2, <2>3, <2>4, <2>5, OwnTurnKept
<1>4. CASE Dispose
  <2>1. PICK ts : /\ task' = Ended(ts) /\ dispatch = None /\ inbox' = <<>>
                  /\ session' = [session EXCEPT !.registered = FALSE]
                  /\ UNCHANGED <<dispatch, server>>
    BY <1>4 DEF Dispose, Free
  <2>2. ~Listens(t)'
    <3>1. session \in [Fields -> BOOLEAN]
      BY DEF Typed, TypeOK
    <3> QED
      BY <2>1, <3>1 DEF Listens, Fields
  <2>3. \A v \in Tasks : task'[v] = task[v] \/ task'[v] = Idle(task[v].calls)
    BY <2>1, TasksEnd
  <2>4. \A v \in Tasks : task'[v] = task[v] \/ (~task'[v].alone /\ task'[v].op = "none")
    BY <2>3, IdleFields
  <2>5. TaskStays(t)
    BY <2>4 DEF TaskStays, Sends
  <2>6. NoEvents(TurnEvents)'
    <3>1. Len(inbox') = 0
      BY <2>1
    <3> QED
      BY <3>1 DEF NoEvents
  <2>7. \A type \in TurnEvents : Runs(type)' => Runs(type)
    BY <2>1 DEF Runs
  <2> QED
    BY <1>1, <2>1, <2>2, <2>5, <2>6, <2>7, OwnTurnDeaf
<1>5. CASE Receive
  BY <1>1, <1>5, OwnTurnReceive
<1>6. ASSUME NEW u \in Tasks, TaskNext(u)
      PROVE  OwnTurn(t)'
  BY <1>1, <1>6, OwnTurnTask
<1>7. ASSUME NEW u \in Tasks, CallWaiter(u)
      PROVE  OwnTurn(t)'
  BY <1>1, <1>7, OwnTurnCalled
<1>8. CASE DispatchEnds
  BY <1>1, <1>8, OwnTurnEnds
<1> QED
  BY <1>2, <1>3, <1>4, <1>5, <1>6, <1>7, <1>8, StepKinds

\* A sendAndWait no other send overlaps returns the last message of its own turn, or none
\* if the turn had none, for any tasks, handlers, turns and order of what arrives.
THEOREM OwnMessages == Spec => ReturnsOwnMessage
<1>1. Init => OwnTurnInv
  <2> SUFFICES ASSUME Init
               PROVE  OwnTurnInv
    OBVIOUS
  <2>1. /\ Len(inbox) = 0 /\ dispatch = None /\ connection = "open"
        /\ server.turns = 0 /\ Len(server.queue) = 0 /\ server.pending = {} /\ server.taken = {}
        /\ server.said = [turn \in 1..MaxTurns |-> 0]
    BY DEF Init
  <2>2. TurnsNumbered /\ RunsRegistered
    BY <2>1 DEF TurnsNumbered, RunsRegistered
  <2>3. ASSUME NEW t \in Tasks
        PROVE  AnsweredOnce(t) /\ TurnTaken(t) /\ OwnTurn(t)
    <3>1. task[t] = Idle(0) /\ subs[t] = 0
      BY DEF Init, Keys
    <3>2. task[t] = Idle(task[t].calls) /\ task[t].turn = 0 /\ ~task[t].alone
      BY <3>1, IdleFields
    <3> QED
      BY <2>1, <3>1, <3>2 DEF AnsweredOnce, Awaited, TurnTaken, OwnTurn
  <2> QED
    BY <2>2, <2>3 DEF OwnTurnInv
<1>2. Typed /\ Owed /\ OwnTurnInv /\ [Next]_vars => OwnTurnInv'
  <2> SUFFICES ASSUME Typed, Owed, OwnTurnInv, [Next]_vars
               PROVE  OwnTurnInv'
    OBVIOUS
  <2>1. TurnsNumbered' /\ RunsRegistered'
    BY TurnsNumberedStep, RunsRegisteredStep DEF OwnTurnInv
  <2>2. ASSUME NEW t \in Tasks
        PROVE  AnsweredOnce(t)' /\ TurnTaken(t)' /\ OwnTurn(t)'
    BY AnsweredOnceStep, TurnTakenStep, OwnTurnStep DEF OwnTurnInv
  <2> QED
    BY <2>1, <2>2 DEF OwnTurnInv
<1>3. Init => Owed
  BY DEF Init, Owed
<1>4. Typed /\ Owed /\ [Next]_vars => Owed'
  BY OwedStep
<1>5. OwnTurnInv =>
        \A t \in Tasks :
          task[t].alone /\ task[t].settled = "idle" => task[t].last = server.said[task[t].turn]
  BY DEF OwnTurnInv, OwnTurn
<1>6. OwnTurnInv /\ [Next]_vars =>
        [\A t \in Tasks :
           task[t].alone /\ task[t].settled = "idle" /\ task'[t].pc = "idle" =>
             task[t].last = server.said[task[t].turn]]_vars
  BY <1>5
<1> QED
  BY <1>1, <1>2, <1>3, <1>4, <1>6, AlwaysTyped, PTL DEF Spec, ReturnsOwnMessage
=============================================================================
