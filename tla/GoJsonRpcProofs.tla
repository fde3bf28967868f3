-------------------------- MODULE GoJsonRpcProofs --------------------------
(***************************************************************************)
(* Safety of the Go SDK's JSON-RPC connection for any number of requests   *)
(* and server calls: types, the pairing of answers with requests, the      *)
(* integrity of frames, the meaning of onClose, the quiet after Stop, the  *)
(* single reply to each call of the server, and the promise of JsonRpcSpec.*)
(***************************************************************************)
EXTENDS GoJsonRpc, FiniteSetTheorems, SequenceTheorems, TLAPS

\* The sets of control states, needed wherever pc is.
USE ConstantsAssumption DEF CallStates, HandlerStates, ReaderStates, Senders

\* The initial state has its type.
LEMMA InitTypeOK == Init => TypeOK
<1> SUFFICES ASSUME Init PROVE TypeOK
  OBVIOUS
<1>1. PcType
  BY DEF Init, PcType
<1>2. CallTypes
  BY DEF Init, CallTypes, Responses, NoResponse, Outcomes
<1>3. SendTypes /\ ReadTypes
  BY EmptySeq DEF Init, SendTypes, ReadTypes
<1>4. StopTypes /\ ExitTypes
  BY DEF Init, StopTypes, ExitTypes, StopStates
<1>5. ServerTypes
  BY DEF Init, ServerTypes
<1> QED
  BY <1>1, <1>2, <1>3, <1>4, <1>5 DEF TypeOK

\* Every step of a request preserves the types.
LEMMA RequestTypeOK ==
  ASSUME TypeOK, NEW c \in Calls, Request(c)
  PROVE  TypeOK'
<1> USE DEF TypeOK, callVars, sendVars, readVars, stopVars, exitVars, serverVars,
            Goto, Finish
<1>1. PcType'
  BY DEF PcType, Request, RequestRegister, RequestCheckProcess,
         RequestMarshalFails, RequestResponse, RequestProcessDone,
         RequestStopped, RequestCleanup
<1>2. CallTypes'
  <2>1. CASE RequestRegister(c) \/ RequestCleanup(c)
    BY <2>1 DEF CallTypes, RequestRegister, RequestCleanup
  <2>2. CASE RequestCheckProcess(c) \/ RequestMarshalFails(c)
    BY <2>2 DEF CallTypes, RequestCheckProcess, RequestMarshalFails, Outcomes,
                ProcessOutcome
  <2>3. CASE RequestResponse(c)
    BY <2>3 DEF CallTypes, RequestResponse, Outcomes, Responses, NoResponse
  <2>4. CASE RequestProcessDone(c) \/ RequestStopped(c)
    BY <2>4 DEF CallTypes, RequestProcessDone, RequestStopped, Outcomes,
                ProcessOutcome
  <2> QED
    BY <2>1, <2>2, <2>3, <2>4 DEF Request
<1>3. UNCHANGED <<sendVars, readVars, stopVars, exitVars, serverVars>>
  BY DEF Request, RequestRegister, RequestCheckProcess,
         RequestMarshalFails, RequestResponse, RequestProcessDone,
         RequestStopped, RequestCleanup
<1>4. (SendTypes /\ ReadTypes /\ StopTypes /\ ExitTypes /\ ServerTypes)'
  BY <1>3 DEF SendTypes, ReadTypes, StopTypes, ExitTypes, ServerTypes
<1> QED
  BY <1>1, <1>2, <1>4

\* Every step of sendMessage preserves the types.
LEMMA SendTypeOK ==
  ASSUME TypeOK, NEW g \in Senders, sendMessage(g)
  PROVE  TypeOK'
<1> USE DEF TypeOK, callVars, sendVars, readVars, stopVars, exitVars, serverVars,
            Goto, Finish
<1>1. CASE SendAcquire(g)
  BY <1>1 DEF SendAcquire, PcType, CallTypes, SendTypes, ReadTypes, StopTypes,
              ExitTypes, ServerTypes
<1>2. ASSUME NEW ok \in BOOLEAN, AfterSend(g, ok),
             UNCHANGED <<pending, respChan, result>>
      PROVE  PcType' /\ CallTypes' /\ replyTo' \in ServerCalls \cup {None}
  BY <1>2 DEF AfterSend, PcType, CallTypes, SendTypes, Outcomes
<1>3. ASSUME NEW h \in {"header", "body"}
      PROVE  Append(wireOut, [half |-> h, of |-> Subject(g)]) \in Seq(Halves)
  <2>1. [half |-> h, of |-> Subject(g)] \in Halves
    BY DEF Subject, Halves, SendTypes
  <2> QED
    BY <2>1, AppendProperties DEF SendTypes
<1>4. CASE WriteHeader(g)
  BY <1>3, <1>4 DEF WriteHeader, PcType, CallTypes, SendTypes, ReadTypes,
                    StopTypes, ExitTypes, ServerTypes
<1>5. CASE WriteBody(g)
  BY <1>2, <1>3, <1>5 DEF WriteBody, SendTypes, ReadTypes, StopTypes,
                    ExitTypes, ServerTypes
<1>6. CASE WriteFails(g)
  BY <1>2, <1>6 DEF WriteFails, SendTypes, ReadTypes, StopTypes,
                    ExitTypes, ServerTypes
<1> QED
  BY <1>1, <1>4, <1>5, <1>6 DEF sendMessage

\* Every step of readLoop preserves the types.
LEMMA ReadTypeOK ==
  ASSUME TypeOK, readLoop
  PROVE  TypeOK'
<1> USE DEF TypeOK, callVars, sendVars, readVars, stopVars, exitVars, serverVars,
            Goto
<1> DEFINE m == Head(wireIn)
<1>1. wireIn # <<>> => m \in Messages /\ Tail(wireIn) \in Seq(Messages)
  BY HeadTailProperties DEF ReadTypes
<1>2. ReadCall => m.call \in ServerCalls
  BY <1>1 DEF ReadCall, Messages, NoiseKinds
<1>3. ReadNoise => \E l \in {"notify", "loop", "defer"} : Goto(Reader, l)
  <2>1. SUFFICES ASSUME ReadNoise
                 PROVE  \E l \in {"notify", "loop", "defer"} : Goto(Reader, l)
    OBVIOUS
  <2>2. m.kind \in {"notification", "undecodable", "badframe"}
    BY <2>1 DEF ReadNoise, NoiseKinds
  <2> QED
    BY <2>1, <2>2, Zenon DEF ReadNoise
<1>4. PcType'
  BY <1>2, <1>3 DEF readLoop, PcType, ReadLoopCheck, ReadResponse, ReadCall,
         NotificationReturns, ReadError, ReadLoopDefer, CallOnClose
<1>5. CallTypes'
  <2>1. CASE ReadResponse
    <3>1. m.resp \in Responses
      BY <1>1, <2>1 DEF ReadResponse, Messages, NoiseKinds
    <3> QED
      BY <2>1, <3>1 DEF ReadResponse, handleResponse, CallTypes
  <2>2. ReadResponse \/ UNCHANGED callVars
    BY DEF readLoop, ReadLoopCheck, ReadCall, ReadNoise, NotificationReturns,
           ReadError, ReadLoopDefer, CallOnClose
  <2> QED
    BY <2>1, <2>2 DEF CallTypes
<1>6. SendTypes'
  BY <1>2 DEF readLoop, SendTypes, ReadLoopCheck, ReadResponse, ReadCall,
         ReadNoise, NotificationReturns, ReadError, ReadLoopDefer, CallOnClose
<1>7. ReadTypes'
  BY <1>1 DEF readLoop, ReadTypes, ReadLoopCheck, ReadResponse, ReadCall,
         ReadNoise, NotificationReturns, ReadError, ReadLoopDefer, CallOnClose
<1>8. UNCHANGED <<stopVars, exitVars, serverVars>>
  BY DEF readLoop, ReadLoopCheck, ReadResponse, ReadCall, ReadNoise,
         NotificationReturns, ReadError, ReadLoopDefer, CallOnClose
<1>9. (StopTypes /\ ExitTypes /\ ServerTypes)'
  BY <1>8 DEF StopTypes, ExitTypes, ServerTypes
<1> QED
  BY <1>4, <1>5, <1>6, <1>7, <1>9

\* Every step of the server preserves the types.
LEMMA ServerTypeOK ==
  ASSUME TypeOK, Server
  PROVE  TypeOK'
<1> USE DEF TypeOK, callVars, sendVars, readVars, stopVars, exitVars, serverVars
<1>1. UNCHANGED <<pc, callVars, writer, replyTo, onCloseCalled, stopVars, exitVars>>
  BY DEF Server, ServerReceive, ServerRespond, ServerCall, ServerNoise
<1>2. (PcType /\ CallTypes /\ StopTypes /\ ExitTypes)'
  BY <1>1 DEF PcType, CallTypes, StopTypes, ExitTypes
<1>3. ASSUME NEW m \in Messages, ServerSend(m)
      PROVE  wireIn' \in Seq(Messages)
  BY <1>3, AppendProperties DEF ServerSend, ReadTypes
<1>4. CASE ServerReceive
  <2>1. Len(wireOut) \in Nat /\ Len(wireOut) >= 2
        /\ \A i \in 1..Len(wireOut) : wireOut[i] \in Halves
    BY <1>4, LenProperties, ElementOfSeq DEF ServerReceive, SendTypes
  <2>2. wireOut' \in Seq(Halves)
    BY <1>4, <2>1, SubSeqProperties DEF ServerReceive
  <2>3. wireOut[2].of \in Senders \cup {None}
    BY <2>1 DEF Halves
  <2>4. ServerTypes'
    BY <1>4, <2>3 DEF ServerReceive, ServerTypes
  <2> QED
    BY <1>1, <1>2, <1>4, <2>2, <2>4 DEF ServerReceive, SendTypes, ReadTypes
<1>5. ASSUME NEW c \in Calls, NEW ok \in BOOLEAN, ServerRespond(c, ok)
      PROVE  TypeOK'
  <2>1. [kind |-> "response", resp |-> [id |-> c, body |-> c, ok |-> ok]]
          \in Messages
    BY DEF Messages, Responses
  <2>2. ServerTypes'
    BY <1>5 DEF ServerRespond, ServerTypes
  <2> QED
    BY <1>1, <1>2, <1>3, <1>5, <2>1, <2>2 DEF ServerRespond, SendTypes, ReadTypes
<1>6. ASSUME NEW s \in ServerCalls, ServerCall(s)
      PROVE  TypeOK'
  <2>1. [kind |-> "call", call |-> s] \in Messages
    BY DEF Messages
  <2>2. ServerTypes'
    BY <1>6 DEF ServerCall, ServerTypes
  <2> QED
    BY <1>1, <1>2, <1>3, <1>6, <2>1, <2>2 DEF ServerCall, SendTypes, ReadTypes
<1>7. ASSUME NEW k \in NoiseKinds, ServerNoise(k)
      PROVE  TypeOK'
  <2>1. [kind |-> k] \in Messages
    BY DEF Messages
  <2>2. ServerTypes'
    BY <1>7 DEF ServerNoise, ServerTypes
  <2> QED
    BY <1>1, <1>2, <1>3, <1>7, <2>1, <2>2 DEF ServerNoise, SendTypes, ReadTypes
<1> QED
  BY <1>4, <1>5, <1>6, <1>7 DEF Server

\* The steps of Start, Stop, a handler, the peer and the monitor preserve the
\* types.
LEMMA OtherTypeOK ==
  ASSUME TypeOK,
         \/ \E s \in ServerCalls : HandlerReturns(s)
         \/ Start \/ Stop \/ ConnectionLost \/ Monitor
  PROVE  TypeOK'
<1> USE DEF TypeOK, callVars, sendVars, readVars, stopVars, exitVars, serverVars,
            Goto
<1>1. CASE Start \/ \E s \in ServerCalls : HandlerReturns(s)
  <2>1. UNCHANGED <<callVars, sendVars, readVars, stopClosed, stdoutOpen, stopPc,
                    exitVars, serverVars>>
    BY <1>1 DEF Start, HandlerReturns
  <2>2. PcType' /\ running' \in BOOLEAN
    BY <1>1, ZenonT(60) DEF Start, HandlerReturns, PcType, StopTypes
  <2> QED
    BY <2>1, <2>2 DEF CallTypes, SendTypes, ReadTypes, StopTypes, ExitTypes,
                      ServerTypes
<1>2. CASE Stop
  <2>1. UNCHANGED <<pc, callVars, sendVars, readVars, exitVars, serverVars>>
    BY <1>2 DEF Stop, StopCheck, StopStore, StopCloseChan, StopCloseStdout,
                StopWait
  <2>2. StopTypes'
    BY <1>2 DEF Stop, StopCheck, StopStore, StopCloseChan, StopCloseStdout,
                StopWait, StopStep, StopStates, StopTypes
  <2> QED
    BY <2>1, <2>2 DEF PcType, CallTypes, SendTypes, ReadTypes, ExitTypes,
                      ServerTypes
<1>3. CASE ConnectionLost \/ Monitor
  <2>1. UNCHANGED <<pc, callVars, sendVars, readVars, stopVars, serverVars>>
    BY <1>3 DEF ConnectionLost, Monitor, MonitorWait, MonitorCloseDone,
                SetProcessDoneCopy
  <2>2. ExitTypes'
    BY <1>3, Zenon DEF ConnectionLost, Monitor, MonitorWait, MonitorCloseDone,
                SetProcessDoneCopy, ExitTypes
  <2> QED
    BY <2>1, <2>2 DEF PcType, CallTypes, SendTypes, ReadTypes, StopTypes,
                      ServerTypes
<1> QED
  BY <1>1, <1>2, <1>3

\* A step that changes nothing preserves the types.
LEMMA StutterTypeOK == TypeOK /\ UNCHANGED vars => TypeOK'
BY DEF TypeOK, vars, callVars, sendVars, readVars, stopVars, exitVars,
       serverVars, PcType, CallTypes, SendTypes, ReadTypes, StopTypes,
       ExitTypes, ServerTypes

\* Every variable always has its type, whatever the number of goroutines.
THEOREM TypeCorrect == Spec => []TypeOK
<1>1. TypeOK /\ [Next]_vars => TypeOK'
  BY RequestTypeOK, SendTypeOK, ReadTypeOK, ServerTypeOK, OtherTypeOK,
     StutterTypeOK DEF Next
<1> QED
  BY InitTypeOK, <1>1, PTL DEF Spec

----------------------------------------------------------------------------
(* The inductive invariants *)

\* Every answer on its way, in a response channel or returned belongs to the
\* request it is for.
WirePaired ==
  \A i \in 1..Len(wireIn) :
    wireIn[i].kind = "response" => wireIn[i].resp.id = wireIn[i].resp.body

AnswerInv ==
  /\ WirePaired
  /\ \A c \in Calls : respChan[c] # NoResponse => respChan[c].body = c
  /\ \A c \in Calls : pc[c] \notin {"cleanup", "returned"} => outcome[c] = "none"
  /\ OwnAnswer

\* A call of the server is on the wire at most once, before its handler exists.
CallInv ==
  /\ \A s \in ServerCalls \ issued : pc[s] = "unborn"
  /\ \A i \in 1..Len(wireIn) : wireIn[i].kind = "call" =>
       /\ wireIn[i].call \in issued
       /\ pc[wireIn[i].call] = "unborn"
       /\ \A j \in 1..Len(wireIn) :
            wireIn[j].kind = "call" /\ wireIn[j].call = wireIn[i].call => i = j

\* Whoever is between taking the writer and putting it back holds it.
WriterInv ==
  \A g \in Senders : pc[g] \in {"header", "body"} <=> writer = g

\* The stream is a sequence of whole frames, followed by one header exactly
\* when some sender is about to write the body that belongs to it.
FrameInv ==
  /\ FramesWhole
  /\ connUp /\ ~LocallyClosed =>
       /\ Len(wireOut) % 2 = 1 => writer # None /\ pc[writer] = "body"
       /\ \A g \in Senders : pc[g] = "body" =>
            /\ Len(wireOut) % 2 = 1
            /\ wireOut[Len(wireOut)] = [half |-> "header", of |-> Subject(g)]

\* Stop clears running before it closes stdout and never in another order, so
\* the loop that fails to read with running set has lost its peer.
CloseInv ==
  /\ pc[Reader] = "start" => ~running /\ stdoutOpen /\ stopPc \in {"idle", "done"}
  /\ stopPc \in {"closeChan", "closeStdout", "wait"} => ~running
  /\ ~stdoutOpen => ~running
  /\ \A i \in 1..Len(wireIn) :
       wireIn[i].kind = "badframe" => noise["badframe"] > 0
  /\ pc[Reader] = "defer" /\ connUp => noise["badframe"] > 0 \/ ~running
  /\ pc[Reader] = "onclose" /\ connUp => noise["badframe"] > 0
  /\ OnCloseOnlyIfLost

\* What a step of sendMessage leaves as it was.
LEMMA SendFrame ==
  ASSUME NEW g \in Senders, sendMessage(g)
  PROVE  UNCHANGED <<pending, respChan, result, readVars, stopVars, exitVars,
                     serverVars>>
BY DEF sendMessage, SendAcquire, WriteHeader, WriteBody, WriteFails,
       sendVars, callVars

\* What a step of a request leaves as it was.
LEMMA RequestFrame ==
  ASSUME NEW c \in Calls, Request(c)
  PROVE  UNCHANGED <<sendVars, readVars, stopVars, exitVars, serverVars>>
BY DEF Request, RequestRegister, RequestCheckProcess, RequestMarshalFails,
       RequestResponse, RequestProcessDone, RequestStopped, RequestCleanup

\* What a step of readLoop leaves as it was.
LEMMA ReadFrame ==
  ASSUME readLoop
  PROVE  UNCHANGED <<pending, outcome, result, writer, wireOut, stopVars,
                     exitVars, serverVars>>
BY DEF readLoop, ReadLoopCheck, ReadResponse, ReadCall, ReadNoise,
       NotificationReturns, ReadError, ReadLoopDefer, CallOnClose, callVars,
       sendVars

\* What the remaining steps leave as it was.
LEMMA OtherFrame ==
  ASSUME \/ \E s \in ServerCalls : HandlerReturns(s)
         \/ Start \/ Stop \/ ConnectionLost \/ Monitor
  PROVE  UNCHANGED <<callVars, sendVars, readVars, serverVars>>
BY DEF HandlerReturns, Start, Stop, StopCheck, StopStore, StopCloseChan,
       StopCloseStdout, StopWait, ConnectionLost, Monitor, MonitorWait,
       MonitorCloseDone, SetProcessDoneCopy

\* What a step of the server leaves as it was.
LEMMA ServerFrame ==
  ASSUME Server
  PROVE  UNCHANGED <<pc, callVars, writer, replyTo, onCloseCalled, stopVars,
                     exitVars>>
BY DEF Server, ServerReceive, ServerRespond, ServerCall, ServerNoise, callVars,
       sendVars, readVars, stopVars, exitVars

----------------------------------------------------------------------------
(* Answers *)

\* The loop takes the first message; the others keep their order.
LEMMA Taken ==
  ASSUME TypeOK, wireIn # <<>>
  PROVE  /\ Head(wireIn) = wireIn[1] /\ 1 \in 1..Len(wireIn)
         /\ Len(Tail(wireIn)) \in Nat
         /\ \A i \in 1..Len(Tail(wireIn)) :
              i + 1 \in 1..Len(wireIn) /\ Tail(wireIn)[i] = wireIn[i + 1]
BY HeadTailProperties, LenProperties DEF TypeOK, ReadTypes

\* Taking a message adds none.
LEMMA WireShrinks ==
  ASSUME TypeOK, wireIn # <<>>, wireIn' = Tail(wireIn)
  PROVE  \A i \in 1..Len(wireIn') : \E j \in 1..Len(wireIn) : wireIn'[i] = wireIn[j]
BY Taken

\* Sending a message adds that one only.
LEMMA WireGrows ==
  ASSUME TypeOK, NEW m \in Messages, ServerSend(m)
  PROVE  \A i \in 1..Len(wireIn') :
           wireIn'[i] = m \/ \E j \in 1..Len(wireIn) : wireIn'[i] = wireIn[j]
BY AppendProperties, LenProperties DEF TypeOK, ReadTypes, ServerSend

\* The loop's steps either take the first message or leave the wire alone.
LEMMA ReadWire ==
  ASSUME readLoop
  PROVE  \/ wireIn' = wireIn
         \/ wireIn # <<>> /\ wireIn' = Tail(wireIn)
BY DEF readLoop, ReadLoopCheck, ReadResponse, ReadCall, ReadNoise,
       NotificationReturns, ReadError, ReadLoopDefer, CallOnClose, readVars

\* The loop moves itself and may start one handler; no request moves.
LEMMA ReadMoves ==
  ASSUME TypeOK, readLoop
  PROVE  /\ \A c \in Calls : pc'[c] = pc[c]
         /\ \A s \in ServerCalls : pc'[s] \in {pc[s], "handling"}
<1>1. ReadCall => Head(wireIn).call \in ServerCalls
  BY Taken, ElementOfSeq DEF ReadCall, Messages, NoiseKinds, TypeOK, ReadTypes
<1>2. CASE ReadCall
  BY <1>1, <1>2 DEF ReadCall, Goto, TypeOK, PcType
<1>3. CASE ReadNoise
  <2>1. PICK l : Goto(Reader, l)
    BY <1>3, Zenon DEF ReadNoise
  <2> QED
    BY <2>1 DEF Goto, TypeOK, PcType
<1>4. CASE ~ReadCall /\ ~ReadNoise
  BY <1>4 DEF readLoop, ReadLoopCheck, ReadResponse, Goto, NotificationReturns,
       ReadError, ReadLoopDefer, CallOnClose, TypeOK, PcType
<1> QED
  BY <1>2, <1>3, <1>4

\* A request's step keeps the pairing: it returns what its channel holds.
LEMMA RequestAnswer ==
  ASSUME TypeOK, AnswerInv, NEW c \in Calls, Request(c)
  PROVE  AnswerInv'
<1>1. UNCHANGED wireIn
  BY RequestFrame DEF readVars
<1>2. CASE RequestResponse(c)
  BY <1>1, <1>2 DEF AnswerInv, WirePaired, OwnAnswer, RequestResponse, Finish, Goto, TypeOK,
       PcType, CallTypes
<1>3. CASE ~RequestResponse(c)
  BY <1>1, <1>3 DEF AnswerInv, WirePaired, OwnAnswer, Request, RequestRegister,
       RequestCheckProcess, RequestMarshalFails, RequestProcessDone,
       RequestStopped, RequestCleanup, Finish, Goto, TypeOK, PcType, CallTypes,
       ProcessOutcome
<1> QED
  BY <1>2, <1>3

\* The loop's step keeps the pairing: it delivers an answer by its id.
LEMMA ReadAnswer ==
  ASSUME TypeOK, AnswerInv, readLoop
  PROVE  AnswerInv'
<1>1. WirePaired'
  BY ReadWire, WireShrinks DEF AnswerInv, WirePaired
<1>2. \A c \in Calls : respChan'[c] # NoResponse => respChan'[c].body = c
  <2>1. CASE ReadResponse
    <3>1. Head(wireIn).resp.id = Head(wireIn).resp.body
      BY <2>1, Taken DEF ReadResponse, AnswerInv, WirePaired
    <3> QED
      BY <2>1, <3>1 DEF ReadResponse, handleResponse, AnswerInv, TypeOK, CallTypes
  <2>2. CASE ~ReadResponse
    BY <2>2 DEF readLoop, ReadLoopCheck, ReadCall, ReadNoise, AnswerInv,
         NotificationReturns, ReadError, ReadLoopDefer, CallOnClose, callVars
  <2> QED
    BY <2>1, <2>2
<1>3. UNCHANGED <<outcome, result>> /\ \A c \in Calls : pc'[c] = pc[c]
  BY ReadFrame, ReadMoves
<1> QED
  BY <1>1, <1>2, <1>3 DEF AnswerInv, WirePaired, OwnAnswer

\* A sender's step keeps the pairing: a failed send returns no answer.
LEMMA SendAnswer ==
  ASSUME TypeOK, AnswerInv, NEW g \in Senders, sendMessage(g)
  PROVE  AnswerInv'
<1>1. UNCHANGED <<wireIn, respChan, result>>
  BY SendFrame DEF readVars
<1>2. \A c \in Calls :
        \/ pc'[c] = pc[c] /\ outcome'[c] = outcome[c]
        \/ /\ pc[c] \in {"acquire", "header", "body"}
           /\ outcome'[c] \in {outcome[c], "sendError"}
           /\ outcome'[c] = outcome[c] \/ pc'[c] = "cleanup"
  BY DEF sendMessage, SendAcquire, WriteHeader, WriteBody, WriteFails, AfterSend,
         Finish, Goto, TypeOK, PcType, CallTypes, callVars
<1> QED
  BY <1>1, <1>2 DEF AnswerInv, WirePaired, OwnAnswer

\* The server answers a request under its own id.
LEMMA ServerAnswer ==
  ASSUME TypeOK, AnswerInv, Server
  PROVE  AnswerInv'
<1>1. UNCHANGED <<pc, respChan, outcome, result>>
  BY ServerFrame DEF callVars
<1>2. ASSUME NEW m \in Messages, ServerSend(m),
             m.kind = "response" => m.resp.id = m.resp.body
      PROVE  WirePaired'
  BY <1>2, WireGrows DEF AnswerInv, WirePaired
<1>3. WirePaired'
  <2>1. CASE ServerReceive
    BY <2>1 DEF ServerReceive, readVars, AnswerInv, WirePaired
  <2>2. ASSUME NEW c \in Calls, NEW ok \in BOOLEAN, ServerRespond(c, ok)
        PROVE  WirePaired'
    BY <1>2, <2>2 DEF ServerRespond, Messages, Responses
  <2>3. ASSUME NEW s \in ServerCalls, ServerCall(s)
        PROVE  WirePaired'
    BY <1>2, <2>3 DEF ServerCall, Messages
  <2>4. ASSUME NEW k \in NoiseKinds, ServerNoise(k)
        PROVE  WirePaired'
    BY <1>2, <2>4 DEF ServerNoise, Messages, NoiseKinds
  <2> QED
    BY <2>1, <2>2, <2>3, <2>4 DEF Server
<1> QED
  BY <1>1, <1>3 DEF AnswerInv, WirePaired, OwnAnswer

\* Stop, the monitor, a handler and Start do not touch answers.
LEMMA OtherAnswer ==
  ASSUME TypeOK, AnswerInv,
         \/ \E s \in ServerCalls : HandlerReturns(s)
         \/ Start \/ Stop \/ ConnectionLost \/ Monitor
  PROVE  AnswerInv'
<1>1. UNCHANGED <<callVars, readVars>>
  BY OtherFrame
<1>2. \A c \in Calls : pc'[c] = pc[c]
  BY DEF HandlerReturns, Start, Stop, StopCheck, StopStore, StopCloseChan,
         StopCloseStdout, StopWait, ConnectionLost, Monitor, MonitorWait,
         MonitorCloseDone, SetProcessDoneCopy, Goto, TypeOK, PcType
<1> QED
  BY <1>1, <1>2 DEF AnswerInv, WirePaired, OwnAnswer, callVars, readVars

\* Every step keeps the pairing.
LEMMA AnswerStep ==
  ASSUME TypeOK, AnswerInv, [Next]_vars
  PROVE  AnswerInv'
<1>1. UNCHANGED vars => AnswerInv'
  BY DEF vars, callVars, readVars, AnswerInv, WirePaired, OwnAnswer
<1> QED
  BY <1>1, RequestAnswer, SendAnswer, ReadAnswer, ServerAnswer, OtherAnswer DEF Next

\* Request returns the server's answer to that very request and no other, for
\* every number of concurrent requests.
THEOREM AnswersPaired == Spec => []OwnAnswer
<1>1. Init => AnswerInv
  BY DEF Init, AnswerInv, WirePaired, OwnAnswer, NoResponse
<1>2. AnswerInv => OwnAnswer
  BY DEF AnswerInv
<1> QED
  BY <1>1, <1>2, AnswerStep, TypeCorrect, PTL DEF Spec

----------------------------------------------------------------------------
(* Frames *)

\* A step of sendMessage by g moves only g; the writer it takes is its own.
LEMMA SendMoves ==
  ASSUME TypeOK, NEW g \in Senders, sendMessage(g)
  PROVE  /\ \A h \in Senders : h # g => pc'[h] = pc[h]
         /\ \/ pc[g] = "acquire" /\ writer = None /\ writer' = g
               /\ pc'[g] = "header" /\ wireOut' = wireOut
            \/ pc[g] = "header" /\ writer' = writer /\ pc'[g] = "body"
               /\ ~LocallyClosed /\ replyTo' = replyTo
               /\ wireOut' = Append(wireOut, [half |-> "header", of |-> Subject(g)])
            \/ pc[g] = "body" /\ writer' = None /\ pc'[g] \notin {"header", "body"}
               /\ ~LocallyClosed
               /\ wireOut' = Append(wireOut, [half |-> "body", of |-> Subject(g)])
            \/ pc[g] \in {"header", "body"} /\ writer' = None
               /\ pc'[g] \notin {"header", "body"} /\ wireOut' = wireOut
               /\ (~connUp \/ LocallyClosed)
BY DEF sendMessage, SendAcquire, WriteHeader, WriteBody, WriteFails, AfterSend,
       Finish, Goto, TypeOK, PcType, callVars

\* A step of anyone but readLoop and the server does not disturb a handler that
\* has not started.
LEMMA UnbornStays ==
  ASSUME TypeOK,
         \/ \E c \in Calls : Request(c)
         \/ \E g \in Senders : sendMessage(g)
         \/ \E s \in ServerCalls : HandlerReturns(s)
         \/ Start \/ Stop \/ ConnectionLost \/ Monitor \/ UNCHANGED vars
  PROVE  /\ UNCHANGED <<wireIn, issued>>
         /\ \A s \in ServerCalls : pc[s] = "unborn" => pc'[s] = "unborn"
<1>1. ASSUME NEW c \in Calls, Request(c)
      PROVE  \A s \in ServerCalls : pc'[s] = pc[s]
  BY <1>1 DEF Request, RequestRegister, RequestCheckProcess, Finish, Goto,
       RequestMarshalFails, RequestResponse, RequestProcessDone, RequestStopped,
       RequestCleanup, TypeOK, PcType
<1>2. ASSUME NEW g \in Senders, sendMessage(g)
      PROVE  \A s \in ServerCalls : pc[s] = "unborn" => pc'[s] = "unborn"
  BY <1>2, SendMoves
<1>3. ASSUME \/ \E s \in ServerCalls : HandlerReturns(s)
             \/ Start \/ Stop \/ ConnectionLost \/ Monitor \/ UNCHANGED vars
      PROVE  \A s \in ServerCalls : pc[s] = "unborn" => pc'[s] = "unborn"
  BY <1>3 DEF HandlerReturns, Start, Stop, StopCheck, StopStore, StopCloseChan,
       StopCloseStdout, StopWait, ConnectionLost, Monitor, MonitorWait,
       MonitorCloseDone, SetProcessDoneCopy, Goto, TypeOK, PcType, vars
<1>4. UNCHANGED <<wireIn, issued>>
  BY RequestFrame, SendFrame, OtherFrame DEF vars, readVars, serverVars
<1> QED
  BY <1>1, <1>2, <1>3, <1>4

\* Every step keeps calls on the wire unique and unstarted.
LEMMA CallStep ==
  ASSUME TypeOK, CallInv, [Next]_vars
  PROVE  CallInv'
<1>1. CASE \/ \E c \in Calls : Request(c)
           \/ \E g \in Senders : sendMessage(g)
           \/ \E s \in ServerCalls : HandlerReturns(s)
           \/ Start \/ Stop \/ ConnectionLost \/ Monitor \/ UNCHANGED vars
  <2>1. \A i \in 1..Len(wireIn) : wireIn[i].kind = "call"
          => wireIn[i].call \in ServerCalls
    BY ElementOfSeq DEF TypeOK, ReadTypes, Messages, NoiseKinds
  <2> QED
    BY <1>1, <2>1, UnbornStays DEF CallInv
<1>2. CASE readLoop
  <2>1. \A i \in 1..Len(wireIn) : wireIn[i].kind = "call"
          => wireIn[i].call \in ServerCalls
    BY ElementOfSeq DEF TypeOK, ReadTypes, Messages, NoiseKinds
  <2>2. issued' = issued
    BY <1>2, ReadFrame DEF serverVars
  <2>3. CASE ReadCall
    <3>1. wireIn # <<>> /\ wireIn' = Tail(wireIn) /\ Head(wireIn).kind = "call"
          /\ \A s \in ServerCalls : s # Head(wireIn).call => pc'[s] = pc[s]
      BY <2>3 DEF ReadCall, Goto, TypeOK, PcType
    <3> QED
      BY <2>1, <2>2, <3>1, Taken DEF CallInv
  <2>4. CASE ~ReadCall
    <3>1. \A s \in ServerCalls : pc'[s] = pc[s]
      <4>1. ReadNoise => \E l : Goto(Reader, l)
        BY Zenon DEF ReadNoise
      <4> QED
        BY <1>2, <2>4, <4>1 DEF readLoop, ReadLoopCheck, ReadResponse, Goto,
           NotificationReturns, ReadError, ReadLoopDefer, CallOnClose, TypeOK,
           PcType
    <3>2. CASE wireIn' = wireIn
      BY <2>1, <2>2, <3>1, <3>2 DEF CallInv
    <3>3. CASE wireIn # <<>> /\ wireIn' = Tail(wireIn)
      BY <2>1, <2>2, <3>1, <3>3, Taken, SMTT(60) DEF CallInv
    <3> QED
      BY <1>2, <3>2, <3>3, ReadWire
  <2> QED
    BY <2>3, <2>4
<1>3. CASE Server
  <2>1. pc' = pc
    BY <1>3, ServerFrame
  <2>2. ASSUME ServerReceive
        PROVE  CallInv'
    BY <2>1, <2>2 DEF ServerReceive, readVars, CallInv
  <2>3. ASSUME NEW m \in Messages, ServerSend(m), m.kind # "call", issued' = issued
        PROVE  CallInv'
    BY <2>1, <2>3, AppendProperties, LenProperties
       DEF CallInv, ServerSend, TypeOK, ReadTypes
  <2>4. ASSUME NEW c \in Calls, NEW ok \in BOOLEAN, ServerRespond(c, ok)
        PROVE  CallInv'
    BY <2>3, <2>4 DEF ServerRespond, Messages, Responses
  <2>5. ASSUME NEW k \in NoiseKinds, ServerNoise(k)
        PROVE  CallInv'
    BY <2>3, <2>5 DEF ServerNoise, Messages, NoiseKinds
  <2>6. ASSUME NEW s \in ServerCalls, ServerCall(s)
        PROVE  CallInv'
    <3>1. [kind |-> "call", call |-> s] \in Messages
      BY DEF Messages
    <3> QED
      BY <2>1, <2>6, <3>1, AppendProperties, LenProperties
         DEF CallInv, ServerCall, ServerSend, TypeOK, ReadTypes
  <2> QED
    BY <1>3, <2>2, <2>4, <2>5, <2>6 DEF Server
<1> QED
  BY <1>1, <1>2, <1>3 DEF Next

\* Outside sendMessage nobody enters or leaves the writing states.
LEMMA OthersWrite ==
  ASSUME TypeOK, CallInv,
         \/ \E c \in Calls : Request(c)
         \/ \E s \in ServerCalls : HandlerReturns(s)
         \/ Start \/ readLoop \/ Stop \/ ConnectionLost \/ Monitor \/ Server
         \/ UNCHANGED vars
  PROVE  /\ \A g \in Senders : pc'[g] = pc[g]
              \/ {pc[g], pc'[g]} \cap {"header", "body"} = {}
         /\ writer' = writer
         /\ replyTo' = replyTo \/ pc'[Reader] # "body"
<1> USE DEF TypeOK, PcType, Goto, sendVars
<1>1. ASSUME NEW c \in Calls, Request(c)
      PROVE  /\ UNCHANGED <<writer, replyTo>>
             /\ \A g \in Senders : pc'[g] = pc[g]
                  \/ {pc[g], pc'[g]} \cap {"header", "body"} = {}
  BY <1>1 DEF Request, RequestRegister, RequestCheckProcess, Finish,
       RequestMarshalFails, RequestResponse, RequestProcessDone, RequestStopped,
       RequestCleanup
<1>2. ASSUME NEW s \in ServerCalls, HandlerReturns(s)
      PROVE  /\ UNCHANGED <<writer, replyTo>>
             /\ \A g \in Senders : pc'[g] = pc[g]
                  \/ {pc[g], pc'[g]} \cap {"header", "body"} = {}
  BY <1>2 DEF HandlerReturns
<1>3. CASE Start \/ Stop \/ ConnectionLost \/ Monitor \/ Server \/ UNCHANGED vars
  <2>1. UNCHANGED <<writer, replyTo>>
    BY <1>3, OtherFrame, ServerFrame DEF vars
  <2>2. pc' = pc \/ Start
    BY <1>3, ServerFrame DEF vars, Stop, StopCheck, StopStore, StopCloseChan,
       StopCloseStdout, StopWait, ConnectionLost, Monitor, MonitorWait,
       MonitorCloseDone, SetProcessDoneCopy
  <2> QED
    BY <2>1, <2>2 DEF Start
<1>4. CASE readLoop
  <2>1. pc[Reader] \notin {"header", "body"} /\ pc'[Reader] \notin {"header", "body"}
    <3>1. ReadCall => Head(wireIn).call \in ServerCalls
      BY Taken, ElementOfSeq DEF ReadCall, Messages, NoiseKinds, ReadTypes
    <3>2. ReadNoise => pc'[Reader] \in {"notify", "loop", "defer"}
      <4>1. ReadNoise => Head(wireIn).kind \in {"notification", "undecodable", "badframe"}
        BY DEF ReadNoise, NoiseKinds
      <4>2. \A l : Goto(Reader, l) => pc'[Reader] = l
        OBVIOUS
      <4> QED
        BY <4>1, <4>2, Zenon DEF ReadNoise
    <3>3. ReadNoise => pc[Reader] = "read"
      BY DEF ReadNoise
    <3> QED
      BY <1>4, <3>1, <3>2, <3>3 DEF readLoop, ReadLoopCheck, ReadResponse, ReadCall,
         NotificationReturns, ReadError, ReadLoopDefer, CallOnClose
  <2>2. \A s \in ServerCalls : \/ pc'[s] = pc[s]
                               \/ pc[s] = "unborn" /\ pc'[s] = "handling"
    <3>1. CASE ReadCall
      BY <3>1, Taken DEF ReadCall, CallInv
    <3>2. ReadNoise => \E l : Goto(Reader, l)
      BY Zenon DEF ReadNoise
    <3> QED
      BY <1>4, <3>1, <3>2 DEF readLoop, ReadLoopCheck, ReadResponse,
         NotificationReturns, ReadError, ReadLoopDefer, CallOnClose
  <2> QED
    BY <1>4, <2>1, <2>2, ReadMoves, ReadFrame
<1> QED
  BY <1>1, <1>2, <1>3, <1>4

\* The writer is held by exactly the goroutine that is writing.
LEMMA WriterStep ==
  ASSUME TypeOK, CallInv, WriterInv, [Next]_vars
  PROVE  WriterInv'
<1>1. ASSUME NEW g \in Senders, sendMessage(g)
      PROVE  WriterInv'
  BY <1>1, SendMoves, ZenonT(60) DEF WriterInv
<1>2. CASE \/ \E c \in Calls : Request(c)
           \/ \E s \in ServerCalls : HandlerReturns(s)
           \/ Start \/ readLoop \/ Stop \/ ConnectionLost \/ Monitor \/ Server
           \/ UNCHANGED vars
  <2>1. /\ writer' = writer
        /\ \A g \in Senders : pc'[g] = pc[g]
             \/ {pc[g], pc'[g]} \cap {"header", "body"} = {}
    BY <1>2, OthersWrite
  <2>2. \A g \in Senders : pc'[g] \in {"header", "body"} <=> pc[g] \in {"header", "body"}
    BY <2>1
  <2> QED
    BY <2>1, <2>2 DEF WriterInv
<1> QED
  BY <1>1, <1>2 DEF Next

\* The stream never comes back: neither the peer nor a closed connection.
LEMMA StreamOnlyLost ==
  ASSUME TypeOK, [Next]_vars
  PROVE  (connUp' => connUp) /\ (LocallyClosed => LocallyClosed')
<1>1. ASSUME \/ \E c \in Calls : Request(c)
             \/ \E g \in Senders : sendMessage(g)
             \/ \E s \in ServerCalls : HandlerReturns(s)
             \/ Start \/ readLoop \/ Server \/ UNCHANGED vars
      PROVE  connUp' = connUp /\ stdoutOpen' = stdoutOpen
  BY <1>1, RequestFrame, SendFrame, ReadFrame, ServerFrame
     DEF HandlerReturns, Start, vars, stopVars, exitVars
<1>2. ASSUME Stop
      PROVE  connUp' = connUp /\ (stdoutOpen' = stdoutOpen \/ stdoutOpen' = FALSE)
  BY <1>2 DEF Stop, StopCheck, StopStore, StopCloseChan, StopCloseStdout,
     StopWait, exitVars
<1>3. ASSUME ConnectionLost \/ Monitor
      PROVE  (connUp' = connUp \/ connUp' = FALSE) /\ stdoutOpen' = stdoutOpen
  BY <1>3 DEF ConnectionLost, Monitor, MonitorWait, MonitorCloseDone,
     SetProcessDoneCopy, stopVars
<1>4. /\ connUp' = connUp \/ connUp' = FALSE
      /\ stdoutOpen' = stdoutOpen \/ stdoutOpen' = FALSE
  BY <1>1, <1>2, <1>3, Zenon DEF Next
<1> QED
  BY <1>4 DEF LocallyClosed

\* A header may follow whole frames.
LEMMA WholeThenHeader ==
  ASSUME NEW w \in Seq(Halves), Whole(w), Len(w) % 2 = 0,
         NEW h \in Halves, h.half = "header"
  PROVE  Whole(Append(w, h))
<1> DEFINE n == Len(w)
           v == Append(w, h)
<1>1. /\ n \in Nat /\ Len(v) = n + 1 /\ v[n + 1] = h
      /\ \A i \in 1..n : v[i] = w[i]
  BY AppendProperties, LenProperties
<1>2. ASSUME NEW i \in 1..n
      PROVE  IF i % 2 = 1 THEN v[i].half = "header"
                          ELSE v[i].half = "body" /\ v[i].of = v[i-1].of
  <2>1. i % 2 # 1 => i - 1 \in 1..n
    BY <1>1
  <2> QED
    BY <1>1, <2>1 DEF Whole
<1>3. (n + 1) % 2 = 1
  BY <1>1
<1>4. \A i \in 1..Len(v) : i \in 1..n \/ i = n + 1
  BY <1>1
<1> QED
  BY <1>1, <1>2, <1>3, <1>4 DEF Whole

\* The body of an open header closes its frame.
LEMMA WholeThenBody ==
  ASSUME NEW w \in Seq(Halves), Whole(w), Len(w) % 2 = 1,
         NEW b \in Halves, b.half = "body", b.of = w[Len(w)].of
  PROVE  Whole(Append(w, b))
<1> DEFINE n == Len(w)
           v == Append(w, b)
<1>1. /\ n \in Nat /\ Len(v) = n + 1 /\ v[n + 1] = b
      /\ \A i \in 1..n : v[i] = w[i]
  BY AppendProperties, LenProperties
<1>2. ASSUME NEW i \in 1..n
      PROVE  IF i % 2 = 1 THEN v[i].half = "header"
                          ELSE v[i].half = "body" /\ v[i].of = v[i-1].of
  <2>1. i % 2 # 1 => i - 1 \in 1..n
    BY <1>1
  <2> QED
    BY <1>1, <2>1 DEF Whole
<1>3. (n + 1) % 2 # 1 /\ n \in 1..n /\ (n + 1) - 1 = n
  BY <1>1
<1>4. \A i \in 1..Len(v) : i \in 1..n \/ i = n + 1
  BY <1>1
<1> QED
  BY <1>1, <1>2, <1>3, <1>4, SMTT(60) DEF Whole

\* What remains when a frame is taken from the front.
LEMMA WithoutFrame ==
  ASSUME NEW w \in Seq(Halves), Len(w) >= 2
  PROVE  LET v == SubSeq(w, 3, Len(w))
         IN  Len(v) = Len(w) - 2 /\ \A i \in 1..(Len(w) - 2) : v[i] = w[i + 2]
<1> DEFINE n == Len(w)
           v == SubSeq(w, 3, n)
<1>1. n \in Nat /\ \A i \in 3..n : w[i] \in Halves
  BY LenProperties, ElementOfSeq
<1>2. /\ Len(v) = IF 3 <= n THEN n - 3 + 1 ELSE 0
      /\ \A i \in 1..(n - 3 + 1) : v[i] = w[3 + i - 1]
  BY <1>1, SubSeqProperties
<1>3. n - 3 + 1 = n - 2 /\ \A i \in 1..(n - 2) : 3 + i - 1 = i + 2
  BY <1>1
<1> QED
  BY <1>1, <1>2, <1>3

\* Taking a whole frame from the front leaves whole frames.
LEMMA WholeTail ==
  ASSUME NEW w \in Seq(Halves), Whole(w), Len(w) >= 2
  PROVE  LET v == SubSeq(w, 3, Len(w))
         IN  /\ Whole(v) /\ Len(v) = Len(w) - 2
             /\ Len(w) % 2 = 1 => v[Len(v)] = w[Len(w)]
<1> DEFINE n == Len(w)
           v == SubSeq(w, 3, n)
<1>1. n \in Nat /\ \A i \in 3..n : w[i] \in Halves
  BY LenProperties, ElementOfSeq
<1>2. Len(v) = n - 2 /\ \A i \in 1..(n - 2) : v[i] = w[i + 2]
  BY WithoutFrame
<1>3. ASSUME NEW i \in 1..(n - 2)
      PROVE  IF i % 2 = 1 THEN v[i].half = "header"
                          ELSE v[i].half = "body" /\ v[i].of = v[i-1].of
  <2>1. (i + 2) % 2 = i % 2 /\ i + 2 \in 1..n
    BY <1>1
  <2>2. i % 2 # 1 => i - 1 \in 1..(n - 2) /\ (i - 1) + 2 = (i + 2) - 1
    BY <1>1
  <2> QED
    BY <1>2, <2>1, <2>2 DEF Whole
<1>4. Whole(v)
  BY <1>2, <1>3 DEF Whole
<1>5. n % 2 = 1 => v[n - 2] = w[n]
  <2>1. n % 2 = 1 => n - 2 \in 1..(n - 2) /\ (n - 2) + 2 = n
    BY <1>1
  <2> QED
    BY <1>2, <2>1
<1> QED
  BY <1>2, <1>4, <1>5

\* Every step keeps the stream a sequence of whole frames and at most one open
\* header.
LEMMA FrameStep ==
  ASSUME TypeOK, CallInv, WriterInv, FrameInv, [Next]_vars
  PROVE  FrameInv'
<1>1. /\ wireOut \in Seq(Halves) /\ Len(wireOut) \in Nat
      /\ \A i \in 1..Len(wireOut) : wireOut[i] \in Halves
  BY LenProperties, ElementOfSeq DEF TypeOK, SendTypes
<1>2. ASSUME NEW g \in Senders, sendMessage(g)
      PROVE  FrameInv'
  <2>1. connUp' = connUp /\ (LocallyClosed' <=> LocallyClosed)
    BY <1>2, SendFrame DEF exitVars, stopVars, LocallyClosed
  <2>2. \A h \in Senders : h # g => pc'[h] = pc[h]
    BY <1>2, SendMoves
  <2>3. ASSUME connUp, ~LocallyClosed, pc[g] = "header"
        PROVE  FrameInv'
    <3>1. writer = g /\ \A h \in Senders : pc[h] # "body"
      BY <2>3 DEF WriterInv
    <3>2. Len(wireOut) % 2 # 1
      BY <2>3, <3>1 DEF FrameInv
    <3>3. [half |-> "header", of |-> Subject(g)] \in Halves
      BY DEF Halves, Subject, TypeOK, SendTypes
    <3>4. /\ wireOut' = Append(wireOut, [half |-> "header", of |-> Subject(g)])
          /\ writer' = g /\ replyTo' = replyTo /\ pc'[g] = "body"
      BY <1>2, <2>3, <3>1, SendMoves
    <3>5. /\ Len(wireOut') = Len(wireOut) + 1
          /\ \A i \in 1..Len(wireOut) : wireOut'[i] = wireOut[i]
          /\ wireOut'[Len(wireOut) + 1] = [half |-> "header", of |-> Subject(g)]
      BY <1>1, <3>3, <3>4, AppendProperties
    <3>6. FramesWhole'
      BY <1>1, <2>1, <2>3, <3>2, <3>3, <3>4, WholeThenHeader DEF FrameInv, FramesWhole
    <3>7. \A h \in Senders : pc'[h] = "body" => h = g
      BY <2>2, <3>1
    <3> QED
      BY <1>1, <3>2, <3>4, <3>5, <3>6, <3>7, SMTT(60) DEF FrameInv, Subject
  <2>4. ASSUME connUp, ~LocallyClosed, pc[g] = "body"
        PROVE  FrameInv'
    <3>1. /\ writer = g /\ pc'[g] # "body"
          /\ wireOut' = Append(wireOut, [half |-> "body", of |-> Subject(g)])
      BY <1>2, <2>4, SendMoves DEF WriterInv
    <3>2. /\ Len(wireOut) % 2 = 1
          /\ wireOut[Len(wireOut)] = [half |-> "header", of |-> Subject(g)]
      BY <2>4 DEF FrameInv
    <3>3. [half |-> "body", of |-> Subject(g)] \in Halves
      BY DEF Halves, Subject, TypeOK, SendTypes
    <3>4. /\ Len(wireOut') = Len(wireOut) + 1
          /\ \A i \in 1..Len(wireOut) : wireOut'[i] = wireOut[i]
          /\ wireOut'[Len(wireOut) + 1] = [half |-> "body", of |-> Subject(g)]
      BY <1>1, <3>1, <3>3, AppendProperties
    <3>5. FramesWhole'
      BY <1>1, <2>1, <2>4, <3>1, <3>2, <3>3, WholeThenBody DEF FrameInv, FramesWhole
    <3>6. \A h \in Senders : pc'[h] # "body"
      BY <2>2, <3>1 DEF WriterInv
    <3> QED
      BY <1>1, <3>2, <3>4, <3>5, <3>6 DEF FrameInv
  <2>5. ASSUME connUp, ~LocallyClosed, pc[g] = "acquire"
        PROVE  FrameInv'
    <3>1. wireOut' = wireOut /\ pc'[g] = "header" /\ writer = None
      BY <1>2, <2>5, SendMoves
    <3>2. \A h \in Senders : pc[h] # "body" /\ pc'[h] # "body"
      BY <2>2, <3>1 DEF WriterInv
    <3> QED
      BY <2>5, <3>1, <3>2 DEF FrameInv, FramesWhole
  <2>6. CASE ~connUp
    BY <2>1, <2>6 DEF FrameInv, FramesWhole
  <2>7. CASE LocallyClosed
    <3>1. wireOut' = wireOut
      BY <1>2, <2>7, SendMoves
    <3> QED
      BY <2>1, <2>7, <3>1 DEF FrameInv, FramesWhole
  <2> QED
    BY <1>2, <2>3, <2>4, <2>5, <2>6, <2>7, SendMoves
<1>3. CASE Server
  <2>1. UNCHANGED <<pc, writer, replyTo, connUp, stdoutOpen>>
    BY <1>3, ServerFrame DEF stopVars, exitVars
  <2>2. CASE ServerReceive
    <3>1. Len(wireOut) >= 2 /\ wireOut' = SubSeq(wireOut, 3, Len(wireOut))
      BY <2>2 DEF ServerReceive
    <3>2. ASSUME connUp
          PROVE  /\ Whole(wireOut') /\ Len(wireOut') = Len(wireOut) - 2
                 /\ Len(wireOut) % 2 = 1
                      => wireOut'[Len(wireOut')] = wireOut[Len(wireOut)]
      BY <1>1, <3>1, <3>2, WholeTail DEF FrameInv, FramesWhole
    <3>3. connUp => Len(wireOut') % 2 = Len(wireOut) % 2
      <4>1. \A n \in Nat : n >= 2 => (n - 2) % 2 = n % 2
        OBVIOUS
      <4> QED
        BY <1>1, <3>1, <3>2, <4>1
    <3> QED
      BY <2>1, <3>2, <3>3 DEF FrameInv, FramesWhole, LocallyClosed, Subject
  <2>3. CASE wireOut' = wireOut
    BY <2>1, <2>3 DEF FrameInv, FramesWhole, LocallyClosed, Subject
  <2> QED
    BY <1>3, <2>2, <2>3 DEF Server, ServerRespond, ServerCall, ServerNoise, sendVars
<1>4. CASE \/ \E c \in Calls : Request(c)
           \/ \E s \in ServerCalls : HandlerReturns(s)
           \/ Start \/ readLoop \/ Stop \/ ConnectionLost \/ Monitor
           \/ UNCHANGED vars
  <2>1. wireOut' = wireOut
    BY <1>4, RequestFrame, OtherFrame, ReadFrame DEF vars, sendVars
  <2>2. (connUp' => connUp) /\ (LocallyClosed => LocallyClosed')
    BY StreamOnlyLost
  <2>3. FramesWhole'
    BY <2>1, <2>2 DEF FrameInv, FramesWhole
  <2>4. /\ writer' = writer /\ (replyTo' = replyTo \/ pc'[Reader] # "body")
        /\ \A g \in Senders : pc'[g] = "body" <=> pc[g] = "body"
    BY <1>4, OthersWrite
  <2>5. \A g \in Senders : pc'[g] = "body" => Subject(g)' = Subject(g)
    BY <2>4 DEF Subject
  <2>6. writer # None => writer \in Senders
    BY DEF TypeOK, SendTypes
  <2> QED
    BY <2>1, <2>2, <2>3, <2>4, <2>5, <2>6 DEF FrameInv
<1> QED
  BY <1>2, <1>3, <1>4 DEF Next

\* The two writes of a frame are never separated by another goroutine's, for
\* every number of goroutines that share the writer.
THEOREM FramesNeverInterleave == Spec => []FramesWhole
<1>1. Init => CallInv /\ WriterInv /\ FrameInv
  <2> SUFFICES ASSUME Init PROVE CallInv /\ WriterInv /\ FrameInv
    OBVIOUS
  <2>1. \A g \in Senders : pc[g] \notin {"header", "body"}
    BY DEF Init
  <2>2. \A s \in ServerCalls : pc[s] = "unborn"
    BY DEF Init
  <2>3. Len(wireOut) = 0 /\ Len(wireIn) = 0
    BY DEF Init
  <2>4. writer = None
    BY DEF Init
  <2> QED
    BY <2>1, <2>2, <2>3, <2>4 DEF CallInv, WriterInv, FrameInv, FramesWhole, Whole
<1>2. FrameInv => FramesWhole
  BY DEF FrameInv
<1> QED
  BY <1>1, <1>2, TypeCorrect, CallStep, WriterStep, FrameStep, PTL DEF Spec

----------------------------------------------------------------------------
(* The meaning of onClose *)

\* Requests, replies and handlers do not move the loop, except when it replies.
LEMMA LoopStays ==
  ASSUME TypeOK,
         \/ \E c \in Calls : Request(c)
         \/ \E s \in ServerCalls : HandlerReturns(s)
         \/ \E g \in Senders : sendMessage(g)
  PROVE  \/ pc'[Reader] = pc[Reader]
         \/ pc[Reader] \in {"acquire", "header", "body"}
            /\ pc'[Reader] \in {"header", "body", "loop"}
BY ZenonT(60) DEF Request, RequestRegister, RequestCheckProcess, RequestMarshalFails,
       RequestResponse, RequestProcessDone, RequestStopped, RequestCleanup,
       HandlerReturns, sendMessage, SendAcquire, WriteHeader, WriteBody,
       WriteFails, AfterSend, Finish, Goto, TypeOK, PcType

\* The loop's own moves: where they lead, and from what.
LEMMA LoopMoves ==
  ASSUME TypeOK, readLoop
  PROVE  /\ pc[Reader] # "start" /\ pc'[Reader] # "start"
         /\ pc'[Reader] = "defer" =>
              \/ ~running \/ ~stdoutOpen \/ ~connUp
              \/ wireIn # <<>> /\ Head(wireIn).kind = "badframe"
         /\ pc'[Reader] = "onclose" => pc[Reader] = "defer" /\ running
         /\ onCloseCalled' = onCloseCalled \/ pc[Reader] = "onclose"
<1> USE DEF Goto, TypeOK, PcType, readVars
<1>1. CASE ReadNoise
  <2>1. Head(wireIn).kind \in {"notification", "undecodable", "badframe"}
    BY <1>1 DEF ReadNoise, NoiseKinds
  <2>2. \/ Head(wireIn).kind = "badframe" /\ Goto(Reader, "defer")
        \/ Goto(Reader, "notify") \/ Goto(Reader, "loop")
    BY <1>1, <2>1, Zenon DEF ReadNoise
  <2>3. UNCHANGED onCloseCalled /\ wireIn # <<>> /\ pc[Reader] = "read"
    BY <1>1 DEF ReadNoise
  <2> QED
    BY <2>2, <2>3
<1>2. CASE ReadCall
  <2>1. Head(wireIn).call \in ServerCalls
    BY <1>2, Taken, ElementOfSeq DEF ReadCall, Messages, NoiseKinds, ReadTypes
  <2> QED
    BY <1>2, <2>1 DEF ReadCall
<1>3. CASE ReadLoopCheck \/ ReadResponse \/ NotificationReturns
  BY <1>3 DEF ReadLoopCheck, ReadResponse, NotificationReturns
<1>4. CASE ReadError \/ ReadLoopDefer \/ CallOnClose
  BY <1>4 DEF ReadError, ReadLoopDefer, CallOnClose
<1> QED
  BY <1>1, <1>2, <1>3, <1>4 DEF readLoop

\* Every step keeps the order of Stop visible to the loop.
LEMMA CloseStep ==
  ASSUME TypeOK, CloseInv, [Next]_vars
  PROVE  CloseInv'
<1> USE DEF CloseInv, OnCloseOnlyIfLost
<1>1. CASE \/ \E c \in Calls : Request(c)
           \/ \E s \in ServerCalls : HandlerReturns(s)
           \/ \E g \in Senders : sendMessage(g)
  <2>1. UNCHANGED <<readVars, stopVars, connUp, noise>>
    BY <1>1, RequestFrame, SendFrame, OtherFrame
       DEF exitVars, serverVars, HandlerReturns
  <2> QED
    BY <1>1, <2>1, LoopStays DEF readVars, stopVars
<1>2. CASE readLoop
  <2>1. UNCHANGED <<running, stdoutOpen, stopPc, connUp, noise>>
    BY <1>2, ReadFrame DEF stopVars, exitVars, serverVars
  <2>2. \A i \in 1..Len(wireIn') : \E j \in 1..Len(wireIn) : wireIn'[i] = wireIn[j]
    BY <1>2, ReadWire, WireShrinks
  <2>3. wireIn # <<>> /\ Head(wireIn).kind = "badframe" => noise["badframe"] > 0
    BY Taken
  <2> QED
    BY <1>2, <2>1, <2>2, <2>3, LoopMoves
<1>3. CASE Start
  BY <1>3 DEF Start, Goto, TypeOK, PcType, readVars, exitVars, serverVars
<1>4. CASE Stop
  <2>1. UNCHANGED <<pc, readVars, connUp, noise>>
    BY <1>4, OtherFrame DEF Stop, StopCheck, StopStore, StopCloseChan,
       StopCloseStdout, StopWait, exitVars, serverVars
  <2> QED
    BY <1>4, <2>1 DEF Stop, StopCheck, StopStore, StopCloseChan,
       StopCloseStdout, StopWait, StopStep, readVars
<1>5. CASE ConnectionLost \/ Monitor
  <2>1. UNCHANGED <<pc, readVars, stopVars, noise>> /\ (connUp' => connUp)
    BY <1>5, OtherFrame, StreamOnlyLost
       DEF ConnectionLost, Monitor, MonitorWait, MonitorCloseDone,
           SetProcessDoneCopy, serverVars, Next
  <2> QED
    BY <2>1 DEF readVars, stopVars
<1>6. CASE Server
  <2>1. UNCHANGED <<pc, onCloseCalled, running, stdoutOpen, stopPc, connUp>>
    BY <1>6, ServerFrame DEF stopVars, exitVars
  <2>2. noise["badframe"] \in Nat
    BY DEF TypeOK, ServerTypes, NoiseKinds
  <2>3. /\ noise'["badframe"] \in Nat /\ noise'["badframe"] >= noise["badframe"]
        /\ \A i \in 1..Len(wireIn') :
             wireIn'[i].kind = "badframe" => noise'["badframe"] > 0
    <3>1. CASE ServerReceive
      BY <2>2, <3>1 DEF ServerReceive, readVars
    <3>2. ASSUME NEW c \in Calls, NEW ok \in BOOLEAN, ServerRespond(c, ok)
          PROVE  <2>3
      BY <2>2, <3>2, WireGrows DEF ServerRespond, Messages, Responses
    <3>3. ASSUME NEW s \in ServerCalls, ServerCall(s)
          PROVE  <2>3
      BY <2>2, <3>3, WireGrows DEF ServerCall, Messages
    <3>4. ASSUME NEW k \in NoiseKinds, ServerNoise(k)
          PROVE  <2>3
      <4>1. /\ noise' = [noise EXCEPT ![k] = @ + 1]
            /\ ServerSend([kind |-> k])
            /\ noise \in [NoiseKinds -> Nat]
        BY <3>4 DEF ServerNoise, TypeOK, ServerTypes
      <4>2. /\ noise'["badframe"] \in Nat /\ noise'["badframe"] >= noise["badframe"]
            /\ k = "badframe" => noise'["badframe"] > 0
        <5> HIDE DEF CloseInv
        <5> QED
          BY <4>1 DEF NoiseKinds
      <4>3. [kind |-> k] \in Messages
        BY <3>4 DEF Messages
      <4>4. \A i \in 1..Len(wireIn') :
              wireIn'[i] = [kind |-> k] \/ \E j \in 1..Len(wireIn) : wireIn'[i] = wireIn[j]
        BY <4>1, <4>3, WireGrows
      <4>5. \A j \in 1..Len(wireIn) : wireIn[j].kind = "badframe" => noise["badframe"] > 0
        OBVIOUS
      <4> HIDE DEF CloseInv, OnCloseOnlyIfLost
      <4> QED
        BY <2>2, <4>2, <4>4, <4>5
    <3> QED
      BY <1>6, <3>1, <3>2, <3>3, <3>4 DEF Server
  <2> QED
    BY <2>1, <2>2, <2>3
<1>7. CASE UNCHANGED vars
  BY <1>7 DEF vars, readVars, stopVars, exitVars, serverVars
<1> QED
  BY <1>1, <1>2, <1>3, <1>4, <1>5, <1>6, <1>7 DEF Next

\* The onClose callback means a lost peer or a malformed frame, never Stop.
THEOREM OnCloseMeansLost == Spec => []OnCloseOnlyIfLost
<1>1. Init => CloseInv
  BY DEF Init, CloseInv, OnCloseOnlyIfLost
<1>2. CloseInv => OnCloseOnlyIfLost
  BY DEF CloseInv
<1> QED
  BY <1>1, <1>2, TypeCorrect, CloseStep, PTL DEF Spec
----------------------------------------------------------------------------
(* Quiet after Stop *)

\* stopChan is closed only in the middle of Stop, by a Stop that saw the loop
\* running; when that Stop is over, the loop is over too.
StopInv ==
  /\ pc[Reader] = "start" => ~stopClosed
  /\ stopPc \in {"idle", "store", "closeChan"} => ~stopClosed
  /\ stopPc = "done" /\ stopClosed => pc[Reader] = "exited"

\* A loop that has exited takes no further step and nobody moves it.
LEMMA ExitedStays ==
  ASSUME TypeOK, [Next]_vars, pc[Reader] = "exited"
  PROVE  pc'[Reader] = "exited" /\ ~readLoop /\ ~Start
<1>1. ~readLoop
  BY DEF readLoop, ReadLoopCheck, ReadResponse, ReadCall, ReadNoise,
         NotificationReturns, ReadError, ReadLoopDefer, CallOnClose
<1>2. ~Start
  BY DEF Start
<1>3. CASE Stop \/ ConnectionLost \/ Monitor \/ Server \/ UNCHANGED vars
  <2>1. pc' = pc
    BY <1>3, ServerFrame DEF vars, Stop, StopCheck, StopStore, StopCloseChan,
       StopCloseStdout, StopWait, ConnectionLost, Monitor, MonitorWait,
       MonitorCloseDone, SetProcessDoneCopy
  <2> QED
    BY <1>1, <1>2, <2>1
<1>4. CASE \/ \E c \in Calls : Request(c)
           \/ \E s \in ServerCalls : HandlerReturns(s)
           \/ \E g \in Senders : sendMessage(g)
  BY <1>1, <1>2, <1>4, LoopStays
<1> QED
  BY <1>1, <1>2, <1>3, <1>4 DEF Next

\* Every step keeps a finished Stop and a finished loop together.
LEMMA StopInvStep ==
  ASSUME TypeOK, CloseInv, StopInv, [Next]_vars
  PROVE  StopInv'
<1>1. CASE Stop
  <2>1. pc' = pc
    BY <1>1 DEF Stop, StopCheck, StopStore, StopCloseChan, StopCloseStdout, StopWait
  <2>2. CASE StopCheck \/ StopStore
    BY <2>1, <2>2 DEF StopInv, StopCheck, StopStore, StopStep
  <2>3. CASE StopCloseChan
    BY <2>1, <2>3 DEF StopInv, CloseInv, StopCloseChan, StopStep
  <2>4. CASE StopCloseStdout \/ StopWait
    BY <2>1, <2>4 DEF StopInv, StopCloseStdout, StopWait, StopStep
  <2> QED
    BY <1>1, <2>2, <2>3, <2>4 DEF Stop
<1>2. CASE ~Stop
  <2>1. UNCHANGED <<stopClosed, stopPc>>
    BY <1>2, RequestFrame, SendFrame, ReadFrame, ServerFrame
       DEF Next, HandlerReturns, Start, ConnectionLost, Monitor, MonitorWait,
           MonitorCloseDone, SetProcessDoneCopy, vars, stopVars
  <2>2. pc'[Reader] = "start" => pc[Reader] = "start"
    <3>1. CASE Start
      BY <3>1 DEF Start, Goto, TypeOK, PcType
    <3>2. CASE readLoop
      BY <3>2, LoopMoves
    <3>3. CASE \/ \E c \in Calls : Request(c)
               \/ \E s \in ServerCalls : HandlerReturns(s)
               \/ \E g \in Senders : sendMessage(g)
      BY <3>3, LoopStays
    <3>4. CASE ConnectionLost \/ Monitor \/ Server \/ UNCHANGED vars
      BY <3>4, ServerFrame DEF vars, ConnectionLost, Monitor, MonitorWait,
         MonitorCloseDone, SetProcessDoneCopy
    <3> QED
      BY <1>2, <3>1, <3>2, <3>3, <3>4 DEF Next
  <2> QED
    BY <2>1, <2>2, ExitedStays DEF StopInv
<1> QED
  BY <1>1, <1>2

\* Only the loop delivers an answer; a request may take its own.
LEMMA OnlyLoopDelivers ==
  ASSUME TypeOK, [Next]_vars, ~readLoop
  PROVE  \A c \in Calls : respChan'[c] \in {respChan[c], NoResponse}
<1>1. ASSUME NEW d \in Calls, Request(d)
      PROVE  respChan' \in {respChan, [respChan EXCEPT ![d] = NoResponse]}
  BY <1>1 DEF Request, RequestRegister, RequestCheckProcess, RequestMarshalFails,
     RequestResponse, RequestProcessDone, RequestStopped, RequestCleanup
<1>2. (\E d \in Calls : Request(d)) \/ respChan' = respChan
  BY SendFrame, OtherFrame, ServerFrame DEF Next, vars, callVars
<1> QED
  BY <1>1, <1>2 DEF TypeOK, CallTypes

\* Once a Stop that found the loop running has returned, no onClose callback, no
\* new handler goroutine and no delivered answer follow, for every number of
\* requests and server calls.
THEOREM StopLeavesQuiet == Spec => QuietAfterStop
<1> DEFINE Quiet ==
      stopPc = "done" /\ stopClosed
        => /\ onCloseCalled' = onCloseCalled
           /\ \A s \in ServerCalls : pc[s] = "unborn" => pc'[s] = "unborn"
           /\ \A c \in Calls : respChan'[c] \in {respChan[c], NoResponse}
<1>1. Init => CloseInv /\ StopInv
  BY DEF Init, CloseInv, StopInv, OnCloseOnlyIfLost
<1>2. TypeOK /\ StopInv /\ [Next]_vars => [Quiet]_vars
  <2> SUFFICES ASSUME TypeOK, StopInv, [Next]_vars, stopPc = "done", stopClosed
               PROVE  /\ onCloseCalled' = onCloseCalled
                      /\ \A s \in ServerCalls : pc[s] = "unborn" => pc'[s] = "unborn"
                      /\ \A c \in Calls : respChan'[c] \in {respChan[c], NoResponse}
    OBVIOUS
  <2>1. ~readLoop
    BY ExitedStays DEF StopInv
  <2>2. onCloseCalled' = onCloseCalled
    BY <2>1, RequestFrame, SendFrame, OtherFrame, ServerFrame
       DEF Next, vars, readVars
  <2>3. \A s \in ServerCalls : pc[s] = "unborn" => pc'[s] = "unborn"
    BY <2>1, UnbornStays, ServerFrame DEF Next
  <2> QED
    BY <2>1, <2>2, <2>3, OnlyLoopDelivers
<1>3. TypeOK /\ CloseInv /\ StopInv /\ [Next]_vars => CloseInv' /\ StopInv'
  BY CloseStep, StopInvStep
<1>4. QuietAfterStop <=> [][Quiet]_vars
  BY DEF QuietAfterStop
<1> QED
  BY <1>1, <1>2, <1>3, <1>4, TypeCorrect, PTL DEF Spec
----------------------------------------------------------------------------
(* One reply to each call of the server *)

HeaderOf(s) == [half |-> "header", of |-> s]

\* The call is still on its way to the loop.
OnWire(s) ==
  \E i \in 1..Len(wireIn) : wireIn[i].kind = "call" /\ wireIn[i].call = s

\* The reply to s can still be begun: the call was not made yet, is on its way,
\* or whoever is to answer it has not written the header.
Unanswered(s) ==
  \/ s \notin issued
  \/ OnWire(s)
  \/ pc[s] \in {"handling", "acquire", "header"}
  \/ replyTo = s /\ pc[Reader] \in {"acquire", "header"}

\* No reply to s has been begun.
Fresh(s) ==
  s \notin received /\ \A i \in 1..Len(wireOut) : wireOut[i] # HeaderOf(s)

\* At most one reply to s is on its way or has arrived.
AtMostOne(s) ==
  \A i \in 1..Len(wireOut) : wireOut[i] = HeaderOf(s) =>
    /\ s \notin received
    /\ \A j \in 1..Len(wireOut) : wireOut[j] = HeaderOf(s) => i = j

\* Who answers: a handler of its own, or the loop when there is no handler, and
\* never both.
AnswererInv ==
  /\ \A s \in Unhandled : pc[s] = "unborn"
  /\ \A s \in ServerCalls :
       replyTo = s => s \in Unhandled /\ s \in issued /\ ~OnWire(s)
  /\ pc[Reader] \in {"acquire", "header", "body"} => replyTo # None

ReplyInv ==
  connUp => \A s \in ServerCalls : AtMostOne(s) /\ (Unanswered(s) => Fresh(s))

\* What the loop's steps do to the calls of the server: only ReadCall moves one.
LEMMA ReadServes ==
  ASSUME TypeOK, CallInv, readLoop
  PROVE  /\ issued' = issued
         /\ \A s \in ServerCalls : OnWire(s)' => OnWire(s)
         /\ \/ /\ \A s \in ServerCalls : pc'[s] = pc[s]
               /\ replyTo' = replyTo /\ pc'[Reader] \notin {"acquire", "header", "body"}
            \/ \E s \in ServerCalls :
                 /\ OnWire(s) /\ ~OnWire(s)'
                 /\ \A t \in ServerCalls \ {s} : pc'[t] = pc[t]
                 /\ \/ /\ s \in Unhandled /\ pc'[s] = pc[s]
                       /\ replyTo' = s /\ pc'[Reader] = "acquire"
                    \/ /\ s \notin Unhandled /\ pc'[s] = "handling"
                       /\ replyTo' = replyTo /\ pc'[Reader] = "loop"
<1> USE DEF TypeOK, PcType, Goto
<1>1. issued' = issued
  BY ReadFrame DEF serverVars
<1>2. \A s \in ServerCalls : OnWire(s)' => OnWire(s)
  BY ReadWire, WireShrinks, SMTT(60) DEF OnWire
<1>3. CASE ReadCall
  <2>1. wireIn # <<>> /\ wireIn' = Tail(wireIn) /\ Head(wireIn).kind = "call"
    BY <1>3 DEF ReadCall
  <2>2. PICK s \in ServerCalls : s = Head(wireIn).call
    BY <2>1, Taken, ElementOfSeq DEF Messages, NoiseKinds, ReadTypes
  <2>3. OnWire(s) /\ ~OnWire(s)'
    BY <2>1, <2>2, Taken DEF OnWire, CallInv
  <2>4. \/ /\ s \in Unhandled /\ pc' = [pc EXCEPT ![Reader] = "acquire"]
           /\ replyTo' = s
        \/ /\ s \notin Unhandled /\ replyTo' = replyTo
           /\ pc' = [pc EXCEPT ![Reader] = "loop", ![s] = "handling"]
    BY <1>3, <2>2 DEF ReadCall
  <2> QED
    BY <1>1, <1>2, <2>2, <2>3, <2>4
<1>4. CASE ReadNoise
  <2>1. Head(wireIn).kind \in {"notification", "undecodable", "badframe"}
    BY <1>4 DEF ReadNoise, NoiseKinds
  <2>2. \E l \in {"notify", "loop", "defer"} : Goto(Reader, l)
    BY <1>4, <2>1, Zenon DEF ReadNoise
  <2>3. replyTo' = replyTo
    BY <1>4 DEF ReadNoise, sendVars
  <2> QED
    BY <1>1, <1>2, <2>2, <2>3
<1>5. CASE ~ReadCall /\ ~ReadNoise
  BY <1>1, <1>2, <1>5 DEF readLoop, ReadLoopCheck, ReadResponse, sendVars,
     NotificationReturns, ReadError, ReadLoopDefer, CallOnClose
<1> QED
  BY <1>3, <1>4, <1>5

\* What the server's steps do to its calls: it makes a new one or none.
LEMMA ServerServes ==
  ASSUME TypeOK, Server
  PROVE  /\ pc' = pc /\ replyTo' = replyTo
         /\ \A s \in ServerCalls :
              /\ s \in issued => s \in issued' /\ (OnWire(s)' => OnWire(s))
              /\ s \notin issued' => s \notin issued
<1>1. pc' = pc /\ replyTo' = replyTo
  BY ServerFrame
<1>2. CASE ServerReceive
  BY <1>1, <1>2 DEF ServerReceive, readVars, OnWire
<1>3. ASSUME NEW m \in Messages, ServerSend(m), NEW s \in ServerCalls,
             m.kind # "call" \/ m.call # s
      PROVE  OnWire(s)' => OnWire(s)
  BY <1>3, WireGrows DEF OnWire
<1>4. ASSUME NEW c \in Calls, NEW ok \in BOOLEAN, ServerRespond(c, ok)
      PROVE  issued' = issued /\ \A s \in ServerCalls : OnWire(s)' => OnWire(s)
  BY <1>3, <1>4 DEF ServerRespond, Messages, Responses
<1>5. ASSUME NEW k \in NoiseKinds, ServerNoise(k)
      PROVE  issued' = issued /\ \A s \in ServerCalls : OnWire(s)' => OnWire(s)
  BY <1>3, <1>5 DEF ServerNoise, Messages, NoiseKinds
<1>6. ASSUME NEW t \in ServerCalls, ServerCall(t)
      PROVE  /\ t \notin issued /\ issued' = issued \cup {t}
             /\ \A s \in ServerCalls \ {t} : OnWire(s)' => OnWire(s)
  <2>1. [kind |-> "call", call |-> t] \in Messages
    BY DEF Messages
  <2> QED
    BY <1>3, <1>6, <2>1 DEF ServerCall
<1> QED
  BY <1>1, <1>2, <1>4, <1>5, <1>6 DEF Server, ServerReceive

\* What a step of sendMessage does to the loop's own reply.
LEMMA SendReplies ==
  ASSUME TypeOK, NEW g \in Senders, sendMessage(g)
  PROVE  /\ g # Reader => replyTo' = replyTo
         /\ g = Reader =>
              \/ /\ replyTo' = replyTo
                 /\ \/ pc[g] = "acquire" /\ pc'[g] = "header"
                    \/ pc[g] = "header" /\ pc'[g] = "body"
              \/ pc'[g] = "loop" /\ replyTo' = None
<1> USE DEF Goto, TypeOK, PcType
<1>1. CASE SendAcquire(g) \/ WriteHeader(g)
  BY <1>1 DEF SendAcquire, WriteHeader
<1>2. ASSUME NEW ok \in BOOLEAN, AfterSend(g, ok)
      PROVE  /\ g # Reader => replyTo' = replyTo
             /\ g = Reader => pc'[g] = "loop" /\ replyTo' = None
  BY <1>2 DEF AfterSend
<1>3. CASE WriteBody(g) \/ WriteFails(g)
  BY <1>2, <1>3 DEF WriteBody, WriteFails
<1> QED
  BY <1>1, <1>3 DEF sendMessage

\* The steps of requests and handlers leave the calls of the server as they are,
\* except that a handler goes on to its reply.
LEMMA OthersServe ==
  ASSUME TypeOK,
         \/ \E c \in Calls : Request(c)
         \/ \E s \in ServerCalls : HandlerReturns(s)
         \/ Start \/ Stop \/ ConnectionLost \/ Monitor \/ UNCHANGED vars
  PROVE  /\ UNCHANGED <<wireIn, issued, replyTo, wireOut, received>>
         /\ pc'[Reader] \in {pc[Reader], "loop"}
         /\ \A s \in ServerCalls : \/ pc'[s] = pc[s]
                                   \/ pc[s] = "handling" /\ pc'[s] = "acquire"
<1>1. UNCHANGED <<wireIn, issued, replyTo, wireOut, received>>
  BY RequestFrame, OtherFrame DEF vars, sendVars, readVars, serverVars
<1>2. ASSUME NEW c \in Calls, Request(c)
      PROVE  \A g \in Senders \ Calls : pc'[g] = pc[g]
  BY <1>2 DEF Request, RequestRegister, RequestCheckProcess, Finish, Goto,
       RequestMarshalFails, RequestResponse, RequestProcessDone, RequestStopped,
       RequestCleanup, TypeOK, PcType
<1>3. ASSUME NEW s \in ServerCalls, HandlerReturns(s)
      PROVE  pc[s] = "handling" /\ pc' = [pc EXCEPT ![s] = "acquire"]
  BY <1>3 DEF HandlerReturns, Goto
<1>4. Start => pc' = [pc EXCEPT ![Reader] = "loop"]
  BY DEF Start, Goto
<1>5. Stop \/ ConnectionLost \/ Monitor \/ UNCHANGED vars => pc' = pc
  BY DEF vars, Stop, StopCheck, StopStore, StopCloseChan, StopCloseStdout,
     StopWait, ConnectionLost, Monitor, MonitorWait, MonitorCloseDone,
     SetProcessDoneCopy
<1> QED
  BY <1>1, <1>2, <1>3, <1>4, <1>5 DEF TypeOK, PcType

\* Every step keeps the answerer of a call unique.
LEMMA AnswererStep ==
  ASSUME TypeOK, CallInv, AnswererInv, [Next]_vars
  PROVE  AnswererInv'
<1> USE DEF AnswererInv
<1>1. ASSUME NEW g \in Senders, sendMessage(g)
      PROVE  AnswererInv'
  <2>1. UNCHANGED <<wireIn, issued>> /\ \A s \in ServerCalls : OnWire(s)' <=> OnWire(s)
    BY <1>1, SendFrame DEF readVars, serverVars, OnWire
  <2>2. \A s \in Unhandled : pc'[s] = "unborn"
    BY <1>1, SendMoves
  <2>3. g # Reader => pc'[Reader] = pc[Reader]
    BY <1>1, SendMoves
  <2> QED
    BY <1>1, <2>1, <2>2, <2>3, SendReplies
<1>2. CASE readLoop
  <2>1. CASE /\ \A s \in ServerCalls : pc'[s] = pc[s]
             /\ replyTo' = replyTo /\ pc'[Reader] \notin {"acquire", "header", "body"}
    BY <1>2, <2>1, ReadServes
  <2>2. ASSUME NEW s \in ServerCalls, OnWire(s), ~OnWire(s)',
               \A t \in ServerCalls \ {s} : pc'[t] = pc[t],
               s \in Unhandled, pc'[s] = pc[s], replyTo' = s, pc'[Reader] = "acquire"
        PROVE  AnswererInv'
    <3>1. s \in issued /\ issued' = issued
      BY <1>2, <2>2, ReadServes DEF CallInv, OnWire
    <3> QED
      BY <2>2, <3>1
  <2>3. ASSUME NEW s \in ServerCalls,
               \A t \in ServerCalls \ {s} : pc'[t] = pc[t],
               s \notin Unhandled, replyTo' = replyTo, pc'[Reader] = "loop"
        PROVE  AnswererInv'
    BY <1>2, <2>3, ReadServes
  <2> QED
    BY <1>2, <2>1, <2>2, <2>3, ReadServes
<1>3. CASE Server
  BY <1>3, ServerServes
<1>4. CASE \/ \E c \in Calls : Request(c)
           \/ \E s \in ServerCalls : HandlerReturns(s)
           \/ Start \/ Stop \/ ConnectionLost \/ Monitor \/ UNCHANGED vars
  <2>1. \A s \in ServerCalls : OnWire(s)' <=> OnWire(s)
    BY <1>4, OthersServe DEF OnWire
  <2> QED
    BY <1>4, <2>1, OthersServe
<1> QED
  BY <1>1, <1>2, <1>3, <1>4 DEF Next

\* A call whose reply has been begun stays so.
LEMMA UnansweredShrinks ==
  ASSUME TypeOK, CallInv, AnswererInv, [Next]_vars, NEW s \in ServerCalls,
         Unanswered(s)'
  PROVE  Unanswered(s)
<1>1. ASSUME NEW g \in Senders, sendMessage(g)
      PROVE  Unanswered(s)
  <2>1. UNCHANGED <<wireIn, issued>> /\ (OnWire(s)' <=> OnWire(s))
    BY <1>1, SendFrame DEF readVars, serverVars, OnWire
  <2>2. pc'[s] \in {"handling", "acquire", "header"}
          => pc[s] \in {"handling", "acquire", "header"}
    <3>1. g = s => pc'[s] \in {"header", "body", "done"}
      BY <1>1 DEF sendMessage, SendAcquire, WriteHeader, WriteBody, WriteFails,
         AfterSend, Goto, TypeOK, PcType
    <3> QED
      BY <1>1, <3>1, SendMoves
  <2>3. replyTo' = s /\ pc'[Reader] \in {"acquire", "header"}
          => replyTo = s /\ pc[Reader] \in {"acquire", "header"}
    BY <1>1, SendMoves, SendReplies
  <2> QED
    BY <2>1, <2>2, <2>3 DEF Unanswered
<1>2. CASE readLoop
  BY <1>2, ReadServes DEF Unanswered
<1>3. CASE Server
  BY <1>3, ServerServes DEF Unanswered
<1>4. CASE \/ \E c \in Calls : Request(c)
           \/ \E t \in ServerCalls : HandlerReturns(t)
           \/ Start \/ Stop \/ ConnectionLost \/ Monitor \/ UNCHANGED vars
  <2>1. OnWire(s)' <=> OnWire(s)
    BY <1>4, OthersServe DEF OnWire
  <2> QED
    BY <1>4, <2>1, OthersServe DEF Unanswered
<1> QED
  BY <1>1, <1>2, <1>3, <1>4 DEF Next

\* Writing the header begins a reply that was not begun, whoever writes it.
LEMMA HeaderBegins ==
  ASSUME TypeOK, CallInv, AnswererInv, NEW g \in Senders, sendMessage(g),
         pc[g] = "header", pc'[g] = "body", replyTo' = replyTo,
         NEW s \in ServerCalls, Subject(g) = s
  PROVE  Unanswered(s) /\ ~Unanswered(s)'
<1>1. UNCHANGED <<wireIn, issued>> /\ (OnWire(s)' <=> OnWire(s))
  BY SendFrame DEF readVars, serverVars, OnWire
<1>2. \A h \in Senders : h # g => pc'[h] = pc[h]
  BY SendMoves
<1>3. CASE g = Reader
  <2>1. replyTo = s /\ s \in issued /\ ~OnWire(s) /\ pc[s] = "unborn"
    BY <1>3 DEF Subject, AnswererInv
  <2> QED
    BY <1>1, <1>2, <1>3, <2>1 DEF Unanswered
<1>4. CASE g # Reader
  <2>1. g = s
    BY <1>4 DEF Subject
  <2>2. s \in issued /\ ~OnWire(s)
    BY <2>1 DEF CallInv, OnWire
  <2>3. replyTo # s
    BY <2>1 DEF AnswererInv
  <2> QED
    BY <1>1, <2>1, <2>2, <2>3 DEF Unanswered
<1> QED
  BY <1>3, <1>4

\* Every step keeps replies single and unbegun calls without one.
LEMMA ReplyStep ==
  ASSUME TypeOK, CallInv, AnswererInv, FramesWhole, ReplyInv, [Next]_vars
  PROVE  ReplyInv'
<1> SUFFICES ASSUME connUp', NEW s \in ServerCalls
             PROVE  AtMostOne(s)' /\ (Unanswered(s)' => Fresh(s)')
  BY DEF ReplyInv
<1>1. connUp /\ Whole(wireOut)
  BY StreamOnlyLost DEF FramesWhole
<1>2. AtMostOne(s) /\ (Unanswered(s) => Fresh(s)) /\ (Unanswered(s)' => Unanswered(s))
  BY <1>1, UnansweredShrinks DEF ReplyInv
<1>3. /\ wireOut \in Seq(Halves) /\ Len(wireOut) \in Nat
      /\ \A i \in 1..Len(wireOut) : wireOut[i] \in Halves
  BY LenProperties, ElementOfSeq DEF TypeOK, SendTypes
<1>4. ASSUME NEW g \in Senders, sendMessage(g)
      PROVE  AtMostOne(s)' /\ (Unanswered(s)' => Fresh(s)')
  <2>1. received' = received
    BY <1>4, SendFrame DEF serverVars
  <2>2. CASE wireOut' = wireOut
    BY <1>2, <2>1, <2>2 DEF AtMostOne, Fresh
  <2>3. ASSUME NEW h \in Halves, wireOut' = Append(wireOut, h)
        PROVE  /\ Len(wireOut') = Len(wireOut) + 1
               /\ \A i \in 1..Len(wireOut) : wireOut'[i] = wireOut[i]
               /\ wireOut'[Len(wireOut) + 1] = h
    BY <1>3, <2>3, AppendProperties
  <2>4. ASSUME NEW h \in Halves, wireOut' = Append(wireOut, h), h # HeaderOf(s)
        PROVE  AtMostOne(s)' /\ (Unanswered(s)' => Fresh(s)')
    BY <1>2, <1>3, <2>1, <2>3, <2>4 DEF AtMostOne, Fresh
  <2>5. \A k \in {"header", "body"} : [half |-> k, of |-> Subject(g)] \in Halves
    BY DEF Halves, Subject, TypeOK, SendTypes
  <2>6. CASE wireOut' = Append(wireOut, [half |-> "body", of |-> Subject(g)])
    BY <2>4, <2>5, <2>6 DEF HeaderOf
  <2>7. CASE /\ pc[g] = "header" /\ pc'[g] = "body" /\ replyTo' = replyTo
             /\ wireOut' = Append(wireOut, [half |-> "header", of |-> Subject(g)])
    <3>1. CASE Subject(g) # s
      BY <2>4, <2>5, <2>7, <3>1 DEF HeaderOf
    <3>2. CASE Subject(g) = s
      <4>1. Fresh(s) /\ ~Unanswered(s)'
        BY <1>2, <1>4, <2>7, <3>2, HeaderBegins
      <4>2. AtMostOne(s)'
        BY <1>3, <2>1, <2>3, <2>5, <2>7, <4>1 DEF AtMostOne, Fresh
      <4> QED
        BY <4>1, <4>2
    <3> QED
      BY <3>1, <3>2
  <2> QED
    BY <1>4, <2>2, <2>6, <2>7, SendMoves
<1>5. CASE ServerReceive
  <2> DEFINE n == Len(wireOut)
             v == SubSeq(wireOut, 3, n)
  <2>1. n >= 2 /\ wireOut' = v /\ received' = received \cup {wireOut[2].of}
    BY <1>5 DEF ServerReceive
  <2>2. wireOut[1] = HeaderOf(wireOut[2].of)
    <3>1. 1 \in 1..n /\ 2 \in 1..n /\ 1 % 2 = 1 /\ 2 % 2 # 1 /\ 2 - 1 = 1
      BY <1>3, <2>1
    <3>2. wireOut[1].half = "header" /\ wireOut[2].of = wireOut[1].of
      BY <1>1, <3>1 DEF Whole
    <3> QED
      BY <1>3, <3>1, <3>2 DEF Halves, HeaderOf
  <2>3. Len(v) = n - 2 /\ \A i \in 1..(n - 2) : v[i] = wireOut[i + 2]
    BY <1>3, <2>1, WithoutFrame
  <2>4. \A i \in 1..Len(wireOut') :
          /\ i + 2 \in 1..n /\ i + 2 # 1 /\ wireOut'[i] = wireOut[i + 2]
          /\ \A j \in 1..Len(wireOut') : i + 2 = j + 2 => i = j
    BY <1>3, <2>1, <2>3
  <2>5. 1 \in 1..n
    BY <1>3, <2>1
  <2> HIDE DEF n, v
  <2>6. CASE wireOut[2].of = s
    <3>1. \A i \in 1..n : wireOut[i] = HeaderOf(s) => i = 1
      BY <1>2, <2>2, <2>5, <2>6 DEF AtMostOne, n
    <3>2. \A i \in 1..Len(wireOut') : wireOut'[i] # HeaderOf(s)
      BY <2>4, <3>1
    <3>3. ~Fresh(s)
      BY <2>2, <2>5, <2>6 DEF Fresh, n
    <3> QED
      BY <1>2, <3>2, <3>3 DEF AtMostOne
  <2>7. CASE wireOut[2].of # s
    <3>1. s \in received' <=> s \in received
      BY <2>1, <2>7
    <3>2. AtMostOne(s)'
      BY <1>2, <2>4, <3>1 DEF AtMostOne, n
    <3>3. Fresh(s) => Fresh(s)'
      BY <2>4, <3>1 DEF Fresh, n
    <3> QED
      BY <1>2, <3>2, <3>3
  <2> QED
    BY <2>6, <2>7
<1>6. CASE Server /\ ~ServerReceive
  BY <1>2, <1>6 DEF Server, ServerRespond, ServerCall, ServerNoise, sendVars,
     AtMostOne, Fresh
<1>7. CASE readLoop
  BY <1>2, <1>7, ReadFrame DEF serverVars, AtMostOne, Fresh
<1>8. CASE \/ \E c \in Calls : Request(c)
           \/ \E t \in ServerCalls : HandlerReturns(t)
           \/ Start \/ Stop \/ ConnectionLost \/ Monitor \/ UNCHANGED vars
  BY <1>2, <1>8, OthersServe DEF AtMostOne, Fresh
<1> QED
  BY <1>4, <1>5, <1>6, <1>7, <1>8 DEF Next, Server

\* At most one reply to each call of the server, and none to a call it did not
\* make, for every number of calls and of requests that share the writer.
THEOREM RepliesOnce == Spec => []ReplyOnce
<1>1. Init => CallInv /\ AnswererInv /\ ReplyInv
  <2> SUFFICES ASSUME Init PROVE CallInv /\ AnswererInv /\ ReplyInv
    OBVIOUS
  <2>1. Len(wireOut) = 0 /\ Len(wireIn) = 0 /\ received = {} /\ replyTo = None
    BY DEF Init
  <2>2. (\A s \in ServerCalls : pc[s] = "unborn") /\ pc[Reader] = "start"
    BY DEF Init
  <2> QED
    BY <2>1, <2>2 DEF CallInv, AnswererInv, ReplyInv, AtMostOne, Fresh
<1>2. TypeOK /\ ReplyInv => ReplyOnce
  <2> SUFFICES ASSUME TypeOK, ReplyInv, connUp, NEW s \in ServerCalls
               PROVE  RepliesTo(s) + (IF s \in received THEN 1 ELSE 0)
                        <= (IF s \in issued THEN 1 ELSE 0)
    BY DEF ReplyOnce
  <2> DEFINE H == {i \in 1..Len(wireOut) : wireOut[i] = HeaderOf(s)}
  <2>1. RepliesTo(s) = Cardinality(H)
    BY DEF RepliesTo, HeaderOf
  <2>2. AtMostOne(s) /\ (s \notin issued => Fresh(s))
    BY DEF ReplyInv, Unanswered
  <2>3. CASE H = {}
    <3>1. RepliesTo(s) = 0
      BY <2>1, <2>3, FS_EmptySet
    <3>2. s \in received => s \in issued
      BY <2>2 DEF Fresh
    <3> HIDE DEF H
    <3> QED
      BY <3>1, <3>2
  <2>4. CASE H # {}
    <3>1. PICK i \in H : TRUE
      BY <2>4
    <3>2. H = {i} /\ s \notin received
      BY <2>2, <3>1 DEF AtMostOne
    <3>3. s \in issued
      BY <2>2, <3>1 DEF Fresh
    <3>4. Cardinality(H) = 1
      BY <3>2, FS_Singleton
    <3> QED
      BY <2>1, <3>2, <3>3, <3>4
  <2> QED
    BY <2>3, <2>4
<1> QED
  BY <1>1, <1>2, TypeCorrect, FramesNeverInterleave, CallStep, AnswererStep,
     ReplyStep, PTL DEF Spec


----------------------------------------------------------------------------
(* The promise of JsonRpcSpec *)

\* The frame of c was written whole, and c did not end as a request that was not sent.
Sent(c) ==
  /\ pc[c] \in {"waiting", "cleanup", "returned"}
  /\ outcome[c] \notin {"marshalError", "sendError"}

\* What is written whole, or arrived, is a request that was sent or the reply to a call.
Written(m) == m \in issued \/ (m \in Calls /\ Sent(m))

SentInv ==
  /\ \A m \in received : Written(m)
  /\ \A i \in 1..Len(wireOut) : wireOut[i].half = "body" => Written(wireOut[i].of)

\* Every answer on its way or in a channel was given.
Given(m, answers) == m.kind = "response" => m.resp.id \in Calls /\ answers[m.resp.id] > 0

GivenInv ==
  /\ \A i \in 1..Len(wireIn) : Given(wireIn[i], answered)
  /\ \A c \in Calls : respChan[c] # NoResponse => answered[c] > 0

\* A process that is known to have exited is gone, and stdout is closed by Stop only.
EndInv ==
  /\ exitErr \/ processDone => ~connUp
  /\ stopPc \in {"closeStdout", "wait"} \/ ~stdoutOpen => stopClosed


\* Only its own steps move a request.
LEMMA CallsStay ==
  ASSUME TypeOK, [Next]_vars, NEW c \in Calls, ~Request(c), ~sendMessage(c)
  PROVE  pc'[c] = pc[c] /\ outcome'[c] = outcome[c]
<1>1. ASSUME NEW d \in Calls, Request(d), d # c
      PROVE  pc'[c] = pc[c] /\ outcome'[c] = outcome[c]
  BY <1>1 DEF Request, RequestRegister, RequestCheckProcess, RequestMarshalFails,
     RequestResponse, RequestProcessDone, RequestStopped, RequestCleanup, Finish, Goto,
     TypeOK, PcType, CallTypes
<1>2. ASSUME NEW g \in Senders, sendMessage(g), g # c
      PROVE  pc'[c] = pc[c] /\ outcome'[c] = outcome[c]
  BY <1>2 DEF sendMessage, SendAcquire, WriteHeader, WriteBody, WriteFails, AfterSend,
     Finish, Goto, TypeOK, PcType, CallTypes, callVars
<1>3. CASE readLoop
  BY <1>3, ReadMoves, ReadFrame
<1>4. CASE \/ \E s \in ServerCalls : HandlerReturns(s)
           \/ Start \/ Stop \/ ConnectionLost \/ Monitor
  <2>1. pc'[c] = pc[c]
    BY <1>4 DEF HandlerReturns, Start, Stop, StopCheck, StopStore, StopCloseChan,
       StopCloseStdout, StopWait, ConnectionLost, Monitor, MonitorWait, MonitorCloseDone,
       SetProcessDoneCopy, Goto, TypeOK, PcType
  <2> QED
    BY <1>4, <2>1, OtherFrame DEF callVars
<1>5. CASE Server \/ UNCHANGED vars
  BY <1>5, ServerFrame DEF vars, callVars
<1> QED
  BY <1>1, <1>2, <1>3, <1>4, <1>5 DEF Next

\* A request that was sent stays one.
LEMMA SentStays ==
  ASSUME TypeOK, [Next]_vars, NEW c \in Calls, Sent(c)
  PROVE  Sent(c)'
<1>1. CASE Request(c)
  BY <1>1 DEF Sent, Request, RequestRegister, RequestCheckProcess, RequestMarshalFails,
     RequestResponse, RequestProcessDone, RequestStopped, RequestCleanup, Finish, Goto,
     ProcessOutcome, TypeOK, PcType, CallTypes
<1>2. ~sendMessage(c)
  BY DEF Sent, sendMessage, SendAcquire, WriteHeader, WriteBody, WriteFails
<1> QED
  BY <1>1, <1>2, CallsStay DEF Sent

\* So does what was written.
LEMMA WrittenStays ==
  ASSUME TypeOK, [Next]_vars, NEW m, Written(m)
  PROVE  Written(m)'
<1>1. issued \subseteq issued'
  BY RequestFrame, SendFrame, ReadFrame, OtherFrame
     DEF Next, Server, ServerReceive, ServerRespond, ServerCall, ServerNoise, vars, serverVars
<1> QED
  BY <1>1, SentStays DEF Written

\* Every step keeps what was written and what arrived.
LEMMA SentStep ==
  ASSUME TypeOK, AnswerInv, CallInv, AnswererInv, FramesWhole, SentInv, [Next]_vars
  PROVE  SentInv'
<1>1. wireOut \in Seq(Halves) /\ Len(wireOut) \in Nat
  BY LenProperties DEF TypeOK, SendTypes
<1>2. ASSUME NEW g \in Senders, sendMessage(g)
      PROVE  SentInv'
  <2>1. received' = received
    BY <1>2, SendFrame DEF serverVars
  <2>2. ASSUME NEW h \in Halves, wireOut' = Append(wireOut, h),
               h.half = "body" => Written(h.of)'
        PROVE  SentInv'
    BY <1>1, <2>1, <2>2, AppendProperties, WrittenStays DEF SentInv
  <2>3. CASE WriteHeader(g)
    <3>1. [half |-> "header", of |-> Subject(g)] \in Halves
      BY DEF Halves, Subject, TypeOK, SendTypes
    <3> QED
      BY <2>2, <2>3, <3>1 DEF WriteHeader
  <2>4. CASE WriteBody(g)
    <3>1. [half |-> "body", of |-> Subject(g)] \in Halves
      BY DEF Halves, Subject, TypeOK, SendTypes
    <3>2. ASSUME g \in Calls
          PROVE  Written(g)'
      BY <2>4, <3>2 DEF WriteBody, AfterSend, Goto, Written, Sent, AnswerInv, TypeOK, PcType,
         CallTypes
    <3>3. ASSUME g \in ServerCalls
          PROVE  Written(g)
      BY <2>4, <3>3 DEF WriteBody, CallInv, Written
    <3>4. ASSUME g = Reader
          PROVE  Written(replyTo)
      BY <2>4, <3>4 DEF WriteBody, AnswererInv, TypeOK, SendTypes, Written
    <3> QED
      BY <2>2, <2>4, <3>1, <3>2, <3>3, <3>4, WrittenStays DEF WriteBody, Subject
  <2>5. CASE SendAcquire(g) \/ WriteFails(g)
    <3>1. wireOut' = wireOut
      BY <2>5 DEF SendAcquire, WriteFails
    <3> QED
      BY <2>1, <3>1, WrittenStays DEF SentInv
  <2> QED
    BY <1>2, <2>3, <2>4, <2>5 DEF sendMessage
<1>3. CASE ServerReceive
  <2>1. Len(wireOut) >= 2 /\ connUp
    BY <1>3 DEF ServerReceive
  <2>2. wireOut[2].half = "body" /\ 2 \in 1..Len(wireOut)
    BY <1>1, <2>1 DEF FramesWhole, Whole
  <2>3. \A m \in received' : m \in received \/ m = wireOut[2].of
    BY <1>3 DEF ServerReceive
  <2>4. \A i \in 1..Len(wireOut') : \E j \in 1..Len(wireOut) : wireOut'[i] = wireOut[j]
    BY <1>1, <1>3, <2>1, WithoutFrame DEF ServerReceive
  <2> QED
    BY <2>2, <2>3, <2>4, WrittenStays DEF SentInv
<1>4. CASE /\ ~ServerReceive
           /\ \/ \E c \in Calls : Request(c)
              \/ \E s \in ServerCalls : HandlerReturns(s)
              \/ Start \/ readLoop \/ Stop \/ ConnectionLost \/ Monitor \/ Server
              \/ UNCHANGED vars
  <2>1. UNCHANGED <<received, wireOut>>
    BY <1>4, RequestFrame, ReadFrame, OtherFrame
       DEF Server, ServerRespond, ServerCall, ServerNoise, vars, sendVars, serverVars
  <2> QED
    BY <2>1, WrittenStays DEF SentInv
<1> QED
  BY <1>2, <1>3, <1>4 DEF Next


\* Answers are given, and never taken back.
LEMMA AnswersGrow ==
  ASSUME TypeOK, [Next]_vars
  PROVE  \A c \in Calls : answered[c] > 0 => answered'[c] > 0
<1>1. ASSUME NEW d \in Calls, NEW ok \in BOOLEAN, ServerRespond(d, ok)
      PROVE  \A c \in Calls : answered[c] > 0 => answered'[c] > 0
  BY <1>1 DEF ServerRespond, TypeOK, ServerTypes
<1>2. (\E d \in Calls, ok \in BOOLEAN : ServerRespond(d, ok)) \/ answered' = answered
  BY RequestFrame, SendFrame, ReadFrame, OtherFrame
     DEF Next, Server, ServerReceive, ServerCall, ServerNoise, vars, serverVars
<1> QED
  BY <1>1, <1>2

\* Every step keeps answers those that were given.
LEMMA GivenStep ==
  ASSUME TypeOK, GivenInv, [Next]_vars
  PROVE  GivenInv'
<1>1. \A i \in 1..Len(wireIn) : Given(wireIn[i], answered')
  BY AnswersGrow DEF Given, GivenInv
<1>2. \A i \in 1..Len(wireIn') : Given(wireIn'[i], answered')
  <2>1. CASE wireIn' = wireIn
    BY <1>1, <2>1
  <2>2. CASE readLoop
    BY <1>1, <2>1, <2>2, ReadWire, WireShrinks
  <2>3. ASSUME NEW m \in Messages, ServerSend(m), Given(m, answered')
        PROVE  \A i \in 1..Len(wireIn') : Given(wireIn'[i], answered')
    BY <1>1, <2>3, WireGrows
  <2>4. CASE Server
    <3>1. ASSUME NEW c \in Calls, NEW ok \in BOOLEAN, ServerRespond(c, ok)
          PROVE  \A i \in 1..Len(wireIn') : Given(wireIn'[i], answered')
      <4> DEFINE m == [kind |-> "response", resp |-> [id |-> c, body |-> c, ok |-> ok]]
      <4>1. m \in Messages /\ ServerSend(m)
        BY <3>1 DEF ServerRespond, Messages, Responses
      <4>2. answered'[c] > 0
        BY <3>1 DEF ServerRespond, TypeOK, ServerTypes
      <4> QED
        BY <2>3, <4>1, <4>2 DEF Given
    <3>2. ASSUME NEW s \in ServerCalls, ServerCall(s)
          PROVE  \A i \in 1..Len(wireIn') : Given(wireIn'[i], answered')
      BY <2>3, <3>2 DEF ServerCall, Messages, Given
    <3>3. ASSUME NEW k \in NoiseKinds, ServerNoise(k)
          PROVE  \A i \in 1..Len(wireIn') : Given(wireIn'[i], answered')
      BY <2>3, <3>3 DEF ServerNoise, Messages, NoiseKinds, Given
    <3>4. ServerReceive => wireIn' = wireIn
      BY DEF ServerReceive, readVars
    <3> QED
      BY <2>1, <2>4, <3>1, <3>2, <3>3, <3>4 DEF Server
  <2>5. readLoop \/ Server \/ wireIn' = wireIn
    BY RequestFrame, SendFrame, OtherFrame DEF Next, vars, readVars
  <2> QED
    BY <2>1, <2>2, <2>4, <2>5
<1>3. ASSUME NEW c \in Calls, respChan'[c] # NoResponse
      PROVE  answered'[c] > 0
  <2>1. CASE respChan'[c] = respChan[c]
    BY <1>3, <2>1, AnswersGrow DEF GivenInv
  <2>2. CASE readLoop /\ respChan'[c] # respChan[c]
    <3>1. ReadResponse
      BY <2>2 DEF readLoop, ReadLoopCheck, ReadCall, ReadNoise, NotificationReturns,
         ReadError, ReadLoopDefer, CallOnClose, callVars
    <3>2. Head(wireIn).resp.id = c /\ Head(wireIn).kind = "response" /\ wireIn # <<>>
      BY <2>2, <3>1 DEF ReadResponse, handleResponse, TypeOK, CallTypes
    <3> QED
      BY <1>1, <3>2, Taken DEF Given
  <2> QED
    BY <1>3, <2>1, <2>2, OnlyLoopDelivers
<1> QED
  BY <1>2, <1>3 DEF GivenInv

\* Every step keeps the end of the process and of the stream.
LEMMA EndStep ==
  ASSUME TypeOK, EndInv, [Next]_vars
  PROVE  EndInv'
<1>1. CASE Stop
  BY <1>1 DEF Stop, StopCheck, StopStore, StopCloseChan, StopCloseStdout, StopWait, StopStep,
     EndInv, exitVars
<1>2. CASE ConnectionLost \/ Monitor
  BY <1>2 DEF ConnectionLost, Monitor, MonitorWait, MonitorCloseDone, SetProcessDoneCopy,
     EndInv, stopVars
<1>3. CASE \/ \E c \in Calls : Request(c)
           \/ \E g \in Senders : sendMessage(g)
           \/ \E s \in ServerCalls : HandlerReturns(s)
           \/ Start \/ readLoop \/ Server \/ UNCHANGED vars
  <2>1. UNCHANGED <<exitVars, stopClosed, stdoutOpen, stopPc>>
    BY <1>3, RequestFrame, SendFrame, ReadFrame, ServerFrame
       DEF HandlerReturns, Start, vars, stopVars
  <2> QED
    BY <2>1 DEF EndInv, exitVars
<1> QED
  BY <1>1, <1>2, <1>3 DEF Next


\* What no step of JsonRpcSpec needs to follow: nothing the promise speaks of changes.
LEMMA NothingPromised ==
  ASSUME UNCHANGED <<outcome, result, received, answered, issued, connUp, noise, processDone,
                     stopClosed, onCloseCalled>>
  PROVE  UNCHANGED Promise!vars
BY DEF Promise!vars, Promise!requestVars, Promise!serverVars, Promise!streamVars

\* A step of a request is its end, for a reason, or nothing.
LEMMA RequestKeeps ==
  ASSUME TypeOK, AnswerInv, SentInv, GivenInv, CallInv, NEW c \in Calls, Request(c)
  PROVE  [Promise!Next]_(Promise!vars)
<1>1. UNCHANGED <<received, answered, issued, connUp, noise, processDone, stopClosed,
                  onCloseCalled>>
  BY RequestFrame DEF readVars, stopVars, exitVars, serverVars
<1>2. UNCHANGED <<Promise!serverVars, Promise!streamVars>>
  BY <1>1 DEF Promise!serverVars, Promise!streamVars
<1>3. outcome[c] = "none" \/ pc[c] = "cleanup"
  BY DEF AnswerInv, Request, RequestRegister, RequestCheckProcess, RequestMarshalFails,
     RequestResponse, RequestProcessDone, RequestStopped, RequestCleanup
<1>4. result = [result EXCEPT ![c] = None] \/ pc[c] = "cleanup"
  <2>1. result \in [Calls -> Calls \cup {None}] /\ (pc[c] # "cleanup" => result[c] = None)
    BY <1>3 DEF AnswerInv, OwnAnswer, TypeOK, CallTypes
  <2> QED
    BY <2>1
<1>5. CASE RequestRegister(c) \/ RequestCleanup(c)
  <2>1. UNCHANGED <<outcome, result>>
    BY <1>5 DEF RequestRegister, RequestCleanup
  <2> QED
    BY <1>1, <2>1, NothingPromised
<1>6. CASE RequestCheckProcess(c) \/ RequestProcessDone(c)
  <2>1. CASE outcome' = outcome
    <3>1. result' = result
      BY <1>6 DEF RequestCheckProcess, RequestProcessDone
    <3> QED
      BY <1>1, <2>1, <3>1, NothingPromised
  <2>2. CASE outcome' # outcome
    <3>1. /\ processDone /\ pc[c] # "cleanup" /\ result' = result
          /\ outcome' = [outcome EXCEPT ![c] = ProcessOutcome]
      BY <1>6, <2>2 DEF RequestCheckProcess, RequestProcessDone, Finish
    <3>2. ProcessOutcome \in Promise!Exited
      BY DEF ProcessOutcome, Promise!Exited
    <3>3. Promise!Ends(c, ProcessOutcome, None)
      BY <1>2, <1>3, <1>4, <3>1 DEF Promise!Ends
    <3> QED
      BY <3>1, <3>2, <3>3 DEF Promise!EndsExited, Promise!Next
  <2> QED
    BY <2>1, <2>2
<1>7. CASE RequestMarshalFails(c)
  <2>1. Promise!Ends(c, "marshalError", None)
    BY <1>2, <1>3, <1>4, <1>7 DEF RequestMarshalFails, Finish, Promise!Ends
  <2>2. c \notin received
    BY <1>7 DEF RequestMarshalFails, SentInv, Written, Sent, CallInv, TypeOK, ServerTypes
  <2> QED
    BY <2>1, <2>2 DEF Promise!EndsNotSent, Promise!NotSent, Promise!Next
<1>8. CASE RequestResponse(c)
  <2> DEFINE how == IF respChan[c].ok THEN "result" ELSE "rpcError"
  <2>1. respChan[c].body = c /\ answered[c] > 0
    BY <1>8 DEF RequestResponse, AnswerInv, GivenInv
  <2>2. Promise!Ends(c, how, c)
    BY <1>2, <1>3, <1>8, <2>1 DEF RequestResponse, Finish, Promise!Ends
  <2>3. how \in Promise!Answered
    BY DEF Promise!Answered
  <2> QED
    BY <2>1, <2>2, <2>3 DEF Promise!EndsAnswered, Promise!Next
<1>9. CASE RequestStopped(c)
  <2>1. Promise!Ends(c, "stopped", None) /\ stopClosed
    BY <1>2, <1>3, <1>4, <1>9 DEF RequestStopped, Finish, Promise!Ends
  <2> QED
    BY <2>1 DEF Promise!EndsStopped, Promise!Next
<1> QED
  BY <1>5, <1>6, <1>7, <1>8, <1>9 DEF Request

\* A step of sendMessage is nothing, or the end of a request that was not sent.
LEMMA SendKeeps ==
  ASSUME TypeOK, AnswerInv, SentInv, CallInv, EndInv, NEW g \in Senders, sendMessage(g)
  PROVE  [Promise!Next]_(Promise!vars)
<1>1. UNCHANGED <<result, received, answered, issued, connUp, noise, processDone, stopClosed,
                  onCloseCalled>>
  BY SendFrame DEF readVars, stopVars, exitVars, serverVars
<1>2. CASE outcome' = outcome
  BY <1>1, <1>2, NothingPromised
<1>3. CASE outcome' # outcome
  <2>1. /\ WriteFails(g) /\ g \in Calls /\ outcome' = [outcome EXCEPT ![g] = "sendError"]
    BY <1>3 DEF sendMessage, SendAcquire, WriteHeader, WriteBody, WriteFails, AfterSend,
       Finish, callVars
  <2>2. pc[g] \in {"header", "body"} /\ (~connUp \/ stopClosed)
    BY <2>1 DEF WriteFails, LocallyClosed, EndInv
  <2>3. outcome[g] = "none" /\ result = [result EXCEPT ![g] = None]
    BY <2>1, <2>2 DEF AnswerInv, OwnAnswer, TypeOK, CallTypes
  <2>4. g \notin received
    BY <2>1, <2>2 DEF SentInv, Written, Sent, TypeOK, ServerTypes
  <2>5. UNCHANGED <<Promise!serverVars, Promise!streamVars>>
    BY <1>1 DEF Promise!serverVars, Promise!streamVars
  <2>6. Promise!Ends(g, "sendError", None)
    BY <1>1, <2>1, <2>3, <2>5 DEF Promise!Ends
  <2> QED
    BY <2>1, <2>2, <2>4, <2>6 DEF Promise!EndsNotSent, Promise!NotSent, Promise!Next
<1> QED
  BY <1>2, <1>3


\* What the server does, and what reaches it.
LEMMA ServerKeeps ==
  ASSUME TypeOK, FramesWhole, SentInv, Server
  PROVE  [Promise!Next]_(Promise!vars)
<1>1. UNCHANGED <<outcome, result, connUp, processDone, stopClosed, onCloseCalled>>
  BY ServerFrame DEF callVars, stopVars, exitVars
<1>2. CASE ServerReceive
  <2> DEFINE m == wireOut[2].of
  <2>1. wireOut[2].half = "body" /\ 2 \in 1..Len(wireOut) /\ connUp
    BY <1>2, LenProperties DEF ServerReceive, FramesWhole, Whole, TypeOK, SendTypes
  <2>2. m \in issued \/ (m \in Calls /\ outcome[m] \notin Promise!NotSent)
    BY <2>1 DEF SentInv, Written, Sent, Promise!NotSent
  <2>3. m \in Calls \cup ServerCalls
    BY <2>2 DEF TypeOK, ServerTypes
  <2>4. Promise!Arrives(m)
    BY <1>1, <1>2, <2>1, <2>2 DEF ServerReceive, Promise!Arrives, Promise!requestVars,
       Promise!streamVars
  <2> QED
    BY <2>3, <2>4 DEF Promise!Next
<1>3. ASSUME NEW c \in Calls, NEW ok \in BOOLEAN, ServerRespond(c, ok)
      PROVE  [Promise!Next]_(Promise!vars)
  <2>1. Promise!Answer(c)
    BY <1>1, <1>3 DEF ServerRespond, ServerSend, Promise!Answer, Promise!requestVars,
       Promise!streamVars
  <2> QED
    BY <2>1 DEF Promise!Next
<1>4. ASSUME NEW s \in ServerCalls, ServerCall(s)
      PROVE  [Promise!Next]_(Promise!vars)
  <2>1. Promise!Asks(s)
    BY <1>1, <1>4 DEF ServerCall, ServerSend, Promise!Asks, Promise!requestVars,
       Promise!streamVars
  <2> QED
    BY <2>1 DEF Promise!Next
<1>5. ASSUME NEW k \in NoiseKinds, ServerNoise(k)
      PROVE  [Promise!Next]_(Promise!vars)
  <2>1. UNCHANGED <<received, answered, issued>> /\ connUp
    BY <1>5 DEF ServerNoise, ServerSend
  <2>2. CASE k = "badframe"
    <3>1. noise'["badframe"] > 0
      BY <1>5, <2>2 DEF ServerNoise, TypeOK, ServerTypes
    <3>2. Promise!Garble
      BY <1>1, <2>1, <3>1 DEF Promise!Garble, Promise!requestVars, Promise!serverVars
    <3> QED
      BY <3>2 DEF Promise!Next
  <2>3. CASE k # "badframe"
    <3>1. noise'["badframe"] = noise["badframe"]
      BY <1>5, <2>3 DEF ServerNoise, TypeOK, ServerTypes, NoiseKinds
    <3> QED
      BY <1>1, <2>1, <3>1 DEF Promise!vars, Promise!requestVars, Promise!serverVars,
         Promise!streamVars
  <2> QED
    BY <2>2, <2>3
<1> QED
  BY <1>2, <1>3, <1>4, <1>5 DEF Server

\* The loop calls onClose, for a reason.
LEMMA ReadKeeps ==
  ASSUME TypeOK, CloseInv, readLoop
  PROVE  [Promise!Next]_(Promise!vars)
<1>1. UNCHANGED <<outcome, result, received, answered, issued, connUp, noise, processDone,
                  stopClosed>>
  BY ReadFrame DEF serverVars, stopVars, exitVars
<1>2. CASE onCloseCalled' = onCloseCalled
  BY <1>1, <1>2, NothingPromised
<1>3. CASE onCloseCalled' # onCloseCalled
  <2>1. CallOnClose
    BY <1>3 DEF readLoop, ReadLoopCheck, ReadResponse, ReadCall, ReadNoise,
       NotificationReturns, ReadError, ReadLoopDefer, readVars
  <2>2. /\ ~connUp \/ noise["badframe"] > 0
        /\ ~onCloseCalled /\ onCloseCalled' = TRUE
    BY <1>3, <2>1 DEF CallOnClose, CloseInv, TypeOK, ReadTypes
  <2>3. Promise!Reports
    BY <1>1, <2>2 DEF Promise!Reports, Promise!requestVars, Promise!serverVars
  <2> QED
    BY <2>3 DEF Promise!Next
<1> QED
  BY <1>2, <1>3

\* Stop, the end of the process and the rest.
LEMMA OtherKeeps ==
  ASSUME TypeOK, StopInv, EndInv,
         \/ \E s \in ServerCalls : HandlerReturns(s)
         \/ Start \/ Stop \/ ConnectionLost \/ Monitor \/ UNCHANGED vars
  PROVE  [Promise!Next]_(Promise!vars)
<1>1. UNCHANGED <<outcome, result, received, answered, issued, noise, onCloseCalled>>
  BY OtherFrame DEF vars, callVars, readVars, serverVars
<1>2. CASE StopCloseChan
  <2>1. ~stopClosed /\ stopClosed' = TRUE /\ UNCHANGED <<connUp, processDone>>
    BY <1>2 DEF StopCloseChan, StopStep, StopInv, exitVars
  <2>2. Promise!Stops
    BY <1>1, <2>1 DEF Promise!Stops, Promise!requestVars, Promise!serverVars
  <2> QED
    BY <2>2 DEF Promise!Next
<1>3. CASE ConnectionLost
  <2>1. ~connUp' /\ UNCHANGED <<processDone, stopClosed>>
    BY <1>3 DEF ConnectionLost, stopVars
  <2>2. Promise!Lose
    BY <1>1, <2>1 DEF Promise!Lose, Promise!requestVars, Promise!serverVars
  <2> QED
    BY <2>2 DEF Promise!Next
<1>4. CASE MonitorCloseDone
  <2>1. ~connUp /\ processDone' = TRUE /\ UNCHANGED <<connUp, stopClosed>>
    BY <1>4 DEF MonitorCloseDone, EndInv, stopVars
  <2>2. Promise!Exits
    BY <1>1, <2>1 DEF Promise!Exits, Promise!requestVars, Promise!serverVars
  <2> QED
    BY <2>2 DEF Promise!Next
<1>5. CASE ~StopCloseChan /\ ~ConnectionLost /\ ~MonitorCloseDone
  <2>1. UNCHANGED <<connUp, processDone, stopClosed>>
    BY <1>5 DEF HandlerReturns, Start, Stop, StopCheck, StopStore, StopCloseStdout, StopWait,
       Monitor, MonitorWait, SetProcessDoneCopy, vars, stopVars, exitVars
  <2> QED
    BY <1>1, <2>1, NothingPromised
<1> QED
  BY <1>2, <1>3, <1>4, <1>5

\* The connection implements JsonRpcSpec, for any number of requests and server calls: a
\* request ends once, with the answer to it or for a reason that holds, and one that ended
\* because it was not sent never reaches the server.
THEOREM PromiseKept == Spec => ConnectionPromise
<1> DEFINE Inv == AnswerInv /\ CallInv /\ AnswererInv /\ CloseInv /\ StopInv /\ SentInv
                  /\ GivenInv /\ EndInv
<1>1. Init => Inv
  <2> SUFFICES ASSUME Init
               PROVE  Inv
    OBVIOUS
  <2>1. Len(wireOut) = 0 /\ Len(wireIn) = 0
    BY DEF Init
  <2>2. AnswerInv /\ CallInv /\ AnswererInv
    BY <2>1 DEF Init, AnswerInv, WirePaired, OwnAnswer, NoResponse, CallInv, AnswererInv
  <2>3. CloseInv /\ StopInv /\ EndInv
    BY <2>1 DEF Init, CloseInv, StopInv, EndInv, OnCloseOnlyIfLost
  <2>4. SentInv /\ GivenInv
    BY <2>1 DEF Init, SentInv, GivenInv, NoResponse
  <2> QED
    BY <2>2, <2>3, <2>4
<1>2. TypeOK /\ FramesWhole /\ Inv /\ [Next]_vars => Inv'
  BY AnswerStep, CallStep, AnswererStep, CloseStep, StopInvStep, SentStep, GivenStep, EndStep
<1>3. Init => Promise!Init
  BY DEF Init, NoiseKinds, Promise!Init
<1>4. TypeOK /\ FramesWhole /\ Inv /\ [Next]_vars => [Promise!Next]_(Promise!vars)
  BY RequestKeeps, SendKeeps, ServerKeeps, ReadKeeps, OtherKeeps DEF Next
<1> HIDE DEF Inv
<1> QED
  BY <1>1, <1>2, <1>3, <1>4, TypeCorrect, FramesNeverInterleave, PTL
     DEF Spec, ConnectionPromise, Promise!Spec
=============================================================================
