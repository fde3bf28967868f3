----------------------------- MODULE GoJsonRpc -----------------------------
(***************************************************************************)
(* The JSON-RPC connection of the Go SDK (go/internal/jsonrpc2): goroutines*)
(* that call Request, the readLoop goroutine, one goroutine per incoming   *)
(* call, the goroutine that calls Stop, and the two goroutines that turn a *)
(* process exit into processDone and processError.                         *)
(*                                                                         *)
(* Every mutex section, channel operation and atomic load or store is one  *)
(* step.  A frame is two writes (header, body), made while holding the     *)
(* 1-buffered writer channel.  A call's UUID is the call itself: UUIDs are *)
(* taken to be unique.  The CLI server is external: it answers in any      *)
(* order, more than once, or never, and may send undecodable messages or a *)
(* malformed frame.                                                        *)
(***************************************************************************)
EXTENDS Naturals, Sequences, FiniteSets

CONSTANTS
  Calls,        \* invocations of Client.Request, each by its own goroutine
  ServerCalls,  \* calls the server makes of the SDK (tool.call, hooks.invoke...)
  Unhandled,    \* the ServerCalls whose method has no registered handler
  Reader,       \* the readLoop goroutine
  None,         \* no call / nobody holds the writer
  HasProcess,   \* SetProcessDone was called: the SDK spawned the CLI process
  MaxResponses, \* bound: responses the server sends to one call
  MaxNoise,     \* bound: notifications, undecodable messages, bad frames (each)
  MaxWire       \* bound: messages in flight from the server

ASSUME ConstantsAssumption ==
  /\ Unhandled \subseteq ServerCalls
  /\ Calls \cap ServerCalls = {}
  /\ Reader \notin Calls \cup ServerCalls
  /\ None \notin Calls \cup ServerCalls \cup {Reader}
  /\ HasProcess \in BOOLEAN
  /\ MaxResponses \in Nat /\ MaxNoise \in Nat /\ MaxWire \in Nat

VARIABLES
  pc,            \* control state of every goroutine that can write a frame
  pending,       \* keys of pendingRequests
  respChan,      \* 1-buffered response channel of each call
  outcome,       \* how Request ended
  result,        \* the call whose answer Request returned
  writer,        \* who holds the writer taken from the writer channel
  replyTo,       \* the server call readLoop itself is answering
  running, stopClosed, stdoutOpen,  \* running, stopChan closed, stdout not closed
  stopPc,        \* control state of the goroutine in Client.Stop
  connUp,        \* the peer is alive and the stream to it intact
  exitErr,       \* *errPtr was assigned by the process monitor
  processDone,   \* processDone is closed
  processError,  \* c.processError holds the exit error
  onCloseCalled, \* the onClose callback ran
  wireOut,       \* frame halves on their way to the server
  wireIn,        \* messages on their way to readLoop
  received,      \* server: requests whose frames arrived
  answered,      \* server: responses sent so far to each call
  issued,        \* server: calls it has made of the SDK
  noise          \* server: notifications and malformed messages sent so far

callVars   == <<pending, respChan, outcome, result>>
sendVars   == <<writer, replyTo, wireOut>>
readVars   == <<onCloseCalled, wireIn>>
stopVars   == <<running, stopClosed, stdoutOpen, stopPc>>
exitVars   == <<connUp, exitErr, processDone, processError>>
serverVars == <<received, answered, issued, noise>>

vars == <<pc, callVars, sendVars, readVars, stopVars, exitVars, serverVars>>

Senders == Calls \cup ServerCalls \cup {Reader}

\* No response in the channel; the responses a server can send.
NoResponse == [id |-> None, body |-> None, ok |-> FALSE]
Responses  == [id : Calls \cup {None}, body : Calls \cup {None}, ok : BOOLEAN]

NoiseKinds == {"notification", "undecodable", "badframe"}

Messages == [kind : {"response"}, resp : Responses]
              \cup [kind : {"call"}, call : ServerCalls]
              \cup [kind : NoiseKinds]

\* "processError" is the stored exit error, "exitedUnexpectedly" the fallback.
Outcomes == {"none", "result", "rpcError", "processError",
             "exitedUnexpectedly", "stopped", "marshalError", "sendError"}

CallStates   == {"idle", "registered", "acquire", "header", "body", "waiting",
                 "cleanup", "returned"}
HandlerStates == {"unborn", "handling", "acquire", "header", "body", "done"}
ReaderStates == {"start", "loop", "read", "notify", "acquire", "header", "body",
                 "defer", "onclose", "exited"}
StopStates   == {"idle", "store", "closeChan", "closeStdout", "wait",
                 "done"}

Init ==
  /\ pc = [g \in Senders |-> CASE g \in Calls -> "idle"
                               [] g \in ServerCalls -> "unborn"
                               [] OTHER -> "start"]
  /\ pending = {}
  /\ respChan = [c \in Calls |-> NoResponse]
  /\ outcome = [c \in Calls |-> "none"]
  /\ result = [c \in Calls |-> None]
  /\ writer = None
  /\ replyTo = None
  /\ running = FALSE /\ stopClosed = FALSE /\ stdoutOpen = TRUE
  /\ stopPc = "idle"
  /\ connUp = TRUE
  /\ exitErr = FALSE /\ processDone = FALSE /\ processError = FALSE
  /\ onCloseCalled = FALSE
  /\ wireOut = <<>> /\ wireIn = <<>>
  /\ received = {}
  /\ answered = [c \in Calls |-> 0]
  /\ issued = {}
  /\ noise = [k \in NoiseKinds |-> 0]

Goto(g, label) == pc' = [pc EXCEPT ![g] = label]

----------------------------------------------------------------------------
(* Client.Request *)

\* The response channel is registered before anything is sent.
RequestRegister(c) ==
  /\ pc[c] = "idle"
  /\ pending' = pending \cup {c}
  /\ Goto(c, "registered")
  /\ UNCHANGED <<respChan, outcome, result, sendVars, readVars, stopVars,
                 exitVars, serverVars>>

\* The error Request reports once processDone is closed (getProcessError).
ProcessOutcome == IF processError THEN "processError" ELSE "exitedUnexpectedly"

Finish(c, how) ==
  /\ outcome' = [outcome EXCEPT ![c] = how]
  /\ Goto(c, "cleanup")

\* The poll of processDone before sending.
RequestCheckProcess(c) ==
  /\ pc[c] = "registered"
  /\ IF HasProcess /\ processDone
     THEN Finish(c, ProcessOutcome)
     ELSE Goto(c, "acquire") /\ UNCHANGED outcome
  /\ UNCHANGED <<pending, respChan, result, sendVars, readVars, stopVars,
                 exitVars, serverVars>>

\* The params cannot be marshalled: nothing is sent.
RequestMarshalFails(c) ==
  /\ pc[c] = "registered"
  /\ ~(HasProcess /\ processDone)
  /\ Finish(c, "marshalError")
  /\ UNCHANGED <<pending, respChan, result, sendVars, readVars, stopVars,
                 exitVars, serverVars>>

\* The select: any ready case may be taken.
RequestResponse(c) ==
  /\ pc[c] = "waiting"
  /\ respChan[c] # NoResponse
  /\ respChan' = [respChan EXCEPT ![c] = NoResponse]
  /\ Finish(c, IF respChan[c].ok THEN "result" ELSE "rpcError")
  /\ result' = [result EXCEPT ![c] = respChan[c].body]
  /\ UNCHANGED <<pending, sendVars, readVars, stopVars, exitVars, serverVars>>

RequestProcessDone(c) ==
  /\ pc[c] = "waiting"
  /\ HasProcess /\ processDone
  /\ Finish(c, ProcessOutcome)
  /\ UNCHANGED <<pending, respChan, result, sendVars, readVars, stopVars,
                 exitVars, serverVars>>

RequestStopped(c) ==
  /\ pc[c] = "waiting"
  /\ stopClosed
  /\ Finish(c, "stopped")
  /\ UNCHANGED <<pending, respChan, result, sendVars, readVars, stopVars,
                 exitVars, serverVars>>

\* The deferred delete from pendingRequests.
RequestCleanup(c) ==
  /\ pc[c] = "cleanup"
  /\ pending' = pending \ {c}
  /\ Goto(c, "returned")
  /\ UNCHANGED <<respChan, outcome, result, sendVars, readVars, stopVars,
                 exitVars, serverVars>>

----------------------------------------------------------------------------
(* Client.sendMessage, shared by Request, handleRequest's goroutines and   *)
(* the "method not found" reply of readLoop.                               *)

\* Mutant: the writer is not waited for.
SendAcquireNoWait(g) ==
  /\ pc[g] = "acquire"
  /\ writer' = g
  /\ Goto(g, "header")
  /\ UNCHANGED <<callVars, replyTo, wireOut, readVars, stopVars, exitVars,
                 serverVars>>

\* Take the writer out of the 1-buffered channel.
SendAcquire(g) ==
  /\ pc[g] = "acquire"
  /\ writer = None
  /\ writer' = g
  /\ Goto(g, "header")
  /\ UNCHANGED <<callVars, replyTo, wireOut, readVars, stopVars, exitVars,
                 serverVars>>

\* Mutant: a handler that replied waits for an answer like a caller.
AfterSendWaits(g, ok) ==
  /\ IF ok THEN Goto(g, "waiting") /\ UNCHANGED outcome
           ELSE Goto(g, "done") /\ UNCHANGED outcome
  /\ UNCHANGED replyTo

\* Mutant: a handler replies again after its reply was sent (the recovered
\* panic of the reply itself).
AfterSendAgain(g, ok) ==
  \/ /\ g \in Calls
     /\ IF ok THEN Goto(g, "waiting") /\ UNCHANGED outcome
              ELSE Finish(g, "sendError")
     /\ UNCHANGED replyTo
  \/ /\ g \in ServerCalls
     /\ \/ Goto(g, "done")
        \/ Goto(g, "acquire")
     /\ UNCHANGED <<outcome, replyTo>>
  \/ /\ g = Reader
     /\ Goto(g, "loop")
     /\ replyTo' = None
     /\ UNCHANGED outcome

\* What the sender does when sendMessage returns.
AfterSend(g, ok) ==
  \/ /\ g \in Calls
     /\ IF ok THEN Goto(g, "waiting") /\ UNCHANGED outcome
              ELSE Finish(g, "sendError")
     /\ UNCHANGED replyTo
  \/ /\ g \in ServerCalls
     /\ Goto(g, "done")
     /\ UNCHANGED <<outcome, replyTo>>
  \/ /\ g = Reader
     /\ Goto(g, "loop")
     /\ replyTo' = None
     /\ UNCHANGED outcome

\* The message a sender writes: its request, or the reply to a server call.
Subject(g) == IF g = Reader THEN replyTo ELSE g

\* An external server is reached over one TCP connection, which Stop closes in
\* both directions; a spawned process keeps its stdin pipe.
LocallyClosed == ~HasProcess /\ ~stdoutOpen

\* Mutant: the writer is put back between the two writes of a frame.
WriteHeaderReleases(g) ==
  /\ pc[g] = "header"
  /\ ~LocallyClosed
  /\ wireOut' = Append(wireOut, [half |-> "header", of |-> Subject(g)])
  /\ writer' = None
  /\ Goto(g, "body")
  /\ UNCHANGED <<callVars, replyTo, readVars, stopVars, exitVars, serverVars>>

WriteHeader(g) ==
  /\ pc[g] = "header"
  /\ ~LocallyClosed
  /\ wireOut' = Append(wireOut, [half |-> "header", of |-> Subject(g)])
  /\ Goto(g, "body")
  /\ UNCHANGED <<callVars, writer, replyTo, readVars, stopVars, exitVars,
                 serverVars>>

\* The body ends the frame; the deferred send puts the writer back.
WriteBody(g) ==
  /\ pc[g] = "body"
  /\ ~LocallyClosed
  /\ wireOut' = Append(wireOut, [half |-> "body", of |-> Subject(g)])
  /\ writer' = None
  /\ AfterSend(g, TRUE)
  /\ UNCHANGED <<pending, respChan, result, readVars, stopVars, exitVars,
                 serverVars>>

\* Mutant: a failed write does not put the writer back.
WriteFailsKeepsWriter(g) ==
  /\ pc[g] \in {"header", "body"}
  /\ ~connUp \/ LocallyClosed
  /\ AfterSend(g, FALSE)
  /\ UNCHANGED <<pending, respChan, result, writer, wireOut, readVars,
                 stopVars, exitVars, serverVars>>

\* Either write may fail once the peer is gone or the connection closed.
WriteFails(g) ==
  /\ pc[g] \in {"header", "body"}
  /\ ~connUp \/ LocallyClosed
  /\ writer' = None
  /\ AfterSend(g, FALSE)
  /\ UNCHANGED <<pending, respChan, result, wireOut, readVars, stopVars,
                 exitVars, serverVars>>

----------------------------------------------------------------------------
(* Client.Start and readLoop *)

Start ==
  /\ pc[Reader] = "start"
  /\ running' = TRUE
  /\ Goto(Reader, "loop")
  /\ UNCHANGED <<callVars, sendVars, readVars, stopClosed, stdoutOpen, stopPc,
                 exitVars, serverVars>>

ReadLoopCheck ==
  /\ pc[Reader] = "loop"
  /\ Goto(Reader, IF running THEN "read" ELSE "defer")
  /\ UNCHANGED <<callVars, sendVars, readVars, stopVars, exitVars, serverVars>>

\* Mutant: a response goes to every waiting request, not to the one it names.
handleResponseToAll(r) ==
  respChan' = [c \in Calls |-> IF c \in pending /\ respChan[c] = NoResponse
                               THEN r ELSE respChan[c]]

\* handleResponse: a non-blocking send on the channel the id is registered for.
\* Nobody receives from a channel deleted between the lookup and the send.
handleResponse(r) ==
  respChan' = IF r.id \in pending /\ respChan[r.id] = NoResponse
              THEN [respChan EXCEPT ![r.id] = r]
              ELSE respChan

ReadResponse ==
  /\ pc[Reader] = "read"
  /\ wireIn # <<>>
  /\ Head(wireIn).kind = "response"
  /\ handleResponse(Head(wireIn).resp)
  /\ wireIn' = Tail(wireIn)
  /\ Goto(Reader, "loop")
  /\ UNCHANGED <<pending, outcome, result, sendVars, onCloseCalled, stopVars,
                 exitVars, serverVars>>

\* handleRequest for a call: its own goroutine, or an error reply sent by
\* readLoop itself when no handler is registered.
ReadCall ==
  /\ pc[Reader] = "read"
  /\ wireIn # <<>>
  /\ Head(wireIn).kind = "call"
  /\ LET s == Head(wireIn).call IN
       IF s \in Unhandled
       THEN Goto(Reader, "acquire") /\ replyTo' = s
       ELSE /\ pc' = [pc EXCEPT ![Reader] = "loop", ![s] = "handling"]
            /\ UNCHANGED replyTo
  /\ wireIn' = Tail(wireIn)
  /\ UNCHANGED <<callVars, writer, wireOut, onCloseCalled, stopVars, exitVars,
                 serverVars>>

\* A notification runs on the readLoop; an undecodable message is skipped; a
\* malformed frame ends the loop.
ReadNoise ==
  /\ pc[Reader] = "read"
  /\ wireIn # <<>>
  /\ Head(wireIn).kind \in NoiseKinds
  /\ Goto(Reader, CASE Head(wireIn).kind = "notification" -> "notify"
                    [] Head(wireIn).kind = "undecodable"  -> "loop"
                    [] Head(wireIn).kind = "badframe"     -> "defer")
  /\ wireIn' = Tail(wireIn)
  /\ UNCHANGED <<callVars, sendVars, onCloseCalled, stopVars, exitVars,
                 serverVars>>

NotificationReturns ==
  /\ pc[Reader] = "notify"
  /\ Goto(Reader, "loop")
  /\ UNCHANGED <<callVars, sendVars, readVars, stopVars, exitVars, serverVars>>

\* Read fails: stdout was closed by Stop, or the peer is gone.  Frames still
\* on the wire may be lost (exec.Cmd.Wait closes the pipe).
ReadError ==
  /\ pc[Reader] = "read"
  /\ ~stdoutOpen \/ ~connUp
  /\ Goto(Reader, "defer")
  /\ UNCHANGED <<callVars, sendVars, readVars, stopVars, exitVars, serverVars>>

\* Mutant: onClose is called whether or not Stop cleared running.
ReadLoopDeferAlways ==
  /\ pc[Reader] = "defer"
  /\ Goto(Reader, "onclose")
  /\ UNCHANGED <<callVars, sendVars, readVars, stopVars, exitVars, serverVars>>

\* Mutant: the loop ends without its callback.
ReadLoopDeferNever ==
  /\ pc[Reader] = "defer"
  /\ Goto(Reader, "exited")
  /\ UNCHANGED <<callVars, sendVars, readVars, stopVars, exitVars, serverVars>>

\* The deferred function: load running, then call onClose.
ReadLoopDefer ==
  /\ pc[Reader] = "defer"
  /\ Goto(Reader, IF running THEN "onclose" ELSE "exited")
  /\ UNCHANGED <<callVars, sendVars, readVars, stopVars, exitVars, serverVars>>

CallOnClose ==
  /\ pc[Reader] = "onclose"
  /\ onCloseCalled' = TRUE
  /\ Goto(Reader, "exited")
  /\ UNCHANGED <<callVars, sendVars, wireIn, stopVars, exitVars, serverVars>>

\* A handler returns, with a result or an error, or panics and is recovered:
\* each way leads to exactly one reply.
HandlerReturns(s) ==
  /\ pc[s] = "handling"
  /\ Goto(s, "acquire")
  /\ UNCHANGED <<callVars, sendVars, readVars, stopVars, exitVars, serverVars>>

----------------------------------------------------------------------------
(* Client.Stop.  Its callers (Client.Stop and ForceStop of the SDK) hold   *)
(* startStopMux, so at most one goroutine is inside it.                    *)

StopStep(from, to) == stopPc = from /\ stopPc' = to

StopCheck ==
  /\ stopPc = "idle"
  /\ stopPc' = IF running THEN "store" ELSE "done"
  /\ UNCHANGED <<pc, callVars, sendVars, readVars, running, stopClosed,
                 stdoutOpen, exitVars, serverVars>>

StopStore ==
  /\ StopStep("store", "closeChan")
  /\ running' = FALSE
  /\ UNCHANGED <<pc, callVars, sendVars, readVars, stopClosed, stdoutOpen,
                 exitVars, serverVars>>

StopCloseChan ==
  /\ StopStep("closeChan", "closeStdout")
  /\ stopClosed' = TRUE
  /\ UNCHANGED <<pc, callVars, sendVars, readVars, running, stdoutOpen,
                 exitVars, serverVars>>

\* Mutant: stdout is left open.
StopLeavesStdout ==
  /\ StopStep("closeStdout", "wait")
  /\ UNCHANGED <<pc, callVars, sendVars, readVars, running, stopClosed,
                 stdoutOpen, exitVars, serverVars>>

StopCloseStdout ==
  /\ StopStep("closeStdout", "wait")
  /\ stdoutOpen' = FALSE
  /\ UNCHANGED <<pc, callVars, sendVars, readVars, running, stopClosed,
                 exitVars, serverVars>>

\* Mutant: Stop does not wait for readLoop.
StopNoWait ==
  /\ StopStep("wait", "done")
  /\ UNCHANGED <<pc, callVars, sendVars, readVars, running, stopClosed,
                 stdoutOpen, exitVars, serverVars>>

StopWait ==
  /\ StopStep("wait", "done")
  /\ pc[Reader] = "exited"
  /\ UNCHANGED <<pc, callVars, sendVars, readVars, running, stopClosed,
                 stdoutOpen, exitVars, serverVars>>

----------------------------------------------------------------------------
(* Loss of the peer.  monitorProcess assigns the error and closes done; the*)
(* goroutine of SetProcessDone copies the error after that.                *)

ConnectionLost ==
  /\ connUp
  /\ connUp' = FALSE
  /\ UNCHANGED <<pc, callVars, sendVars, readVars, stopVars, exitErr,
                 processDone, processError, serverVars>>

MonitorWait ==
  /\ HasProcess /\ ~connUp /\ ~exitErr
  /\ exitErr' = TRUE
  /\ UNCHANGED <<pc, callVars, sendVars, readVars, stopVars, connUp,
                 processDone, processError, serverVars>>

MonitorCloseDone ==
  /\ exitErr /\ ~processDone
  /\ processDone' = TRUE
  /\ UNCHANGED <<pc, callVars, sendVars, readVars, stopVars, connUp, exitErr,
                 processError, serverVars>>

SetProcessDoneCopy ==
  /\ processDone /\ ~processError
  /\ processError' = exitErr
  /\ UNCHANGED <<pc, callVars, sendVars, readVars, stopVars, connUp, exitErr,
                 processDone, serverVars>>

----------------------------------------------------------------------------
(* The CLI server (external) *)

ServerSend(m) == connUp /\ Len(wireIn) < MaxWire /\ wireIn' = Append(wireIn, m)

ServerReceive ==
  /\ connUp
  /\ Len(wireOut) >= 2
  /\ received' = received \cup {wireOut[2].of}
  /\ wireOut' = SubSeq(wireOut, 3, Len(wireOut))
  /\ UNCHANGED <<pc, callVars, writer, replyTo, readVars, stopVars, exitVars,
                 answered, issued, noise>>

ServerRespond(c, ok) ==
  /\ c \in received
  /\ answered[c] < MaxResponses
  /\ answered' = [answered EXCEPT ![c] = @ + 1]
  /\ ServerSend([kind |-> "response",
                 resp |-> [id |-> c, body |-> c, ok |-> ok]])
  /\ UNCHANGED <<pc, callVars, sendVars, onCloseCalled, stopVars, exitVars,
                 received, issued, noise>>

ServerCall(s) ==
  /\ s \notin issued
  /\ issued' = issued \cup {s}
  /\ ServerSend([kind |-> "call", call |-> s])
  /\ UNCHANGED <<pc, callVars, sendVars, onCloseCalled, stopVars, exitVars,
                 received, answered, noise>>

ServerNoise(k) ==
  /\ noise[k] < MaxNoise
  /\ noise' = [noise EXCEPT ![k] = @ + 1]
  /\ ServerSend([kind |-> k])
  /\ UNCHANGED <<pc, callVars, sendVars, onCloseCalled, stopVars, exitVars,
                 received, answered, issued>>

----------------------------------------------------------------------------
Request(c) ==
  \/ RequestRegister(c) \/ RequestCheckProcess(c) \/ RequestMarshalFails(c)
  \/ RequestResponse(c) \/ RequestProcessDone(c) \/ RequestStopped(c) \/ RequestCleanup(c)

sendMessage(g) ==
  \/ SendAcquire(g) \/ WriteHeader(g) \/ WriteBody(g) \/ WriteFails(g)

readLoop ==
  \/ ReadLoopCheck \/ ReadResponse \/ ReadCall \/ ReadNoise
  \/ NotificationReturns \/ ReadError \/ ReadLoopDefer \/ CallOnClose

Stop ==
  \/ StopCheck \/ StopStore \/ StopCloseChan \/ StopCloseStdout \/ StopWait

Monitor == MonitorWait \/ MonitorCloseDone \/ SetProcessDoneCopy

Server ==
  \/ ServerReceive
  \/ \E c \in Calls, ok \in BOOLEAN : ServerRespond(c, ok)
  \/ \E s \in ServerCalls : ServerCall(s)
  \/ \E k \in NoiseKinds : ServerNoise(k)

Next ==
  \/ \E c \in Calls : Request(c)
  \/ \E g \in Senders : sendMessage(g)
  \/ \E s \in ServerCalls : HandlerReturns(s)
  \/ Start \/ readLoop \/ Stop \/ ConnectionLost \/ Monitor \/ Server

Spec == Init /\ [][Next]_vars

(***************************************************************************)
(* Goroutines are scheduled fairly and the handlers they run return.  The  *)
(* application may never call Start or Stop or make a request, the peer may*)
(* stay up and the server owes no answer, so none of those is fair.  The   *)
(* writer channel is a FIFO queue of waiting goroutines: SendAcquire is    *)
(* strongly fair.                                                          *)
(***************************************************************************)
Fairness ==
  /\ \A c \in Calls :
       WF_vars(RequestCheckProcess(c) \/ RequestResponse(c)
               \/ RequestProcessDone(c) \/ RequestStopped(c) \/ RequestCleanup(c))
  /\ \A g \in Senders :
       /\ SF_vars(SendAcquire(g))
       /\ WF_vars(WriteHeader(g) \/ WriteBody(g) \/ WriteFails(g))
  /\ \A s \in ServerCalls : WF_vars(HandlerReturns(s))
  /\ WF_vars(readLoop)
  /\ WF_vars(StopStore \/ StopCloseChan \/ StopCloseStdout \/ StopWait)
  /\ WF_vars(Monitor)

FairSpec == Spec /\ Fairness

----------------------------------------------------------------------------
(* Properties *)

\* Every variable has its type, one conjunct per group of variables.
Halves == [half : {"header", "body"}, of : Senders \cup {None}]

PcType ==
  /\ pc \in [Senders -> CallStates \cup HandlerStates \cup ReaderStates]
  /\ \A c \in Calls : pc[c] \in CallStates
  /\ \A s \in ServerCalls : pc[s] \in HandlerStates
  /\ pc[Reader] \in ReaderStates

CallTypes ==
  /\ pending \subseteq Calls
  /\ respChan \in [Calls -> Responses]
  /\ outcome \in [Calls -> Outcomes]
  /\ result \in [Calls -> Calls \cup {None}]

SendTypes ==
  /\ writer \in Senders \cup {None}
  /\ replyTo \in ServerCalls \cup {None}
  /\ wireOut \in Seq(Halves)

ReadTypes == onCloseCalled \in BOOLEAN /\ wireIn \in Seq(Messages)

StopTypes ==
  /\ running \in BOOLEAN /\ stopClosed \in BOOLEAN /\ stdoutOpen \in BOOLEAN
  /\ stopPc \in StopStates

ExitTypes ==
  /\ connUp \in BOOLEAN /\ exitErr \in BOOLEAN
  /\ processDone \in BOOLEAN /\ processError \in BOOLEAN

ServerTypes ==
  /\ received \subseteq Senders \cup {None}
  /\ answered \in [Calls -> Nat]
  /\ issued \subseteq ServerCalls
  /\ noise \in [NoiseKinds -> Nat]

TypeOK ==
  /\ PcType /\ CallTypes /\ SendTypes /\ ReadTypes
  /\ StopTypes /\ ExitTypes /\ ServerTypes

\* Request returns the answer the server gave to that very request, however
\* responses are reordered, duplicated or late (handleResponse, Request).
OwnAnswer ==
  \A c \in Calls :
    result[c] = IF outcome[c] \in {"result", "rpcError"} THEN c ELSE None

\* While the stream is intact the two writes of a frame are never interleaved
\* with those of another goroutine (sendMessage's writer channel).
Whole(w) ==
  \A i \in 1..Len(w) :
    IF i % 2 = 1 THEN w[i].half = "header"
                 ELSE w[i].half = "body" /\ w[i].of = w[i-1].of
FramesWhole == connUp => Whole(wireOut)

\* onClose reports only a lost peer or a malformed frame, never an intentional
\* Stop (the deferred function of readLoop and the order of Stop's steps).
OnCloseOnlyIfLost ==
  onCloseCalled /\ connUp => noise["badframe"] > 0

\* Once Stop has waited for readLoop, the connection is quiet: no callback, no
\* new handler goroutine and no delivered response (Stop's wg.Wait).
QuietAfterStop ==
  [][stopPc = "done" /\ stopClosed
       => /\ onCloseCalled' = onCloseCalled
          /\ \A s \in ServerCalls : pc[s] = "unborn" => pc'[s] = "unborn"
          /\ \A c \in Calls : respChan'[c] \in {respChan[c], NoResponse}]_vars

\* Stop returns, even while readLoop runs a handler or waits for the writer.
StopReturns == stopPc = "store" ~> stopPc = "done"

\* A stopped connection or an exited process releases every caller of Request,
\* wherever it is: checking, waiting for the writer, writing or waiting.
CallsReleased ==
  \A c \in Calls :
    (pc[c] # "idle" /\ (stopClosed \/ (HasProcess /\ processDone)))
      ~> pc[c] = "returned"

\* A lost peer is noticed: onClose runs unless Stop got there first (readLoop).
LossNoticed == (~connUp /\ running) ~> (onCloseCalled \/ ~running)

\* The server never gets two replies to one call, nor one to a call it did not
\* make, whichever of handler, recovered panic and readLoop replies
\* (handleRequest).
RepliesTo(s) == Cardinality({i \in 1..Len(wireOut) :
                              wireOut[i] = [half |-> "header", of |-> s]})
ReplyOnce ==
  connUp => \A s \in ServerCalls :
    RepliesTo(s) + (IF s \in received THEN 1 ELSE 0)
      <= (IF s \in issued THEN 1 ELSE 0)

\* Every call of the server that readLoop took is answered once its handler
\* returns, or its reply fails to be written; a reply made by readLoop itself
\* does not hold the loop up for ever (handleRequest).
ServerCallsAnswered ==
  \A s \in ServerCalls :
    /\ pc[s] = "handling" ~> pc[s] = "done"
    /\ replyTo = s ~> replyTo # s

Promise == INSTANCE JsonRpcSpec
  WITH arrived <- received, answers <- answered, lost <- ~connUp,
       garbled <- noise["badframe"] > 0, exited <- processDone,
       stopped <- stopClosed, reported <- onCloseCalled

\* The connection keeps the promise of JsonRpcSpec: each request ends once, with its own
\* answer or for a reason that holds; one that was not sent never arrives at the server,
\* later either; replies are to calls that were made, and a loss is reported once, and only
\* if there was one (Request, sendMessage, readLoop, Stop).
ConnectionPromise == Promise!Spec
=============================================================================
