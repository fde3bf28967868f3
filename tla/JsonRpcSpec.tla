---------------------------- MODULE JsonRpcSpec ----------------------------
(***************************************************************************)
(* What a JSON-RPC connection of the Go SDK promises to those who use it,  *)
(* without its goroutines, locks, channels and frames                      *)
(* (go/internal/jsonrpc2/jsonrpc2.go, Request, Stop, SetOnClose).  A       *)
(* request ends once, for a reason: the server answered that request, the  *)
(* process exited, the client was stopped, or it was not sent.  A request  *)
(* that ends because it was not sent never reaches the server, not later   *)
(* either, so that it may be made again.  The server gets replies only to  *)
(* calls it made.  The loss of the connection is reported only if it was   *)
(* lost or its stream malformed.                                           *)
(*                                                                         *)
(* GoJsonRpc implements this specification.                                *)
(***************************************************************************)
EXTENDS Naturals

CONSTANTS
  Calls,        \* requests of the client
  ServerCalls,  \* calls the server makes
  None

VARIABLES
  outcome,   \* how each request ended
  result,    \* whose answer it returned
  arrived,   \* requests and replies that reached the server
  answers,   \* how many answers the server gave to each request
  issued,    \* calls the server made
  lost,      \* the connection was lost
  garbled,   \* the server sent a malformed frame
  exited,    \* the process of the server is known to have exited
  stopped,   \* the client was stopped
  reported   \* the loss was reported

requestVars == <<outcome, result>>
serverVars  == <<arrived, answers, issued>>
streamVars  == <<lost, garbled, exited, stopped, reported>>
vars == <<requestVars, serverVars, streamVars>>

Answered == {"result", "rpcError"}
NotSent  == {"marshalError", "sendError"}
Exited   == {"processError", "exitedUnexpectedly"}

Init ==
  /\ outcome = [c \in Calls |-> "none"] /\ result = [c \in Calls |-> None]
  /\ arrived = {} /\ answers = [c \in Calls |-> 0] /\ issued = {}
  /\ ~lost /\ ~garbled /\ ~exited /\ ~stopped /\ ~reported

\* A request ends once.
Ends(c, how, whose) ==
  /\ outcome[c] = "none"
  /\ outcome' = [outcome EXCEPT ![c] = how]
  /\ result' = [result EXCEPT ![c] = whose]
  /\ UNCHANGED <<serverVars, streamVars>>

\* With the server's answer to it.
EndsAnswered(c) == answers[c] > 0 /\ \E how \in Answered : Ends(c, how, c)

\* Because it was not sent: its parameters are no JSON, or nothing can be written.
EndsNotSent(c) ==
  /\ c \notin arrived
  /\ \E how \in NotSent : Ends(c, how, None) /\ (how = "sendError" => lost \/ stopped)

EndsExited(c)  == exited  /\ \E how \in Exited : Ends(c, how, None)
EndsStopped(c) == stopped /\ Ends(c, "stopped", None)

\* A request, unless it ended because it was not sent, or a reply reaches the server.
Arrives(m) ==
  /\ ~lost
  /\ (m \in Calls /\ outcome[m] \notin NotSent) \/ m \in issued
  /\ arrived' = arrived \cup {m}
  /\ UNCHANGED <<requestVars, answers, issued, streamVars>>

Answer(c) ==
  /\ ~lost /\ c \in arrived
  /\ answers' = [answers EXCEPT ![c] = @ + 1]
  /\ UNCHANGED <<requestVars, arrived, issued, streamVars>>

Asks(s) ==
  /\ ~lost /\ s \notin issued
  /\ issued' = issued \cup {s}
  /\ UNCHANGED <<requestVars, arrived, answers, streamVars>>

Lose ==
  /\ lost' = TRUE
  /\ UNCHANGED <<requestVars, serverVars, garbled, exited, stopped, reported>>

Garble ==
  /\ ~lost /\ garbled' = TRUE
  /\ UNCHANGED <<requestVars, serverVars, lost, exited, stopped, reported>>

Exits ==
  /\ lost /\ exited' = TRUE
  /\ UNCHANGED <<requestVars, serverVars, lost, garbled, stopped, reported>>

Stops ==
  /\ ~stopped /\ stopped' = TRUE
  /\ UNCHANGED <<requestVars, serverVars, lost, garbled, exited, reported>>

\* onClose, once.
Reports ==
  /\ lost \/ garbled
  /\ ~reported /\ reported' = TRUE
  /\ UNCHANGED <<requestVars, serverVars, lost, garbled, exited, stopped>>

Next ==
  \/ \E c \in Calls :
       EndsAnswered(c) \/ EndsNotSent(c) \/ EndsExited(c) \/ EndsStopped(c) \/ Answer(c)
  \/ \E m \in Calls \cup ServerCalls : Arrives(m)
  \/ \E s \in ServerCalls : Asks(s)
  \/ Lose \/ Garble \/ Exits \/ Stops \/ Reports

Spec == Init /\ [][Next]_vars
=============================================================================
