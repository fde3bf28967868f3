---------------------------- MODULE GoRequests ----------------------------
(***************************************************************************)
(* What a Go session does for the server (go/session.go, go/client.go).    *)
(*                                                                         *)
(* Requests reach a session in two ways.  Protocol v3 broadcasts them as   *)
(* events: readLoop looks the session up and starts a goroutine that runs  *)
(* the application's handler and answers with a request of its own.        *)
(* JSON-RPC calls (protocol v2, user input, hooks, transforms) run in a    *)
(* goroutine of the connection that looks the session up and writes the    *)
(* response.  Meanwhile the session is created, forgotten by the client    *)
(* and disconnected.  The server is external.                              *)
(***************************************************************************)
EXTENDS Naturals, Sequences, FiniteSets

CONSTANTS
  Requests,    \* requests of the server
  HandlerSets, \* the sets of handlers a session may be created with
  MaxVersion   \* bound: changes of the capabilities on the server

Broadcasts == {"tool", "permission", "command", "elicitation"}
Calls      == {"tool.call", "permission.request", "userInput", "hooks", "transform"}
Kinds      == Broadcasts \cup Calls

\* The handler each kind of request is for.
Slots == {"tool", "permission", "command", "elicitation", "userInput", "hooks",
          "transform"}
Slot(kind) == CASE kind = "tool.call" -> "tool"
                [] kind = "permission.request" -> "permission"
                [] OTHER -> kind

ASSUME ConstantsAssumption ==
  /\ \A s \in HandlerSets : s \subseteq Slots /\ "permission" \in s
  /\ MaxVersion \in Nat

\* What a handler may do.
Decisions(kind) == IF Slot(kind) = "permission"
                   THEN {"approved", "denied", "noResult", "error", "panic"}
                   ELSE {"ok", "error", "panic"}

VARIABLES
  createPc,    \* control state of CreateSession
  sessionKnown,\* the session is in c.sessions
  registered,  \* the session's handlers
  discPc,      \* control state of Disconnect
  pc,          \* control state of the goroutine of each request
  kind,        \* kind of each request
  decision,    \* what its handler did
  pendingReply,\* the reply it is about to send
  replies,     \* replies sent to each request
  crashed,     \* a panic ended the program
  caps,        \* version of the capabilities held by the session
  capsReply,   \* version in the answer to session.create
  capsPending, \* changes whose goroutines have not set them yet
  version,     \* server: number of changes so far
  reached,     \* history: last change that reached the session
  late         \* history: requests that arrived when the session was gone

sessionVars == <<createPc, sessionKnown, registered, discPc>>
requestVars == <<pc, kind, decision, pendingReply, replies, crashed>>
capsVars    == <<caps, capsReply, capsPending, version, reached>>
vars == <<sessionVars, requestVars, capsVars, late>>

NoKind == "none"

Init ==
  /\ createPc = "idle" /\ sessionKnown = FALSE /\ registered = {}
  /\ discPc = "idle"
  /\ pc = [r \in Requests |-> "unsent"]
  /\ kind = [r \in Requests |-> NoKind]
  /\ decision = [r \in Requests |-> "none"]
  /\ pendingReply = [r \in Requests |-> "none"]
  /\ replies = [r \in Requests |-> <<>>]
  /\ crashed = FALSE
  /\ caps = 0 /\ capsReply = 0 /\ capsPending = {} /\ version = 0 /\ reached = 0
  /\ late = {}

----------------------------------------------------------------------------
(* CreateSession: the session is registered before the request is made, so *)
(* that events of the server find it.                                      *)

CreateSession(handlers) ==
  /\ createPc = "idle"
  /\ createPc' = "asked"
  /\ sessionKnown' = TRUE
  /\ registered' = handlers
  /\ UNCHANGED <<discPc, requestVars, capsVars, late>>

\* The server answers session.create with the capabilities of that moment.
CreateAnswered(ok) ==
  /\ createPc = "asked"
  /\ createPc' = IF ok THEN "answered" ELSE "refused"
  /\ capsReply' = version
  /\ UNCHANGED <<sessionKnown, registered, discPc, requestVars, caps, capsPending,
                 version, reached, late>>

CreateReturns ==
  /\ createPc = "answered"
  /\ createPc' = "created"
  /\ caps' = capsReply
  /\ UNCHANGED <<sessionKnown, registered, discPc, requestVars, capsReply,
                 capsPending, version, reached, late>>

CreateFails ==
  /\ createPc = "refused"
  /\ createPc' = "failed"
  /\ sessionKnown' = FALSE
  /\ UNCHANGED <<registered, discPc, requestVars, capsVars, late>>

\* DeleteSession, Stop and ForceStop take the session out of the map, at any
\* time: while CreateSession is waiting, too.
ForgetSession ==
  /\ sessionKnown
  /\ sessionKnown' = FALSE
  /\ UNCHANGED <<createPc, registered, discPc, requestVars, capsVars, late>>

----------------------------------------------------------------------------
(* Disconnect clears the handlers one kind after the other.  Those of user *)
(* input, hooks and transforms stay.                                       *)

Cleared == {"tool", "permission", "command", "elicitation"}

DiscStep(from, to) == discPc = from /\ discPc' = to

\* The application disconnects a session it was given, Stop any in the map.
Disconnect ==
  /\ createPc = "created" \/ sessionKnown
  /\ DiscStep("idle", "asked")
  /\ UNCHANGED <<createPc, sessionKnown, registered, requestVars, capsVars, late>>

DestroyAnswered(ok) ==
  /\ DiscStep("asked", IF ok THEN "tool" ELSE "failed")
  /\ UNCHANGED <<createPc, sessionKnown, registered, requestVars, capsVars, late>>

ClearNext == [tool |-> "permission", permission |-> "command",
              command |-> "elicitation", elicitation |-> "done"]

\* Mutant of ClearHandler: the handler of elicitations stays.
ClearHandlerButElicitation ==
  /\ discPc \in Cleared
  /\ registered' = registered \ ({discPc} \ {"elicitation"})
  /\ discPc' = ClearNext[discPc]
  /\ UNCHANGED <<createPc, sessionKnown, requestVars, capsVars, late>>

ClearHandler ==
  /\ discPc \in Cleared
  /\ registered' = registered \ {discPc}
  /\ discPc' = ClearNext[discPc]
  /\ UNCHANGED <<createPc, sessionKnown, requestVars, capsVars, late>>

----------------------------------------------------------------------------
(* Requests *)

\* No handler will ever see a request of this kind that arrives now.
Gone(k) ==
  \/ ~sessionKnown
  \/ discPc = "done" /\ Slot(k) \in Cleared

\* A broadcast is an event: readLoop drops it when the session is not known
\* and starts the goroutine of handleBroadcastEvent otherwise.
BroadcastArrives(r, k) ==
  /\ pc[r] = "unsent" /\ k \in Broadcasts
  /\ createPc # "idle"
  /\ kind' = [kind EXCEPT ![r] = k]
  /\ pc' = [pc EXCEPT ![r] = IF sessionKnown THEN "lookup" ELSE "done"]
  /\ late' = IF Gone(k) THEN late \cup {r} ELSE late
  /\ UNCHANGED <<sessionVars, decision, pendingReply, replies, crashed, capsVars>>

\* A call gets its goroutine before the session is looked up.
CallArrives(r, k) ==
  /\ pc[r] = "unsent" /\ k \in Calls
  /\ createPc # "idle"
  /\ kind' = [kind EXCEPT ![r] = k]
  /\ pc' = [pc EXCEPT ![r] = "session"]
  /\ late' = IF Gone(k) THEN late \cup {r} ELSE late
  /\ UNCHANGED <<sessionVars, decision, pendingReply, replies, crashed, capsVars>>

\* Mutant of Answer: the return is missing when there is nothing to send.
AnswerAlways(r, what) ==
  /\ pendingReply' = [pendingReply EXCEPT ![r] = what]
  /\ pc' = [pc EXCEPT ![r] = "send"]

\* The goroutine goes on to send a reply, or ends if there is none to send.
Answer(r, what) ==
  /\ pendingReply' = [pendingReply EXCEPT ![r] = what]
  /\ pc' = [pc EXCEPT ![r] = IF what = "none" THEN "done" ELSE "send"]

LookupSession(r) ==
  /\ pc[r] = "session"
  /\ \/ sessionKnown /\ pc' = [pc EXCEPT ![r] = "lookup"] /\ UNCHANGED pendingReply
     \/ ~sessionKnown /\ Answer(r, "unknownSession")
  /\ UNCHANGED <<sessionVars, kind, decision, replies, crashed, capsVars, late>>

\* The answer when no handler is registered.
NoHandlerReply(k) ==
  CASE k \in {"tool", "permission", "elicitation"} -> "none"
    [] k = "command"            -> "error"
    [] k = "tool.call"          -> "failure"
    [] k = "permission.request" -> "denied"
    [] k = "userInput"          -> "error"
    [] k \in {"hooks", "transform"} -> "unchanged"

\* The handler of an elicitation is looked up twice.
LookupHandler(r) ==
  /\ pc[r] \in {"lookup", "lookup2"}
  /\ IF Slot(kind[r]) \in registered
     THEN /\ pc' = [pc EXCEPT ![r] =
                 IF kind[r] = "elicitation" /\ pc[r] = "lookup" THEN "lookup2" ELSE "run"]
          /\ UNCHANGED pendingReply
     ELSE Answer(r, NoHandlerReply(kind[r]))
  /\ UNCHANGED <<sessionVars, kind, decision, replies, crashed, capsVars, late>>

\* Mutant of ReplyFor: the error of a permission handler is not looked at.
ReplyForErrorIgnored(k, d) ==
  IF k \in {"permission", "permission.request"}
  THEN IF d = "denied" THEN "denied" ELSE "approved"
  ELSE IF d = "ok" THEN "result" ELSE "error"

\* The answer to what the handler did.  Tool and permission broadcasts recover
\* from a panic themselves, calls are recovered by the connection.
ReplyFor(k, d) ==
  CASE k = "tool" -> IF d = "ok" THEN "result" ELSE "error"
    [] k = "tool.call" ->
         IF d = "ok" THEN "result" ELSE IF d = "error" THEN "failure" ELSE "error"
    [] k = "permission" ->
         IF d = "noResult" THEN "none" ELSE IF d = "approved" THEN "approved" ELSE "denied"
    [] k = "permission.request" ->
         IF d \in {"noResult", "panic"} THEN "error"
         ELSE IF d = "approved" THEN "approved" ELSE "denied"
    [] k = "elicitation" -> IF d = "ok" THEN "result" ELSE "cancel"
    [] k = "transform" ->
         IF d = "ok" THEN "result" ELSE IF d = "error" THEN "unchanged" ELSE "error"
    [] OTHER -> IF d = "ok" THEN "result" ELSE "error"

\* Nothing recovers a panic of these handlers: it ends the program.
Unrecovered(k) == k \in {"command", "elicitation"}

\* Mutant of HandlerEnds: nothing is sent when the handler fails.
HandlerEndsSilently(r, d) ==
  /\ pc[r] = "run" /\ d \in Decisions(kind[r])
  /\ decision' = [decision EXCEPT ![r] = d]
  /\ Answer(r, IF d = "error" THEN "none" ELSE ReplyFor(kind[r], d))
  /\ UNCHANGED <<sessionVars, kind, replies, crashed, capsVars, late>>

HandlerEnds(r, d) ==
  /\ pc[r] = "run" /\ d \in Decisions(kind[r])
  /\ decision' = [decision EXCEPT ![r] = d]
  /\ IF d = "panic" /\ Unrecovered(kind[r])
     THEN crashed' = TRUE /\ UNCHANGED <<pc, pendingReply>>
     ELSE Answer(r, ReplyFor(kind[r], d)) /\ UNCHANGED crashed
  /\ UNCHANGED <<sessionVars, kind, replies, capsVars, late>>

SendReply(r) ==
  /\ pc[r] = "send"
  /\ replies' = [replies EXCEPT ![r] = Append(@, pendingReply[r])]
  /\ pc' = [pc EXCEPT ![r] = "done"]
  /\ UNCHANGED <<sessionVars, kind, decision, pendingReply, crashed, capsVars, late>>

----------------------------------------------------------------------------
(* capabilities.changed: a goroutine for each event sets what it carries   *)

CapabilitiesChange ==
  /\ createPc # "idle" /\ version < MaxVersion
  /\ version' = version + 1
  /\ IF sessionKnown THEN /\ capsPending' = capsPending \cup {version + 1}
                          /\ reached' = version + 1
                     ELSE UNCHANGED <<capsPending, reached>>
  /\ UNCHANGED <<sessionVars, requestVars, caps, capsReply, late>>

setCapabilities(v) ==
  /\ v \in capsPending
  /\ capsPending' = capsPending \ {v}
  /\ caps' = v
  /\ UNCHANGED <<sessionVars, requestVars, capsReply, version, reached, late>>

----------------------------------------------------------------------------
Session ==
  \/ \E s \in HandlerSets : CreateSession(s)
  \/ CreateReturns \/ CreateFails \/ ForgetSession \/ Disconnect \/ ClearHandler

Goroutine(r) ==
  \/ LookupSession(r) \/ LookupHandler(r) \/ SendReply(r)
  \/ \E d \in Decisions(kind[r]) : HandlerEnds(r, d)

Server ==
  \/ \E r \in Requests, k \in Kinds : BroadcastArrives(r, k) \/ CallArrives(r, k)
  \/ \E ok \in BOOLEAN : CreateAnswered(ok) \/ DestroyAnswered(ok)
  \/ CapabilitiesChange

Next ==
  /\ ~crashed
  /\ \/ Session \/ Server
     \/ \E r \in Requests : Goroutine(r)
     \/ \E v \in capsPending : setCapabilities(v)

Spec == Init /\ [][Next]_vars

(***************************************************************************)
(* Goroutines are scheduled fairly and handlers end; nothing is assumed of *)
(* the application and of the server.                                      *)
(***************************************************************************)
FairSpec == Spec /\ \A r \in Requests : WF_vars(~crashed /\ Goroutine(r))

----------------------------------------------------------------------------
(* Properties *)

Replies == {"result", "error", "failure", "approved", "denied", "cancel",
            "unchanged", "unknownSession"}

\* Every variable has its type.
TypeOK ==
  /\ createPc \in {"idle", "asked", "answered", "refused", "created", "failed"}
  /\ sessionKnown \in BOOLEAN /\ registered \subseteq Slots
  /\ discPc \in {"idle", "asked", "failed", "done"} \cup Cleared
  /\ pc \in [Requests -> {"unsent", "session", "lookup", "lookup2", "run", "send",
                          "done"}]
  /\ kind \in [Requests -> Kinds \cup {NoKind}]
  /\ decision \in [Requests -> {"none", "ok", "approved", "denied", "noResult",
                                "error", "panic"}]
  /\ pendingReply \in [Requests -> Replies \cup {"none"}]
  /\ replies \in [Requests -> Seq(Replies)]
  /\ crashed \in BOOLEAN
  /\ caps \in Nat /\ capsReply \in Nat /\ version \in Nat /\ reached \in Nat
  /\ capsPending \subseteq 1..version
  /\ late \subseteq Requests

\* A request is answered at most once, with an approval only if the handler
\* approved and with a result only if it succeeded, whatever it did
\* (executePermissionAndRespond, executeToolAndRespond and their like).
RepliesEarned ==
  \A r \in Requests :
    /\ Len(replies[r]) <= 1
    /\ \A i \in 1..Len(replies[r]) :
         /\ replies[r][i] = "approved" => decision[r] = "approved"
         /\ replies[r][i] = "result" => decision[r] = "ok"

\* A request that arrives after Disconnect returned, after the session was
\* forgotten or after its creation failed does not reach the application
\* (the clearing in Disconnect and the deletions from c.sessions).
LateRequestsUnseen ==
  \A r \in late : decision[r] = "none" /\ pc[r] # "run"

\* A JSON-RPC call is always answered, and a broadcast whose handler was started
\* is too, unless a permission handler leaves it to others (a failed handler
\* must not leave the server waiting).
StartedRequestsAnswered ==
  \A r \in Requests :
    /\ pc[r] = "session" ~> (replies[r] # <<>> \/ crashed)
    /\ pc[r] = "run" ~> (replies[r] # <<>> \/ decision[r] = "noResult" \/ crashed)
=============================================================================
