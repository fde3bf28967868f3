-------------------------- MODULE GoRequestsProofs --------------------------
(***************************************************************************)
(* Safety of what a Go session does for the server (GoRequests), for any   *)
(* number of requests of any kind, racing the creation of the session, its *)
(* Disconnect and its removal from the client: types, earned replies, and  *)
(* that a session which is gone calls no handler any more.                 *)
(***************************************************************************)
EXTENDS GoRequests, SequenceTheorems, TLAPS

ReplyTypes == Replies \cup {"none"}
Before == {"unsent", "session", "lookup", "lookup2", "run"}

\* A request that arrived has a kind; a reply that is about to be sent is one.
KindsKnown ==
  \A r \in Requests :
    /\ pc[r] # "unsent" => kind[r] \in Kinds
    /\ pc[r] = "send" => pendingReply[r] # "none"

Typed == TypeOK /\ KindsKnown

\* A session that was not created yet is not known and nobody disconnects it.
CreatedFirst == createPc = "idle" => ~sessionKnown /\ discPc = "idle"

\* What Disconnect has cleared so far.
ClearedBy == [idle |-> {}, asked |-> {}, failed |-> {}, tool |-> {}, permission |-> {"tool"},
              command |-> {"tool", "permission"},
              elicitation |-> {"tool", "permission", "command"}, done |-> Cleared]
ClearedStays == registered \cap ClearedBy[discPc] = {}

\* One reply is sent, in the step that ends the goroutine, and it was earned.
Earned(reply, what) ==
  (reply = "approved" => what = "approved") /\ (reply = "result" => what = "ok")
EarnedInv ==
  \A r \in Requests :
    /\ pc[r] \in Before => decision[r] = "none" \/ crashed
    /\ pc[r] \in Before \cup {"send"} => replies[r] = <<>>
    /\ pc[r] = "send" => Earned(pendingReply[r], decision[r])
    /\ pc[r] = "done" =>
         \/ replies[r] = <<>>
         \/ replies[r] = <<pendingReply[r]>> /\ Earned(pendingReply[r], decision[r])

\* A late request finds no session, or no handler, wherever it looks next.
Unseen(r) ==
  /\ createPc # "idle"
  /\ decision[r] = "none"
  /\ \/ ~sessionKnown /\ pc[r] \in {"session", "send", "done"}
     \/ /\ discPc = "done" /\ Slot(kind[r]) \in Cleared
        /\ pc[r] \in {"session", "lookup", "send", "done"}
LateInv == \A r \in late : Unseen(r)

Inv == Typed /\ CreatedFirst /\ ClearedStays /\ EarnedInv /\ LateInv

USE ConstantsAssumption

----------------------------------------------------------------------------
(* Replies *)

\* Every decision of a handler, and a missing handler, has a reply of its own
\* (the executeXAndRespond and handleXRequest methods).
LEMMA ReplyForTyped ==
  ASSUME NEW k \in Kinds, NEW d \in Decisions(k)
  PROVE  ReplyFor(k, d) \in ReplyTypes /\ Earned(ReplyFor(k, d), d)
BY DEF ReplyFor, Decisions, Slot, Kinds, Broadcasts, Calls, ReplyTypes, Replies, Earned

LEMMA NoHandlerReplyTyped ==
  ASSUME NEW k \in Kinds
  PROVE  NoHandlerReply(k) \in ReplyTypes /\ NoHandlerReply(k) \notin {"approved", "result"}
BY DEF NoHandlerReply, Kinds, Broadcasts, Calls, ReplyTypes, Replies

LEMMA DecisionsTyped ==
  ASSUME NEW k, NEW d \in Decisions(k)
  PROVE  d \in {"ok", "approved", "denied", "noResult", "error", "panic"}
BY DEF Decisions

\* The kinds of requests have handlers.
LEMMA SlotTyped == ASSUME NEW k \in Kinds PROVE Slot(k) \in Slots
BY DEF Slot, Kinds, Broadcasts, Calls, Slots

----------------------------------------------------------------------------
(* Initial states and the steps of the session *)

LEMMA InitInv == Init => Inv
<1> SUFFICES ASSUME Init PROVE Inv OBVIOUS
<1>1. Typed
  BY EmptySeq DEF Init, Typed, TypeOK, KindsKnown
<1>2. CreatedFirst /\ ClearedStays
  BY DEF Init, CreatedFirst, ClearedStays
<1>3. EarnedInv /\ LateInv
  BY DEF Init, EarnedInv, LateInv
<1> QED
  BY <1>1, <1>2, <1>3 DEF Inv

\* The steps of the session: creation, removal, Disconnect, capabilities.
SessionNext ==
  \/ Session \/ CapabilitiesChange \/ \E v \in capsPending : setCapabilities(v)
  \/ \E ok \in BOOLEAN : CreateAnswered(ok) \/ DestroyAnswered(ok)

\* They leave the requests alone, and bring back no session or handler that is gone.
LEMMA SessionEffect ==
  ASSUME Inv, SessionNext
  PROVE  /\ UNCHANGED <<requestVars, late>> /\ Typed' /\ CreatedFirst' /\ ClearedStays'
         /\ createPc # "idle" => createPc' # "idle"
         /\ createPc # "idle" /\ ~sessionKnown => ~sessionKnown'
         /\ discPc = "done" => discPc' = "done"
<1> USE DEF Inv, Typed, TypeOK, KindsKnown, requestVars, sessionVars, capsVars,
            CreatedFirst, ClearedStays
<1>1. CASE \E s \in HandlerSets : CreateSession(s)
  BY <1>1 DEF CreateSession, ClearedBy
<1>2. CASE CreateReturns
  BY <1>2 DEF CreateReturns
<1>3. CASE CreateFails \/ ForgetSession
  BY <1>3 DEF CreateFails, ForgetSession
<1>4. CASE Disconnect
  BY <1>4 DEF Disconnect, DiscStep, ClearedBy
<1>5. CASE ClearHandler
  BY <1>5 DEF ClearHandler, Cleared, ClearNext, ClearedBy
<1>6. CASE CapabilitiesChange
  <2>1. UNCHANGED <<requestVars, late, sessionVars, caps, capsReply>>
    BY <1>6 DEF CapabilitiesChange
  <2>2. version' \in Nat /\ reached' \in Nat /\ capsPending' \subseteq 1..version'
    <3>1. version \in Nat /\ version' = version + 1 /\ capsPending \subseteq 1..version
          /\ capsPending' \subseteq capsPending \cup {version + 1}
          /\ reached' \in {reached, version + 1} /\ reached \in Nat
      BY <1>6 DEF CapabilitiesChange
    <3>2. \A v \in capsPending' : v \in 1..version + 1
      BY <3>1
    <3> QED
      BY <3>1, <3>2
  <2> QED
    BY <2>1, <2>2
<1>7. CASE \E v \in capsPending : setCapabilities(v)
  <2>1. PICK v \in capsPending : setCapabilities(v)
    BY <1>7
  <2>2. /\ UNCHANGED <<requestVars, late, sessionVars, version, capsReply, reached>>
        /\ caps' \in Nat /\ capsPending' \subseteq 1..version
    BY <2>1 DEF setCapabilities
  <2> QED
    BY <2>2
<1>8. CASE \E ok \in BOOLEAN : CreateAnswered(ok)
  BY <1>8 DEF CreateAnswered
<1>9. CASE \E ok \in BOOLEAN : DestroyAnswered(ok)
  <2>1. /\ UNCHANGED <<createPc, sessionKnown, registered, requestVars, capsVars, late>>
        /\ discPc = "asked" /\ discPc' \in {"tool", "failed"}
    BY <1>9 DEF DestroyAnswered, DiscStep
  <2>2. registered \cap ClearedBy[discPc'] = {} /\ discPc' \in {"failed"} \cup Cleared
    BY <2>1 DEF ClearedBy, Cleared
  <2> QED
    BY <2>1, <2>2
<1> QED
  BY <1>1, <1>2, <1>3, <1>4, <1>5, <1>6, <1>7, <1>8, <1>9 DEF SessionNext, Session

LEMMA SessionStep == ASSUME Inv, SessionNext PROVE Inv'
<1>1. EarnedInv'
  BY SessionEffect DEF Inv, EarnedInv, requestVars
<1>2. LateInv'
  BY SessionEffect DEF Inv, LateInv, Unseen, requestVars
<1> QED
  BY <1>1, <1>2, SessionEffect DEF Inv

----------------------------------------------------------------------------
(* The steps of a request *)

LEMMA SessionKept ==
  ASSUME Inv, UNCHANGED sessionVars
  PROVE  CreatedFirst' /\ ClearedStays'
BY DEF Inv, sessionVars, CreatedFirst, ClearedStays

\* An arrival gives the request its kind; it is late when no handler can see it.
LEMMA ArrivesStep ==
  ASSUME Inv, ~crashed, NEW r \in Requests, NEW k \in Kinds,
         BroadcastArrives(r, k) \/ CallArrives(r, k)
  PROVE  Inv'
<1> USE DEF Inv, Typed
<1>1. /\ pc[r] = "unsent" /\ createPc # "idle"
      /\ kind' = [kind EXCEPT ![r] = k]
      /\ pc' = [pc EXCEPT ![r] = IF k \in Calls THEN "session"
                                 ELSE IF sessionKnown THEN "lookup" ELSE "done"]
      /\ late' = IF Gone(k) THEN late \cup {r} ELSE late
      /\ UNCHANGED <<sessionVars, decision, pendingReply, replies, crashed, capsVars>>
  BY DEF BroadcastArrives, CallArrives, Kinds, Broadcasts, Calls
<1>2. Typed'
  BY <1>1 DEF TypeOK, KindsKnown, sessionVars, capsVars
<1>3. EarnedInv'
  BY <1>1 DEF EarnedInv, TypeOK, Before
<1>4. ASSUME NEW q \in late' PROVE Unseen(q)'
  <2>1. CASE q = r /\ r \notin late
    BY <1>1, <2>1 DEF EarnedInv, Unseen, TypeOK, Gone, sessionVars, Before
  <2>2. CASE q \in late
    BY <1>1, <2>2 DEF LateInv, Unseen, TypeOK, sessionVars
  <2> QED
    BY <1>1, <2>1, <2>2
<1> QED
  BY <1>1, <1>2, <1>3, <1>4, SessionKept DEF LateInv

\* What the goroutine of a request does; it is the only one that touches the request.
LEMMA LookupSessionStep ==
  ASSUME Inv, ~crashed, NEW r \in Requests, LookupSession(r)
  PROVE  Inv'
<1> USE DEF Inv, Typed, LookupSession, Answer
<1>1. Typed'
  BY DEF TypeOK, KindsKnown, sessionVars, capsVars, Replies
<1>2. EarnedInv'
  BY DEF EarnedInv, TypeOK, Before, Earned
<1>3. LateInv'
  BY DEF LateInv, Unseen, TypeOK, sessionVars
<1> QED
  BY <1>1, <1>2, <1>3, SessionKept

LEMMA LookupHandlerStep ==
  ASSUME Inv, ~crashed, NEW r \in Requests, LookupHandler(r)
  PROVE  Inv'
<1> USE DEF Inv, Typed
<1> DEFINE nextPc == IF kind[r] = "elicitation" /\ pc[r] = "lookup" THEN "lookup2" ELSE "run"
           reply == NoHandlerReply(kind[r])
<1>1. /\ pc[r] \in {"lookup", "lookup2"} /\ kind[r] \in Kinds
      /\ UNCHANGED <<sessionVars, kind, decision, replies, crashed, capsVars, late>>
      /\ reply \in ReplyTypes /\ reply \notin {"approved", "result"}
      /\ \/ /\ Slot(kind[r]) \in registered
            /\ pc' = [pc EXCEPT ![r] = nextPc] /\ UNCHANGED pendingReply
         \/ /\ pendingReply' = [pendingReply EXCEPT ![r] = reply]
            /\ pc' = [pc EXCEPT ![r] = IF reply = "none" THEN "done" ELSE "send"]
  BY NoHandlerReplyTyped DEF LookupHandler, Answer, KindsKnown, TypeOK
<1> HIDE DEF reply
<1>2. Typed'
  <2>1. TypeOK'
    <3> DEFINE P == Before \cup {"send", "done"}
    <3>0. pc \in [Requests -> P] /\ pendingReply \in [Requests -> ReplyTypes]
      BY DEF TypeOK, Before, ReplyTypes
    <3>1. \E p \in P : pc' = [pc EXCEPT ![r] = p]
      BY <1>1, <3>0 DEF Before
    <3>2. \E q \in ReplyTypes : pendingReply' = [pendingReply EXCEPT ![r] = q]
      BY <1>1, <3>0
    <3>3. pc' \in [Requests -> P] /\ pendingReply' \in [Requests -> ReplyTypes]
      BY <3>0, <3>1, <3>2
    <3>4. /\ decision' \in [Requests -> {"none", "ok", "approved", "denied", "noResult",
                                         "error", "panic"}]
          /\ crashed' \in BOOLEAN
      BY <1>1 DEF TypeOK
    <3> QED
      BY <1>1, <3>3, <3>4 DEF TypeOK, sessionVars, capsVars, ReplyTypes, Before
  <2>2. KindsKnown'
    BY <1>1 DEF TypeOK, KindsKnown
  <2> QED
    BY <2>1, <2>2
<1>3. EarnedInv'
  BY <1>1 DEF EarnedInv, TypeOK, Before, Earned
<1>4. ASSUME NEW q \in late PROVE Unseen(q)'
  <2>1. Unseen(q) /\ q \in Requests
    BY DEF LateInv, TypeOK
  <2>2. CASE q # r
    BY <1>1, <2>1, <2>2 DEF Unseen, TypeOK, sessionVars
  <2>3. CASE q = r
    <3>1. discPc = "done" /\ Slot(kind[r]) \in Cleared /\ Slot(kind[r]) \notin registered
      BY <1>1, <2>1, <2>3 DEF Unseen, ClearedStays, ClearedBy
    <3> QED
      BY <1>1, <2>1, <2>3, <3>1 DEF Unseen, TypeOK, sessionVars
  <2> QED
    BY <2>2, <2>3
<1> QED
  BY <1>1, <1>2, <1>3, <1>4, SessionKept DEF LateInv

LEMMA HandlerEndsStep ==
  ASSUME Inv, ~crashed, NEW r \in Requests, NEW d \in Decisions(kind[r]), HandlerEnds(r, d)
  PROVE  Inv'
<1> USE DEF Inv, Typed
<1> DEFINE reply == ReplyFor(kind[r], d)
<1>1. /\ pc[r] = "run" /\ kind[r] \in Kinds /\ r \notin late
      /\ decision' = [decision EXCEPT ![r] = d]
      /\ d \in {"ok", "approved", "denied", "noResult", "error", "panic"}
      /\ UNCHANGED <<sessionVars, kind, replies, capsVars, late>>
      /\ reply \in ReplyTypes /\ Earned(reply, d)
      /\ \/ crashed' = TRUE /\ UNCHANGED <<pc, pendingReply>>
         \/ /\ pendingReply' = [pendingReply EXCEPT ![r] = reply]
            /\ pc' = [pc EXCEPT ![r] = IF reply = "none" THEN "done" ELSE "send"]
            /\ UNCHANGED crashed
  BY ReplyForTyped, DecisionsTyped DEF HandlerEnds, Answer, KindsKnown, TypeOK, LateInv, Unseen
<1> HIDE DEF reply
<1>2. Typed'
  <2>1. TypeOK'
    <3> DEFINE P == Before \cup {"send", "done"}
    <3>0. pc \in [Requests -> P] /\ pendingReply \in [Requests -> ReplyTypes]
      BY DEF TypeOK, Before, ReplyTypes
    <3>1. \E p \in P : pc' = [pc EXCEPT ![r] = p]
      BY <1>1, <3>0 DEF Before
    <3>2. \E q \in ReplyTypes : pendingReply' = [pendingReply EXCEPT ![r] = q]
      BY <1>1, <3>0
    <3>3. pc' \in [Requests -> P] /\ pendingReply' \in [Requests -> ReplyTypes]
      BY <3>0, <3>1, <3>2
    <3>4. /\ decision' \in [Requests -> {"none", "ok", "approved", "denied", "noResult",
                                         "error", "panic"}]
          /\ crashed' \in BOOLEAN
      BY <1>1 DEF TypeOK
    <3> QED
      BY <1>1, <3>3, <3>4 DEF TypeOK, sessionVars, capsVars, ReplyTypes, Before
  <2>2. KindsKnown'
    BY <1>1 DEF TypeOK, KindsKnown
  <2> QED
    BY <2>1, <2>2
<1>3. EarnedInv'
  BY <1>1 DEF EarnedInv, TypeOK, Before
<1>4. LateInv'
  BY <1>1 DEF LateInv, Unseen, TypeOK, sessionVars
<1> QED
  BY <1>1, <1>2, <1>3, <1>4, SessionKept

\* The one reply of a request ends its goroutine.
LEMMA SendReplyStep ==
  ASSUME Inv, ~crashed, NEW r \in Requests, SendReply(r)
  PROVE  Inv'
<1> USE DEF Inv, Typed, SendReply
<1>1. /\ pendingReply[r] \in Replies /\ replies[r] = <<>>
  BY DEF TypeOK, KindsKnown, EarnedInv
<1>5. /\ Append(replies[r], pendingReply[r]) = <<pendingReply[r]>>
      /\ <<pendingReply[r]>> \in Seq(Replies)
  BY <1>1
<1>2. Typed'
  BY <1>1, <1>5 DEF TypeOK, KindsKnown, sessionVars, capsVars
<1>3. EarnedInv'
  BY <1>1, <1>5 DEF EarnedInv, TypeOK, Before
<1>4. LateInv'
  BY DEF LateInv, Unseen, TypeOK, sessionVars
<1> QED
  BY <1>2, <1>3, <1>4, SessionKept

----------------------------------------------------------------------------
(* Theorems *)

LEMMA Inductive == Spec => []Inv
<1>1. Inv /\ [Next]_vars => Inv'
  <2> SUFFICES ASSUME Inv, [Next]_vars PROVE Inv' OBVIOUS
  <2>1. CASE UNCHANGED vars
    BY <2>1 DEF vars, sessionVars, requestVars, capsVars, Inv, Typed, TypeOK, KindsKnown,
                CreatedFirst, ClearedStays, EarnedInv, LateInv, Unseen
  <2>2. CASE ~crashed /\ SessionNext
    BY <2>2, SessionStep
  <2>3. ASSUME ~crashed, NEW r \in Requests, Goroutine(r) PROVE Inv'
    BY <2>3, LookupSessionStep, LookupHandlerStep, HandlerEndsStep, SendReplyStep DEF Goroutine
  <2>4. ASSUME ~crashed, NEW r \in Requests, NEW k \in Kinds,
               BroadcastArrives(r, k) \/ CallArrives(r, k)
        PROVE  Inv'
    BY <2>4, ArrivesStep
  <2> QED
    BY <2>1, <2>2, <2>3, <2>4 DEF Next, Server, SessionNext
<1> QED
  BY InitInv, <1>1, PTL DEF Spec

\* Types, for any requests and handlers (all of go/session.go that GoRequests models).
THEOREM RequestsTyped == Spec => []TypeOK
<1>1. Inv => TypeOK BY DEF Inv, Typed
<1> QED BY <1>1, Inductive, PTL

\* The server gets at most one reply to a request, an approval only if the handler
\* approved, a result only if it succeeded, whatever errors, panics and disconnects there
\* were (the executeXAndRespond and handleXRequest methods).
THEOREM RepliesAreEarned == Spec => []RepliesEarned
<1>1. Inv => RepliesEarned
  <2> SUFFICES ASSUME Inv, NEW r \in Requests
               PROVE  /\ Len(replies[r]) <= 1
                      /\ \A i \in 1..Len(replies[r]) : Earned(replies[r][i], decision[r])
    BY DEF RepliesEarned, Earned
  <2>1. pc[r] \in Before \cup {"send", "done"}
    BY DEF Inv, Typed, TypeOK, Before
  <2>2. CASE replies[r] = <<>>
    BY <2>2
  <2>3. CASE replies[r] = <<pendingReply[r]>> /\ Earned(pendingReply[r], decision[r])
    BY <2>3
  <2> QED
    BY <2>1, <2>2, <2>3 DEF Inv, EarnedInv
<1> QED BY <1>1, Inductive, PTL

\* Once a Disconnect has returned, the session was forgotten or its creation failed, no
\* request that arrives reaches a handler that was taken away (Session.Disconnect,
\* Client.DeleteSession, Stop and ForceStop).
THEOREM LateRequestsStayUnseen == Spec => []LateRequestsUnseen
<1>1. Inv => LateRequestsUnseen BY DEF Inv, LateInv, Unseen, LateRequestsUnseen
<1> QED BY <1>1, Inductive, PTL
=============================================================================
