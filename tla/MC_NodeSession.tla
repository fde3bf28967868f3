-------------------------- MODULE MC_NodeSession ---------------------------
(***************************************************************************)
(* A small instance of NodeSession: two tasks, a typed and an untyped      *)
(* handler of the session and one of the client, one request of each kind; *)
(* behaviours full of turns, of changes to the subscribers, of             *)
(* disconnects and lost connections, or of requests.                       *)
(***************************************************************************)
EXTENDS NodeSession, TLC

CONSTANTS t1, t2, typed, every, lifecycle

Subscription(of, type) == [of |-> of, type |-> type]
MCSubject == (typed :> Subscription("session", "message")) @@ (every :> Subscription("session", "*"))
             @@ (lifecycle :> Subscription("client", "*"))

Limit(ops, first, second, types, events, changes, kind, handled, lose) ==
  [ops |-> ops, calls |-> (t1 :> first) @@ (t2 :> second), types |-> types, events |-> events,
   changes |-> changes, kind |-> [r \in Requests |-> kind], handled |-> handled, lose |-> lose]

MCLimits ==
  {Limit({"sendAndWait"}, 1, 1, TurnEvents, 3, 0, "none", TRUE, FALSE),
   Limit({"sendAndWait"}, 2, 0, TurnEvents, 4, 0, "none", TRUE, FALSE),
   Limit({"sendAndWait", "disconnect"}, 1, 1, {"message", "idle"}, 2, 0, "none", TRUE, TRUE),
   Limit({"send", "elicit", "request"}, 1, 0, {"capabilities"}, 3, 0, "none", TRUE, TRUE),
   Limit({"sendAndWait"}, 1, 0, {"message", "lifecycle"}, 2, 3, "none", TRUE, FALSE)}
  \cup {Limit({"disconnect"}, 1, 0, {}, 0, 0, kind, handled, TRUE) :
          kind \in Broadcast \cup Routed, handled \in BOOLEAN}
=============================================================================
