-------------------------- MODULE MCQuerySessions --------------------------
(* One request, and one remote interest beside it.  The behaviours are       *)
(* split by scope: two operations of the engine alone under its own clocks   *)
(* and failures; one beside an interest with everything that can retire it;  *)
(* and the queries that wait or only look for candidates.                    *)
EXTENDS QuerySessions
MCInstanceOf == [r \in Requests |-> CHOOSE i \in Instances : TRUE]
MCLimits == [session |-> 2, active |-> 2, sessionWarming |-> 1, warming |-> 1,
             preparations |-> 1, operations |-> 2]
Scope(lens, intents, ops, interests, faults) ==
  [lens |-> lens, intents |-> intents, ops |-> ops, interests |-> interests, faults |-> faults]
MCScopes == {
  Scope({1}, {"lookup"}, 2, 0, {"session", "response", "expiry", "deadline", "unregister", "lease"}),
  Scope({1, 3}, {"lookup"}, 2, 0, {"expiry", "stop"}),
  Scope({2}, {"lookup", "recovery"}, 2, 0, {"session", "deadline"}),
  Scope({3}, {"lookup"}, 1, 1, {"session", "interest", "unregister", "stop"}),
  Scope({2}, {"wait", "candidates"}, 1, 0, {"session", "expiry", "response"})}
=============================================================================
