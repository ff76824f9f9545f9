----------------------------- MODULE MCToolCalls -----------------------------
(***************************************************************************)
(* What becomes of the calls of tools: of those an approval task waits for *)
(* (TaskDispatch), and of those that go out at once and share the tool's   *)
(* breaker (CircuitBreaker).  A worker has a breaker of its own for each   *)
(* job, so the two models share no variable, and a behaviour moves one of  *)
(* them while the other rests where it started.                            *)
(***************************************************************************)
EXTENDS TaskDispatch, CircuitBreaker

VARIABLE moves  \* the model that a behaviour moves

CallsInit == Init /\ BreakerInit /\ moves \in {"tasks", "calls"}
CallsNext ==
    \/ moves = "tasks" /\ Next /\ UNCHANGED <<breakerVars, moves>>
    \/ moves = "calls" /\ BreakerNext /\ UNCHANGED <<vars, moves>>

\* Neither model has a fair step enabled where it starts.
CallsSpec ==
    /\ CallsInit /\ [][CallsNext]_<<vars, breakerVars, moves>>
    /\ Fairness /\ BreakerFairness
=============================================================================
