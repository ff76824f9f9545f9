----------------------------- MODULE TaskStatus -----------------------------
(***************************************************************************)
(* The statuses of an approval task and the legal moves between them, as   *)
(* services/task_service.py, workers/process_task.py and the check         *)
(* constraint of models/task.py fix them.  Shared by the abstract life     *)
(* cycle (TaskLifecycle) and the dispatch pipeline (TaskDispatch).         *)
(***************************************************************************)

\* "absent" stands for a task that has not been requested yet.
Status == {"absent", "pending", "approved", "rejected", "executing",
           "completed", "failed", "cancelled"}

ValidTransitions ==
    [ pending   |-> {"approved", "rejected", "cancelled"},
      approved  |-> {"executing", "cancelled"},
      rejected  |-> {},
      executing |-> {"completed", "failed", "cancelled"},
      completed |-> {},
      failed    |-> {"executing", "cancelled"},
      cancelled |-> {} ]

\* The moves a client can ask for: the approve, reject and cancel routes and
\* the chat confirmation.  Retry has a route and a handler of its own.
Requestable == {"approved", "rejected", "cancelled"}

\* A worker may start a task in one of these, and only these are rescued.
Runnable == {"approved", "executing"}

Outcome == {"completed", "failed"}

=============================================================================
