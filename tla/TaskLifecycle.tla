--------------------------- MODULE TaskLifecycle ---------------------------
(***************************************************************************)
(* What the task pipeline promises about one task, with no queue, lease,   *)
(* scan or crash in sight:                                                 *)
(*                                                                         *)
(*   - its status only takes the moves of the C-73 state machine, and a    *)
(*     rejected, completed or cancelled task never changes again;          *)
(*   - every authorisation to run the tool -- the approval, or a retry of  *)
(*     a failed run -- commits together with exactly one dispatch record,  *)
(*     and nothing else creates one.                                       *)
(*                                                                         *)
(* TaskDispatch is shown to implement this specification.                  *)
(***************************************************************************)
EXTENDS Naturals, TaskStatus

CONSTANT Tasks

VARIABLES
    status,      \* status[t] : the status column of task t
    dispatches   \* dispatches[t] : dispatch records written for task t

vars == <<status, dispatches>>

Init == /\ status = [t \in Tasks |-> "absent"]
        /\ dispatches = [t \in Tasks |-> 0]

Move(t, from, to) == /\ status[t] = from
                     /\ status' = [status EXCEPT ![t] = to]

Authorise(t) == dispatches' = [dispatches EXCEPT ![t] = @ + 1]

Request(t) == /\ Move(t, "absent", "pending")
              /\ UNCHANGED dispatches

Approve(t) == Move(t, "pending", "approved") /\ Authorise(t)

Retry(t) == Move(t, "failed", "executing") /\ Authorise(t)

Reject(t) == /\ Move(t, "pending", "rejected")
             /\ UNCHANGED dispatches

Cancel(t) == /\ status[t] \notin {"absent", "rejected", "completed", "cancelled"}
             /\ status' = [status EXCEPT ![t] = "cancelled"]
             /\ UNCHANGED dispatches

Begin(t) == /\ Move(t, "approved", "executing")
            /\ UNCHANGED dispatches

Finish(t) == /\ \E o \in Outcome : Move(t, "executing", o)
             /\ UNCHANGED dispatches

Next == \E t \in Tasks : \/ Request(t) \/ Approve(t) \/ Retry(t) \/ Reject(t)
                         \/ Cancel(t) \/ Begin(t) \/ Finish(t)

Spec == Init /\ [][Next]_vars
=============================================================================
