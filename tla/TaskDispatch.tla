---------------------------- MODULE TaskDispatch ----------------------------
(***************************************************************************)
(* The approval-task pipeline: API requests decide on a task and write an  *)
(* outbox row, the row becomes a job on a Redis queue, a worker takes the  *)
(* row's execution lease, calls the tool and records the outcome, and      *)
(* three background scans repair what a crash left behind.                 *)
(*                                                                         *)
(* Postgres  : status, retryCount, overdue, rows, delivered                *)
(* Redis     : queue, lease, marker                                        *)
(* processes : req (API requests), wk (workers), scan, resc, exp (scans)   *)
(*                                                                         *)
(* An action is the code between two awaits that another process can be    *)
(* scheduled at; each process keeps what it read in its own record, so a   *)
(* stale read stays stale.                                                 *)
(***************************************************************************)
EXTENDS Naturals, FiniteSets, TaskStatus

CONSTANTS
    Tasks,               \* approval tasks
    Workers,             \* RQ workers
    Requests,            \* API requests that can be in flight together
    Replicas,            \* API replicas, each with its own scheduler
    MaxRetries,          \* the max_retries column
    MaxDispatch,         \* bound: outbox rows of one task
    MaxCopies,           \* bound: copies of one job waiting on the queue
    MaxFaults,           \* bound: crashes and store failures in a behaviour
    LiveLeaseMayExpire,  \* may a lease lapse while its holder still runs?
    Free, Orphan,        \* values of a lease no live worker holds
    None                 \* no dispatch

ASSUME BoundsAssumption ==
    /\ MaxRetries \in Nat /\ MaxDispatch \in Nat /\ MaxFaults \in Nat
    /\ MaxCopies \in Nat \ {0}
    /\ LiveLeaseMayExpire \in BOOLEAN

ASSUME LeaseValuesAssumption ==
    /\ Free \notin Workers /\ Orphan \notin Workers /\ Free # Orphan

\* The n-th outbox row of task t.
Dispatch == Tasks \X (1..MaxDispatch)

ASSUME NoneAssumption == None \notin Dispatch

VARIABLES
    status,      \* task -> status column
    retryCount,  \* task -> retry_count column
    overdue,     \* tasks whose expires_at has passed
    rows,        \* task -> number of outbox rows written for it
    delivered,   \* outbox rows with delivered_at set
    sent,        \* rows ever put on a queue (history)
    miscounted,  \* tasks whose retry_count a retry has set back (history)
    queue,       \* dispatch -> copies of its job waiting to be taken
    lease,       \* dispatch -> holder of task:lease:{outbox_id}
    marker,      \* dispatches with a task:rescue:{outbox_id} key
    req,         \* request -> what it has read and still has to do
    wk,          \* worker -> the job it runs
    scan,        \* replica -> reconciler: rows selected, row being sent
    resc,        \* replica -> rescue scan: rows selected, row being sent
    exp,         \* replica -> overdue tasks the expiry scan selected
    faults       \* faults so far

dbVars   == <<status, retryCount, overdue, rows, delivered, miscounted>>
jobVars  == <<sent, queue>>
keyVars  == <<lease, marker>>
procVars == <<req, wk, scan, resc, exp>>
vars     == <<dbVars, jobVars, keyVars, procVars, faults>>

-----------------------------------------------------------------------------
(* Shapes of the process-local state. *)

RequestRecord == [ step : {"idle", "commit", "retry", "enqueue", "claim"},
                   task : Tasks \cup {None}, from : Status, to : Status,
                   count : Nat, row : Nat ]

WorkerSteps == {"idle", "acquire", "load", "premove", "move", "check",
                "call", "record", "stop", "raised"}

WorkerRecord == [ step : WorkerSteps, job : Dispatch \cup {None},
                  seen : Status, outcome : Status, lost : BOOLEAN ]

ScanRecord == [batch : SUBSET Dispatch, cur : Dispatch \cup {None}]

IdleRequest == [step |-> "idle", task |-> None, from |-> "absent",
                to |-> "absent", count |-> 0, row |-> 0]
IdleWorker  == [step |-> "idle", job |-> None, seen |-> "absent",
                outcome |-> "absent", lost |-> FALSE]
IdleScan    == [batch |-> {}, cur |-> None]

\* A request that has read t and is about to write; one that has committed
\* the n-th row of t and is about to send it; a worker at a step of job d that
\* remembers nothing else.
Deciding(step, t, from, to, count) ==
    [step |-> step, task |-> t, from |-> from, to |-> to, count |-> count, row |-> 0]
Sending(t, n) == [step |-> "enqueue", task |-> t, from |-> "absent",
                  to |-> "absent", count |-> 0, row |-> n]
OnJob(step, d) == [step |-> step, job |-> d, seen |-> "absent",
                   outcome |-> "absent", lost |-> FALSE]

-----------------------------------------------------------------------------
(* Helpers. *)

TaskOf(d) == d[1]
Row(d)    == d[2]
Written   == {d \in Dispatch : Row(d) <= rows[TaskOf(d)]}

\* not_superseded: no newer outbox row of the same task.
Newest(d) == Row(d) = rows[TaskOf(d)]

Enqueue(d) ==
    /\ queue' = [queue EXCEPT ![d] = IF @ < MaxCopies THEN @ + 1 ELSE @]
    /\ sent' = sent \cup {d}

\* RQ after a job raised or its worker died: the job goes back on the queue
\* while its retry budget lasts, else it is given up.
Redeliver(d) ==
    /\ queue' \in {queue, [queue EXCEPT ![d] = IF @ < MaxCopies THEN @ + 1 ELSE @]}
    /\ UNCHANGED sent

Claim(d) == delivered' = delivered \cup {d}

SetStatus(t, to) == status' = [status EXCEPT ![t] = to]

Fault == faults < MaxFaults /\ faults' = faults + 1

\* Mutant: the UPDATE loses its condition on the status.
UnconditionalMove(t, from, to) == SetStatus(t, to)

\* The conditional UPDATE of process_task._transition.
MoveFrom(t, from, to) == status[t] \in from /\ SetStatus(t, to)

-----------------------------------------------------------------------------
Init ==
    /\ status = [t \in Tasks |-> "absent"]
    /\ retryCount = [t \in Tasks |-> 0]
    /\ overdue = {}
    /\ rows = [t \in Tasks |-> 0]
    /\ delivered = {} /\ sent = {} /\ marker = {} /\ miscounted = {}
    /\ queue = [d \in Dispatch |-> 0]
    /\ lease = [d \in Dispatch |-> Free]
    /\ req = [r \in Requests |-> IdleRequest]
    /\ wk = [w \in Workers |-> IdleWorker]
    /\ scan = [p \in Replicas |-> IdleScan]
    /\ resc = [p \in Replicas |-> IdleScan]
    /\ exp = [p \in Replicas |-> {}]
    /\ faults = 0

-----------------------------------------------------------------------------
(* The requester and the clock. *)

\* A gated tool call creates a pending task that nothing dispatches yet.
RequestApproval(t) ==
    /\ status[t] = "absent"
    /\ SetStatus(t, "pending")
    /\ UNCHANGED <<retryCount, overdue, rows, delivered, miscounted, jobVars, keyVars,
                   procVars, faults>>

\* expires_at passes; only a pending task's deadline is ever looked at.
Deadline(t) ==
    /\ status[t] = "pending" /\ t \notin overdue
    /\ overdue' = overdue \cup {t}
    /\ UNCHANGED <<status, retryCount, rows, delivered, miscounted, jobVars, keyVars,
                   procVars, faults>>

-----------------------------------------------------------------------------
(* API requests: TaskService.transition and TaskService.retry.  Each reads *)
(* the row, then writes under a condition on the status it read, then      *)
(* puts the dispatch on the queue and only then marks its row delivered.   *)

reqFrame == <<overdue, delivered, keyVars, wk, scan, resc, exp>>

MayTransition(t, to) ==
    /\ to \in Requestable
    /\ status[t] # "absent" /\ to \in ValidTransitions[status[t]]
    /\ to = "approved" => t \notin overdue

ReadTransition(r, t, to) ==
    /\ req[r].step = "idle" /\ MayTransition(t, to)
    /\ req' = [req EXCEPT ![r] = Deciding("commit", t, status[t], to, 0)]
    /\ UNCHANGED <<status, retryCount, rows, miscounted, jobVars, faults, reqFrame>>

\* Mutant: the UPDATE is keyed on the id alone, the optimistic lock is gone.
CommitTransitionBlind(r) ==
    LET t == req[r].task IN
    /\ req[r].step = "commit"
    /\ SetStatus(t, req[r].to)
    /\ IF req[r].to = "approved"
         THEN /\ rows[t] < MaxDispatch
              /\ rows' = [rows EXCEPT ![t] = @ + 1]
              /\ req' = [req EXCEPT ![r] = Sending(t, rows[t] + 1)]
         ELSE /\ req' = [req EXCEPT ![r] = IdleRequest]
              /\ UNCHANGED rows
    /\ UNCHANGED <<retryCount, miscounted, jobVars, faults, reqFrame>>

\* The write and, for an approval, the outbox row commit together.
CommitTransition(r) ==
    LET t == req[r].task IN
    /\ req[r].step = "commit"
    /\ status[t] = req[r].from
    /\ SetStatus(t, req[r].to)
    /\ IF req[r].to = "approved"
         THEN /\ rows[t] < MaxDispatch
              /\ rows' = [rows EXCEPT ![t] = @ + 1]
              /\ req' = [req EXCEPT ![r] = Sending(t, rows[t] + 1)]
         ELSE /\ req' = [req EXCEPT ![r] = IdleRequest]
              /\ UNCHANGED rows
    /\ UNCHANGED <<retryCount, miscounted, jobVars, faults, reqFrame>>

MayRetry(t) == status[t] = "failed" /\ retryCount[t] < MaxRetries

ReadRetry(r, t) ==
    /\ req[r].step = "idle" /\ MayRetry(t)
    /\ req' = [req EXCEPT ![r] =
                  Deciding("retry", t, "failed", "executing", retryCount[t])]
    /\ UNCHANGED <<status, retryCount, rows, miscounted, jobVars, faults, reqFrame>>

\* r has read a count that another retry has moved since, and the execution
\* which that retry caused has failed in turn.
Outrun(r) == LET t == req[r].task IN status[t] = "failed" /\ req[r].count # retryCount[t]

\* Mutant: the UPDATE is keyed on the id alone, the optimistic lock is gone.
CommitRetryBlind(r) ==
    LET t == req[r].task IN
    /\ req[r].step = "retry"
    /\ rows[t] < MaxDispatch
    /\ SetStatus(t, "executing")
    /\ retryCount' = [retryCount EXCEPT ![t] = req[r].count + 1]
    /\ miscounted' = IF Outrun(r) THEN miscounted \cup {t} ELSE miscounted
    /\ rows' = [rows EXCEPT ![t] = @ + 1]
    /\ req' = [req EXCEPT ![r] = Sending(t, rows[t] + 1)]
    /\ UNCHANGED <<jobVars, faults, reqFrame>>

\* The new retry_count is computed from the count that was read.
CommitRetry(r) ==
    LET t == req[r].task IN
    /\ req[r].step = "retry"
    /\ status[t] = "failed"
    /\ rows[t] < MaxDispatch
    /\ SetStatus(t, "executing")
    /\ retryCount' = [retryCount EXCEPT ![t] = req[r].count + 1]
    /\ miscounted' = IF Outrun(r) THEN miscounted \cup {t} ELSE miscounted
    /\ rows' = [rows EXCEPT ![t] = @ + 1]
    /\ req' = [req EXCEPT ![r] = Sending(t, rows[t] + 1)]
    /\ UNCHANGED <<jobVars, faults, reqFrame>>

\* rowcount = 0: somebody else moved the task since it was read (409).
RequestConflict(r) ==
    /\ req[r].step \in {"commit", "retry"}
    /\ status[req[r].task] # req[r].from
    /\ req' = [req EXCEPT ![r] = IdleRequest]
    /\ UNCHANGED <<status, retryCount, rows, miscounted, jobVars, faults, reqFrame>>

RequestEnqueue(r) ==
    /\ req[r].step = "enqueue"
    /\ Enqueue(<<req[r].task, req[r].row>>)
    /\ req' = [req EXCEPT ![r].step = "claim"]
    /\ UNCHANGED <<status, retryCount, rows, miscounted, faults, reqFrame>>

\* The queue is down: the row stays undelivered for the reconciler.
RequestEnqueueFails(r) ==
    /\ req[r].step = "enqueue"
    /\ Fault
    /\ req' = [req EXCEPT ![r] = IdleRequest]
    /\ UNCHANGED <<status, retryCount, rows, miscounted, jobVars, reqFrame>>

RequestClaim(r) ==
    /\ req[r].step = "claim"
    /\ Claim(<<req[r].task, req[r].row>>)
    /\ req' = [req EXCEPT ![r] = IdleRequest]
    /\ UNCHANGED <<status, retryCount, overdue, rows, miscounted, jobVars, keyVars,
                   wk, scan, resc, exp, faults>>

\* The API process dies, or its database call raises.
RequestCrash(r) ==
    /\ req[r].step \in {"commit", "retry", "claim"}
    /\ Fault
    /\ req' = [req EXCEPT ![r] = IdleRequest]
    /\ UNCHANGED <<status, retryCount, rows, miscounted, jobVars, reqFrame>>

-----------------------------------------------------------------------------
(* Workers: process_task.  Between any two steps the task, the lease and   *)
(* the queue may have been changed by somebody else.                       *)

workFrame == <<retryCount, overdue, rows, delivered, miscounted, marker, req, scan, resc, exp>>

\* w goes on to another step of the same job, remembers a status it read and an
\* outcome, or unwinds: all is forgotten and only the release is left.
Goto(w, step) == wk' = [wk EXCEPT ![w].step = step]
Advance(w, step, seen, outcome) ==
    wk' = [wk EXCEPT ![w] = [step |-> step, job |-> wk[w].job, seen |-> seen,
                             outcome |-> outcome, lost |-> wk[w].lost]]
Unwind(w, step) == wk' = [wk EXCEPT ![w] = OnJob(step, wk[w].job)]

Dequeue(w, d) ==
    /\ wk[w].step = "idle" /\ queue[d] > 0
    /\ queue' = [queue EXCEPT ![d] = @ - 1]
    /\ wk' = [wk EXCEPT ![w] = OnJob("acquire", d)]
    /\ UNCHANGED <<status, sent, lease, faults, workFrame>>

\* Mutant: SET without NX takes the lease over from a live holder.
AcquireWithoutNX(w) ==
    /\ wk[w].step = "acquire"
    /\ lease' = [lease EXCEPT ![wk[w].job] = w]
    /\ Goto(w, "load")
    /\ UNCHANGED <<status, jobVars, faults, workFrame>>

Acquire(w) ==
    /\ wk[w].step = "acquire" /\ lease[wk[w].job] = Free
    /\ lease' = [lease EXCEPT ![wk[w].job] = w]
    /\ Goto(w, "load")
    /\ UNCHANGED <<status, jobVars, faults, workFrame>>

\* The lease is taken: this delivery is dropped, it does not wait.
DropDuplicate(w) ==
    /\ wk[w].step = "acquire" /\ lease[wk[w].job] # Free
    /\ wk' = [wk EXCEPT ![w] = IdleWorker]
    /\ UNCHANGED <<status, jobVars, lease, faults, workFrame>>

\* The task is read.  A type without a handler or a tool that is gone fails
\* the task before it starts; from "approved" it passes through executing.
Load(w) ==
    LET s == status[TaskOf(wk[w].job)] IN
    /\ wk[w].step = "load"
    /\ \/ s \notin Runnable /\ Unwind(w, "stop")
       \/ /\ s \in Runnable
          /\ Advance(w, "move", s, "absent")
       \/ /\ s \in Runnable
          /\ Advance(w, IF s = "approved" THEN "premove" ELSE "record", s, "failed")
    /\ UNCHANGED <<status, jobVars, lease, faults, workFrame>>

\* _fail_before_execution, first half.
PreMove(w) ==
    /\ wk[w].step = "premove"
    /\ MoveFrom(TaskOf(wk[w].job), Runnable, "executing")
    /\ Goto(w, "record")
    /\ UNCHANGED <<jobVars, lease, faults, workFrame>>

\* _execute_tool: from_status := seen; executing before the call.
StartMove(w) ==
    /\ wk[w].step = "move"
    /\ MoveFrom(TaskOf(wk[w].job), Runnable, "executing")
    /\ Goto(w, "check")
    /\ UNCHANGED <<jobVars, lease, faults, workFrame>>

\* A cancel (or another outcome) landed before the move.
MoveMisses(w) ==
    /\ wk[w].step \in {"premove", "move"}
    /\ status[TaskOf(wk[w].job)] \notin Runnable
    /\ Unwind(w, "stop")
    /\ UNCHANGED <<status, jobVars, lease, faults, workFrame>>

\* The lease is checked, then whether the tool is still enabled.
CheckLease(w) ==
    /\ wk[w].step = "check"
    /\ \/ wk[w].lost /\ Unwind(w, "stop")
       \/ ~wk[w].lost /\ Goto(w, "call")
       \/ ~wk[w].lost /\ Advance(w, "record", wk[w].seen, "failed")
    /\ UNCHANGED <<status, jobVars, lease, faults, workFrame>>

\* The tool call ends, well or badly; its outcome counts only if the
\* heartbeat has not reported the lease lost.
CallEnds(w) ==
    /\ wk[w].step = "call"
    /\ \/ wk[w].lost /\ Unwind(w, "stop")
       \/ /\ ~wk[w].lost
          /\ \E o \in Outcome : Advance(w, "record", wk[w].seen, o)
    /\ UNCHANGED <<status, jobVars, lease, faults, workFrame>>

\* Only a running task is finished: a cancel is never overwritten.
Record(w) ==
    LET t == TaskOf(wk[w].job) IN
    /\ wk[w].step = "record"
    /\ \/ MoveFrom(t, {"executing"}, wk[w].outcome)
       \/ status[t] # "executing" /\ UNCHANGED status
    /\ Unwind(w, "stop")
    /\ UNCHANGED <<jobVars, lease, faults, workFrame>>

\* Mutant: a plain DEL, without comparing the token.
DeleteLease(w) == [lease EXCEPT ![wk[w].job] = Free]

\* The release script: delete the key only if it still holds our token.
ReleaseOf(w) ==
    IF lease[wk[w].job] = w THEN [lease EXCEPT ![wk[w].job] = Free] ELSE lease

\* The job ends: the heartbeat stops, then the lease is released.
StopLease(w) ==
    /\ wk[w].step = "stop"
    /\ lease' = ReleaseOf(w)
    /\ wk' = [wk EXCEPT ![w] = IdleWorker]
    /\ UNCHANGED <<status, jobVars, faults, workFrame>>

\* The heartbeat finds its key gone or taken over.
HeartbeatLoses(w) ==
    /\ wk[w].step \in {"load", "premove", "move", "check", "call", "record"}
    /\ lease[wk[w].job] # w /\ ~wk[w].lost
    /\ wk' = [wk EXCEPT ![w].lost = TRUE]
    /\ UNCHANGED <<status, jobVars, lease, faults, workFrame>>

\* The database raises; the finally clause still releases the lease.
JobRaises(w) ==
    /\ wk[w].step \in {"load", "premove", "move", "check", "record", "stop"}
    /\ Fault
    /\ Unwind(w, "raised")
    /\ UNCHANGED <<status, jobVars, lease, workFrame>>

StopRaised(w) ==
    /\ wk[w].step = "raised"
    /\ lease' = ReleaseOf(w)
    /\ Redeliver(wk[w].job)
    /\ wk' = [wk EXCEPT ![w] = IdleWorker]
    /\ UNCHANGED <<status, faults, workFrame>>

\* A lease nobody renews any more is left to its time to live.
AbandonedBy(w) ==
    [d \in Dispatch |-> IF lease[d] = w THEN Orphan ELSE lease[d]]

\* The store fails at the release: the outcome is committed, the job is done.
ReleaseFails(w) ==
    /\ wk[w].step = "stop"
    /\ Fault
    /\ lease' = AbandonedBy(w)
    /\ wk' = [wk EXCEPT ![w] = IdleWorker]
    /\ UNCHANGED <<status, jobVars, workFrame>>

\* The worker process dies mid-job; RQ maintenance requeues or gives up.
WorkerCrash(w) ==
    /\ wk[w].step # "idle"
    /\ Fault
    /\ lease' = AbandonedBy(w)
    /\ Redeliver(wk[w].job)
    /\ wk' = [wk EXCEPT ![w] = IdleWorker]
    /\ UNCHANGED <<status, workFrame>>

-----------------------------------------------------------------------------
(* Redis expiry. *)

LeaseExpires(d) ==
    /\ lease[d] = Orphan
    /\ lease' = [lease EXCEPT ![d] = Free]
    /\ UNCHANGED <<dbVars, jobVars, marker, procVars, faults>>

\* Renewals failed for a whole TTL while the holder kept running.
LiveLeaseExpires(d) ==
    /\ LiveLeaseMayExpire
    /\ lease[d] \in Workers
    /\ Fault
    /\ lease' = [lease EXCEPT ![d] = Free]
    /\ UNCHANGED <<dbVars, jobVars, marker, procVars>>

MarkerExpires(d) ==
    /\ d \in marker
    /\ marker' = marker \ {d}
    /\ UNCHANGED <<dbVars, jobVars, lease, procVars, faults>>

-----------------------------------------------------------------------------
(* reconcile_undelivered: enqueue what was never marked delivered.  The    *)
(* rows are selected once; one claimed meanwhile is still sent again.      *)

scanFrame == <<status, retryCount, overdue, rows, miscounted, lease, req, wk>>

Undelivered == Written \ delivered

ReconcileSelect(p) ==
    /\ scan[p] = IdleScan /\ Undelivered # {}
    /\ scan' = [scan EXCEPT ![p].batch = Undelivered]
    /\ UNCHANGED <<delivered, jobVars, marker, resc, exp, faults, scanFrame>>

ReconcileEnqueue(p) ==
    /\ scan[p].cur = None
    /\ \E d \in scan[p].batch :
         /\ Enqueue(d)
         /\ scan' = [scan EXCEPT ![p] = [batch |-> @.batch \ {d}, cur |-> d]]
    /\ UNCHANGED <<delivered, marker, resc, exp, faults, scanFrame>>

\* Mutant: the failed enqueue falls through to the claim.
ReconcileClaimsAnyway(p) ==
    /\ scan[p].cur = None
    /\ \E d \in scan[p].batch :
         scan' = [scan EXCEPT ![p] = [batch |-> @.batch \ {d}, cur |-> d]]
    /\ Fault
    /\ UNCHANGED <<delivered, jobVars, marker, resc, exp, scanFrame>>

ReconcileEnqueueFails(p) ==
    /\ scan[p].cur = None
    /\ \E d \in scan[p].batch : scan' = [scan EXCEPT ![p].batch = @ \ {d}]
    /\ Fault
    /\ UNCHANGED <<delivered, jobVars, marker, resc, exp, scanFrame>>

\* Mutant: the claim is not committed, so it is rolled back.
ReconcileClaimUncommitted(p) ==
    /\ scan[p].cur # None
    /\ scan' = [scan EXCEPT ![p].cur = None]
    /\ UNCHANGED <<delivered, jobVars, marker, resc, exp, faults, scanFrame>>

ReconcileClaim(p) ==
    /\ scan[p].cur # None
    /\ Claim(scan[p].cur)
    /\ scan' = [scan EXCEPT ![p].cur = None]
    /\ UNCHANGED <<jobVars, marker, resc, exp, faults, scanFrame>>

-----------------------------------------------------------------------------
(* rescue_stuck_dispatches: send again what was delivered and never        *)
(* settled.  The marker bounds it to one send per grace period.            *)

\* Mutant: only approved tasks are rescued.
RescuableIfApproved(d) == status[TaskOf(d)] = "approved"

Rescuable(d) == status[TaskOf(d)] \in Runnable

RescueCandidates == {d \in delivered : Newest(d) /\ Rescuable(d)}

RescueSelect(p) ==
    /\ resc[p] = IdleScan /\ RescueCandidates # {}
    /\ resc' = [resc EXCEPT ![p].batch = RescueCandidates]
    /\ UNCHANGED <<delivered, jobVars, marker, scan, exp, faults, scanFrame>>

\* The task settled since the query, or the marker is still there.
RescueSkip(p) ==
    /\ resc[p].cur = None
    /\ \E d \in resc[p].batch :
         /\ ~Rescuable(d) \/ d \in marker
         /\ resc' = [resc EXCEPT ![p].batch = @ \ {d}]
    /\ UNCHANGED <<delivered, jobVars, marker, scan, exp, faults, scanFrame>>

RescueMark(p) ==
    /\ resc[p].cur = None
    /\ \E d \in resc[p].batch :
         /\ Rescuable(d) /\ d \notin marker
         /\ marker' = marker \cup {d}
         /\ resc' = [resc EXCEPT ![p] = [batch |-> @.batch \ {d}, cur |-> d]]
    /\ UNCHANGED <<delivered, jobVars, scan, exp, faults, scanFrame>>

RescueSend(p) ==
    /\ resc[p].cur # None
    /\ Enqueue(resc[p].cur)
    /\ resc' = [resc EXCEPT ![p].cur = None]
    /\ UNCHANGED <<delivered, marker, scan, exp, faults, scanFrame>>

\* The queue is down: the marker is taken back.
RescueSendFails(p) ==
    /\ resc[p].cur # None
    /\ Fault
    /\ marker' = marker \ {resc[p].cur}
    /\ resc' = [resc EXCEPT ![p].cur = None]
    /\ UNCHANGED <<delivered, jobVars, scan, exp, scanFrame>>

-----------------------------------------------------------------------------
(* expire_overdue_approvals: cancel pending tasks past their deadline.     *)

OverdueApprovals == {t \in overdue : status[t] = "pending"}

ExpirySelect(p) ==
    /\ exp[p] = {} /\ OverdueApprovals # {}
    /\ exp' = [exp EXCEPT ![p] = OverdueApprovals]
    /\ UNCHANGED <<delivered, jobVars, marker, scan, resc, faults, scanFrame>>

\* Mutant: the commit per row is missing, the cancel is rolled back.
ExpireOneUncommitted(p) ==
    /\ \E t \in exp[p] : exp' = [exp EXCEPT ![p] = @ \ {t}]
    /\ UNCHANGED <<dbVars, jobVars, keyVars, req, wk, scan, resc, faults>>

\* An approval that won the race keeps the task.
ExpireOne(p) ==
    /\ \E t \in exp[p] :
         /\ exp' = [exp EXCEPT ![p] = @ \ {t}]
         /\ IF status[t] = "pending" THEN SetStatus(t, "cancelled") ELSE UNCHANGED status
    /\ UNCHANGED <<retryCount, overdue, rows, delivered, miscounted, jobVars, keyVars,
                   req, wk, scan, resc, faults>>

\* A replica dies, or a scan's store call raises: what it selected is forgotten.
ScansAbort(p) ==
    /\ <<scan[p], resc[p], exp[p]>> # <<IdleScan, IdleScan, {}>>
    /\ Fault
    /\ \/ /\ scan' = [scan EXCEPT ![p] = IdleScan] /\ UNCHANGED <<resc, exp>>
       \/ /\ resc' = [resc EXCEPT ![p] = IdleScan] /\ UNCHANGED <<scan, exp>>
       \/ /\ exp' = [exp EXCEPT ![p] = {}] /\ UNCHANGED <<scan, resc>>
    /\ UNCHANGED <<delivered, jobVars, marker, scanFrame>>

-----------------------------------------------------------------------------
RequestStep(r) ==
    \/ \E t \in Tasks, to \in Requestable : ReadTransition(r, t, to)
    \/ \E t \in Tasks : ReadRetry(r, t)
    \/ CommitTransition(r) \/ CommitRetry(r) \/ RequestConflict(r)
    \/ RequestEnqueue(r) \/ RequestEnqueueFails(r)
    \/ RequestClaim(r) \/ RequestCrash(r)

JobStep(w) ==
    \/ Acquire(w) \/ DropDuplicate(w) \/ Load(w) \/ PreMove(w) \/ StartMove(w)
    \/ MoveMisses(w) \/ CheckLease(w) \/ CallEnds(w) \/ Record(w)
    \/ StopLease(w) \/ StopRaised(w)

WorkerStep(w) ==
    \/ \E d \in Dispatch : Dequeue(w, d)
    \/ JobStep(w)
    \/ HeartbeatLoses(w) \/ JobRaises(w) \/ ReleaseFails(w) \/ WorkerCrash(w)

ReconcileStep(p) == ReconcileSelect(p) \/ ReconcileEnqueue(p) \/ ReconcileClaim(p)

RescueStep(p) == \/ RescueSelect(p) \/ RescueSkip(p)
                 \/ RescueMark(p) \/ RescueSend(p)

ExpiryStep(p) == ExpirySelect(p) \/ ExpireOne(p)

ScanStep(p) == \/ ReconcileStep(p) \/ ReconcileEnqueueFails(p)
               \/ RescueStep(p) \/ RescueSendFails(p)
               \/ ExpiryStep(p) \/ ScansAbort(p)

\* Every task is at its end and nothing is left to do: the system rests.
Settled ==
    /\ \A t \in Tasks : status[t] \in {"rejected", "completed", "cancelled"}
    /\ \A d \in Dispatch : queue[d] = 0 /\ lease[d] = Free
    /\ procVars = <<[r \in Requests |-> IdleRequest], [w \in Workers |-> IdleWorker],
                    [p \in Replicas |-> IdleScan], [p \in Replicas |-> IdleScan],
                    [p \in Replicas |-> {}]>>

Rest == Settled /\ UNCHANGED vars

Next ==
    \/ Rest
    \/ \E t \in Tasks : RequestApproval(t) \/ Deadline(t)
    \/ \E r \in Requests : RequestStep(r)
    \/ \E w \in Workers : WorkerStep(w)
    \/ \E p \in Replicas : ScanStep(p)
    \/ \E d \in Dispatch : LeaseExpires(d) \/ LiveLeaseExpires(d) \/ MarkerExpires(d)

Spec == Init /\ [][Next]_vars

-----------------------------------------------------------------------------
(* Fairness.  A live process goes on with what it started; the scheduler   *)
(* ticks every 15 s; Redis expires what nobody renews; RQ serves its       *)
(* queues in order, so a waiting job is taken though workers are busy in   *)
(* between (strong fairness).  No request is ever owed a decision.         *)

Fairness ==
    /\ \A r \in Requests : WF_vars(\/ CommitTransition(r) \/ CommitRetry(r)
                                   \/ RequestConflict(r) \/ RequestEnqueue(r)
                                   \/ RequestClaim(r))
    /\ \A d \in Dispatch : SF_vars(\E w \in Workers : Dequeue(w, d))
    /\ \A w \in Workers : WF_vars(JobStep(w))
    /\ \A p \in Replicas : /\ WF_vars(ReconcileStep(p))
                            /\ WF_vars(RescueStep(p))
                            /\ WF_vars(ExpiryStep(p))
    /\ \A d \in Dispatch : WF_vars(LeaseExpires(d)) /\ WF_vars(MarkerExpires(d))

FairSpec == Spec /\ Fairness

-----------------------------------------------------------------------------
(* Type invariant. *)

\* Every column, key and process record keeps its shape.
TypeOK ==
    /\ status \in [Tasks -> Status]
    /\ retryCount \in [Tasks -> Nat]
    /\ overdue \in SUBSET Tasks
    /\ rows \in [Tasks -> 0..MaxDispatch]
    /\ delivered \in SUBSET Dispatch /\ sent \in SUBSET Dispatch
    /\ miscounted \in SUBSET Tasks
    /\ marker \in SUBSET Dispatch
    /\ queue \in [Dispatch -> 0..MaxCopies]
    /\ lease \in [Dispatch -> Workers \cup {Free, Orphan}]
    /\ req \in [Requests -> RequestRecord]
    /\ wk \in [Workers -> WorkerRecord]
    /\ scan \in [Replicas -> ScanRecord] /\ resc \in [Replicas -> ScanRecord]
    /\ exp \in [Replicas -> SUBSET Tasks]
    /\ faults \in 0..MaxFaults

\* A process that is busy knows its task, and a row it sends exists.
ProcessesOK ==
    /\ \A r \in Requests : req[r].step # "idle" => req[r].task \in Tasks
    /\ \A r \in Requests : req[r].step \in {"enqueue", "claim"}
                           => req[r].row \in 1..rows[req[r].task]
    /\ \A w \in Workers : wk[w].step # "idle" => wk[w].job \in Dispatch

-----------------------------------------------------------------------------
(* Safety. *)

\* A job holds the lease of its dispatch from the load of the task to the
\* release (process_task._process between acquire and stop).
Running(w) == wk[w].step \notin {"idle", "acquire"}

\* One dispatch is never executed by two workers at once, however often its
\* job was enqueued: "so a duplicate cannot run concurrently"
\* (process_task.py:5).  Holds while a live holder keeps renewing.
OneRunnerPerDispatch ==
    \A v, w \in Workers :
        v # w /\ Running(v) /\ Running(w) => wk[v].job # wk[w].job

\* What makes it so: a running job holds its dispatch's lease.
LeaseHeld == \A w \in Workers : Running(w) => lease[wk[w].job] = w

\* No row is marked delivered that was never put on a queue: the reconciler
\* only looks at undelivered rows, so such a task would be lost for good
\* (enqueue first, then claim: task_service._dispatch_after_commit,
\* task_reconcile.reconcile_undelivered).
DeliveredWasSent == delivered \subseteq sent

\* What makes it so, hop by hop: only a written row is ever sent, only a sent
\* one is queued, worked on or claimed, and a task whose row is written has
\* been approved.
Trail ==
    /\ sent \subseteq Written /\ delivered \subseteq sent
    /\ \A d \in Dispatch : queue[d] > 0 => d \in sent
    /\ \A w \in Workers : wk[w].step # "idle" => wk[w].job \in sent
    /\ \A r \in Requests : req[r].step = "claim" => <<req[r].task, req[r].row>> \in sent
    /\ \A p \in Replicas : scan[p].batch \subseteq Written
    /\ \A p \in Replicas : scan[p].cur \in sent \cup {None}
    /\ \A p \in Replicas : resc[p].batch \cup {resc[p].cur} \subseteq Written \cup {None}
Decided == \A t \in Tasks : rows[t] > 0 => status[t] \notin {"absent", "pending", "rejected"}

\* Only an approved task's tool is called, and only for a dispatch that an
\* approval or a retry committed.
CallsAreAuthorised ==
    \A w \in Workers : wk[w].step \in {"check", "call", "record"} =>
        /\ wk[w].job \in Written
        /\ status[TaskOf(wk[w].job)] \notin {"absent", "pending", "rejected"}

\* A task is run at most once for its approval and once per retry of its
\* budget (TaskService.retry: "respecting retry budget").
RetryBudget == \A t \in Tasks : rows[t] <= 1 + MaxRetries

\* What the code keeps of that.  Retries that race to answer one failure start
\* one run, and it is in the count, which stays within the budget; only a retry
\* that spans another one and the failure of its run too can cost the task a
\* run more (the conditional UPDATE of TaskService.retry).
RerunsAreCounted ==
    \A t \in Tasks : /\ retryCount[t] <= MaxRetries
                     /\ t \notin miscounted => rows[t] <= 1 + retryCount[t]

\* A worker announces the move it makes: the status it read is the status it
\* moves the task from (from_status of the status-changed event).
MoveMatchesEvent ==
    [][\A w \in Workers :
         wk[w].step \in {"premove", "move"} /\ wk'[w].step \in {"check", "record"}
            => status[TaskOf(wk[w].job)] = wk[w].seen]_vars

\* Nobody frees a lease that a running worker holds but that worker itself or,
\* as a fault, its time to live: a straggler never deletes its successor's key.
OnlyHolderReleases ==
    [][\A d \in Dispatch, w \in Workers :
         lease[d] = w /\ lease'[d] # w
            => faults' > faults \/ (wk[w].job = d /\ wk'[w].step = "idle")]_vars

\* What a process is about to write is a legal move from what it has read.
Intentions ==
    /\ \A r \in Requests : req[r].step = "commit" =>
         /\ req[r].from # "absent" /\ req[r].to \in Requestable
         /\ req[r].to \in ValidTransitions[req[r].from]
    /\ \A w \in Workers : wk[w].step \in {"premove", "record"} => wk[w].outcome \in Outcome

\* The pipeline implements the life cycle: legal moves only, and a dispatch
\* row exactly with each authorisation.
Lifecycle == INSTANCE TaskLifecycle WITH dispatches <- rows
ImplementsLifecycle == Lifecycle!Spec

-----------------------------------------------------------------------------
(* Liveness. *)

\* A task that was approved or retried is brought to an end, whichever
\* process died on the way (outbox, RQ requeue, rescue scan).
RunnableSettles ==
    \A t \in Tasks : status[t] \in Runnable ~> status[t] \notin Runnable

\* A pending task nobody decides on is retired after its deadline.
OverdueRetires ==
    \A t \in Tasks : t \in overdue /\ status[t] = "pending" ~> status[t] # "pending"

\* Every outbox row is delivered in the end.
RowsAreDelivered ==
    \A d \in Dispatch : d \in Written ~> d \in delivered
=============================================================================
