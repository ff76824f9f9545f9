------------------------- MODULE TaskDispatch_proofs -------------------------
EXTENDS TaskDispatch, TLAPS

LEMMA DispatchParts ==
    /\ \A d \in Dispatch : TaskOf(d) \in Tasks /\ Row(d) \in 1..MaxDispatch
    /\ \A t \in Tasks, n \in 1..MaxDispatch :
         <<t, n>> \in Dispatch /\ TaskOf(<<t, n>>) = t /\ Row(<<t, n>>) = n
BY DEF Dispatch, TaskOf, Row

TypeInv == TypeOK /\ ProcessesOK

LEMMA TypeInit == Init => TypeInv
BY BoundsAssumption, LeaseValuesAssumption
   DEF Init, TypeInv, TypeOK, ProcessesOK, Status, IdleRequest, IdleWorker, IdleScan,
       RequestRecord, WorkerRecord, WorkerSteps, ScanRecord

\* A request may take any well-formed new record, rows only ever being added.
LEMMA RequestUpdate ==
    ASSUME TypeInv, NEW r \in Requests, NEW v \in RequestRecord,
           req' = [req EXCEPT ![r] = v], wk' = wk,
           rows' \in [Tasks -> 0..MaxDispatch], \A t \in Tasks : rows'[t] >= rows[t],
           v.step # "idle" => v.task \in Tasks,
           v.step \in {"enqueue", "claim"} => v.row \in 1..rows'[v.task]
    PROVE  req' \in [Requests -> RequestRecord] /\ ProcessesOK'
<1>1. req' \in [Requests -> RequestRecord]
  BY DEF TypeInv, TypeOK
<1>2. ASSUME NEW s \in Requests, s # r, req[s].step \in {"enqueue", "claim"}
      PROVE  req[s].row \in 1..rows'[req[s].task]
  <2>1. req[s].task \in Tasks /\ req[s].row \in 1..rows[req[s].task]
    BY <1>2 DEF TypeInv, ProcessesOK
  <2> QED BY <2>1 DEF TypeInv, TypeOK
<1> QED BY <1>1, <1>2 DEF TypeInv, TypeOK, ProcessesOK

LEMMA TypeRequest ==
    ASSUME TypeInv, NEW r \in Requests, RequestStep(r) PROVE TypeInv'
<1> USE BoundsAssumption, DispatchParts
    DEF TypeInv, TypeOK, ProcessesOK, RequestRecord, IdleRequest, Deciding, Sending, reqFrame, keyVars, jobVars
<1>1. CASE \E t \in Tasks, to \in Requestable : ReadTransition(r, t, to)
  BY <1>1 DEF ReadTransition, Requestable, Status
<1>2. CASE \E t \in Tasks : ReadRetry(r, t)
  BY <1>2 DEF ReadRetry, Status
<1>3. CASE CommitTransition(r)
  <2>1. req[r].task \in Tasks /\ req[r].to \in Status /\ req[r].step = "commit"
    BY <1>3 DEF CommitTransition
  <2>2. status' \in [Tasks -> Status]
    BY <1>3, <2>1 DEF CommitTransition, SetStatus
  <2>3. CASE /\ rows[req[r].task] < MaxDispatch
             /\ rows' = [rows EXCEPT ![req[r].task] = @ + 1]
             /\ req' = [req EXCEPT ![r] = Sending(req[r].task, rows[req[r].task] + 1)]
    <3>1. rows' \in [Tasks -> 0..MaxDispatch] /\ \A t \in Tasks : rows'[t] >= rows[t]
      BY <2>1, <2>3
    <3>2. req' \in [Requests -> RequestRecord] /\ ProcessesOK'
      <4> DEFINE v == Sending(req[r].task, rows[req[r].task] + 1)
      <4>1. v \in RequestRecord /\ v.step # "idle" /\ v.task \in Tasks /\ v.row \in 1..rows'[v.task]
        BY <2>1, <2>3, <3>1 DEF Status
      <4>2. wk' = wk /\ req' = [req EXCEPT ![r] = v]
        BY <1>3, <2>3 DEF CommitTransition
      <4> HIDE DEF v
      <4> QED BY RequestUpdate, <3>1, <4>1, <4>2
    <3> QED BY <1>3, <2>2, <3>1, <3>2 DEF CommitTransition
  <2>4. CASE UNCHANGED rows /\ req' = [req EXCEPT ![r] = IdleRequest]
    BY <1>3, <2>2, <2>4 DEF CommitTransition, Status
  <2> QED BY <1>3, <2>3, <2>4 DEF CommitTransition
<1>4. CASE CommitRetry(r)
  BY <1>4 DEF CommitRetry, SetStatus, Status
<1>5. CASE RequestConflict(r)
  BY <1>5 DEF RequestConflict, Status
<1>6. CASE RequestEnqueue(r)
  <2> DEFINE d == <<req[r].task, req[r].row>>
  <2>1. d \in Dispatch
    BY <1>6 DEF RequestEnqueue
  <2>2. Enqueue(d) /\ UNCHANGED <<status, retryCount, rows, miscounted, faults, reqFrame>>
    BY <1>6 DEF RequestEnqueue
  <2>3. req' \in [Requests -> RequestRecord]
    BY <1>6 DEF RequestEnqueue
  <2>4. /\ queue' \in [Dispatch -> 0..MaxCopies]
        /\ sent' \in SUBSET Dispatch
    <3> HIDE DEF d
    <3> QED BY <2>1, <2>2 DEF Enqueue
  <2>5. ProcessesOK'
    BY <1>6 DEF RequestEnqueue
  <2> QED BY <2>2, <2>3, <2>4, <2>5
<1>7. CASE RequestEnqueueFails(r)
  BY <1>7 DEF RequestEnqueueFails, Fault, Status
<1>8. CASE RequestClaim(r)
  BY <1>8 DEF RequestClaim, Claim, Status
<1>9. CASE RequestCrash(r)
  BY <1>9 DEF RequestCrash, Fault, Status
<1> QED BY <1>1, <1>2, <1>3, <1>4, <1>5, <1>6, <1>7, <1>8, <1>9 DEF RequestStep

\* A busy worker stays well-formed whatever step, status and outcome it takes.
LEMMA WorkerAdvance ==
    ASSUME TypeInv, NEW w \in Workers, wk[w].step # "idle",
           NEW s \in WorkerSteps, NEW seen \in Status, NEW o \in Status,
           Goto(w, s) \/ Advance(w, s, seen, o) \/ Unwind(w, s), UNCHANGED <<req, rows>>
    PROVE  wk' \in [Workers -> WorkerRecord] /\ ProcessesOK'
<1> USE DEF TypeInv, TypeOK, ProcessesOK, WorkerRecord
<1>1. CASE Goto(w, s)
  BY <1>1 DEF Goto
<1>2. CASE Advance(w, s, seen, o)
  BY <1>2 DEF Advance
<1>3. CASE Unwind(w, s)
  BY <1>3 DEF Unwind, OnJob, Status
<1> QED BY <1>1, <1>2, <1>3

LEMMA TypeWorker ==
    ASSUME TypeInv, NEW w \in Workers, WorkerStep(w) PROVE TypeInv'
<1> USE BoundsAssumption, DispatchParts
    DEF TypeInv, TypeOK, ProcessesOK, WorkerRecord, WorkerSteps, IdleWorker, OnJob,
        Goto, Advance, Unwind, workFrame, jobVars
<1>1. CASE \E d \in Dispatch : Dequeue(w, d)
  BY <1>1 DEF Dequeue, Status
<1>2. CASE Acquire(w)
  BY <1>2 DEF Acquire
<1>3. CASE DropDuplicate(w)
  BY <1>3 DEF DropDuplicate, Status
<1>4. CASE Load(w)
  <2>1. status[TaskOf(wk[w].job)] \in Status
    BY <1>4 DEF Load
  <2> HIDE DEF Goto, Advance, Unwind, ProcessesOK
  <2> DEFINE s == status[TaskOf(wk[w].job)]
             step == IF s = "approved" THEN "premove" ELSE "record"
  <2>2. /\ \/ Unwind(w, "stop") \/ Advance(w, "move", s, "absent")
           \/ Advance(w, step, s, "failed")
        /\ wk[w].step # "idle" /\ UNCHANGED <<req, rows>>
    BY <1>4 DEF Load
  <2>3. step \in WorkerSteps /\ "absent" \in Status /\ "failed" \in Status
    BY DEF Status
  <2> HIDE DEF s, step, WorkerSteps, TypeInv
  <2>4. wk' \in [Workers -> WorkerRecord] /\ ProcessesOK'
    BY <2>1, <2>2, <2>3, WorkerAdvance DEF s, WorkerSteps
  <2> QED BY <1>4, <2>4 DEF Load, TypeInv
<1>5. CASE PreMove(w)
  <2>1. status' \in [Tasks -> Status]
    BY <1>5 DEF PreMove, MoveFrom, SetStatus, Status
  <2> HIDE DEF Goto, WorkerSteps, TypeInv, ProcessesOK
  <2>2. wk' \in [Workers -> WorkerRecord] /\ ProcessesOK'
    BY <1>5, WorkerAdvance DEF PreMove, Status, WorkerSteps
  <2> QED BY <1>5, <2>1, <2>2 DEF PreMove, TypeInv
<1>6. CASE StartMove(w)
  <2>1. status' \in [Tasks -> Status]
    BY <1>6 DEF StartMove, MoveFrom, SetStatus, Status
  <2> HIDE DEF Goto, WorkerSteps, TypeInv, ProcessesOK
  <2>2. wk' \in [Workers -> WorkerRecord] /\ ProcessesOK'
    BY <1>6, WorkerAdvance DEF StartMove, Status, WorkerSteps
  <2> QED BY <1>6, <2>1, <2>2 DEF StartMove, TypeInv
<1>7. CASE MoveMisses(w)
  BY <1>7 DEF MoveMisses, Status
<1>8. CASE CheckLease(w)
  <2> HIDE DEF Goto, Advance, Unwind, ProcessesOK
  <2>1. wk' \in [Workers -> WorkerRecord] /\ ProcessesOK'
    BY <1>8, WorkerAdvance DEF CheckLease, Status
  <2> QED BY <1>8, <2>1 DEF CheckLease
<1>9. CASE CallEnds(w)
  <2> HIDE DEF Goto, Advance, Unwind, ProcessesOK
  <2>1. wk' \in [Workers -> WorkerRecord] /\ ProcessesOK'
    <3>1. PICK o \in {"completed", "failed", "absent"} :
             Unwind(w, "stop") \/ Advance(w, "record", wk[w].seen, o)
      BY <1>9 DEF CallEnds, Outcome
    <3>2. wk[w].seen \in Status /\ o \in Status
      BY DEF Status
    <3> QED BY <1>9, <3>1, <3>2, WorkerAdvance DEF CallEnds
  <2> QED BY <1>9, <2>1 DEF CallEnds
<1>10. CASE Record(w)
  BY <1>10 DEF Record, MoveFrom, SetStatus, Status
<1>11. CASE StopLease(w)
  BY <1>11 DEF StopLease, ReleaseOf, Status
<1>12. CASE StopRaised(w)
  <2>1. wk[w].job \in Dispatch
    BY <1>12 DEF StopRaised
  <2>2. lease' \in [Dispatch -> Workers \cup {Free, Orphan}]
    BY <1>12, <2>1 DEF StopRaised, ReleaseOf
  <2>3. queue' \in [Dispatch -> 0..MaxCopies] /\ UNCHANGED sent
    BY <1>12, <2>1 DEF StopRaised, Redeliver
  <2> QED BY <1>12, <2>2, <2>3 DEF StopRaised, Status
<1>13. CASE HeartbeatLoses(w)
  BY <1>13 DEF HeartbeatLoses
<1>14. CASE JobRaises(w)
  BY <1>14 DEF JobRaises, Fault, Status
<1>15. CASE ReleaseFails(w)
  BY <1>15 DEF ReleaseFails, AbandonedBy, Fault, Status
<1>16. CASE WorkerCrash(w)
  BY <1>16 DEF WorkerCrash, AbandonedBy, Redeliver, Fault, Status
<1> QED
  BY <1>1, <1>2, <1>3, <1>4, <1>5, <1>6, <1>7, <1>8, <1>9, <1>10, <1>11, <1>12,
     <1>13, <1>14, <1>15, <1>16
  DEF WorkerStep, JobStep

LEMMA TypeScan ==
    ASSUME TypeInv, NEW p \in Replicas, ScanStep(p) PROVE TypeInv'
<1> USE BoundsAssumption, DispatchParts
    DEF TypeInv, TypeOK, ProcessesOK, ScanRecord, IdleScan, scanFrame, jobVars, keyVars
<1>1. CASE ReconcileSelect(p)
  BY <1>1 DEF ReconcileSelect, Undelivered, Written
<1>2. CASE ReconcileEnqueue(p)
  BY <1>2 DEF ReconcileEnqueue, Enqueue
<1>3. CASE ReconcileClaim(p)
  BY <1>3 DEF ReconcileClaim, Claim
<1>4. CASE ReconcileEnqueueFails(p)
  BY <1>4 DEF ReconcileEnqueueFails, Fault
<1>5. CASE RescueSelect(p)
  BY <1>5 DEF RescueSelect, RescueCandidates
<1>6. CASE RescueSkip(p)
  BY <1>6 DEF RescueSkip
<1>7. CASE RescueMark(p)
  BY <1>7 DEF RescueMark
<1>8. CASE RescueSend(p)
  <2>1. resc[p].cur \in Dispatch /\ resc' \in [Replicas -> ScanRecord]
    BY <1>8, NoneAssumption DEF RescueSend
  <2>2. queue' \in [Dispatch -> 0..MaxCopies] /\ sent' \in SUBSET Dispatch
    BY <1>8, <2>1 DEF RescueSend, Enqueue
  <2> QED BY <1>8, <2>1, <2>2 DEF RescueSend
<1>9. CASE RescueSendFails(p)
  <2>1. resc' \in [Replicas -> ScanRecord] /\ marker' \in SUBSET Dispatch
    BY <1>9 DEF RescueSendFails
  <2> QED BY <1>9, <2>1 DEF RescueSendFails, Fault
<1>10. CASE ExpirySelect(p)
  BY <1>10 DEF ExpirySelect, OverdueApprovals
<1>11. CASE ExpireOne(p)
  BY <1>11 DEF ExpireOne, SetStatus, Status
<1>12. CASE ScansAbort(p)
  <2>1. IdleScan \in ScanRecord
    OBVIOUS
  <2>2. /\ scan' \in [Replicas -> ScanRecord] /\ resc' \in [Replicas -> ScanRecord]
        /\ exp' \in [Replicas -> SUBSET Tasks]
    BY <1>12, <2>1 DEF ScansAbort
  <2> QED BY <1>12, <2>2 DEF ScansAbort, Fault
<1> QED
  BY <1>1, <1>2, <1>3, <1>4, <1>5, <1>6, <1>7, <1>8, <1>9, <1>10, <1>11, <1>12
  DEF ScanStep, ReconcileStep, RescueStep, ExpiryStep

LEMMA TypeNext ==
    ASSUME TypeInv, [Next]_vars PROVE TypeInv'
<1> USE BoundsAssumption, DispatchParts
<1>1. CASE Rest \/ UNCHANGED vars
  BY <1>1 DEF Rest, vars, dbVars, jobVars, keyVars, procVars, TypeInv, TypeOK, ProcessesOK
<1>2. ASSUME NEW t \in Tasks, RequestApproval(t) \/ Deadline(t) PROVE TypeInv'
  BY <1>2 DEF RequestApproval, Deadline, SetStatus, Status, jobVars, keyVars, procVars,
     TypeInv, TypeOK, ProcessesOK
<1>3. ASSUME NEW d \in Dispatch, LeaseExpires(d) \/ LiveLeaseExpires(d) \/ MarkerExpires(d)
      PROVE  TypeInv'
  BY <1>3 DEF LeaseExpires, LiveLeaseExpires, MarkerExpires, Fault, dbVars, jobVars,
     procVars, TypeInv, TypeOK, ProcessesOK
<1> QED BY <1>1, <1>2, <1>3, TypeRequest, TypeWorker, TypeScan DEF Next

\* Whatever the constants, every column, key and process record of the
\* pipeline keeps its shape.
THEOREM TypeCorrect == Spec => []TypeOK
<1>1. Init => TypeInv
  BY TypeInit
<1>2. TypeInv /\ [Next]_vars => TypeInv'
  BY TypeNext
<1>3. TypeInv => TypeOK
  BY DEF TypeInv
<1> QED BY <1>1, <1>2, <1>3, PTL DEF Spec

-----------------------------------------------------------------------------
(* Mutual exclusion by the lease.  The inductive invariant is LeaseHeld: a  *)
(* lease changes hands only through Free, and nobody but its holder (or the *)
(* expiry of a dead holder's lease) makes it Free.                          *)

LEMMA LeaseKept ==
    ASSUME TypeInv, LeaseHeld, UNCHANGED <<lease, wk>>
    PROVE  LeaseHeld'
BY DEF LeaseHeld, Running

\* A worker that stays on its job, and away from the lease, disturbs nobody.
LEMMA LeaseKeptByStep ==
    ASSUME TypeInv, LeaseHeld, NEW w \in Workers, UNCHANGED lease,
           NEW v, wk' = [wk EXCEPT ![w] = v],
           v.step \notin {"idle", "acquire"} => Running(w) /\ v.job = wk[w].job
    PROVE  LeaseHeld'
BY DEF LeaseHeld, Running, TypeInv, TypeOK

\* Leaving the job: only the leases w holds itself may change.
LEMMA LeaseKeptByExit ==
    ASSUME TypeInv, LeaseHeld, NEW w \in Workers,
           wk' = [wk EXCEPT ![w] = IdleWorker],
           \A d \in Dispatch : lease[d] # w => lease'[d] = lease[d]
    PROVE  LeaseHeld'
<1> SUFFICES ASSUME NEW v \in Workers, Running(v)' PROVE (lease[wk[v].job] = v)'
  BY DEF LeaseHeld
<1>1. v # w /\ wk'[v] = wk[v]
  BY DEF Running, IdleWorker, TypeInv, TypeOK
<1>2. Running(v) /\ wk[v].job \in Dispatch
  BY <1>1 DEF Running, TypeInv, ProcessesOK
<1> QED BY <1>1, <1>2 DEF LeaseHeld

LEMMA LeaseWorker ==
    ASSUME TypeInv, LeaseHeld, NEW w \in Workers, WorkerStep(w) PROVE LeaseHeld'
<1>1. CASE Acquire(w)
  <2>1. wk[w].job \in Dispatch
    BY <1>1 DEF Acquire, TypeInv, ProcessesOK
  <2> SUFFICES ASSUME NEW v \in Workers, Running(v)' PROVE (lease[wk[v].job] = v)'
    BY DEF LeaseHeld
  <2>2. CASE v = w
    BY <1>1, <2>1, <2>2 DEF Acquire, Goto, TypeInv, TypeOK, WorkerRecord
  <2>3. CASE v # w
    <3>1. wk'[v] = wk[v] /\ Running(v)
      BY <1>1, <2>3 DEF Acquire, Goto, Running, TypeInv, TypeOK
    <3>2. wk[v].job \in Dispatch /\ lease[wk[v].job] = v
      BY <3>1 DEF LeaseHeld, Running, TypeInv, ProcessesOK
    <3>3. wk[v].job # wk[w].job
      BY <1>1, <3>2, LeaseValuesAssumption DEF Acquire
    <3> QED BY <1>1, <2>1, <3>1, <3>2, <3>3 DEF Acquire, TypeInv, TypeOK
  <2> QED BY <2>2, <2>3
<1>2. CASE \E d \in Dispatch : Dequeue(w, d)
  BY <1>2, LeaseKeptByStep DEF Dequeue, OnJob
<1>3. CASE DropDuplicate(w)
  BY <1>3, LeaseKeptByStep DEF DropDuplicate, IdleWorker
<1>4. CASE \/ Load(w) \/ PreMove(w) \/ StartMove(w) \/ MoveMisses(w) \/ CheckLease(w)
           \/ CallEnds(w) \/ Record(w) \/ HeartbeatLoses(w) \/ JobRaises(w)
  <2>1. UNCHANGED lease /\ Running(w)
    BY <1>4 DEF Load, PreMove, StartMove, MoveMisses, CheckLease, CallEnds, Record,
       HeartbeatLoses, JobRaises, Running
  <2>2. /\ \A v \in Workers : v # w => wk'[v] = wk[v]
        /\ wk'[w].job = wk[w].job
    BY <1>4 DEF Load, PreMove, StartMove, MoveMisses, CheckLease, CallEnds, Record,
       HeartbeatLoses, JobRaises, Goto, Advance, Unwind, OnJob, TypeInv, TypeOK, WorkerRecord
  <2> QED BY <2>1, <2>2 DEF LeaseHeld, Running
<1>5. CASE StopLease(w) \/ StopRaised(w) \/ ReleaseFails(w) \/ WorkerCrash(w)
  <2>1. wk' = [wk EXCEPT ![w] = IdleWorker]
    BY <1>5 DEF StopLease, StopRaised, ReleaseFails, WorkerCrash
  <2>2. \A d \in Dispatch : lease[d] # w => lease'[d] = lease[d]
    BY <1>5 DEF StopLease, StopRaised, ReleaseFails, WorkerCrash, ReleaseOf, AbandonedBy,
       TypeInv, TypeOK
  <2> QED BY <2>1, <2>2, LeaseKeptByExit
<1> QED BY <1>1, <1>2, <1>3, <1>4, <1>5 DEF WorkerStep, JobStep

LEMMA LeaseNext ==
    ASSUME TypeInv, LeaseHeld, ~LiveLeaseMayExpire, Next PROVE LeaseHeld'
<1>1. CASE Rest
  BY <1>1, LeaseKept DEF Rest, vars, keyVars, procVars
<1>2. ASSUME NEW t \in Tasks, RequestApproval(t) \/ Deadline(t) PROVE LeaseHeld'
  BY <1>2, LeaseKept DEF RequestApproval, Deadline, keyVars, procVars
<1>3. ASSUME NEW r \in Requests, RequestStep(r) PROVE LeaseHeld'
  BY <1>3, LeaseKept DEF RequestStep, ReadTransition, ReadRetry, CommitTransition, CommitRetry,
     RequestConflict, RequestEnqueue, RequestEnqueueFails, RequestClaim, RequestCrash,
     reqFrame, keyVars
<1>4. ASSUME NEW p \in Replicas, ScanStep(p) PROVE LeaseHeld'
  BY <1>4, LeaseKept DEF ScanStep, ReconcileStep, RescueStep, ExpiryStep, ReconcileSelect,
     ReconcileEnqueue, ReconcileClaim, ReconcileEnqueueFails, RescueSelect, RescueSkip,
     RescueMark, RescueSend, RescueSendFails, ExpirySelect, ExpireOne, ScansAbort,
     scanFrame, keyVars
<1>5. ASSUME NEW d \in Dispatch, LeaseExpires(d) \/ LiveLeaseExpires(d) \/ MarkerExpires(d)
      PROVE  LeaseHeld'
  <2>1. CASE LeaseExpires(d)
    \* only a lease no worker holds runs out
    BY <2>1, LeaseValuesAssumption
       DEF LeaseExpires, LeaseHeld, Running, procVars, TypeInv, TypeOK, ProcessesOK
  <2>2. CASE MarkerExpires(d)
    BY <2>2, LeaseKept DEF MarkerExpires, procVars
  <2> QED BY <1>5, <2>1, <2>2 DEF LiveLeaseExpires
<1> QED BY <1>1, <1>2, <1>3, <1>4, <1>5, LeaseWorker DEF Next

LEMMA LeaseExcludes ==
    ASSUME TypeInv, LeaseHeld PROVE OneRunnerPerDispatch
BY DEF LeaseHeld, OneRunnerPerDispatch

\* For any number of workers, requests, replicas, copies and faults: as long as
\* a live holder's lease does not lapse, no dispatch is executed by two workers
\* at once.
THEOREM LeaseExclusion ==
    ASSUME ~LiveLeaseMayExpire PROVE Spec => []OneRunnerPerDispatch
<1>1. Init => TypeInv /\ LeaseHeld
  BY TypeInit DEF Init, LeaseHeld, Running, IdleWorker
<1>2. TypeInv /\ LeaseHeld /\ [Next]_vars => (TypeInv /\ LeaseHeld)'
  BY TypeNext, LeaseNext, LeaseKept DEF vars, keyVars, procVars
<1>3. TypeInv /\ LeaseHeld => OneRunnerPerDispatch
  BY LeaseExcludes
<1> QED BY <1>1, <1>2, <1>3, PTL DEF Spec

-----------------------------------------------------------------------------
(* Refinement: every step of the pipeline is a step of the life cycle, or   *)
(* leaves the status and the rows alone.                                    *)

LEMMA LegalMoves ==
    \A s \in Status \ {"absent"} :
        /\ "approved" \in ValidTransitions[s] => s = "pending"
        /\ "rejected" \in ValidTransitions[s] => s = "pending"
        /\ "cancelled" \in ValidTransitions[s] => s \notin {"rejected", "completed", "cancelled"}
BY DEF Status, ValidTransitions

LEMMA IntentionsNext ==
    ASSUME TypeInv, Intentions, [Next]_vars PROVE Intentions'
<1>1. CASE UNCHANGED <<req, wk>>
  BY <1>1 DEF Intentions
<1>2. ASSUME NEW r \in Requests, RequestStep(r) PROVE Intentions'
  <2>1. UNCHANGED wk
    BY <1>2 DEF RequestStep, ReadTransition, ReadRetry, CommitTransition, CommitRetry,
       RequestConflict, RequestEnqueue, RequestEnqueueFails, RequestClaim, RequestCrash, reqFrame
  <2>2. CASE \E t \in Tasks, to \in Requestable : ReadTransition(r, t, to)
    BY <2>1, <2>2 DEF ReadTransition, MayTransition, Deciding, Intentions, TypeInv, TypeOK
  <2>3. CASE req'[r].step # "commit" /\ \A s \in Requests : s # r => req'[s] = req[s]
    BY <2>1, <2>3 DEF Intentions
  <2>4. CASE \/ \E t \in Tasks : ReadRetry(r, t)
             \/ CommitTransition(r) \/ CommitRetry(r) \/ RequestConflict(r)
             \/ RequestEnqueue(r) \/ RequestEnqueueFails(r)
             \/ RequestClaim(r) \/ RequestCrash(r)
    <3>1. req'[r].step # "commit" /\ \A s \in Requests : s # r => req'[s] = req[s]
      BY <2>4 DEF ReadRetry, CommitTransition, CommitRetry, RequestConflict, RequestEnqueue,
         RequestEnqueueFails, RequestClaim, RequestCrash, Deciding, Sending, IdleRequest,
         TypeInv, TypeOK, RequestRecord
    <3> QED BY <2>3, <3>1
  <2> QED BY <1>2, <2>2, <2>4 DEF RequestStep
<1>3. ASSUME NEW w \in Workers, WorkerStep(w) PROVE Intentions'
  <2>1. UNCHANGED req
    BY <1>3 DEF WorkerStep, JobStep, Dequeue, Acquire, DropDuplicate, Load, PreMove, StartMove,
       MoveMisses, CheckLease, CallEnds, Record, StopLease, StopRaised, HeartbeatLoses,
       JobRaises, ReleaseFails, WorkerCrash, workFrame
  <2>2. \A v \in Workers : v # w => wk'[v] = wk[v]
    BY <1>3 DEF WorkerStep, JobStep, Dequeue, Acquire, DropDuplicate, Load, PreMove, StartMove,
       MoveMisses, CheckLease, CallEnds, Record, StopLease, StopRaised, HeartbeatLoses,
       JobRaises, ReleaseFails, WorkerCrash, Goto, Advance, Unwind, TypeInv, TypeOK
  <2>3. wk'[w].step \in {"premove", "record"} => wk'[w].outcome \in Outcome
    BY <1>3 DEF WorkerStep, JobStep, Dequeue, Acquire, DropDuplicate, Load, PreMove, StartMove,
       MoveMisses, CheckLease, CallEnds, Record, StopLease, StopRaised, HeartbeatLoses,
       JobRaises, ReleaseFails, WorkerCrash, Goto, Advance, Unwind, OnJob, IdleWorker,
       Outcome, Intentions, TypeInv, TypeOK, WorkerRecord
  <2> QED BY <2>1, <2>2, <2>3 DEF Intentions
<1>4. ASSUME NEW p \in Replicas, ScanStep(p) PROVE UNCHANGED <<req, wk>>
  BY <1>4 DEF ScanStep, ReconcileStep, RescueStep, ExpiryStep, ReconcileSelect,
     ReconcileEnqueue, ReconcileClaim, ReconcileEnqueueFails, RescueSelect, RescueSkip,
     RescueMark, RescueSend, RescueSendFails, ExpirySelect, ExpireOne, ScansAbort, scanFrame
<1>5. ASSUME \/ UNCHANGED vars \/ Rest
             \/ \E t \in Tasks : RequestApproval(t) \/ Deadline(t)
             \/ \E d \in Dispatch : LeaseExpires(d) \/ LiveLeaseExpires(d) \/ MarkerExpires(d)
      PROVE  UNCHANGED <<req, wk>>
  BY <1>5 DEF Rest, RequestApproval, Deadline, LeaseExpires, LiveLeaseExpires, MarkerExpires,
     vars, procVars
<1> QED BY <1>1, <1>2, <1>3, <1>4, <1>5 DEF Next

LEMMA RefineNext ==
    ASSUME TypeInv, Intentions, [Next]_vars
    PROVE  Lifecycle!Next \/ UNCHANGED <<status, rows>>
<1> USE DEF Lifecycle!Next
<1>1. ASSUME NEW t \in Tasks, RequestApproval(t) \/ Deadline(t)
      PROVE  Lifecycle!Request(t) \/ UNCHANGED <<status, rows>>
  BY <1>1 DEF RequestApproval, Deadline, SetStatus, Lifecycle!Request, Lifecycle!Move
<1>2. ASSUME NEW r \in Requests, RequestStep(r)
      PROVE  Lifecycle!Next \/ UNCHANGED <<status, rows>>
  <2>1. CASE CommitTransition(r)
    <3> DEFINE t == req[r].task
    <3>1. t \in Tasks /\ status[t] \in Status \ {"absent"} /\ status[t] = req[r].from
      BY <2>1 DEF CommitTransition, Intentions, TypeInv, TypeOK, ProcessesOK
    <3>2. req[r].to \in Requestable /\ req[r].to \in ValidTransitions[status[t]]
      BY <2>1 DEF CommitTransition, Intentions
    <3>3. CASE req[r].to = "approved"
      <4>1. Lifecycle!Approve(t)
        BY <2>1, <3>1, <3>2, <3>3, LegalMoves
           DEF CommitTransition, SetStatus, Lifecycle!Approve, Lifecycle!Move, Lifecycle!Authorise
      <4> QED BY <3>1, <4>1
    <3>4. CASE req[r].to = "rejected"
      <4>1. Lifecycle!Reject(t)
        BY <2>1, <3>1, <3>2, <3>4, LegalMoves
           DEF CommitTransition, SetStatus, Lifecycle!Reject, Lifecycle!Move
      <4> QED BY <3>1, <4>1
    <3>5. CASE req[r].to = "cancelled"
      <4>1. Lifecycle!Cancel(t)
        <5>1. status[t] \notin {"absent", "rejected", "completed", "cancelled"}
          BY <3>1, <3>2, <3>5, LegalMoves
        <5>2. SetStatus(t, "cancelled") /\ UNCHANGED rows
          BY <2>1, <3>5 DEF CommitTransition
        <5> QED BY <5>1, <5>2 DEF SetStatus, Lifecycle!Cancel
      <4> QED BY <3>1, <4>1
    <3> QED BY <3>2, <3>3, <3>4, <3>5 DEF Requestable
  <2>2. CASE CommitRetry(r)
    <3>1. req[r].task \in Tasks /\ Lifecycle!Retry(req[r].task)
      BY <2>2 DEF CommitRetry, SetStatus, Lifecycle!Retry, Lifecycle!Move, Lifecycle!Authorise,
         TypeInv, ProcessesOK
    <3> QED BY <3>1
  <2>3. CASE ~CommitTransition(r) /\ ~CommitRetry(r)
    BY <1>2, <2>3 DEF RequestStep, ReadTransition, ReadRetry, RequestConflict, RequestEnqueue,
       RequestEnqueueFails, RequestClaim, RequestCrash
  <2> QED BY <2>1, <2>2, <2>3
<1>3. ASSUME NEW w \in Workers, WorkerStep(w)
      PROVE  Lifecycle!Next \/ UNCHANGED <<status, rows>>
  <2> DEFINE t == TaskOf(wk[w].job)
  <2>1. CASE PreMove(w) \/ StartMove(w)
    <3>1. t \in Tasks /\ status[t] \in Runnable
      BY <2>1, DispatchParts DEF PreMove, StartMove, MoveFrom, TypeInv, ProcessesOK
    <3>2. SetStatus(t, "executing") /\ UNCHANGED rows
      BY <2>1 DEF PreMove, StartMove, MoveFrom, workFrame
    <3>3. CASE status[t] = "approved"
      BY <3>1, <3>2, <3>3 DEF SetStatus, Lifecycle!Begin, Lifecycle!Move
    <3>4. CASE status[t] = "executing"
      BY <3>1, <3>2, <3>4 DEF SetStatus, TypeInv, TypeOK
    <3> QED BY <3>1, <3>3, <3>4 DEF Runnable
  <2>2. CASE Record(w)
    <3>1. t \in Tasks /\ wk[w].outcome \in Outcome /\ UNCHANGED rows
      BY <2>2, DispatchParts DEF Record, Intentions, workFrame, TypeInv, ProcessesOK
    <3>2. CASE MoveFrom(t, {"executing"}, wk[w].outcome)
      <4>1. Lifecycle!Finish(t)
        <5>1. Lifecycle!Move(t, "executing", wk[w].outcome)
          BY <3>2 DEF MoveFrom, SetStatus, Lifecycle!Move
        <5> QED BY <3>1, <5>1 DEF Lifecycle!Finish, Lifecycle!Outcome, Outcome
      <4> QED BY <3>1, <4>1
    <3> QED BY <2>2, <3>1, <3>2 DEF Record
  <2>3. CASE ~PreMove(w) /\ ~StartMove(w) /\ ~Record(w)
    BY <1>3, <2>3 DEF WorkerStep, JobStep, Dequeue, Acquire, DropDuplicate, Load, MoveMisses,
       CheckLease, CallEnds, StopLease, StopRaised, HeartbeatLoses, JobRaises, ReleaseFails,
       WorkerCrash, workFrame
  <2> QED BY <2>1, <2>2, <2>3
<1>4. ASSUME NEW p \in Replicas, ScanStep(p)
      PROVE  Lifecycle!Next \/ UNCHANGED <<status, rows>>
  <2>1. CASE ExpireOne(p)
    <3>1. PICK t \in exp[p] : IF status[t] = "pending" THEN SetStatus(t, "cancelled")
                                                     ELSE UNCHANGED status
      BY <2>1 DEF ExpireOne
    <3>2. t \in Tasks /\ UNCHANGED rows
      BY <2>1 DEF ExpireOne, TypeInv, TypeOK
    <3>3. Lifecycle!Cancel(t) \/ UNCHANGED <<status, rows>>
      BY <3>1, <3>2 DEF SetStatus, Lifecycle!Cancel
    <3> QED BY <3>2, <3>3
  <2>2. CASE ~ExpireOne(p)
    BY <1>4, <2>2 DEF ScanStep, ReconcileStep, RescueStep, ExpiryStep, ReconcileSelect,
       ReconcileEnqueue, ReconcileClaim, ReconcileEnqueueFails, RescueSelect, RescueSkip,
       RescueMark, RescueSend, RescueSendFails, ExpirySelect, ScansAbort, scanFrame
  <2> QED BY <2>1, <2>2
<1>5. ASSUME \/ UNCHANGED vars \/ Rest
             \/ \E d \in Dispatch : LeaseExpires(d) \/ LiveLeaseExpires(d) \/ MarkerExpires(d)
      PROVE  UNCHANGED <<status, rows>>
  BY <1>5 DEF Rest, LeaseExpires, LiveLeaseExpires, MarkerExpires, vars, dbVars
<1> QED BY <1>1, <1>2, <1>3, <1>4, <1>5 DEF Next

\* The pipeline implements the life cycle, whatever crashes, is lost, repeated
\* or taken over: a task's status only takes legal moves, no outcome is written
\* over a cancel, and each authorisation commits with exactly one outbox row.
THEOREM Refinement == Spec => ImplementsLifecycle
<1>1. Init => TypeInv /\ Intentions
  BY TypeInit DEF Init, Intentions, IdleRequest, IdleWorker
<1>2. TypeInv /\ Intentions /\ [Next]_vars => (TypeInv /\ Intentions)'
  BY TypeNext, IntentionsNext
<1>3. Init => Lifecycle!Init
  BY DEF Init, Lifecycle!Init
<1>4. TypeInv /\ Intentions /\ [Next]_vars => [Lifecycle!Next]_(Lifecycle!vars)
  BY RefineNext DEF Lifecycle!vars
<1> QED BY <1>1, <1>2, <1>3, <1>4, PTL DEF Spec, ImplementsLifecycle, Lifecycle!Spec

-----------------------------------------------------------------------------
(* The trail of a dispatch: written, sent, then queued, worked on, claimed. *)

\* Rows are only added, so what was written stays written.
LEMMA WrittenGrows ==
    ASSUME \A t \in Tasks : rows'[t] >= rows[t], TypeInv, rows' \in [Tasks -> 0..MaxDispatch]
    PROVE  Written \subseteq Written'
BY BoundsAssumption, DispatchParts DEF Written, TypeInv, TypeOK, Dispatch

LEMMA TrailRequest ==
    ASSUME TypeInv, Trail, NEW r \in Requests, RequestStep(r) PROVE Trail'
<1> DEFINE d == <<req[r].task, req[r].row>>
<1>1. UNCHANGED <<wk, scan, resc>>
  BY DEF RequestStep, ReadTransition, ReadRetry, CommitTransition, CommitRetry, RequestConflict,
     RequestEnqueue, RequestEnqueueFails, RequestClaim, RequestCrash, reqFrame
<1>2. \A q \in Requests : q # r => req'[q] = req[q]
  BY DEF RequestStep, ReadTransition, ReadRetry, CommitTransition, CommitRetry, RequestConflict,
     RequestEnqueue, RequestEnqueueFails, RequestClaim, RequestCrash, TypeInv, TypeOK
<1>3. CASE RequestEnqueue(r)
  <2>1. d \in Dispatch /\ d \in Written
    BY <1>3, DispatchParts, BoundsAssumption
       DEF RequestEnqueue, TypeInv, TypeOK, ProcessesOK, Written
  <2>2. /\ sent' = sent \cup {d} /\ UNCHANGED <<rows, delivered>>
        /\ \A e \in Dispatch : queue'[e] > 0 => queue[e] > 0 \/ e = d
    <3> HIDE DEF d
    <3>1. Enqueue(d) /\ UNCHANGED <<rows, delivered>>
      BY <1>3 DEF RequestEnqueue, reqFrame, d
    <3> QED BY <2>1, <3>1 DEF Enqueue, TypeInv, TypeOK
  <2>3. <<req'[r].task, req'[r].row>> = d
    BY <1>3 DEF RequestEnqueue, TypeInv, TypeOK, RequestRecord
  <2> HIDE DEF d
  <2>4. Written' = Written
    BY <2>2 DEF Written
  <2> QED BY <1>1, <1>2, <2>1, <2>2, <2>3, <2>4 DEF Trail
<1>4. CASE RequestClaim(r)
  <2>1. /\ delivered' = delivered \cup {d} /\ d \in sent /\ req'[r].step # "claim"
        /\ UNCHANGED <<rows, sent, queue>>
    BY <1>4 DEF RequestClaim, Claim, Trail, IdleRequest, jobVars, TypeInv, TypeOK
  <2> HIDE DEF d
  <2>2. Written' = Written
    BY <2>1 DEF Written
  <2> QED BY <1>1, <1>2, <2>1, <2>2 DEF Trail
<1>5. CASE \/ \E t \in Tasks, to \in Requestable : ReadTransition(r, t, to)
           \/ \E t \in Tasks : ReadRetry(r, t)
           \/ CommitTransition(r) \/ CommitRetry(r) \/ RequestConflict(r)
           \/ RequestEnqueueFails(r) \/ RequestCrash(r)
  <2>1. req'[r].step # "claim" /\ UNCHANGED <<sent, queue, delivered>>
    BY <1>5 DEF ReadTransition, ReadRetry, CommitTransition, CommitRetry, RequestConflict,
       RequestEnqueueFails, RequestCrash, Deciding, Sending, IdleRequest, reqFrame, jobVars,
       TypeInv, TypeOK
  <2>2. \A t \in Tasks : rows'[t] >= rows[t]
    BY <1>5, BoundsAssumption
       DEF ReadTransition, ReadRetry, CommitTransition, CommitRetry, RequestConflict,
       RequestEnqueueFails, RequestCrash, TypeInv, TypeOK
  <2>3. Written \subseteq Written'
    BY <2>2, TypeRequest, WrittenGrows DEF TypeInv, TypeOK
  <2> QED BY <1>1, <1>2, <2>1, <2>3 DEF Trail
<1> QED BY <1>3, <1>4, <1>5 DEF RequestStep

LEMMA TrailWorker ==
    ASSUME TypeInv, Trail, NEW w \in Workers, WorkerStep(w) PROVE Trail'
<1>1. UNCHANGED <<rows, sent, delivered, req, scan, resc>>
  BY DEF WorkerStep, JobStep, Dequeue, Acquire, DropDuplicate, Load, PreMove, StartMove,
     MoveMisses, CheckLease, CallEnds, Record, StopLease, StopRaised, HeartbeatLoses, JobRaises,
     ReleaseFails, WorkerCrash, workFrame, jobVars, Redeliver
<1>2. \A v \in Workers : v # w => wk'[v] = wk[v]
  BY DEF WorkerStep, JobStep, Dequeue, Acquire, DropDuplicate, Load, PreMove, StartMove,
     MoveMisses, CheckLease, CallEnds, Record, StopLease, StopRaised, HeartbeatLoses,
     JobRaises, ReleaseFails, WorkerCrash, Goto, Advance, Unwind, TypeInv, TypeOK
<1>3. Written' = Written
  BY <1>1 DEF Written
<1>4. CASE \E d \in Dispatch : Dequeue(w, d)
  <2> PICK d \in Dispatch : Dequeue(w, d)
    BY <1>4
  <2>1. d \in sent /\ wk'[w].job = d
    BY DEF Dequeue, OnJob, Trail, TypeInv, TypeOK
  <2>2. \A e \in Dispatch : queue'[e] > 0 => queue[e] > 0
    BY BoundsAssumption DEF Dequeue, TypeInv, TypeOK
  <2> QED BY <1>1, <1>2, <1>3, <2>1, <2>2 DEF Trail
<1>5. CASE JobStep(w) \/ HeartbeatLoses(w) \/ JobRaises(w) \/ ReleaseFails(w) \/ WorkerCrash(w)
  <2>1. wk[w].step # "idle" /\ wk[w].job \in Dispatch /\ wk[w].job \in sent
    <3>1. wk[w].step # "idle"
      BY <1>5 DEF JobStep, Acquire, DropDuplicate, Load, PreMove, StartMove, MoveMisses,
         CheckLease, CallEnds, Record, StopLease, StopRaised, HeartbeatLoses, JobRaises,
         ReleaseFails, WorkerCrash
    <3> QED BY <3>1 DEF Trail, TypeInv, ProcessesOK
  <2>2. wk'[w].step # "idle" => wk'[w].job = wk[w].job
    BY <1>5 DEF JobStep, Acquire, DropDuplicate, Load, PreMove, StartMove, MoveMisses,
       CheckLease, CallEnds, Record, StopLease, StopRaised, HeartbeatLoses, JobRaises,
       ReleaseFails, WorkerCrash, Goto, Advance, Unwind, OnJob, IdleWorker, TypeInv, TypeOK,
       WorkerRecord
  <2>3. UNCHANGED queue \/ Redeliver(wk[w].job)
    BY <1>5 DEF JobStep, Acquire, DropDuplicate, Load, PreMove, StartMove, MoveMisses,
       CheckLease, CallEnds, Record, StopLease, StopRaised, HeartbeatLoses, JobRaises,
       ReleaseFails, WorkerCrash, jobVars
  <2>4. \A e \in Dispatch : queue'[e] > 0 => queue[e] > 0 \/ e = wk[w].job
    BY <2>1, <2>3 DEF Redeliver, TypeInv, TypeOK
  <2> QED BY <1>1, <1>2, <1>3, <2>1, <2>2, <2>4 DEF Trail
<1> QED BY <1>4, <1>5 DEF WorkerStep

\* A scan keeps the trail when what it sends was written, what it claims was
\* sent, and what it selects was written.
LEMMA TrailKept ==
    ASSUME TypeInv, Trail, NEW p \in Replicas, UNCHANGED <<rows, req, wk>>,
           sent \subseteq sent', sent' \subseteq Written, delivered' \subseteq sent',
           \A d \in Dispatch : queue'[d] > 0 => queue[d] > 0 \/ d \in sent',
           \A q \in Replicas : q # p => scan'[q] = scan[q] /\ resc'[q] = resc[q],
           scan'[p].batch \subseteq Written, scan'[p].cur \in sent' \cup {None},
           resc'[p].batch \subseteq Written, resc'[p].cur \in Written \cup {None}
    PROVE  Trail'
<1>1. Written' = Written
  BY DEF Written
<1>2. /\ \A q \in Replicas : scan'[q].batch \subseteq Written'
      /\ \A q \in Replicas : scan'[q].cur \in sent' \cup {None}
  BY <1>1 DEF Trail
<1>3. \A q \in Replicas : resc'[q].batch \cup {resc'[q].cur} \subseteq Written' \cup {None}
  BY <1>1 DEF Trail
<1>4. /\ \A w \in Workers : wk'[w].step # "idle" => wk'[w].job \in sent'
      /\ \A r \in Requests : req'[r].step = "claim" => <<req'[r].task, req'[r].row>> \in sent'
  BY DEF Trail
<1>5. \A d \in Dispatch : queue'[d] > 0 => d \in sent'
  BY DEF Trail
<1> QED BY <1>1, <1>2, <1>3, <1>4, <1>5 DEF Trail

LEMMA TrailScan ==
    ASSUME TypeInv, Trail, NEW p \in Replicas, ScanStep(p) PROVE Trail'
<1>1. UNCHANGED <<rows, req, wk>>
  BY DEF ScanStep, ReconcileStep, RescueStep, ExpiryStep, ReconcileSelect, ReconcileEnqueue,
     ReconcileClaim, ReconcileEnqueueFails, RescueSelect, RescueSkip, RescueMark, RescueSend,
     RescueSendFails, ExpirySelect, ExpireOne, ScansAbort, scanFrame
<1>2. /\ scan \in [Replicas -> ScanRecord] /\ resc \in [Replicas -> ScanRecord]
      /\ queue \in [Dispatch -> 0..MaxCopies] /\ None \notin Dispatch
      /\ sent \subseteq Written /\ delivered \subseteq sent /\ Written \subseteq Dispatch
      /\ scan[p].batch \subseteq Written /\ scan[p].cur \in sent \cup {None}
      /\ resc[p].batch \subseteq Written /\ resc[p].cur \in Written \cup {None}
  BY NoneAssumption DEF Trail, TypeInv, TypeOK, ScanRecord, Written
\* Only the reconciler's own record moves.
<1>3. ASSUME UNCHANGED resc, NEW rec \in ScanRecord, scan' = [scan EXCEPT ![p] = rec],
             sent \subseteq sent', sent' \subseteq Written, delivered' \subseteq sent',
             \A d \in Dispatch : queue'[d] > 0 => queue[d] > 0 \/ d \in sent',
             rec.batch \subseteq Written, rec.cur \in sent' \cup {None}
      PROVE  Trail'
  BY <1>1, <1>2, <1>3, TrailKept
\* Only the rescue scan's own record moves.
<1>4. ASSUME UNCHANGED <<scan, delivered>>, NEW rec \in ScanRecord,
             resc' = [resc EXCEPT ![p] = rec],
             sent \subseteq sent', sent' \subseteq Written,
             \A d \in Dispatch : queue'[d] > 0 => queue[d] > 0 \/ d \in sent',
             rec.batch \subseteq Written, rec.cur \in Written \cup {None}
      PROVE  Trail'
  <2>1. scan[p].cur \in sent' \cup {None} /\ delivered' \subseteq sent'
    BY <1>2, <1>4
  <2> QED BY <1>1, <1>2, <1>4, <2>1, TrailKept
<1>5. CASE ReconcileSelect(p)
  <2> DEFINE rec == [scan[p] EXCEPT !.batch = Undelivered]
  <2>1. scan' = [scan EXCEPT ![p] = rec] /\ UNCHANGED <<sent, queue, delivered, resc>>
    BY <1>5 DEF ReconcileSelect, jobVars
  <2>2. rec \in ScanRecord /\ rec.batch \subseteq Written /\ rec.cur \in sent \cup {None}
    BY <1>2 DEF Undelivered, ScanRecord
  <2> HIDE DEF rec
  <2> QED BY <1>2, <1>3, <2>1, <2>2
<1>6. CASE ReconcileEnqueue(p)
  <2> PICK d \in scan[p].batch :
          /\ Enqueue(d)
          /\ scan' = [scan EXCEPT ![p] = [batch |-> @.batch \ {d}, cur |-> d]]
    BY <1>6 DEF ReconcileEnqueue
  <2> DEFINE rec == [batch |-> scan[p].batch \ {d}, cur |-> d]
  <2>1. scan' = [scan EXCEPT ![p] = rec] /\ UNCHANGED <<delivered, resc>>
    BY <1>6 DEF ReconcileEnqueue
  <2>2. d \in Written /\ rec \in ScanRecord /\ rec.batch \subseteq Written /\ rec.cur = d
    BY <1>2 DEF ScanRecord
  <2>3. sent' = sent \cup {d} /\ \A e \in Dispatch : queue'[e] > 0 => queue[e] > 0 \/ e = d
    BY <1>2, <2>2 DEF Enqueue
  <2> HIDE DEF rec
  <2> QED BY <1>2, <1>3, <2>1, <2>2, <2>3
<1>7. CASE ReconcileClaim(p)
  <2> DEFINE rec == [scan[p] EXCEPT !.cur = None]
  <2>1. scan' = [scan EXCEPT ![p] = rec] /\ UNCHANGED <<sent, queue, resc>>
    BY <1>2, <1>7 DEF ReconcileClaim, ScanRecord, jobVars
  <2>2. rec \in ScanRecord /\ rec.batch \subseteq Written /\ rec.cur = None
    BY <1>2 DEF ScanRecord
  <2>3. delivered' \subseteq sent
    BY <1>2, <1>7 DEF ReconcileClaim, Claim
  <2> HIDE DEF rec
  <2> QED BY <1>2, <1>3, <2>1, <2>2, <2>3
<1>8. CASE ReconcileEnqueueFails(p)
  <2> PICK d \in scan[p].batch : scan' = [scan EXCEPT ![p].batch = @ \ {d}]
    BY <1>8 DEF ReconcileEnqueueFails
  <2> DEFINE rec == [scan[p] EXCEPT !.batch = @ \ {d}]
  <2>1. scan' = [scan EXCEPT ![p] = rec] /\ UNCHANGED <<sent, queue, delivered, resc>>
    BY <1>2, <1>8 DEF ReconcileEnqueueFails, ScanRecord, jobVars
  <2>2. rec \in ScanRecord /\ rec.batch \subseteq Written /\ rec.cur \in sent \cup {None}
    BY <1>2 DEF ScanRecord
  <2> HIDE DEF rec
  <2> QED BY <1>2, <1>3, <2>1, <2>2
<1>9. CASE RescueSelect(p)
  <2> DEFINE rec == [resc[p] EXCEPT !.batch = RescueCandidates]
  <2>1. resc' = [resc EXCEPT ![p] = rec] /\ UNCHANGED <<sent, queue, delivered, scan>>
    BY <1>2, <1>9 DEF RescueSelect, ScanRecord, jobVars
  <2>2. rec \in ScanRecord /\ rec.batch \subseteq Written /\ rec.cur \in Written \cup {None}
    BY <1>2 DEF RescueCandidates, ScanRecord
  <2> HIDE DEF rec
  <2> QED BY <1>2, <1>4, <2>1, <2>2
<1>10. CASE RescueSkip(p) \/ RescueMark(p)
  <2> PICK d \in resc[p].batch :
          \/ resc' = [resc EXCEPT ![p].batch = @ \ {d}]
          \/ resc' = [resc EXCEPT ![p] = [batch |-> @.batch \ {d}, cur |-> d]]
    BY <1>10 DEF RescueSkip, RescueMark
  <2>1. PICK rec \in ScanRecord :
          /\ resc' = [resc EXCEPT ![p] = rec]
          /\ rec.batch \subseteq Written /\ rec.cur \in Written \cup {None}
    <3>1. CASE resc' = [resc EXCEPT ![p].batch = @ \ {d}]
      <4> DEFINE rec == [resc[p] EXCEPT !.batch = @ \ {d}]
      <4>1. resc' = [resc EXCEPT ![p] = rec]
        BY <3>1
      <4>2. rec \in ScanRecord /\ rec.batch \subseteq Written /\ rec.cur \in Written \cup {None}
        BY <1>2 DEF ScanRecord
      <4> HIDE DEF rec
      <4> QED BY <4>1, <4>2
    <3>2. CASE resc' = [resc EXCEPT ![p] = [batch |-> @.batch \ {d}, cur |-> d]]
      <4> DEFINE rec == [batch |-> resc[p].batch \ {d}, cur |-> d]
      <4>1. resc' = [resc EXCEPT ![p] = rec]
        BY <3>2
      <4>2. rec \in ScanRecord /\ rec.batch \subseteq Written /\ rec.cur \in Written \cup {None}
        BY <1>2 DEF ScanRecord
      <4> HIDE DEF rec
      <4> QED BY <4>1, <4>2
    <3> QED BY <3>1, <3>2
  <2>2. UNCHANGED <<sent, queue, delivered, scan>>
    BY <1>10 DEF RescueSkip, RescueMark, jobVars
  <2> QED BY <1>2, <1>4, <2>1, <2>2
<1>11. CASE RescueSend(p) \/ RescueSendFails(p)
  <2> DEFINE rec == [resc[p] EXCEPT !.cur = None]
             d   == resc[p].cur
  <2>1. resc' = [resc EXCEPT ![p] = rec] /\ UNCHANGED <<delivered, scan>>
    BY <1>2, <1>11 DEF RescueSend, RescueSendFails, ScanRecord
  <2>2. rec \in ScanRecord /\ rec.batch \subseteq Written /\ rec.cur = None /\ d \in Written
    BY <1>2, <1>11 DEF RescueSend, RescueSendFails, ScanRecord
  <2>3. Enqueue(d) \/ UNCHANGED <<sent, queue>>
    BY <1>11 DEF RescueSend, RescueSendFails, jobVars
  <2> HIDE DEF rec, d
  <2>4. /\ sent \subseteq sent' /\ sent' \subseteq sent \cup {d}
        /\ \A e \in Dispatch : queue'[e] > 0 => queue[e] > 0 \/ e \in sent'
    BY <1>2, <2>2, <2>3 DEF Enqueue
  <2> QED BY <1>2, <1>4, <2>1, <2>2, <2>4
<1>12. CASE ExpirySelect(p) \/ ExpireOne(p)
  <2>1. UNCHANGED <<sent, queue, delivered, scan, resc>>
    BY <1>12 DEF ExpirySelect, ExpireOne, jobVars
  <2> QED BY <1>1, <1>2, <2>1, TrailKept
<1>13. CASE ScansAbort(p)
  <2>1. /\ UNCHANGED <<sent, queue, delivered>>
        /\ scan' \in {scan, [scan EXCEPT ![p] = IdleScan]}
        /\ resc' \in {resc, [resc EXCEPT ![p] = IdleScan]}
    BY <1>13 DEF ScansAbort, jobVars
  <2>2. scan'[p] \in {scan[p], IdleScan} /\ resc'[p] \in {resc[p], IdleScan}
    BY <1>2, <2>1
  <2>3. /\ scan'[p].batch \subseteq Written /\ scan'[p].cur \in sent' \cup {None}
        /\ resc'[p].batch \subseteq Written /\ resc'[p].cur \in Written \cup {None}
    BY <1>2, <2>1, <2>2 DEF IdleScan
  <2>4. \A q \in Replicas : q # p => scan'[q] = scan[q] /\ resc'[q] = resc[q]
    BY <1>2, <2>1
  <2> QED BY <1>1, <1>2, <2>1, <2>3, <2>4, TrailKept
<1> QED BY <1>5, <1>6, <1>7, <1>8, <1>9, <1>10, <1>11, <1>12, <1>13
        DEF ScanStep, ReconcileStep, RescueStep, ExpiryStep

LEMMA TrailNext ==
    ASSUME TypeInv, Trail, [Next]_vars PROVE Trail'
<1>1. CASE UNCHANGED <<rows, sent, queue, delivered, req, wk, scan, resc>>
  BY <1>1 DEF Trail, Written
<1>2. ASSUME \/ UNCHANGED vars \/ Rest
             \/ \E t \in Tasks : RequestApproval(t) \/ Deadline(t)
             \/ \E d \in Dispatch : LeaseExpires(d) \/ LiveLeaseExpires(d) \/ MarkerExpires(d)
      PROVE  UNCHANGED <<rows, sent, queue, delivered, req, wk, scan, resc>>
  BY <1>2 DEF Rest, RequestApproval, Deadline, LeaseExpires, LiveLeaseExpires, MarkerExpires,
     vars, dbVars, jobVars, procVars
<1> QED BY <1>1, <1>2, TrailRequest, TrailWorker, TrailScan DEF Next

LEMMA TrailInit == Init => Trail
BY BoundsAssumption DEF Init, Trail, IdleRequest, IdleWorker, IdleScan

\* No row is marked delivered that was never sent, however many replicas,
\* requests and crashes race for it.
THEOREM NothingLost == Spec => []DeliveredWasSent
<1>1. TypeInv /\ Trail /\ [Next]_vars => (TypeInv /\ Trail)'
  BY TypeNext, TrailNext
<1>2. Trail => DeliveredWasSent
  BY DEF Trail, DeliveredWasSent
<1> QED BY <1>1, <1>2, TypeInit, TrailInit, PTL DEF Spec

\* The life cycle alone keeps a task with a row decided.
LEMMA DecidedNext ==
    ASSUME TypeInv, Intentions, Decided, [Next]_vars PROVE Decided'
<1>1. CASE UNCHANGED <<status, rows>>
  BY <1>1 DEF Decided
<1>2. CASE Lifecycle!Next
  <2> USE BoundsAssumption DEF Decided, TypeInv, TypeOK, Lifecycle!Move, Lifecycle!Authorise
  <2> PICK t \in Tasks :
        \/ Lifecycle!Request(t) \/ Lifecycle!Approve(t) \/ Lifecycle!Retry(t)
        \/ Lifecycle!Reject(t) \/ Lifecycle!Cancel(t) \/ Lifecycle!Begin(t)
        \/ Lifecycle!Finish(t)
    BY <1>2 DEF Lifecycle!Next
  <2>1. CASE Lifecycle!Request(t) \/ Lifecycle!Reject(t)
    BY <2>1 DEF Lifecycle!Request, Lifecycle!Reject
  <2>2. CASE Lifecycle!Approve(t) \/ Lifecycle!Retry(t)
    <3>1. status'[t] \in {"approved", "executing"}
      BY <2>2 DEF Lifecycle!Approve, Lifecycle!Retry
    <3>2. \A u \in Tasks : u # t => status'[u] = status[u]
      BY <2>2 DEF Lifecycle!Approve, Lifecycle!Retry
    <3>3. rows' = [rows EXCEPT ![t] = rows[t] + 1]
      BY <2>2 DEF Lifecycle!Approve, Lifecycle!Retry
    <3>4. \A u \in Tasks : u # t => rows'[u] = rows[u]
      BY <3>3
    <3> QED BY <3>1, <3>2, <3>4
  <2>3. CASE Lifecycle!Cancel(t) \/ Lifecycle!Begin(t) \/ Lifecycle!Finish(t)
    <3>1. UNCHANGED rows
      BY <2>3 DEF Lifecycle!Cancel, Lifecycle!Begin, Lifecycle!Finish
    <3>2. status'[t] \notin {"absent", "pending", "rejected"}
      BY <2>3 DEF Lifecycle!Cancel, Lifecycle!Begin, Lifecycle!Finish, Lifecycle!Outcome
    <3>3. \A u \in Tasks : u # t => status'[u] = status[u]
      BY <2>3 DEF Lifecycle!Cancel, Lifecycle!Begin, Lifecycle!Finish
    <3> QED BY <3>1, <3>2, <3>3
  <2> QED BY <2>1, <2>2, <2>3
<1> QED BY <1>1, <1>2, RefineNext

\* Only an approved task's tool is called, and only for a row that an approval
\* or a retry has committed -- also when leases lapse.
THEOREM Authorised == Spec => []CallsAreAuthorised
<1> DEFINE Inv == TypeInv /\ Intentions /\ Trail /\ Decided
<1>1. Init => Inv
  BY TypeInit, TrailInit DEF Init, Intentions, IdleRequest, IdleWorker, Decided
<1>2. Inv /\ [Next]_vars => Inv'
  BY TypeNext, IntentionsNext, TrailNext, DecidedNext
<1>3. Inv => CallsAreAuthorised
  <2> SUFFICES ASSUME Inv, NEW w \in Workers, wk[w].step \in {"check", "call", "record"}
               PROVE  /\ wk[w].job \in Written
                      /\ status[TaskOf(wk[w].job)] \notin {"absent", "pending", "rejected"}
    BY DEF CallsAreAuthorised
  <2>1. wk[w].job \in Written
    BY DEF Trail
  <2>2. TaskOf(wk[w].job) \in Tasks /\ rows[TaskOf(wk[w].job)] > 0
    BY <2>1, DispatchParts, BoundsAssumption DEF Written, TypeInv, TypeOK
  <2> QED BY <2>1, <2>2 DEF Decided
<1> QED BY <1>1, <1>2, <1>3, PTL DEF Spec
-----------------------------------------------------------------------------
(* Who may free a lease.  No invariant on the leases is needed: a worker    *)
(* deletes only its own key, and what Redis expires is either a dead        *)
(* holder's key or counted as a fault.                                      *)

LEMMA WorkerReleases ==
    ASSUME TypeInv, NEW v \in Workers, WorkerStep(v), NEW d \in Dispatch, NEW w \in Workers,
           lease[d] = w, lease'[d] # w
    PROVE  faults' > faults \/ (wk[w].job = d /\ wk'[w].step = "idle")
<1>1. CASE UNCHANGED lease
  BY <1>1
<1>2. CASE Acquire(v)
  BY <1>2, LeaseValuesAssumption DEF Acquire, TypeInv, TypeOK, ProcessesOK
<1>3. CASE StopLease(v) \/ StopRaised(v)
  <2>1. lease' = ReleaseOf(v) /\ wk' = [wk EXCEPT ![v] = IdleWorker]
    BY <1>3 DEF StopLease, StopRaised
  <2>2. lease[wk[v].job] = v /\ d = wk[v].job
    BY <2>1 DEF ReleaseOf, TypeInv, TypeOK
  <2> QED BY <2>1, <2>2 DEF IdleWorker, TypeInv, TypeOK
<1>4. CASE ReleaseFails(v) \/ WorkerCrash(v)
  BY <1>4 DEF ReleaseFails, WorkerCrash, Fault, TypeInv, TypeOK
<1> QED BY <1>1, <1>2, <1>3, <1>4
        DEF WorkerStep, JobStep, Dequeue, DropDuplicate, Load, PreMove, StartMove, MoveMisses,
            CheckLease, CallEnds, Record, HeartbeatLoses, JobRaises

LEMMA HolderReleases ==
    ASSUME TypeInv, [Next]_vars, NEW d \in Dispatch, NEW w \in Workers,
           lease[d] = w, lease'[d] # w
    PROVE  faults' > faults \/ (wk[w].job = d /\ wk'[w].step = "idle")
<1>1. CASE UNCHANGED lease
  BY <1>1
<1>2. ASSUME NEW e \in Dispatch, LeaseExpires(e) \/ LiveLeaseExpires(e) \/ MarkerExpires(e)
      PROVE  faults' > faults \/ UNCHANGED lease \/ lease'[d] = lease[d]
  BY <1>2, LeaseValuesAssumption
     DEF LeaseExpires, LiveLeaseExpires, MarkerExpires, Fault, TypeInv, TypeOK
<1>3. ASSUME NEW r \in Requests, RequestStep(r) PROVE UNCHANGED lease
  BY <1>3 DEF RequestStep, ReadTransition, ReadRetry, CommitTransition, CommitRetry,
     RequestConflict, RequestEnqueue, RequestEnqueueFails, RequestClaim, RequestCrash,
     reqFrame, keyVars
<1>4. ASSUME NEW p \in Replicas, ScanStep(p) PROVE UNCHANGED lease
  BY <1>4 DEF ScanStep, ReconcileStep, RescueStep, ExpiryStep, ReconcileSelect,
     ReconcileEnqueue, ReconcileClaim, ReconcileEnqueueFails, RescueSelect, RescueSkip,
     RescueMark, RescueSend, RescueSendFails, ExpirySelect, ExpireOne, ScansAbort,
     scanFrame, keyVars
<1>5. ASSUME UNCHANGED vars \/ Rest \/ \E t \in Tasks : RequestApproval(t) \/ Deadline(t)
      PROVE  UNCHANGED lease
  BY <1>5 DEF Rest, RequestApproval, Deadline, vars, keyVars
<1> QED BY <1>1, <1>2, <1>3, <1>4, <1>5, WorkerReleases DEF Next

\* A straggler never deletes its successor's key: but for a fault, a lease that
\* a worker holds is freed by that worker, as it leaves the job -- with any
\* number of workers, and also when leases lapse under a live holder.
THEOREM HoldersRelease == Spec => OnlyHolderReleases
<1>1. TypeInv /\ [Next]_vars =>
        [\A d \in Dispatch, w \in Workers :
           lease[d] = w /\ lease'[d] # w
              => faults' > faults \/ (wk[w].job = d /\ wk'[w].step = "idle")]_vars
  BY HolderReleases
<1>2. TypeInv /\ [Next]_vars => TypeInv'
  BY TypeNext
<1> QED BY <1>1, <1>2, TypeInit, PTL DEF Spec, OnlyHolderReleases
-----------------------------------------------------------------------------
(* What a worker has read still stands when it moves the task.  An approved *)
(* task has one row, so whoever moves it to executing runs that row and     *)
(* holds its lease; and no task ever becomes approved again.                *)

ApprovedOnce == \A t \in Tasks : status[t] = "approved" => rows[t] = 1

SeenStands ==
    \A w \in Workers : wk[w].step \in {"premove", "move"} =>
        LET t == TaskOf(wk[w].job) IN
        \/ /\ wk[w].seen = "approved" /\ Row(wk[w].job) = 1
           /\ status[t] \in {"approved", "cancelled"}
        \/ /\ wk[w].seen = "executing"
           /\ status[t] \notin {"absent", "pending", "approved"}

\* Only an approval makes a task approved, and writes its first row.
LEMMA ApprovedOnceNext ==
    ASSUME TypeInv, Intentions, Decided, ApprovedOnce, [Next]_vars PROVE ApprovedOnce'
<1>1. CASE UNCHANGED <<status, rows>>
  BY <1>1 DEF ApprovedOnce
<1>2. CASE Lifecycle!Next
  <2> USE DEF TypeInv, TypeOK, Lifecycle!Move, Lifecycle!Authorise
  <2> PICK t \in Tasks :
        \/ Lifecycle!Request(t) \/ Lifecycle!Approve(t) \/ Lifecycle!Retry(t)
        \/ Lifecycle!Reject(t) \/ Lifecycle!Cancel(t) \/ Lifecycle!Begin(t)
        \/ Lifecycle!Finish(t)
    BY <1>2 DEF Lifecycle!Next
  <2>1. CASE Lifecycle!Approve(t)
    <3>1. rows[t] = 0
      BY <2>1, BoundsAssumption DEF Lifecycle!Approve, Decided
    <3> QED BY <2>1, <3>1 DEF Lifecycle!Approve, ApprovedOnce
  <2>2. CASE ~Lifecycle!Approve(t)
    <3>1. status'[t] # "approved" /\ \A u \in Tasks : u # t => status'[u] = status[u]
      BY <2>2 DEF Lifecycle!Request, Lifecycle!Retry, Lifecycle!Reject, Lifecycle!Cancel,
         Lifecycle!Begin, Lifecycle!Finish, Lifecycle!Outcome
    <3>2. \A u \in Tasks : u # t => rows'[u] = rows[u]
      BY <2>2 DEF Lifecycle!Request, Lifecycle!Retry, Lifecycle!Reject, Lifecycle!Cancel,
         Lifecycle!Begin, Lifecycle!Finish
    <3> QED BY <3>1, <3>2 DEF ApprovedOnce
  <2> QED BY <2>1, <2>2
<1> QED BY <1>1, <1>2, RefineNext

\* A settled task, and a started one, never waits for a decision or a start again.
LEMMA NeverApprovedAgain ==
    ASSUME TypeInv, Intentions, [Next]_vars, NEW t \in Tasks
    PROVE  /\ status[t] = "cancelled" => status'[t] = "cancelled"
           /\ status[t] \notin {"absent", "pending", "approved"}
                => status'[t] \notin {"absent", "pending", "approved"}
<1>1. CASE UNCHANGED <<status, rows>>
  BY <1>1
<1>2. CASE Lifecycle!Next
  BY <1>2 DEF TypeInv, TypeOK, Lifecycle!Next, Lifecycle!Request, Lifecycle!Approve,
     Lifecycle!Retry, Lifecycle!Reject, Lifecycle!Cancel, Lifecycle!Begin, Lifecycle!Finish,
     Lifecycle!Move, Lifecycle!Outcome
<1> QED BY <1>1, <1>2, RefineNext

Starts(w, t) == (PreMove(w) \/ StartMove(w)) /\ TaskOf(wk[w].job) = t

\* An approved task leaves that status by a cancel or by a worker that starts it.
LEMMA ApprovedLeaves ==
    ASSUME TypeInv, Intentions, [Next]_vars, NEW t \in Tasks, status[t] = "approved"
    PROVE  status'[t] \in {"approved", "cancelled"} \/ \E w \in Workers : Starts(w, t)
<1>1. CASE UNCHANGED status
  BY <1>1
<1>2. ASSUME NEW u \in Tasks, RequestApproval(u) \/ Deadline(u)
      PROVE  status'[t] = "approved"
  BY <1>2 DEF RequestApproval, Deadline, SetStatus, TypeInv, TypeOK
<1>3. ASSUME NEW r \in Requests, RequestStep(r) PROVE status'[t] \in {"approved", "cancelled"}
  <2>1. CASE CommitTransition(r)
    <3> DEFINE u == req[r].task
    <3>1. u \in Tasks /\ req[r].to \in Requestable /\ req[r].to \in ValidTransitions[status[u]]
      BY <2>1 DEF CommitTransition, Intentions, TypeInv, ProcessesOK
    <3>2. status' = [status EXCEPT ![u] = req[r].to]
      BY <2>1 DEF CommitTransition, SetStatus
    <3>3. CASE u = t
      BY <3>1, <3>2, <3>3, LegalMoves DEF Requestable, TypeInv, TypeOK, Status
    <3>4. CASE u # t
      BY <3>2, <3>4 DEF TypeInv, TypeOK
    <3> QED BY <3>3, <3>4
  <2>2. CASE CommitRetry(r)
    BY <2>2 DEF CommitRetry, SetStatus, TypeInv, TypeOK
  <2>3. CASE ~CommitTransition(r) /\ ~CommitRetry(r)
    BY <1>3, <2>3 DEF RequestStep, ReadTransition, ReadRetry, RequestConflict, RequestEnqueue,
       RequestEnqueueFails, RequestClaim, RequestCrash
  <2> QED BY <2>1, <2>2, <2>3
<1>4. ASSUME NEW w \in Workers, WorkerStep(w) PROVE status'[t] = "approved" \/ Starts(w, t)
  <2>1. CASE PreMove(w) \/ StartMove(w)
    BY <2>1 DEF PreMove, StartMove, MoveFrom, SetStatus, Starts, TypeInv, TypeOK
  <2>2. CASE Record(w)
    BY <2>2 DEF Record, MoveFrom, SetStatus, TypeInv, TypeOK
  <2>3. CASE ~PreMove(w) /\ ~StartMove(w) /\ ~Record(w)
    BY <1>4, <2>3 DEF WorkerStep, JobStep, Dequeue, Acquire, DropDuplicate, Load, MoveMisses,
       CheckLease, CallEnds, StopLease, StopRaised, HeartbeatLoses, JobRaises, ReleaseFails,
       WorkerCrash, workFrame
  <2> QED BY <2>1, <2>2, <2>3
<1>5. ASSUME NEW p \in Replicas, ScanStep(p) PROVE status'[t] = "approved"
  <2>1. CASE ExpireOne(p)
    BY <2>1 DEF ExpireOne, SetStatus, TypeInv, TypeOK
  <2>2. CASE ~ExpireOne(p)
    BY <1>5, <2>2 DEF ScanStep, ReconcileStep, RescueStep, ExpiryStep, ReconcileSelect,
       ReconcileEnqueue, ReconcileClaim, ReconcileEnqueueFails, RescueSelect, RescueSkip,
       RescueMark, RescueSend, RescueSendFails, ExpirySelect, ScansAbort, scanFrame
  <2> QED BY <2>1, <2>2
<1>6. ASSUME \/ UNCHANGED vars \/ Rest
             \/ \E d \in Dispatch : LeaseExpires(d) \/ LiveLeaseExpires(d) \/ MarkerExpires(d)
      PROVE  UNCHANGED status
  BY <1>6 DEF Rest, LeaseExpires, LiveLeaseExpires, MarkerExpires, vars, dbVars
<1> QED BY <1>1, <1>2, <1>3, <1>4, <1>5, <1>6 DEF Next

\* Under the lease nobody else starts the task of a worker about to move it.
LEMMA OthersStayAway ==
    ASSUME TypeInv, LeaseHeld, Trail, ApprovedOnce,
           NEW v \in Workers, NEW w \in Workers, v # w, NEW t \in Tasks,
           status[t] = "approved", Starts(v, t),
           wk[w].step \in {"premove", "move"}, TaskOf(wk[w].job) = t, Row(wk[w].job) = 1
    PROVE  FALSE
<1>1. Running(v) /\ Running(w)
  BY DEF Starts, PreMove, StartMove, Running
<1>2. wk[v].job \in Dispatch /\ wk[w].job \in Dispatch /\ wk[v].job \in Written
  BY <1>1 DEF Running, Trail, TypeInv, ProcessesOK
<1>3. Row(wk[v].job) = 1 /\ TaskOf(wk[v].job) = t
  BY <1>2, DispatchParts DEF Written, ApprovedOnce, Starts
<1>4. wk[v].job = wk[w].job
  BY <1>2, <1>3 DEF Dispatch, TaskOf, Row
<1> QED BY <1>1, <1>4 DEF LeaseHeld

\* The other steps of the world leave what w has read standing.
LEMMA SeenKept ==
    ASSUME TypeInv, Intentions, LeaseHeld, Trail, ApprovedOnce, SeenStands, [Next]_vars,
           NEW w \in Workers, wk'[w].step \in {"premove", "move"},
           wk[w].step \in {"premove", "move"},
           wk'[w].job = wk[w].job, wk'[w].seen = wk[w].seen,
           ~PreMove(w), ~StartMove(w)
    PROVE  LET t == TaskOf(wk'[w].job) IN
           \/ /\ wk'[w].seen = "approved" /\ Row(wk'[w].job) = 1
              /\ status'[t] \in {"approved", "cancelled"}
           \/ /\ wk'[w].seen = "executing"
              /\ status'[t] \notin {"absent", "pending", "approved"}
<1> DEFINE t == TaskOf(wk[w].job)
<1>1. t \in Tasks
  BY DispatchParts DEF TypeInv, ProcessesOK
<1>2. CASE wk[w].seen = "approved" /\ Row(wk[w].job) = 1 /\ status[t] \in {"approved", "cancelled"}
  <2>1. CASE status[t] = "cancelled"
    BY <1>1, <1>2, <2>1, NeverApprovedAgain
  <2>2. CASE status[t] = "approved"
    <3>1. ASSUME NEW v \in Workers, Starts(v, t) PROVE FALSE
      <4>1. v # w
        BY <3>1 DEF Starts
      <4> QED BY <1>1, <1>2, <2>2, <3>1, <4>1, OthersStayAway
    <3>2. status'[t] \in {"approved", "cancelled"}
      BY <1>1, <2>2, <3>1, ApprovedLeaves
    <3> QED BY <1>2, <3>2
  <2> QED BY <1>2, <2>1, <2>2
<1>3. CASE wk[w].seen = "executing" /\ status[t] \notin {"absent", "pending", "approved"}
  BY <1>1, <1>3, NeverApprovedAgain
<1> QED BY <1>2, <1>3 DEF SeenStands

\* A worker's record is its own.
LEMMA WorkersAlone ==
    ASSUME TypeInv, [Next]_vars, NEW w \in Workers
    PROVE  wk'[w] = wk[w] \/ WorkerStep(w)
<1>1. ASSUME NEW v \in Workers, WorkerStep(v), v # w PROVE wk'[w] = wk[w]
  BY <1>1 DEF WorkerStep, JobStep, Dequeue, Acquire, DropDuplicate, Load, PreMove, StartMove,
     MoveMisses, CheckLease, CallEnds, Record, StopLease, StopRaised, HeartbeatLoses,
     JobRaises, ReleaseFails, WorkerCrash, Goto, Advance, Unwind, TypeInv, TypeOK
<1>2. ASSUME NEW r \in Requests, RequestStep(r) PROVE UNCHANGED wk
  BY <1>2 DEF RequestStep, ReadTransition, ReadRetry, CommitTransition, CommitRetry,
     RequestConflict, RequestEnqueue, RequestEnqueueFails, RequestClaim, RequestCrash, reqFrame
<1>3. ASSUME NEW p \in Replicas, ScanStep(p) PROVE UNCHANGED wk
  BY <1>3 DEF ScanStep, ReconcileStep, RescueStep, ExpiryStep, ReconcileSelect,
     ReconcileEnqueue, ReconcileClaim, ReconcileEnqueueFails, RescueSelect, RescueSkip,
     RescueMark, RescueSend, RescueSendFails, ExpirySelect, ExpireOne, ScansAbort, scanFrame
<1>4. ASSUME \/ UNCHANGED vars \/ Rest
             \/ \E t \in Tasks : RequestApproval(t) \/ Deadline(t)
             \/ \E d \in Dispatch : LeaseExpires(d) \/ LiveLeaseExpires(d) \/ MarkerExpires(d)
      PROVE  UNCHANGED wk
  BY <1>4 DEF Rest, RequestApproval, Deadline, LeaseExpires, LiveLeaseExpires, MarkerExpires,
     vars, procVars
<1> QED BY <1>1, <1>2, <1>3, <1>4 DEF Next

LEMMA SeenNext ==
    ASSUME TypeInv, Intentions, LeaseHeld, Trail, Decided, ApprovedOnce, SeenStands, [Next]_vars
    PROVE  SeenStands'
<1> SUFFICES ASSUME NEW w \in Workers, wk'[w].step \in {"premove", "move"}
             PROVE  LET t == TaskOf(wk'[w].job) IN
                    \/ /\ wk'[w].seen = "approved" /\ Row(wk'[w].job) = 1
                       /\ status'[t] \in {"approved", "cancelled"}
                    \/ /\ wk'[w].seen = "executing"
                       /\ status'[t] \notin {"absent", "pending", "approved"}
  BY DEF SeenStands, TaskOf, Row
<1>1. CASE Load(w)
  <2> DEFINE t == TaskOf(wk[w].job)
  <2>1. wk[w].job \in Dispatch /\ wk[w].job \in Written
    BY <1>1 DEF Load, Trail, TypeInv, ProcessesOK
  <2>2. /\ wk'[w].job = wk[w].job /\ wk'[w].seen = status[t] /\ status[t] \in Runnable
        /\ UNCHANGED status
    BY <1>1 DEF Load, Unwind, Advance, OnJob, TypeInv, TypeOK
  <2>3. t \in Tasks /\ (status[t] = "approved" => Row(wk[w].job) = 1)
    BY <2>1, DispatchParts DEF Written, ApprovedOnce
  <2> QED BY <2>2, <2>3 DEF Runnable
<1>2. CASE ~Load(w)
  <2>1. /\ wk[w].step \in {"premove", "move"} /\ wk'[w].job = wk[w].job
        /\ wk'[w].seen = wk[w].seen /\ ~PreMove(w) /\ ~StartMove(w)
    <3>1. CASE wk'[w] = wk[w]
      BY <3>1 DEF PreMove, StartMove, Goto, TypeInv, TypeOK, WorkerRecord
    <3>2. CASE WorkerStep(w)
      BY <1>2, <3>2 DEF WorkerStep, JobStep, Dequeue, Acquire, DropDuplicate, PreMove, StartMove,
         MoveMisses, CheckLease, CallEnds, Record, StopLease, StopRaised, HeartbeatLoses,
         JobRaises, ReleaseFails, WorkerCrash, Goto, Advance, Unwind, OnJob, IdleWorker,
         TypeInv, TypeOK, WorkerRecord
    <3> QED BY <3>1, <3>2, WorkersAlone
  <2> QED BY <2>1, SeenKept
<1> QED BY <1>1, <1>2

MoveInv == TypeInv /\ Intentions /\ LeaseHeld /\ Trail /\ Decided /\ ApprovedOnce /\ SeenStands

\* The event a worker publishes names the status it moved the task from, for any
\* number of requests, retries and workers, as long as no live lease lapses.
THEOREM MovesMatchEvents ==
    ASSUME ~LiveLeaseMayExpire PROVE Spec => MoveMatchesEvent
<1>1. Init => MoveInv
  BY TypeInit, TrailInit DEF Init, MoveInv, Intentions, IdleRequest, IdleWorker, LeaseHeld,
     Running, Decided, ApprovedOnce, SeenStands
<1>2. MoveInv /\ [Next]_vars => MoveInv'
  <2> SUFFICES ASSUME MoveInv, [Next]_vars PROVE MoveInv'
    OBVIOUS
  <2>1. LeaseHeld'
    BY LeaseNext, LeaseKept DEF MoveInv, vars, keyVars, procVars
  <2> QED BY <2>1, TypeNext, IntentionsNext, TrailNext, DecidedNext, ApprovedOnceNext, SeenNext
          DEF MoveInv
<1>3. MoveInv /\ [Next]_vars =>
        [\A w \in Workers :
           wk[w].step \in {"premove", "move"} /\ wk'[w].step \in {"check", "record"}
              => status[TaskOf(wk[w].job)] = wk[w].seen]_vars
  <2> SUFFICES ASSUME MoveInv, [Next]_vars, NEW w \in Workers,
                      wk[w].step \in {"premove", "move"}, wk'[w].step \in {"check", "record"}
               PROVE  status[TaskOf(wk[w].job)] = wk[w].seen
    OBVIOUS
  <2>1. wk'[w] = wk[w] \/ WorkerStep(w)
    BY WorkersAlone DEF MoveInv
  <2>2. PreMove(w) \/ StartMove(w)
    BY <2>1 DEF WorkerStep, JobStep, Dequeue, Acquire, DropDuplicate, Load, MoveMisses,
       CheckLease, CallEnds, Record, StopLease, StopRaised, HeartbeatLoses, JobRaises,
       ReleaseFails, WorkerCrash, Goto, Advance, Unwind, OnJob, IdleWorker, MoveInv, TypeInv,
       TypeOK, WorkerRecord
  <2>3. status[TaskOf(wk[w].job)] \in Runnable
    BY <2>2 DEF PreMove, StartMove, MoveFrom
  <2> QED BY <2>3 DEF MoveInv, SeenStands, Runnable
<1> QED BY <1>1, <1>2, <1>3, PTL DEF Spec, MoveMatchesEvent
-----------------------------------------------------------------------------
(* The retry count.  A retry computes the new count from the one it read, so *)
(* a row is in the count unless another retry, and the failure of its run,   *)
(* came between the two.  The count itself keeps to the budget regardless.   *)

CountsInBudget ==
    /\ \A t \in Tasks : retryCount[t] <= MaxRetries
    /\ \A r \in Requests : req[r].step = "retry" => req[r].count < MaxRetries

RowsAreCounted == \A t \in Tasks \ miscounted : rows[t] <= 1 + retryCount[t]

\* Only requests decide: nobody else touches the counts or a request's record.
LEMMA RequestsDecide ==
    ASSUME [Next]_vars
    PROVE  UNCHANGED <<retryCount, rows, miscounted, req>> \/ \E r \in Requests : RequestStep(r)
<1>1. ASSUME NEW w \in Workers, WorkerStep(w) PROVE UNCHANGED <<retryCount, rows, miscounted, req>>
  BY <1>1 DEF WorkerStep, JobStep, Dequeue, Acquire, DropDuplicate, Load, PreMove, StartMove,
     MoveMisses, CheckLease, CallEnds, Record, StopLease, StopRaised, HeartbeatLoses,
     JobRaises, ReleaseFails, WorkerCrash, workFrame
<1>2. ASSUME NEW p \in Replicas, ScanStep(p) PROVE UNCHANGED <<retryCount, rows, miscounted, req>>
  BY <1>2 DEF ScanStep, ReconcileStep, RescueStep, ExpiryStep, ReconcileSelect,
     ReconcileEnqueue, ReconcileClaim, ReconcileEnqueueFails, RescueSelect, RescueSkip,
     RescueMark, RescueSend, RescueSendFails, ExpirySelect, ExpireOne, ScansAbort, scanFrame
<1>3. ASSUME \/ UNCHANGED vars \/ Rest
             \/ \E t \in Tasks : RequestApproval(t) \/ Deadline(t)
             \/ \E d \in Dispatch : LeaseExpires(d) \/ LiveLeaseExpires(d) \/ MarkerExpires(d)
      PROVE  UNCHANGED <<retryCount, rows, miscounted, req>>
  BY <1>3 DEF Rest, RequestApproval, Deadline, LeaseExpires, LiveLeaseExpires, MarkerExpires,
     vars, dbVars, procVars
<1> QED BY <1>1, <1>2, <1>3 DEF Next

\* A step of a request that neither reads for a retry nor writes a row.
Uneventful(r) ==
    /\ UNCHANGED <<retryCount, rows, miscounted>>
    /\ req'[r].step # "retry"
    /\ \A q \in Requests : q # r => req'[q] = req[q]

LEMMA RequestKinds ==
    ASSUME TypeInv, NEW r \in Requests, RequestStep(r)
    PROVE  \/ Uneventful(r)
           \/ \E t \in Tasks : ReadRetry(r, t)
           \/ CommitTransition(r) /\ req[r].to = "approved"
           \/ CommitRetry(r)
<1> USE DEF Uneventful, Deciding, Sending, IdleRequest, TypeInv, TypeOK, RequestRecord
<1>1. CASE \E t \in Tasks, to \in Requestable : ReadTransition(r, t, to)
  BY <1>1 DEF ReadTransition
<1>2. CASE CommitTransition(r)
  BY <1>2 DEF CommitTransition
<1>3. CASE \/ RequestConflict(r) \/ RequestEnqueue(r) \/ RequestEnqueueFails(r)
           \/ RequestClaim(r) \/ RequestCrash(r)
  BY <1>3 DEF RequestConflict, RequestEnqueue, RequestEnqueueFails, RequestClaim, RequestCrash
<1> QED BY <1>1, <1>2, <1>3 DEF RequestStep

LEMMA CountsNext ==
    ASSUME TypeInv, CountsInBudget, [Next]_vars PROVE CountsInBudget'
<1>1. CASE UNCHANGED <<retryCount, rows, miscounted, req>>
  BY <1>1 DEF CountsInBudget
<1>2. ASSUME NEW r \in Requests, RequestStep(r) PROVE CountsInBudget'
  <2> USE BoundsAssumption DEF CountsInBudget, TypeInv, TypeOK, RequestRecord
  <2>1. CASE Uneventful(r)
    BY <2>1 DEF Uneventful
  <2>2. CASE \E t \in Tasks : ReadRetry(r, t)
    BY <2>2 DEF ReadRetry, MayRetry, Deciding
  <2>3. CASE CommitTransition(r) /\ req[r].to = "approved"
    BY <2>3 DEF CommitTransition, Sending
  <2>4. CASE CommitRetry(r)
    BY <2>4 DEF CommitRetry, Sending
  <2> QED BY <1>2, <2>1, <2>2, <2>3, <2>4, RequestKinds
<1> QED BY <1>1, <1>2, RequestsDecide

LEMMA CountedRowsNext ==
    ASSUME TypeInv, Intentions, Decided, RowsAreCounted, [Next]_vars
    PROVE  RowsAreCounted'
<1>1. CASE UNCHANGED <<retryCount, rows, miscounted, req>>
  BY <1>1 DEF RowsAreCounted
<1>2. ASSUME NEW r \in Requests, RequestStep(r) PROVE RowsAreCounted'
  <2> USE BoundsAssumption DEF RowsAreCounted, TypeInv, TypeOK, RequestRecord
  <2>1. CASE Uneventful(r)
    BY <2>1 DEF Uneventful
  <2>2. CASE \E t \in Tasks : ReadRetry(r, t)
    BY <2>2 DEF ReadRetry
  <2>3. CASE CommitTransition(r) /\ req[r].to = "approved"
    <3> DEFINE t == req[r].task
    <3>1. t \in Tasks /\ status[t] = "pending"
      BY <2>3, LegalMoves DEF CommitTransition, Intentions, ProcessesOK
    <3>2. rows[t] = 0
      BY <3>1 DEF Decided
    <3> QED BY <2>3, <3>1, <3>2 DEF CommitTransition
  <2>4. CASE CommitRetry(r)
    <3> DEFINE t == req[r].task
    <3>1. t \in Tasks
      BY <2>4 DEF CommitRetry, ProcessesOK
    <3>2. \/ req[r].count = retryCount[t] /\ miscounted' = miscounted
          \/ miscounted' = miscounted \cup {t}
      BY <2>4 DEF CommitRetry, Outrun
    <3> QED BY <2>4, <3>1, <3>2 DEF CommitRetry
  <2> QED BY <1>2, <2>1, <2>2, <2>3, <2>4, RequestKinds
<1> QED BY <1>1, <1>2, RequestsDecide

\* However many requests retry one task, every run it was started for is its
\* approval's or is in its retry_count, and the count keeps to the budget --
\* but for a task whose count was written by a retry that another retry and
\* the failure of its run had overtaken.
THEOREM RetriesAreCounted == Spec => []RerunsAreCounted
<1> DEFINE Inv == TypeInv /\ Intentions /\ Decided /\ CountsInBudget /\ RowsAreCounted
<1>1. Init => Inv
  BY TypeInit, BoundsAssumption
     DEF Init, Intentions, IdleRequest, IdleWorker, Decided, CountsInBudget, RowsAreCounted
<1>2. Inv /\ [Next]_vars => Inv'
  BY TypeNext, IntentionsNext, DecidedNext, CountsNext, CountedRowsNext
<1>3. Inv => RerunsAreCounted
  BY DEF CountsInBudget, RowsAreCounted, RerunsAreCounted
<1> QED BY <1>1, <1>2, <1>3, PTL DEF Spec
=============================================================================
