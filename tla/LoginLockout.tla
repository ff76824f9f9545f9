---------------------------- MODULE LoginLockout ----------------------------
(* Failure counting for one login identifier (app/auth/login_lockout.py): a  *)
(* count and a lock in Redis for every instance, and the same two in each    *)
(* process while Redis does not answer it.                                   *)
EXTENDS Integers

CONSTANTS Process,      \* backend processes
          Redis,        \* the name of the shared store
          MaxFailures,  \* MAX_FAILURES
          LockTicks,    \* LOCK_SECONDS, the lock's and the count's lifetime
          Cooldown      \* RECOVERY_RETRY_SECONDS

VARIABLES counts,   \* failures and lock, as each store holds them
          avoiding  \* ticks a process still keeps away from Redis

lockVars == <<counts, avoiding>>

Store == {Redis} \cup Process
Reply == {"ok", "failed", "lost"}
Count == [fails : 0..(MaxFailures - 1), failTicks : 0..LockTicks, lockTicks : 0..LockTicks]

Clean == [fails |-> 0, failTicks |-> 0, lockTicks |-> 0]

Locked(s) == counts[s].lockTicks > 0

(* One more failure: it renews the count's lifetime, or reaches the limit    *)
(* and turns the count into a lock.                                          *)
Failed(c) ==
    IF c.fails + 1 >= MaxFailures
    THEN [fails |-> 0, failTicks |-> 0, lockTicks |-> LockTicks]
    ELSE [c EXCEPT !.fails = @ + 1, !.failTicks = LockTicks]

(* A process drops the counts that ran out at most once a minute, and only   *)
(* when it records a failure; until then an expired count still adds up.     *)
Expired(c) == IF c.failTicks = 0 THEN [c EXCEPT !.fails = 0] ELSE c

LockInit ==
    /\ counts = [s \in Store |-> Clean]
    /\ avoiding = [p \in Process |-> 0]

(* The answers a process may get from Redis: it is not asked during the      *)
(* cooldown that follows an error.  "failed" and "lost" both raise; only a   *)
(* lost command took effect.                                                 *)
Asked(p, reply) == avoiding[p] > 0 => reply = "failed"

(* What a reply leaves of the cooldown. *)
Avoid(p, reply) ==
    IF avoiding[p] > 0 THEN UNCHANGED avoiding
    ELSE avoiding' = [avoiding EXCEPT ![p] = IF reply = "ok" THEN 0 ELSE Cooldown]

(* is_locked: the store that judges the attempt. *)
Judge(p, reply) == IF reply = "ok" THEN Redis ELSE p

IsLocked(p, reply) ==
    /\ Asked(p, reply) /\ reply # "lost"
    /\ Avoid(p, reply)
    /\ UNCHANGED counts

RecordFailure(p, reply, sweep) ==
    /\ Asked(p, reply)
    /\ Avoid(p, reply)
    /\ counts' = [s \in Store |->
          IF s = Redis /\ reply # "failed" THEN Failed(counts[s])
          ELSE IF s = p /\ reply # "ok"
               THEN Failed(IF sweep THEN Expired(counts[s]) ELSE counts[s])
               ELSE counts[s]]

(* The one command that is sent to Redis during the cooldown too. *)
Clear(p, reply) ==
    /\ counts' = [s \in Store |->
          IF s = p \/ (s = Redis /\ reply # "failed") THEN Clean ELSE counts[s]]
    /\ avoiding' = [avoiding EXCEPT ![p] = IF reply = "ok" THEN 0 ELSE Cooldown]

LockTick ==
    /\ counts' = [s \in Store |->
          LET c == counts[s]
              left(n) == IF n = 0 THEN 0 ELSE n - 1
          IN  [fails |-> IF s = Redis /\ c.failTicks <= 1 THEN 0 ELSE c.fails,
               failTicks |-> left(c.failTicks), lockTicks |-> left(c.lockTicks)]]
    /\ avoiding' = [p \in Process |-> IF avoiding[p] = 0 THEN 0 ELSE avoiding[p] - 1]

LockTypeOK ==
    /\ counts \in [Store -> Count]
    /\ avoiding \in [Process -> 0..Cooldown]
=============================================================================
