------------------------------- MODULE SignIn -------------------------------
(* Password sign-in (app/auth/local_login.py) for one address and one client *)
(* IP: every attempt spends the login bucket, asks the lockout, verifies the *)
(* password and then counts or clears the failures.  Each of those is an     *)
(* await, so attempts on one process, and on several, interleave there.      *)
EXTENDS RateLimit, FiniteSets

CONSTANTS Request,      \* concurrent sign-in requests
          ProcessOf,    \* the process that serves a request
          MaxFailures, LockTicks

ASSUME SignInAssumption ==
    /\ Process # {} /\ IsFiniteSet(Request)
    /\ ProcessOf \in [Request -> Process]
    /\ MaxFailures \in Nat \ {0} /\ LockTicks \in Nat \ {0}

VARIABLES counts, avoiding,
          pc,     \* where a request stands
          via,    \* the store that found the identifier unlocked
          late    \* passwords verified against a store's lock since it was set

Lockout == INSTANCE LoginLockout

signVars == <<pc, via, late>>
vars == <<rateVars, counts, avoiding, signVars>>

Step == {"idle", "check", "verify", "wrong", "right"}

Init ==
    /\ RateInit /\ Lockout!LockInit
    /\ pc = [r \in Request |-> "idle"]
    /\ via = [r \in Request |-> Redis]
    /\ late = [s \in Store |-> 0]

Goto(r, step) == pc' = [pc EXCEPT ![r] = step]

(* _consume_login_budget: an attempt without a token ends in a 429. *)
Consume(r) ==
    /\ pc[r] = "idle"
    /\ Acquire(ProcessOf[r])
    /\ Goto(r, IF answer'[2] = "granted" THEN "check" ELSE "idle")
    /\ UNCHANGED <<counts, avoiding, via, late>>

(* The OIDC start spends the same bucket, through the middleware. *)
StartSso(p) ==
    /\ Acquire(p)
    /\ UNCHANGED <<counts, avoiding, signVars>>

SweepBuckets(p) ==
    /\ SweepLocal(p)
    /\ UNCHANGED <<counts, avoiding, signVars>>

(* A request the fields or the tenant of which are refused goes no further. *)
Refuse(r) ==
    /\ pc[r] = "check"
    /\ Goto(r, "idle")
    /\ UNCHANGED <<rateVars, counts, avoiding, via, late>>

(* Mutant: an error of the store is taken for "not locked". *)
CheckLockOpen(r) ==
    /\ pc[r] = "check"
    /\ \E reply \in {"ok", "failed"} :
          LET judge == Lockout!Judge(ProcessOf[r], reply) IN
          /\ Lockout!IsLocked(ProcessOf[r], reply)
          /\ IF reply = "ok" /\ Lockout!Locked(judge)
             THEN Goto(r, "idle") /\ UNCHANGED via
             ELSE Goto(r, "verify") /\ via' = [via EXCEPT ![r] = judge]
    /\ UNCHANGED <<rateVars, late>>

(* The lockout is asked; a locked identifier ends in a 429 and nothing of    *)
(* the password is looked at.                                                *)
CheckLock(r) ==
    /\ pc[r] = "check"
    /\ \E reply \in {"ok", "failed"} :
          LET judge == Lockout!Judge(ProcessOf[r], reply) IN
          /\ Lockout!IsLocked(ProcessOf[r], reply)
          /\ IF Lockout!Locked(judge)
             THEN Goto(r, "idle") /\ UNCHANGED via
             ELSE Goto(r, "verify") /\ via' = [via EXCEPT ![r] = judge]
    /\ UNCHANGED <<rateVars, late>>

(* No account, two that fold onto one address and a wrong password are one   *)
(* outcome.                                                                  *)
Judged == {"wrong", "right"}

(* The account is read and the password verified against it; the row may     *)
(* have been disabled meanwhile, which counts as a failure.                  *)
Verify(r) ==
    /\ pc[r] = "verify"
    /\ \E outcome \in Judged : Goto(r, outcome)
    /\ late' = IF Lockout!Locked(via[r]) THEN [late EXCEPT ![via[r]] = @ + 1] ELSE late
    /\ UNCHANGED <<rateVars, counts, avoiding, via>>

(* late counts from the moment a lock is set until it is gone. *)
Restart == late' = [s \in Store |->
    IF Lockout!Locked(s) /\ Lockout!Locked(s)' THEN late[s] ELSE 0]

RecordFailure(r) ==
    /\ pc[r] = "wrong"
    /\ \E reply \in Lockout!Reply, sweep \in BOOLEAN :
          Lockout!RecordFailure(ProcessOf[r], reply, sweep)
    /\ Restart
    /\ Goto(r, "idle")
    /\ UNCHANGED <<rateVars, via>>

(* A successful attempt forgets the failures and goes on to open a session. *)
ClearFailures(r) ==
    /\ pc[r] = "right"
    /\ \E reply \in Lockout!Reply : Lockout!Clear(ProcessOf[r], reply)
    /\ Restart
    /\ Goto(r, "idle")
    /\ UNCHANGED <<rateVars, via>>

Tick ==
    /\ RateTick /\ Lockout!LockTick
    /\ Restart
    /\ UNCHANGED <<pc, via>>

Next ==
    \/ \E r \in Request :
          \/ Consume(r) \/ Refuse(r) \/ CheckLock(r) \/ Verify(r)
          \/ RecordFailure(r) \/ ClearFailures(r)
    \/ \E p \in Process : StartSso(p) \/ SweepBuckets(p)
    \/ Tick

Spec == Init /\ [][Next]_vars

TypeOK ==
    /\ RateTypeOK /\ Lockout!LockTypeOK
    /\ pc \in [Request -> Step]
    /\ via \in [Request -> Store]
    /\ late \in [Store -> Nat]

(* Attempts that store s has let through and that have yet to verify. *)
Past(s) == {r \in Request : pc[r] = "verify" /\ via[r] = s}

(* "While locked the password is not verified at all" (login_lockout.py:5) up *)
(* to the attempts the lock found already past its check: since a store's     *)
(* lock was set, the attempts it let through verify fewer passwords than      *)
(* there are concurrent requests, whatever fails, clears or expires.          *)
LateGuessesBounded ==
    \A s \in Store : Lockout!Locked(s) => late[s] + Cardinality(Past(s)) < Cardinality(Request)

(* Every bucket, shared or fallback, is at every moment the one token bucket  *)
(* it stands for: refill on read, key expiry, eviction of idle entries, lost  *)
(* replies and the fallback change nothing a caller could tell.               *)
BucketsAreIdeal ==
    /\ \A s \in Store : Bucket(s)!Init
    /\ [][\A s \in Store : Bucket(s)!Next \/ Bucket(s)!Stutter]_vars
=============================================================================
