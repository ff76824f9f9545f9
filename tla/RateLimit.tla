----------------------------- MODULE RateLimit -----------------------------
(* The login bucket of one client address (app/rate_limit.py): the bucket    *)
(* every backend process shares in Redis, and the bucket each process falls  *)
(* back to while Redis does not answer it.                                   *)
(*                                                                           *)
(* Time is counted in ticks.  A bucket records how many ticks ago it was     *)
(* last written, which stops counting once the bucket must be full again.    *)
EXTENDS Integers

CONSTANTS Process,    \* backend processes
          Capacity,   \* a bucket's capacity
          Refill,     \* what a tick gives back
          Cost,       \* what one request takes
          Window,     \* the ticks an empty bucket needs to fill
          Cooldown    \* RECOVERY_RETRY_SECONDS, in ticks

ASSUME RateAssumption ==
    /\ Capacity \in Nat /\ Refill \in Nat \ {0} /\ Cost \in Nat \ {0}
    /\ Window \in Nat /\ Cooldown \in Nat
    /\ Cost <= Capacity /\ Window * Refill >= Capacity

CONSTANT Redis   \* the name of the shared bucket
ASSUME RedisAssumption == Redis \notin Process

VARIABLES bucket,   \* the stored bucket of Redis and of every process
          cooling,  \* ticks a process still keeps away from Redis
          answer    \* the last acquire: the bucket that judged it, the verdict

rateVars == <<bucket, cooling, answer>>

Store == {Redis} \cup Process
Age == 0..(Window + 1)
Stored == [there : BOOLEAN, tokens : 0..Capacity, age : Age, expires : BOOLEAN]
Verdict == {"granted", "refused", "none"}

Absent == [there |-> FALSE, tokens |-> 0, age |-> 0, expires |-> FALSE]
Smaller(a, b) == IF a <= b THEN a ELSE b
Older(age) == Smaller(Window + 1, age + 1)

(* Mutant: the refill is added to a bucket without the cap. *)
LevelUncapped(b) == IF b.there THEN b.tokens + b.age * Refill ELSE Capacity

(* The tokens a bucket holds now: the refill is added when it is read. *)
Level(b) == IF b.there THEN Smaller(Capacity, b.tokens + b.age * Refill) ELSE Capacity

Verdicts(b) == IF Level(b) >= Cost THEN "granted" ELSE "refused"

(* The Lua script.  A grant renews the expiry of the two keys; the SET of a  *)
(* denial drops the expiry they had.                                         *)
ChargedShared(b) ==
    IF Level(b) >= Cost
    THEN [there |-> TRUE, tokens |-> Level(b) - Cost, age |-> 0, expires |-> TRUE]
    ELSE [there |-> TRUE, tokens |-> Level(b), age |-> 0, expires |-> FALSE]

(* InMemoryTokenBucket.acquire.  At most once a minute the call first drops  *)
(* the buckets that sat idle for longer than they need to fill.              *)
Swept(b) == IF b.there /\ b.age * Refill > Capacity THEN Absent ELSE b

ChargedLocal(b) ==
    [there |-> TRUE, age |-> 0, expires |-> FALSE,
     tokens |-> IF Level(b) >= Cost THEN Level(b) - Cost ELSE Level(b)]

RateInit ==
    /\ bucket = [s \in Store |-> Absent]
    /\ cooling = [p \in Process |-> 0]
    /\ answer = <<Redis, "none">>

(* Redis answered: the verdict is the shared bucket's and the cooldown ends. *)
AcquireShared(p) ==
    /\ cooling[p] = 0
    /\ bucket' = [bucket EXCEPT ![Redis] = ChargedShared(@)]
    /\ answer' = <<Redis, Verdicts(bucket[Redis])>>
    /\ UNCHANGED cooling

(* Redis is being avoided, or raised an error, before ("failed") or after    *)
(* ("lost") the script ran there: the process's own bucket judges.           *)
AcquireLocal(p, reply, sweep) ==
    LET mine == IF sweep THEN Swept(bucket[p]) ELSE bucket[p] IN
    /\ cooling[p] > 0 => reply = "failed"
    /\ bucket' = [s \in Store |->
                     IF s = p THEN ChargedLocal(mine)
                     ELSE IF s = Redis /\ reply = "lost" THEN ChargedShared(bucket[s])
                     ELSE bucket[s]]
    /\ cooling' = IF cooling[p] > 0 THEN cooling ELSE [cooling EXCEPT ![p] = Cooldown]
    /\ answer' = <<p, Verdicts(mine)>>

Acquire(p) ==
    \/ AcquireShared(p)
    \/ \E reply \in {"failed", "lost"}, sweep \in BOOLEAN : AcquireLocal(p, reply, sweep)

(* An acquire of some other key sweeps the process's buckets too. *)
SweepLocal(p) ==
    /\ bucket' = [bucket EXCEPT ![p] = Swept(@)]
    /\ answer' = <<p, "none">>
    /\ UNCHANGED cooling

Aged(b) ==
    IF ~b.there THEN b
    ELSE IF b.expires /\ b.age = Window THEN Absent
    ELSE [b EXCEPT !.age = Older(b.age)]

RateTick ==
    /\ bucket' = [s \in Store |-> Aged(bucket[s])]
    /\ cooling' = [p \in Process |-> IF cooling[p] = 0 THEN 0 ELSE cooling[p] - 1]
    /\ answer' = <<answer[1], "none">>

RateTypeOK ==
    /\ bucket \in [Store -> Stored]
    /\ cooling \in [Process -> 0..Cooldown]
    /\ answer \in Store \X Verdict

(* A stored bucket is the bucket it promises to be: what a caller of store s *)
(* is told and what is left afterwards are those of one ideal token bucket,  *)
(* through expiry, eviction, lost replies and fallback.                      *)
Bucket(s) == INSTANCE TokenBucket WITH
    level <- Level(bucket[s]),
    verdict <- IF answer[1] = s THEN answer[2] ELSE "none"
=============================================================================
