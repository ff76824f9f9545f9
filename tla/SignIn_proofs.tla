--------------------------- MODULE SignIn_proofs ---------------------------
EXTENDS SignIn, FiniteSetTheorems, TLAPS

(***************************************************************************)
(* The buckets.                                                            *)
(***************************************************************************)
LEMMA Products ==
    /\ \A n \in Nat : n * Refill \in Nat /\ (n + 1) * Refill = n * Refill + Refill
    /\ \A n \in Nat : n >= Window => n * Refill >= Capacity
<1>1. Refill \in Nat /\ Window \in Nat /\ Window * Refill >= Capacity /\ Capacity \in Nat
  BY RateAssumption
<1>2. ASSUME NEW n \in Nat, n >= Window PROVE n * Refill >= Capacity
  <2>1. PICK d \in Nat : n = Window + d
    <3>1. n - Window \in Nat /\ n = Window + (n - Window)
      BY <1>1, <1>2
    <3> QED BY <3>1
  <2>2. n * Refill = Window * Refill + d * Refill
    BY <1>1, <2>1
  <2>3. d * Refill \in Nat /\ Window * Refill \in Nat
    BY <1>1, <2>1
  <2> QED BY <1>1, <2>2, <2>3
<1>3. ASSUME NEW n \in Nat PROVE n * Refill \in Nat /\ (n + 1) * Refill = n * Refill + Refill
  BY <1>1
<1> QED BY <1>2, <1>3

LEMMA AbsentStored == Absent \in Stored /\ Level(Absent) = Capacity
BY RateAssumption DEF Absent, Stored, Age, Level

\* What is left in a stored bucket, and after a tick, a charge or a sweep.
LEMMA LevelBounded ==
    ASSUME NEW b \in Stored PROVE Level(b) \in 0..Capacity
<1>1. b.age * Refill \in Nat
  BY Products DEF Stored, Age
<1> QED BY <1>1, RateAssumption DEF Stored, Level, Smaller

LEMMA LevelSwept ==
    ASSUME NEW b \in Stored PROVE Swept(b) \in Stored /\ Level(Swept(b)) = Level(b)
<1>1. b.age * Refill \in Nat
  BY Products DEF Stored, Age
<1>2. CASE b.there /\ b.age * Refill > Capacity
  <2>1. Level(b) = Capacity
    BY <1>1, <1>2, RateAssumption DEF Stored, Level, Smaller
  <2> QED BY <1>2, <2>1, AbsentStored DEF Swept
<1>3. CASE ~(b.there /\ b.age * Refill > Capacity)
  BY <1>3 DEF Swept
<1> QED BY <1>2, <1>3

LEMMA LevelCharged ==
    ASSUME NEW b \in Stored
    PROVE  /\ ChargedShared(b) \in Stored /\ ChargedLocal(b) \in Stored
           /\ Level(ChargedShared(b)) = IF Level(b) >= Cost THEN Level(b) - Cost ELSE Level(b)
           /\ Level(ChargedLocal(b)) = IF Level(b) >= Cost THEN Level(b) - Cost ELSE Level(b)
<1> DEFINE left == IF Level(b) >= Cost THEN Level(b) - Cost ELSE Level(b)
<1>1. left \in 0..Capacity
  BY LevelBounded, RateAssumption
<1>2. \A e \in BOOLEAN :
        LET c == [there |-> TRUE, tokens |-> left, age |-> 0, expires |-> e]
        IN  c \in Stored /\ Level(c) = left
  <2> SUFFICES ASSUME NEW e \in BOOLEAN
               PROVE  LET c == [there |-> TRUE, tokens |-> left, age |-> 0, expires |-> e]
                      IN  c \in Stored /\ Level(c) = left
    OBVIOUS
  <2> HIDE DEF left
  <2>1. 0 \in Age /\ 0 * Refill = 0
    BY RateAssumption DEF Age
  <2>2. Smaller(Capacity, left + 0) = left
    BY <1>1, RateAssumption DEF Smaller
  <2> QED BY <1>1, <2>1, <2>2 DEF Stored, Level
<1>3. \E e \in BOOLEAN :
        ChargedShared(b) = [there |-> TRUE, tokens |-> left, age |-> 0, expires |-> e]
  <2>1. CASE Level(b) >= Cost
    BY <2>1 DEF ChargedShared
  <2>2. CASE ~(Level(b) >= Cost)
    BY <2>2 DEF ChargedShared
  <2> QED BY <2>1, <2>2
<1>4. ChargedLocal(b) = [there |-> TRUE, tokens |-> left, age |-> 0, expires |-> FALSE]
  BY DEF ChargedLocal
<1> HIDE DEF left
<1>5. ChargedShared(b) \in Stored /\ Level(ChargedShared(b)) = left
  BY <1>2, <1>3
<1>6. ChargedLocal(b) \in Stored /\ Level(ChargedLocal(b)) = left
  BY <1>2, <1>4
<1> QED BY <1>5, <1>6 DEF left

LEMMA LevelAged ==
    ASSUME NEW b \in Stored
    PROVE  Aged(b) \in Stored /\ Level(Aged(b)) = Smaller(Capacity, Level(b) + Refill)
<1> DEFINE x == b.age * Refill
<1>1. b.age \in Nat /\ b.age <= Window + 1 /\ b.tokens \in Nat /\ b.tokens <= Capacity
  BY RateAssumption DEF Stored, Age
<1>2. /\ x \in Nat /\ (b.age + 1) * Refill = x + Refill
      /\ b.age >= Window => x >= Capacity
  BY <1>1, Products
<1>3. Capacity \in Nat /\ Refill \in Nat /\ Window \in Nat
  BY RateAssumption
<1>4. CASE ~b.there
  BY <1>3, <1>4 DEF Aged, Level, Smaller
<1>5. CASE b.there /\ b.expires /\ b.age = Window
  <2>1. Level(b) = Capacity
    BY <1>1, <1>2, <1>3, <1>5 DEF Level, Smaller
  <2>2. Aged(b) = Absent
    BY <1>5 DEF Aged
  <2> QED BY <1>3, <2>1, <2>2, AbsentStored DEF Smaller
<1>6. CASE b.there /\ ~(b.expires /\ b.age = Window)
  <2>1. Aged(b) = [b EXCEPT !.age = Older(b.age)]
    BY <1>6 DEF Aged
  <2>2. Older(b.age) \in Age /\ Older(b.age) = IF b.age <= Window THEN b.age + 1 ELSE Window + 1
    BY <1>1, <1>3 DEF Older, Smaller, Age
  <2>3. /\ Aged(b) \in Stored /\ Aged(b).there
        /\ Aged(b).tokens = b.tokens /\ Aged(b).age = Older(b.age)
    BY <1>6, <2>1, <2>2 DEF Stored
  <2>4. CASE b.age <= Window
    <3>1. Aged(b).age * Refill = x + Refill
      BY <1>2, <2>2, <2>3, <2>4
    <3> HIDE DEF x
    <3>2. Level(Aged(b)) = Smaller(Capacity, b.tokens + (x + Refill))
      BY <2>3, <3>1 DEF Level
    <3>3. Level(b) = Smaller(Capacity, b.tokens + x)
      BY <1>6 DEF Level, x
    <3> QED BY <1>1, <1>2, <1>3, <2>3, <3>2, <3>3 DEF Smaller
  <2>5. CASE ~(b.age <= Window)
    <3>1. b.age = Window + 1 /\ Aged(b).age = b.age
      BY <1>1, <1>3, <2>2, <2>3, <2>5
    <3>2. x >= Capacity
      BY <1>1, <1>2, <1>3, <2>5
    <3>3. Level(Aged(b)) = Smaller(Capacity, b.tokens + x)
      BY <2>3, <3>1 DEF Level
    <3>4. Level(b) = Smaller(Capacity, b.tokens + x)
      BY <1>6 DEF Level
    <3> HIDE DEF x
    <3> QED BY <1>1, <1>2, <1>3, <2>3, <3>2, <3>3, <3>4 DEF Smaller
  <2> QED BY <2>4, <2>5
<1> QED BY <1>4, <1>5, <1>6

(***************************************************************************)
(* Types.  The limiter, the lockout and the requests change together only  *)
(* when time passes.                                                       *)
(***************************************************************************)
LEMMA AcquireTyped ==
    ASSUME RateTypeOK, NEW p \in Process, Acquire(p)
    PROVE  RateTypeOK' /\ answer'[2] \in {"granted", "refused"}
<1>1. /\ bucket \in [Store -> Stored] /\ cooling \in [Process -> 0..Cooldown]
      /\ p \in Store /\ Redis \in Store
      /\ \A b : Verdicts(b) \in {"granted", "refused"}
  BY DEF RateTypeOK, Store, Verdicts
<1>2. CASE AcquireShared(p)
  <2>1. ChargedShared(bucket[Redis]) \in Stored
    BY <1>1, LevelCharged
  <2> QED BY <1>1, <1>2, <2>1 DEF AcquireShared, RateTypeOK, Verdict
<1>3. ASSUME NEW reply \in {"failed", "lost"}, NEW sweep \in BOOLEAN,
             AcquireLocal(p, reply, sweep)
      PROVE  RateTypeOK' /\ answer'[2] \in {"granted", "refused"}
  <2> DEFINE mine == IF sweep THEN Swept(bucket[p]) ELSE bucket[p]
  <2>1. mine \in Stored
    BY <1>1, LevelSwept
  <2>2. ChargedLocal(mine) \in Stored /\ ChargedShared(bucket[Redis]) \in Stored
    BY <1>1, <2>1, LevelCharged
  <2>3. /\ answer' = <<p, Verdicts(mine)>>
        /\ bucket' = [s \in Store |->
                         IF s = p THEN ChargedLocal(mine)
                         ELSE IF s = Redis /\ reply = "lost" THEN ChargedShared(bucket[s])
                         ELSE bucket[s]]
        /\ cooling' = IF cooling[p] > 0 THEN cooling ELSE [cooling EXCEPT ![p] = Cooldown]
    BY <1>3 DEF AcquireLocal
  <2> HIDE DEF mine
  <2>4. bucket' \in [Store -> Stored]
    BY <1>1, <2>2, <2>3
  <2>5. Cooldown \in 0..Cooldown
    BY RateAssumption
  <2>6. cooling' \in [Process -> 0..Cooldown]
    BY <1>1, <2>3, <2>5
  <2> QED BY <1>1, <2>3, <2>4, <2>6 DEF RateTypeOK, Verdict
<1> QED BY <1>2, <1>3 DEF Acquire

LEMMA RateTickTyped ==
    ASSUME RateTypeOK, RateTick PROVE RateTypeOK'
<1>1. bucket' \in [Store -> Stored]
  BY LevelAged DEF RateTypeOK, RateTick
<1>2. \A n \in 0..Cooldown : (IF n = 0 THEN 0 ELSE n - 1) \in 0..Cooldown
  BY RateAssumption
<1>3. cooling' \in [Process -> 0..Cooldown]
  BY <1>2 DEF RateTypeOK, RateTick
<1> QED BY <1>1, <1>3 DEF RateTypeOK, RateTick, Verdict

LEMMA FailureTyped ==
    ASSUME NEW c \in Lockout!Count
    PROVE  Lockout!Failed(c) \in Lockout!Count /\ Lockout!Expired(c) \in Lockout!Count
<1>1. /\ MaxFailures \in Nat \ {0} /\ LockTicks \in Nat \ {0}
      /\ c.fails \in 0..(MaxFailures - 1)
      /\ c.failTicks \in 0..LockTicks /\ c.lockTicks \in 0..LockTicks
  BY SignInAssumption DEF Lockout!Count
<1>2. Lockout!Failed(c) \in Lockout!Count
  <2>1. CASE c.fails + 1 >= MaxFailures
    <3>1. 0 \in 0..(MaxFailures - 1) /\ 0 \in 0..LockTicks /\ LockTicks \in 0..LockTicks
      BY <1>1
    <3> QED BY <2>1, <3>1 DEF Lockout!Failed, Lockout!Count
  <2>2. CASE ~(c.fails + 1 >= MaxFailures)
    <3>1. c.fails + 1 \in 0..(MaxFailures - 1) /\ LockTicks \in 0..LockTicks
      BY <1>1, <2>2
    <3> QED BY <2>2, <3>1 DEF Lockout!Failed, Lockout!Count
  <2> QED BY <2>1, <2>2
<1>3. 0 \in 0..(MaxFailures - 1)
  BY <1>1
<1> QED BY <1>2, <1>3 DEF Lockout!Expired, Lockout!Count

LEMMA CleanTyped == Lockout!Clean \in Lockout!Count
<1>1. 0 \in 0..(MaxFailures - 1) /\ 0 \in 0..LockTicks
  BY SignInAssumption
<1> QED BY <1>1 DEF Lockout!Clean, Lockout!Count

LEMMA AvoidTyped ==
    ASSUME avoiding \in [Process -> 0..Cooldown], NEW p \in Process, NEW reply,
           Lockout!Avoid(p, reply)
    PROVE  avoiding' \in [Process -> 0..Cooldown]
<1>1. (IF reply = "ok" THEN 0 ELSE Cooldown) \in 0..Cooldown
  BY RateAssumption
<1> QED BY <1>1 DEF Lockout!Avoid

LEMMA IsLockedTyped ==
    ASSUME Lockout!LockTypeOK, NEW p \in Process, NEW reply, Lockout!IsLocked(p, reply)
    PROVE  Lockout!LockTypeOK'
BY AvoidTyped DEF Lockout!LockTypeOK, Lockout!IsLocked

LEMMA RecordTyped ==
    ASSUME Lockout!LockTypeOK, NEW p \in Process, NEW reply, NEW sweep,
           Lockout!RecordFailure(p, reply, sweep)
    PROVE  Lockout!LockTypeOK'
<1>1. \A s \in Store : /\ counts[s] \in Lockout!Count
                      /\ Lockout!Failed(counts[s]) \in Lockout!Count
                      /\ Lockout!Expired(counts[s]) \in Lockout!Count
                      /\ Lockout!Failed(Lockout!Expired(counts[s])) \in Lockout!Count
  BY FailureTyped DEF Lockout!LockTypeOK, Lockout!Store, Store
<1>2. counts' \in [Lockout!Store -> Lockout!Count]
  BY <1>1 DEF Lockout!RecordFailure, Lockout!Store, Store
<1>3. avoiding' \in [Process -> 0..Cooldown]
  BY AvoidTyped DEF Lockout!LockTypeOK, Lockout!RecordFailure
<1> QED BY <1>2, <1>3 DEF Lockout!LockTypeOK

LEMMA ClearTyped ==
    ASSUME Lockout!LockTypeOK, NEW p \in Process, NEW reply, Lockout!Clear(p, reply)
    PROVE  Lockout!LockTypeOK'
<1>1. counts' \in [Lockout!Store -> Lockout!Count]
  BY CleanTyped DEF Lockout!LockTypeOK, Lockout!Clear
<1>2. (IF reply = "ok" THEN 0 ELSE Cooldown) \in 0..Cooldown
  BY RateAssumption
<1>3. avoiding' \in [Process -> 0..Cooldown]
  BY <1>2 DEF Lockout!LockTypeOK, Lockout!Clear
<1> QED BY <1>1, <1>3 DEF Lockout!LockTypeOK

LEMMA LockTickTyped ==
    ASSUME Lockout!LockTypeOK, Lockout!LockTick
    PROVE  /\ Lockout!LockTypeOK'
           /\ \A s \in Store : Lockout!Locked(s)' => Lockout!Locked(s)
<1> DEFINE left(n) == IF n = 0 THEN 0 ELSE n - 1
           next(s) == [fails |-> IF s = Redis /\ counts[s].failTicks <= 1
                                 THEN 0 ELSE counts[s].fails,
                       failTicks |-> left(counts[s].failTicks),
                       lockTicks |-> left(counts[s].lockTicks)]
<1>1. counts' = [s \in Store |-> next(s)]
  BY DEF Lockout!LockTick, Lockout!Store, Store
<1>2. ASSUME NEW s \in Store
      PROVE  next(s) \in Lockout!Count /\ (next(s).lockTicks > 0 => counts[s].lockTicks > 0)
  <2>1. /\ MaxFailures \in Nat \ {0} /\ LockTicks \in Nat \ {0}
        /\ counts[s].fails \in 0..(MaxFailures - 1)
        /\ counts[s].failTicks \in 0..LockTicks /\ counts[s].lockTicks \in 0..LockTicks
    BY SignInAssumption DEF Lockout!LockTypeOK, Lockout!Count, Lockout!Store, Store
  <2>2. /\ left(counts[s].failTicks) \in 0..LockTicks
        /\ left(counts[s].lockTicks) \in 0..LockTicks
        /\ left(counts[s].lockTicks) > 0 => counts[s].lockTicks > 0
        /\ 0 \in 0..(MaxFailures - 1)
    BY <2>1
  <2> HIDE DEF left
  <2> QED BY <2>1, <2>2 DEF Lockout!Count
<1>3. \A n \in 0..Cooldown : (IF n = 0 THEN 0 ELSE n - 1) \in 0..Cooldown
  BY RateAssumption
<1>4. avoiding' \in [Process -> 0..Cooldown]
  BY <1>3 DEF Lockout!LockTypeOK, Lockout!LockTick
<1> HIDE DEF next
<1>5. counts' \in [Lockout!Store -> Lockout!Count]
  BY <1>1, <1>2 DEF Lockout!Store, Store
<1>6. \A s \in Store : Lockout!Locked(s)' => Lockout!Locked(s)
  BY <1>1, <1>2 DEF Lockout!Locked
<1> QED BY <1>4, <1>5, <1>6 DEF Lockout!LockTypeOK

LEMMA TypeInit == Init => TypeOK
<1> SUFFICES ASSUME Init PROVE TypeOK
  OBVIOUS
<1>1. RateTypeOK
  <2>1. 0 \in 0..Cooldown /\ Redis \in Store
    BY RateAssumption DEF Store
  <2> QED BY <2>1, AbsentStored DEF Init, RateInit, RateTypeOK, Verdict
<1>2. Lockout!LockTypeOK
  <2>1. 0 \in 0..Cooldown
    BY RateAssumption
  <2> QED BY <2>1, CleanTyped DEF Init, Lockout!LockInit, Lockout!LockTypeOK
<1> QED BY <1>1, <1>2 DEF Init, TypeOK, Step, Store

LEMMA TypeStep == TypeOK /\ [Next]_vars => TypeOK'
<1> SUFFICES ASSUME TypeOK, [Next]_vars PROVE TypeOK'
  OBVIOUS
<1> USE DEF TypeOK
<1>r. ASSUME UNCHANGED rateVars PROVE RateTypeOK'
  BY <1>r DEF RateTypeOK, rateVars
<1>l. ASSUME UNCHANGED <<counts, avoiding>> PROVE Lockout!LockTypeOK'
  BY <1>l DEF Lockout!LockTypeOK
<1>g. ASSUME NEW r \in Request, NEW step \in Step, Goto(r, step)
      PROVE  pc' \in [Request -> Step]
  BY <1>g DEF Goto
<1>p. \A r \in Request : ProcessOf[r] \in Process
  BY SignInAssumption
<1>s. Restart => late' \in [Store -> Nat]
  BY DEF Restart
<1>1. ASSUME NEW r \in Request, Consume(r) PROVE TypeOK'
  <2>1. RateTypeOK' /\ answer'[2] \in {"granted", "refused"}
    BY <1>1, <1>p, AcquireTyped DEF Consume
  <2>2. pc' \in [Request -> Step]
    BY <1>1, <1>g DEF Consume, Step
  <2> QED BY <1>1, <1>l, <2>1, <2>2 DEF Consume
<1>2. ASSUME NEW p \in Process, StartSso(p) PROVE TypeOK'
  BY <1>2, <1>l, AcquireTyped DEF StartSso, signVars
<1>3. ASSUME NEW p \in Process, SweepBuckets(p) PROVE TypeOK'
  <2>1. Swept(bucket[p]) \in Stored /\ p \in Store
    BY LevelSwept DEF RateTypeOK, Store
  <2>2. RateTypeOK'
    BY <1>3, <2>1 DEF SweepBuckets, SweepLocal, RateTypeOK, Verdict
  <2> QED BY <1>3, <1>l, <2>2 DEF SweepBuckets, signVars
<1>4. ASSUME NEW r \in Request, Refuse(r) PROVE TypeOK'
  <2>1. pc' \in [Request -> Step]
    BY <1>4, <1>g DEF Refuse, Step
  <2> QED BY <1>4, <1>r, <1>l, <2>1 DEF Refuse
<1>5. ASSUME NEW r \in Request, CheckLock(r) PROVE TypeOK'
  <2>1. PICK reply \in {"ok", "failed"} :
          /\ Lockout!IsLocked(ProcessOf[r], reply)
          /\ IF Lockout!Locked(Lockout!Judge(ProcessOf[r], reply))
             THEN Goto(r, "idle") /\ UNCHANGED via
             ELSE /\ Goto(r, "verify")
                  /\ via' = [via EXCEPT ![r] = Lockout!Judge(ProcessOf[r], reply)]
    BY <1>5 DEF CheckLock
  <2>2. Lockout!LockTypeOK'
    BY <1>p, <2>1, IsLockedTyped
  <2>3. Lockout!Judge(ProcessOf[r], reply) \in Store
    BY <1>p DEF Lockout!Judge, Store
  <2>4. pc' \in [Request -> Step] /\ via' \in [Request -> Store]
    BY <1>g, <2>1, <2>3 DEF Step
  <2> QED BY <1>5, <1>r, <2>2, <2>4 DEF CheckLock
<1>6. ASSUME NEW r \in Request, Verify(r) PROVE TypeOK'
  <2>1. pc' \in [Request -> Step]
    BY <1>6, <1>g DEF Verify, Judged, Step
  <2>2. late' \in [Store -> Nat]
    BY <1>6 DEF Verify, Judged
  <2> QED BY <1>6, <1>r, <1>l, <2>1, <2>2 DEF Verify, Judged
<1>7. ASSUME NEW r \in Request, RecordFailure(r) PROVE TypeOK'
  <2>1. Lockout!LockTypeOK'
    BY <1>7, <1>p, RecordTyped DEF RecordFailure
  <2>2. pc' \in [Request -> Step]
    BY <1>7, <1>g DEF RecordFailure, Step
  <2> QED BY <1>7, <1>r, <1>s, <2>1, <2>2 DEF RecordFailure
<1>8. ASSUME NEW r \in Request, ClearFailures(r) PROVE TypeOK'
  <2>1. Lockout!LockTypeOK'
    BY <1>8, <1>p, ClearTyped DEF ClearFailures
  <2>2. pc' \in [Request -> Step]
    BY <1>8, <1>g DEF ClearFailures, Step
  <2> QED BY <1>8, <1>r, <1>s, <2>1, <2>2 DEF ClearFailures
<1>9. CASE Tick
  <2>1. RateTypeOK' /\ Lockout!LockTypeOK'
    BY <1>9, RateTickTyped, LockTickTyped DEF Tick
  <2> QED BY <1>9, <1>s, <2>1 DEF Tick
<1>10. CASE UNCHANGED vars
  BY <1>10, <1>r, <1>l DEF vars, signVars
<1> QED BY <1>1, <1>2, <1>3, <1>4, <1>5, <1>6, <1>7, <1>8, <1>9, <1>10 DEF Next

\* Every value stays in its type: token counts between none and the capacity,
\* failure counts below the limit (RateLimit.Stored, LoginLockout.Count).
THEOREM SignInTypeCorrect == Spec => []TypeOK
BY TypeInit, TypeStep, PTL DEF Spec

(***************************************************************************)
(* A lock admits only what was under way.                                  *)
(***************************************************************************)
LockInv == TypeOK /\ LateGuessesBounded

LEMMA FewerPast ==
    ASSUME NEW A \in SUBSET Request, NEW r \in Request \ A
    PROVE  /\ Cardinality(A) \in Nat /\ Cardinality(A) < Cardinality(Request)
           /\ Cardinality(A \cup {r}) = Cardinality(A) + 1
<1>1. IsFiniteSet(Request) /\ IsFiniteSet(A)
  BY SignInAssumption, FS_Subset
<1>2. Cardinality(A) \in Nat /\ Cardinality(A \cup {r}) = Cardinality(A) + 1
  BY <1>1, FS_CardinalityType, FS_AddElement
<1>3. Cardinality(A \cup {r}) <= Cardinality(Request) /\ Cardinality(Request) \in Nat
  BY <1>1, FS_Subset, FS_CardinalityType
<1> QED BY <1>2, <1>3

\* A step after which no store has more past attempts, and every store that is
\* locked was locked before with the same count.
LEMMA Kept ==
    ASSUME LockInv, NEW s \in Store, Past(s)' \subseteq Past(s),
           Lockout!Locked(s)' => Lockout!Locked(s) /\ late'[s] = late[s]
    PROVE  Lockout!Locked(s)' => late'[s] + Cardinality(Past(s)') < Cardinality(Request)
<1>1. IsFiniteSet(Request) /\ Past(s) \subseteq Request
  BY SignInAssumption DEF Past
<1>2. IsFiniteSet(Past(s)) /\ IsFiniteSet(Past(s)')
  BY <1>1, FS_Subset
<1>3. /\ Cardinality(Past(s)) \in Nat /\ Cardinality(Past(s)') \in Nat
      /\ Cardinality(Request) \in Nat /\ Cardinality(Past(s)') <= Cardinality(Past(s))
  BY <1>1, <1>2, FS_Subset, FS_CardinalityType
<1>4. late[s] \in Nat
  BY DEF LockInv, TypeOK
<1> QED BY <1>3, <1>4 DEF LockInv, LateGuessesBounded

LEMMA LateInit == Init => LateGuessesBounded
<1> SUFFICES ASSUME Init, NEW s \in Store PROVE ~Lockout!Locked(s)
  BY DEF LateGuessesBounded
<1>1. counts[s] = Lockout!Clean
  BY DEF Init, Lockout!LockInit, Lockout!Store, Store
<1> QED BY <1>1 DEF Lockout!Clean, Lockout!Locked

LEMMA LateStep == LockInv /\ [Next]_vars => LateGuessesBounded'
<1> SUFFICES ASSUME LockInv, [Next]_vars, NEW s \in Store
             PROVE  Lockout!Locked(s)' => late'[s] + Cardinality(Past(s)') < Cardinality(Request)
  BY DEF LateGuessesBounded
<1>t. /\ pc \in [Request -> Step] /\ via \in [Request -> Store] /\ late \in [Store -> Nat]
  BY DEF LockInv, TypeOK
<1>g. ASSUME NEW r \in Request, NEW step, step # "verify", Goto(r, step), UNCHANGED via
      PROVE  Past(s)' = Past(s) \ {r}
  BY <1>t, <1>g DEF Goto, Past
<1>u. ASSUME UNCHANGED <<counts, late>>, Past(s)' \subseteq Past(s)
      PROVE  Lockout!Locked(s)' => late'[s] + Cardinality(Past(s)') < Cardinality(Request)
  BY <1>u, Kept DEF Lockout!Locked
<1>s. Restart => (Lockout!Locked(s)' => late'[s] = IF Lockout!Locked(s) THEN late[s] ELSE 0)
  BY DEF Restart
<1>1. ASSUME NEW r \in Request, Consume(r) \/ Refuse(r)
      PROVE  UNCHANGED <<counts, late>> /\ Past(s)' \subseteq Past(s)
  <2>1. PICK step \in {"check", "idle"} : Goto(r, step)
    BY <1>1 DEF Consume, Refuse
  <2>2. UNCHANGED <<counts, late, via>>
    BY <1>1 DEF Consume, Refuse
  <2> QED BY <1>g, <2>1, <2>2
<1>2. ASSUME NEW p \in Process, StartSso(p) \/ SweepBuckets(p)
      PROVE  UNCHANGED <<counts, late>> /\ Past(s)' \subseteq Past(s)
  BY <1>2 DEF StartSso, SweepBuckets, signVars, Past
<1>3. ASSUME NEW r \in Request, CheckLock(r)
      PROVE  Lockout!Locked(s)' => late'[s] + Cardinality(Past(s)') < Cardinality(Request)
  <2>1. PICK reply \in {"ok", "failed"} :
          /\ Lockout!IsLocked(ProcessOf[r], reply)
          /\ IF Lockout!Locked(Lockout!Judge(ProcessOf[r], reply))
             THEN Goto(r, "idle") /\ UNCHANGED via
             ELSE /\ Goto(r, "verify")
                  /\ via' = [via EXCEPT ![r] = Lockout!Judge(ProcessOf[r], reply)]
    BY <1>3 DEF CheckLock
  <2> DEFINE judge == Lockout!Judge(ProcessOf[r], reply)
  <2>2. UNCHANGED <<counts, late>> /\ pc[r] = "check"
    BY <1>3, <2>1 DEF CheckLock, Lockout!IsLocked
  <2>3. CASE Lockout!Locked(judge)
    BY <1>g, <1>u, <2>1, <2>2, <2>3
  <2>4. CASE ~Lockout!Locked(judge)
    <3>1. CASE s = judge
      BY <2>2, <2>4, <3>1 DEF Lockout!Locked
    <3>2. CASE s # judge
      <4>1. Past(s)' \subseteq Past(s)
        BY <1>t, <2>1, <2>4, <3>2 DEF Past, Goto
      <4> QED BY <1>u, <2>2, <4>1
    <3> QED BY <3>1, <3>2
  <2> QED BY <2>3, <2>4
<1>4. ASSUME NEW r \in Request, Verify(r)
      PROVE  Lockout!Locked(s)' => late'[s] + Cardinality(Past(s)') < Cardinality(Request)
  <2>1. Past(s)' = Past(s) \ {r} /\ UNCHANGED counts
    BY <1>4, <1>g DEF Verify, Judged
  <2>2. CASE via[r] = s /\ Lockout!Locked(s)
    <3>1. late'[s] = late[s] + 1
      BY <1>t, <1>4, <2>2 DEF Verify, Judged
    <3>2. r \in Past(s) /\ Past(s)' \in SUBSET Request /\ Past(s) = Past(s)' \cup {r}
      BY <1>4, <2>1, <2>2 DEF Verify, Judged, Past
    <3>3. /\ Cardinality(Past(s)) = Cardinality(Past(s)') + 1 /\ Cardinality(Past(s)') \in Nat
      BY <2>1, <3>2, FewerPast
    <3>4. late[s] + Cardinality(Past(s)) < Cardinality(Request)
      BY <2>2 DEF LockInv, LateGuessesBounded
    <3>5. late[s] \in Nat /\ Cardinality(Request) \in Nat
      BY <1>t, SignInAssumption, FS_CardinalityType
    <3> QED BY <3>1, <3>3, <3>4, <3>5
  <2>3. CASE ~(via[r] = s /\ Lockout!Locked(s))
    <3>1. Lockout!Locked(s)' => Lockout!Locked(s) /\ late'[s] = late[s]
      BY <1>t, <1>4, <2>1, <2>3 DEF Verify, Judged, Lockout!Locked
    <3> QED BY <2>1, <3>1, Kept
  <2> QED BY <2>2, <2>3
<1>5. ASSUME NEW r \in Request, RecordFailure(r) \/ ClearFailures(r)
      PROVE  Lockout!Locked(s)' => late'[s] + Cardinality(Past(s)') < Cardinality(Request)
  <2>1. /\ Past(s)' = Past(s) \ {r} /\ Restart
    BY <1>5, <1>g DEF RecordFailure, ClearFailures
  <2>2. CASE Lockout!Locked(s)
    BY <1>s, <2>1, <2>2, Kept
  <2>3. CASE ~Lockout!Locked(s)
    <3>1. Past(s)' \in SUBSET Request /\ r \in Request \ Past(s)'
      BY <2>1 DEF Past
    <3>2. Cardinality(Past(s)') \in Nat /\ Cardinality(Past(s)') < Cardinality(Request)
      BY <3>1, FewerPast
    <3>3. Lockout!Locked(s)' => late'[s] = 0
      BY <1>s, <2>1, <2>3
    <3> QED BY <3>2, <3>3
  <2> QED BY <2>2, <2>3
<1>6. CASE Tick
  <2>1. Lockout!Locked(s)' => Lockout!Locked(s)
    BY <1>6, LockTickTyped DEF Tick, LockInv, TypeOK
  <2>2. Past(s)' = Past(s) /\ Restart
    BY <1>6 DEF Tick, Past
  <2> QED BY <1>s, <2>1, <2>2, Kept
<1>7. CASE UNCHANGED vars
  BY <1>7, <1>u DEF vars, signVars, Past
<1> QED BY <1>1, <1>2, <1>3, <1>4, <1>5, <1>6, <1>7, <1>u DEF Next

\* While a store holds a lock, the attempts it let through verify fewer
\* passwords than there are requests (LateGuessesBounded), for every number of
\* processes, requests and failures and whatever Redis answers.
THEOREM LateGuessesAreBounded == Spec => []LateGuessesBounded
<1>1. Init => LockInv
  BY TypeInit, LateInit DEF LockInv
<1>2. LockInv /\ [Next]_vars => LockInv'
  BY TypeStep, LateStep DEF LockInv
<1>3. LockInv => LateGuessesBounded
  BY DEF LockInv
<1> QED BY <1>1, <1>2, <1>3, PTL DEF Spec

(***************************************************************************)
(* Refinement: every stored bucket is a token bucket.                      *)
(***************************************************************************)
Ideal == \A s \in Store : Bucket(s)!Next \/ Bucket(s)!Stutter

LEMMA IdealAcquire ==
    ASSUME TypeOK, NEW p \in Process, Acquire(p) PROVE Ideal
<1>t. bucket \in [Store -> Stored] /\ p \in Store /\ Redis \in Store /\ p # Redis
  BY RedisAssumption DEF TypeOK, RateTypeOK, Store
<1> SUFFICES ASSUME NEW s \in Store PROVE Bucket(s)!Next
  BY DEF Ideal
<1>c. ASSUME NEW b \in Stored
      PROVE  Level(b) >= Cost => Verdicts(b) = "granted"
  BY DEF Verdicts
<1>1. CASE AcquireShared(p)
  <2>1. CASE s = Redis
    <3>1. Level(bucket'[s]) = IF Level(bucket[s]) >= Cost THEN Level(bucket[s]) - Cost
                                                          ELSE Level(bucket[s])
      BY <1>t, <1>1, <2>1, LevelCharged DEF AcquireShared
    <3>2. answer'[1] = s /\ answer'[2] = Verdicts(bucket[s])
      BY <1>1, <2>1 DEF AcquireShared
    <3> QED BY <3>1, <3>2 DEF Bucket!Next, Bucket!Ask, Verdicts
  <2>2. CASE s # Redis
    <3>1. bucket'[s] = bucket[s] /\ answer'[1] # s
      BY <1>t, <1>1, <2>2 DEF AcquireShared
    <3> QED BY <3>1 DEF Bucket!Next, Bucket!Forget
  <2> QED BY <2>1, <2>2
<1>2. ASSUME NEW reply \in {"failed", "lost"}, NEW sweep \in BOOLEAN,
             AcquireLocal(p, reply, sweep)
      PROVE  Bucket(s)!Next
  <2> DEFINE mine == IF sweep THEN Swept(bucket[p]) ELSE bucket[p]
  <2>1. mine \in Stored /\ Level(mine) = Level(bucket[p])
    BY <1>t, LevelSwept
  <2>2. /\ answer' = <<p, Verdicts(mine)>>
        /\ bucket' = [x \in Store |->
                         IF x = p THEN ChargedLocal(mine)
                         ELSE IF x = Redis /\ reply = "lost" THEN ChargedShared(bucket[x])
                         ELSE bucket[x]]
    BY <1>2 DEF AcquireLocal
  <2> HIDE DEF mine
  <2>3. CASE s = p
    <3>1. Level(bucket'[s]) = IF Level(bucket[s]) >= Cost THEN Level(bucket[s]) - Cost
                                                          ELSE Level(bucket[s])
      BY <1>t, <2>1, <2>2, <2>3, LevelCharged
    <3>2. answer'[1] = s /\ answer'[2] = Verdicts(bucket[s])
      BY <2>1, <2>2, <2>3 DEF Verdicts
    <3> QED BY <3>1, <3>2 DEF Bucket!Next, Bucket!Ask, Verdicts
  <2>4. CASE s = Redis /\ reply = "lost"
    <3>1. Level(bucket'[s]) = IF Level(bucket[s]) >= Cost THEN Level(bucket[s]) - Cost
                                                          ELSE Level(bucket[s])
      BY <1>t, <2>2, <2>4, LevelCharged
    <3>2. answer'[1] # s
      BY <1>t, <2>2, <2>4
    <3> QED BY <3>1, <3>2 DEF Bucket!Next, Bucket!Ask
  <2>5. CASE s # p /\ ~(s = Redis /\ reply = "lost")
    <3>1. bucket'[s] = bucket[s] /\ answer'[1] # s
      BY <1>t, <2>2, <2>5
    <3> QED BY <3>1 DEF Bucket!Next, Bucket!Forget
  <2> QED BY <2>3, <2>4, <2>5
<1> QED BY <1>1, <1>2 DEF Acquire

LEMMA IdealTick ==
    ASSUME TypeOK, RateTick PROVE Ideal
<1> SUFFICES ASSUME NEW s \in Store PROVE Bucket(s)!Second
  BY DEF Ideal, Bucket!Next
<1>1. bucket[s] \in Stored /\ bucket'[s] = Aged(bucket[s]) /\ answer'[2] = "none"
  BY DEF TypeOK, RateTypeOK, RateTick
<1>2. Level(bucket'[s]) = Smaller(Capacity, Level(bucket[s]) + Refill)
  BY <1>1, LevelAged
<1> QED BY <1>1, <1>2 DEF Bucket!Second, Bucket!Smaller, Smaller

LEMMA IdealSweep ==
    ASSUME TypeOK, NEW p \in Process, SweepLocal(p) PROVE Ideal
<1> SUFFICES ASSUME NEW s \in Store PROVE Bucket(s)!Forget
  BY DEF Ideal, Bucket!Next
<1>1. /\ bucket \in [Store -> Stored] /\ p \in Store /\ answer'[2] = "none"
      /\ bucket' = [bucket EXCEPT ![p] = Swept(@)]
  BY DEF TypeOK, RateTypeOK, SweepLocal, Store
<1>2. Level(bucket'[s]) = Level(bucket[s])
  BY <1>1, LevelSwept
<1> QED BY <1>1, <1>2 DEF Bucket!Forget

\* Each bucket implements the abstract TokenBucket: the charges and refusals
\* its callers see, and what time gives back, are those of one ideal bucket.
THEOREM BucketsImplementTheIdeal == Spec => BucketsAreIdeal
<1>1. Init => \A s \in Store : Bucket(s)!Init
  <2> SUFFICES ASSUME Init, NEW s \in Store PROVE Bucket(s)!Init
    OBVIOUS
  <2>1. bucket[s] = Absent /\ answer[2] = "none"
    BY DEF Init, RateInit
  <2> QED BY <2>1, AbsentStored DEF Bucket!Init
<1>2. TypeOK /\ [Next]_vars => Ideal \/ UNCHANGED vars
  <2> SUFFICES ASSUME TypeOK, Next PROVE Ideal
    OBVIOUS
  <2>p. \A r \in Request : ProcessOf[r] \in Process
    BY SignInAssumption
  <2>1. ASSUME NEW r \in Request, Consume(r) PROVE Ideal
    BY <2>p, <2>1, IdealAcquire DEF Consume
  <2>2. ASSUME NEW p \in Process, StartSso(p) \/ SweepBuckets(p) PROVE Ideal
    BY <2>2, IdealAcquire, IdealSweep DEF StartSso, SweepBuckets
  <2>3. ASSUME NEW r \in Request,
               Refuse(r) \/ CheckLock(r) \/ Verify(r) \/ RecordFailure(r) \/ ClearFailures(r)
        PROVE  Ideal
    <3>1. UNCHANGED rateVars
      BY <2>3 DEF Refuse, CheckLock, Verify, Judged, RecordFailure, ClearFailures
    <3> QED BY <3>1 DEF rateVars, Ideal, Bucket!Stutter, Level
  <2>4. CASE Tick
    BY <2>4, IdealTick DEF Tick
  <2> QED BY <2>1, <2>2, <2>3, <2>4 DEF Next
<1> QED BY <1>1, <1>2, SignInTypeCorrect, PTL DEF Spec, BucketsAreIdeal, Ideal
=============================================================================
