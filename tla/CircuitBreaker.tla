--------------------------- MODULE CircuitBreaker ---------------------------
(***************************************************************************)
(* The circuit breaker of one tool (services/tool_proxy.py) and the calls  *)
(* that share it: the approval-free executions and the debug calls of one  *)
(* API process.  The Dify client (services/dify_client.py) keeps the same  *)
(* breaker for each upstream path.                                         *)
(*                                                                         *)
(* A call asks the breaker once, before its first attempt, and tells it    *)
(* its result once, after its last; everything in between awaits the tool, *)
(* and other calls run there.  Nothing bounds how long that takes: a       *)
(* tool's timeout has no upper limit, and its retries add up.              *)
(***************************************************************************)
EXTENDS Naturals

CONSTANTS
    Callers,      \* calls of the tool in flight together
    Threshold,    \* CIRCUIT_FAILURE_THRESHOLD
    Attempts      \* the tool's retry_policy.max_retries

ASSUME BreakerAssumption == Threshold \in Nat \ {0} /\ Attempts \in Nat

VARIABLES
    failures,   \* failures counted since the last success, up to Threshold
    open,       \* the breaker refuses calls
    halfOpen,   \* half_open: a trial is reserved
    cooled,     \* the recovery window has passed since opened_at
    call,       \* caller -> its call
    lost        \* the trial of the reservation ended without a result (history)

breaker == <<failures, open, halfOpen, cooled>>
breakerVars == <<breaker, call, lost>>

-----------------------------------------------------------------------------
\* left: attempts the call has after this one; trial: it was let through an
\* open breaker; outlasts: a recovery window has passed over it (history).
CallRecord == [calling : BOOLEAN, left : 0..Attempts, trial : BOOLEAN, outlasts : BOOLEAN]

Calling(n, trial) == [calling |-> TRUE, left |-> n, trial |-> trial, outlasts |-> FALSE]
Idle == [calling |-> FALSE, left |-> 0, trial |-> FALSE, outlasts |-> FALSE]

\* c is the trial, and no window has passed since it was let through: whoever
\* makes the breaker's next window begin takes the reservation from it.
Standing(c) == call[c].calling /\ call[c].trial /\ ~call[c].outlasts

Admits == ~open \/ (cooled /\ ~halfOpen)

\* A tool without failures has no breaker state at all.
BreakerInit == /\ failures = 0 /\ open = FALSE /\ halfOpen = FALSE /\ cooled = FALSE
               /\ lost = FALSE
               /\ call = [c \in Callers |-> Idle]

RecordSuccess ==
    /\ failures' = 0 /\ open' = FALSE /\ halfOpen' = FALSE /\ cooled' = FALSE

\* Mutant: a failure of an open breaker does not restart the window.
RecordFailureInWindow ==
    /\ failures' = IF failures < Threshold THEN failures + 1 ELSE Threshold
    /\ halfOpen' = FALSE
    /\ open' = (failures' = Threshold)
    /\ UNCHANGED cooled

\* Mutant: the reservation is kept while the breaker stays open.
RecordFailureKeepingTrial ==
    /\ failures' = IF failures < Threshold THEN failures + 1 ELSE Threshold
    /\ open' = (failures' = Threshold)
    /\ cooled' = FALSE
    /\ UNCHANGED halfOpen

\* A failure gives the reservation back, and opens the breaker -- or restarts
\* its window -- from the threshold on.
RecordFailure ==
    /\ failures' = IF failures < Threshold THEN failures + 1 ELSE Threshold
    /\ halfOpen' = FALSE
    /\ open' = (failures' = Threshold)
    /\ cooled' = FALSE

-----------------------------------------------------------------------------
\* A call passes the breaker; through an open one it goes as the trial.
Admit(c, n) ==
    /\ call[c] = Idle
    /\ Admits
    /\ halfOpen' = open
    /\ call' = [call EXCEPT ![c] = Calling(n, open)]
    /\ UNCHANGED <<failures, open, cooled, lost>>

Execute(c) == Admit(c, Attempts)
Debug(c)   == Admit(c, 0)

\* 503: no request leaves the process, and the refusal is not counted.
Refuse(c) ==
    /\ call[c] = Idle
    /\ ~Admits
    /\ UNCHANGED breakerVars

\* A transient failure with attempts left: back off and try again.
TryAgain(c) ==
    /\ call[c].calling /\ call[c].left > 0
    /\ call' = [call EXCEPT ![c].left = @ - 1]
    /\ UNCHANGED <<breaker, lost>>

Succeed(c) ==
    /\ call[c].calling
    /\ RecordSuccess
    /\ call' = [call EXCEPT ![c] = Idle]
    /\ lost' = FALSE

\* The last attempt failed, or the status is not worth a retry.
Fail(c) ==
    /\ call[c].calling
    /\ RecordFailure
    /\ call' = [call EXCEPT ![c] = Idle]
    /\ lost' = FALSE

\* The call raises before or outside the two results it records: the tool has
\* no endpoint, the request is cancelled, the response cannot be decoded.
Abandon(c) ==
    /\ call[c].calling
    /\ call' = [call EXCEPT ![c] = Idle]
    /\ lost' = (lost \/ (halfOpen /\ Standing(c)))
    /\ UNCHANGED breaker

\* The recovery window passes, over whatever calls are in flight.
WindowPasses ==
    /\ open /\ ~cooled
    /\ cooled' = TRUE
    /\ call' = [c \in Callers |-> [call[c] EXCEPT !.outlasts = call[c].calling]]
    /\ UNCHANGED <<failures, open, halfOpen, lost>>

-----------------------------------------------------------------------------
Step(c) == \/ Execute(c) \/ Debug(c) \/ Refuse(c)
           \/ TryAgain(c) \/ Succeed(c) \/ Fail(c) \/ Abandon(c)

BreakerNext == \/ WindowPasses
               \/ \E c \in Callers : Step(c)

BreakerSpec == BreakerInit /\ [][BreakerNext]_breakerVars

\* Time passes, and every attempt is answered or runs into its timeout.
BreakerFairness ==
            /\ WF_breakerVars(WindowPasses)
            /\ \A c \in Callers : WF_breakerVars(TryAgain(c) \/ Succeed(c) \/ Fail(c))

FairBreaker == BreakerSpec /\ BreakerFairness

-----------------------------------------------------------------------------
\* The breaker and its calls keep their shape; it is open exactly at the
\* threshold, and reserved or cooled only while open.
BreakerTypeOK == /\ failures \in 0..Threshold
                 /\ open \in BOOLEAN /\ halfOpen \in BOOLEAN /\ cooled \in BOOLEAN
                 /\ lost \in BOOLEAN
                 /\ call \in [Callers -> CallRecord]
                 /\ open <=> (failures = Threshold)
                 /\ halfOpen => cooled
                 /\ cooled => open

Trial(c) == call[c].calling /\ call[c].trial

\* "the trial request alone is admitted" (tool_proxy.py:352).
TrialAlone == \A c, d \in Callers : Trial(c) /\ Trial(d) => c = d

\* What the code keeps of that, however late the answers of older calls come in
\* between: a trial is joined by another one only when it has outlasted a whole
\* recovery window, which an answer of an older call made begin.
SingleTrial == \A c, d \in Callers : Standing(c) /\ Standing(d) => c = d

\* "True while a single trial request is in flight" (dify_client.py:41).
HalfOpenMeansTrial == halfOpen => \E c \in Callers : Trial(c)

\* A reservation is only left behind by a trial that ended without a result:
\* no order of late answers, successes and failures makes one outlive its trial.
TrialInFlight == halfOpen /\ ~lost => \E c \in Callers : Standing(c)

\* However many failures it has seen, a breaker lets a call through again,
\* unless it waits for the result of a trial that will give none.
AdmitsAgain == []<>(Admits \/ lost)
=============================================================================
