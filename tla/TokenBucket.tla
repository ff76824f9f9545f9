---------------------------- MODULE TokenBucket ----------------------------
(* What one token bucket promises: at most Capacity units are spent at once, *)
(* Refill units come back every second, and a caller is turned away only     *)
(* when less than the Cost of one request is left.                           *)
EXTENDS Naturals

CONSTANTS Capacity, Refill, Cost

VARIABLES level,    \* units that could be spent now
          verdict   \* what the last step told the caller of this bucket

Verdict == {"granted", "refused", "none"}

Smaller(a, b) == IF a <= b THEN a ELSE b

Init == level = Capacity /\ verdict = "none"

(* A caller asks; an answer may be lost on its way back, and then the charge *)
(* stands.                                                                   *)
Ask ==
    IF level >= Cost
    THEN level' = level - Cost /\ verdict' \in {"granted", "none"}
    ELSE UNCHANGED level /\ verdict' \in {"refused", "none"}

Second == level' = Smaller(Capacity, level + Refill) /\ verdict' = "none"

Forget == UNCHANGED level /\ verdict' = "none"

Stutter == UNCHANGED <<level, verdict>>

Next == Ask \/ Second \/ Forget

Spec == Init /\ [][Next]_<<level, verdict>>
=============================================================================
