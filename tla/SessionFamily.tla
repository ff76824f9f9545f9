--------------------------- MODULE SessionFamily ---------------------------
(***************************************************************************)
(* What the refresh-token service promises of a login session: a family    *)
(* of tokens of which at most one can be used at any time.  A refresh      *)
(* replaces it in one step, an ending takes it away for good, and a        *)
(* session that has no usable token never gets one again.                  *)
(*                                                                         *)
(* SessionTokens is shown to implement this specification.                 *)
(***************************************************************************)
CONSTANTS Families, Tokens, None

VARIABLES
    current,   \* family -> its usable token, or None
    started    \* families that have been logged in

vars == <<current, started>>

Init == /\ current = [f \in Families |-> None]
        /\ started = {}

Login(f) == /\ f \notin started
            /\ started' = started \cup {f}
            /\ \E t \in Tokens : current' = [current EXCEPT ![f] = t]

Refresh(f) == /\ current[f] # None
              /\ \E t \in Tokens \ {current[f]} : current' = [current EXCEPT ![f] = t]
              /\ UNCHANGED started

\* One logout or replay ends a family, a password change all it reaches.
End(S) == /\ current' = [f \in Families |-> IF f \in S THEN None ELSE current[f]]
          /\ UNCHANGED started

Next == \/ \E f \in Families : Login(f) \/ Refresh(f)
        \/ \E S \in SUBSET Families : End(S)

Spec == Init /\ [][Next]_vars
=============================================================================
