--------------------------- MODULE SessionTokens ---------------------------
(***************************************************************************)
(* The refresh tokens of one local account: login, rotation, logout and    *)
(* password change as the database transactions they are (Postgres, READ   *)
(* COMMITTED).                                                             *)
(*                                                                         *)
(*   - SELECT ... FOR UPDATE and UPDATE lock the rows they touch until the *)
(*     transaction ends, and wait for a row another one has locked;        *)
(*   - an UPDATE finds its rows in a snapshot taken when the statement     *)
(*     starts.  A row it had to wait for is judged again as it is now; a   *)
(*     row committed since the snapshot is not seen at all;                *)
(*   - what a transaction writes is seen by others when it commits.        *)
(***************************************************************************)
EXTENDS Naturals, FiniteSets

CONSTANTS
    Requests,    \* HTTP requests in flight together
    Families,    \* login sessions of the account
    MaxTokens,   \* bound: refresh tokens ever issued
    MaxChanges,  \* bound: password changes
    None         \* no family, or nobody

ASSUME TokenBounds == MaxTokens \in Nat /\ MaxChanges \in Nat
ASSUME NoneIsNew == None \notin Families \cup Requests \cup (1..MaxTokens)

Tokens == 1..MaxTokens

VARIABLES
    issued,    \* tokens issued so far: 1..issued
    family,    \* token -> family_id
    state,     \* token -> revoked_at and revoked_reason, as one value
    stale,     \* tokens rotated more than the grace period ago
    password,  \* version of password_hash
    proven,    \* family -> version of the password its login proved
    over,      \* families an ending has committed for (history)
    rowLock,   \* token -> request whose transaction holds its row
    userLock,  \* request whose transaction holds the users row
    req        \* request -> its transaction

tokenVars == <<issued, family, state, stale>>
vars == <<tokenVars, password, proven, over, rowLock, userLock, req>>

-----------------------------------------------------------------------------
TokenState == {"unissued", "active", "rotated", "ended"}

Steps == {"idle", "issue", "lock", "mint", "password", "end", "update"}

\* token: presented; late: it was stale when the request read the clock;
\* version: password proved; scope: families to end; changes: is a password
\* change; seen: rows in the UPDATE's snapshot; todo: those not reached yet.
RequestRecord == [ step : Steps, token : Tokens \cup {0}, late : BOOLEAN,
                   version : Nat, scope : SUBSET Families, changes : BOOLEAN,
                   seen : SUBSET Tokens, todo : SUBSET Tokens ]

\* A request before it ends anything, and one whose UPDATE ends families.
Request(step, token, late, version) ==
    [step |-> step, token |-> token, late |-> late, version |-> version,
     scope |-> {}, changes |-> FALSE, seen |-> {}, todo |-> {}]
Statement(step, token, scope, changes, seen, todo) ==
    [step |-> step, token |-> token, late |-> FALSE, version |-> 0,
     scope |-> scope, changes |-> changes, seen |-> seen, todo |-> todo]

Idle == Request("idle", 0, FALSE, 0)
Ending(t, S, pw) == Statement("end", t, S, pw, {}, {})

Active(S) == {t \in Tokens : state[t] = "active" /\ family[t] \in S}
Started   == {family[t] : t \in 1..issued}

\* The transaction of r ends: its locks are released.
Release(r) ==
    /\ rowLock' = [t \in Tokens |-> IF rowLock[t] = r THEN None ELSE rowLock[t]]
    /\ userLock' = IF userLock = r THEN None ELSE userLock
    /\ req' = [req EXCEPT ![r] = Idle]

\* A new active token of family f.
Insert(f, states) ==
    /\ issued < MaxTokens
    /\ issued' = issued + 1
    /\ family' = [family EXCEPT ![issued + 1] = f]
    /\ state' = [states EXCEPT ![issued + 1] = "active"]

-----------------------------------------------------------------------------
Init ==
    /\ issued = 0
    /\ family = [t \in Tokens |-> None]
    /\ state = [t \in Tokens |-> "unissued"]
    /\ stale = {} /\ over = {}
    /\ password = 0
    /\ proven = [f \in Families |-> 0]
    /\ rowLock = [t \in Tokens |-> None] /\ userLock = None
    /\ req = [r \in Requests |-> Idle]

\* The grace period after a rotation passes.
GraceEnds(t) ==
    /\ state[t] = "rotated" /\ t \notin stale
    /\ stale' = stale \cup {t}
    /\ UNCHANGED <<issued, family, state, password, proven, over, rowLock, userLock, req>>

-----------------------------------------------------------------------------
(* Login: the password is verified against the row as read, and only then  *)
(* is a family issued.                                                     *)

VerifyPassword(r) ==
    /\ req[r] = Idle
    /\ req' = [req EXCEPT ![r] = Request("issue", 0, FALSE, password)]
    /\ UNCHANGED <<tokenVars, password, proven, over, rowLock, userLock>>

Issue(r) ==
    /\ req[r].step = "issue"
    /\ \E f \in Families \ Started :
         /\ Insert(f, state)
         /\ proven' = [proven EXCEPT ![f] = req[r].version]
    /\ Release(r)
    /\ UNCHANGED <<stale, password, over>>

-----------------------------------------------------------------------------
(* Rotation (RefreshService.rotate).  The clock is read before the row is  *)
(* waited for.                                                             *)

Present(r, t) ==
    /\ req[r] = Idle /\ t <= issued
    /\ req' = [req EXCEPT ![r] = Request("lock", t, t \in stale, 0)]
    /\ UNCHANGED <<tokenVars, password, proven, over, rowLock, userLock>>

\* Mutant: the row is read without FOR UPDATE.
ClaimTokenUnlocked(r) ==
    LET t == req[r].token IN
    /\ req[r].step = "lock"
    /\ state[t] = "active"
    /\ req' = [req EXCEPT ![r] = Request("mint", t, FALSE, 0)]
    /\ UNCHANGED <<tokenVars, password, proven, over, rowLock, userLock>>

\* Mutant: a replay inside the grace period is given a new pair.
ClaimTokenInGrace(r) ==
    LET t == req[r].token IN
    /\ req[r].step = "lock" /\ rowLock[t] = None
    /\ state[t] = "active" \/ (state[t] = "rotated" /\ ~req[r].late)
    /\ rowLock' = [rowLock EXCEPT ![t] = r]
    /\ req' = [req EXCEPT ![r] = Request("mint", t, FALSE, 0)]
    /\ UNCHANGED <<tokenVars, password, proven, over, userLock>>

\* The row is free and still active: this request has won it.
ClaimToken(r) ==
    LET t == req[r].token IN
    /\ req[r].step = "lock" /\ rowLock[t] = None
    /\ state[t] = "active"
    /\ rowLock' = [rowLock EXCEPT ![t] = r]
    /\ req' = [req EXCEPT ![r] = Request("mint", t, FALSE, 0)]
    /\ UNCHANGED <<tokenVars, password, proven, over, userLock>>

\* Inside the grace period a replay is a double submit: 409, nothing changes.
InProgress(r) ==
    LET t == req[r].token IN
    /\ req[r].step = "lock" /\ rowLock[t] = None
    /\ state[t] = "rotated" /\ ~req[r].late
    /\ Release(r)
    /\ UNCHANGED <<tokenVars, password, proven, over>>

\* Any other revoked token is a replay: its family is to be ended.
DetectReuse(r) ==
    LET t == req[r].token IN
    /\ req[r].step = "lock" /\ rowLock[t] = None
    /\ state[t] = "ended" \/ (state[t] = "rotated" /\ req[r].late)
    /\ rowLock' = [rowLock EXCEPT ![t] = r]
    /\ req' = [req EXCEPT ![r] = Ending(t, {family[t]}, FALSE)]
    /\ UNCHANGED <<tokenVars, password, proven, over, userLock>>

\* The claim and the successor commit together.
Mint(r) ==
    LET t == req[r].token IN
    /\ req[r].step = "mint"
    /\ Insert(family[t], [state EXCEPT ![t] = "rotated"])
    /\ Release(r)
    /\ UNCHANGED <<stale, password, proven, over>>

-----------------------------------------------------------------------------
(* Endings: logout ends one family, a password change or reset all of the  *)
(* account's.  The new hash is flushed, and so the users row locked,       *)
(* before the tokens are updated.                                          *)

Logout(r, f) ==
    /\ req[r] = Idle /\ f \in Started
    /\ req' = [req EXCEPT ![r] = Ending(0, {f}, FALSE)]
    /\ UNCHANGED <<tokenVars, password, proven, over, rowLock, userLock>>

SetPassword(r) ==
    /\ req[r] = Idle /\ password < MaxChanges
    /\ req' = [req EXCEPT ![r] = Request("password", 0, FALSE, 0)]
    /\ UNCHANGED <<tokenVars, password, proven, over, rowLock, userLock>>

\* Mutant: the tokens are updated before the new hash is flushed.
WithoutUserLock(r) ==
    /\ req[r].step = "password"
    /\ req' = [req EXCEPT ![r] = Ending(0, Families, TRUE)]
    /\ UNCHANGED <<tokenVars, password, proven, over, rowLock, userLock>>

LockUser(r) ==
    /\ req[r].step = "password" /\ userLock = None
    /\ userLock' = r
    /\ req' = [req EXCEPT ![r] = Ending(0, Families, TRUE)]
    /\ UNCHANGED <<tokenVars, password, proven, over, rowLock>>

\* UPDATE ... WHERE revoked_at IS NULL takes its snapshot.
StartUpdate(r) ==
    /\ req[r].step = "end"
    /\ LET S == req[r].scope \cap Started IN
         req' = [req EXCEPT ![r] = Statement("update", @.token, S, @.changes,
                                             Active(S), Active(S))]
    /\ UNCHANGED <<tokenVars, password, proven, over, rowLock, userLock>>

\* Mutant: rows that are locked are skipped.
UpdateRowSkipLocked(r) ==
    /\ req[r].step = "update"
    /\ \E t \in req[r].todo :
         /\ rowLock' = IF rowLock[t] = None /\ state[t] = "active"
                         THEN [rowLock EXCEPT ![t] = r] ELSE rowLock
         /\ req' = [req EXCEPT ![r] = Statement("update", @.token, @.scope, @.changes,
                                                @.seen, @.todo \ {t})]
    /\ UNCHANGED <<tokenVars, password, proven, over, userLock>>

\* A row of the snapshot is reached once it is free; it is kept if it is
\* still active and passed over if it is not.
UpdateRow(r) ==
    /\ req[r].step = "update"
    /\ \E t \in req[r].todo :
         /\ rowLock[t] = None
         /\ rowLock' = IF state[t] = "active" THEN [rowLock EXCEPT ![t] = r] ELSE rowLock
         /\ req' = [req EXCEPT ![r] = Statement("update", @.token, @.scope, @.changes,
                                                @.seen, @.todo \ {t})]
    /\ UNCHANGED <<tokenVars, password, proven, over, userLock>>

CommitEnding(r) ==
    /\ req[r].step = "update" /\ req[r].todo = {}
    /\ state' = [t \in Tokens |->
                   IF t \in req[r].seen /\ rowLock[t] = r THEN "ended" ELSE state[t]]
    /\ over' = over \cup req[r].scope
    /\ password' = IF req[r].changes THEN password + 1 ELSE password
    /\ Release(r)
    /\ UNCHANGED <<issued, family, stale, proven>>

\* The request fails, expires or its connection dies: the transaction is
\* rolled back.
Rollback(r) ==
    /\ req[r] # Idle
    /\ Release(r)
    /\ UNCHANGED <<tokenVars, password, proven, over>>

-----------------------------------------------------------------------------
Step(r) ==
    \/ VerifyPassword(r) \/ Issue(r)
    \/ \E t \in Tokens : Present(r, t)
    \/ ClaimToken(r) \/ InProgress(r) \/ DetectReuse(r) \/ Mint(r)
    \/ \E f \in Families : Logout(r, f)
    \/ SetPassword(r) \/ LockUser(r)
    \/ StartUpdate(r) \/ UpdateRow(r) \/ CommitEnding(r)
    \/ Rollback(r)

Next == \/ \E t \in Tokens : GraceEnds(t)
        \/ \E r \in Requests : Step(r)

Spec == Init /\ [][Next]_vars

-----------------------------------------------------------------------------
(* Invariants. *)

\* Every row, lock and transaction keeps its shape, and a token belongs to a
\* family exactly from when it is issued.
TypeOK ==
    /\ issued \in 0..MaxTokens
    /\ family \in [Tokens -> Families \cup {None}]
    /\ state \in [Tokens -> TokenState]
    /\ stale \in SUBSET Tokens
    /\ password \in Nat /\ proven \in [Families -> Nat]
    /\ over \in SUBSET Families
    /\ rowLock \in [Tokens -> Requests \cup {None}]
    /\ userLock \in Requests \cup {None}
    /\ req \in [Requests -> RequestRecord]
    /\ \A t \in Tokens : (t <= issued) <=> (family[t] # None)
    /\ \A t \in Tokens : (t <= issued) <=> (state[t] # "unissued")

\* Two requests presenting one token cannot both win: a session never has two
\* usable tokens (refresh.py: "so two concurrent requests presenting the same
\* token cannot both win").
OneActivePerFamily ==
    \A t, u \in Tokens :
        state[t] = "active" /\ state[u] = "active" /\ family[t] = family[u] => t = u

\* What a transaction relies on: it holds the row it has claimed, and the rows
\* its UPDATE has passed are its own or no longer active.
LocksOK ==
    \A r \in Requests :
      /\ req[r].step \in {"lock", "mint"} => req[r].token \in 1..issued
      /\ req[r].step = "mint" => /\ rowLock[req[r].token] = r
                                /\ state[req[r].token] = "active"
      /\ req[r].step = "update" =>
           /\ req[r].seen \subseteq 1..issued
           /\ \A t \in req[r].seen \ req[r].todo : rowLock[t] = r \/ state[t] # "active"

\* r may have to wait for a row that q holds.
WaitsFor(r, q) ==
    \/ req[r].step = "lock" /\ rowLock[req[r].token] = q
    \/ req[r].step = "password" /\ userLock = q
    \/ req[r].step = "update" /\ \E t \in req[r].todo : rowLock[t] = q

\* Rotations, replays, logouts and password changes never wait for each other
\* in a circle, in whatever order their statements reach the rows.
NoWaitCycle ==
    \A S \in (SUBSET Requests) \ {{}} :
        \E r \in S : \A q \in S : q = r \/ ~WaitsFor(r, q)

\* An ending reaches every token that was active when its UPDATE started: none
\* of them is active once it commits.
EndingIsThorough ==
    [][\A r \in Requests :
         req[r].step = "update" /\ req'[r] = Idle /\ <<state, over>>' # <<state, over>>
            => \A t \in req[r].seen : state'[t] # "active"]_vars

\* "Revoke every still-active token in a family (logout / breach)"
\* (refresh.py:176): a session that has been ended has no usable token.
EndedStaysEnded == \A t \in Tokens : state[t] = "active" => family[t] \notin over

\* A password change ends the account's sessions, "so the next login uses the
\* new password" (routes.py:363): a usable session was opened with it.
SessionsProvePassword ==
    \A t \in Tokens : state[t] = "active" => proven[family[t]] = password

\* Rotations, replays and endings implement the session's promise: a refresh
\* replaces the one usable token in one step, and a session without one never
\* gets one again.
Current == [f \in Families |-> IF Active({f}) = {} THEN None
                               ELSE CHOOSE t \in Active({f}) : TRUE]
Sessions == INSTANCE SessionFamily WITH current <- Current, started <- Started
ImplementsFamily == Sessions!Spec
=============================================================================
