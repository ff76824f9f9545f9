-------------------------- MODULE Sessions_proofs ---------------------------
(* A session from both of its ends: the transactions of the endpoint         *)
(* (SessionTokens) and the tabs that present its tokens (BrowserSession).    *)
EXTENDS SessionTokens, BrowserSession, WellFoundedInduction, TLAPS

(***************************************************************************)
(*                           SessionTokens                                 *)
(***************************************************************************)
\* The inductive invariant.
IInv == TypeOK /\ LocksOK /\ OneActivePerFamily

-----------------------------------------------------------------------------
(* Records, inserts and releases. *)

LEMMA RecordsTyped ==
    /\ \A step \in Steps, t \in Tokens \cup {0}, late \in BOOLEAN, v \in Nat :
         Request(step, t, late, v) \in RequestRecord
    /\ \A step \in Steps, t \in Tokens \cup {0}, S \in SUBSET Families,
          pw \in BOOLEAN, seen \in SUBSET Tokens, todo \in SUBSET Tokens :
         Statement(step, t, S, pw, seen, todo) \in RequestRecord
    /\ Idle \in RequestRecord
BY DEF Request, Statement, RequestRecord, Idle, Steps

\* One request takes a new record, the others keep theirs.
LEMMA RequestTakes ==
    ASSUME TypeOK, NEW r \in Requests, NEW v \in RequestRecord,
           req' = [req EXCEPT ![r] = v]
    PROVE  /\ req' \in [Requests -> RequestRecord]
           /\ req'[r] = v
           /\ \A q \in Requests \ {r} : req'[q] = req[q]
BY DEF TypeOK

LEMMA ReleaseFacts ==
    ASSUME TypeOK, NEW r \in Requests, Release(r)
    PROVE  /\ req' \in [Requests -> RequestRecord]
           /\ rowLock' \in [Tokens -> Requests \cup {None}]
           /\ userLock' \in Requests \cup {None}
           /\ req'[r] = Idle
           /\ \A q \in Requests \ {r} : req'[q] = req[q]
           /\ \A q \in Requests \ {r}, t \in Tokens : rowLock[t] = q => rowLock'[t] = q
<1>1. /\ req' \in [Requests -> RequestRecord]
      /\ req'[r] = Idle
      /\ \A q \in Requests \ {r} : req'[q] = req[q]
  BY RequestTakes, RecordsTyped DEF Release
<1>2. /\ rowLock' \in [Tokens -> Requests \cup {None}]
      /\ userLock' \in Requests \cup {None}
      /\ \A q \in Requests \ {r}, t \in Tokens : rowLock[t] = q => rowLock'[t] = q
  BY DEF Release, TypeOK
<1> QED BY <1>1, <1>2

\* Inserting into a table whose issued rows are those of the state.
LEMMA InsertFacts ==
    ASSUME TypeOK, NEW f \in Families, NEW states \in [Tokens -> TokenState],
           \A t \in Tokens : states[t] = "unissued" <=> state[t] = "unissued",
           Insert(f, states)
    PROVE  /\ issued' = issued + 1 /\ issued' \in Tokens /\ issued' \in 0..MaxTokens
           /\ family' \in [Tokens -> Families \cup {None}]
           /\ state' \in [Tokens -> TokenState]
           /\ family'[issued'] = f /\ state'[issued'] = "active"
           /\ family[issued'] = None /\ states[issued'] = "unissued"
           /\ \A t \in Tokens : t # issued' => family'[t] = family[t] /\ state'[t] = states[t]
           /\ \A t \in Tokens : (t <= issued') <=> (family'[t] # None)
           /\ \A t \in Tokens : (t <= issued') <=> (state'[t] # "unissued")
<1>1. issued' = issued + 1 /\ issued' \in Tokens /\ issued' \in 0..MaxTokens /\ issued \in Nat
  BY TokenBounds DEF Insert, TypeOK, Tokens
<1>2. /\ family' \in [Tokens -> Families \cup {None}] /\ family'[issued'] = f
      /\ \A t \in Tokens : t # issued' => family'[t] = family[t]
  <2>1. family' = [family EXCEPT ![issued'] = f] /\ family \in [Tokens -> Families \cup {None}]
    BY <1>1 DEF Insert, TypeOK
  <2> QED BY <1>1, <2>1
<1>3. /\ state' \in [Tokens -> TokenState] /\ state'[issued'] = "active"
      /\ \A t \in Tokens : t # issued' => state'[t] = states[t]
  <2>1. state' = [states EXCEPT ![issued'] = "active"]
    BY <1>1 DEF Insert
  <2> QED BY <1>1, <2>1 DEF TokenState
<1>4. /\ \A t \in Tokens : (t <= issued) <=> (family[t] # None)
      /\ \A t \in Tokens : (t <= issued) <=> (state[t] # "unissued")
  BY DEF TypeOK
<1>5. family[issued'] = None /\ states[issued'] = "unissued"
  BY <1>1, <1>4
<1>6. \A t \in Tokens : t \in Nat
  BY DEF Tokens
<1>7. /\ \A t \in Tokens : (t <= issued') <=> (family'[t] # None)
      /\ \A t \in Tokens : (t <= issued') <=> (state'[t] # "unissued")
  <2> SUFFICES ASSUME NEW t \in Tokens
               PROVE  /\ (t <= issued') <=> (family'[t] # None)
                      /\ (t <= issued') <=> (state'[t] # "unissued")
    OBVIOUS
  <2>1. CASE t = issued'
    BY <1>1, <1>2, <1>3, <2>1, NoneIsNew
  <2>2. CASE t # issued'
    BY <1>1, <1>2, <1>3, <1>4, <1>6, <2>2
  <2> QED BY <2>1, <2>2
<1> QED BY <1>1, <1>2, <1>3, <1>5, <1>7

\* What a request in a step holds on to.
Safe(r) ==
    /\ req[r].step \in {"lock", "mint"} => req[r].token \in 1..issued
    /\ req[r].step = "mint" => /\ rowLock[req[r].token] = r
                               /\ state[req[r].token] = "active"
    /\ req[r].step = "update" =>
         /\ req[r].seen \subseteq 1..issued
         /\ \A t \in req[r].seen \ req[r].todo : rowLock[t] = r \/ state[t] # "active"

LEMMA LocksAreSafe == LocksOK <=> \A r \in Requests : Safe(r)
BY DEF LocksOK, Safe

\* A request that does not move stays safe while its locks are respected.
LEMMA SafeKept ==
    ASSUME IInv, NEW q \in Requests, req'[q] = req[q],
           issued' \in Nat, issued' >= issued,
           \A t \in 1..issued : rowLock[t] = q => rowLock'[t] = q /\ state'[t] = state[t],
           \A t \in 1..issued : state[t] # "active" => state'[t] # "active"
    PROVE  Safe(q)'
<1>1. Safe(q)
  BY LocksAreSafe DEF IInv
<1>2. req[q] \in RequestRecord /\ issued \in 0..MaxTokens /\ MaxTokens \in Nat
  BY TokenBounds DEF IInv, TypeOK
<1>3. req[q].step \in {"lock", "mint"} => req[q].token \in 1..issued'
  BY <1>1, <1>2 DEF Safe
<1>4. req[q].step = "mint" => rowLock'[req[q].token] = q /\ state'[req[q].token] = "active"
  BY <1>1, <1>2 DEF Safe, Tokens
<1>5. ASSUME req[q].step = "update"
      PROVE  /\ req[q].seen \subseteq 1..issued'
             /\ \A t \in req[q].seen \ req[q].todo :
                  rowLock'[t] = q \/ state'[t] # "active"
  BY <1>1, <1>2, <1>5 DEF Safe, Tokens
<1> QED BY <1>1, <1>3, <1>4, <1>5 DEF Safe

-----------------------------------------------------------------------------
(* Type correctness. *)

LEMMA TypeInit == Init => IInv
<1> SUFFICES ASSUME Init PROVE IInv
  OBVIOUS
<1>1. TypeOK
  BY TokenBounds, NoneIsNew, RecordsTyped DEF Init, TypeOK, TokenState, Tokens
<1>2. LocksOK
  BY DEF Init, LocksOK, Idle, Request
<1>3. OneActivePerFamily
  BY DEF Init, OneActivePerFamily
<1> QED BY <1>1, <1>2, <1>3 DEF IInv

\* A step that only gives r a new record and keeps the tables.
LEMMA TypeRecord ==
    ASSUME IInv, NEW r \in Requests, NEW v \in RequestRecord,
           req' = [req EXCEPT ![r] = v],
           UNCHANGED <<tokenVars, password, proven, over>>,
           rowLock' \in [Tokens -> Requests \cup {None}],
           userLock' \in Requests \cup {None}
    PROVE  TypeOK'
<1>1. req' \in [Requests -> RequestRecord]
  BY RequestTakes DEF IInv
<1> QED BY <1>1 DEF IInv, TypeOK, tokenVars

LEMMA TypeStep ==
    ASSUME IInv, NEW r \in Requests, Step(r)
    PROVE  TypeOK'
<1> DEFINE x == req[r]
<1>1. /\ TypeOK /\ x \in RequestRecord /\ x.step \in Steps /\ x.token \in Tokens \cup {0}
      /\ x.scope \in SUBSET Families /\ x.changes \in BOOLEAN
      /\ x.seen \in SUBSET Tokens /\ x.todo \in SUBSET Tokens /\ x.version \in Nat
      /\ password \in Nat /\ rowLock \in [Tokens -> Requests \cup {None}]
      /\ userLock \in Requests \cup {None} /\ family \in [Tokens -> Families \cup {None}]
      /\ state \in [Tokens -> TokenState] /\ issued \in 0..MaxTokens
      /\ MaxTokens \in Nat
  BY TokenBounds DEF IInv, TypeOK, RequestRecord
<1>2. LocksOK
  BY DEF IInv
<1>3. \A S \in SUBSET Families : Active(S) \in SUBSET Tokens
  BY DEF Active
<1>4. Started \in SUBSET (Families \cup {None})
  BY <1>1 DEF Started, Tokens
<1> HIDE DEF x
<1>5. CASE VerifyPassword(r)
  <2>1. Request("issue", 0, FALSE, password) \in RequestRecord
    BY <1>1, RecordsTyped DEF Steps
  <2> QED BY <1>1, <1>5, <2>1, TypeRecord DEF VerifyPassword
<1>6. CASE Issue(r)
  <2> PICK f \in Families \ Started :
        Insert(f, state) /\ proven' = [proven EXCEPT ![f] = req[r].version]
    BY <1>6 DEF Issue
  <2>1. Release(r) /\ UNCHANGED <<stale, password, over>>
    BY <1>6 DEF Issue
  <2>2. proven' \in [Families -> Nat]
    BY <1>1 DEF TypeOK, x
  <2> QED BY <1>1, <2>1, <2>2, ReleaseFacts, InsertFacts DEF TypeOK
<1>7. CASE \E t \in Tokens : Present(r, t)
  <2> PICK t \in Tokens : Present(r, t)
    BY <1>7
  <2> DEFINE late == t \in stale
  <2>1. late \in BOOLEAN
    OBVIOUS
  <2> HIDE DEF late
  <2>2. Request("lock", t, late, 0) \in RequestRecord
    BY <2>1, RecordsTyped DEF Steps
  <2>3. /\ req' = [req EXCEPT ![r] = Request("lock", t, late, 0)]
        /\ UNCHANGED <<tokenVars, password, proven, over, rowLock, userLock>>
    BY DEF Present, late
  <2> QED BY <1>1, <2>2, <2>3, TypeRecord
<1>8. CASE ClaimToken(r)
  <2>1. Request("mint", x.token, FALSE, 0) \in RequestRecord
    BY <1>1, RecordsTyped DEF Steps
  <2> QED BY <1>1, <1>8, <2>1, TypeRecord DEF ClaimToken, x
<1>9. CASE InProgress(r)
  BY <1>1, <1>9, ReleaseFacts DEF InProgress, TypeOK, tokenVars
<1>10. CASE DetectReuse(r)
  <2>1. x.token \in Tokens /\ family[x.token] \in Families
    BY <1>1, <1>2, <1>10 DEF DetectReuse, LocksOK, TypeOK, x, Tokens
  <2>2. Ending(x.token, {family[x.token]}, FALSE) \in RequestRecord
    BY <1>1, <2>1, RecordsTyped DEF Steps, Ending
  <2> QED BY <1>1, <1>10, <2>2, TypeRecord DEF DetectReuse, x
<1>11. CASE Mint(r)
  <2> DEFINE states == [state EXCEPT ![x.token] = "rotated"]
  <2>1. /\ x.token \in Tokens /\ x.token <= issued /\ state[x.token] = "active"
        /\ family[x.token] \in Families
    BY <1>1, <1>2, <1>11 DEF Mint, LocksOK, TypeOK, x, Tokens
  <2>2. /\ states \in [Tokens -> TokenState]
        /\ \A t \in Tokens : states[t] = "unissued" <=> state[t] = "unissued"
    BY <1>1, <2>1 DEF TokenState
  <2>3. Insert(family[x.token], states) /\ Release(r) /\ UNCHANGED <<stale, password, proven, over>>
    BY <1>11 DEF Mint, x
  <2> HIDE DEF states
  <2> QED BY <1>1, <2>1, <2>2, <2>3, ReleaseFacts, InsertFacts DEF TypeOK
<1>12. CASE \E f \in Families : Logout(r, f)
  <2> PICK f \in Families : Logout(r, f)
    BY <1>12
  <2>1. Ending(0, {f}, FALSE) \in RequestRecord
    BY RecordsTyped DEF Steps, Ending
  <2> QED BY <1>1, <2>1, TypeRecord DEF Logout
<1>13. CASE SetPassword(r)
  <2>1. Request("password", 0, FALSE, 0) \in RequestRecord
    BY RecordsTyped DEF Steps
  <2> QED BY <1>1, <1>13, <2>1, TypeRecord DEF SetPassword
<1>14. CASE LockUser(r)
  <2>1. Ending(0, Families, TRUE) \in RequestRecord
    BY RecordsTyped DEF Steps, Ending
  <2> QED BY <1>1, <1>14, <2>1, TypeRecord DEF LockUser
<1>15. CASE StartUpdate(r)
  <2> DEFINE S == x.scope \cap Started
  <2>1. Statement("update", x.token, S, x.changes, Active(S), Active(S)) \in RequestRecord
    BY <1>1, <1>3, RecordsTyped DEF Steps
  <2> QED BY <1>1, <1>15, <2>1, TypeRecord DEF StartUpdate, x
<1>16. CASE UpdateRow(r)
  <2> PICK t \in x.todo :
        /\ rowLock' = IF state[t] = "active" THEN [rowLock EXCEPT ![t] = r] ELSE rowLock
        /\ req' = [req EXCEPT ![r] = Statement("update", x.token, x.scope, x.changes,
                                               x.seen, x.todo \ {t})]
    BY <1>16 DEF UpdateRow, x
  <2>1. Statement("update", x.token, x.scope, x.changes, x.seen, x.todo \ {t}) \in RequestRecord
    BY <1>1, RecordsTyped DEF Steps
  <2>2. rowLock' \in [Tokens -> Requests \cup {None}]
    BY <1>1
  <2> QED BY <1>1, <1>16, <2>1, <2>2, TypeRecord DEF UpdateRow
<1>17. CASE CommitEnding(r)
  <2>1. /\ state' = [t \in Tokens |->
                       IF t \in x.seen /\ rowLock[t] = r THEN "ended" ELSE state[t]]
        /\ over' = over \cup x.scope
        /\ password' = IF x.changes THEN password + 1 ELSE password
        /\ Release(r) /\ UNCHANGED <<issued, family, stale, proven>>
    BY <1>17 DEF CommitEnding, x
  <2>2. x.seen \subseteq 1..issued
    BY <1>2, <1>17 DEF CommitEnding, LocksOK, x
  <2>3. state' \in [Tokens -> TokenState]
    BY <1>1, <2>1 DEF TokenState
  <2>4. \A t \in Tokens : (t <= issued) <=> (state'[t] # "unissued")
    BY <1>1, <2>1, <2>2 DEF TypeOK
  <2> QED BY <1>1, <2>1, <2>3, <2>4, ReleaseFacts DEF TypeOK
<1>18. CASE Rollback(r)
  BY <1>1, <1>18, ReleaseFacts DEF Rollback, TypeOK, tokenVars
<1> QED BY <1>5, <1>6, <1>7, <1>8, <1>9, <1>10, <1>11, <1>12, <1>13, <1>14, <1>15,
           <1>16, <1>17, <1>18 DEF Step

-----------------------------------------------------------------------------
(* Locks, and one usable token per session. *)

\* What the steps of r that change the tokens do to them.
LEMMA IssueFacts ==
    ASSUME IInv, NEW r \in Requests, Issue(r)
    PROVE  \E f \in Families \ Started :
             /\ Release(r) /\ issued' = issued + 1 /\ issued' \in Tokens
             /\ family'[issued'] = f /\ state'[issued'] = "active"
             /\ \A t \in Tokens : t # issued' => family'[t] = family[t] /\ state'[t] = state[t]
<1> PICK f \in Families \ Started : Insert(f, state)
  BY DEF Issue
<1>1. Release(r)
  BY DEF Issue
<1> QED BY <1>1, InsertFacts DEF IInv, TypeOK

LEMMA MintFacts ==
    ASSUME IInv, NEW r \in Requests, Mint(r)
    PROVE  LET t0 == req[r].token IN
             /\ Release(r) /\ issued' = issued + 1 /\ issued' \in Tokens
             /\ t0 \in 1..issued /\ t0 \in Tokens /\ rowLock[t0] = r
             /\ state[t0] = "active" /\ state'[t0] = "rotated"
             /\ family[t0] \in Families
             /\ family'[issued'] = family[t0] /\ state'[issued'] = "active"
             /\ \A t \in Tokens : t # issued' => family'[t] = family[t]
             /\ \A t \in Tokens \ {t0, issued'} : state'[t] = state[t]
<1> DEFINE t0 == req[r].token
           states == [state EXCEPT ![t0] = "rotated"]
<1>1. /\ t0 \in 1..issued /\ t0 \in Tokens /\ rowLock[t0] = r /\ state[t0] = "active"
      /\ issued \in Nat
  BY TokenBounds DEF Mint, IInv, LocksOK, TypeOK, Tokens
<1>2. family[t0] \in Families
  BY <1>1 DEF IInv, TypeOK
<1>3. /\ states \in [Tokens -> TokenState] /\ states[t0] = "rotated"
      /\ \A t \in Tokens \ {t0} : states[t] = state[t]
      /\ \A t \in Tokens : states[t] = "unissued" <=> state[t] = "unissued"
  BY <1>1 DEF IInv, TypeOK, TokenState
<1>4. Release(r) /\ Insert(family[t0], states)
  BY DEF Mint
<1> HIDE DEF states
<1>5. /\ issued' = issued + 1 /\ issued' \in Tokens
      /\ family'[issued'] = family[t0] /\ state'[issued'] = "active"
      /\ \A t \in Tokens : t # issued' => family'[t] = family[t] /\ state'[t] = states[t]
  BY <1>2, <1>3, <1>4, InsertFacts DEF IInv
<1>6. t0 # issued'
  BY <1>1, <1>5
<1> QED BY <1>1, <1>2, <1>3, <1>4, <1>5, <1>6

LEMMA EndingFacts ==
    ASSUME IInv, NEW r \in Requests, CommitEnding(r)
    PROVE  /\ Release(r) /\ UNCHANGED <<issued, family>>
           /\ req[r].seen \subseteq 1..issued
           /\ \A t \in Tokens : IF t \in req[r].seen /\ rowLock[t] = r
                                THEN state'[t] = "ended" ELSE state'[t] = state[t]
<1>1. req[r].seen \subseteq 1..issued
  BY DEF IInv, LocksOK, CommitEnding
<1> QED BY <1>1 DEF CommitEnding

\* Every other step leaves the tokens alone and takes a lock only if it is free.
TokensKept(r) ==
    /\ UNCHANGED <<issued, family, state>>
    /\ \A q \in Requests \ {r}, t \in Tokens : rowLock[t] = q => rowLock'[t] = q
    /\ \A q \in Requests \ {r} : req'[q] = req[q]

LEMMA OtherStepsKeepTokens ==
    ASSUME IInv, NEW r \in Requests, Step(r)
    PROVE  Issue(r) \/ Mint(r) \/ CommitEnding(r) \/ TokensKept(r)
<1> USE DEF IInv, TypeOK, TokensKept, tokenVars
<1>1. CASE VerifyPassword(r)
  BY <1>1 DEF VerifyPassword
<1>2. CASE \E t \in Tokens : Present(r, t)
  BY <1>2 DEF Present
<1>3. CASE ClaimToken(r)
  BY <1>3, NoneIsNew DEF ClaimToken
<1>4. CASE InProgress(r)
  BY <1>4, ReleaseFacts DEF InProgress
<1>5. CASE DetectReuse(r)
  BY <1>5, NoneIsNew DEF DetectReuse
<1>6. CASE \E f \in Families : Logout(r, f)
  BY <1>6 DEF Logout
<1>7. CASE SetPassword(r) \/ LockUser(r) \/ StartUpdate(r)
  BY <1>7 DEF SetPassword, LockUser, StartUpdate
<1>8. CASE UpdateRow(r)
  BY <1>8, NoneIsNew DEF UpdateRow
<1>9. CASE Rollback(r)
  BY <1>9, ReleaseFacts DEF Rollback
<1> QED BY <1>1, <1>2, <1>3, <1>4, <1>5, <1>6, <1>7, <1>8, <1>9 DEF Step

\* The step of r leaves what every other request relies on.
LEMMA OthersSafe ==
    ASSUME IInv, NEW r \in Requests, Step(r), NEW q \in Requests \ {r}
    PROVE  Safe(q)'
<1>1. issued \in Nat /\ \A t \in 1..issued : t \in Tokens /\ t # issued + 1
  BY TokenBounds DEF IInv, TypeOK, Tokens
<1>2. CASE Issue(r)
  BY <1>1, <1>2, IssueFacts, ReleaseFacts, SafeKept DEF IInv
<1>3. CASE Mint(r)
  <2>1. /\ req'[q] = req[q] /\ issued' \in Nat /\ issued' >= issued
        /\ \A t \in 1..issued : rowLock[t] = q => rowLock'[t] = q /\ t # req[r].token
    BY <1>1, <1>3, MintFacts, ReleaseFacts DEF IInv
  <2>2. \A t \in 1..issued : t # req[r].token => state'[t] = state[t]
    BY <1>1, <1>3, MintFacts
  <2>3. state'[req[r].token] = "rotated"
    BY <1>3, MintFacts
  <2> QED BY <2>1, <2>2, <2>3, SafeKept
<1>4. CASE CommitEnding(r)
  <2>1. /\ req'[q] = req[q] /\ issued' = issued
        /\ \A t \in 1..issued : rowLock[t] = q => rowLock'[t] = q
    BY <1>1, <1>4, EndingFacts, ReleaseFacts DEF IInv
  <2>2. /\ \A t \in 1..issued : rowLock[t] # r => state'[t] = state[t]
        /\ \A t \in 1..issued : state[t] # "active" => state'[t] # "active"
    BY <1>1, <1>4, EndingFacts
  <2> QED BY <1>1, <2>1, <2>2, SafeKept
<1>5. CASE TokensKept(r)
  BY <1>1, <1>5, SafeKept DEF TokensKept
<1> QED BY <1>2, <1>3, <1>4, <1>5, OtherStepsKeepTokens

\* The step of r leaves r safe.
LEMMA OwnSafe ==
    ASSUME IInv, NEW r \in Requests, Step(r)
    PROVE  Safe(r)'
<1>1. /\ issued \in Nat /\ Safe(r) /\ req \in [Requests -> RequestRecord]
      /\ rowLock \in [Tokens -> Requests \cup {None}]
      /\ \A t \in Tokens : t \in Nat /\ (t <= issued <=> state[t] # "unissued")
  BY TokenBounds, LocksAreSafe DEF IInv, TypeOK, Tokens
<1>2. CASE VerifyPassword(r) \/ SetPassword(r)
  BY <1>1, <1>2 DEF VerifyPassword, SetPassword, Request, Safe
<1>3. CASE Issue(r) \/ InProgress(r) \/ Mint(r) \/ CommitEnding(r) \/ Rollback(r)
  <2>1. Release(r)
    BY <1>3 DEF Issue, InProgress, Mint, CommitEnding, Rollback
  <2>2. req'[r].step = "idle"
    BY <2>1, ReleaseFacts DEF IInv, Idle, Request
  <2> QED BY <2>2 DEF Safe
<1>4. CASE \E t \in Tokens : Present(r, t)
  <2> PICK t \in Tokens : Present(r, t)
    BY <1>4
  <2>1. req'[r].step = "lock" /\ req'[r].token = t /\ t \in 1..issued /\ issued' = issued
    BY <1>1 DEF Present, Request, tokenVars, Tokens
  <2> QED BY <2>1 DEF Safe
<1>5. CASE ClaimToken(r)
  <2> DEFINE t == req[r].token
  <2>0. t \in 1..issued
    BY <1>1, <1>5 DEF ClaimToken, Safe
  <2>1. /\ t \in 1..issued /\ t \in Tokens /\ state[t] = "active"
        /\ issued' = issued /\ state' = state
    BY <1>5, <2>0, TokenBounds DEF ClaimToken, tokenVars, Tokens, IInv, TypeOK
  <2>2. req'[r].step = "mint" /\ req'[r].token = t /\ rowLock'[t] = r
    BY <1>1, <1>5, <2>1 DEF ClaimToken, Request
  <2> QED BY <2>1, <2>2 DEF Safe
<1>6. CASE DetectReuse(r) \/ LockUser(r) \/ \E f \in Families : Logout(r, f)
  BY <1>1, <1>6 DEF DetectReuse, LockUser, Logout, Ending, Statement, Safe
<1>7. CASE StartUpdate(r)
  <2> DEFINE A == Active(req[r].scope \cap Started)
  <2>1. A \subseteq 1..issued
    BY <1>1 DEF Active, Tokens
  <2>2. /\ req'[r].step = "update" /\ req'[r].seen = A /\ req'[r].todo = A
        /\ issued' = issued
    BY <1>1, <1>7 DEF StartUpdate, Statement, tokenVars
  <2> HIDE DEF A
  <2> QED BY <2>1, <2>2 DEF Safe
<1>8. CASE UpdateRow(r)
  <2> DEFINE x == req[r]
  <2>1. /\ x.seen \subseteq 1..issued
        /\ \A t \in x.seen \ x.todo : rowLock[t] = r \/ state[t] # "active"
        /\ UNCHANGED <<issued, state>>
    BY <1>1, <1>8 DEF Safe, UpdateRow, tokenVars
  <2> PICK t \in x.todo :
        /\ rowLock' = IF state[t] = "active" THEN [rowLock EXCEPT ![t] = r] ELSE rowLock
        /\ req' = [req EXCEPT ![r] = Statement("update", x.token, x.scope, x.changes,
                                               x.seen, x.todo \ {t})]
    BY <1>8 DEF UpdateRow
  <2>2. req'[r].step = "update" /\ req'[r].seen = x.seen /\ req'[r].todo = x.todo \ {t}
    BY <1>1 DEF Statement
  <2>3. t \in Tokens
    BY <1>1 DEF RequestRecord
  <2>4. rowLock'[t] = r \/ state[t] # "active"
    BY <1>1, <2>3
  <2>5. \A u \in Tokens : rowLock[u] = r => rowLock'[u] = r
    BY <1>1
  <2>6. x.seen \subseteq Tokens
    BY <1>1 DEF RequestRecord
  <2> HIDE DEF x
  <2> QED BY <2>1, <2>2, <2>4, <2>5, <2>6 DEF Safe
<1> QED BY <1>2, <1>3, <1>4, <1>5, <1>6, <1>7, <1>8 DEF Step

LEMMA OneActiveStep ==
    ASSUME IInv, NEW r \in Requests, Step(r)
    PROVE  OneActivePerFamily'
<1>1. OneActivePerFamily /\ \A t \in Tokens : family[t] \in Families => family[t] \in Started
  BY NoneIsNew, TokenBounds DEF IInv, TypeOK, Started, Tokens
<1>2. CASE Issue(r)
  BY <1>1, <1>2, IssueFacts DEF OneActivePerFamily
<1>3. CASE Mint(r)
  BY <1>1, <1>3, MintFacts DEF OneActivePerFamily
<1>4. CASE CommitEnding(r)
  BY <1>1, <1>4, EndingFacts DEF OneActivePerFamily
<1>5. CASE TokensKept(r)
  BY <1>1, <1>5 DEF TokensKept, OneActivePerFamily
<1> QED BY <1>2, <1>3, <1>4, <1>5, OtherStepsKeepTokens

LEMMA IInvNext == IInv /\ [Next]_vars => IInv'
<1> SUFFICES ASSUME IInv, [Next]_vars PROVE IInv'
  OBVIOUS
<1>1. CASE \E r \in Requests : Step(r)
  <2> PICK r \in Requests : Step(r)
    BY <1>1
  <2>1. TypeOK'
    BY TypeStep
  <2>2. \A q \in Requests : Safe(q)'
    BY OthersSafe, OwnSafe
  <2>3. LocksOK'
    BY <2>2 DEF LocksOK, Safe
  <2> QED BY <2>1, <2>3, OneActiveStep DEF IInv
<1>2. CASE \E t \in Tokens : GraceEnds(t)
  BY <1>2 DEF GraceEnds, IInv, TypeOK, LocksOK, OneActivePerFamily
<1>3. CASE UNCHANGED vars
  BY <1>3 DEF vars, tokenVars, IInv, TypeOK, LocksOK, OneActivePerFamily
<1> QED BY <1>1, <1>2, <1>3 DEF Next

\* Every row, lock and transaction keeps its shape.
THEOREM SessionTypeCorrect == Spec => []TypeOK
<1>1. IInv => TypeOK
  BY DEF IInv
<1> QED BY <1>1, TypeInit, IInvNext, PTL DEF Spec

\* A session never has two usable tokens, however many requests present the
\* same one (RefreshService.rotate, SELECT ... FOR UPDATE).
THEOREM OneWinner == Spec => []OneActivePerFamily
<1>1. IInv => OneActivePerFamily
  BY DEF IInv
<1> QED BY <1>1, TypeInit, IInvNext, PTL DEF Spec

\* An ending reaches every token that was active when its UPDATE started.
THEOREM ThoroughEnding == Spec => EndingIsThorough
<1> DEFINE A == \A r \in Requests :
                  req[r].step = "update" /\ req'[r] = Idle /\ <<state, over>>' # <<state, over>>
                     => \A t \in req[r].seen : state'[t] # "active"
<1>1. IInv /\ [Next]_vars => A
  <2> SUFFICES ASSUME IInv, Next, NEW r \in Requests,
                      req[r].step = "update", req'[r] = Idle,
                      <<state, over>>' # <<state, over>>,
                      NEW t \in req[r].seen
               PROVE  state'[t] # "active"
    BY DEF vars, tokenVars
  <2>1. Idle.step = "idle" /\ req[r] # Idle
    BY DEF Idle, Request
  <2>2. Step(r)
    <3>1. ASSUME NEW q \in Requests \ {r}, Step(q) PROVE FALSE
      BY <2>1, <3>1, IssueFacts, MintFacts, EndingFacts, ReleaseFacts, OtherStepsKeepTokens
         DEF IInv, TokensKept
    <3> QED BY <2>1, <3>1 DEF Next, GraceEnds
  <2>3. CommitEnding(r)
    BY <2>2 DEF Step, VerifyPassword, Issue, Present, ClaimToken, InProgress, DetectReuse, Mint,
       Logout, SetPassword, LockUser, StartUpdate, UpdateRow, Rollback, Idle, Request, tokenVars
  <2>4. rowLock[t] = r \/ state[t] # "active"
    BY <2>3 DEF CommitEnding, IInv, LocksOK
  <2>5. t \in Tokens
    BY DEF IInv, TypeOK, RequestRecord
  <2> QED BY <2>3, <2>4, <2>5, EndingFacts
<1> QED BY <1>1, TypeInit, IInvNext, PTL DEF Spec, EndingIsThorough

-----------------------------------------------------------------------------
(* No circle of waiting.  A transaction that rotates, or that is yet to end  *)
(* its one session, waits for nothing once it holds a row; an UPDATE of one  *)
(* session waits for one row only, and that row is newer than the one its    *)
(* transaction may hold already; and the users row lets one UPDATE of        *)
(* several sessions run at a time.                                           *)

\* The locks of r are those its statements have taken so far.
LocksInTurn(r) ==
    /\ \A t \in Tokens : rowLock[t] = r =>
         /\ req[r].step \in {"mint", "end", "update"}
         /\ \/ t = req[r].token
            \/ req[r].step = "update" /\ t \in req[r].seen \ req[r].todo
    /\ userLock = r => req[r].step \in {"end", "update"}
    /\ req[r].step \in {"end", "update"} /\ req[r].changes =>
         userLock = r /\ req[r].token = 0

\* What r is about to end: one session, unless it changes the password.
EndsInTurn(r) ==
    req[r].step = "end" =>
      /\ ~req[r].changes => \A f, g \in req[r].scope : f = g
      /\ req[r].token # 0 => /\ req[r].token \in 1..issued /\ state[req[r].token] # "active"
                             /\ ~req[r].changes
                             /\ req[r].scope \subseteq {family[req[r].token]}

\* The rows of an UPDATE: one of each session, newer than the replayed one.
RowsInTurn(r) ==
    req[r].step = "update" =>
      /\ req[r].todo \subseteq req[r].seen
      /\ \A t, u \in req[r].seen : ~req[r].changes \/ family[t] = family[u] => t = u
      /\ req[r].token # 0 =>
           /\ req[r].token \in 1..issued /\ ~req[r].changes
           /\ \A u \in req[r].seen : family[u] = family[req[r].token] /\ req[r].token < u

InTurn(r) == LocksInTurn(r) /\ EndsInTurn(r) /\ RowsInTurn(r)

\* The usable token of a session is the last one it was given.
UsableIsNewest ==
    \A t, u \in 1..issued : family[t] = family[u] /\ state[u] = "active" => t <= u

OrderInv == IInv /\ UsableIsNewest /\ \A r \in Requests : InTurn(r)

LEMMA OrderInit == Init => OrderInv
<1> SUFFICES ASSUME Init PROVE OrderInv
  OBVIOUS
<1>1. IInv
  BY TypeInit
<1>2. UsableIsNewest
  BY DEF Init, UsableIsNewest
<1>3. \A r \in Requests : InTurn(r)
  BY NoneIsNew DEF Init, InTurn, LocksInTurn, EndsInTurn, RowsInTurn, Idle, Request
<1> QED BY <1>1, <1>2, <1>3 DEF OrderInv

\* No step of r gives or takes a lock of another request, moves a token to
\* another session or makes one usable again.
Undisturbed(q) ==
    /\ req'[q] = req[q]
    /\ \A t \in Tokens : rowLock'[t] = q <=> rowLock[t] = q
    /\ userLock' = q <=> userLock = q
    /\ issued' \in Nat /\ issued <= issued'
    /\ \A t \in 1..issued : family'[t] = family[t]
    /\ \A t \in 1..issued : state[t] # "active" => state'[t] # "active"

LEMMA OthersUndisturbed ==
    ASSUME IInv, NEW r \in Requests, Step(r), NEW q \in Requests \ {r}
    PROVE  Undisturbed(q)
<1>1. /\ issued \in Nat /\ \A t \in 1..issued : t \in Tokens /\ t # issued + 1
      /\ req \in [Requests -> RequestRecord]
      /\ rowLock \in [Tokens -> Requests \cup {None}] /\ q # None /\ q # r
  BY TokenBounds, NoneIsNew DEF IInv, TypeOK, Tokens
<1>2. ASSUME Release(r)
      PROVE  /\ req'[q] = req[q]
             /\ \A t \in Tokens : rowLock'[t] = q <=> rowLock[t] = q
             /\ userLock' = q <=> userLock = q
  BY <1>1, <1>2 DEF Release
<1>3. CASE Issue(r)
  BY <1>1, <1>2, <1>3, IssueFacts DEF Undisturbed
<1>4. CASE Mint(r)
  <2>1. \A t \in 1..issued : family'[t] = family[t]
    BY <1>1, <1>4, MintFacts
  <2>2. \A t \in 1..issued : state[t] # "active" => state'[t] # "active"
    BY <1>1, <1>4, MintFacts
  <2>3. Release(r) /\ issued' = issued + 1
    BY <1>4, MintFacts
  <2> QED BY <1>1, <1>2, <2>1, <2>2, <2>3 DEF Undisturbed
<1>5. CASE CommitEnding(r)
  <2>1. Release(r) /\ UNCHANGED <<issued, family>>
    BY <1>5, EndingFacts
  <2>2. \A t \in 1..issued : state[t] # "active" => state'[t] # "active"
    BY <1>1, <1>5, EndingFacts
  <2> QED BY <1>1, <1>2, <2>1, <2>2 DEF Undisturbed
<1>6. CASE InProgress(r) \/ Rollback(r)
  BY <1>1, <1>2, <1>6 DEF InProgress, Rollback, tokenVars, Undisturbed
<1>7. CASE \/ VerifyPassword(r) \/ (\E t \in Tokens : Present(r, t))
           \/ (\E f \in Families : Logout(r, f)) \/ SetPassword(r) \/ StartUpdate(r)
  <2>1. UNCHANGED <<tokenVars, rowLock, userLock>>
    BY <1>7 DEF VerifyPassword, Present, Logout, SetPassword, StartUpdate
  <2>2. req'[q] = req[q]
    BY <1>1, <1>7 DEF VerifyPassword, Present, Logout, SetPassword, StartUpdate
  <2> QED BY <1>1, <2>1, <2>2 DEF tokenVars, Undisturbed
<1>8. CASE ClaimToken(r) \/ DetectReuse(r)
  <2> PICK t : rowLock[t] = None /\ rowLock' = [rowLock EXCEPT ![t] = r]
    BY <1>8 DEF ClaimToken, DetectReuse
  <2>1. req'[q] = req[q] /\ UNCHANGED <<issued, family, state, userLock>>
    BY <1>1, <1>8 DEF ClaimToken, DetectReuse, tokenVars
  <2> QED BY <1>1, <2>1 DEF Undisturbed
<1>9. CASE LockUser(r)
  BY <1>1, <1>9 DEF LockUser, tokenVars, Undisturbed
<1>10. CASE UpdateRow(r)
  BY <1>1, <1>10 DEF UpdateRow, tokenVars, Undisturbed
<1> QED BY <1>3, <1>4, <1>5, <1>6, <1>7, <1>8, <1>9, <1>10 DEF Step

LEMMA UndisturbedInTurn ==
    ASSUME IInv, NEW q \in Requests, InTurn(q), Undisturbed(q)
    PROVE  InTurn(q)'
<1>1. /\ issued \in Nat /\ Safe(q) /\ req[q] \in RequestRecord
      /\ \A t \in 1..issued : t \in 1..issued'
  BY LocksAreSafe DEF IInv, TypeOK, Undisturbed
<1>2. LocksInTurn(q)'
  BY DEF InTurn, LocksInTurn, Undisturbed
<1>3. EndsInTurn(q)'
  BY <1>1 DEF InTurn, EndsInTurn, Undisturbed
<1>4. RowsInTurn(q)'
  <2> SUFFICES ASSUME req[q].step = "update" PROVE RowsInTurn(q)'
    BY DEF RowsInTurn, Undisturbed
  <2>1. \A t \in req[q].seen : t \in 1..issued /\ family'[t] = family[t]
    BY <1>1 DEF Safe, Undisturbed
  <2> QED BY <1>1, <2>1 DEF InTurn, RowsInTurn, Undisturbed
<1> QED BY <1>2, <1>3, <1>4 DEF InTurn

\* The step of r leaves its own locks and rows in turn.
LEMMA OwnInTurn ==
    ASSUME OrderInv, NEW r \in Requests, Step(r)
    PROVE  InTurn(r)'
<1>1. /\ IInv /\ InTurn(r) /\ Safe(r) /\ issued \in Nat /\ r # None
      /\ req \in [Requests -> RequestRecord] /\ req[r] \in RequestRecord
      /\ rowLock \in [Tokens -> Requests \cup {None}]
      /\ \A t \in 1..issued : t \in Tokens
  BY TokenBounds, NoneIsNew, LocksAreSafe DEF OrderInv, IInv, TypeOK, Tokens
<1>2. CASE Issue(r) \/ InProgress(r) \/ Mint(r) \/ CommitEnding(r) \/ Rollback(r)
  <2>1. Release(r)
    BY <1>2 DEF Issue, InProgress, Mint, CommitEnding, Rollback
  <2>2. req'[r].step = "idle" /\ userLock' # r /\ \A t \in Tokens : rowLock'[t] # r
    BY <1>1, <2>1 DEF Release, Idle, Request
  <2> QED BY <2>2 DEF InTurn, LocksInTurn, EndsInTurn, RowsInTurn
<1>3. ASSUME req[r].step \notin {"mint", "end", "update"}
      PROVE  userLock # r /\ \A t \in Tokens : rowLock[t] # r
  BY <1>1, <1>3 DEF InTurn, LocksInTurn
<1>4. CASE \/ VerifyPassword(r) \/ (\E t \in Tokens : Present(r, t))
           \/ (\E f \in Families : Logout(r, f)) \/ SetPassword(r)
  <2>1. req[r].step = "idle" /\ UNCHANGED <<rowLock, userLock>>
    <3>1. req[r] = Idle /\ UNCHANGED <<rowLock, userLock>>
      BY <1>4 DEF VerifyPassword, Present, Logout, SetPassword
    <3> QED BY <3>1 DEF Idle, Request
  <2>2. \/ req'[r].step \in {"issue", "lock", "password"}
        \/ /\ req'[r].step = "end" /\ ~req'[r].changes /\ req'[r].token = 0
           /\ \A f, g \in req'[r].scope : f = g
    BY <1>1, <1>4 DEF VerifyPassword, Present, Logout, SetPassword, Request, Ending, Statement
  <2> QED BY <1>3, <2>1, <2>2 DEF InTurn, LocksInTurn, EndsInTurn, RowsInTurn
<1>5. CASE ClaimToken(r)
  <2>1. /\ req[r].step = "lock" /\ userLock' = userLock
        /\ rowLock' = [rowLock EXCEPT ![req[r].token] = r]
        /\ req'[r] = Request("mint", req[r].token, FALSE, 0)
    BY <1>1, <1>5 DEF ClaimToken
  <2>2. req'[r].step = "mint" /\ req'[r].token = req[r].token
    BY <2>1 DEF Request
  <2>3. userLock' # r /\ \A t \in Tokens : rowLock'[t] = r => t = req[r].token
    BY <1>1, <1>3, <2>1
  <2> QED BY <2>2, <2>3 DEF InTurn, LocksInTurn, EndsInTurn, RowsInTurn
<1>6. CASE DetectReuse(r)
  <2> DEFINE t0 == req[r].token
  <2>1. /\ req[r].step = "lock" /\ UNCHANGED <<userLock, issued, family, state>>
        /\ rowLock' = [rowLock EXCEPT ![t0] = r]
        /\ req'[r] = Ending(t0, {family[t0]}, FALSE) /\ state[t0] # "active"
    BY <1>1, <1>6 DEF DetectReuse, tokenVars
  <2>2. /\ req'[r].step = "end" /\ req'[r].token = t0 /\ ~req'[r].changes
        /\ req'[r].scope = {family[t0]}
    BY <2>1 DEF Ending, Statement
  <2>3. t0 \in 1..issued
    BY <1>1, <2>1 DEF Safe
  <2>4. userLock' # r /\ \A t \in Tokens : rowLock'[t] = r => t = t0
    BY <1>1, <1>3, <2>1
  <2> QED BY <2>1, <2>2, <2>3, <2>4 DEF InTurn, LocksInTurn, EndsInTurn, RowsInTurn
<1>7. CASE LockUser(r)
  <2>1. /\ req[r].step = "password" /\ userLock' = r /\ rowLock' = rowLock
        /\ req'[r] = Ending(0, Families, TRUE)
    BY <1>1, <1>7 DEF LockUser
  <2>2. req'[r].step = "end" /\ req'[r].token = 0 /\ req'[r].changes
    BY <2>1 DEF Ending, Statement
  <2> QED BY <1>3, <2>1, <2>2 DEF InTurn, LocksInTurn, EndsInTurn, RowsInTurn
<1>8. CASE StartUpdate(r)
  <2> DEFINE x == req[r]
             A == Active(x.scope \cap Started)
  <2>1. /\ x.step = "end" /\ UNCHANGED <<rowLock, userLock, issued, family, state>>
        /\ req'[r] = Statement("update", x.token, x.scope \cap Started, x.changes, A, A)
    BY <1>1, <1>8 DEF StartUpdate, tokenVars
  <2>2. /\ req'[r].step = "update" /\ req'[r].token = x.token /\ req'[r].changes = x.changes
        /\ req'[r].seen = A /\ req'[r].todo = A
    BY <2>1 DEF Statement
  <2>3. \A t \in A : t \in 1..issued /\ state[t] = "active" /\ family[t] \in x.scope
    BY <1>1 DEF Active, IInv, TypeOK, Tokens
  <2> HIDE DEF A
  <2>4. LocksInTurn(r)'
    BY <1>1, <2>1, <2>2 DEF InTurn, LocksInTurn
  <2>5. ASSUME NEW t \in A, NEW u \in A, ~x.changes \/ family[t] = family[u]
        PROVE  t = u
    <3>1. family[t] = family[u]
      BY <1>1, <2>1, <2>3, <2>5 DEF InTurn, EndsInTurn
    <3> QED BY <1>1, <2>3, <3>1 DEF IInv, OneActivePerFamily
  <2>6. ASSUME x.token # 0, NEW u \in A
        PROVE  family[u] = family[x.token] /\ x.token < u
    <3>1. /\ x.token \in 1..issued /\ state[x.token] # "active"
          /\ family[u] = family[x.token] /\ u \in 1..issued /\ state[u] = "active"
      BY <1>1, <2>1, <2>3, <2>6 DEF InTurn, EndsInTurn
    <3>2. x.token <= u /\ x.token # u
      BY <3>1 DEF OrderInv, UsableIsNewest
    <3> QED BY <3>1, <3>2
  <2>7. x.token # 0 => x.token \in 1..issued /\ ~x.changes
    BY <1>1, <2>1 DEF InTurn, EndsInTurn
  <2>8. RowsInTurn(r)'
    BY <2>1, <2>2, <2>5, <2>6, <2>7 DEF RowsInTurn
  <2> QED BY <2>2, <2>4, <2>8 DEF InTurn, EndsInTurn
<1>9. CASE UpdateRow(r)
  <2> DEFINE x == req[r]
  <2> PICK t \in x.todo :
        /\ rowLock' = IF state[t] = "active" THEN [rowLock EXCEPT ![t] = r] ELSE rowLock
        /\ req' = [req EXCEPT ![r] = Statement("update", x.token, x.scope, x.changes,
                                               x.seen, x.todo \ {t})]
    BY <1>9 DEF UpdateRow
  <2>1. /\ req'[r].step = "update" /\ req'[r].token = x.token /\ req'[r].changes = x.changes
        /\ req'[r].seen = x.seen /\ req'[r].todo = x.todo \ {t}
    BY <1>1 DEF Statement
  <2>2. x.step = "update" /\ UNCHANGED <<userLock, issued, family>>
    BY <1>9 DEF UpdateRow, tokenVars
  <2>3. t \in x.seen
    BY <1>1, <2>2 DEF InTurn, RowsInTurn
  <2>4. \A u \in Tokens : rowLock'[u] = r => rowLock[u] = r \/ u = t
    BY <1>1
  <2>5. RowsInTurn(r)'
    BY <1>1, <2>1, <2>2 DEF InTurn, RowsInTurn
  <2>6. LocksInTurn(r)'
    BY <1>1, <2>1, <2>2, <2>3, <2>4 DEF InTurn, LocksInTurn
  <2> QED BY <2>1, <2>5, <2>6 DEF InTurn, EndsInTurn
<1> QED BY <1>2, <1>4, <1>5, <1>6, <1>7, <1>8, <1>9 DEF Step

LEMMA NewestStep ==
    ASSUME IInv, UsableIsNewest, NEW r \in Requests, Step(r)
    PROVE  UsableIsNewest'
<1>1. /\ issued \in Nat /\ \A t \in 1..issued : t \in Tokens /\ t # issued + 1
      /\ 1..(issued + 1) = (1..issued) \cup {issued + 1}
      /\ \A t \in 1..issued : family[t] \in Started /\ t <= issued + 1
  BY TokenBounds DEF IInv, TypeOK, Tokens, Started
<1>2. CASE Issue(r)
  BY <1>1, <1>2, IssueFacts DEF UsableIsNewest
<1>3. CASE Mint(r)
  <2> DEFINE t0 == req[r].token
  <2>1. /\ issued' = issued + 1 /\ t0 \in 1..issued /\ state[t0] = "active"
        /\ state'[t0] = "rotated" /\ family'[issued'] = family[t0]
        /\ \A t \in 1..issued : family'[t] = family[t]
        /\ \A t \in 1..issued : t # t0 => state'[t] = state[t]
    BY <1>1, <1>3, MintFacts
  <2> SUFFICES ASSUME NEW t \in 1..issued', NEW u \in 1..issued',
                      family'[t] = family'[u], state'[u] = "active"
               PROVE  t <= u
    BY DEF UsableIsNewest
  <2>2. CASE u = issued'
    BY <1>1, <2>1, <2>2
  <2>3. CASE u # issued'
    <3>1. u \in 1..issued /\ u # t0 /\ state[u] = "active" /\ family'[u] = family[u]
      BY <1>1, <2>1, <2>3
    <3>2. family[u] # family[t0]
      BY <1>1, <2>1, <3>1 DEF IInv, OneActivePerFamily
    <3>3. t \in 1..issued /\ family[t] = family[u]
      BY <1>1, <2>1, <3>1, <3>2
    <3> QED BY <3>1, <3>3 DEF UsableIsNewest
  <2> QED BY <2>2, <2>3
<1>4. CASE CommitEnding(r)
  BY <1>1, <1>4, EndingFacts DEF UsableIsNewest
<1>5. CASE TokensKept(r)
  BY <1>5 DEF TokensKept, UsableIsNewest
<1> QED BY <1>2, <1>3, <1>4, <1>5, OtherStepsKeepTokens

LEMMA OrderNext == OrderInv /\ [Next]_vars => OrderInv'
<1> SUFFICES ASSUME OrderInv, [Next]_vars PROVE OrderInv'
  OBVIOUS
<1>1. IInv /\ IInv'
  BY IInvNext DEF OrderInv
<1>2. CASE \E r \in Requests : Step(r)
  <2> PICK r \in Requests : Step(r)
    BY <1>2
  <2>1. UsableIsNewest'
    BY <1>1, NewestStep DEF OrderInv
  <2>2. ASSUME NEW q \in Requests PROVE InTurn(q)'
    <3>1. CASE q = r
      BY <3>1, OwnInTurn
    <3>2. CASE q # r
      BY <1>1, <3>2, OthersUndisturbed, UndisturbedInTurn DEF OrderInv
    <3> QED BY <3>1, <3>2
  <2> QED BY <1>1, <2>1, <2>2 DEF OrderInv
<1>3. CASE \E t \in Tokens : GraceEnds(t)
  BY <1>1, <1>3 DEF GraceEnds, OrderInv, UsableIsNewest, InTurn, LocksInTurn, EndsInTurn, RowsInTurn
<1>4. CASE UNCHANGED vars
  BY <1>1, <1>4 DEF vars, tokenVars, OrderInv, UsableIsNewest, InTurn, LocksInTurn, EndsInTurn,
     RowsInTurn
<1> QED BY <1>2, <1>3, <1>4 DEF Next

\* A nonempty set of tokens has a last one.
LEMMA LastToken ==
    ASSUME NEW W \in SUBSET Tokens, W # {}
    PROVE  \E t \in W : \A u \in W : u <= t
<1> DEFINE R == OpToRel(<, Nat)
           B == {MaxTokens - t : t \in W}
<1>1. IsWellFoundedOn(R, Nat)
  BY NatLessThanWellFounded
<1>2. B \subseteq Nat /\ MaxTokens \in Nat /\ \A t \in W : t \in Nat
  BY TokenBounds DEF Tokens
<1> PICK t0 \in W : TRUE
  OBVIOUS
<1>6. MaxTokens - t0 \in B
  OBVIOUS
<1>3. PICK b \in B : \A c \in B : <<c, b>> \notin R
  <2> HIDE DEF R, B
  <2> QED BY <1>1, <1>2, <1>6, WFMin
<1>4. PICK t \in W : b = MaxTokens - t
  OBVIOUS
<1>5. ASSUME NEW u \in W PROVE u <= t
  <2>1. MaxTokens - u \in B /\ b \in Nat /\ MaxTokens - u \in Nat
    BY <1>2
  <2>2. ~(MaxTokens - u < b)
    BY <1>3, <2>1 DEF OpToRel
  <2> QED BY <1>2, <1>4, <2>1, <2>2
<1> QED BY <1>5

\* In a circle everyone waits and is waited for, so everyone is in an UPDATE,
\* with a row left that another of them holds.
Stuck(S) == \A r \in S : \E q \in S : q # r /\ WaitsFor(r, q)

LEMMA StuckInUpdate ==
    ASSUME OrderInv, NEW S \in SUBSET Requests, Stuck(S), NEW r \in S, NEW q \in S,
           q # r, WaitsFor(r, q)
    PROVE  q \in S /\ req[q].step = "update"
<1>1. InTurn(r) /\ InTurn(q) /\ req[r] \in RequestRecord
  BY DEF OrderInv, IInv, TypeOK
<1>2. IInv /\ \A t \in 1..issued : t \in Tokens
  BY TokenBounds DEF OrderInv, IInv, TypeOK, Tokens
<1>3. req[r].step = "lock" => req[r].token \in Tokens
  BY <1>2, LocksAreSafe DEF IInv, LocksOK
<1>4. req[q].step \in {"mint", "end", "update"}
  BY <1>1, <1>3 DEF WaitsFor, InTurn, LocksInTurn, RequestRecord
<1>5. req[q].step \in {"lock", "password", "update"}
  BY DEF Stuck, WaitsFor
<1> QED BY <1>4, <1>5

\* A row left to an UPDATE of the circle belongs to another of the circle, which
\* presented it or has passed it.
LEMMA AwaitedRow ==
    ASSUME OrderInv, NEW S \in SUBSET Requests, Stuck(S), NEW r \in S, req[r].step = "update"
    PROVE  \E q \in S, t \in req[r].todo :
             /\ q # r /\ rowLock[t] = q /\ req[q].step = "update"
             /\ t \in req[r].seen /\ t \in Tokens
             /\ t = req[q].token \/ t \in req[q].seen \ req[q].todo
<1> PICK q \in S : q # r /\ WaitsFor(r, q)
  BY DEF Stuck
<1> PICK t \in req[r].todo : rowLock[t] = q
  BY DEF WaitsFor
<1>1. InTurn(r) /\ InTurn(q) /\ req[r] \in RequestRecord
  BY DEF OrderInv, IInv, TypeOK
<1>2. t \in req[r].seen /\ t \in Tokens
  BY <1>1 DEF InTurn, RowsInTurn, RequestRecord
<1>3. req[q].step = "update"
  BY StuckInUpdate
<1> QED BY <1>1, <1>2, <1>3 DEF InTurn, LocksInTurn

\* An UPDATE of one session that is in the circle has passed no row, so what it
\* holds is the token it was presented.
LEMMA HeldByOne ==
    ASSUME OrderInv, NEW S \in SUBSET Requests, Stuck(S), NEW q \in S, req[q].step = "update",
           ~req[q].changes
    PROVE  req[q].seen \ req[q].todo = {}
<1> PICK t \in req[q].todo : t \in req[q].seen
  BY AwaitedRow
<1> QED BY DEF OrderInv, InTurn, RowsInTurn

\* From a presented token the circle leads to a later one of the same session,
\* unless a password change holds a row of it.
Presented(S, g) ==
    {t \in Tokens : family[t] = g /\ \E q \in S : /\ req[q].step = "update" /\ ~req[q].changes
                                                 /\ req[q].token = t}

LEMMA LaterToken ==
    ASSUME OrderInv, NEW S \in SUBSET Requests, Stuck(S), NEW g, NEW t \in Presented(S, g),
           \A p \in S : req[p].step = "update" /\ req[p].changes =>
              \A u \in req[p].seen \ req[p].todo : family[u] # g
    PROVE  \E u \in Presented(S, g) : t < u
<1> PICK q \in S : req[q].step = "update" /\ ~req[q].changes /\ req[q].token = t
  BY DEF Presented
<1> PICK q2 \in S, u \in req[q].todo :
      /\ req[q2].step = "update" /\ u \in req[q].seen /\ u \in Tokens
      /\ u = req[q2].token \/ u \in req[q2].seen \ req[q2].todo
  BY AwaitedRow
<1>1. t # 0 /\ family[t] = g
  BY DEF Presented, Tokens
<1>2. family[u] = g /\ t < u
  BY <1>1 DEF OrderInv, InTurn, RowsInTurn
<1>3. ~req[q2].changes /\ u = req[q2].token
  <2>1. req[q2].token # 0 => ~req[q2].changes
    BY DEF OrderInv, InTurn, RowsInTurn
  <2>2. u # 0
    BY DEF Tokens
  <2>3. CASE req[q2].changes
    BY <1>2, <2>1, <2>2, <2>3
  <2>4. CASE ~req[q2].changes
    BY <2>4, HeldByOne
  <2> QED BY <2>3, <2>4
<1> QED BY <1>2, <1>3 DEF Presented

LEMMA NoStuckSet ==
    ASSUME OrderInv, NEW S \in SUBSET Requests, S # {}, Stuck(S)
    PROVE  FALSE
<1>1. PICK r \in S : req[r].step = "update"
  BY StuckInUpdate DEF Stuck
\* An UPDATE of the circle, and the session of a row it waits for.
<1>2. ASSUME NEW p \in S, req[p].step = "update", NEW q \in S, NEW t \in req[p].todo,
             req[q].step = "update", t \in req[p].seen, t \in Tokens,
             t = req[q].token \/ t \in req[q].seen \ req[q].todo,
             ~req[q].changes,
             \A c \in S : req[c].step = "update" /\ req[c].changes =>
                \A u \in req[c].seen \ req[c].todo : family[u] # family[t]
      PROVE  FALSE
  <2>1. t = req[q].token
    BY <1>2, HeldByOne
  <2>2. t \in Presented(S, family[t])
    BY <1>2, <2>1 DEF Presented
  <2>3. PICK m \in Presented(S, family[t]) : \A u \in Presented(S, family[t]) : u <= m
    BY <2>2, LastToken DEF Presented
  <2>4. PICK u \in Presented(S, family[t]) : m < u
    BY <1>2, LaterToken
  <2>5. m \in Nat /\ u \in Nat /\ u <= m
    BY <2>3 DEF Presented, Tokens
  <2> QED BY <2>4, <2>5
<1>3. CASE \E p \in S : req[p].step = "update" /\ req[p].changes
  <2> PICK p \in S : req[p].step = "update" /\ req[p].changes
    BY <1>3
  <2>1. PICK q \in S, t \in req[p].todo :
          /\ q # p /\ req[q].step = "update" /\ t \in req[p].seen /\ t \in Tokens
          /\ t = req[q].token \/ t \in req[q].seen \ req[q].todo
    BY AwaitedRow
  <2>2. \A c \in S : req[c].step = "update" /\ req[c].changes => c = p
    BY DEF OrderInv, InTurn, LocksInTurn
  <2>3. \A u \in req[p].seen \ req[p].todo : family[u] # family[t]
    BY <2>1 DEF OrderInv, InTurn, RowsInTurn
  <2> QED BY <1>2, <2>1, <2>2, <2>3
<1>4. CASE ~\E p \in S : req[p].step = "update" /\ req[p].changes
  <2>1. PICK q \in S, t \in req[r].todo :
          /\ q # r /\ req[q].step = "update" /\ t \in req[r].seen /\ t \in Tokens
          /\ t = req[q].token \/ t \in req[q].seen \ req[q].todo
    BY <1>1, AwaitedRow
  <2> QED BY <1>1, <1>2, <1>4, <2>1
<1> QED BY <1>3, <1>4

\* Rotations, replays, logouts and password changes never wait for each other
\* in a circle: the row locks of RefreshService and the users row its callers
\* flush first are always taken in an order that some request can finish in.
THEOREM NoCircleOfWaits == Spec => []NoWaitCycle
<1>1. OrderInv => NoWaitCycle
  <2> SUFFICES ASSUME OrderInv, NEW S \in (SUBSET Requests) \ {{}},
                      ~\E r \in S : \A q \in S : q = r \/ ~WaitsFor(r, q)
               PROVE  FALSE
    BY DEF NoWaitCycle
  <2>1. Stuck(S) /\ S # {}
    BY DEF Stuck
  <2> QED BY <2>1, NoStuckSet
<1> QED BY <1>1, OrderInit, OrderNext, PTL DEF Spec

-----------------------------------------------------------------------------
(* The refinement: Current is the session's usable token. *)

\* t is the usable token of f; f has none.
Usable(f, t) == t \in Tokens /\ state[t] = "active" /\ family[t] = f
Unusable(f)  == \A t \in Tokens : ~Usable(f, t)

LEMMA CurrentToken ==
    OneActivePerFamily =>
      \A f \in Families : /\ \A t \in Tokens : Usable(f, t) => Current[f] = t
                          /\ Unusable(f) => Current[f] = None
<1> SUFFICES ASSUME OneActivePerFamily, NEW f \in Families
             PROVE  /\ \A t \in Tokens : Usable(f, t) => Current[f] = t
                    /\ Unusable(f) => Current[f] = None
  OBVIOUS
<1>1. ASSUME NEW t \in Tokens, Usable(f, t) PROVE Current[f] = t
  <2>1. Active({f}) = {t}
    BY <1>1 DEF Active, Usable, OneActivePerFamily
  <2> QED BY <2>1 DEF Current
<1>2. ASSUME Unusable(f) PROVE Current[f] = None
  <2>1. Active({f}) = {}
    BY <1>2 DEF Active, Unusable, Usable
  <2> QED BY <2>1 DEF Current
<1> QED BY <1>1, <1>2

LEMMA CurrentTokenNext ==
    OneActivePerFamily' =>
      \A f \in Families : /\ \A t \in Tokens : Usable(f, t)' => Current'[f] = t
                          /\ Unusable(f)' => Current'[f] = None
<1> SUFFICES ASSUME OneActivePerFamily', NEW f \in Families
             PROVE  /\ \A t \in Tokens : Usable(f, t)' => Current'[f] = t
                    /\ Unusable(f)' => Current'[f] = None
  OBVIOUS
<1>1. ASSUME NEW t \in Tokens, Usable(f, t)' PROVE Current'[f] = t
  <2>1. Active({f})' = {t}
    BY <1>1 DEF Active, Usable, OneActivePerFamily
  <2> QED BY <2>1 DEF Current
<1>2. ASSUME Unusable(f)' PROVE Current'[f] = None
  <2>1. Active({f})' = {}
    BY <1>2 DEF Active, Unusable, Usable
  <2> QED BY <2>1 DEF Current
<1> QED BY <1>1, <1>2

LEMMA CurrentShape == Current = [f \in Families |-> Current[f]]
BY DEF Current

LEMMA CurrentShapeNext == Current' = [f \in Families |-> Current'[f]]
BY DEF Current

LEMMA RefineInit == Init => Sessions!Init
<1> SUFFICES ASSUME Init PROVE Sessions!Init
  OBVIOUS
<1>1. \A f \in Families : Current[f] = None
  BY CurrentToken DEF Init, OneActivePerFamily, Unusable, Usable
<1>2. Started = {}
  BY DEF Init, Started
<1> QED BY <1>1, <1>2, CurrentShape DEF Sessions!Init

LEMMA RefineIssue ==
    ASSUME IInv, IInv', NEW r \in Requests, Issue(r)
    PROVE  \E f \in Families : Sessions!Login(f)
<1> PICK f \in Families \ Started :
      /\ issued' = issued + 1 /\ issued' \in Tokens
      /\ family'[issued'] = f /\ state'[issued'] = "active"
      /\ \A t \in Tokens : t # issued' => family'[t] = family[t] /\ state'[t] = state[t]
  BY IssueFacts
<1>1. Started' = Started \cup {f}
  <2>1. issued \in Nat /\ \A t \in 1..issued : t \in Tokens /\ t # issued'
    BY TokenBounds DEF IInv, TypeOK, Tokens
  <2>2. 1..issued' = (1..issued) \cup {issued'}
    BY <2>1
  <2> QED BY <2>1, <2>2 DEF Started
<1>2. OneActivePerFamily /\ OneActivePerFamily' /\ state[issued'] # "active"
  BY DEF IInv, TypeOK, Tokens
<1>3. Current'[f] = issued'
  BY <1>2, CurrentTokenNext DEF Usable
<1>4. ASSUME NEW g \in Families \ {f} PROVE Current'[g] = Current[g]
  <2>1. \A t \in Tokens : Usable(g, t)' <=> Usable(g, t)
    BY <1>2 DEF Usable
  <2> QED BY <1>2, <2>1, CurrentToken, CurrentTokenNext DEF Unusable
<1>5. Current' = [Current EXCEPT ![f] = issued']
  BY <1>3, <1>4, CurrentShape, CurrentShapeNext
<1> QED BY <1>1, <1>5 DEF Sessions!Login

LEMMA RefineMint ==
    ASSUME IInv, IInv', NEW r \in Requests, Mint(r)
    PROVE  \E f \in Families : Sessions!Refresh(f)
<1> PICK t0 \in 1..issued :
      /\ t0 \in Tokens /\ state[t0] = "active" /\ state'[t0] = "rotated"
      /\ family[t0] \in Families
      /\ issued' = issued + 1 /\ issued' \in Tokens
      /\ family'[issued'] = family[t0] /\ state'[issued'] = "active"
      /\ \A t \in Tokens : t # issued' => family'[t] = family[t]
      /\ \A t \in Tokens : t # issued' /\ t # t0 => state'[t] = state[t]
  BY MintFacts
<1> DEFINE f == family[t0]
<1>1. OneActivePerFamily /\ OneActivePerFamily' /\ state[issued'] # "active"
  BY DEF IInv, TypeOK, Tokens
<1>2. Current[f] = t0 /\ Current'[f] = issued' /\ t0 # issued'
  BY <1>1, CurrentToken, CurrentTokenNext DEF Usable
<1>3. ASSUME NEW g \in Families \ {f} PROVE Current'[g] = Current[g]
  <2>1. \A t \in Tokens : Usable(g, t)' <=> Usable(g, t)
    BY <1>1 DEF Usable
  <2> QED BY <1>1, <2>1, CurrentToken, CurrentTokenNext DEF Unusable
<1>4. Current' = [Current EXCEPT ![f] = issued']
  BY <1>2, <1>3, CurrentShape, CurrentShapeNext
<1>5. Started' = Started
  <2>1. issued \in Nat /\ \A t \in 1..issued : t \in Tokens /\ t # issued'
    BY TokenBounds DEF IInv, TypeOK, Tokens
  <2>2. 1..issued' = (1..issued) \cup {issued'}
    BY <2>1
  <2> QED BY <2>1, <2>2 DEF Started
<1>6. t0 # None
  BY NoneIsNew DEF Tokens
<1> HIDE DEF f
<1>7. f \in Families
  BY DEF f
<1> QED BY <1>2, <1>4, <1>5, <1>6, <1>7 DEF Sessions!Refresh

LEMMA RefineEnding ==
    ASSUME IInv, IInv', NEW r \in Requests, CommitEnding(r)
    PROVE  \E S \in SUBSET Families : Sessions!End(S)
<1> DEFINE S == {f \in Families : Unusable(f)'}
<1>1. /\ OneActivePerFamily /\ OneActivePerFamily'
      /\ UNCHANGED <<issued, family>>
      /\ \A t \in Tokens : state'[t] = state[t] \/ state'[t] # "active"
  BY EndingFacts DEF IInv
<1>2. \A f \in S : Current'[f] = None
  BY <1>1, CurrentTokenNext
<1>3. ASSUME NEW f \in Families \ S PROVE Current'[f] = Current[f]
  <2> PICK t \in Tokens : Usable(f, t)'
    BY DEF Unusable
  <2>1. Usable(f, t)
    BY <1>1 DEF Usable
  <2> QED BY <1>1, <2>1, CurrentToken, CurrentTokenNext
<1>4. Started' = Started
  BY <1>1 DEF Started
<1> HIDE DEF S
<1>5. Current' = [f \in Families |-> IF f \in S THEN None ELSE Current[f]]
  BY <1>2, <1>3, CurrentShapeNext
<1>6. S \in SUBSET Families
  BY DEF S
<1> QED BY <1>4, <1>5, <1>6 DEF Sessions!End

LEMMA RefineKept ==
    ASSUME UNCHANGED <<issued, family, state>>
    PROVE  UNCHANGED <<Current, Started>>
BY DEF Current, Active, Started

\* The database transactions implement the session's promise: every commit is
\* one step of SessionFamily, every other step none of it.
THEOREM FamilyRefinement == Spec => ImplementsFamily
<1>1. IInv /\ [Next]_vars => IInv'
  BY IInvNext
<1>2. IInv /\ IInv' /\ [Next]_vars => [Sessions!Next]_(Sessions!vars)
  <2> SUFFICES ASSUME IInv, IInv', [Next]_vars
               PROVE  Sessions!Next \/ UNCHANGED <<Current, Started>>
    BY DEF Sessions!vars
  <2>1. CASE UNCHANGED vars
    BY <2>1, RefineKept DEF vars, tokenVars
  <2>2. ASSUME NEW t \in Tokens, GraceEnds(t) PROVE UNCHANGED <<Current, Started>>
    BY <2>2, RefineKept DEF GraceEnds
  <2>3. ASSUME NEW r \in Requests, Step(r)
        PROVE  Sessions!Next \/ UNCHANGED <<Current, Started>>
    <3>1. CASE TokensKept(r)
      BY <3>1, RefineKept DEF TokensKept
    <3> QED BY <2>3, <3>1, RefineIssue, RefineMint, RefineEnding, OtherStepsKeepTokens
            DEF Sessions!Next
  <2> QED BY <2>1, <2>2, <2>3 DEF Next
<1> QED BY <1>1, <1>2, TypeInit, RefineInit, PTL DEF Spec, ImplementsFamily, Sessions!Spec

(***************************************************************************)
(*                           BrowserSession                                *)
(***************************************************************************)
(***************************************************************************)
(* The inductive invariant.                                                *)
(***************************************************************************)
Status(k)  == server[k].status
Used(k)    == Status(k) # "unused"
Over(k)    == ActiveOf(SessionOf(k)) = {}     \* the session of k is over

\* Every token that is named was issued, and so was the first of its session.
Issued ==
    /\ \A k \in Token : Used(k) => SessionOf(k) \in Token /\ Used(SessionOf(k))
    /\ jar # Nothing => Used(jar)
    /\ \A p \in post : /\ p.token # Nothing => Used(p.token)
                       /\ p.reply = "ok" => p.fresh \in Token /\ Used(p.fresh)

\* Who is refused presented a session that is over.
RefusedWhenOver ==
    \A p \in post : p.reply = "refused" /\ p.token # Nothing => Over(p.token)

\* One request at a time: its tab holds the lock while it waits for it, and a
\* stamp is left when the document is replaced.
OneAtATime ==
    /\ \A t \in Tab : At(t, "wait") \/ At(t, "sent") => lock = t
    /\ \A p, q \in post : p = q
    /\ \A p \in post :
         \/ p.to = "tab" /\ At(p.tab, "sent") /\ tab[p.tab].stamp = "own"
         \/ /\ p.to = "browser" /\ tab[p.tab].stamp = "dead" /\ tab[p.tab].access = Nothing
            /\ lock \in {Nothing, p.tab}

\* The cookie was not rotated away, but by the one request whose answer is to
\* replace it.
OneRotation ==
    /\ jar # Nothing /\ Status(jar) = "rotated" => \E p \in post : p.reply = "ok"
    /\ \A p \in post : /\ p.reply # "conflict"
                       /\ p.reply = "none" /\ p.token # Nothing => Status(p.token) # "rotated"
                       /\ p.reply = "ok" => Status(p.fresh) # "rotated"

\* A successor is known to the one answer that brings it.
OneBearer ==
    \A p \in post : p.reply = "ok" =>
        /\ p.to # "nobody" /\ p.fresh # jar
        /\ \A q \in post : q.token # p.fresh /\ (q.reply = "ok" /\ q.fresh = p.fresh => q = p)

\* What a jar holds, or a request that is still to be served, is good, or will be
\* replaced, or its session is over: none presents a dead token of a live session.
NoneStale ==
    /\ \A k \in Token : Status(k) # "breached"
    /\ jar # Nothing =>
         /\ Status(jar) = "rotated" => Over(jar) \/ \E p \in post : p.reply = "ok" /\ p.token = jar
         /\ Status(jar) = "dead" => Over(jar)
    /\ \A p \in post :
         /\ p.reply = "none" /\ p.token # Nothing /\ Status(p.token) = "dead" => Over(p.token)
         /\ p.reply = "ok" => Status(p.fresh) = "active" \/ Over(p.fresh)

Channel == ~history.mishap /\ ~history.handover => OneAtATime /\ OneRotation
Kept    == ~history.late => OneBearer /\ NoneStale

BrowserInv == BrowserTypeOK /\ Issued /\ RefusedWhenOver /\ Channel /\ Kept

(***************************************************************************)
(* Records.                                                                *)
(***************************************************************************)
LEMMA PostMoves ==
    ASSUME NEW p \in RefreshRequest
    PROVE  /\ \A to \in {"tab", "browser", "nobody"} :
                LET q == [p EXCEPT !.to = to] IN
                /\ q \in RefreshRequest /\ q.to = to /\ q.tab = p.tab /\ q.token = p.token
                /\ q.reply = p.reply /\ q.fresh = p.fresh
           /\ \A reply \in {"ok", "conflict", "refused"}, fresh \in Token \cup {Nothing} :
                LET q == [p EXCEPT !.reply = reply, !.fresh = fresh] IN
                /\ q \in RefreshRequest /\ q.to = p.to /\ q.tab = p.tab /\ q.token = p.token
                /\ q.reply = reply /\ q.fresh = fresh
BY DEF RefreshRequest

LEMMA TabMoves ==
    ASSUME NEW rec \in TabRecord, NEW pc \in {"idle", "lock", "wait", "sent"},
           NEW n \in 0 .. MaxAttempt, NEW access \in Token \cup {Nothing},
           NEW page \in {"open", "login"}, NEW stamp \in {"none", "own", "dead"}
    PROVE  /\ [rec EXCEPT !.pc = pc] \in TabRecord
           /\ [rec EXCEPT !.stamp = stamp] \in TabRecord
           /\ [rec EXCEPT !.access = access] \in TabRecord
           /\ [rec EXCEPT !.pc = pc, !.attempt = n] \in TabRecord
           /\ [rec EXCEPT !.pc = pc, !.stamp = stamp] \in TabRecord
           /\ [rec EXCEPT !.pc = pc, !.attempt = n, !.access = access, !.page = page] \in TabRecord
           /\ [rec EXCEPT !.pc = pc, !.attempt = n, !.access = access, !.page = page,
                          !.stamp = stamp] \in TabRecord
BY DEF TabRecord

LEMMA TabTakes ==
    ASSUME BrowserTypeOK, NEW t \in Tab, NEW rec \in TabRecord, Becomes(t, rec)
    PROVE  /\ tab' \in [Tab -> TabRecord] /\ tab'[t] = rec
           /\ \A u \in Tab \ {t} : tab'[u] = tab[u]
BY DEF BrowserTypeOK, Becomes

LEMMA HistoryTyped ==
    ASSUME BrowserTypeOK
    PROVE  /\ \A holds \in BOOLEAN :
                /\ Notes("mishap", holds) => /\ history' \in History
                                             /\ history'.mishap = (history.mishap \/ holds)
                                             /\ history'.handover = history.handover
                                             /\ history'.late = history.late
                /\ Notes("handover", holds) => /\ history' \in History
                                               /\ history'.handover = (history.handover \/ holds)
                                               /\ history'.mishap = history.mishap
                                               /\ history'.late = history.late
                /\ Notes("late", holds) => /\ history' \in History
                                           /\ history'.late = (history.late \/ holds)
                                           /\ history'.mishap = history.mishap
                                           /\ history'.handover = history.handover
           /\ history \in History
           /\ history.mishap \in BOOLEAN /\ history.handover \in BOOLEAN /\ history.late \in BOOLEAN
BY DEF BrowserTypeOK, History, Notes

LEMMA ServerTyped ==
    ASSUME BrowserTypeOK, NEW k \in Token
    PROVE  /\ server[k] \in Row /\ SessionOf(k) \in Token \cup {Nothing}
           /\ Status(k) \in {"unused", "active", "rotated", "dead", "breached"}
           /\ server[k] = [status |-> Status(k), session |-> SessionOf(k)]
BY DEF BrowserTypeOK, Row, SessionOf, Status

(***************************************************************************)
(* The refresh endpoint: issued tokens keep their session, and a session   *)
(* that is over stays over.                                                *)
(***************************************************************************)
ServerAges ==
    /\ server' \in [Token -> Row]
    /\ \A k \in Token : Used(k)' => \E s \in Token : SessionOf(k)' = s /\ Used(s)'
    /\ \A k \in Token : Used(k) => /\ Used(k)' /\ SessionOf(k)' = SessionOf(k)
                                   /\ Status(k)' = "active" => Status(k) = "active"
                                   /\ Over(k) => Over(k)'

LEMMA SameServer == BrowserTypeOK /\ Issued /\ UNCHANGED server => ServerAges
BY DEF BrowserTypeOK, Issued, ServerAges, Used, Status, SessionOf, Over, ActiveOf

\* Tokens of one state that are ended.
LEMMA EndedAges ==
    ASSUME BrowserTypeOK, Issued, NEW live \in SUBSET Token, \A k \in live : Used(k),
           NEW status \in {"dead", "breached"}, Ended(live, status)
    PROVE  /\ ServerAges
           /\ \A k \in Token : /\ SessionOf(k)' = SessionOf(k)
                               /\ Status(k)' = IF k \in live THEN status ELSE Status(k)
<1>1. ASSUME NEW k \in Token
      PROVE  /\ server'[k] \in Row /\ server'[k].session = server[k].session
             /\ server'[k].status = IF k \in live THEN status ELSE server[k].status
  <2>1. server[k] \in Row
    BY ServerTyped
  <2>2. server'[k] = IF k \in live THEN [server[k] EXCEPT !.status = status] ELSE server[k]
    BY DEF Ended
  <2> QED BY <2>1, <2>2 DEF Row
<1>2. server' \in [Token -> Row]
  BY <1>1 DEF Ended
<1>3. \A k \in Token : /\ SessionOf(k)' = SessionOf(k)
                       /\ Status(k)' = IF k \in live THEN status ELSE Status(k)
  BY <1>1 DEF SessionOf, Status
<1>4. \A k \in Token : /\ Used(k)' <=> Used(k)
                       /\ Status(k)' = "active" => Status(k) = "active"
  BY <1>3 DEF Used
<1>5. \A k \in Token : Over(k) => Over(k)'
  BY <1>3, <1>4 DEF Over, ActiveOf, Status, SessionOf
<1>6. \A k \in Token : Used(k)' => \E s \in Token : SessionOf(k)' = s /\ Used(s)'
  BY <1>3, <1>4 DEF Issued
<1> QED BY <1>2, <1>3, <1>4, <1>5, <1>6 DEF ServerAges

\* A rotation: the successor takes the place of the token that was presented.
LEMMA RotateFacts ==
    ASSUME BrowserTypeOK, Issued, NEW p \in post, p.token \in Token, Status(p.token) = "active", Rotate(p)
    PROVE  /\ ServerAges
           /\ \E k \in Token :
                /\ k # p.token /\ ~Used(k) /\ Used(k)'
                /\ Status(k)' = "active" /\ SessionOf(k)' = SessionOf(p.token)
                /\ Status(p.token)' = "rotated"
                /\ \A j \in Token \ {k, p.token} : Status(j)' = Status(j)
                /\ \A j \in Token \ {k} : SessionOf(j)' = SessionOf(j)
                /\ Answered(p, "ok", k) /\ Notes("late", p.to = "nobody")
<1> DEFINE t0 == p.token
<1> PICK k \in Fresh :
      /\ server' = [server EXCEPT ![t0].status = "rotated",
                                  ![k] = [status |-> "active", session |-> server[t0].session]]
      /\ Answered(p, "ok", k) /\ Notes("late", p.to = "nobody")
  BY DEF Rotate
<1>1. k \in Token /\ ~Used(k) /\ t0 \in Token /\ k # t0 /\ Used(t0)
  BY DEF Fresh, Used, Status
<1>2. server[t0] \in Row /\ server[t0].session \in Token \cup {Nothing}
  BY <1>1, ServerTyped DEF SessionOf
<1>3. /\ server'[k] = [status |-> "active", session |-> server[t0].session]
      /\ server'[t0] = [server[t0] EXCEPT !.status = "rotated"]
      /\ \A j \in Token \ {k, t0} : server'[j] = server[j]
      /\ DOMAIN server' = Token
  BY <1>1 DEF BrowserTypeOK
<1>4. server'[k] \in Row /\ server'[t0] \in Row /\ server'[t0].session = server[t0].session
      /\ server'[t0].status = "rotated"
  BY <1>2, <1>3 DEF Row
<1>5. server' \in [Token -> Row]
  <2>1. \A j \in Token : server'[j] \in Row
    BY <1>3, <1>4 DEF BrowserTypeOK
  <2>2. server' = [j \in Token |-> server'[j]]
    <3>1. server' = [j \in DOMAIN server' |-> server'[j]]
      BY <1>1 DEF BrowserTypeOK
    <3> QED BY <1>3, <3>1
  <2> QED BY <2>1, <2>2
<1>6. /\ Status(k)' = "active" /\ SessionOf(k)' = SessionOf(t0) /\ Status(t0)' = "rotated"
      /\ \A j \in Token \ {k, t0} : Status(j)' = Status(j)
      /\ \A j \in Token \ {k} : SessionOf(j)' = SessionOf(j)
  <2>1. Status(k)' = "active" /\ SessionOf(k)' = SessionOf(t0)
    BY <1>3 DEF Status, SessionOf
  <2>2. Status(t0)' = "rotated" /\ SessionOf(t0)' = SessionOf(t0)
    BY <1>4 DEF Status, SessionOf
  <2>3. \A j \in Token \ {k, t0} : Status(j)' = Status(j) /\ SessionOf(j)' = SessionOf(j)
    BY <1>3 DEF Status, SessionOf
  <2> QED BY <1>1, <2>1, <2>2, <2>3
<1>7. /\ Used(k)' /\ Used(t0)'
      /\ \A j \in Token \ {k, t0} : Used(j)' <=> Used(j)
  BY <1>6 DEF Used
<1>8. ASSUME NEW j \in Token, Used(j)'
      PROVE  \E s \in Token : SessionOf(j)' = s /\ Used(s)'
  <2>1. \E i \in Token : Used(i) /\ SessionOf(j)' = SessionOf(i)
    BY <1>1, <1>6, <1>7, <1>8
  <2> QED BY <1>1, <1>7, <2>1 DEF Issued
<1>9. ASSUME NEW j \in Token, Used(j), Over(j)
      PROVE  Over(j)'
  <2>1. j # k /\ SessionOf(j)' = SessionOf(j)
    BY <1>1, <1>6, <1>9
  <2>2. SessionOf(t0) # SessionOf(j)
    BY <1>1, <1>9 DEF Over, ActiveOf, SessionOf, Status
  <2>3. ASSUME NEW i \in Token, Status(i)' = "active", SessionOf(i)' = SessionOf(j) PROVE FALSE
    <3>1. i # k /\ i # t0
      BY <1>1, <1>6, <2>2, <2>3
    <3>2. Status(i) = "active" /\ SessionOf(i) = SessionOf(j)
      BY <1>6, <2>3, <3>1
    <3> QED BY <1>9, <3>2 DEF Over, ActiveOf, SessionOf, Status
  <2> QED BY <2>1, <2>3 DEF Over, ActiveOf, SessionOf, Status
<1>10. \A j \in Token : Used(j) => /\ Used(j)' /\ SessionOf(j)' = SessionOf(j)
                                   /\ Status(j)' = "active" => Status(j) = "active"
  BY <1>1, <1>6, <1>7
<1>11. ServerAges
  BY <1>5, <1>8, <1>9, <1>10 DEF ServerAges
<1> QED BY <1>1, <1>6, <1>7, <1>11

LEMMA WindowEndsFacts ==
    ASSUME BrowserTypeOK, Issued, NEW k \in Token, WindowEnds(k)
    PROVE  /\ ServerAges /\ Status(k) = "rotated" /\ Status(k)' = "dead"
           /\ \A j \in Token \ {k} : Status(j)' = Status(j)
           /\ \A j \in Token : SessionOf(j)' = SessionOf(j)
<1>1. Ended({k}, "dead")
  BY DEF WindowEnds, Ended, BrowserTypeOK
<1>2. Status(k) = "rotated" /\ Used(k)
  BY DEF WindowEnds, Status, Used
<1>3. {k} \in SUBSET Token /\ \A j \in {k} : Used(j)
  BY <1>2
<1> QED BY <1>1, <1>2, <1>3, EndedAges

LEMMA LoginFacts ==
    ASSUME BrowserTypeOK, Issued, NEW t \in Tab, Login(t)
    PROVE  /\ ServerAges
           /\ \E k \in Token : /\ ~Used(k) /\ Used(k)' /\ jar' = k /\ Status(k)' = "active"
                               /\ \A j \in Token \ {k} : Status(j)' = Status(j)
<1> PICK k \in Fresh : /\ server' = [server EXCEPT ![k] = [status |-> "active", session |-> k]]
                       /\ jar' = k
  BY DEF Login
<1>1. k \in Token /\ ~Used(k)
  BY DEF Fresh, Used, Status
<1>2. /\ server' \in [Token -> Row] /\ server'[k] = [status |-> "active", session |-> k]
      /\ \A j \in Token \ {k} : server'[j] = server[j]
  BY <1>1 DEF BrowserTypeOK, Row
<1>3. /\ Status(k)' = "active" /\ SessionOf(k)' = k
      /\ \A j \in Token \ {k} : Status(j)' = Status(j) /\ SessionOf(j)' = SessionOf(j)
  BY <1>2 DEF Status, SessionOf
<1>4. Used(k)' /\ \A j \in Token \ {k} : Used(j)' <=> Used(j)
  BY <1>3 DEF Used
<1>5. \A j \in Token : Used(j)' => \E s \in Token : SessionOf(j)' = s /\ Used(s)'
  BY <1>1, <1>3, <1>4 DEF Issued
<1>6. ASSUME NEW j \in Token, Used(j), Over(j) PROVE Over(j)'
  <2>1. j # k /\ SessionOf(j)' = SessionOf(j) /\ SessionOf(j) # k
    BY <1>1, <1>3, <1>6 DEF Issued
  <2>2. ASSUME NEW i \in Token, Status(i)' = "active", SessionOf(i)' = SessionOf(j) PROVE FALSE
    BY <1>3, <1>6, <2>1, <2>2 DEF Over, ActiveOf, SessionOf, Status
  <2> QED BY <2>1, <2>2 DEF Over, ActiveOf, SessionOf, Status
<1>7. ServerAges
  BY <1>1, <1>2, <1>3, <1>4, <1>5, <1>6 DEF ServerAges
<1> QED BY <1>1, <1>3, <1>4, <1>7

(***************************************************************************)
(* The channel alone: the jar, the server and the requests stay.           *)
(***************************************************************************)
LEMMA PostTyped ==
    ASSUME BrowserTypeOK, NEW p \in post
    PROVE  /\ p \in RefreshRequest /\ p.tab \in Tab /\ p.token \in Token \cup {Nothing}
           /\ p.to \in {"tab", "browser", "nobody"}
           /\ p.reply \in {"none", "ok", "conflict", "refused"} /\ p.fresh \in Token \cup {Nothing}
BY DEF BrowserTypeOK, RefreshRequest

LEMMA TabTyped ==
    ASSUME BrowserTypeOK, NEW t \in Tab
    PROVE  /\ tab[t] \in TabRecord /\ tab[t].pc \in {"idle", "lock", "wait", "sent"}
           /\ tab[t].attempt \in 0 .. MaxAttempt /\ tab[t].access \in Token \cup {Nothing}
           /\ tab[t].page \in {"open", "login"} /\ tab[t].stamp \in {"none", "own", "dead"}
BY DEF BrowserTypeOK, TabRecord

\* A holder of the lock waits or gives it up, and t is a tab, not Nothing.
LEMMA NoTabIsNothing == Nothing \notin Tab /\ Nothing \notin Token /\ 0 \in 0 .. MaxAttempt
BY BrowserAssumption DEF Token

LEMMA Beside ==
    ASSUME BrowserInv, UNCHANGED <<jar, server, post>>,
           history' \in History, history'.late = history.late,
           history.mishap => history'.mishap, history.handover => history'.handover,
           tab' \in [Tab -> TabRecord], lock' \in Tab \cup {Nothing},
           ~history'.mishap /\ ~history'.handover => (OneAtATime => OneAtATime')
    PROVE  BrowserInv'
<1>1. BrowserTypeOK'
  BY DEF BrowserInv, BrowserTypeOK
<1>2. Issued' /\ RefusedWhenOver'
  BY DEF BrowserInv, Issued, RefusedWhenOver, Used, Over, ActiveOf, Status, SessionOf
<1>3. OneRotation => OneRotation'
  BY DEF OneRotation, Status
<1>4. OneBearer /\ NoneStale => OneBearer' /\ NoneStale'
  BY DEF OneBearer, NoneStale, Over, ActiveOf, Status, SessionOf
<1>5. Channel'
  BY <1>3 DEF BrowserInv, Channel
<1>6. Kept'
  BY <1>4 DEF BrowserInv, Kept
<1> QED BY <1>1, <1>2, <1>5, <1>6 DEF BrowserInv

LEMMA StartKeeps == ASSUME BrowserInv, NEW t \in Tab, Start(t) PROVE BrowserInv'
<1> DEFINE rec == [tab[t] EXCEPT !.pc = "lock", !.attempt = 0]
<1>1. /\ rec \in TabRecord /\ rec.pc = "lock" /\ rec.stamp = tab[t].stamp
      /\ rec.access = tab[t].access
  BY TabTyped, NoTabIsNothing DEF BrowserInv, TabRecord
<1>2. tab' \in [Tab -> TabRecord] /\ tab'[t] = rec /\ \A u \in Tab \ {t} : tab'[u] = tab[u]
  <2> HIDE DEF rec
  <2> QED BY <1>1, TabTakes DEF BrowserInv, Start, rec
<1> HIDE DEF rec
<1>3. OneAtATime => OneAtATime'
  <2> SUFFICES ASSUME OneAtATime PROVE OneAtATime'
    OBVIOUS
  <2>1. \A u \in Tab : At(u, "wait")' \/ At(u, "sent")' => lock' = u
    BY <1>1, <1>2 DEF Start, At, OneAtATime
  <2>2. ASSUME NEW p \in post
        PROVE  \/ p.to = "tab" /\ At(p.tab, "sent")' /\ tab'[p.tab].stamp = "own"
               \/ /\ p.to = "browser" /\ tab'[p.tab].stamp = "dead" /\ tab'[p.tab].access = Nothing
                  /\ lock' \in {Nothing, p.tab}
    <3>1. p.tab \in Tab
      BY PostTyped DEF BrowserInv
    <3> QED BY <1>1, <1>2, <3>1 DEF Start, At, OneAtATime
  <2> QED BY <2>1, <2>2 DEF OneAtATime, Start
<1> QED BY <1>2, <1>3, Beside DEF BrowserInv, BrowserTypeOK, Start

LEMMA GrantKeeps == ASSUME BrowserInv, NEW t \in Tab, Grant(t) PROVE BrowserInv'
<1> DEFINE rec == [tab[t] EXCEPT !.pc = "wait"]
<1>1. /\ rec \in TabRecord /\ rec.pc = "wait" /\ rec.stamp = tab[t].stamp
      /\ rec.access = tab[t].access
  BY TabTyped DEF BrowserInv, TabRecord
<1>2. tab' \in [Tab -> TabRecord] /\ tab'[t] = rec /\ \A u \in Tab \ {t} : tab'[u] = tab[u]
  <2> HIDE DEF rec
  <2> QED BY <1>1, TabTakes DEF BrowserInv, Grant, rec
<1> HIDE DEF rec
<1>3. /\ history' \in History /\ history'.late = history.late
      /\ history'.mishap = history.mishap
      /\ history'.handover = (history.handover \/ (~history.mishap /\ \E p \in Orphans : p.tab # t))
  BY HistoryTyped DEF BrowserInv, Grant
<1>4. ASSUME ~history'.mishap, ~history'.handover, OneAtATime PROVE OneAtATime'
  <2>1. \A u \in Tab : At(u, "wait")' \/ At(u, "sent")' => lock' = u
    BY <1>1, <1>2, <1>4, NoTabIsNothing DEF Grant, At, OneAtATime
  <2>2. ASSUME NEW p \in post
        PROVE  /\ p.to = "browser" /\ tab'[p.tab].stamp = "dead" /\ tab'[p.tab].access = Nothing
               /\ lock' \in {Nothing, p.tab}
    <3>1. p.tab \in Tab
      BY PostTyped DEF BrowserInv
    <3>2. p.to = "browser" /\ tab[p.tab].stamp = "dead" /\ tab[p.tab].access = Nothing
      BY <1>4, <3>1, NoTabIsNothing DEF Grant, OneAtATime
    <3>3. p.tab = t
      BY <1>3, <1>4, <3>2 DEF Orphans
    <3> QED BY <1>1, <1>2, <3>2, <3>3 DEF Grant
  <2> QED BY <1>4, <2>1, <2>2 DEF OneAtATime, Grant
<1> QED BY <1>2, <1>3, <1>4, Beside DEF Grant

LEMMA PassLockKeeps == ASSUME BrowserInv, NEW t \in Tab, PassLock(t) PROVE BrowserInv'
<1> DEFINE rec == [tab[t] EXCEPT !.pc = "wait"]
<1>1. rec \in TabRecord
  BY TabTyped DEF BrowserInv, TabRecord
<1>2. tab' \in [Tab -> TabRecord]
  <2> HIDE DEF rec
  <2> QED BY <1>1, TabTakes DEF BrowserInv, PassLock, rec
<1>3. /\ history' \in History /\ history'.late = history.late /\ history'.mishap
      /\ history'.handover = history.handover
  BY HistoryTyped DEF BrowserInv, PassLock
<1> QED BY <1>2, <1>3, Beside DEF BrowserInv, BrowserTypeOK, PassLock

LEMMA AgeOutKeeps == ASSUME BrowserInv, NEW t \in Tab, AgeOut(t) PROVE BrowserInv'
<1> DEFINE rec == [tab[t] EXCEPT !.stamp = "none"]
<1>1. rec \in TabRecord /\ rec.pc = tab[t].pc /\ rec.access = tab[t].access
  BY TabTyped DEF BrowserInv, TabRecord
<1>2. tab' \in [Tab -> TabRecord] /\ tab'[t] = rec /\ \A u \in Tab \ {t} : tab'[u] = tab[u]
  <2> HIDE DEF rec
  <2> QED BY <1>1, TabTakes DEF BrowserInv, AgeOut, rec
<1> HIDE DEF rec
<1>3. /\ history' \in History /\ history'.late = history.late
      /\ history'.mishap = (history.mishap \/ \E p \in post : p.tab = t)
      /\ history'.handover = history.handover
  BY HistoryTyped DEF BrowserInv, AgeOut
<1>4. ASSUME ~history'.mishap, OneAtATime PROVE OneAtATime'
  <2>1. \A u \in Tab : At(u, "wait")' \/ At(u, "sent")' => lock' = u
    BY <1>1, <1>2, <1>4 DEF AgeOut, At, OneAtATime
  <2>2. \A p \in post : p.tab \in Tab \ {t}
    BY <1>3, <1>4, PostTyped DEF BrowserInv
  <2> QED BY <1>2, <1>4, <2>1, <2>2 DEF OneAtATime, AgeOut, At
<1> QED BY <1>2, <1>3, <1>4, Beside DEF BrowserInv, BrowserTypeOK, AgeOut

(***************************************************************************)
(* Requests that leave: sent, cut off, dropped.                            *)
(***************************************************************************)
LEMMA SendKeeps == ASSUME BrowserInv, NEW t \in Tab, Send(t) PROVE BrowserInv'
<1> DEFINE rec == [tab[t] EXCEPT !.pc = "sent", !.stamp = "own"]
           new == [tab |-> t, token |-> jar, to |-> "tab", reply |-> "none", fresh |-> Nothing]
<1>1. rec \in TabRecord /\ rec.pc = "sent" /\ rec.stamp = "own"
  BY TabTyped DEF BrowserInv, TabRecord
<1>2. tab' \in [Tab -> TabRecord] /\ tab'[t] = rec /\ \A u \in Tab \ {t} : tab'[u] = tab[u]
  <2> HIDE DEF rec
  <2> QED BY <1>1, TabTakes DEF BrowserInv, Send, rec
<1> HIDE DEF rec
<1>3. /\ new \in RefreshRequest /\ new.tab = t /\ new.token = jar /\ new.to = "tab"
      /\ new.reply = "none"
  BY DEF BrowserInv, BrowserTypeOK, RefreshRequest
<1>4. post' = post \cup {new} /\ UNCHANGED <<jar, server, lock, history>>
  BY DEF Send
<1> HIDE DEF new
<1>5. BrowserTypeOK'
  BY <1>2, <1>3, <1>4 DEF BrowserInv, BrowserTypeOK
<1>6. \A k : (Used(k)' <=> Used(k)) /\ Status(k)' = Status(k) /\ (Over(k)' <=> Over(k))
  BY <1>4 DEF Used, Status, Over, ActiveOf, SessionOf
<1>7. Issued'
  BY <1>3, <1>4, <1>6 DEF BrowserInv, Issued, Used, Status, SessionOf
<1>8. RefusedWhenOver'
  BY <1>3, <1>4, <1>6 DEF BrowserInv, RefusedWhenOver
<1>9. Channel'
  <2> SUFFICES ASSUME OneAtATime, OneRotation PROVE OneAtATime' /\ OneRotation'
    BY <1>4 DEF BrowserInv, Channel
  <2>1. lock = t
    BY DEF Send, OneAtATime
  <2>2. ASSUME NEW p \in post PROVE FALSE
    <3>1. CASE p.to = "tab" /\ At(p.tab, "sent") /\ tab[p.tab].stamp = "own"
      <4>1. p.tab = lock
        BY <3>1, PostTyped DEF BrowserInv, OneAtATime
      <4> QED BY <2>1, <3>1, <4>1 DEF Send, At
    <3>2. CASE tab[p.tab].stamp = "dead" /\ lock \in {Nothing, p.tab}
      <4>1. p.tab = t
        BY <2>1, <3>2, NoTabIsNothing
      <4> QED BY <3>2, <4>1 DEF Send, MaySend
    <3> QED BY <3>1, <3>2 DEF OneAtATime
  <2>3. post' = {new}
    BY <1>4, <2>2
  <2>4. OneAtATime'
    BY <1>1, <1>2, <1>3, <1>4, <2>1, <2>3 DEF OneAtATime, At, Send
  <2>5. jar # Nothing => Status(jar) # "rotated"
    BY <2>2 DEF OneRotation
  <2>6. OneRotation'
    BY <1>3, <1>4, <1>6, <2>3, <2>5 DEF OneRotation
  <2> QED BY <2>4, <2>6
<1>10. Kept'
  <2> SUFFICES ASSUME OneBearer, NoneStale PROVE OneBearer' /\ NoneStale'
    BY <1>4 DEF BrowserInv, Kept
  <2>1. OneBearer'
    BY <1>3, <1>4 DEF OneBearer
  <2>2. NoneStale'
    BY <1>3, <1>4, <1>6 DEF NoneStale
  <2> QED BY <2>1, <2>2
<1> QED BY <1>5, <1>7, <1>8, <1>9, <1>10 DEF BrowserInv

\* No answer is heard: a mishap, and a loss when there was one.
LEMMA UnheardKeeps ==
    ASSUME BrowserInv, NEW p \in post, Unheard(p), tab' \in [Tab -> TabRecord], lock' \in Tab \cup {Nothing}
    PROVE  BrowserInv'
<1> PICK left \in {{}, {[p EXCEPT !.to = "nobody"]}} :
      /\ left # {} => p.reply = "none"
      /\ post' = (post \ {p}) \cup left
  BY DEF Unheard
<1>1. /\ jar' = jar /\ server' = server
      /\ history' \in History /\ history'.mishap
      /\ history'.late = (history.late \/ p.reply = "ok")
  BY DEF Unheard, BrowserInv, BrowserTypeOK, History
<1>2. \A q \in left : /\ q \in RefreshRequest /\ q.to = "nobody" /\ q.tab = p.tab /\ q.token = p.token
                      /\ q.reply = "none"
  <2>1. p \in RefreshRequest
    BY PostTyped DEF BrowserInv
  <2>2. "nobody" \in {"tab", "browser", "nobody"}
    OBVIOUS
  <2> DEFINE n == [p EXCEPT !.to = "nobody"]
  <2>3. n \in RefreshRequest /\ n.to = "nobody" /\ n.tab = p.tab /\ n.token = p.token /\ n.reply = p.reply
    BY <2>1, <2>2, PostMoves
  <2>4. left = {} \/ (left = {n} /\ p.reply = "none")
    OBVIOUS
  <2> HIDE DEF n
  <2> QED BY <2>3, <2>4
<1>3. BrowserTypeOK'
  BY <1>1, <1>2 DEF BrowserInv, BrowserTypeOK
<1>4. \A k : (Used(k)' <=> Used(k)) /\ Status(k)' = Status(k) /\ (Over(k)' <=> Over(k))
  BY <1>1 DEF Used, Status, Over, ActiveOf, SessionOf
<1>5. \A q \in post' : \/ q \in post \ {p}
                       \/ q \in left
  OBVIOUS
<1> HIDE DEF BrowserInv
<1>6. Issued'
  <2>1. \A k \in Token : (Used(k) => SessionOf(k) \in Token /\ Used(SessionOf(k)))'
    BY <1>1 DEF BrowserInv, Issued, Used, Status, SessionOf
  <2>2. (jar # Nothing => Used(jar))'
    BY <1>1, <1>4 DEF BrowserInv, Issued
  <2>3. \A q \in post' : /\ q.token # Nothing => Used(q.token)'
                         /\ q.reply = "ok" => q.fresh \in Token /\ Used(q.fresh)'
    BY <1>2, <1>4, <1>5 DEF BrowserInv, Issued
  <2> QED BY <1>1, <2>1, <2>2, <2>3 DEF Issued, Used, Status, SessionOf
<1>7. RefusedWhenOver'
  BY <1>2, <1>4, <1>5 DEF BrowserInv, RefusedWhenOver
<1>8. Channel'
  BY <1>1 DEF Channel
<1>9. Kept'
  <2> SUFFICES ASSUME OneBearer, NoneStale, p.reply # "ok" PROVE OneBearer' /\ NoneStale'
    BY <1>1 DEF BrowserInv, Kept
  <2>1. OneBearer'
    <3> SUFFICES ASSUME NEW q \in post', q.reply = "ok"
                 PROVE  /\ q.to # "nobody" /\ q.fresh # jar'
                        /\ \A r \in post' : /\ r.token # q.fresh
                                            /\ r.reply = "ok" /\ r.fresh = q.fresh => r = q
      BY DEF OneBearer
    <3>1. q \in post
      BY <1>2, <1>5
    <3>2. q.to # "nobody" /\ q.fresh # jar'
      BY <1>1, <3>1 DEF OneBearer
    <3>3. \A r \in post' : r.token # q.fresh /\ (r.reply = "ok" /\ r.fresh = q.fresh => r = q)
      BY <1>2, <1>5, <3>1 DEF OneBearer
    <3> QED BY <3>2, <3>3
  <2>2. \A k \in Token : Status(k)' # "breached"
    BY <1>4 DEF NoneStale
  <2>3. jar' # Nothing => /\ Status(jar') = "rotated" =>
                              Over(jar') \/ \E q \in post' : q.reply = "ok" /\ q.token = jar'
                          /\ Status(jar') = "dead" => Over(jar')
    BY <1>1 DEF NoneStale
  <2>4. \A q \in post' : /\ q.reply = "none" /\ q.token # Nothing /\ Status(q.token) = "dead" => Over(q.token)
                         /\ q.reply = "ok" => Status(q.fresh) = "active" \/ Over(q.fresh)
    BY <1>2, <1>5 DEF NoneStale
  <2>5. NoneStale'
    BY <1>1, <1>4, <2>2, <2>3, <2>4 DEF NoneStale
  <2> QED BY <2>1, <2>5
<1> QED BY <1>3, <1>6, <1>7, <1>8, <1>9 DEF BrowserInv

LEMMA CutOffKeeps == ASSUME BrowserInv, NEW t \in Tab, CutOff(t) PROVE BrowserInv'
<1> PICK p \in post : Unheard(p)
  BY DEF CutOff
<1> DEFINE rec == Settled(t, Nothing, tab[t].page)
<1>1. rec \in TabRecord
  BY TabTyped, TabMoves, NoTabIsNothing DEF BrowserInv, Settled
<1>2. tab' \in [Tab -> TabRecord]
  <2> HIDE DEF rec
  <2> QED BY <1>1, TabTakes DEF BrowserInv, CutOff, rec
<1>3. lock' \in Tab \cup {Nothing}
  BY DEF CutOff, Freed, BrowserInv, BrowserTypeOK
<1> QED BY <1>2, <1>3, UnheardKeeps

LEMMA DropKeeps == ASSUME BrowserInv, NEW p \in post, Drop(p) PROVE BrowserInv'
BY UnheardKeeps DEF Drop, BrowserInv, BrowserTypeOK

(***************************************************************************)
(* An answer lands.                                                        *)
(***************************************************************************)
\* What the tab that hears it becomes, and what becomes of the lock.
LEMMA TakeFacts ==
    ASSUME BrowserInv, NEW p \in post, Take(p.tab, p)
    PROVE  /\ tab' \in [Tab -> TabRecord] /\ lock' \in Tab \cup {Nothing}
           /\ \A u \in Tab \ {p.tab} : tab'[u] = tab[u]
           /\ \/ At(p.tab, "idle")' /\ lock' = Freed(p.tab)
              \/ At(p.tab, "wait")' /\ lock' = lock
           /\ tab'[p.tab].page = "login" => tab[p.tab].page = "login" \/ p.reply = "refused"
<1> DEFINE t == p.tab
<1>1. t \in Tab /\ p.reply \in {"none", "ok", "conflict", "refused"}
  BY PostTyped DEF BrowserInv
<1>2. /\ tab[t] \in TabRecord /\ tab[t].attempt \in 0 .. MaxAttempt
      /\ tab[t].page \in {"open", "login"}
  BY <1>1, TabTyped DEF BrowserInv
<1>3. Freed(t) \in Tab \cup {Nothing} /\ lock \in Tab \cup {Nothing}
  BY DEF Freed, BrowserInv, BrowserTypeOK
<1>4. ASSUME NEW access \in Token \cup {Nothing}, NEW page \in {"open", "login"}
      PROVE  LET rec == Unstamped(Settled(t, access, page)) IN
             rec \in TabRecord /\ rec.pc = "idle" /\ rec.page = page
  BY <1>2, NoTabIsNothing DEF TabRecord, Unstamped, Settled
<1>5. CASE p.reply = "ok" /\ Becomes(t, Unstamped(Settled(t, SessionOf(p.fresh), "open")))
           /\ lock' = Freed(t)
  <2> DEFINE rec == Unstamped(Settled(t, SessionOf(p.fresh), "open"))
  <2>1. SessionOf(p.fresh) \in Token \cup {Nothing}
    BY <1>5, ServerTyped DEF BrowserInv, Issued
  <2>2. rec \in TabRecord /\ rec.pc = "idle" /\ rec.page = "open"
    BY <1>4, <2>1
  <2> HIDE DEF rec
  <2>3. /\ tab' \in [Tab -> TabRecord] /\ tab'[t] = rec
        /\ \A u \in Tab \ {t} : tab'[u] = tab[u]
    BY <1>1, <1>5, <2>2, TabTakes DEF BrowserInv, rec
  <2> QED BY <1>3, <1>5, <2>2, <2>3 DEF At
<1>6. CASE p.reply = "refused" /\ Becomes(t, Unstamped(Settled(t, Nothing, "login")))
           /\ lock' = Freed(t)
  <2> DEFINE rec == Unstamped(Settled(t, Nothing, "login"))
  <2>1. rec \in TabRecord /\ rec.pc = "idle"
    BY <1>4
  <2> HIDE DEF rec
  <2>2. /\ tab' \in [Tab -> TabRecord] /\ tab'[t] = rec
        /\ \A u \in Tab \ {t} : tab'[u] = tab[u]
    BY <1>1, <1>6, <2>1, TabTakes DEF BrowserInv, rec
  <2> QED BY <1>3, <1>6, <2>1, <2>2 DEF At
<1>7. CASE MayRetry(t) /\ UNCHANGED lock
           /\ Becomes(t, Unstamped([tab[t] EXCEPT !.pc = "wait", !.attempt = @ + 1]))
  <2> DEFINE n == tab[t].attempt + 1
             rec == Unstamped([tab[t] EXCEPT !.pc = "wait", !.attempt = n])
  <2>1. n \in 0 .. MaxAttempt
    BY <1>2, <1>7, BrowserAssumption DEF MayRetry
  <2> HIDE DEF n
  <2>2. rec \in TabRecord /\ rec.pc = "wait" /\ rec.page = tab[t].page
    BY <1>2, <2>1 DEF TabRecord, Unstamped
  <2>3. Becomes(t, rec)
    BY <1>7 DEF n
  <2> HIDE DEF rec
  <2>4. /\ tab' \in [Tab -> TabRecord] /\ tab'[t] = rec
        /\ \A u \in Tab \ {t} : tab'[u] = tab[u]
    BY <1>1, <2>2, <2>3, TabTakes DEF BrowserInv
  <2> QED BY <1>3, <1>7, <2>2, <2>4 DEF At
<1>8. CASE Becomes(t, Unstamped(Settled(t, Nothing, tab[t].page))) /\ lock' = Freed(t)
  <2> DEFINE rec == Unstamped(Settled(t, Nothing, tab[t].page))
  <2>1. rec \in TabRecord /\ rec.pc = "idle" /\ rec.page = tab[t].page
    BY <1>2, <1>4
  <2> HIDE DEF rec
  <2>2. /\ tab' \in [Tab -> TabRecord] /\ tab'[t] = rec
        /\ \A u \in Tab \ {t} : tab'[u] = tab[u]
    BY <1>1, <1>8, <2>1, TabTakes DEF BrowserInv, rec
  <2> QED BY <1>3, <1>8, <2>1, <2>2 DEF At
<1> QED BY <1>5, <1>6, <1>7, <1>8 DEF Take, Refused

LEMMA LandKeeps == ASSUME BrowserInv, NEW p \in post, Land(p) PROVE BrowserInv'
<1>1. /\ p.reply # "none" /\ post' = post \ {p} /\ server' = server /\ history' = history
      /\ p.reply = "ok" => jar' = p.fresh
      /\ p.reply # "ok" => jar' = jar
      /\ p.to = "tab" => Take(p.tab, p)
      /\ p.to # "tab" => tab' = tab /\ lock' = lock
  BY DEF Land, Stores
<1>2. p.reply = "ok" => p.fresh \in Token /\ Used(p.fresh)
  BY DEF BrowserInv, Issued
<1>3. \A k : (Used(k)' <=> Used(k)) /\ Status(k)' = Status(k) /\ (Over(k)' <=> Over(k))
             /\ SessionOf(k)' = SessionOf(k)
  BY <1>1 DEF Used, Status, Over, ActiveOf, SessionOf
<1>4. BrowserTypeOK'
  <2>1. tab' \in [Tab -> TabRecord] /\ lock' \in Tab \cup {Nothing}
    BY <1>1, TakeFacts DEF BrowserInv, BrowserTypeOK
  <2> QED BY <1>1, <1>2, <2>1 DEF BrowserInv, BrowserTypeOK
<1>5. jar' = jar \/ (jar' \in Token /\ Used(jar') /\ p.reply = "ok" /\ jar' = p.fresh)
  BY <1>1, <1>2
<1>6. Issued'
  <2>1. \A k \in Token : (Used(k) => SessionOf(k) \in Token /\ Used(SessionOf(k)))'
    BY <1>1 DEF BrowserInv, Issued, Used, Status, SessionOf
  <2>2. jar' # Nothing => Used(jar')
    BY <1>5 DEF BrowserInv, Issued
  <2>3. (jar # Nothing => Used(jar))'
    BY <1>1, <2>2 DEF Used, Status
  <2>4. \A q \in post' : /\ q.token # Nothing => Used(q.token)'
                         /\ q.reply = "ok" => q.fresh \in Token /\ Used(q.fresh)'
    BY <1>1, <1>3 DEF BrowserInv, Issued
  <2> QED BY <1>1, <2>1, <2>3, <2>4 DEF Issued, Used, Status, SessionOf
<1>7. RefusedWhenOver'
  BY <1>1, <1>3 DEF BrowserInv, RefusedWhenOver
<1>8. Channel'
  <2> SUFFICES ASSUME OneAtATime, OneRotation PROVE OneAtATime' /\ OneRotation'
    BY <1>1 DEF BrowserInv, Channel
  <2>1. post' = {} /\ p.tab \in Tab
    BY <1>1, PostTyped DEF BrowserInv, OneAtATime
  <2>2. ASSUME NEW u \in Tab, At(u, "wait")' \/ At(u, "sent")' PROVE lock' = u
    <3>1. CASE p.to # "tab"
      BY <1>1, <2>2, <3>1 DEF OneAtATime, At
    <3>2. CASE p.to = "tab"
      <4>1. lock = p.tab
        BY <2>1, <3>2 DEF OneAtATime
      <4>2. Take(p.tab, p)
        BY <1>1, <3>2
      <4>3. u = p.tab
        <5> SUFFICES ASSUME u # p.tab PROVE FALSE
          OBVIOUS
        <5>1. tab'[u] = tab[u]
          BY <4>2, TakeFacts
        <5> QED BY <2>2, <4>1, <5>1 DEF OneAtATime, At
      <4>4. ~At(u, "idle")'
        BY <2>2 DEF At
      <4> QED BY <4>1, <4>2, <4>3, <4>4, TakeFacts
    <3> QED BY <3>1, <3>2
  <2>3. OneAtATime'
    BY <2>1, <2>2 DEF OneAtATime
  <2>4. jar' # Nothing => Status(jar') # "rotated"
    BY <1>1, <2>1 DEF OneRotation
  <2>5. OneRotation'
    BY <1>1, <2>1, <2>4 DEF OneRotation, Status
  <2> QED BY <2>3, <2>5
<1>9. Kept'
  <2> SUFFICES ASSUME OneBearer, NoneStale PROVE OneBearer' /\ NoneStale'
    BY <1>1 DEF BrowserInv, Kept
  <2>1. OneBearer'
    BY <1>1, <1>5 DEF OneBearer
  <2>2. jar' # Nothing => /\ Status(jar') = "rotated" =>
                              Over(jar') \/ \E q \in post' : q.reply = "ok" /\ q.token = jar'
                          /\ Status(jar') = "dead" => Over(jar')
    <3>1. CASE p.reply = "ok"
      BY <1>1, <3>1 DEF NoneStale
    <3>2. CASE p.reply # "ok"
      BY <1>1, <3>2 DEF NoneStale
    <3> QED BY <3>1, <3>2
  <2>3. NoneStale'
    <3>1. \A k \in Token : Status(k)' # "breached"
      BY <1>3 DEF NoneStale
    <3>2. (jar # Nothing => /\ Status(jar) = "rotated" =>
                                Over(jar) \/ \E q \in post : q.reply = "ok" /\ q.token = jar
                            /\ Status(jar) = "dead" => Over(jar))'
      BY <1>1, <2>2 DEF Status, Over, ActiveOf, SessionOf
    <3>3. \A q \in post' : /\ q.reply = "none" /\ q.token # Nothing /\ Status(q.token)' = "dead" => Over(q.token)'
                           /\ q.reply = "ok" => Status(q.fresh)' = "active" \/ Over(q.fresh)'
      BY <1>1, <1>3 DEF NoneStale
    <3> QED BY <3>1, <3>2, <3>3 DEF NoneStale
  <2> QED BY <2>1, <2>3
<1> QED BY <1>4, <1>6, <1>7, <1>8, <1>9 DEF BrowserInv

(***************************************************************************)
(* A request is served.                                                    *)
(***************************************************************************)
\* q is p with its answer.
Reply(p, q, reply, fresh) ==
    q.to = p.to /\ q.tab = p.tab /\ q.token = p.token /\ q.reply = reply /\ q.fresh = fresh

LEMMA AnsweredFacts ==
    ASSUME BrowserTypeOK, NEW p \in post, NEW reply \in {"ok", "conflict", "refused"},
           NEW fresh \in Token \cup {Nothing}, Answered(p, reply, fresh)
    PROVE  /\ post' \subseteq RefreshRequest
           /\ \E a : /\ Reply(p, a, reply, fresh)
                     /\ p.to = "nobody" => post' = post \ {p}
                     /\ p.to # "nobody" => post' = (post \ {p}) \cup {a}
<1> DEFINE a == [p EXCEPT !.reply = reply, !.fresh = fresh]
<1>1. p \in RefreshRequest /\ post \subseteq RefreshRequest
  BY PostTyped DEF BrowserTypeOK
<1>2. a \in RefreshRequest /\ Reply(p, a, reply, fresh)
  <2>1. /\ a \in RefreshRequest /\ a.to = p.to /\ a.tab = p.tab /\ a.token = p.token
        /\ a.reply = reply /\ a.fresh = fresh
    BY <1>1 DEF RefreshRequest
  <2> QED BY <2>1 DEF Reply
<1>3. post' = (post \ {p}) \cup (IF p.to = "nobody" THEN {} ELSE {a})
  BY DEF Answered
<1> HIDE DEF a
<1> QED BY <1>1, <1>2, <1>3

\* What any answer does to the request's neighbours.
LEMMA ServedKeeps ==
    ASSUME BrowserInv, NEW p \in post, NEW reply \in {"ok", "conflict", "refused"},
           NEW fresh \in Token \cup {Nothing}, Answered(p, reply, fresh),
           ServerAges, history' \in History, UNCHANGED <<jar, lock, tab>>,
           reply = "ok" => fresh \in Token /\ Used(fresh)',
           reply = "refused" /\ p.token # Nothing => Over(p.token)'
    PROVE  /\ BrowserTypeOK' /\ Issued' /\ RefusedWhenOver'
           /\ OneAtATime => OneAtATime'
<1> PICK a : /\ Reply(p, a, reply, fresh)
             /\ p.to = "nobody" => post' = post \ {p}
             /\ p.to # "nobody" => post' = (post \ {p}) \cup {a}
  BY AnsweredFacts DEF BrowserInv
<1>1. post' \subseteq RefreshRequest
  BY AnsweredFacts DEF BrowserInv
<1>2. BrowserTypeOK'
  BY <1>1 DEF BrowserInv, BrowserTypeOK, ServerAges
<1>3. \A q \in post' : q \in post \ {p} \/ q = a
  OBVIOUS
<1>4. Issued'
  <2>1. \A k \in Token : (Used(k) => SessionOf(k) \in Token /\ Used(SessionOf(k)))'
    BY DEF ServerAges, Used, Status, SessionOf
  <2>2. (jar # Nothing => Used(jar))'
    <3>1. jar # Nothing => Used(jar)'
      BY DEF BrowserInv, Issued, ServerAges, BrowserTypeOK
    <3> QED BY <3>1 DEF Used, Status
  <2>3. ASSUME NEW q \in post'
        PROVE  /\ q.token # Nothing => Used(q.token)'
               /\ q.reply = "ok" => q.fresh \in Token /\ Used(q.fresh)'
    <3>1. p.token # Nothing => Used(p.token)'
      BY PostTyped DEF BrowserInv, Issued, ServerAges
    <3>2. CASE q = a
      BY <3>1, <3>2 DEF Reply
    <3>3. CASE q \in post \ {p}
      BY <3>3, PostTyped DEF BrowserInv, Issued, ServerAges
    <3> QED BY <1>3, <3>2, <3>3
  <2> QED BY <2>1, <2>2, <2>3 DEF Issued, Used, Status, SessionOf
<1>5. RefusedWhenOver'
  <2> SUFFICES ASSUME NEW q \in post', q.reply = "refused", q.token # Nothing PROVE Over(q.token)'
    BY DEF RefusedWhenOver, Over, ActiveOf, Status, SessionOf
  <2>1. CASE q = a
    BY <2>1 DEF Reply
  <2>2. CASE q \in post \ {p}
    <3>1. q.token \in Token /\ Used(q.token) /\ Over(q.token)
      BY <2>2, PostTyped DEF BrowserInv, Issued, RefusedWhenOver
    <3> QED BY <3>1 DEF ServerAges
  <2> QED BY <1>3, <2>1, <2>2
<1>6. ASSUME OneAtATime PROVE OneAtATime'
  <2>1. p.to # "nobody" /\ post' = {a}
    BY <1>6 DEF OneAtATime
  <2>2. a.to = p.to /\ a.tab = p.tab
    BY DEF Reply
  <2> QED BY <1>6, <2>1, <2>2 DEF OneAtATime, At
<1> QED BY <1>2, <1>4, <1>5, <1>6

LEMMA RotateKeeps ==
    ASSUME BrowserInv, NEW p \in post, p.reply = "none", p.token \in Token, Status(p.token) = "active",
           Rotate(p), UNCHANGED <<jar, lock, tab>>
    PROVE  BrowserInv'
<1> PICK k \in Token :
      /\ k # p.token /\ ~Used(k) /\ Used(k)'
      /\ Status(k)' = "active" /\ SessionOf(k)' = SessionOf(p.token)
      /\ Status(p.token)' = "rotated"
      /\ \A j \in Token \ {k, p.token} : Status(j)' = Status(j)
      /\ \A j \in Token \ {k} : SessionOf(j)' = SessionOf(j)
      /\ Answered(p, "ok", k) /\ Notes("late", p.to = "nobody")
  BY RotateFacts DEF BrowserInv
<1>1. ServerAges
  BY RotateFacts DEF BrowserInv
<1>2. /\ history' \in History
      /\ history'.mishap = history.mishap /\ history'.handover = history.handover
      /\ history'.late = (history.late \/ p.to = "nobody")
  BY HistoryTyped DEF BrowserInv
<1>3. /\ BrowserTypeOK' /\ Issued' /\ RefusedWhenOver'
      /\ OneAtATime => OneAtATime'
  BY <1>1, <1>2, ServedKeeps
<1> PICK a : /\ Reply(p, a, "ok", k)
             /\ p.to = "nobody" => post' = post \ {p}
             /\ p.to # "nobody" => post' = (post \ {p}) \cup {a}
  BY AnsweredFacts DEF BrowserInv
<1>4. \A q \in post' : q \in post \ {p} \/ (q = a /\ p.to # "nobody")
  OBVIOUS
<1>5. /\ jar \in Token \cup {Nothing} /\ (jar # Nothing => Used(jar) /\ jar # k)
      /\ \A q \in post : /\ q.token \in Token \cup {Nothing} /\ q.token # k
                         /\ q.reply = "ok" => q.fresh \in Token /\ Used(q.fresh) /\ q.fresh # k
  <2>1. k # Nothing
    BY NoTabIsNothing
  <2> QED BY <2>1, PostTyped DEF BrowserInv, Issued, BrowserTypeOK
<1>6. Channel'
  <2> SUFFICES ASSUME OneAtATime, OneRotation PROVE OneRotation'
    BY <1>2, <1>3 DEF BrowserInv, Channel
  <2>1. post' = {a}
    BY DEF OneAtATime
  <2> QED BY <2>1 DEF OneRotation, Reply
<1>7. Kept'
  <2> SUFFICES ASSUME OneBearer, NoneStale, p.to # "nobody" PROVE OneBearer' /\ NoneStale'
    BY <1>2 DEF BrowserInv, Kept
  <2>1. a.to # "nobody" /\ a.token = p.token /\ a.reply = "ok" /\ a.fresh = k /\ a \in post'
    BY DEF Reply
  <2>2. OneBearer'
    <3>1. ASSUME NEW q \in post', q.reply = "ok"
          PROVE  /\ q.to # "nobody" /\ q.fresh # jar
                 /\ \A r \in post' : /\ r.token # q.fresh
                                     /\ r.reply = "ok" /\ r.fresh = q.fresh => r = q
      <4>1. CASE q = a
        BY <1>4, <1>5, <2>1, <4>1, NoTabIsNothing
      <4>2. CASE q \in post \ {p}
        BY <1>4, <1>5, <2>1, <3>1, <4>2 DEF OneBearer
      <4> QED BY <1>4, <4>1, <4>2
    <3> QED BY <3>1 DEF OneBearer
  <2>3. ASSUME NEW j \in Token, Status(j) = "dead" => Over(j), Used(j)
        PROVE  Status(j)' = "dead" => Over(j)'
    BY <1>1, <2>3 DEF ServerAges
  <2>4. \A j \in Token : Status(j)' # "breached"
    BY DEF NoneStale
  <2>5. ASSUME jar # Nothing, Status(jar)' = "rotated"
        PROVE  Over(jar)' \/ \E q \in post' : q.reply = "ok" /\ q.token = jar
    <3>1. CASE jar = p.token
      BY <2>1, <3>1
    <3>2. CASE jar # p.token
      <4>1. Status(jar) = "rotated" /\ Used(jar) /\ jar \in Token
        BY <1>5, <2>5, <3>2
      <4>2. Over(jar) \/ \E q \in post : q.reply = "ok" /\ q.token = jar
        BY <2>5, <4>1 DEF NoneStale
      <4>3. Over(jar) => Over(jar)'
        BY <1>1, <4>1 DEF ServerAges
      <4> QED BY <4>2, <4>3
    <3> QED BY <3>1, <3>2
  <2>6. ASSUME jar # Nothing, Status(jar)' = "dead" PROVE Over(jar)'
    BY <1>5, <2>3, <2>6 DEF NoneStale
  <2>7. ASSUME NEW q \in post'
        PROVE  /\ q.reply = "none" /\ q.token # Nothing /\ Status(q.token)' = "dead" => Over(q.token)'
               /\ q.reply = "ok" => Status(q.fresh)' = "active" \/ Over(q.fresh)'
    <3>1. CASE q = a
      BY <2>1, <3>1
    <3>2. CASE q \in post \ {p}
      <4>1. q.token # Nothing => /\ q.token \in Token /\ Used(q.token)
                                 /\ q.reply = "none" /\ Status(q.token) = "dead" => Over(q.token)
        BY <1>5, <3>2 DEF BrowserInv, Issued, NoneStale
      <4>2. ASSUME q.reply = "ok" PROVE Status(q.fresh)' = "active" \/ Over(q.fresh)'
        <5>1. q.fresh \in Token \ {k, p.token} /\ Used(q.fresh)
          BY <1>5, <3>2, <4>2 DEF OneBearer
        <5>2. Status(q.fresh) = "active" \/ Over(q.fresh)
          BY <3>2, <4>2 DEF NoneStale
        <5>3. Over(q.fresh) => Over(q.fresh)'
          BY <1>1, <5>1 DEF ServerAges
        <5> QED BY <5>1, <5>2, <5>3
      <4> QED BY <2>3, <4>1, <4>2
    <3> QED BY <1>4, <3>1, <3>2
  <2>8. NoneStale'
    <3>1. (jar # Nothing =>
             /\ Status(jar) = "rotated" => Over(jar) \/ \E q \in post : q.reply = "ok" /\ q.token = jar
             /\ Status(jar) = "dead" => Over(jar))'
      BY <2>5, <2>6 DEF Status, Over, ActiveOf, SessionOf
    <3> QED BY <2>4, <2>7, <3>1 DEF NoneStale
  <2> QED BY <2>2, <2>8
<1> QED BY <1>3, <1>6, <1>7 DEF BrowserInv

\* An answer that is not a rotation, while no token that counts is ended.
LEMMA NoSuccessor ==
    ASSUME BrowserInv, NEW p \in post, p.reply = "none", NEW reply \in {"conflict", "refused"},
           Answered(p, reply, Nothing), ServerAges, UNCHANGED jar,
           \A k \in Token : Status(k)' = Status(k)
    PROVE  OneBearer /\ NoneStale => OneBearer' /\ NoneStale'
<1> SUFFICES ASSUME OneBearer, NoneStale PROVE OneBearer' /\ NoneStale'
  OBVIOUS
<1> PICK a : /\ Reply(p, a, reply, Nothing)
             /\ p.to = "nobody" => post' = post \ {p}
             /\ p.to # "nobody" => post' = (post \ {p}) \cup {a}
  BY AnsweredFacts DEF BrowserInv
<1>1. \A q \in post' : q \in post \ {p} \/ q = a
  OBVIOUS
<1>2. a.token = p.token /\ a.reply # "ok"
  BY DEF Reply
<1>3. OneBearer'
  BY <1>1, <1>2 DEF OneBearer
<1>4. \A q \in post : /\ q.token \in Token \cup {Nothing} /\ (q.token # Nothing => Used(q.token))
                      /\ q.reply = "ok" => q.fresh \in Token /\ Used(q.fresh)
  BY PostTyped DEF BrowserInv, Issued
<1>5. \A k \in Token : Used(k) /\ Over(k) => Over(k)'
  BY DEF ServerAges
<1>6. \A k \in Token : Status(k)' # "breached"
  BY DEF NoneStale
<1>7. \A q \in post' :
        /\ q.reply = "none" /\ q.token # Nothing /\ Status(q.token)' = "dead" => Over(q.token)'
        /\ q.reply = "ok" => Status(q.fresh)' = "active" \/ Over(q.fresh)'
  BY <1>1, <1>2, <1>4, <1>5 DEF NoneStale
<1>8. jar # Nothing => jar \in Token /\ Used(jar)
  BY DEF BrowserInv, Issued, BrowserTypeOK
<1>9. jar # Nothing =>
        /\ Status(jar)' = "rotated" => Over(jar)' \/ \E q \in post' : q.reply = "ok" /\ q.token = jar
        /\ Status(jar)' = "dead" => Over(jar)'
  BY <1>5, <1>8 DEF NoneStale
<1>10. (jar # Nothing =>
          /\ Status(jar) = "rotated" => Over(jar) \/ \E q \in post : q.reply = "ok" /\ q.token = jar
          /\ Status(jar) = "dead" => Over(jar))'
  BY <1>9 DEF Status, Over, ActiveOf, SessionOf
<1> QED BY <1>3, <1>6, <1>7, <1>10 DEF NoneStale

LEMMA ConflictKeeps ==
    ASSUME BrowserInv, NEW p \in post, p.reply = "none", p.token \in Token, Status(p.token) = "rotated",
           Answered(p, "conflict", Nothing), UNCHANGED <<jar, server, lock, tab, history>>
    PROVE  BrowserInv'
<1>1. ServerAges
  BY SameServer DEF BrowserInv
<1>2. /\ BrowserTypeOK' /\ Issued' /\ RefusedWhenOver'
      /\ OneAtATime => OneAtATime'
  BY <1>1, ServedKeeps DEF BrowserInv, BrowserTypeOK
<1>3. ~(OneAtATime /\ OneRotation)
  BY NoTabIsNothing DEF OneRotation
<1>4. Channel'
  BY <1>3 DEF BrowserInv, Channel
<1>5. \A k \in Token : Status(k)' = Status(k)
  BY DEF Status
<1>6. Kept'
  BY <1>1, <1>5, NoSuccessor DEF BrowserInv, Kept
<1> QED BY <1>2, <1>4, <1>6 DEF BrowserInv

LEMMA RefuseKeeps ==
    ASSUME BrowserInv, NEW p \in post, p.reply = "none", Refuse(p), UNCHANGED <<jar, lock, tab>>,
           p.token # Nothing => Status(p.token) \in {"dead", "breached"}
    PROVE  BrowserInv'
<1> DEFINE live == IF p.token = Nothing THEN {} ELSE ActiveOf(SessionOf(p.token))
<1>1. Ended(live, "breached") /\ Answered(p, "refused", Nothing) /\ history' = history
  BY DEF Refuse, SessionOf
<1>2. live \in SUBSET Token /\ \A k \in live : Used(k)
  BY DEF ActiveOf, Used, Status
<1>3. p.token \in Token \cup {Nothing}
  BY PostTyped DEF BrowserInv
<1>4. p.token # Nothing => \A k \in Token : Status(k) = "active" /\ SessionOf(k) = SessionOf(p.token) => k \in live
  BY DEF ActiveOf, Status, SessionOf
<1>5. \A k \in live : Status(k) = "active"
  BY DEF ActiveOf, Status
<1>6. p.token # Nothing /\ Over(p.token) => live = {}
  BY DEF Over
<1>7. p.token = Nothing => live = {}
  OBVIOUS
<1> HIDE DEF live
<1>8. /\ ServerAges
      /\ \A k \in Token : /\ SessionOf(k)' = SessionOf(k)
                          /\ Status(k)' = IF k \in live THEN "breached" ELSE Status(k)
  BY <1>1, <1>2, EndedAges DEF BrowserInv
<1>9. p.token # Nothing => Over(p.token)'
  <2> SUFFICES ASSUME p.token # Nothing, NEW k \in Token, Status(k)' = "active",
                      SessionOf(k)' = SessionOf(p.token)'
               PROVE  FALSE
    BY DEF Over, ActiveOf, Status, SessionOf
  <2>1. Status(k) = "active" /\ SessionOf(k) = SessionOf(p.token) /\ k \notin live
    BY <1>3, <1>8
  <2> QED BY <1>4, <2>1
<1>10. /\ BrowserTypeOK' /\ Issued' /\ RefusedWhenOver'
       /\ OneAtATime => OneAtATime'
  BY <1>1, <1>8, <1>9, ServedKeeps DEF BrowserInv, BrowserTypeOK
<1>11. Channel'
  <2> SUFFICES ASSUME OneAtATime, OneRotation PROVE OneRotation'
    BY <1>1, <1>10 DEF BrowserInv, Channel
  <2> PICK a : /\ Reply(p, a, "refused", Nothing)
               /\ p.to = "nobody" => post' = post \ {p}
               /\ p.to # "nobody" => post' = (post \ {p}) \cup {a}
    BY <1>1, AnsweredFacts DEF BrowserInv
  <2>1. \A q \in post' : q = a
    BY DEF OneAtATime
  <2>2. a.reply = "refused"
    BY DEF Reply
  <2>3. jar # Nothing => Status(jar) # "rotated" /\ jar \in Token
    BY DEF OneAtATime, OneRotation, BrowserInv, BrowserTypeOK
  <2>4. jar # Nothing => Status(jar)' # "rotated"
    BY <1>8, <2>3
  <2>5. (jar # Nothing => Status(jar) # "rotated")'
    BY <2>4 DEF Status
  <2> QED BY <2>1, <2>2, <2>5 DEF OneRotation
<1>12. Kept'
  <2> SUFFICES ASSUME OneBearer, NoneStale PROVE OneBearer' /\ NoneStale'
    BY <1>1 DEF BrowserInv, Kept
  <2>1. p.token # Nothing => Over(p.token)
    BY <1>3 DEF NoneStale
  <2>2. live = {}
    BY <1>6, <1>7, <2>1
  <2>3. \A k \in Token : Status(k)' = Status(k)
    BY <1>8, <2>2
  <2> QED BY <1>1, <1>8, <2>3, NoSuccessor
<1> QED BY <1>10, <1>11, <1>12 DEF BrowserInv

LEMMA ServeKeeps == ASSUME BrowserInv, NEW p \in post, Serve(p) PROVE BrowserInv'
<1>1. p.token \in Token \cup {Nothing}
  BY PostTyped DEF BrowserInv
<1>2. /\ p.reply = "none" /\ UNCHANGED <<jar, lock, tab>>
      /\ \/ p.token # Nothing /\ Status(p.token) = "active" /\ Rotate(p)
         \/ /\ p.token # Nothing /\ Status(p.token) = "rotated"
            /\ Answered(p, "conflict", Nothing) /\ UNCHANGED <<server, history>>
         \/ /\ p.token # Nothing => Status(p.token) \in {"dead", "breached"}
            /\ Refuse(p)
  <2> DEFINE status == IF p.token = Nothing THEN "dead" ELSE Status(p.token)
  <2>1. /\ p.reply = "none" /\ UNCHANGED <<jar, lock, tab>>
        /\ \/ status = "active" /\ Rotate(p)
           \/ status = "rotated" /\ Answered(p, "conflict", Nothing) /\ UNCHANGED <<server, history>>
           \/ status \in {"dead", "breached"} /\ Refuse(p)
    BY DEF Serve, Status
  <2> QED BY <2>1
<1> QED BY <1>1, <1>2, RotateKeeps, ConflictKeeps, RefuseKeeps

(***************************************************************************)
(* The window closes; the document is replaced, signed out, signed in.     *)
(***************************************************************************)
\* What the jar and the requests hold is issued, and keeps what it was issued with.
LEMMA Held ==
    ASSUME BrowserInv
    PROVE  /\ jar \in Token \cup {Nothing} /\ (jar # Nothing => jar \in Token /\ Used(jar))
           /\ \A p \in post : /\ p.token \in Token \cup {Nothing}
                              /\ p.token # Nothing => p.token \in Token /\ Used(p.token)
                              /\ p.reply = "ok" => p.fresh \in Token /\ Used(p.fresh)
BY PostTyped DEF BrowserInv, BrowserTypeOK, Issued

\* The server alone ages.
LEMMA AgesKeep ==
    ASSUME BrowserInv, ServerAges, UNCHANGED <<lock, post>>, tab' \in [Tab -> TabRecord],
           jar' \in Token \cup {Nothing}, (jar # Nothing => Used(jar))', history' \in History
    PROVE  BrowserTypeOK' /\ Issued' /\ RefusedWhenOver'
<1>1. BrowserTypeOK'
  BY DEF BrowserInv, BrowserTypeOK, ServerAges
<1>2. Issued'
  <2>1. \A k \in Token : (Used(k) => SessionOf(k) \in Token /\ Used(SessionOf(k)))'
    BY DEF ServerAges, Used, Status, SessionOf
  <2>2. \A p \in post : /\ p.token # Nothing => Used(p.token)'
                        /\ p.reply = "ok" => p.fresh \in Token /\ Used(p.fresh)'
    BY Held DEF ServerAges
  <2> QED BY <2>1, <2>2 DEF Issued, Used, Status, SessionOf
<1>3. RefusedWhenOver'
  <2>1. \A p \in post : p.reply = "refused" /\ p.token # Nothing => Over(p.token)'
    BY Held DEF ServerAges, BrowserInv, RefusedWhenOver
  <2> QED BY <2>1 DEF RefusedWhenOver, Over, ActiveOf, Status, SessionOf
<1> QED BY <1>1, <1>2, <1>3

LEMMA WindowEndsKeeps == ASSUME BrowserInv, NEW k \in Token, WindowEnds(k) PROVE BrowserInv'
<1>1. /\ ServerAges /\ Status(k) = "rotated" /\ Status(k)' = "dead"
      /\ \A j \in Token \ {k} : Status(j)' = Status(j)
  BY WindowEndsFacts DEF BrowserInv
<1>2. UNCHANGED <<jar, lock, tab, post>>
  BY DEF WindowEnds
<1>3. /\ history' \in History
      /\ history'.mishap = history.mishap /\ history'.handover = history.handover
      /\ history'.late = (history.late \/ \E p \in post : p.token = k /\ p.reply \in {"none", "ok"})
  BY HistoryTyped DEF BrowserInv, WindowEnds
<1>4. BrowserTypeOK' /\ Issued' /\ RefusedWhenOver'
  <2>1. jar # Nothing => server'[jar].status # "unused"
    BY <1>1, Held DEF ServerAges, Used, Status
  <2>2. (jar # Nothing => Used(jar))'
    BY <1>2, <2>1 DEF Used, Status
  <2> QED BY <1>1, <1>2, <1>3, <2>2, AgesKeep DEF BrowserInv, BrowserTypeOK
<1>5. \A j \in Token : Status(j)' = "rotated" => Status(j) = "rotated"
  BY <1>1
<1>6. Channel'
  <2> SUFFICES ASSUME OneAtATime, OneRotation PROVE OneAtATime' /\ OneRotation'
    BY <1>3 DEF BrowserInv, Channel
  <2>1. OneAtATime'
    BY <1>2 DEF OneAtATime, At
  <2>2. /\ jar # Nothing /\ Status(jar)' = "rotated" => \E p \in post : p.reply = "ok"
        /\ \A p \in post : /\ p.reply # "conflict"
                           /\ p.reply = "none" /\ p.token # Nothing => Status(p.token)' # "rotated"
                           /\ p.reply = "ok" => Status(p.fresh)' # "rotated"
    <3>1. jar # Nothing /\ Status(jar)' = "rotated" => \E p \in post : p.reply = "ok"
      BY <1>2, <1>5, Held DEF OneRotation
    <3>2. ASSUME NEW p \in post
          PROVE  /\ p.reply # "conflict"
                 /\ p.reply = "none" /\ p.token # Nothing => Status(p.token)' # "rotated"
                 /\ p.reply = "ok" => Status(p.fresh)' # "rotated"
      <4>1. /\ p.reply # "conflict"
            /\ p.reply = "none" /\ p.token # Nothing => Status(p.token) # "rotated"
            /\ p.reply = "ok" => Status(p.fresh) # "rotated"
        BY DEF OneRotation
      <4>2. /\ p.token # Nothing => p.token \in Token
            /\ p.reply = "ok" => p.fresh \in Token
        BY Held
      <4> QED BY <1>5, <4>1, <4>2
    <3> QED BY <3>1, <3>2
  <2> QED BY <1>2, <2>1, <2>2 DEF OneRotation, Status
<1>7. Kept'
  <2> SUFFICES ASSUME OneBearer, NoneStale,
                      \A p \in post : p.reply \in {"none", "ok"} => p.token # k
               PROVE  OneBearer' /\ NoneStale'
    BY <1>3 DEF BrowserInv, Kept
  <2>1. OneBearer'
    BY <1>2 DEF OneBearer
  <2>2. \A j \in Token : Used(j) /\ Over(j) => Over(j)'
    BY <1>1 DEF ServerAges
  <2>3. \A j \in Token : Status(j)' # "breached"
    BY <1>1 DEF NoneStale
  <2>4. jar = k => Over(jar)
    BY <1>1, NoTabIsNothing DEF NoneStale
  <2>5. jar # Nothing => /\ Status(jar)' = "rotated" =>
                            Over(jar)' \/ \E p \in post : p.reply = "ok" /\ p.token = jar
                         /\ Status(jar)' = "dead" => Over(jar)'
    <3> SUFFICES ASSUME jar # Nothing
                 PROVE  /\ Status(jar)' = "rotated" =>
                             Over(jar)' \/ \E p \in post : p.reply = "ok" /\ p.token = jar
                        /\ Status(jar)' = "dead" => Over(jar)'
      OBVIOUS
    <3>1. jar \in Token /\ (Over(jar) => Over(jar)')
      BY <1>2, <2>2, Held
    <3>2. CASE jar = k
      BY <1>1, <2>4, <3>1, <3>2
    <3>3. CASE jar # k
      <4>1. Status(jar)' = Status(jar)
        BY <1>1, <1>2, <3>1, <3>3
      <4> QED BY <3>1, <4>1 DEF NoneStale
    <3> QED BY <3>2, <3>3
  <2>6. \A p \in post : p.reply = "none" /\ p.token # Nothing /\ Status(p.token)' = "dead" => Over(p.token)'
    BY <1>1, <2>2, Held DEF NoneStale
  <2>7. \A p \in post : p.reply = "ok" => Status(p.fresh)' = "active" \/ Over(p.fresh)'
    BY <1>1, <2>2, Held DEF NoneStale
  <2>8. NoneStale'
    BY <1>2, <2>3, <2>5, <2>6, <2>7 DEF NoneStale, Status, Over, ActiveOf, SessionOf
  <2> QED BY <2>1, <2>8
<1> QED BY <1>4, <1>6, <1>7 DEF BrowserInv

LEMMA LoginKeeps == ASSUME BrowserInv, NEW t \in Tab, Login(t) PROVE BrowserInv'
<1> PICK k \in Token : /\ ~Used(k) /\ Used(k)' /\ jar' = k /\ Status(k)' = "active"
                       /\ \A j \in Token \ {k} : Status(j)' = Status(j)
  BY LoginFacts DEF BrowserInv
<1>1. ServerAges
  BY LoginFacts DEF BrowserInv
<1> DEFINE rec == [tab[t] EXCEPT !.pc = "lock", !.attempt = 0]
<1>2. /\ rec \in TabRecord /\ rec.pc = "lock" /\ rec.stamp = tab[t].stamp
      /\ rec.access = tab[t].access
  BY TabTyped, NoTabIsNothing DEF BrowserInv, TabRecord
<1>3. tab' \in [Tab -> TabRecord] /\ tab'[t] = rec /\ \A u \in Tab \ {t} : tab'[u] = tab[u]
  <2> HIDE DEF rec
  <2> QED BY <1>2, TabTakes DEF BrowserInv, Login, rec
<1> HIDE DEF rec
<1>4. UNCHANGED <<lock, post, history>> /\ At(t, "idle")
  BY DEF Login
<1>5. BrowserTypeOK' /\ Issued' /\ RefusedWhenOver'
  <2>1. Used(jar)'
    BY DEF Used, Status
  <2> QED BY <1>1, <1>3, <1>4, <2>1, AgesKeep DEF BrowserInv, BrowserTypeOK
<1>6. \A p \in post : /\ p.tab \in Tab
                      /\ p.token # Nothing => p.token \in Token \ {k} /\ Used(p.token)
                      /\ p.reply = "ok" => p.fresh \in Token \ {k} /\ Used(p.fresh)
  BY Held, PostTyped DEF BrowserInv
<1>7. Channel'
  <2> SUFFICES ASSUME OneAtATime, OneRotation PROVE OneAtATime' /\ OneRotation'
    BY <1>4 DEF BrowserInv, Channel
  <2>1. \A u \in Tab : At(u, "wait")' \/ At(u, "sent")' => lock = u
    BY <1>2, <1>3 DEF OneAtATime, At
  <2>2. ASSUME NEW p \in post
        PROVE  \/ p.to = "tab" /\ At(p.tab, "sent")' /\ tab'[p.tab].stamp = "own"
               \/ /\ p.to = "browser" /\ tab'[p.tab].stamp = "dead" /\ tab'[p.tab].access = Nothing
                  /\ lock \in {Nothing, p.tab}
    BY <1>2, <1>3, <1>4, <1>6 DEF OneAtATime, At
  <2>3. OneAtATime'
    BY <1>4, <2>1, <2>2 DEF OneAtATime
  <2>4. \A p \in post : /\ p.reply # "conflict"
                        /\ p.reply = "none" /\ p.token # Nothing => Status(p.token)' # "rotated"
                        /\ p.reply = "ok" => Status(p.fresh)' # "rotated"
    BY <1>6 DEF OneRotation
  <2>5. OneRotation'
    BY <1>4, <2>4 DEF OneRotation, Status
  <2> QED BY <2>3, <2>5
<1>8. Kept'
  <2> SUFFICES ASSUME OneBearer, NoneStale PROVE OneBearer' /\ NoneStale'
    BY <1>4 DEF BrowserInv, Kept
  <2>1. OneBearer'
    BY <1>4, <1>6 DEF OneBearer
  <2>2. \A j \in Token : Status(j)' # "breached"
    BY DEF NoneStale
  <2>3. \A p \in post : /\ p.reply = "none" /\ p.token # Nothing /\ Status(p.token)' = "dead" => Over(p.token)'
                        /\ p.reply = "ok" => Status(p.fresh)' = "active" \/ Over(p.fresh)'
    BY <1>1, <1>6 DEF NoneStale, ServerAges
  <2>4. Status(k)' # "rotated" /\ Status(k)' # "dead"
    OBVIOUS
  <2>5. NoneStale'
    BY <1>4, <2>2, <2>3, <2>4 DEF NoneStale, Status, Over, ActiveOf, SessionOf
  <2> QED BY <2>1, <2>5
<1> QED BY <1>5, <1>7, <1>8 DEF BrowserInv

\* What is addressed to the document that goes is left to the browser.
Left(t, p) == IF p.tab = t /\ p.to = "tab" THEN [p EXCEPT !.to = "browser"] ELSE p

LEMMA LeftFacts ==
    ASSUME BrowserInv, NEW t \in Tab, Reload(t)
    PROVE  /\ post' = {Left(t, p) : p \in post}
           /\ \A p \in post :
                /\ Left(t, p) \in RefreshRequest
                /\ Left(t, p).tab = p.tab /\ Left(t, p).token = p.token
                /\ Left(t, p).reply = p.reply /\ Left(t, p).fresh = p.fresh
                /\ p.tab = t /\ p.to = "tab" => Left(t, p).to = "browser"
                /\ p.tab # t \/ p.to # "tab" => Left(t, p).to = p.to
<1> DEFINE sent == {p \in post : p.tab = t /\ p.to = "tab"}
<1>1. post' = (post \ sent) \cup {[p EXCEPT !.to = "browser"] : p \in sent}
  BY DEF Reload
<1>2. post' = {Left(t, p) : p \in post}
  <2>1. \A p \in post : /\ p \in sent => Left(t, p) = [p EXCEPT !.to = "browser"]
                        /\ p \notin sent => Left(t, p) = p
    BY DEF Left
  <2>2. sent \subseteq post
    OBVIOUS
  <2> HIDE DEF sent
  <2> QED BY <1>1, <2>1, <2>2
<1>3. ASSUME NEW p \in post
      PROVE  /\ Left(t, p) \in RefreshRequest
             /\ Left(t, p).tab = p.tab /\ Left(t, p).token = p.token
             /\ Left(t, p).reply = p.reply /\ Left(t, p).fresh = p.fresh
             /\ p.tab = t /\ p.to = "tab" => Left(t, p).to = "browser"
             /\ p.tab # t \/ p.to # "tab" => Left(t, p).to = p.to
  <2>1. p \in RefreshRequest
    BY PostTyped DEF BrowserInv
  <2> QED BY <2>1 DEF Left, RefreshRequest
<1> QED BY <1>2, <1>3

LEMMA ReloadKeeps == ASSUME BrowserInv, NEW t \in Tab, Reload(t) PROVE BrowserInv'
<1> DEFINE rec == [tab[t] EXCEPT !.pc = "idle", !.attempt = 0, !.access = Nothing, !.page = "open",
                                 !.stamp = IF tab[t].stamp = "none" THEN tab[t].stamp ELSE "dead"]
<1>1. /\ rec \in TabRecord /\ rec.pc = "idle" /\ rec.access = Nothing
      /\ tab[t].stamp # "none" => rec.stamp = "dead"
  BY TabTyped, NoTabIsNothing DEF BrowserInv, TabRecord
<1>2. Becomes(t, rec)
  BY DEF Reload
<1> HIDE DEF rec
<1>3. tab' \in [Tab -> TabRecord] /\ tab'[t] = rec /\ \A u \in Tab \ {t} : tab'[u] = tab[u]
  BY <1>1, <1>2, TabTakes DEF BrowserInv
<1>4. lock' = Freed(t) /\ UNCHANGED <<jar, server, history>>
  BY DEF Reload
<1>5. \A k : (Used(k)' <=> Used(k)) /\ Status(k)' = Status(k) /\ (Over(k)' <=> Over(k))
  BY <1>4 DEF Used, Status, Over, ActiveOf, SessionOf
<1>6. \A q \in post' : \E p \in post : q = Left(t, p)
  BY LeftFacts
<1>7. BrowserTypeOK'
  <2>1. lock' \in Tab \cup {Nothing}
    BY <1>4 DEF Freed, BrowserInv, BrowserTypeOK
  <2>2. post' \subseteq RefreshRequest
    BY <1>6, LeftFacts
  <2> QED BY <1>3, <1>4, <2>1, <2>2 DEF BrowserInv, BrowserTypeOK
<1>8. Issued'
  <2>1. \A k \in Token : (Used(k) => SessionOf(k) \in Token /\ Used(SessionOf(k)))'
    BY <1>4 DEF BrowserInv, Issued, Used, Status, SessionOf
  <2>2. (jar # Nothing => Used(jar))'
    BY <1>4, Held DEF Used, Status
  <2>3. \A q \in post' : /\ q.token # Nothing => Used(q.token)'
                         /\ q.reply = "ok" => q.fresh \in Token /\ Used(q.fresh)'
    BY <1>5, <1>6, LeftFacts, Held
  <2> QED BY <2>1, <2>2, <2>3 DEF Issued, Used, Status, SessionOf
<1>9. RefusedWhenOver'
  BY <1>5, <1>6, LeftFacts DEF BrowserInv, RefusedWhenOver
<1>10. Channel'
  <2> SUFFICES ASSUME OneAtATime, OneRotation PROVE OneAtATime' /\ OneRotation'
    BY <1>4 DEF BrowserInv, Channel
  <2>1. \A u \in Tab : At(u, "wait")' \/ At(u, "sent")' => lock' = u
    BY <1>1, <1>3, <1>4 DEF OneAtATime, At, Freed
  <2>2. \A q, r \in post' : q = r
    BY <1>6 DEF OneAtATime
  <2>3. ASSUME NEW q \in post'
        PROVE  \/ q.to = "tab" /\ At(q.tab, "sent")' /\ tab'[q.tab].stamp = "own"
               \/ /\ q.to = "browser" /\ tab'[q.tab].stamp = "dead" /\ tab'[q.tab].access = Nothing
                  /\ lock' \in {Nothing, q.tab}
    <3> PICK p \in post : q = Left(t, p)
      BY <1>6
    <3>1. p.tab \in Tab /\ q.tab = p.tab
      BY LeftFacts, PostTyped DEF BrowserInv
    <3>2. CASE p.tab = t /\ p.to = "tab"
      <4>1. lock = t /\ tab[t].stamp = "own" /\ q.to = "browser"
        BY <3>2, LeftFacts DEF OneAtATime
      <4> QED BY <1>1, <1>3, <1>4, <3>1, <3>2, <4>1 DEF Freed
    <3>3. CASE p.tab = t /\ p.to # "tab"
      <4>1. tab[t].stamp = "dead" /\ lock \in {Nothing, t} /\ q.to = "browser"
        BY <3>3, LeftFacts DEF OneAtATime
      <4> QED BY <1>1, <1>3, <1>4, <3>1, <3>3, <4>1 DEF Freed
    <3>4. CASE p.tab # t
      <4>1. q.to = p.to
        BY <3>4, LeftFacts
      <4> QED BY <1>3, <1>4, <3>1, <3>4, <4>1 DEF OneAtATime, At, Freed
    <3> QED BY <3>2, <3>3, <3>4
  <2>4. OneAtATime'
    BY <2>1, <2>2, <2>3 DEF OneAtATime
  <2>5. (jar # Nothing /\ Status(jar) = "rotated" => \E p \in post : p.reply = "ok")'
    <3>1. jar # Nothing /\ Status(jar) = "rotated" => \E p \in post : p.reply = "ok"
      BY DEF OneRotation
    <3>2. (\E p \in post : p.reply = "ok") => \E q \in post' : q.reply = "ok"
      BY LeftFacts
    <3> QED BY <1>4, <3>1, <3>2 DEF Status
  <2>6. \A q \in post' : /\ q.reply # "conflict"
                         /\ q.reply = "none" /\ q.token # Nothing => Status(q.token)' # "rotated"
                         /\ q.reply = "ok" => Status(q.fresh)' # "rotated"
    BY <1>5, <1>6, LeftFacts DEF OneRotation
  <2> QED BY <2>4, <2>5, <2>6 DEF OneRotation, Status
<1>11. Kept'
  <2> SUFFICES ASSUME OneBearer, NoneStale PROVE OneBearer' /\ NoneStale'
    BY <1>4 DEF BrowserInv, Kept
  <2>1. ASSUME NEW p \in post, Left(t, p).reply = "ok"
        PROVE  /\ Left(t, p).to # "nobody" /\ Left(t, p).fresh # jar
               /\ \A r \in post : /\ Left(t, r).token # Left(t, p).fresh
                                  /\ Left(t, r).reply = "ok" /\ Left(t, r).fresh = Left(t, p).fresh
                                       => r = p
    BY <2>1, LeftFacts DEF OneBearer
  <2>2. OneBearer'
    BY <1>4, <1>6, <2>1 DEF OneBearer
  <2>3. \A k \in Token : Status(k)' # "breached"
    BY <1>5 DEF NoneStale
  <2>4. (jar # Nothing =>
           /\ Status(jar) = "rotated" => Over(jar) \/ \E p \in post : p.reply = "ok" /\ p.token = jar
           /\ Status(jar) = "dead" => Over(jar))'
    <3>1. jar # Nothing =>
           /\ Status(jar) = "rotated" => Over(jar) \/ \E p \in post : p.reply = "ok" /\ p.token = jar
           /\ Status(jar) = "dead" => Over(jar)
      BY DEF NoneStale
    <3>2. (\E p \in post : p.reply = "ok" /\ p.token = jar)
             => \E q \in post' : q.reply = "ok" /\ q.token = jar
      BY LeftFacts
    <3> QED BY <1>4, <3>1, <3>2 DEF Status, Over, ActiveOf, SessionOf
  <2>5. \A q \in post' : /\ q.reply = "none" /\ q.token # Nothing /\ Status(q.token)' = "dead" => Over(q.token)'
                         /\ q.reply = "ok" => Status(q.fresh)' = "active" \/ Over(q.fresh)'
    BY <1>5, <1>6, LeftFacts DEF NoneStale
  <2>6. NoneStale'
    BY <2>3, <2>4, <2>5 DEF NoneStale, Status, Over, ActiveOf, SessionOf
  <2> QED BY <2>2, <2>6
<1> QED BY <1>7, <1>8, <1>9, <1>10, <1>11 DEF BrowserInv

\* The tab that signs out is unstamped; the others keep what they wait for.
LEMMA SignedOutFacts ==
    ASSUME BrowserInv, NEW t \in Tab, tab' = SignedOut(t)
    PROVE  /\ tab' \in [Tab -> TabRecord] /\ At(t, "idle")'
           /\ \A u \in Tab \ {t} : /\ tab'[u].pc = tab[u].pc /\ tab'[u].stamp = tab[u].stamp
                                   /\ tab'[u].access = Nothing /\ tab'[u].page = tab[u].page
<1>1. /\ Unstamped(Settled(t, Nothing, "login")) \in TabRecord
      /\ Unstamped(Settled(t, Nothing, "login")).pc = "idle"
  BY TabTyped, NoTabIsNothing DEF BrowserInv, TabRecord, Unstamped, Settled
<1>2. \A u \in Tab : LET rec == [tab[u] EXCEPT !.access = Nothing] IN
         /\ rec \in TabRecord /\ rec.pc = tab[u].pc /\ rec.stamp = tab[u].stamp
         /\ rec.access = Nothing /\ rec.page = tab[u].page
  BY TabTyped DEF BrowserInv, TabRecord
<1>3. /\ tab'[t] = Unstamped(Settled(t, Nothing, "login"))
      /\ \A u \in Tab \ {t} : tab'[u] = [tab[u] EXCEPT !.access = Nothing]
      /\ DOMAIN tab' = Tab /\ tab' = [u \in Tab |-> tab'[u]]
  BY DEF SignedOut
<1>4. \A u \in Tab : tab'[u] \in TabRecord
  <2>1. \A u \in Tab \ {t} : tab'[u] \in TabRecord
    BY <1>2, <1>3
  <2>2. tab'[t] \in TabRecord
    BY <1>1, <1>3
  <2> QED BY <2>1, <2>2
<1>5. tab' \in [Tab -> TabRecord]
  BY <1>3, <1>4
<1>6. tab'[t].pc = "idle"
  BY <1>1, <1>3
<1>7. \A u \in Tab \ {t} : /\ tab'[u].pc = tab[u].pc /\ tab'[u].stamp = tab[u].stamp
                           /\ tab'[u].access = Nothing /\ tab'[u].page = tab[u].page
  BY <1>2, <1>3
<1> QED BY <1>5, <1>6, <1>7 DEF At

\* The session the access token names is over, or nothing happens to it.
LEMMA SignOutFacts ==
    ASSUME BrowserInv, NEW t \in Tab, SignOut(t)
    PROVE  /\ ServerAges
           /\ \A k \in Token : /\ SessionOf(k)' = SessionOf(k)
                               /\ Status(k)' # Status(k) => /\ Status(k) = "active"
                                                            /\ Status(k)' = "dead" /\ Over(k)'
<1>1. CASE Ended(Named(t), "dead")
  <2> DEFINE live == Named(t)
  <2>1. /\ live \in SUBSET Token
        /\ \A k \in Token : k \in live <=> Status(k) = "active" /\ SessionOf(k) = tab[t].access
    BY DEF Named, ActiveOf, Status, SessionOf
  <2> HIDE DEF live
  <2>2. \A k \in live : Used(k)
    BY <2>1 DEF Used
  <2>3. Ended(live, "dead")
    BY <1>1 DEF live
  <2>4. /\ ServerAges
        /\ \A k \in Token : /\ SessionOf(k)' = SessionOf(k)
                            /\ Status(k)' = IF k \in live THEN "dead" ELSE Status(k)
    BY <2>1, <2>2, <2>3, EndedAges DEF BrowserInv
  <2>5. ASSUME NEW k \in Token, k \in live PROVE Over(k)'
    <3> SUFFICES ASSUME NEW j \in Token, Status(j)' = "active", SessionOf(j)' = SessionOf(k)'
                 PROVE  FALSE
      BY DEF Over, ActiveOf, Status, SessionOf
    <3> QED BY <2>1, <2>4, <2>5
  <2> QED BY <2>1, <2>4, <2>5
<1>2. CASE UNCHANGED server
  <2>1. ServerAges
    BY <1>2, SameServer DEF BrowserInv
  <2> QED BY <1>2, <2>1 DEF Status, SessionOf
<1> QED BY <1>1, <1>2 DEF SignOut

LEMMA SignOutKeeps == ASSUME BrowserInv, NEW t \in Tab, SignOut(t) PROVE BrowserInv'
<1>1. UNCHANGED <<lock, post, history>> /\ At(t, "idle") /\ tab[t].access # Nothing
  BY DEF SignOut
<1>2. jar' \in {Nothing, jar}
  BY DEF SignOut
<1>3. /\ tab' \in [Tab -> TabRecord] /\ At(t, "idle")'
      /\ \A u \in Tab \ {t} : /\ tab'[u].pc = tab[u].pc /\ tab'[u].stamp = tab[u].stamp
                              /\ tab'[u].access = Nothing
  BY SignedOutFacts DEF SignOut
<1>4. ServerAges
  BY SignOutFacts
<1>5. \A k \in Token : Status(k)' # Status(k) => /\ Status(k) = "active"
                                                 /\ Status(k)' = "dead" /\ Over(k)'
  BY SignOutFacts
<1>6. BrowserTypeOK' /\ Issued' /\ RefusedWhenOver'
  <2>1. jar # Nothing => server'[jar].status # "unused"
    BY <1>4, Held DEF ServerAges, Used, Status
  <2>2. (jar # Nothing => Used(jar))'
    BY <1>2, <2>1 DEF Used, Status
  <2>3. jar' \in Token \cup {Nothing}
    BY <1>2, Held
  <2> QED BY <1>1, <1>3, <1>4, <2>2, <2>3, AgesKeep DEF BrowserInv, BrowserTypeOK
<1>7. \A k \in Token : Status(k)' = "rotated" => Status(k) = "rotated"
  BY <1>5
<1>8. \A k \in Token : /\ Used(k) /\ Over(k) => Over(k)'
                       /\ Used(k) /\ (Status(k) = "dead" => Over(k)) /\ Status(k)' = "dead" => Over(k)'
  BY <1>4, <1>5 DEF ServerAges
<1>9. Channel'
  <2> SUFFICES ASSUME OneAtATime, OneRotation PROVE OneAtATime' /\ OneRotation'
    BY <1>1 DEF BrowserInv, Channel
  <2>1. \A p \in post : p.tab \in Tab \ {t}
    BY <1>1, PostTyped DEF BrowserInv, OneAtATime, At
  <2>2. \A u \in Tab : At(u, "wait")' \/ At(u, "sent")' => lock = u
    BY <1>3 DEF OneAtATime, At
  <2>3. OneAtATime'
    BY <1>1, <1>3, <2>1, <2>2 DEF OneAtATime, At
  <2>4. ASSUME NEW p \in post
        PROVE  /\ p.reply # "conflict"
               /\ p.reply = "none" /\ p.token # Nothing => Status(p.token)' # "rotated"
               /\ p.reply = "ok" => Status(p.fresh)' # "rotated"
    <3>1. /\ p.token # Nothing => p.token \in Token
          /\ p.reply = "ok" => p.fresh \in Token
      BY Held
    <3> QED BY <1>7, <3>1 DEF OneRotation
  <2>5. (jar # Nothing /\ Status(jar) = "rotated" => \E p \in post : p.reply = "ok")'
    <3> SUFFICES ASSUME jar' = jar, jar # Nothing, server'[jar].status = "rotated"
                 PROVE  \E p \in post : p.reply = "ok"
      BY <1>1, <1>2 DEF Status
    <3>1. Status(jar) = "rotated"
      BY <1>7, Held DEF Status
    <3> QED BY <3>1 DEF OneRotation
  <2> QED BY <1>1, <2>3, <2>4, <2>5 DEF OneRotation, Status
<1>10. Kept'
  <2> SUFFICES ASSUME OneBearer, NoneStale PROVE OneBearer' /\ NoneStale'
    BY <1>1 DEF BrowserInv, Kept
  <2>1. OneBearer'
    BY <1>1, <1>2, Held, NoTabIsNothing DEF OneBearer
  <2>2. \A k \in Token : Status(k)' # "breached"
    BY <1>5 DEF NoneStale
  <2>3. (jar # Nothing =>
           /\ Status(jar) = "rotated" => Over(jar) \/ \E p \in post : p.reply = "ok" /\ p.token = jar
           /\ Status(jar) = "dead" => Over(jar))'
    <3> SUFFICES ASSUME jar' = jar, jar # Nothing
                 PROVE  /\ Status(jar)' = "rotated" =>
                             Over(jar)' \/ \E p \in post : p.reply = "ok" /\ p.token = jar
                        /\ Status(jar)' = "dead" => Over(jar)'
      BY <1>1, <1>2 DEF Status, Over, ActiveOf, SessionOf
    <3>1. jar \in Token /\ Used(jar)
      BY Held
    <3>2. Status(jar)' = "dead" => Over(jar)'
      BY <1>8, <3>1 DEF NoneStale
    <3>3. ASSUME Status(jar)' = "rotated"
          PROVE  Over(jar)' \/ \E p \in post : p.reply = "ok" /\ p.token = jar
      <4>1. Status(jar) = "rotated"
        BY <1>7, <3>1, <3>3
      <4>2. Over(jar) => Over(jar)'
        BY <1>8, <3>1
      <4> QED BY <4>1, <4>2 DEF NoneStale
    <3> QED BY <3>2, <3>3
  <2>4. ASSUME NEW p \in post
        PROVE  /\ p.reply = "none" /\ p.token # Nothing /\ Status(p.token)' = "dead" => Over(p.token)'
               /\ p.reply = "ok" => Status(p.fresh)' = "active" \/ Over(p.fresh)'
    <3>1. /\ p.token # Nothing => p.token \in Token /\ Used(p.token)
          /\ p.reply = "ok" => p.fresh \in Token /\ Used(p.fresh)
      BY Held
    <3>2. p.reply = "none" /\ p.token # Nothing /\ Status(p.token)' = "dead" => Over(p.token)'
      BY <1>8, <3>1 DEF NoneStale
    <3>3. p.reply = "ok" => Status(p.fresh)' = "active" \/ Over(p.fresh)'
      BY <1>5, <1>8, <3>1 DEF NoneStale
    <3> QED BY <3>2, <3>3
  <2>5. NoneStale'
    BY <1>1, <2>2, <2>3, <2>4 DEF NoneStale, Status, Over, ActiveOf, SessionOf
  <2> QED BY <2>1, <2>5
<1> QED BY <1>6, <1>9, <1>10 DEF BrowserInv

(***************************************************************************)
(* Every step.                                                             *)
(***************************************************************************)
LEMMA BrowserInvInit == BrowserInit => BrowserInv
<1> SUFFICES ASSUME BrowserInit PROVE BrowserInv
  OBVIOUS
<1>1. 1 \in Token /\ Nothing \notin Token
  BY BrowserAssumption, NoTabIsNothing DEF Token
<1>2. \A t \in Tab : /\ tab[t] \in TabRecord /\ tab[t].pc = "idle"
  BY NoTabIsNothing DEF BrowserInit, TabRecord
<1>3. \A k \in Token : /\ server[k] \in Row
                       /\ k = 1 => Status(k) = "active" /\ SessionOf(k) = 1
                       /\ k # 1 => Status(k) = "unused"
  BY DEF BrowserInit, Row, Status, SessionOf
<1>4. BrowserTypeOK
  <2>1. server \in [Token -> Row] /\ tab \in [Tab -> TabRecord]
    BY <1>2, <1>3 DEF BrowserInit
  <2> QED BY <1>1, <2>1 DEF BrowserInit, BrowserTypeOK, History
<1>5. Issued /\ RefusedWhenOver
  BY <1>1, <1>3 DEF BrowserInit, Issued, RefusedWhenOver, Used
<1>6. Channel
  BY <1>1, <1>2, <1>3 DEF BrowserInit, Channel, OneAtATime, OneRotation, At
<1>7. Kept
  BY <1>1, <1>3 DEF BrowserInit, Kept, OneBearer, NoneStale
<1> QED BY <1>4, <1>5, <1>6, <1>7 DEF BrowserInv

LEMMA BrowserInvStep == BrowserInv /\ [BrowserNext]_browserVars => BrowserInv'
<1> SUFFICES ASSUME BrowserInv, [BrowserNext]_browserVars PROVE BrowserInv'
  OBVIOUS
<1>1. CASE UNCHANGED browserVars
  BY <1>1 DEF browserVars, BrowserInv, BrowserTypeOK, Issued, RefusedWhenOver, Channel, Kept, OneAtATime, OneRotation,
     OneBearer, NoneStale, Used, Over, ActiveOf, Status, SessionOf, At
<1>2. ASSUME NEW t \in Tab, RefreshStep(t) PROVE BrowserInv'
  BY <1>2, StartKeeps, GrantKeeps, PassLockKeeps, AgeOutKeeps, SendKeeps, CutOffKeeps DEF RefreshStep
<1>3. ASSUME NEW t \in Tab, Reload(t) \/ SignOut(t) \/ Login(t) PROVE BrowserInv'
  BY <1>3, ReloadKeeps, SignOutKeeps, LoginKeeps
<1>4. ASSUME NEW p \in post, Serve(p) \/ Land(p) \/ Drop(p) PROVE BrowserInv'
  BY <1>4, ServeKeeps, LandKeeps, DropKeeps
<1>5. ASSUME NEW k \in Token, WindowEnds(k) PROVE BrowserInv'
  BY <1>5, WindowEndsKeeps
<1> QED BY <1>1, <1>2, <1>3, <1>4, <1>5 DEF BrowserNext

LEMMA BrowserInvariant == BrowserSpec => []BrowserInv
BY BrowserInvInit, BrowserInvStep, PTL DEF BrowserSpec

(***************************************************************************)
(* The theorems.                                                           *)
(***************************************************************************)
\* The records of the tabs, of the requests under way and of the server keep
\* their types whatever the number of tabs, tokens, retries and orphans.
THEOREM BrowserTypeCorrect == BrowserSpec => []BrowserTypeOK
BY BrowserInvariant, PTL DEF BrowserInv

\* As long as no wait for the lock was cut short, no stamp aged out under a
\* request, no answer went unheard and no tab took the lock of another's replaced
\* document mid-rotation (refresh-channel.ts), no tab of the browser is ever
\* answered that a refresh is in progress, whatever is reloaded.
THEOREM OneRotationAtATime == BrowserSpec => []NoSelfConflict
<1>1. BrowserInv => NoSelfConflict
  BY DEF BrowserInv, Channel, OneRotation, NoSelfConflict
<1> QED BY <1>1, BrowserInvariant, PTL

\* However many tabs retry, reload and sign in, refresh.py ends a session as
\* stolen only after an answer with its successor was lost or came too late, or a
\* window ended on a replay that was still to be answered.
THEOREM NeverTakenForAThief == BrowserSpec => []SessionKept
<1>1. BrowserInv => SessionKept
  BY DEF BrowserInv, Kept, NoneStale, SessionKept, Status
<1> QED BY <1>1, BrowserInvariant, PTL

\* A refresh that leads to the login page presented a session that is over.
THEOREM LoginOnlyWhenOver == BrowserSpec => SentAwayWhenOver
<1> DEFINE Sent(t) == At(t, "sent") /\ tab'[t].page = "login" /\ tab[t].page # "login"
           Excused(t) == \E p \in post \ post' :
                            p.tab = t /\ (p.token = Nothing \/ ActiveOf(server[p.token].session) = {})
<1>1. ASSUME BrowserInv, [BrowserNext]_browserVars, NEW t \in Tab, Sent(t) PROVE Excused(t)
  <2>1. CASE UNCHANGED browserVars \/ \E p \in post : Serve(p) \/ Drop(p)
    BY <1>1, <2>1 DEF browserVars, Serve, Drop
  <2>2. CASE \E k \in Token : WindowEnds(k)
    BY <1>1, <2>2 DEF WindowEnds
  <2>3. ASSUME NEW u \in Tab,
               Start(u) \/ Grant(u) \/ PassLock(u) \/ AgeOut(u) \/ Send(u) \/ CutOff(u) \/ Login(u)
        PROVE  FALSE
    <3>1. tab[u] \in TabRecord /\ tab \in [Tab -> TabRecord]
      BY <1>1, TabTyped DEF BrowserInv, BrowserTypeOK
    <3>2. \A v \in Tab \ {u} : tab'[v] = tab[v]
      BY <2>3, <3>1 DEF Start, Grant, PassLock, AgeOut, Send, CutOff, Login, Becomes
    <3>3. CASE Start(u) \/ Grant(u) \/ PassLock(u) \/ AgeOut(u)
      <4>1. tab'[u].page = tab[u].page
        BY <3>1, <3>3 DEF TabRecord, Start, Grant, PassLock, AgeOut, Becomes
      <4> QED BY <1>1, <3>2, <4>1
    <3>4. CASE Send(u) \/ CutOff(u) \/ Login(u)
      <4>1. tab'[u].page = tab[u].page
        BY <3>1, <3>4 DEF TabRecord, Send, CutOff, Login, Becomes, Settled
      <4> QED BY <1>1, <3>2, <4>1
    <3> QED BY <2>3, <3>3, <3>4
  <2>4. ASSUME NEW u \in Tab, Reload(u) PROVE FALSE
    BY <1>1, <2>4 DEF BrowserInv, BrowserTypeOK, Reload, Becomes, TabRecord
  <2>5. ASSUME NEW u \in Tab, SignOut(u) PROVE FALSE
    <3>1. u # t
      BY <1>1, <2>5 DEF SignOut, At
    <3>2. tab'[t].page = tab[t].page
      BY <1>1, <2>5, <3>1, SignedOutFacts DEF SignOut
    <3> QED BY <1>1, <3>2
  <2>6. ASSUME NEW p \in post, Land(p) PROVE Excused(t)
    <3>1. /\ post' = post \ {p}
          /\ p.to = "tab" => Take(p.tab, p)
          /\ p.to # "tab" => tab' = tab
      BY <2>6 DEF Land
    <3>2. p.to = "tab"
      BY <1>1, <3>1
    <3>3. p.tab = t
      BY <1>1, <3>1, <3>2, TakeFacts
    <3>4. p.reply = "refused"
      BY <1>1, <3>1, <3>2, <3>3, TakeFacts
    <3>5. p.token = Nothing \/ ActiveOf(server[p.token].session) = {}
      BY <1>1, <3>4 DEF BrowserInv, RefusedWhenOver, Over, SessionOf
    <3> QED BY <2>6, <3>3, <3>5 DEF Land
  <2> QED BY <1>1, <2>1, <2>2, <2>3, <2>4, <2>5, <2>6 DEF BrowserNext, RefreshStep
<1>2. BrowserInv /\ [BrowserNext]_browserVars =>
        \A t \in Tab : At(t, "sent") /\ tab'[t].page = "login" /\ tab[t].page # "login" =>
           \E p \in post \ post' : p.tab = t /\ (p.token = Nothing \/ ActiveOf(server[p.token].session) = {})
  BY <1>1
<1> QED BY <1>2, BrowserInvariant, PTL DEF BrowserSpec, SentAwayWhenOver
=============================================================================
