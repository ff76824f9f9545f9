------------------------ MODULE KnowledgeDocs_proofs ------------------------
EXTENDS KnowledgeDocs, RecomputeCounts, FiniteSetTheorems, WellFoundedInduction, TLAPS

\* The inductive invariant.
IInv == TypeOK /\ StepsOK /\ LocksOK /\ CreatesOK

\* What a request's record says agrees with its document, locks and rows.
Fits(r, rec, lock) ==
    /\ rec.step \notin {"idle", "answer", "record"} => rec.doc \in Docs
    /\ rec.step # "answer" => \A d \in rec.todo : rec.goal[d] \in Terminal
    /\ rec.step = "answer" => rec.wrote = {} /\ \A d \in rec.todo : rec.goal[d] # "none"
    /\ rec.step \in {"restart", "rewind"} => rec.todo = {}
    /\ \A d \in rec.wrote :
         lock[d] = r /\ row[d] \notin {"none", rec.goal[d]} /\ rec.goal[d] # "none"
    /\ rec.step = "release" => lock[rec.doc] = r /\ row[rec.doc] # "none"

LEMMA FitsAll == StepsOK /\ LocksOK <=> \A r \in Requests : Fits(r, req[r], rowLock)
BY DEF StepsOK, LocksOK, Fits

-----------------------------------------------------------------------------
(* Records, folds and the order of a listing. *)

LEMMA StepsTyped == {"idle", "create", "answer", "record", "refresh", "fold", "count",
                     "restart", "rewind", "drop", "retire", "release"} = Steps
BY DEF Steps

LEMMA IdleTyped == Idle \in RequestRecord /\ \A r, lock : Fits(r, Idle, lock)
BY StepsTyped DEF Idle, RequestRecord, RowStatus, Aggregate, Fits

\* A request that has a document and nothing else.
LEMMA OnTyped ==
    ASSUME NEW step \in Steps, NEW d \in Docs
    PROVE  /\ On(step, d) \in RequestRecord
           /\ On(step, d).step = step /\ On(step, d).doc = d
           /\ On(step, d).wrote = {} /\ On(step, d).todo = {}
BY DEF On, Idle, RequestRecord, RowStatus, Aggregate

LEMMA FoldTyped == \A status : Fold(status) \in Aggregate
BY DEF Fold, Aggregate

\* A page that is not empty has a first document.
LEMMA NextTyped == ASSUME NEW D \in SUBSET Docs, D # {} PROVE NextOf(D) \in D
<1> DEFINE R == OpToRel(<, Nat)
<1>1. IsWellFoundedOn(R, Nat)
  BY NatLessThanWellFounded
<1>2. D \subseteq Nat
  BY DocsAssumption
<1>3. PICK d \in D : \A e \in D : <<e, d>> \notin R
  <2> HIDE DEF R
  <2> QED BY <1>1, <1>2, WFMin
<1>4. \A e \in D : d <= e
  <2> SUFFICES ASSUME NEW e \in D, ~(d <= e) PROVE FALSE
    OBVIOUS
  <2>1. d \in Nat /\ e \in Nat /\ e < d
    BY <1>2
  <2>2. <<e, d>> \in R
    BY <2>1 DEF OpToRel
  <2> QED BY <2>2, <1>3
<1> QED BY <1>4 DEF NextOf

-----------------------------------------------------------------------------
(* The two ways a request can step. *)

LEMMA Taken ==
    ASSUME TypeOK, NEW r \in Requests, NEW rec \in RequestRecord, Becomes(r, rec)
    PROVE  /\ req' \in [Requests -> RequestRecord] /\ req'[r] = rec
           /\ \A s \in Requests \ {r} : req'[s] = req[s]
BY DEF TypeOK, Becomes

\* It goes on within its transaction: rows are at most locked.
LEMMA Moves ==
    ASSUME IInv, NEW r \in Requests, NEW rec \in RequestRecord, Becomes(r, rec),
           UNCHANGED table,
           up' \in [Docs -> UpStatus], restarts' \in [Docs -> 0..MaxRestarts],
           rowLock' \in [Docs -> Requests \cup {None}], kbLock' \in Requests \cup {None},
           \A d \in Docs : up'[d] = "absent" => up[d] = "absent",
           \A d \in Docs : rowLock[d] # None => rowLock'[d] = rowLock[d],
           Fits(r, rec, rowLock'),
           rec.step = "create" =>
             /\ up'[rec.doc] # "absent" /\ row[rec.doc] = "none"
             /\ \A s \in Requests : req[s].step = "create" => req[s].doc # rec.doc
    PROVE  IInv'
<1>1. /\ req' \in [Requests -> RequestRecord] /\ req'[r] = rec
      /\ \A s \in Requests \ {r} : req'[s] = req[s]
  BY Taken DEF IInv
<1>2. row' = row /\ aggregate' = aggregate /\ docCount' = docCount /\ counted' = counted
  BY DEF table
<1>3. TypeOK'
  BY <1>1, <1>2 DEF IInv, TypeOK
<1>4. ASSUME NEW s \in Requests PROVE Fits(s, req[s], rowLock)'
  <2>1. CASE s = r
    BY <1>1, <1>2, <2>1 DEF Fits
  <2>2. CASE s # r
    <3>1. Fits(s, req[s], rowLock) /\ req'[s] = req[s] /\ req[s] \in RequestRecord
      BY <1>1, <2>2, FitsAll DEF IInv, TypeOK
    <3>2. \A d \in Docs : rowLock[d] = s => rowLock'[d] = s
      BY NoneIsNobody
    <3>3. req[s].wrote \subseteq Docs
      BY <3>1 DEF RequestRecord
    <3> QED BY <1>2, <3>1, <3>2, <3>3 DEF Fits
  <2> QED BY <2>1, <2>2
<1>5. (StepsOK /\ LocksOK)'
  BY <1>4 DEF StepsOK, LocksOK, Fits
<1>6. CreatesOK'
  <2>1. \A d \in Docs : up'[d] = "absent" => row'[d] = "none"
    BY <1>2 DEF IInv, CreatesOK
  <2>2. ASSUME NEW s \in Requests, req'[s].step = "create"
        PROVE  up'[req'[s].doc] # "absent" /\ row'[req'[s].doc] = "none"
    <3>1. CASE s = r
      BY <1>1, <1>2, <2>2, <3>1
    <3>2. CASE s # r
      <4>1. req'[s] = req[s] /\ req[s].doc \in Docs
        BY <1>1, <2>2, <3>2 DEF IInv, StepsOK
      <4> QED BY <1>2, <2>2, <4>1 DEF IInv, CreatesOK
    <3> QED BY <3>1, <3>2
  <2>3. ASSUME NEW s \in Requests, NEW q \in Requests, req'[s].step = "create",
               req'[q].step = "create", req'[s].doc = req'[q].doc
        PROVE  s = q
    BY <1>1, <2>3 DEF IInv, CreatesOK
  <2> QED BY <2>1, <2>2, <2>3 DEF CreatesOK
<1> QED BY <1>3, <1>5, <1>6 DEF IInv

\* It ends: it wrote rows it had locked, or the row of the document it created.
LEMMA Finishes ==
    ASSUME IInv, NEW r \in Requests, Ends(r), UNCHANGED dify,
           row' \in [Docs -> RowStatus], aggregate' \in Aggregate,
           docCount' \in Nat, counted' \in [Docs -> Nat],
           \A d \in Docs : row'[d] # row[d] =>
             \/ rowLock[d] = r /\ row[d] # "none"
             \/ req[r].step = "create" /\ d = req[r].doc
    PROVE  IInv'
<1>1. /\ req' \in [Requests -> RequestRecord] /\ req'[r] = Idle
      /\ \A s \in Requests \ {r} : req'[s] = req[s]
  BY Taken, IdleTyped DEF IInv, Ends
<1>2. /\ rowLock' = [d \in Docs |-> IF rowLock[d] = r THEN None ELSE rowLock[d]]
      /\ kbLock' = IF kbLock = r THEN None ELSE kbLock
      /\ up' = up /\ restarts' = restarts
  BY DEF Ends, Unlock, dify
<1>3. TypeOK'
  BY <1>1, <1>2 DEF IInv, TypeOK
<1>4. ASSUME NEW s \in Requests \ {r}, NEW d \in Docs, rowLock[d] = s, row[d] # "none"
      PROVE  rowLock'[d] = s /\ row'[d] = row[d]
  <2>1. rowLock'[d] = s
    BY <1>2, <1>4
  <2>2. ~(req[r].step = "create" /\ d = req[r].doc)
    BY <1>4 DEF IInv, CreatesOK
  <2> QED BY <1>4, <2>1, <2>2
<1>5. ASSUME NEW s \in Requests PROVE Fits(s, req[s], rowLock)'
  <2>1. CASE s = r
    BY <1>1, <2>1, IdleTyped DEF Fits, Idle
  <2>2. CASE s # r
    <3>1. Fits(s, req[s], rowLock) /\ req'[s] = req[s] /\ req[s] \in RequestRecord
      BY <1>1, <2>2, FitsAll DEF IInv, TypeOK
    <3>2. req[s].wrote \subseteq Docs
      BY <3>1 DEF RequestRecord
    <3> QED BY <1>4, <2>2, <3>1, <3>2 DEF Fits
  <2> QED BY <2>1, <2>2
<1>6. (StepsOK /\ LocksOK)'
  BY <1>5 DEF StepsOK, LocksOK, Fits
<1>7. CreatesOK'
  <2>1. ASSUME NEW d \in Docs, up'[d] = "absent" PROVE row'[d] = "none"
    <3>1. up[d] = "absent" /\ row[d] = "none"
      BY <1>2, <2>1 DEF IInv, CreatesOK
    <3>2. ~(req[r].step = "create" /\ d = req[r].doc)
      BY <3>1 DEF IInv, CreatesOK
    <3> QED BY <3>1, <3>2
  <2>2. ASSUME NEW s \in Requests, req'[s].step = "create"
        PROVE  up'[req'[s].doc] # "absent" /\ row'[req'[s].doc] = "none"
    <3>1. s # r
      BY <1>1, <2>2 DEF Idle
    <3>2. req'[s] = req[s] /\ req[s].step = "create" /\ req[s].doc \in Docs
      BY <1>1, <2>2, <3>1 DEF IInv, StepsOK
    <3>3. up[req[s].doc] # "absent" /\ row[req[s].doc] = "none"
      BY <3>2 DEF IInv, CreatesOK
    <3>4. ~(req[r].step = "create" /\ req[s].doc = req[r].doc)
      BY <3>1, <3>2 DEF IInv, CreatesOK
    <3> QED BY <1>2, <3>2, <3>3, <3>4
  <2>3. ASSUME NEW s \in Requests, NEW q \in Requests, req'[s].step = "create",
               req'[q].step = "create", req'[s].doc = req'[q].doc
        PROVE  s = q
    <3>1. s # r /\ q # r
      BY <1>1, <2>3 DEF Idle
    <3> QED BY <1>1, <2>3, <3>1 DEF IInv, CreatesOK
  <2> QED BY <2>1, <2>2, <2>3 DEF CreatesOK
<1> QED BY <1>3, <1>6, <1>7 DEF IInv

\* A request that goes on to another step with the record it has.
LEMMA GotoFits ==
    ASSUME IInv, NEW r \in Requests, NEW step \in Steps \ {"answer"}, NEW lock,
           req[r].step \notin {"idle", "answer"}, req[r].step # "record" \/ step = "record",
           step = "rewind" => req[r].step = "restart", step # "restart",
           \A d \in Docs : rowLock[d] = r => lock[d] = r,
           step = "release" => lock[req[r].doc] = r /\ row[req[r].doc] # "none"
    PROVE  /\ [req[r] EXCEPT !.step = step] \in RequestRecord
           /\ [req[r] EXCEPT !.step = step].step = step
           /\ Fits(r, [req[r] EXCEPT !.step = step], lock)
<1> DEFINE rec == [req[r] EXCEPT !.step = step]
<1>1. req[r] \in RequestRecord /\ Fits(r, req[r], rowLock)
  BY FitsAll DEF IInv, TypeOK
<1>2. /\ rec \in RequestRecord /\ rec.step = step
      /\ rec.doc = req[r].doc /\ rec.todo = req[r].todo /\ rec.goal = req[r].goal
      /\ rec.wrote = req[r].wrote /\ req[r].wrote \subseteq Docs
  BY <1>1 DEF RequestRecord
<1> HIDE DEF rec
<1>3. Fits(r, rec, lock)
  BY <1>1, <1>2 DEF Fits
<1> QED BY <1>2, <1>3 DEF rec

\* The conditions of Moves that do not depend on the record.
LEMMA Kept ==
    ASSUME IInv
    PROVE  /\ up \in [Docs -> UpStatus] /\ restarts \in [Docs -> 0..MaxRestarts]
           /\ row \in [Docs -> RowStatus] /\ aggregate \in Aggregate
           /\ docCount \in Nat /\ counted \in [Docs -> Nat]
           /\ rowLock \in [Docs -> Requests \cup {None}] /\ kbLock \in Requests \cup {None}
           /\ \A r \in Requests : req[r] \in RequestRecord /\ Fits(r, req[r], rowLock)
BY FitsAll DEF IInv, TypeOK

\* Taking the lock of a free row.
LEMMA LockTaken ==
    ASSUME IInv, NEW r \in Requests, NEW d \in Docs, rowLock[d] = None,
           rowLock' = [rowLock EXCEPT ![d] = r]
    PROVE  /\ rowLock' \in [Docs -> Requests \cup {None}] /\ rowLock'[d] = r
           /\ \A e \in Docs : rowLock[e] # None => rowLock'[e] = rowLock[e]
           /\ \A e \in Docs : rowLock[e] = r => rowLock'[e] = r
BY Kept, NoneIsNobody

-----------------------------------------------------------------------------
(* Upload and Dify's progress. *)

LEMMA IndexedKeeps == ASSUME IInv, NEW d \in Docs, Indexed(d) PROVE IInv'
<1>1. PICK t \in Terminal : up' = [up EXCEPT ![d] = t]
  BY DEF Indexed
<1>2. /\ up' \in [Docs -> UpStatus]
      /\ \A e \in Docs : up'[e] = "absent" <=> up[e] = "absent"
  BY <1>1, Kept DEF Indexed, UpStatus, Terminal
<1>3. UNCHANGED <<restarts, table, locks, req>>
  BY DEF Indexed
<1>4. TypeOK'
  BY <1>2, <1>3 DEF IInv, TypeOK, table, locks
<1>5. StepsOK' /\ LocksOK'
  BY <1>3 DEF IInv, StepsOK, LocksOK, table, locks
<1>6. CreatesOK'
  <2>1. \A r \in Requests : req[r].step = "create" => req[r].doc \in Docs
    BY DEF IInv, StepsOK
  <2> QED BY <1>2, <1>3, <2>1 DEF IInv, CreatesOK, table
<1> QED BY <1>4, <1>5, <1>6 DEF IInv

LEMMA OnFits == \A step, d, r, lock : d \in Docs /\ step \in Steps \ {"release"} => Fits(r, On(step, d), lock)
BY OnTyped DEF Fits

LEMMA CreateUpstreamKeeps ==
    ASSUME IInv, NEW r \in Requests, NEW d \in Docs, CreateUpstream(r, d) PROVE IInv'
<1> DEFINE rec == On("create", d)
<1>1. rec \in RequestRecord /\ rec.step = "create" /\ rec.doc = d /\ Fits(r, rec, rowLock')
  BY OnTyped, OnFits, StepsTyped
<1>2. up' = [up EXCEPT ![d] = "indexing"] /\ up[d] = "absent" /\ Becomes(r, rec)
  BY DEF CreateUpstream
<1> HIDE DEF rec
<1>3. /\ up' \in [Docs -> UpStatus] /\ up'[d] # "absent"
      /\ \A e \in Docs : up'[e] = "absent" => up[e] = "absent"
  BY <1>2, Kept DEF UpStatus, Terminal
<1>4. row[d] = "none" /\ \A s \in Requests : req[s].step = "create" => req[s].doc # d
  BY <1>2 DEF IInv, CreatesOK
<1>5. UNCHANGED table /\ restarts' = restarts /\ rowLock' = rowLock /\ kbLock' = kbLock
  BY DEF CreateUpstream, locks
<1> QED BY <1>1, <1>2, <1>3, <1>4, <1>5, Kept, Moves

LEMMA CreateRowKeeps == ASSUME IInv, NEW r \in Requests, CreateRow(r) PROVE IInv'
<1> DEFINE d == req[r].doc
<1>1. d \in Docs /\ req[r].step = "create"
  BY DEF IInv, StepsOK, CreateRow
<1>2. row' = [row EXCEPT ![d] = "indexing"] /\ docCount' = docCount + 1 /\ aggregate' = Fold(row')
  BY DEF CreateRow, Inserted, AddDocument
<1>3. row' \in [Docs -> RowStatus] /\ docCount' \in Nat /\ aggregate' \in Aggregate
  <2>1. row \in [Docs -> RowStatus] /\ docCount \in Nat /\ "indexing" \in RowStatus
    BY Kept DEF RowStatus
  <2>2. aggregate' \in Aggregate
    BY <1>2, FoldTyped, Zenon
  <2>3. row' \in [Docs -> RowStatus]
    BY <1>2, <2>1
  <2>4. docCount' \in Nat
    BY <1>2, <2>1
  <2> QED BY <2>2, <2>3, <2>4
<1>4. \A e \in Docs : row'[e] # row[e] => e = d
  BY <1>2, Kept
<1>5. Ends(r) /\ UNCHANGED dify /\ counted' = counted
  BY DEF CreateRow
<1>6. \A e \in Docs : row'[e] # row[e] => req[r].step = "create" /\ e = req[r].doc
  BY <1>1, <1>4
<1> QED BY <1>3, <1>5, <1>6, Kept, Finishes

-----------------------------------------------------------------------------
(* Observation. *)

\* A step that reads and touches no table: only the record is new.
LEMMA ReadOnly ==
    ASSUME IInv, NEW r \in Requests, NEW rec \in RequestRecord, Becomes(r, rec),
           UNCHANGED <<dify, table, locks>>, Fits(r, rec, rowLock), rec.step # "create"
    PROVE  IInv'
<1>1. /\ UNCHANGED table /\ up' = up /\ restarts' = restarts
      /\ rowLock' = rowLock /\ kbLock' = kbLock
  BY DEF dify, locks
<1> QED BY <1>1, Kept, Moves

LEMMA ObservingTyped ==
    ASSUME IInv, NEW r \in Requests, NEW step \in {"record", "answer"}, NEW D \in SUBSET Docs,
           \A d \in D : up[d] \in Terminal \cup {"indexing"},
           step = "record" => \A d \in D : up[d] \in Terminal
    PROVE  /\ Observing(step, D) \in RequestRecord /\ Observing(step, D).step = step
           /\ Fits(r, Observing(step, D), rowLock)
<1> DEFINE rec == Observing(step, D)
           goal == [d \in Docs |-> IF d \in D THEN up[d] ELSE "none"]
<1>1. goal \in [Docs -> RowStatus] /\ \A d \in D : goal[d] = up[d]
  BY DEF RowStatus
<1> DEFINE pages == (step = "answer")
<1>2. pages \in BOOLEAN
  OBVIOUS
<1>3. rec = [Idle EXCEPT !.step = step, !.todo = D, !.pages = pages, !.goal = goal]
  BY DEF Observing
<1> HIDE DEF goal, rec, pages
<1>4. rec \in RequestRecord
  BY <1>1, <1>2, <1>3, IdleTyped, StepsTyped DEF RequestRecord
<1>5. rec.step = step /\ rec.todo = D /\ rec.goal = goal /\ rec.wrote = {}
  BY <1>3, Zenon DEF Idle
<1>6. Fits(r, rec, rowLock)
  BY <1>1, <1>5 DEF Fits, Terminal
<1> QED BY <1>4, <1>5, <1>6 DEF rec

LEMMA ObserveKeeps == ASSUME IInv, NEW r \in Requests, Observe(r) PROVE IInv'
<1> DEFINE listed == {d \in Docs : up[d] \notin {"absent", "gone"}}
<1>1. \A d \in listed : up[d] \in Terminal \cup {"indexing"}
  BY Kept DEF UpStatus
<1>2. UNCHANGED <<dify, table, locks>>
  BY DEF Observe
<1>3. CASE \E d \in listed : up[d] \in Terminal /\ Becomes(r, Observing("record", {d}))
  <2>1. PICK d \in listed : up[d] \in Terminal /\ Becomes(r, Observing("record", {d}))
    BY <1>3
  <2> DEFINE rec == Observing("record", {d})
  <2>2. rec \in RequestRecord /\ rec.step = "record" /\ Fits(r, rec, rowLock)
    BY <2>1, ObservingTyped
  <2> HIDE DEF rec
  <2>3. Becomes(r, rec)
    BY <2>1 DEF rec
  <2> QED BY <1>2, <2>2, <2>3, ReadOnly
<1>4. CASE Becomes(r, Observing("answer", listed))
  <2> DEFINE rec == Observing("answer", listed)
  <2>1. rec \in RequestRecord /\ rec.step = "answer" /\ Fits(r, rec, rowLock)
    BY <1>1, ObservingTyped
  <2> HIDE DEF rec
  <2>2. Becomes(r, rec)
    BY <1>4 DEF rec
  <2> QED BY <1>2, <2>1, <2>2, ReadOnly
<1> QED BY <1>3, <1>4 DEF Observe

LEMMA AnswerKeeps == ASSUME IInv, NEW r \in Requests, Answer(r) PROVE IInv'
<1> DEFINE answered == [d \in Docs |-> IF d \in req[r].todo /\ req[r].goal[d] \notin Terminal
                                       THEN row[d] ELSE req[r].goal[d]]
           done == {d \in req[r].todo : answered[d] \in Terminal}
           goal == [d \in Docs |-> IF d \in done THEN answered[d] ELSE "none"]
           rec == [req[r] EXCEPT !.step = "record", !.todo = done, !.goal = goal]
<1>1. req[r] \in RequestRecord /\ req[r].step = "answer" /\ req[r].wrote = {}
  BY Kept DEF Answer, Fits
<1>2. done \subseteq Docs /\ goal \in [Docs -> RowStatus] /\ \A d \in done : goal[d] \in Terminal
  BY <1>1 DEF RequestRecord, RowStatus
<1>3. Becomes(r, rec) /\ UNCHANGED <<dify, table, locks>>
  BY DEF Answer
<1> HIDE DEF done, goal
<1>4. /\ rec \in RequestRecord /\ rec.step = "record" /\ rec.todo = done /\ rec.goal = goal
      /\ rec.wrote = {}
  BY <1>1, <1>2, StepsTyped DEF RequestRecord
<1> HIDE DEF rec
<1>5. Fits(r, rec, rowLock)
  BY <1>2, <1>4 DEF Fits
<1> QED BY <1>3, <1>4, <1>5, ReadOnly

LEMMA SkipKeeps == ASSUME IInv, NEW r \in Requests, Skip(r) PROVE IInv'
<1> DEFINE d == NextOf(req[r].todo)
           rec == [req[r] EXCEPT !.todo = @ \ {d}]
<1>1. req[r] \in RequestRecord /\ req[r].step = "record" /\ Fits(r, req[r], rowLock)
  BY Kept DEF Skip
<1>2. /\ rec \in RequestRecord /\ rec.step = "record" /\ rec.todo \subseteq req[r].todo
      /\ rec.goal = req[r].goal /\ rec.wrote = req[r].wrote
  BY <1>1 DEF RequestRecord
<1>3. Becomes(r, rec) /\ UNCHANGED <<dify, table, locks>>
  BY DEF Skip
<1> HIDE DEF rec
<1>4. Fits(r, rec, rowLock)
  BY <1>1, <1>2 DEF Fits
<1> QED BY <1>2, <1>3, <1>4, ReadOnly

LEMMA TransitionKeeps == ASSUME IInv, NEW r \in Requests, Transition(r) PROVE IInv'
<1> DEFINE d == NextOf(req[r].todo)
           rec == [req[r] EXCEPT !.step = "refresh", !.doc = d,
                                 !.todo = @ \ {d}, !.wrote = @ \cup {d}]
<1>1. /\ req[r] \in RequestRecord /\ req[r].step = "record" /\ Fits(r, req[r], rowLock)
      /\ req[r].todo # {}
  BY Kept DEF Transition
<1>2. req[r].todo \subseteq Docs /\ req[r].wrote \subseteq Docs
  BY <1>1 DEF RequestRecord
<1>3. d \in req[r].todo
  BY <1>1, <1>2, NextTyped
<1>4. /\ rowLock[d] = None /\ row[d] \notin {"none", req[r].goal[d]}
      /\ rowLock' = [rowLock EXCEPT ![d] = r]
      /\ UNCHANGED <<dify, table, kbLock>>
  BY DEF Transition, Records
<1>5. Becomes(r, rec)
  BY DEF Transition
<1> HIDE DEF d
<1>6. /\ rec \in RequestRecord /\ rec.step = "refresh" /\ rec.doc = d
      /\ rec.todo \subseteq req[r].todo /\ rec.goal = req[r].goal
      /\ rec.wrote = req[r].wrote \cup {d}
  BY <1>1, <1>2, <1>3, StepsTyped DEF RequestRecord
<1> HIDE DEF rec
<1>7. /\ rowLock' \in [Docs -> Requests \cup {None}] /\ rowLock'[d] = r
      /\ \A e \in Docs : rowLock[e] # None => rowLock'[e] = rowLock[e]
      /\ \A e \in Docs : rowLock[e] = r => rowLock'[e] = r
  BY <1>2, <1>3, <1>4, LockTaken
<1>8. Fits(r, rec, rowLock')
  <2>1. req[r].goal[d] \in Terminal
    BY <1>1, <1>3 DEF Fits
  <2> QED BY <1>1, <1>2, <1>3, <1>4, <1>6, <1>7, <2>1 DEF Fits, Terminal
<1>9. UNCHANGED table /\ up' = up /\ restarts' = restarts /\ kbLock' = kbLock
  BY <1>4 DEF dify
<1> QED BY <1>5, <1>6, <1>7, <1>8, <1>9, Kept, Moves

LEMMA RefreshKeeps == ASSUME IInv, NEW r \in Requests, Refresh(r) PROVE IInv'
<1> DEFINE fold == Fold(Seen(r))
           rec == [req[r] EXCEPT !.step = "fold", !.fold = fold]
<1>1. req[r] \in RequestRecord /\ req[r].step = "refresh" /\ Fits(r, req[r], rowLock)
  BY Kept DEF Refresh
<1>2. fold \in Aggregate
  BY FoldTyped
<1>3. Becomes(r, rec) /\ UNCHANGED <<dify, table, locks>>
  BY DEF Refresh
<1> HIDE DEF fold
<1>4. /\ rec \in RequestRecord /\ rec.step = "fold" /\ rec.doc = req[r].doc
      /\ rec.todo = req[r].todo /\ rec.goal = req[r].goal /\ rec.wrote = req[r].wrote
  BY <1>1, <1>2, StepsTyped DEF RequestRecord
<1> HIDE DEF rec
<1>5. Fits(r, rec, rowLock)
  BY <1>1, <1>4 DEF Fits
<1> QED BY <1>3, <1>4, <1>5, ReadOnly

LEMMA WriteKeeps == ASSUME IInv, NEW r \in Requests, Write(r) PROVE IInv'
<1> DEFINE step == IF req[r].pages /\ req[r].goal[req[r].doc] = "completed"
                     THEN "count" ELSE "record"
           rec == [req[r] EXCEPT !.step = step]
<1>1. step \in {"count", "record"} /\ step \in Steps \ {"answer"}
  BY StepsTyped
<1>2. /\ req[r].step = "fold" /\ kbLock' = r /\ Goto(r, step)
      /\ UNCHANGED <<dify, table, rowLock>>
  BY DEF Write
<1> HIDE DEF step
<1>3. rec \in RequestRecord /\ rec.step = step /\ Fits(r, rec, rowLock)
  BY <1>1, <1>2, GotoFits
<1>4. Becomes(r, rec)
  BY <1>2 DEF Goto
<1> HIDE DEF rec
<1>5. /\ UNCHANGED table /\ up' = up /\ restarts' = restarts /\ rowLock' = rowLock
      /\ kbLock' \in Requests \cup {None}
  BY <1>2 DEF dify
<1> QED BY <1>1, <1>3, <1>4, <1>5, Kept, Moves

LEMMA CountKeeps == ASSUME IInv, NEW r \in Requests, Count(r) PROVE IInv'
<1> DEFINE rec == [req[r] EXCEPT !.step = "record"]
<1>1. req[r].step = "count" /\ Goto(r, "record") /\ UNCHANGED <<dify, table, locks>>
  BY DEF Count
<1>2. rec \in RequestRecord /\ rec.step = "record" /\ Fits(r, rec, rowLock)
  BY <1>1, StepsTyped, GotoFits
<1>3. Becomes(r, rec)
  BY <1>1 DEF Goto
<1> HIDE DEF rec
<1> QED BY <1>1, <1>2, <1>3, ReadOnly

\* What a commit does to the rows and to the segments.
LEMMA CommitFacts ==
    ASSUME IInv, NEW r \in Requests, Commit(r)
    PROVE  /\ row' \in [Docs -> RowStatus] /\ counted' \in [Docs -> Nat]
           /\ \A d \in Docs :
                \/ /\ d \in req[r].wrote /\ rowLock[d] = r
                   /\ row[d] # "none" /\ row'[d] # "none" /\ row'[d] # row[d]
                   /\ counted'[d] = counted[d] + (IF row'[d] = "completed" THEN 1 ELSE 0)
                \/ row'[d] = row[d] /\ counted'[d] = counted[d]
<1>1. /\ req[r] \in RequestRecord /\ Fits(r, req[r], rowLock)
      /\ row \in [Docs -> RowStatus] /\ counted \in [Docs -> Nat]
  BY Kept
<1>2. req[r].goal \in [Docs -> RowStatus]
  BY <1>1 DEF RequestRecord
<1>3. /\ row' = [d \in Docs |-> IF d \in req[r].wrote THEN req[r].goal[d] ELSE row[d]]
      /\ counted' = [d \in Docs |-> IF d \in Adds(r) THEN counted[d] + 1 ELSE counted[d]]
  BY DEF Commit, Seen
<1>4. row' \in [Docs -> RowStatus] /\ counted' \in [Docs -> Nat]
  BY <1>1, <1>2, <1>3
<1>5. ASSUME NEW d \in Docs
      PROVE  \/ /\ d \in req[r].wrote /\ rowLock[d] = r
                /\ row[d] # "none" /\ row'[d] # "none" /\ row'[d] # row[d]
                /\ counted'[d] = counted[d] + (IF row'[d] = "completed" THEN 1 ELSE 0)
             \/ row'[d] = row[d] /\ counted'[d] = counted[d]
  <2>1. d \in Adds(r) <=> d \in req[r].wrote /\ req[r].goal[d] = "completed"
    BY DEF Adds
  <2>2. CASE d \in req[r].wrote
    <3>1. row'[d] = req[r].goal[d] /\ counted[d] \in Nat
      BY <1>1, <1>3, <2>2
    <3>2. rowLock[d] = r /\ row[d] # "none" /\ row'[d] # "none" /\ row'[d] # row[d]
      BY <1>1, <2>2, <3>1 DEF Fits
    <3>3. counted'[d] = counted[d] + (IF row'[d] = "completed" THEN 1 ELSE 0)
      BY <1>3, <2>1, <2>2, <3>1
    <3> QED BY <2>2, <3>2, <3>3
  <2>3. CASE d \notin req[r].wrote
    BY <1>3, <2>1, <2>3
  <2> QED BY <2>2, <2>3
<1> QED BY <1>4, <1>5

LEMMA CommitKeeps == ASSUME IInv, NEW r \in Requests, Commit(r) PROVE IInv'
<1>1. req[r].fold \in Aggregate
  BY Kept DEF RequestRecord
<1>2. Ends(r) /\ UNCHANGED dify /\ docCount' = docCount /\ aggregate' \in Aggregate
  BY <1>1 DEF Commit
<1> QED BY <1>2, Kept, CommitFacts, Finishes

\* A transaction that ends without a change.
LEMMA EndsKeeps == ASSUME IInv, NEW r \in Requests, Ends(r), UNCHANGED <<dify, table>> PROVE IInv'
<1>1. row' = row /\ aggregate' = aggregate /\ docCount' = docCount /\ counted' = counted
  BY DEF table
<1> QED BY <1>1, Kept, Finishes

-----------------------------------------------------------------------------
(* Retry and deletion. *)

LEMMA ReadFailedKeeps ==
    ASSUME IInv, NEW r \in Requests, NEW d \in Docs, ReadFailed(r, d) PROVE IInv'
<1> DEFINE rec == On("restart", d)
<1>1. rec \in RequestRecord /\ rec.step = "restart" /\ Fits(r, rec, rowLock)
  BY OnTyped, OnFits, StepsTyped
<1>2. Becomes(r, rec) /\ UNCHANGED <<dify, table, locks>>
  BY DEF ReadFailed
<1> HIDE DEF rec
<1> QED BY <1>1, <1>2, ReadOnly

LEMMA RestartKeeps == ASSUME IInv, NEW r \in Requests, Restart(r) PROVE IInv'
<1> DEFINE d == req[r].doc
           rec == [req[r] EXCEPT !.step = "rewind"]
<1>1. req[r].step = "restart" /\ Goto(r, "rewind") /\ UNCHANGED <<table, locks>>
  BY DEF Restart
<1>2. d \in Docs /\ up \in [Docs -> UpStatus] /\ restarts \in [Docs -> 0..MaxRestarts]
  BY <1>1, Kept DEF Fits
<1>3. rec \in RequestRecord /\ rec.step = "rewind" /\ Fits(r, rec, rowLock)
  BY <1>1, StepsTyped, GotoFits
<1>4. Becomes(r, rec)
  BY <1>1 DEF Goto
<1>5. /\ up' \in [Docs -> UpStatus] /\ restarts' \in [Docs -> 0..MaxRestarts]
      /\ \A e \in Docs : up'[e] = "absent" => up[e] = "absent"
  <2>1. CASE /\ restarts[d] < MaxRestarts /\ up' = [up EXCEPT ![d] = "indexing"]
             /\ restarts' = [restarts EXCEPT ![d] = @ + 1]
    <3> HIDE DEF d
    <3>1. restarts[d] + 1 \in 0..MaxRestarts /\ "indexing" \in UpStatus
      BY <1>2, <2>1, DocsAssumption DEF UpStatus
    <3> QED BY <1>2, <2>1, <3>1
  <2>2. CASE UNCHANGED dify
    BY <1>2, <2>2 DEF dify
  <2> QED BY <2>1, <2>2 DEF Restart
<1>6. rowLock' = rowLock /\ kbLock' = kbLock /\ UNCHANGED table
  BY <1>1 DEF locks
<1> HIDE DEF rec
<1> QED BY <1>3, <1>4, <1>5, <1>6, Kept, Moves

LEMMA RewindKeeps == ASSUME IInv, NEW r \in Requests, Rewind(r) PROVE IInv'
<1> DEFINE d == req[r].doc
           goal == [req[r].goal EXCEPT ![d] = "indexing"]
           rec == [req[r] EXCEPT !.step = "refresh", !.wrote = {d}, !.goal = goal]
<1>1. req[r].step = "rewind" /\ UNCHANGED <<dify, table, kbLock>>
  BY DEF Rewind
<1>2. req[r] \in RequestRecord /\ d \in Docs /\ Fits(r, req[r], rowLock)
  BY <1>1, Kept DEF Fits
<1>3. UNCHANGED table /\ up' = up /\ restarts' = restarts /\ kbLock' = kbLock
  BY <1>1 DEF dify
<1>4. CASE Goto(r, "refresh") /\ UNCHANGED rowLock
  <2> DEFINE same == [req[r] EXCEPT !.step = "refresh"]
  <2>1. same \in RequestRecord /\ same.step = "refresh" /\ Fits(r, same, rowLock)
    BY <1>1, StepsTyped, GotoFits
  <2>2. Becomes(r, same)
    BY <1>4 DEF Goto
  <2> HIDE DEF same
  <2> QED BY <1>3, <1>4, <2>1, <2>2, Kept, Moves
<1>5. CASE /\ row[d] = "failed" /\ rowLock[d] = None /\ rowLock' = [rowLock EXCEPT ![d] = r]
           /\ Becomes(r, rec)
  <2>1. req[r].goal \in [Docs -> RowStatus]
    BY <1>2 DEF RequestRecord
  <2> HIDE DEF d
  <2>2. /\ goal \in [Docs -> RowStatus] /\ goal[d] = "indexing"
        /\ \A e \in Docs \ {d} : goal[e] = req[r].goal[e]
    BY <1>2, <2>1 DEF RowStatus
  <2> HIDE DEF goal
  <2>3. /\ rec \in RequestRecord /\ rec.step = "refresh" /\ rec.wrote = {d} /\ rec.goal = goal
        /\ rec.doc = req[r].doc /\ rec.todo = req[r].todo
    BY <1>2, <2>2, StepsTyped DEF RequestRecord
  <2> HIDE DEF rec
  <2>4. /\ rowLock' \in [Docs -> Requests \cup {None}] /\ rowLock'[d] = r
        /\ \A e \in Docs : rowLock[e] # None => rowLock'[e] = rowLock[e]
    BY <1>2, <1>5, LockTaken
  <2>5. Fits(r, rec, rowLock')
    BY <1>1, <1>2, <1>5, <2>2, <2>3, <2>4 DEF Fits, d
  <2> QED BY <1>3, <1>5, <2>3, <2>4, <2>5, Kept, Moves
<1> QED BY <1>4, <1>5 DEF Rewind

LEMMA ReadTrackedKeeps ==
    ASSUME IInv, NEW r \in Requests, NEW d \in Docs, ReadTracked(r, d) PROVE IInv'
<1> DEFINE owes == (row[d] = "completed")
           base == On("drop", d)
           rec == [base EXCEPT !.owes = owes]
<1>1. base \in RequestRecord /\ base.step = "drop" /\ Fits(r, base, rowLock)
  BY OnTyped, OnFits, StepsTyped
<1>2. Becomes(r, rec) /\ UNCHANGED <<dify, table, locks>>
  BY DEF ReadTracked
<1>3. owes \in BOOLEAN
  OBVIOUS
<1> HIDE DEF owes, base
<1>4. /\ rec \in RequestRecord /\ rec.step = base.step /\ rec.doc = base.doc
      /\ rec.todo = base.todo /\ rec.goal = base.goal /\ rec.wrote = base.wrote
  <2>1. rec \in RequestRecord
    BY <1>1, <1>3 DEF RequestRecord
  <2>2. /\ rec.step = base.step /\ rec.doc = base.doc
        /\ rec.todo = base.todo /\ rec.goal = base.goal /\ rec.wrote = base.wrote
    BY <1>1 DEF RequestRecord
  <2> QED BY <2>1, <2>2
<1> HIDE DEF rec
<1>5. Fits(r, rec, rowLock)
  BY <1>1, <1>4 DEF Fits
<1> QED BY <1>1, <1>2, <1>4, <1>5, ReadOnly

LEMMA DropUpstreamKeeps == ASSUME IInv, NEW r \in Requests, DropUpstream(r) PROVE IInv'
<1> DEFINE d == req[r].doc
           rec == [req[r] EXCEPT !.step = "retire"]
<1>1. req[r].step = "drop" /\ UNCHANGED <<restarts, table, locks>>
  BY DEF DropUpstream
<1>2. d \in Docs
  BY <1>1, Kept DEF Fits
<1>3. CASE up[d] \in Terminal /\ up' = [up EXCEPT ![d] = "gone"] /\ Goto(r, "retire")
  <2>1. rec \in RequestRecord /\ rec.step = "retire" /\ Fits(r, rec, rowLock)
    BY <1>1, StepsTyped, GotoFits
  <2>2. Becomes(r, rec)
    BY <1>3 DEF Goto
  <2>3. /\ up' \in [Docs -> UpStatus]
        /\ \A e \in Docs : up'[e] = "absent" => up[e] = "absent"
    <3> HIDE DEF d
    <3> QED BY <1>2, <1>3, Kept DEF UpStatus
  <2>4. /\ UNCHANGED table /\ restarts' = restarts /\ rowLock' = rowLock /\ kbLock' = kbLock
    BY <1>1 DEF locks
  <2> HIDE DEF rec
  <2> QED BY <2>1, <2>2, <2>3, <2>4, Kept, Moves
<1>4. CASE Becomes(r, Idle) /\ UNCHANGED up
  <2>1. Idle \in RequestRecord /\ Fits(r, Idle, rowLock)
    BY IdleTyped
  <2>2. Idle.step # "create"
    BY DEF Idle
  <2> QED BY <1>1, <1>4, <2>1, <2>2, ReadOnly DEF dify
<1> QED BY <1>3, <1>4 DEF DropUpstream

LEMMA RetireKeeps == ASSUME IInv, NEW r \in Requests, Retire(r) PROVE IInv'
<1> DEFINE d == req[r].doc
           rec == [req[r] EXCEPT !.step = "release"]
<1>1. req[r].step = "retire" /\ UNCHANGED <<dify, table, kbLock>>
  BY DEF Retire
<1>2. d \in Docs
  BY <1>1, Kept DEF Fits
<1>3. CASE Becomes(r, Idle) /\ UNCHANGED rowLock
  <2>1. Idle \in RequestRecord /\ Fits(r, Idle, rowLock)
    BY IdleTyped
  <2>2. Idle.step # "create"
    BY DEF Idle
  <2> QED BY <1>1, <1>3, <2>1, <2>2, ReadOnly DEF locks
<1>4. CASE /\ row[d] # "none" /\ rowLock[d] = None /\ rowLock' = [rowLock EXCEPT ![d] = r]
           /\ Goto(r, "release")
  <2>1. /\ rowLock' \in [Docs -> Requests \cup {None}] /\ rowLock'[d] = r
        /\ \A e \in Docs : rowLock[e] # None => rowLock'[e] = rowLock[e]
        /\ \A e \in Docs : rowLock[e] = r => rowLock'[e] = r
    BY <1>2, <1>4, LockTaken
  <2>2. rec \in RequestRecord /\ rec.step = "release" /\ Fits(r, rec, rowLock')
    <3> DEFINE step == "release"
    <3>1. step \in Steps \ {"answer"} /\ step \notin {"record", "rewind", "restart"}
      BY StepsTyped
    <3>2. rowLock'[req[r].doc] = r /\ row[req[r].doc] # "none"
      BY <1>4, <2>1
    <3> QED BY <1>1, <2>1, <3>1, <3>2, GotoFits
  <2>3. Becomes(r, rec)
    BY <1>4 DEF Goto
  <2>4. UNCHANGED table /\ up' = up /\ restarts' = restarts /\ kbLock' = kbLock
    BY <1>1 DEF dify
  <2> HIDE DEF rec
  <2> QED BY <2>1, <2>2, <2>3, <2>4, Kept, Moves
<1> QED BY <1>3, <1>4 DEF Retire

\* What a deletion does to the rows and the counters.
LEMMA ReleaseFacts ==
    ASSUME IInv, NEW r \in Requests, ReleaseCounts(r)
    PROVE  /\ req[r].doc \in Docs /\ rowLock[req[r].doc] = r /\ row[req[r].doc] # "none"
           /\ row' = [row EXCEPT ![req[r].doc] = "none"]
           /\ row' \in [Docs -> RowStatus]
           /\ docCount' = (IF docCount > 0 THEN docCount - 1 ELSE 0) /\ docCount' \in Nat
           /\ counted' \in [Docs -> Nat]
           /\ \A d \in Docs : counted'[d] <= counted[d]
           /\ \A d \in Docs \ {req[r].doc} : counted'[d] = counted[d]
<1> DEFINE d == req[r].doc
           left == IF req[r].owes /\ counted[d] > 0 THEN counted[d] - 1 ELSE counted[d]
<1>1. d \in Docs /\ rowLock[d] = r /\ row[d] # "none"
  BY Kept DEF Fits, ReleaseCounts
<1>2. row' = [row EXCEPT ![d] = "none"] /\ counted' = [counted EXCEPT ![d] = left]
  BY DEF ReleaseCounts
<1>3. docCount' = (IF docCount > 0 THEN docCount - 1 ELSE 0)
  BY DEF ReleaseCounts
<1>4. row \in [Docs -> RowStatus] /\ counted \in [Docs -> Nat] /\ docCount \in Nat
      /\ "none" \in RowStatus
  BY Kept DEF RowStatus
<1> HIDE DEF d
<1>5. left \in Nat /\ left <= counted[d]
  <2>1. CASE req[r].owes
    BY <1>1, <1>4, <2>1
  <2>2. CASE ~req[r].owes
    BY <1>1, <1>4, <2>2
  <2> QED BY <2>1, <2>2
<1> HIDE DEF left
<1>6. row' \in [Docs -> RowStatus] /\ counted' \in [Docs -> Nat]
  BY <1>2, <1>4, <1>5
<1>7. docCount' \in Nat
  BY <1>3, <1>4
<1>8. \A e \in Docs : counted'[e] <= counted[e]
  BY <1>2, <1>4, <1>5
<1>9. \A e \in Docs \ {d} : counted'[e] = counted[e]
  BY <1>2, <1>4
<1> QED BY <1>1, <1>2, <1>3, <1>6, <1>7, <1>8, <1>9 DEF d

LEMMA ReleaseKeeps == ASSUME IInv, NEW r \in Requests, ReleaseCounts(r) PROVE IInv'
<1>1. aggregate' \in Aggregate
  BY FoldTyped DEF ReleaseCounts
<1>2. \A d \in Docs : row'[d] # row[d] => rowLock[d] = r /\ row[d] # "none"
  BY Kept, ReleaseFacts
<1>3. Ends(r) /\ UNCHANGED dify
  BY DEF ReleaseCounts
<1> QED BY <1>1, <1>2, <1>3, ReleaseFacts, Finishes

-----------------------------------------------------------------------------
(* The invariant. *)

LEMMA IInvInit == Init => IInv
<1> SUFFICES ASSUME Init PROVE IInv
  OBVIOUS
<1>1. \A r \in Requests : req[r] = Idle
  BY DEF Init
<1>2. TypeOK
  BY IdleTyped, DocsAssumption DEF Init, TypeOK, UpStatus, RowStatus, Aggregate
<1>3. StepsOK /\ LocksOK
  BY <1>1, IdleTyped, FitsAll
<1>4. CreatesOK
  BY <1>1 DEF Init, CreatesOK, Idle
<1> QED BY <1>2, <1>3, <1>4 DEF IInv

LEMMA IInvStep == IInv /\ [Next]_vars => IInv'
<1> SUFFICES ASSUME IInv, [Next]_vars PROVE IInv'
  OBVIOUS
<1>1. CASE UNCHANGED vars
  BY <1>1 DEF vars, dify, table, locks, IInv, TypeOK, StepsOK, LocksOK, CreatesOK
<1>2. ASSUME NEW d \in Docs, Indexed(d) PROVE IInv'
  BY <1>2, IndexedKeeps
<1>3. ASSUME NEW r \in Requests, Step(r) PROVE IInv'
  <2>1. CASE \E d \in Docs : CreateUpstream(r, d) \/ ReadFailed(r, d) \/ ReadTracked(r, d)
    BY <2>1, CreateUpstreamKeeps, ReadFailedKeeps, ReadTrackedKeeps
  <2>2. CASE CreateRow(r) \/ Observe(r) \/ Answer(r) \/ Skip(r) \/ Transition(r)
    BY <2>2, CreateRowKeeps, ObserveKeeps, AnswerKeeps, SkipKeeps, TransitionKeeps
  <2>3. CASE Refresh(r) \/ Write(r) \/ Count(r) \/ Commit(r)
    BY <2>3, RefreshKeeps, WriteKeeps, CountKeeps, CommitKeeps
  <2>4. CASE NothingToCommit(r) \/ Rollback(r)
    BY <2>4, EndsKeeps DEF NothingToCommit, Rollback
  <2>5. CASE Restart(r) \/ Rewind(r) \/ DropUpstream(r) \/ Retire(r) \/ ReleaseCounts(r)
    BY <2>5, RestartKeeps, RewindKeeps, DropUpstreamKeeps, RetireKeeps, ReleaseKeeps
  <2> QED BY <1>3, <2>1, <2>2, <2>3, <2>4, <2>5 DEF Step
<1> QED BY <1>1, <1>2, <1>3 DEF Next

\* Only these steps write the tables.
LEMMA TableKept ==
    [Next]_vars => \/ UNCHANGED table
                   \/ \E r \in Requests : CreateRow(r) \/ ReleaseCounts(r) \/ Commit(r)
BY DEF Next, Step, vars, Indexed, CreateUpstream, ReadFailed, ReadTracked, Observe, Answer,
       Skip, Transition, Refresh, Write, Count, NothingToCommit, Restart, Rewind,
       DropUpstream, Retire, Rollback

\* The parts the invariants rest on, together.
THEOREM KnowledgeInvariant == Spec => []IInv
BY IInvInit, IInvStep, PTL DEF Spec

\* Rows, locks and requests keep their shape.
THEOREM KnowledgeTypeCorrect == Spec => []TypeOK
<1>1. IInv => TypeOK
  BY DEF IInv
<1> QED BY <1>1, KnowledgeInvariant, PTL

-----------------------------------------------------------------------------
(* doc_count. *)

LEMMA RowsFinite == IsFiniteSet(Rows) /\ Cardinality(Rows) \in Nat
<1>1. Rows \in SUBSET Docs
  BY DEF Rows
<1> QED BY <1>1, DocsAssumption, FS_Subset, FS_CardinalityType

LEMMA CountInit == Init => DocCountIsExact
<1> SUFFICES ASSUME Init PROVE docCount = Cardinality(Rows)
  BY DEF DocCountIsExact
<1>1. Rows = {}
  BY DEF Init, Rows
<1>2. docCount = 0
  BY DEF Init
<1> QED BY <1>1, <1>2, FS_EmptySet

\* The rows and the counter change together, in one commit.
LEMMA CountStep == IInv /\ DocCountIsExact /\ [Next]_vars => DocCountIsExact'
<1> SUFFICES ASSUME IInv, DocCountIsExact, [Next]_vars PROVE docCount' = Cardinality(Rows')
  BY DEF DocCountIsExact
<1>1. docCount = Cardinality(Rows)
  BY DEF DocCountIsExact
<1>2. ASSUME docCount' = docCount, \A d \in Docs : row'[d] # "none" <=> row[d] # "none"
      PROVE  docCount' = Cardinality(Rows')
  <2>1. Rows' = Rows
    BY <1>2 DEF Rows
  <2> QED BY <1>1, <1>2, <2>1
<1>3. ASSUME UNCHANGED table PROVE docCount' = Cardinality(Rows')
  BY <1>2, <1>3 DEF table
<1>4. ASSUME NEW r \in Requests, CreateRow(r) PROVE docCount' = Cardinality(Rows')
  <2> DEFINE d == req[r].doc
  <2>1. d \in Docs /\ row[d] = "none" /\ docCount' = docCount + 1
    BY <1>4 DEF CreateRow, AddDocument, IInv, StepsOK, CreatesOK
  <2>2. row' = [row EXCEPT ![d] = "indexing"] /\ row \in [Docs -> RowStatus]
    BY <1>4, Kept DEF CreateRow, Inserted
  <2> HIDE DEF d
  <2>3. Rows' = Rows \cup {d} /\ d \notin Rows
    BY <2>1, <2>2 DEF Rows
  <2> QED BY <1>1, <2>1, <2>3, RowsFinite, FS_AddElement
<1>5. ASSUME NEW r \in Requests, ReleaseCounts(r) PROVE docCount' = Cardinality(Rows')
  <2> DEFINE d == req[r].doc
  <2>1. d \in Docs /\ row[d] # "none" /\ docCount' = (IF docCount > 0 THEN docCount - 1 ELSE 0)
    BY <1>5, ReleaseFacts
  <2>2. row' = [row EXCEPT ![d] = "none"] /\ row \in [Docs -> RowStatus]
    BY <1>5, Kept, ReleaseFacts
  <2> HIDE DEF d
  <2>3. Rows' = Rows \ {d} /\ d \in Rows
    BY <2>1, <2>2 DEF Rows
  <2>4. Cardinality(Rows') = Cardinality(Rows) - 1
    BY <2>3, RowsFinite, FS_RemoveElement
  <2>5. Cardinality(Rows) > 0
    BY <2>3, RowsFinite, FS_EmptySet
  <2> QED BY <1>1, <2>1, <2>4, <2>5
<1>6. ASSUME NEW r \in Requests, Commit(r) PROVE docCount' = Cardinality(Rows')
  <2>1. docCount' = docCount
    BY <1>6 DEF Commit
  <2>2. \A d \in Docs : row'[d] # "none" <=> row[d] # "none"
    BY <1>6, CommitFacts
  <2> QED BY <1>2, <2>1, <2>2
<1>7. CASE \E r \in Requests : CreateRow(r) \/ ReleaseCounts(r) \/ Commit(r)
  BY <1>4, <1>5, <1>6, <1>7
<1>8. CASE ~ \E r \in Requests : CreateRow(r) \/ ReleaseCounts(r) \/ Commit(r)
  BY <1>3, <1>8, TableKept
<1> QED BY <1>7, <1>8

\* doc_count is the number of document rows, whatever uploads, deletions and
\* failures interleave.
THEOREM DocCountExact == Spec => []DocCountIsExact
BY CountInit, CountStep, KnowledgeInvariant, PTL DEF Spec

-----------------------------------------------------------------------------
(* Segments. *)

LEMMA CompletedStep == IInv /\ CompletedIsCounted /\ [Next]_vars => CompletedIsCounted'
<1> SUFFICES ASSUME IInv, CompletedIsCounted, [Next]_vars, NEW d \in Docs,
                    row'[d] = "completed"
             PROVE  counted'[d] > 0
  BY DEF CompletedIsCounted
<1>1. counted[d] \in Nat /\ (row[d] = "completed" => counted[d] > 0)
  BY Kept DEF CompletedIsCounted
<1>2. ASSUME NEW r \in Requests, CreateRow(r) PROVE counted'[d] > 0
  <2>1. row' = [row EXCEPT ![req[r].doc] = "indexing"] /\ counted' = counted
    BY <1>2 DEF CreateRow, Inserted
  <2>2. row[d] = "completed"
    BY <2>1, Kept
  <2> QED BY <1>1, <2>1, <2>2
<1>3. ASSUME NEW r \in Requests, ReleaseCounts(r) PROVE counted'[d] > 0
  <2>1. d # req[r].doc /\ row'[d] = row[d] /\ counted'[d] = counted[d]
    BY <1>3, Kept, ReleaseFacts
  <2> QED BY <1>1, <2>1
<1>4. ASSUME NEW r \in Requests, Commit(r) PROVE counted'[d] > 0
  <2>1. \/ counted'[d] = counted[d] + 1
        \/ row'[d] = row[d] /\ counted'[d] = counted[d]
    BY <1>4, CommitFacts
  <2> QED BY <1>1, <2>1
<1>5. CASE UNCHANGED table
  BY <1>1, <1>5 DEF table
<1> QED BY <1>2, <1>3, <1>4, <1>5, TableKept

\* A document is never recorded as completed without its segments.
THEOREM CompletedCounted == Spec => []CompletedIsCounted
<1>1. Init => CompletedIsCounted
  BY DEF Init, CompletedIsCounted
<1> QED BY <1>1, CompletedStep, KnowledgeInvariant, PTL DEF Spec

LEMMA CountedStep ==
    IInv /\ [Next]_vars =>
      [\A d \in Docs : counted'[d] > counted[d] =>
         /\ row[d] # "completed" /\ row'[d] = "completed"
         /\ counted'[d] = counted[d] + 1]_vars
<1> SUFFICES ASSUME IInv, [Next]_vars, NEW d \in Docs, counted'[d] > counted[d]
             PROVE  /\ row[d] # "completed" /\ row'[d] = "completed"
                    /\ counted'[d] = counted[d] + 1
  OBVIOUS
<1>1. counted[d] \in Nat /\ counted'[d] # counted[d]
  BY Kept
<1>2. ASSUME NEW r \in Requests, ReleaseCounts(r) PROVE FALSE
  <2>1. counted'[d] <= counted[d] /\ counted'[d] \in Nat
    BY <1>2, ReleaseFacts
  <2> QED BY <1>1, <2>1
<1>3. ASSUME NEW r \in Requests, Commit(r)
      PROVE  row[d] # "completed" /\ row'[d] = "completed" /\ counted'[d] = counted[d] + 1
  <2>1. /\ row'[d] # row[d]
        /\ counted'[d] = counted[d] + (IF row'[d] = "completed" THEN 1 ELSE 0)
    BY <1>1, <1>3, CommitFacts
  <2> QED BY <1>1, <2>1
<1>4. ASSUME NEW r \in Requests, CreateRow(r) PROVE FALSE
  BY <1>1, <1>4 DEF CreateRow
<1>5. CASE UNCHANGED table
  BY <1>1, <1>5 DEF table
<1> QED BY <1>2, <1>3, <1>4, <1>5, TableKept

\* Segments are added by a move into completed only, and once for it.
THEOREM CountedOnce == Spec => CountedByTransition
BY CountedStep, KnowledgeInvariant, PTL DEF Spec, CountedByTransition

-----------------------------------------------------------------------------
(* The recompute script: what a job has read, and what has moved since. *)

\* A total that was n has risen or fallen only as the run has been told.
Band(r, k, n) ==
    /\ k \notin shrunk[r] => chunks[k] >= n /\ (k \in grown[r] => chunks[k] > n)
    /\ k \notin grown[r] => chunks[k] <= n

\* A run knows what its bases held, up to what it was told.
WatchOK(r) == r \in Reading =>
    \A k \in Bases : job[r].read[k] # Gone /\ chunks[k] # Gone => Band(r, k, job[r].read[k])

\* The documents of an undisturbed base are those it probes.
ListOK(r) == job[r].phase \in {"probe", "apply"} =>
    \A k \in Bases \ (disturbed[r] \cup job[r].blocked) : job[r].read[k] # Gone =>
      /\ Completed(k) \subseteq held
      /\ (job[r].found \cup job[r].left) \cap DocumentsOf(k) = Completed(k)

\* What it is to write differs, and what it has written it holds locked.
WriteOK(r) ==
    /\ job[r].phase \in {"idle", "documents", "probe", "over"} => job[r].wrote = {}
    /\ job[r].phase = "documents" => job[r].found = {}
    /\ job[r].phase = "apply" => /\ job[r].left = {}
                                 /\ job[r].todo \cup job[r].wrote \subseteq Changes(r)
    /\ \A k \in job[r].wrote : holder[k] = r /\ chunks[k] = job[r].read[k]

RunOK(r) == job[r].phase # "restore" /\ WatchOK(r) /\ ListOK(r) /\ WriteOK(r)

\* A rollback holds what it restores, and it still is what the snapshot says.
RollbackOK(u) ==
    /\ job[u].phase \in {"idle", "restore", "over"}
    /\ job[u].phase = "restore" => job[u].of \in Runs
    /\ job[u].phase # "restore" => job[u].wrote = {}
    /\ \A k \in job[u].wrote :
         /\ holder[k] = u /\ snapshot[job[u].of][k] # Gone
         /\ chunks[k] = snapshot[job[u].of][k].applied

\* A snapshot is of a run that is over, and of a change.
SavedOK(r) == \A k \in Bases : snapshot[r][k] # Gone =>
    /\ job[r].phase = "over" /\ chunks[k] # Gone
    /\ snapshot[r][k].applied # snapshot[r][k].previous
    /\ Band(r, k, snapshot[r][k].applied)

\* A document has a row only in a base that has one.
BasesOK == \A d \in Documents : recorded[d] # "none" => chunks[BaseOf[d]] # Gone

\* The inductive invariant of the script.
RecomputeInv ==
    /\ RecomputeTypeOK /\ BasesOK
    /\ \A r \in Runs : RunOK(r) /\ SavedOK(r)
    /\ \A u \in Rollbacks : RollbackOK(u)

LEMMA SizeTyped == \A D : Size(D) \in Nat
<1> SUFFICES ASSUME NEW D PROVE Size(D) \in Nat
  OBVIOUS
<1>1. IsFiniteSet({s \in Segments : DocOf[s] \in D})
  BY RecomputeAssumption, FS_Subset
<1> QED BY <1>1, FS_CardinalityType DEF Size

\* No job is the absence of one, and none is both a run and a rollback.
LEMMA JobsApart ==
    /\ \A j \in Jobs : j # Gone
    /\ \A n \in Nat : n # Gone
    /\ \A e \in Entry : e # Gone
    /\ \A r \in Runs, u \in Rollbacks : r # u
BY GoneAssumption, JobsAssumption DEF Jobs

LEMMA NoJobTyped ==
    /\ NoJob \in JobRecord /\ NoJob.phase = "idle" /\ NoJob.wrote = {}
    /\ Over \in JobRecord /\ Over.phase = "over" /\ Over.wrote = {}
<1>1. NoJob.phase = "idle" /\ NoJob.wrote = {} /\ Over.phase = "over" /\ Over.wrote = {}
  BY DEF NoJob, Over
<1>2. [k \in Bases |-> Gone] \in [Bases -> Nat \cup {Gone}]
  OBVIOUS
<1>3. {"idle", "over"} \subseteq Phase
  BY DEF Phase
<1>4. NoJob \in JobRecord
  BY <1>2, <1>3 DEF NoJob, JobRecord
<1>5. Over \in JobRecord
  BY <1>2, <1>3 DEF NoJob, Over, JobRecord
<1> QED BY <1>1, <1>4, <1>5

LEMMA RecomputeStarts == RecomputeInit => RecomputeInv
<1> SUFFICES ASSUME RecomputeInit PROVE RecomputeInv
  OBVIOUS
<1> USE DEF RecomputeInit
<1>1. chunks \in [Bases -> Nat]
  BY SizeTyped
<1>2. job \in [Jobs -> JobRecord] /\ \A j \in Jobs : job[j].phase = "idle" /\ job[j].wrote = {}
  BY NoJobTyped
<1>3. RecomputeTypeOK
  BY <1>1, <1>2 DEF RecomputeTypeOK, DocumentStatus, Deletion
<1>4. BasesOK
  BY <1>1, JobsApart, RecomputeAssumption DEF BasesOK
<1>5. \A r \in Runs : RunOK(r) /\ SavedOK(r)
  BY <1>2 DEF RunOK, SavedOK, WatchOK, ListOK, WriteOK, Reading, Jobs
<1>6. \A u \in Rollbacks : RollbackOK(u)
  BY <1>2 DEF RollbackOK, Jobs
<1> QED BY <1>3, <1>4, <1>5, <1>6 DEF RecomputeInv

-----------------------------------------------------------------------------
(* A step leaves the other jobs what they have. *)

\* What a run is told of a step.
Rises(k) == chunks[k] # Gone /\ chunks'[k] # Gone /\ chunks'[k] > chunks[k]
Falls(k) == chunks[k] # Gone /\ chunks'[k] # Gone /\ chunks'[k] < chunks[k]
Told(r) == \A k \in Bases :
    /\ k \in grown'[r] <=> k \in grown[r] \/ Rises(k)
    /\ k \in shrunk'[r] <=> k \in shrunk[r] \/ Falls(k)

\* What is locked stays, and a base that is gone does not come back.
LocksStay(j) == \A k \in Bases : holder[k] = j =>
    holder'[k] = j /\ chunks'[k] = chunks[k] /\ \A r \in Runs : snapshot'[r][k] = snapshot[r][k]
BasesGo == \A k \in Bases : chunks[k] = Gone => chunks'[k] = Gone

\* The documents of a base stay, or it is disturbed.
ListStays(r) == /\ disturbed[r] \subseteq disturbed'[r]
                /\ \A k \in Bases \ disturbed'[r] :
                     /\ Completed(k)' = Completed(k)
                     /\ held' \cap Completed(k) = held \cap Completed(k)

LEMMA BandStays ==
    ASSUME RecomputeTypeOK, NEW r \in Runs, NEW k \in Bases, NEW n \in Nat,
           chunks[k] \in Nat, chunks'[k] \in Nat, Told(r), Band(r, k, n)
    PROVE  Band(r, k, n)'
<1>1. chunks[k] # Gone /\ chunks'[k] # Gone
  BY JobsApart
<1>2. /\ k \in grown'[r] <=> k \in grown[r] \/ chunks'[k] > chunks[k]
      /\ k \in shrunk'[r] <=> k \in shrunk[r] \/ chunks'[k] < chunks[k]
  BY <1>1 DEF Told, Rises, Falls
<1> QED BY <1>2 DEF Band

LEMMA RunStays ==
    ASSUME RecomputeInv, RecomputeTypeOK', BasesGo, NEW r \in Runs, job'[r] = job[r],
           r \in Reading => Told(r) /\ ListStays(r), LocksStay(r)
    PROVE  RunOK(r)'
<1>1. RunOK(r) /\ RecomputeTypeOK /\ r \in Jobs
  BY DEF RecomputeInv, Jobs
<1>2. WatchOK(r)'
  <2> SUFFICES ASSUME r \in Reading, NEW k \in Bases, job[r].read[k] # Gone, chunks'[k] # Gone
               PROVE  Band(r, k, job[r].read[k])'
    BY DEF WatchOK, Reading
  <2>1. chunks[k] # Gone /\ chunks[k] \in Nat /\ chunks'[k] \in Nat
    BY <1>1 DEF RecomputeTypeOK, BasesGo
  <2>2. job[r].read[k] \in Nat
    BY <1>1 DEF RecomputeTypeOK, JobRecord
  <2>3. Band(r, k, job[r].read[k])
    BY <1>1, <2>1 DEF RunOK, WatchOK
  <2> QED BY <1>1, <2>1, <2>2, <2>3, BandStays DEF Band
<1>3. ListOK(r)'
  BY <1>1 DEF RunOK, ListOK, ListStays, Reading
<1>4. WriteOK(r)'
  BY <1>1 DEF RunOK, WriteOK, Changes, Suggested, LocksStay, RecomputeTypeOK, JobRecord
<1> QED BY <1>1, <1>2, <1>3, <1>4 DEF RunOK

LEMMA RollbackStays ==
    ASSUME RecomputeInv, NEW u \in Rollbacks, job'[u] = job[u], LocksStay(u)
    PROVE  RollbackOK(u)'
<1>1. RollbackOK(u) /\ job[u].wrote \subseteq Bases
  BY DEF RecomputeInv, RecomputeTypeOK, JobRecord, Jobs
<1>2. \A k \in job[u].wrote : job[u].of \in Runs
  BY <1>1 DEF RollbackOK
<1> QED BY <1>1, <1>2 DEF RollbackOK, LocksStay

LEMMA SavedStays ==
    ASSUME RecomputeInv, RecomputeTypeOK', NEW r \in Runs, r \in Saved => Told(r),
           job'[r] = job[r],
           \A k \in Bases : \/ snapshot'[r][k] = Gone
                            \/ snapshot'[r][k] = snapshot[r][k] /\ chunks'[k] # Gone
    PROVE  SavedOK(r)'
<1> SUFFICES ASSUME NEW k \in Bases, snapshot'[r][k] # Gone
             PROVE  /\ job[r].phase = "over" /\ chunks'[k] # Gone
                    /\ snapshot[r][k].applied # snapshot[r][k].previous
                    /\ snapshot'[r][k] = snapshot[r][k]
                    /\ Band(r, k, snapshot[r][k].applied)'
  BY DEF SavedOK, Band
<1>1. snapshot'[r][k] = snapshot[r][k] /\ chunks'[k] # Gone /\ snapshot[r][k] # Gone
  OBVIOUS
<1>2. RecomputeTypeOK /\ SavedOK(r)
  BY DEF RecomputeInv
<1>3. r \in Saved
  BY <1>1 DEF Saved
<1>4. snapshot[r][k] \in Entry /\ chunks[k] \in Nat /\ chunks'[k] \in Nat
  BY <1>1, <1>2 DEF RecomputeTypeOK, SavedOK
<1>5. snapshot[r][k].applied \in Nat
  BY <1>4 DEF Entry
<1> QED BY <1>1, <1>2, <1>3, <1>4, <1>5, BandStays DEF SavedOK, Band

\* All but the jobs that act are left what they have.
LEMMA OthersStay ==
    ASSUME RecomputeInv, RecomputeTypeOK', BasesOK', BasesGo, NEW A \in SUBSET Jobs,
           \A j \in Jobs \ A : job'[j] = job[j] /\ LocksStay(j),
           \A r \in Runs \ A :
             /\ r \in Reading \cup Saved => Told(r)
             /\ r \in Reading => ListStays(r)
             /\ \A k \in Bases : \/ snapshot'[r][k] = Gone
                                 \/ snapshot'[r][k] = snapshot[r][k] /\ chunks'[k] # Gone,
           \A r \in Runs \cap A : RunOK(r)' /\ SavedOK(r)',
           \A u \in Rollbacks \cap A : RollbackOK(u)'
    PROVE  RecomputeInv'
<1>1. \A r \in Runs : RunOK(r)' /\ SavedOK(r)'
  <2> SUFFICES ASSUME NEW r \in Runs, r \notin A PROVE RunOK(r)' /\ SavedOK(r)'
    OBVIOUS
  <2>1. job'[r] = job[r] /\ LocksStay(r)
    BY DEF Jobs
  <2>2. r \in Reading => Told(r) /\ ListStays(r)
    OBVIOUS
  <2>3. RunOK(r)'
    BY <2>1, <2>2, RunStays
  <2>4. SavedOK(r)'
    BY <2>1, SavedStays
  <2> QED BY <2>3, <2>4
<1>2. \A u \in Rollbacks : RollbackOK(u)'
  <2> SUFFICES ASSUME NEW u \in Rollbacks, u \notin A PROVE RollbackOK(u)'
    OBVIOUS
  <2>1. job'[u] = job[u] /\ LocksStay(u)
    BY DEF Jobs
  <2> QED BY <2>1, RollbackStays
<1> QED BY <1>1, <1>2 DEF RecomputeInv

LEMMA TotalsTold ==
    ASSUME RecomputeTypeOK, NEW new \in [Bases -> Nat \cup {Gone}], SetTotals(new)
    PROVE  /\ chunks' = new
           /\ grown' \in [Runs -> SUBSET Bases] /\ shrunk' \in [Runs -> SUBSET Bases]
           /\ \A r \in Reading \cup Saved : Told(r)
<1>1. Risen(new) \in SUBSET Bases /\ Fallen(new) \in SUBSET Bases
  BY DEF Risen, Fallen, Present
<1>2. grown' \in [Runs -> SUBSET Bases] /\ shrunk' \in [Runs -> SUBSET Bases]
  BY <1>1 DEF SetTotals, With, RecomputeTypeOK
<1>3. ASSUME NEW r \in Reading \cup Saved PROVE Told(r)
  <2>1. r \in Runs
    BY DEF Reading, Saved
  <2>2. grown'[r] = grown[r] \cup Risen(new) /\ shrunk'[r] = shrunk[r] \cup Fallen(new)
    BY <2>1 DEF SetTotals, With
  <2>3. chunks' = new
    BY DEF SetTotals
  <2>4. \A k \in Bases : (k \in Risen(new) <=> Rises(k)) /\ (k \in Fallen(new) <=> Falls(k))
    BY <2>3 DEF Risen, Fallen, Present, Rises, Falls
  <2> QED BY <2>2, <2>4 DEF Told
<1> QED BY <1>2, <1>3 DEF SetTotals

\* One total moves.
LEMMA OneTotalMoves ==
    ASSUME RecomputeTypeOK, NEW k \in Bases, chunks[k] \in Nat, NEW n \in Nat,
           SetTotals([chunks EXCEPT ![k] = n])
    PROVE  /\ chunks' \in [Bases -> Nat \cup {Gone}] /\ BasesGo
           /\ grown' \in [Runs -> SUBSET Bases] /\ shrunk' \in [Runs -> SUBSET Bases]
           /\ \A r \in Reading \cup Saved : Told(r)
           /\ \A i \in Bases : i # k => chunks'[i] = chunks[i]
           /\ chunks'[k] = n
<1>1. [chunks EXCEPT ![k] = n] \in [Bases -> Nat \cup {Gone}]
  BY DEF RecomputeTypeOK
<1>2. chunks' = [chunks EXCEPT ![k] = n]
  BY DEF SetTotals
<1>3. BasesGo /\ chunks'[k] = n /\ \A i \in Bases : i # k => chunks'[i] = chunks[i]
  BY <1>2, JobsApart DEF BasesGo, RecomputeTypeOK
<1> QED BY <1>1, <1>2, <1>3, TotalsTold

\* Where no total moves, there is nothing to tell.
LEMMA TotalsStay ==
    ASSUME RecomputeTypeOK, UNCHANGED totals
    PROVE  BasesGo /\ \A r \in Runs : Told(r)
<1>1. \A k \in Bases : ~Rises(k) /\ ~Falls(k)
  BY DEF totals, Rises, Falls, RecomputeTypeOK
<1> QED BY <1>1 DEF totals, BasesGo, Told

\* A base whose documents stay need not be disturbed.
LEMMA ListsStay ==
    ASSUME RecomputeTypeOK, NEW B \in SUBSET Bases, Disturbs(B),
           \A d \in Documents : BaseOf[d] \notin B =>
             /\ recorded'[d] = "completed" <=> recorded[d] = "completed"
             /\ recorded[d] = "completed" => (d \in held' <=> d \in held)
    PROVE  /\ disturbed' \in [Runs -> SUBSET Bases]
           /\ \A r \in Reading : ListStays(r)
<1>1. disturbed' \in [Runs -> SUBSET Bases]
  BY DEF Disturbs, With, RecomputeTypeOK
<1>2. ASSUME NEW r \in Reading PROVE ListStays(r)
  <2>1. r \in Runs /\ disturbed'[r] = disturbed[r] \cup B
    BY DEF Disturbs, With, Reading
  <2>2. ASSUME NEW k \in Bases \ disturbed'[r]
        PROVE  Completed(k)' = Completed(k) /\ held' \cap Completed(k) = held \cap Completed(k)
    BY <2>1 DEF Completed, DocumentsOf
  <2> QED BY <2>1, <2>2 DEF ListStays
<1> QED BY <1>1, <1>2

-----------------------------------------------------------------------------
(* The steps of the API. *)

\* An API transaction finds the rows it changes unlocked.
LEMMA ApiKeeps ==
    ASSUME RecomputeInv, RecomputeTypeOK', BasesOK', BasesGo, UNCHANGED <<job, holder>>,
           \A r \in Reading \cup Saved : Told(r), \A r \in Reading : ListStays(r),
           \A k \in Bases : holder[k] # Gone =>
             chunks'[k] = chunks[k] /\ \A r \in Runs : snapshot'[r][k] = snapshot[r][k],
           \A r \in Runs : \A k \in Bases :
             \/ snapshot'[r][k] = Gone
             \/ snapshot'[r][k] = snapshot[r][k] /\ chunks'[k] # Gone
    PROVE  RecomputeInv'
<1>1. \A j \in Jobs : job'[j] = job[j] /\ LocksStay(j)
  BY JobsApart DEF LocksStay
<1>2. \A r \in Runs : /\ r \in Reading \cup Saved => Told(r)
                      /\ r \in Reading => ListStays(r)
  OBVIOUS
<1> QED BY <1>1, <1>2, OthersStay, {} \in SUBSET Jobs

LEMMA RecordStatusKeeps ==
    ASSUME RecomputeInv, NEW d \in Documents, NEW s \in DocumentStatus \ {"none"},
           RecordStatus(d, s)
    PROVE  RecomputeInv'
<1> DEFINE k == BaseOf[d]
           B == IF "completed" \in {s, recorded[d]} THEN {k} ELSE {}
<1>1. RecomputeTypeOK /\ k \in Bases /\ BasesOK /\ chunks[k] \in Nat
  <2>1. RecomputeTypeOK /\ BasesOK /\ k \in Bases /\ recorded[d] # "none"
    BY RecomputeAssumption DEF RecomputeInv, RecordStatus
  <2> QED BY <2>1 DEF BasesOK, RecomputeTypeOK
<1>2. /\ chunks' \in [Bases -> Nat \cup {Gone}] /\ BasesGo
      /\ grown' \in [Runs -> SUBSET Bases] /\ shrunk' \in [Runs -> SUBSET Bases]
      /\ \A r \in Reading \cup Saved : Told(r)
      /\ \A i \in Bases : i # k => chunks'[i] = chunks[i]
      /\ chunks'[k] \in Nat
  <2>1. CASE s = "completed" /\ SetTotals([chunks EXCEPT ![k] = @ + Size({d})])
    <3>1. chunks[k] + Size({d}) \in Nat
      BY <1>1, SizeTyped
    <3>2. SetTotals([chunks EXCEPT ![k] = chunks[k] + Size({d})])
      BY <2>1
    <3> QED BY <3>1, <3>2, <1>1, OneTotalMoves
  <2>2. CASE UNCHANGED totals
    BY <2>2, <1>1, TotalsStay DEF totals, RecomputeTypeOK, Reading, Saved
  <2> QED BY <2>1, <2>2 DEF RecordStatus
<1>3. /\ disturbed' \in [Runs -> SUBSET Bases]
      /\ \A r \in Reading : ListStays(r)
  <2>1. Disturbs(B)
    BY DEF RecordStatus
  <2>2. \A e \in Documents : BaseOf[e] \notin B =>
           /\ recorded'[e] = "completed" <=> recorded[e] = "completed"
           /\ recorded[e] = "completed" => (e \in held' <=> e \in held)
    BY <1>1 DEF RecordStatus, RecomputeTypeOK
  <2> QED BY <2>1, <2>2, <1>1, ListsStay
<1>4. recorded' \in [Documents -> DocumentStatus] /\ BasesOK'
  <2>1. recorded' = [recorded EXCEPT ![d] = s]
    BY DEF RecordStatus
  <2>2. recorded' \in [Documents -> DocumentStatus]
    BY <2>1, <1>1 DEF RecomputeTypeOK
  <2>3. ASSUME NEW e \in Documents, recorded'[e] # "none" PROVE chunks'[BaseOf[e]] # Gone
    <3>1. recorded[e] # "none"
      BY <2>1, <2>3, <1>1 DEF RecomputeTypeOK, RecordStatus
    <3>2. BaseOf[e] \in Bases /\ chunks[BaseOf[e]] # Gone
      BY <3>1, <1>1, RecomputeAssumption DEF BasesOK
    <3> QED BY <3>2, <1>2, JobsApart
  <2> QED BY <2>2, <2>3 DEF BasesOK
<1>5. RecomputeTypeOK'
  BY <1>1, <1>2, <1>3, <1>4 DEF RecomputeTypeOK, RecordStatus
<1>6. \A i \in Bases : holder[i] # Gone => chunks'[i] = chunks[i]
  BY <1>2 DEF RecordStatus
<1>7. \A r \in Runs : \A i \in Bases : snapshot'[r][i] # Gone =>
         snapshot'[r][i] = snapshot[r][i] /\ chunks'[i] # Gone
  BY <1>2, JobsApart DEF RecordStatus, RecomputeInv, SavedOK
<1>8. UNCHANGED <<job, holder, snapshot>>
  BY DEF RecordStatus
<1> QED BY <1>2, <1>3, <1>4, <1>5, <1>6, <1>7, <1>8, ApiKeeps

LEMMA AskDeleteKeeps ==
    ASSUME RecomputeInv, NEW d \in Documents,
           AskDelete(d) \/ EndDelete(d)
    PROVE  RecomputeInv'
<1>1. /\ UNCHANGED <<recorded, held, totals, job, holder, snapshot, disturbed>>
      /\ \E x \in Deletion : deletion' = [deletion EXCEPT ![d] = x]
  <2>1. {"no", "owing", "free"} \subseteq Deletion
    BY DEF Deletion
  <2> QED BY <2>1 DEF AskDelete, EndDelete
<1>2. RecomputeTypeOK /\ BasesOK
  BY DEF RecomputeInv
<1>3. RecomputeTypeOK' /\ BasesOK'
  BY <1>1, <1>2 DEF RecomputeTypeOK, BasesOK, totals
<1>4. BasesGo /\ \A r \in Runs : Told(r)
  BY <1>1, <1>2, TotalsStay
<1>5. \A r \in Runs : ListStays(r)
  BY <1>1 DEF ListStays, Completed, DocumentsOf
<1> QED BY <1>1, <1>3, <1>4, <1>5, ApiKeeps DEF totals, Reading, Saved, RecomputeInv, SavedOK

LEMMA DropKeeps ==
    ASSUME RecomputeInv, NEW d \in Documents, Drop(d)
    PROVE  RecomputeInv'
<1> DEFINE B == IF recorded[d] = "completed" THEN {BaseOf[d]} ELSE {}
<1>1. /\ UNCHANGED <<recorded, totals, job, holder, snapshot>>
      /\ \E x \in Deletion : deletion' = [deletion EXCEPT ![d] = x]
  <2>1. {"owed", "settled"} \subseteq Deletion
    BY DEF Deletion
  <2> QED BY <2>1 DEF Drop
<1>2. RecomputeTypeOK /\ BasesOK
  BY DEF RecomputeInv
<1>3. BasesGo /\ \A r \in Runs : Told(r)
  BY <1>1, <1>2, TotalsStay
<1>4. disturbed' \in [Runs -> SUBSET Bases] /\ \A r \in Reading : ListStays(r)
  <2>1. Disturbs(B) /\ B \in SUBSET Bases
    BY RecomputeAssumption DEF Drop
  <2>2. \A e \in Documents : BaseOf[e] \notin B =>
           /\ recorded'[e] = "completed" <=> recorded[e] = "completed"
           /\ recorded[e] = "completed" => (e \in held' <=> e \in held)
    BY DEF Drop
  <2> QED BY <2>1, <2>2, <1>2, ListsStay
<1>5. RecomputeTypeOK' /\ BasesOK'
  BY <1>1, <1>2, <1>4 DEF RecomputeTypeOK, BasesOK, totals, Drop
<1> QED BY <1>1, <1>3, <1>4, <1>5, ApiKeeps DEF totals, Reading, Saved, RecomputeInv, SavedOK

LEMMA RetireRowKeeps ==
    ASSUME RecomputeInv, NEW d \in Documents, RetireRow(d)
    PROVE  RecomputeInv'
<1> DEFINE k == BaseOf[d]
           B == IF recorded[d] = "completed" THEN {k} ELSE {}
           n == IF deletion[d] = "owed" THEN Given(chunks[k], d) ELSE chunks[k]
<1>1. RecomputeTypeOK /\ k \in Bases /\ BasesOK /\ chunks[k] \in Nat
  <2>1. RecomputeTypeOK /\ BasesOK /\ k \in Bases /\ recorded[d] # "none"
    BY RecomputeAssumption DEF RecomputeInv, RetireRow
  <2> QED BY <2>1 DEF BasesOK, RecomputeTypeOK
<1>2. n \in Nat /\ SetTotals([chunks EXCEPT ![k] = n])
  BY <1>1, SizeTyped DEF RetireRow, Given
<1>3. /\ chunks' \in [Bases -> Nat \cup {Gone}] /\ BasesGo
      /\ grown' \in [Runs -> SUBSET Bases] /\ shrunk' \in [Runs -> SUBSET Bases]
      /\ \A r \in Reading \cup Saved : Told(r)
      /\ \A i \in Bases : i # k => chunks'[i] = chunks[i]
      /\ chunks'[k] \in Nat
  <2> HIDE DEF n
  <2> QED BY <1>1, <1>2, OneTotalMoves
<1>4. disturbed' \in [Runs -> SUBSET Bases] /\ \A r \in Reading : ListStays(r)
  <2>1. Disturbs(B) /\ B \in SUBSET Bases
    BY <1>1 DEF RetireRow
  <2>2. \A e \in Documents : BaseOf[e] \notin B =>
           /\ recorded'[e] = "completed" <=> recorded[e] = "completed"
           /\ recorded[e] = "completed" => (e \in held' <=> e \in held)
    BY <1>1 DEF RetireRow, RecomputeTypeOK
  <2> QED BY <2>1, <2>2, <1>1, ListsStay
<1>5. /\ recorded' = [recorded EXCEPT ![d] = "none"]
      /\ deletion' = [deletion EXCEPT ![d] = "no"]
      /\ UNCHANGED <<held, job, holder, snapshot>> /\ holder[k] = Gone
  BY DEF RetireRow
<1>6. RecomputeTypeOK'
  BY <1>1, <1>3, <1>4, <1>5 DEF RecomputeTypeOK, DocumentStatus, Deletion
<1>7. BasesOK'
  <2> SUFFICES ASSUME NEW e \in Documents, recorded'[e] # "none" PROVE chunks'[BaseOf[e]] # Gone
    BY DEF BasesOK
  <2>1. BaseOf[e] \in Bases /\ chunks[BaseOf[e]] # Gone
    BY <1>1, <1>5, RecomputeAssumption DEF BasesOK, RecomputeTypeOK
  <2> QED BY <2>1, <1>3, JobsApart
<1>8. \A i \in Bases : holder[i] # Gone => chunks'[i] = chunks[i]
  BY <1>3, <1>5
<1>9. \A r \in Runs : \A i \in Bases : snapshot'[r][i] # Gone =>
         snapshot'[r][i] = snapshot[r][i] /\ chunks'[i] # Gone
  BY <1>3, <1>5, JobsApart DEF RecomputeInv, SavedOK
<1> QED BY <1>3, <1>4, <1>5, <1>6, <1>7, <1>8, <1>9, ApiKeeps

LEMMA DropDatasetKeeps ==
    ASSUME RecomputeInv, NEW k \in Bases, DropDataset(k)
    PROVE  RecomputeInv'
<1>1. UNCHANGED <<recorded, deletion, totals, job, holder, snapshot>>
  BY DEF DropDataset
<1>2. RecomputeTypeOK /\ BasesOK
  BY DEF RecomputeInv
<1>3. BasesGo /\ \A r \in Runs : Told(r)
  BY <1>1, <1>2, TotalsStay
<1>4. disturbed' \in [Runs -> SUBSET Bases] /\ \A r \in Reading : ListStays(r)
  <2>1. Disturbs({k})
    BY DEF DropDataset
  <2>2. \A e \in Documents : BaseOf[e] \notin {k} =>
           /\ recorded'[e] = "completed" <=> recorded[e] = "completed"
           /\ recorded[e] = "completed" => (e \in held' <=> e \in held)
    BY DEF DropDataset, DocumentsOf
  <2> QED BY <2>1, <2>2, <1>2, ListsStay
<1>5. RecomputeTypeOK' /\ BasesOK'
  BY <1>1, <1>2, <1>4 DEF RecomputeTypeOK, BasesOK, totals, DropDataset
<1> QED BY <1>1, <1>3, <1>4, <1>5, ApiKeeps DEF totals, Reading, Saved, RecomputeInv, SavedOK

LEMMA DeleteBaseKeeps ==
    ASSUME RecomputeInv, NEW k \in Bases, DeleteBase(k)
    PROVE  RecomputeInv'
<1> DEFINE new == [chunks EXCEPT ![k] = Gone]
<1>1. RecomputeTypeOK /\ BasesOK
  BY DEF RecomputeInv
<1>2. /\ UNCHANGED <<held, deletion, job, holder>> /\ holder[k] = Gone
      /\ recorded' = [d \in Documents |-> IF BaseOf[d] = k THEN "none" ELSE recorded[d]]
      /\ snapshot' = [r \in Runs |-> [snapshot[r] EXCEPT ![k] = Gone]]
      /\ SetTotals(new) /\ Disturbs({k})
  BY DEF DeleteBase
<1>3. /\ chunks' = new /\ new \in [Bases -> Nat \cup {Gone}]
      /\ grown' \in [Runs -> SUBSET Bases] /\ shrunk' \in [Runs -> SUBSET Bases]
      /\ \A r \in Reading \cup Saved : Told(r)
  <2>1. new \in [Bases -> Nat \cup {Gone}]
    BY <1>1 DEF RecomputeTypeOK
  <2> HIDE DEF new
  <2> QED BY <2>1, <1>1, <1>2, TotalsTold
<1>4. chunks'[k] = Gone /\ \A i \in Bases : i # k => chunks'[i] = chunks[i]
  BY <1>1, <1>3 DEF RecomputeTypeOK
<1>5. BasesGo
  BY <1>4 DEF BasesGo
<1>6. disturbed' \in [Runs -> SUBSET Bases] /\ \A r \in Reading : ListStays(r)
  <2>1. \A e \in Documents : BaseOf[e] \notin {k} =>
           /\ recorded'[e] = "completed" <=> recorded[e] = "completed"
           /\ recorded[e] = "completed" => (e \in held' <=> e \in held)
    BY <1>2
  <2> QED BY <2>1, <1>1, <1>2, ListsStay
<1>7. \A r \in Runs : \A i \in Bases :
        snapshot'[r][i] = IF i = k THEN Gone ELSE snapshot[r][i]
  BY <1>1, <1>2 DEF RecomputeTypeOK
<1>8. RecomputeTypeOK'
  <2>1. snapshot' \in [Runs -> [Bases -> Entry \cup {Gone}]]
    BY <1>1, <1>2 DEF RecomputeTypeOK
  <2>2. recorded' \in [Documents -> DocumentStatus]
    BY <1>1, <1>2 DEF RecomputeTypeOK, DocumentStatus
  <2> QED BY <1>1, <1>2, <1>3, <1>6, <2>1, <2>2 DEF RecomputeTypeOK
<1>9. BasesOK'
  <2> SUFFICES ASSUME NEW e \in Documents, recorded'[e] # "none" PROVE chunks'[BaseOf[e]] # Gone
    BY DEF BasesOK
  <2>1. BaseOf[e] \in Bases /\ BaseOf[e] # k /\ recorded[e] # "none"
    BY <1>2, RecomputeAssumption
  <2> QED BY <2>1, <1>1, <1>4 DEF BasesOK
<1>10. \A i \in Bases : holder[i] # Gone =>
         chunks'[i] = chunks[i] /\ \A r \in Runs : snapshot'[r][i] = snapshot[r][i]
  BY <1>2, <1>4, <1>7
<1>11. \A r \in Runs : \A i \in Bases :
         \/ snapshot'[r][i] = Gone
         \/ snapshot'[r][i] = snapshot[r][i] /\ chunks'[i] # Gone
  BY <1>4, <1>7 DEF RecomputeInv, SavedOK
<1> QED BY <1>2, <1>3, <1>5, <1>6, <1>8, <1>9, <1>10, <1>11, ApiKeeps

-----------------------------------------------------------------------------
(* The steps of a run. *)

LEMMA FreesOwn ==
    ASSUME RecomputeTypeOK, NEW j \in Jobs, Frees(j)
    PROVE  /\ holder' \in [Bases -> Jobs \cup {Gone}]
           /\ \A k \in Bases : \A i \in Jobs \ {j} : holder[k] = i => holder'[k] = i
BY DEF Frees, RecomputeTypeOK

\* A run that is not over has saved nothing.
LEMMA NothingSaved ==
    ASSUME RecomputeInv, NEW r \in Runs, job[r].phase # "over"
    PROVE  \A k \in Bases : snapshot[r][k] = Gone
BY DEF RecomputeInv, SavedOK

\* A step that neither moves a total nor saves one.
LEMMA RunReads ==
    ASSUME RecomputeInv, NEW r \in Runs, job[r].phase # "over",
           NEW rec \in JobRecord, SetJob(r, rec), UNCHANGED <<documents, chunks, snapshot>>,
           grown' \in [Runs -> SUBSET Bases], shrunk' \in [Runs -> SUBSET Bases],
           disturbed' \in [Runs -> SUBSET Bases], holder' \in [Bases -> Jobs \cup {Gone}],
           \A p \in Runs \ {r} : /\ grown'[p] = grown[p] /\ shrunk'[p] = shrunk[p]
                                 /\ disturbed'[p] = disturbed[p],
           \A k \in Bases : \A j \in Jobs \ {r} : holder[k] = j => holder'[k] = j,
           RunOK(r)'
    PROVE  RecomputeInv'
<1>1. RecomputeTypeOK /\ BasesOK /\ r \in Jobs
  BY DEF RecomputeInv, Jobs
<1>2. RecomputeTypeOK' /\ BasesOK' /\ BasesGo
  BY <1>1 DEF RecomputeTypeOK, BasesOK, BasesGo, documents, SetJob
<1>3. \A j \in Jobs \ {r} : job'[j] = job[j] /\ LocksStay(j)
  BY <1>1 DEF RecomputeTypeOK, SetJob, LocksStay
<1>4. ASSUME NEW p \in Runs \ {r} PROVE Told(p) /\ ListStays(p)
  <2>1. \A k \in Bases : ~Rises(k) /\ ~Falls(k)
    BY <1>1 DEF Rises, Falls, RecomputeTypeOK
  <2>2. Told(p)
    BY <2>1 DEF Told
  <2> QED BY <2>2 DEF ListStays, documents, Completed, DocumentsOf
<1>5. SavedOK(r)'
  BY NothingSaved DEF SavedOK
<1>6. \A p \in Runs : \A k \in Bases :
        \/ snapshot'[p][k] = Gone
        \/ snapshot'[p][k] = snapshot[p][k] /\ chunks'[k] # Gone
  BY DEF RecomputeInv, SavedOK
<1>7. /\ {r} \in SUBSET Jobs
      /\ \A p \in Runs \cap {r} : RunOK(p)' /\ SavedOK(p)'
      /\ \A u \in Rollbacks \cap {r} : RollbackOK(u)'
  <2>1. \A p \in Runs \cap {r} : p = r
    OBVIOUS
  <2>2. Rollbacks \cap {r} = {}
    BY JobsApart
  <2> QED BY <1>1, <1>5, <2>1, <2>2
<1>8. \A p \in Runs \ {r} :
        /\ p \in Reading \cup Saved => Told(p)
        /\ p \in Reading => ListStays(p)
        /\ \A k \in Bases : \/ snapshot'[p][k] = Gone
                            \/ snapshot'[p][k] = snapshot[p][k] /\ chunks'[k] # Gone
  BY <1>4, <1>6
<1> QED BY <1>2, <1>3, <1>7, <1>8, OthersStay

LEMMA ReadBasesKeeps ==
    ASSUME RecomputeInv, NEW r \in Runs, ReadBases(r)
    PROVE  RecomputeInv'
<1> DEFINE rec == [NoJob EXCEPT !.phase = "documents", !.read = chunks]
<1>1. RecomputeTypeOK /\ r \in Jobs /\ job[r].phase # "over" /\ SetJob(r, rec)
  BY NoJobTyped DEF RecomputeInv, Jobs, ReadBases
<1>2. /\ rec \in JobRecord /\ rec.phase = "documents" /\ rec.wrote = {} /\ rec.found = {}
      /\ rec.read = chunks
  BY <1>1 DEF NoJob, JobRecord, RecomputeTypeOK, Phase
<1>3. job'[r] = rec /\ UNCHANGED <<documents, chunks, snapshot, holder, disturbed>>
  BY <1>1 DEF SetJob, ReadBases, RecomputeTypeOK
<1>4. /\ grown' = [grown EXCEPT ![r] = {}] /\ shrunk' = [shrunk EXCEPT ![r] = {}]
      /\ grown'[r] = {} /\ shrunk'[r] = {}
  BY <1>1 DEF ReadBases, RecomputeTypeOK
<1>5. RunOK(r)'
  <2>1. WatchOK(r)'
    <3> SUFFICES ASSUME NEW k \in Bases, chunks[k] # Gone PROVE Band(r, k, chunks[k])'
      BY <1>2, <1>3 DEF WatchOK
    <3>1. chunks[k] \in Nat /\ chunks'[k] = chunks[k]
      BY <1>1, <1>3 DEF RecomputeTypeOK
    <3> QED BY <3>1, <1>4 DEF Band
  <2>2. ListOK(r)' /\ WriteOK(r)' /\ job'[r].phase # "restore"
    BY <1>2, <1>3 DEF ListOK, WriteOK
  <2> QED BY <2>1, <2>2 DEF RunOK
<1> HIDE DEF rec
<1> QED BY <1>1, <1>2, <1>3, <1>4, <1>5, RunReads DEF RecomputeTypeOK

LEMMA ReadDocumentsKeeps ==
    ASSUME RecomputeInv, NEW r \in Runs, ReadDocuments(r)
    PROVE  RecomputeInv'
<1> DEFINE rec == [job[r] EXCEPT !.phase = "probe", !.left = Listed(r)]
<1>1. /\ RecomputeTypeOK /\ RunOK(r) /\ r \in Jobs /\ job[r] \in JobRecord
      /\ job[r].phase = "documents" /\ SetJob(r, rec)
  BY DEF RecomputeInv, Jobs, ReadDocuments, RecomputeTypeOK
<1>2. /\ rec \in JobRecord /\ rec.phase = "probe" /\ rec.left = Listed(r)
      /\ rec.read = job[r].read /\ rec.found = {} /\ rec.wrote = {}
  BY <1>1 DEF JobRecord, Phase, Listed, RunOK, WriteOK
<1>3. job'[r] = rec /\ UNCHANGED <<documents, totals, snapshot, holder>>
  BY <1>1 DEF SetJob, ReadDocuments, RecomputeTypeOK
<1>4. /\ disturbed' = [disturbed EXCEPT ![r] = {k \in Bases : ~(Completed(k) \subseteq held)}]
      /\ disturbed'[r] = {k \in Bases : ~(Completed(k) \subseteq held)}
  BY <1>1 DEF ReadDocuments, RecomputeTypeOK
<1>5. RunOK(r)'
  <2>1. WatchOK(r)'
    BY <1>1, <1>2, <1>3 DEF RunOK, WatchOK, Reading, Band, totals
  <2>2. ListOK(r)'
    <3> SUFFICES ASSUME NEW k \in Bases, k \notin disturbed'[r], job[r].read[k] # Gone
                 PROVE  /\ Completed(k) \subseteq held
                        /\ Listed(r) \cap DocumentsOf(k) = Completed(k)
      BY <1>2, <1>3 DEF ListOK, documents, Completed, DocumentsOf
    <3> QED BY <1>4 DEF Listed, Completed, DocumentsOf
  <2>3. WriteOK(r)' /\ job'[r].phase # "restore"
    BY <1>2, <1>3 DEF WriteOK
  <2> QED BY <2>1, <2>2, <2>3 DEF RunOK
<1> HIDE DEF rec
<1>6. /\ disturbed' \in [Runs -> SUBSET Bases]
      /\ \A p \in Runs \ {r} : disturbed'[p] = disturbed[p]
  BY <1>1, <1>4 DEF RecomputeTypeOK
<1> QED BY <1>1, <1>2, <1>3, <1>5, <1>6, RunReads DEF RecomputeTypeOK, totals

LEMMA ProbeKeeps ==
    ASSUME RecomputeInv, NEW r \in Runs, NEW d \in Documents, Probe(r, d)
    PROVE  RecomputeInv'
<1>1. /\ RecomputeTypeOK /\ RunOK(r) /\ r \in Jobs /\ job[r] \in JobRecord
      /\ job[r].phase = "probe" /\ d \in job[r].left /\ BaseOf[d] \in Bases
  BY RecomputeAssumption DEF RecomputeInv, Jobs, Probe, First, RecomputeTypeOK
<1>2. PICK found \in SUBSET Documents, blocked \in SUBSET Bases :
        /\ job' = [job EXCEPT ![r] = [job[r] EXCEPT !.left = @ \ {d}, !.found = found,
                                                    !.blocked = blocked]]
        /\ \/ found = job[r].found \cup (held \cap {d}) /\ blocked = job[r].blocked
           \/ found = job[r].found /\ blocked = job[r].blocked \cup {BaseOf[d]}
  <2>1. CASE SetJob(r, [job[r] EXCEPT !.left = @ \ {d}, !.found = @ \cup (held \cap {d})])
    BY <1>1, <2>1 DEF SetJob, JobRecord
  <2>2. CASE SetJob(r, [job[r] EXCEPT !.left = @ \ {d}, !.blocked = @ \cup {BaseOf[d]}])
    BY <1>1, <2>2 DEF SetJob, JobRecord
  <2> QED BY <2>1, <2>2 DEF Probe
<1> DEFINE rec == [job[r] EXCEPT !.left = @ \ {d}, !.found = found, !.blocked = blocked]
<1>3. /\ rec \in JobRecord /\ rec.phase = "probe" /\ rec.left = job[r].left \ {d}
      /\ rec.read = job[r].read /\ rec.found = found /\ rec.blocked = blocked
      /\ rec.wrote = {}
  BY <1>1 DEF JobRecord, RunOK, WriteOK
<1>4. /\ job'[r] = rec /\ SetJob(r, rec)
      /\ UNCHANGED <<documents, totals, holder, snapshot, disturbed>>
  BY <1>1, <1>2 DEF SetJob, Probe, RecomputeTypeOK
<1>5. RunOK(r)'
  <2>1. WatchOK(r)'
    BY <1>1, <1>3, <1>4 DEF RunOK, WatchOK, Reading, Band, totals
  <2>2. ListOK(r)'
    <3> SUFFICES ASSUME NEW k \in Bases, k \notin disturbed[r] \cup blocked,
                        job[r].read[k] # Gone
                 PROVE  /\ Completed(k) \subseteq held
                        /\ (found \cup (job[r].left \ {d})) \cap DocumentsOf(k) = Completed(k)
      BY <1>3, <1>4 DEF ListOK, documents, Completed, DocumentsOf
    <3>1. k \notin job[r].blocked
      BY <1>2
    <3>2. /\ Completed(k) \subseteq held
          /\ (job[r].found \cup job[r].left) \cap DocumentsOf(k) = Completed(k)
      BY <1>1, <3>1 DEF RunOK, ListOK
    <3>3. d \in DocumentsOf(k) => d \in held /\ d \in found
      <4> SUFFICES ASSUME d \in DocumentsOf(k) PROVE d \in held /\ d \in found
        OBVIOUS
      <4>1. d \in held
        BY <1>1, <3>2
      <4>2. BaseOf[d] \notin blocked
        BY DEF DocumentsOf
      <4> QED BY <4>1, <4>2, <1>2
    <3>4. found \subseteq job[r].found \cup {d} /\ job[r].found \subseteq found
      BY <1>2
    <3> QED BY <3>2, <3>3, <3>4, <1>1
  <2>3. WriteOK(r)' /\ job'[r].phase # "restore"
    BY <1>3, <1>4 DEF WriteOK
  <2> QED BY <2>1, <2>2, <2>3 DEF RunOK
<1> HIDE DEF rec
<1> QED BY <1>1, <1>3, <1>4, <1>5, RunReads DEF RecomputeTypeOK, totals

LEMMA PlanKeeps ==
    ASSUME RecomputeInv, NEW r \in Runs, Plan(r)
    PROVE  RecomputeInv'
<1> DEFINE rec == [job[r] EXCEPT !.phase = "apply", !.todo = Changes(r)]
<1>1. /\ RecomputeTypeOK /\ RunOK(r) /\ r \in Jobs /\ job[r] \in JobRecord
      /\ job[r].phase = "probe" /\ job[r].left = {} /\ SetJob(r, rec)
  BY DEF RecomputeInv, Jobs, Plan, RecomputeTypeOK
<1>2. /\ rec \in JobRecord /\ rec.phase = "apply" /\ rec.left = {} /\ rec.todo = Changes(r)
      /\ rec.read = job[r].read /\ rec.found = job[r].found /\ rec.blocked = job[r].blocked
      /\ rec.wrote = {}
  BY <1>1 DEF JobRecord, Phase, Changes, RunOK, WriteOK
<1>3. job'[r] = rec /\ UNCHANGED <<documents, totals, holder, snapshot, disturbed>>
  BY <1>1 DEF SetJob, Plan, RecomputeTypeOK
<1>4. RunOK(r)'
  <2>1. WatchOK(r)'
    BY <1>1, <1>2, <1>3 DEF RunOK, WatchOK, Reading, Band, totals
  <2>2. ListOK(r)'
    BY <1>1, <1>2, <1>3 DEF RunOK, ListOK, documents, Completed, DocumentsOf
  <2>3. Changes(r)' = Changes(r)
    BY <1>2, <1>3 DEF Changes, Suggested
  <2>4. WriteOK(r)' /\ job'[r].phase # "restore"
    BY <1>2, <1>3, <2>3 DEF WriteOK
  <2> QED BY <2>1, <2>2, <2>4 DEF RunOK
<1> HIDE DEF rec
<1> QED BY <1>1, <1>2, <1>3, <1>4, RunReads DEF RecomputeTypeOK, totals

\* A guarded UPDATE takes a free row that matches, or leaves it.
Written(j, k, matches) == IF matches THEN job[j].wrote \cup {k} ELSE job[j].wrote
Updated(j, k, matches) ==
    [job[j] EXCEPT !.todo = job[j].todo \ {k}, !.wrote = Written(j, k, matches)]

LEMMA UpdateOutcome ==
    ASSUME RecomputeTypeOK, NEW j \in Jobs, NEW k \in Bases, NEW matches \in BOOLEAN,
           Update(j, k, matches)
    PROVE  /\ SetJob(j, Updated(j, k, matches)) /\ Updated(j, k, matches) \in JobRecord
           /\ matches => holder'[k] = j
           /\ \A i \in Bases : holder[i] = j => holder'[i] = j
           /\ holder' \in [Bases -> Jobs \cup {Gone}]
           /\ \A i \in Bases : \A p \in Jobs \ {j} : holder[i] = p => holder'[i] = p
<1>1. job[j] \in JobRecord /\ holder \in [Bases -> Jobs \cup {Gone}]
  BY DEF RecomputeTypeOK
<1>2. Updated(j, k, matches) \in JobRecord
  BY <1>1 DEF JobRecord, Updated, Written
<1>3. CASE matches
  <2>1. /\ holder[k] = Gone /\ holder' = [holder EXCEPT ![k] = j]
        /\ SetJob(j, [job[j] EXCEPT !.todo = @ \ {k}, !.wrote = @ \cup {k}])
    BY <1>3 DEF Update
  <2>2. SetJob(j, Updated(j, k, matches))
    BY <1>1, <1>3, <2>1 DEF SetJob, Updated, Written, JobRecord
  <2> QED BY <1>1, <1>2, <2>1, <2>2, JobsApart
<1>4. CASE ~matches
  <2>1. holder' = holder /\ SetJob(j, [job[j] EXCEPT !.todo = @ \ {k}])
    BY <1>4 DEF Update
  <2>2. [job[j] EXCEPT !.todo = @ \ {k}] = Updated(j, k, matches)
    BY <1>1, <1>4 DEF Updated, Written, JobRecord
  <2>3. SetJob(j, Updated(j, k, matches))
    BY <2>1, <2>2 DEF SetJob
  <2> QED BY <1>1, <1>2, <1>4, <2>1, <2>3
<1> QED BY <1>3, <1>4

LEMMA OverwriteKeeps ==
    ASSUME RecomputeInv, NEW r \in Runs, NEW k \in Bases, Overwrite(r, k)
    PROVE  RecomputeInv'
<1>1. /\ RecomputeTypeOK /\ RunOK(r) /\ r \in Jobs /\ job[r] \in JobRecord
      /\ job[r].phase = "apply" /\ k \in job[r].todo
      /\ Update(r, k, chunks[k] = job[r].read[k])
  BY DEF RecomputeInv, Jobs, Overwrite, First, RecomputeTypeOK
<1> DEFINE m == chunks[k] = job[r].read[k]
           rec == Updated(r, k, m)
           wrote == Written(r, k, m)
<1>2. /\ SetJob(r, rec) /\ rec \in JobRecord
      /\ m => holder'[k] = r
      /\ \A i \in Bases : holder[i] = r => holder'[i] = r
      /\ holder' \in [Bases -> Jobs \cup {Gone}]
      /\ \A i \in Bases : \A p \in Jobs \ {r} : holder[i] = p => holder'[i] = p
  <2>1. m \in BOOLEAN /\ Update(r, k, m)
    BY <1>1
  <2> HIDE DEF m
  <2> QED BY <1>1, <2>1, UpdateOutcome
<1>3. /\ rec.phase = "apply" /\ rec.left = job[r].left
      /\ rec.todo = job[r].todo \ {k} /\ rec.wrote = wrote
      /\ rec.read = job[r].read /\ rec.found = job[r].found /\ rec.blocked = job[r].blocked
  BY <1>1 DEF JobRecord, Updated
<1>4. job'[r] = rec /\ UNCHANGED <<documents, totals, snapshot, disturbed>>
  BY <1>1, <1>2 DEF SetJob, Overwrite, Update, RecomputeTypeOK
<1>5. RunOK(r)'
  <2>1. WatchOK(r)'
    BY <1>1, <1>3, <1>4 DEF RunOK, WatchOK, Reading, Band, totals
  <2>2. ListOK(r)'
    BY <1>1, <1>3, <1>4 DEF RunOK, ListOK, documents, Completed, DocumentsOf
  <2>3. Changes(r)' = Changes(r)
    BY <1>3, <1>4 DEF Changes, Suggested
  <2>4. job[r].left = {} /\ (job[r].todo \ {k}) \cup wrote \subseteq Changes(r)
    BY <1>1 DEF RunOK, WriteOK, Written
  <2>5. \A i \in wrote : holder'[i] = r /\ chunks'[i] = job[r].read[i]
    <3> SUFFICES ASSUME NEW i \in wrote PROVE holder'[i] = r /\ chunks[i] = job[r].read[i]
      BY <1>4 DEF totals
    <3>1. CASE i \in job[r].wrote
      BY <1>1, <1>2, <3>1 DEF RunOK, WriteOK, JobRecord
    <3>2. CASE i \notin job[r].wrote
      BY <1>2, <3>2 DEF Written
    <3> QED BY <3>1, <3>2
  <2>6. WriteOK(r)' /\ job'[r].phase # "restore"
    BY <1>3, <1>4, <2>3, <2>4, <2>5 DEF WriteOK
  <2> QED BY <2>1, <2>2, <2>6 DEF RunOK
<1> HIDE DEF rec
<1> HIDE DEF m, wrote
<1> QED BY <1>1, <1>2, <1>4, <1>5, RunReads DEF RecomputeTypeOK, totals

LEMMA StopKeeps ==
    ASSUME RecomputeInv, NEW r \in Runs, Stop(r)
    PROVE  RecomputeInv'
<1>1. /\ RecomputeTypeOK /\ r \in Jobs /\ job[r].phase # "over" /\ SetJob(r, Over)
      /\ UNCHANGED <<documents, chunks, snapshot>> /\ Frees(r)
      /\ disturbed' = [disturbed EXCEPT ![r] = {}]
      /\ grown' = [grown EXCEPT ![r] = {}] /\ shrunk' = [shrunk EXCEPT ![r] = {}]
  BY DEF RecomputeInv, Jobs, Stop
<1>2. job'[r] = Over
  BY <1>1 DEF SetJob, RecomputeTypeOK
<1>3. RunOK(r)'
  BY <1>2, NoJobTyped DEF RunOK, WatchOK, ListOK, WriteOK, Reading
<1>4. /\ holder' \in [Bases -> Jobs \cup {Gone}]
      /\ \A k \in Bases : \A i \in Jobs \ {r} : holder[k] = i => holder'[k] = i
  BY <1>1, FreesOwn
<1>5. /\ grown' \in [Runs -> SUBSET Bases] /\ shrunk' \in [Runs -> SUBSET Bases]
      /\ disturbed' \in [Runs -> SUBSET Bases]
      /\ \A p \in Runs \ {r} : /\ grown'[p] = grown[p] /\ shrunk'[p] = shrunk[p]
                               /\ disturbed'[p] = disturbed[p]
  BY <1>1 DEF RecomputeTypeOK
<1> QED BY <1>1, <1>3, <1>4, <1>5, NoJobTyped, RunReads

LEMMA ApplyKeeps ==
    ASSUME RecomputeInv, NEW r \in Runs, Apply(r)
    PROVE  RecomputeInv'
<1> DEFINE new == [k \in Bases |-> IF k \in job[r].wrote THEN Suggested(r, k) ELSE chunks[k]]
<1>1. /\ RecomputeTypeOK /\ BasesOK /\ RunOK(r) /\ r \in Jobs /\ job[r] \in JobRecord
      /\ job[r].phase = "apply" /\ chunks' = new /\ SetJob(r, Over) /\ Frees(r)
      /\ grown' = [With(grown, Reading \cup Saved, Risen(new)) EXCEPT ![r] = {}]
      /\ shrunk' = [With(shrunk, Reading \cup Saved, Fallen(new)) EXCEPT ![r] = {}]
      /\ disturbed' = [disturbed EXCEPT ![r] = {}]
      /\ snapshot' = [snapshot EXCEPT ![r] = Entries(r)] /\ UNCHANGED documents
  BY DEF RecomputeInv, Jobs, Apply, RecomputeTypeOK
<1>2. \A k \in job[r].wrote :
        /\ k \in Bases /\ holder[k] = r /\ chunks[k] = job[r].read[k] /\ chunks[k] \in Nat
        /\ Suggested(r, k) # job[r].read[k] /\ Suggested(r, k) \in Nat
  BY <1>1, SizeTyped DEF RunOK, WriteOK, Changes, Suggested, RecomputeTypeOK
<1>3. new \in [Bases -> Nat \cup {Gone}] /\ \A k \in Bases : new[k] = Gone <=> chunks[k] = Gone
  BY <1>1, <1>2, JobsApart DEF RecomputeTypeOK
<1>4. /\ job' \in [Jobs -> JobRecord] /\ job'[r] = Over
      /\ \A j \in Jobs \ {r} : job'[j] = job[j]
  BY <1>1, NoJobTyped DEF SetJob, RecomputeTypeOK
<1>5. /\ snapshot' \in [Runs -> [Bases -> Entry \cup {Gone}]]
      /\ snapshot'[r] = Entries(r) /\ \A p \in Runs \ {r} : snapshot'[p] = snapshot[p]
  <2>1. Entries(r) \in [Bases -> Entry \cup {Gone}]
    BY <1>2 DEF Entries, Entry
  <2> QED BY <1>1, <2>1 DEF RecomputeTypeOK
<1>6. /\ grown' \in [Runs -> SUBSET Bases] /\ shrunk' \in [Runs -> SUBSET Bases]
      /\ disturbed' \in [Runs -> SUBSET Bases]
      /\ grown'[r] = {} /\ shrunk'[r] = {}
      /\ \A p \in Runs \ {r} : disturbed'[p] = disturbed[p]
      /\ \A p \in (Reading \cup Saved) \ {r} :
           grown'[p] = grown[p] \cup Risen(new) /\ shrunk'[p] = shrunk[p] \cup Fallen(new)
  <2>1. Risen(new) \in SUBSET Bases /\ Fallen(new) \in SUBSET Bases
    BY DEF Risen, Fallen, Present
  <2> HIDE DEF new
  <2> QED BY <1>1, <2>1 DEF With, RecomputeTypeOK, Reading, Saved
<1>7. ASSUME NEW p \in (Reading \cup Saved) \ {r} PROVE Told(p)
  <2>1. \A k \in Bases : (k \in Risen(new) <=> Rises(k)) /\ (k \in Fallen(new) <=> Falls(k))
    BY <1>1 DEF Risen, Fallen, Present, Rises, Falls
  <2> HIDE DEF new
  <2> QED BY <1>6, <2>1 DEF Told
<1>8. /\ holder' \in [Bases -> Jobs \cup {Gone}]
      /\ \A k \in Bases : \A i \in Jobs \ {r} : holder[k] = i => holder'[k] = i
  BY <1>1, FreesOwn
<1>9. RecomputeTypeOK' /\ BasesGo
  <2> HIDE DEF new
  <2> QED BY <1>1, <1>3, <1>4, <1>5, <1>6, <1>8 DEF RecomputeTypeOK, BasesGo, documents
<1>10. BasesOK'
  <2> HIDE DEF new
  <2> QED BY <1>1, <1>3, RecomputeAssumption DEF BasesOK, documents
<1>11. ASSUME NEW j \in Jobs \ {r} PROVE LocksStay(j)
  <2> SUFFICES ASSUME NEW k \in Bases, holder[k] = j
               PROVE  /\ holder'[k] = j /\ chunks'[k] = chunks[k]
                      /\ \A p \in Runs : snapshot'[p][k] = snapshot[p][k]
    BY DEF LocksStay
  <2>1. k \notin job[r].wrote
    BY <1>2
  <2>2. snapshot'[r][k] = Gone /\ snapshot[r][k] = Gone
    BY <1>1, <1>5, <2>1, NothingSaved DEF Entries
  <2> QED BY <1>1, <1>5, <1>8, <2>1, <2>2
<1>12. RunOK(r)'
  BY <1>4, NoJobTyped DEF RunOK, WatchOK, ListOK, WriteOK, Reading
<1>13. SavedOK(r)'
  <2> SUFFICES ASSUME NEW k \in Bases, snapshot'[r][k] # Gone
               PROVE  /\ snapshot'[r][k].applied # snapshot'[r][k].previous
                      /\ chunks'[k] = snapshot'[r][k].applied /\ chunks'[k] \in Nat
    BY <1>4, <1>6, NoJobTyped, JobsApart DEF SavedOK, Band
  <2>1. /\ k \in job[r].wrote
        /\ snapshot'[r][k] = [previous |-> job[r].read[k], applied |-> Suggested(r, k)]
    BY <1>5 DEF Entries
  <2>2. chunks'[k] = Suggested(r, k)
    BY <1>1, <2>1
  <2> QED BY <1>2, <2>1, <2>2
<1>14. ASSUME NEW p \in Runs \ {r}
       PROVE  /\ p \in Reading \cup Saved => Told(p)
              /\ p \in Reading => ListStays(p)
              /\ \A k \in Bases : \/ snapshot'[p][k] = Gone
                                  \/ snapshot'[p][k] = snapshot[p][k] /\ chunks'[k] # Gone
  <2>1. ListStays(p)
    BY <1>1, <1>6 DEF ListStays, documents, Completed, DocumentsOf
  <2>2. \A k \in Bases : snapshot[p][k] # Gone => chunks'[k] # Gone
    BY <1>1, <1>3 DEF RecomputeInv, SavedOK
  <2> HIDE DEF new
  <2> QED BY <1>5, <1>7, <2>1, <2>2
<1>15. /\ {r} \in SUBSET Jobs
       /\ \A p \in Runs \cap {r} : RunOK(p)' /\ SavedOK(p)'
       /\ \A u \in Rollbacks \cap {r} : RollbackOK(u)'
  BY <1>1, <1>12, <1>13, JobsApart
<1> HIDE DEF new
<1> QED BY <1>4, <1>9, <1>10, <1>11, <1>14, <1>15, OthersStay

-----------------------------------------------------------------------------
(* The steps of a rollback, and the theorems. *)

LEMMA RollbackActs ==
    ASSUME RecomputeInv, NEW u \in Rollbacks, NEW rec \in JobRecord, SetJob(u, rec),
           UNCHANGED <<documents, snapshot, disturbed>>,
           chunks' \in [Bases -> Nat \cup {Gone}], holder' \in [Bases -> Jobs \cup {Gone}],
           grown' \in [Runs -> SUBSET Bases], shrunk' \in [Runs -> SUBSET Bases],
           \A k \in Bases : chunks'[k] = Gone <=> chunks[k] = Gone,
           \A k \in Bases : \A j \in Jobs \ {u} : holder[k] = j =>
             holder'[k] = j /\ chunks'[k] = chunks[k],
           \A r \in Reading \cup Saved : Told(r), RollbackOK(u)'
    PROVE  RecomputeInv'
<1>1. RecomputeTypeOK /\ BasesOK /\ u \in Jobs
  BY DEF RecomputeInv, Jobs
<1>2. job' \in [Jobs -> JobRecord] /\ \A j \in Jobs \ {u} : job'[j] = job[j]
  BY <1>1 DEF SetJob, RecomputeTypeOK
<1>3. RecomputeTypeOK' /\ BasesGo
  BY <1>1, <1>2 DEF RecomputeTypeOK, BasesGo, documents
<1>4. BasesOK'
  BY <1>1, RecomputeAssumption DEF BasesOK, documents
<1>5. \A j \in Jobs \ {u} : job'[j] = job[j] /\ LocksStay(j)
  BY <1>2 DEF LocksStay
<1>6. \A r \in Runs : ListStays(r)
  BY DEF ListStays, documents, Completed, DocumentsOf
<1>7. \A r \in Runs, k \in Bases : snapshot[r][k] # Gone => chunks'[k] # Gone
  BY DEF RecomputeInv, SavedOK
<1>8. /\ {u} \in SUBSET Jobs
      /\ \A r \in Runs \cap {u} : RunOK(r)' /\ SavedOK(r)'
      /\ \A v \in Rollbacks \cap {u} : RollbackOK(v)'
  BY <1>1, JobsApart
<1>9. \A r \in Runs \ {u} :
        /\ r \in Reading \cup Saved => Told(r)
        /\ r \in Reading => ListStays(r)
        /\ \A k \in Bases : \/ snapshot'[r][k] = Gone
                            \/ snapshot'[r][k] = snapshot[r][k] /\ chunks'[k] # Gone
  BY <1>6, <1>7
<1> QED BY <1>3, <1>4, <1>5, <1>8, <1>9, OthersStay

\* One that writes nothing yet.
LEMMA RollbackReads ==
    ASSUME RecomputeInv, NEW u \in Rollbacks, NEW rec \in JobRecord, SetJob(u, rec),
           UNCHANGED <<documents, totals, snapshot, disturbed>>,
           holder' \in [Bases -> Jobs \cup {Gone}],
           \A k \in Bases : \A j \in Jobs \ {u} : holder[k] = j => holder'[k] = j,
           RollbackOK(u)'
    PROVE  RecomputeInv'
<1>1. RecomputeTypeOK
  BY DEF RecomputeInv
<1>2. \A r \in Reading \cup Saved : Told(r)
  <2>1. \A r \in Reading \cup Saved : r \in Runs
    BY DEF Reading, Saved
  <2> QED BY <1>1, <2>1, TotalsStay
<1>3. UNCHANGED <<chunks, grown, shrunk>>
  BY DEF totals
<1> QED BY <1>1, <1>2, <1>3, RollbackActs DEF RecomputeTypeOK

LEMMA ReadSnapshotKeeps ==
    ASSUME RecomputeInv, NEW u \in Rollbacks, NEW r \in Runs, ReadSnapshot(u, r)
    PROVE  RecomputeInv'
<1> DEFINE saved == {k \in Bases : snapshot[r][k] # Gone}
           rec == [NoJob EXCEPT !.phase = "restore", !.todo = saved, !.of = r]
<1>1. /\ RecomputeTypeOK /\ u \in Jobs /\ SetJob(u, rec)
      /\ UNCHANGED <<documents, totals, holder, snapshot, disturbed>>
  BY DEF RecomputeInv, Jobs, ReadSnapshot
<1>2. rec \in JobRecord /\ rec.phase = "restore" /\ rec.of = r /\ rec.wrote = {}
  BY NoJobTyped DEF NoJob, JobRecord, Phase
<1>3. job'[u] = rec
  BY <1>1 DEF SetJob, RecomputeTypeOK
<1> HIDE DEF rec, saved
<1>4. RollbackOK(u)'
  BY <1>2, <1>3 DEF RollbackOK
<1> QED BY <1>1, <1>2, <1>4, RollbackReads DEF RecomputeTypeOK

LEMMA RestoreKeeps ==
    ASSUME RecomputeInv, NEW u \in Rollbacks, NEW k \in Bases, Restore(u, k)
    PROVE  RecomputeInv'
<1> DEFINE m == snapshot[job[u].of][k] # Gone /\ chunks[k] = snapshot[job[u].of][k].applied
           rec == Updated(u, k, m)
<1>1. /\ RecomputeTypeOK /\ RollbackOK(u) /\ u \in Jobs /\ job[u] \in JobRecord
      /\ job[u].phase = "restore" /\ Update(u, k, m)
  BY DEF RecomputeInv, Jobs, Restore, RecomputeTypeOK
<1>2. /\ SetJob(u, rec) /\ rec \in JobRecord
      /\ m => holder'[k] = u
      /\ \A i \in Bases : holder[i] = u => holder'[i] = u
      /\ holder' \in [Bases -> Jobs \cup {Gone}]
      /\ \A i \in Bases : \A p \in Jobs \ {u} : holder[i] = p => holder'[i] = p
  <2>1. m \in BOOLEAN
    OBVIOUS
  <2> HIDE DEF m
  <2> QED BY <1>1, <2>1, UpdateOutcome
<1>3. /\ rec.phase = "restore" /\ rec.of = job[u].of /\ rec.wrote = Written(u, k, m)
  BY <1>1 DEF JobRecord, Updated
<1>4. job'[u] = rec /\ UNCHANGED <<documents, totals, snapshot, disturbed>>
  BY <1>1, <1>2 DEF SetJob, Update, RecomputeTypeOK
<1>5. \A i \in Written(u, k, m) :
        /\ holder'[i] = u /\ snapshot[job[u].of][i] # Gone
        /\ chunks[i] = snapshot[job[u].of][i].applied
  <2>1. \A i \in job[u].wrote :
          /\ i \in Bases /\ holder[i] = u /\ snapshot[job[u].of][i] # Gone
          /\ chunks[i] = snapshot[job[u].of][i].applied
    BY <1>1 DEF RollbackOK, JobRecord
  <2> QED BY <1>2, <2>1 DEF Written
<1> HIDE DEF rec, m
<1>6. RollbackOK(u)'
  BY <1>1, <1>3, <1>4, <1>5 DEF RollbackOK, totals
<1> QED BY <1>2, <1>4, <1>6, RollbackReads

LEMMA StopRollbackKeeps ==
    ASSUME RecomputeInv, NEW u \in Rollbacks, StopRollback(u)
    PROVE  RecomputeInv'
<1>1. /\ RecomputeTypeOK /\ u \in Jobs /\ SetJob(u, Over) /\ Frees(u)
      /\ UNCHANGED <<documents, totals, snapshot, disturbed>>
  BY DEF RecomputeInv, Jobs, StopRollback
<1>2. RollbackOK(u)'
  BY <1>1, NoJobTyped DEF RollbackOK, SetJob, RecomputeTypeOK
<1> QED BY <1>1, <1>2, FreesOwn, NoJobTyped, RollbackReads

LEMMA RestoreCommitKeeps ==
    ASSUME RecomputeInv, NEW u \in Rollbacks, RestoreCommit(u)
    PROVE  RecomputeInv'
<1> DEFINE new == [k \in Bases |-> IF k \in job[u].wrote
                                      THEN snapshot[job[u].of][k].previous ELSE chunks[k]]
<1>1. /\ RecomputeTypeOK /\ RollbackOK(u) /\ u \in Jobs /\ job[u] \in JobRecord
      /\ job[u].phase = "restore" /\ SetJob(u, Over) /\ Frees(u) /\ SetTotals(new)
      /\ UNCHANGED <<documents, snapshot, disturbed>>
  BY DEF RecomputeInv, Jobs, RestoreCommit, RecomputeTypeOK
<1>2. \A k \in job[u].wrote :
        /\ holder[k] = u /\ chunks[k] \in Nat
        /\ snapshot[job[u].of][k].previous \in Nat
  <2> SUFFICES ASSUME NEW k \in job[u].wrote
               PROVE  /\ holder[k] = u /\ chunks[k] \in Nat
                      /\ snapshot[job[u].of][k].previous \in Nat
    OBVIOUS
  <2>1. /\ k \in Bases /\ job[u].of \in Runs /\ holder[k] = u
        /\ snapshot[job[u].of][k] # Gone
        /\ chunks[k] = snapshot[job[u].of][k].applied
    BY <1>1 DEF RollbackOK, JobRecord
  <2>2. snapshot[job[u].of][k] \in Entry
    BY <1>1, <2>1 DEF RecomputeTypeOK
  <2> QED BY <2>1, <2>2 DEF Entry
<1>3. /\ new \in [Bases -> Nat \cup {Gone}]
      /\ \A k \in Bases : new[k] = Gone <=> chunks[k] = Gone
      /\ \A k \in Bases \ job[u].wrote : new[k] = chunks[k]
  BY <1>1, <1>2, JobsApart DEF RecomputeTypeOK
<1> HIDE DEF new
<1>4. /\ chunks' = new
      /\ grown' \in [Runs -> SUBSET Bases] /\ shrunk' \in [Runs -> SUBSET Bases]
      /\ \A r \in Reading \cup Saved : Told(r)
  BY <1>1, <1>3, TotalsTold
<1>5. \A k \in Bases : \A j \in Jobs \ {u} : holder[k] = j =>
        holder'[k] = j /\ chunks'[k] = chunks[k]
  BY <1>1, <1>2, <1>3, <1>4, FreesOwn
<1>6. RollbackOK(u)'
  BY <1>1, NoJobTyped DEF RollbackOK, SetJob, RecomputeTypeOK
<1>7. /\ \A k \in Bases : chunks'[k] = Gone <=> chunks[k] = Gone
      /\ chunks' \in [Bases -> Nat \cup {Gone}] /\ holder' \in [Bases -> Jobs \cup {Gone}]
  BY <1>1, <1>3, <1>4, FreesOwn
<1> QED BY <1>1, <1>4, <1>5, <1>6, <1>7, NoJobTyped, RollbackActs

LEMMA RecomputeStutters == RecomputeInv /\ UNCHANGED recomputeVars => RecomputeInv'
<1> SUFFICES ASSUME RecomputeInv, UNCHANGED recomputeVars PROVE RecomputeInv'
  OBVIOUS
<1> USE DEF recomputeVars, documents, totals
<1>1. RecomputeTypeOK' /\ BasesOK'
  BY DEF RecomputeInv, RecomputeTypeOK, BasesOK
<1>2. ASSUME NEW r \in Runs PROVE RunOK(r)' /\ SavedOK(r)'
  <2>1. RunOK(r) /\ SavedOK(r)
    BY DEF RecomputeInv
  <2>2. WatchOK(r)' /\ SavedOK(r)'
    BY <2>1 DEF RunOK, WatchOK, SavedOK, Band, Reading
  <2>3. ListOK(r)'
    BY <2>1 DEF RunOK, ListOK, Completed, DocumentsOf
  <2>4. WriteOK(r)'
    BY <2>1 DEF RunOK, WriteOK, Changes, Suggested
  <2> QED BY <2>1, <2>2, <2>3, <2>4 DEF RunOK
<1>3. ASSUME NEW u \in Rollbacks PROVE RollbackOK(u)'
  BY DEF RecomputeInv, RollbackOK
<1> QED BY <1>1, <1>2, <1>3 DEF RecomputeInv

LEMMA RecomputeSteps == RecomputeInv /\ [RecomputeNext]_recomputeVars => RecomputeInv'
<1> SUFFICES ASSUME RecomputeInv, RecomputeNext PROVE RecomputeInv'
  BY RecomputeStutters
<1>1. CASE ApiStep
  <2>1. CASE \E d \in Documents : \E s \in DocumentStatus \ {"none"} : RecordStatus(d, s)
    BY <2>1, RecordStatusKeeps
  <2>2. CASE \E d \in Documents : AskDelete(d) \/ EndDelete(d)
    BY <2>2, AskDeleteKeeps
  <2>3. CASE \E d \in Documents : Drop(d) \/ RetireRow(d)
    BY <2>3, DropKeeps, RetireRowKeeps
  <2>4. CASE \E k \in Bases : DropDataset(k) \/ DeleteBase(k)
    BY <2>4, DropDatasetKeeps, DeleteBaseKeeps
  <2> QED BY <1>1, <2>1, <2>2, <2>3, <2>4 DEF ApiStep
<1>2. CASE \E r \in Runs : RunStep(r)
  <2> PICK r \in Runs : RunStep(r)
    BY <1>2
  <2>1. CASE ReadBases(r) \/ ReadDocuments(r) \/ Plan(r) \/ Apply(r) \/ Stop(r)
    BY <2>1, ReadBasesKeeps, ReadDocumentsKeeps, PlanKeeps, ApplyKeeps, StopKeeps
  <2>2. CASE \E d \in Documents : Probe(r, d)
    BY <2>2, ProbeKeeps
  <2>3. CASE \E k \in Bases : Overwrite(r, k)
    BY <2>3, OverwriteKeeps
  <2> QED BY <2>1, <2>2, <2>3 DEF RunStep
<1>3. CASE \E u \in Rollbacks : RollbackStep(u)
  <2> PICK u \in Rollbacks : RollbackStep(u)
    BY <1>3
  <2>1. CASE \E r \in Runs : ReadSnapshot(u, r)
    BY <2>1, ReadSnapshotKeeps
  <2>2. CASE \E k \in Bases : Restore(u, k)
    BY <2>2, RestoreKeeps
  <2>3. CASE RestoreCommit(u) \/ StopRollback(u)
    BY <2>3, RestoreCommitKeeps, StopRollbackKeeps
  <2> QED BY <2>1, <2>2, <2>3 DEF RollbackStep
<1> QED BY <1>1, <1>2, <1>3 DEF RecomputeNext

LEMMA RecomputeInvariant == RecomputeSpec => []RecomputeInv
<1> QED BY RecomputeStarts, RecomputeSteps, PTL DEF RecomputeSpec

\* Totals, rows, jobs and snapshots keep their shape, whatever runs, rollbacks
\* and API requests interleave.
THEOREM RecomputeTypeCorrect == RecomputeSpec => []RecomputeTypeOK
BY RecomputeInvariant, PTL DEF RecomputeInv

\* A snapshot keeps a change, and can be undone while the total has not moved.
THEOREM SnapshotsCanBeUndone == RecomputeSpec => []SnapshotIsUndoable
<1>1. RecomputeInv => SnapshotIsUndoable
  <2> SUFFICES ASSUME RecomputeInv, NEW r \in Runs, NEW k \in Bases, snapshot[r][k] # Gone
               PROVE  /\ snapshot[r][k].applied # snapshot[r][k].previous
                      /\ chunks[k] = snapshot[r][k].applied \/ k \in grown[r] \cup shrunk[r]
    BY DEF SnapshotIsUndoable
  <2>1. RecomputeTypeOK /\ SavedOK(r)
    BY DEF RecomputeInv
  <2>2. /\ chunks[k] \in Nat /\ snapshot[r][k] \in Entry
        /\ snapshot[r][k].applied # snapshot[r][k].previous
        /\ Band(r, k, snapshot[r][k].applied)
    BY <2>1 DEF SavedOK, RecomputeTypeOK
  <2>3. snapshot[r][k].applied \in Nat
    BY <2>2 DEF Entry
  <2> QED BY <2>2, <2>3 DEF Band
<1> QED BY <1>1, RecomputeInvariant, PTL

\* Who commits is a run that applies its plan.
LEMMA CommitIsApply ==
    ASSUME RecomputeInv, [RecomputeNext]_recomputeVars, NEW r \in Runs, Commits(r)
    PROVE  Apply(r)
<1>1. RecomputeTypeOK /\ r \in Jobs /\ job'[r] # job[r] /\ job[r].phase = "apply"
  BY DEF RecomputeInv, Jobs, Commits
<1>2. ~UNCHANGED recomputeVars /\ ~ApiStep
  BY <1>1 DEF recomputeVars, ApiStep, RecordStatus, AskDelete, Drop, RetireRow, EndDelete,
              DropDataset, DeleteBase
<1>3. ~\E u \in Rollbacks : RollbackStep(u)
  <2> SUFFICES ASSUME NEW u \in Rollbacks, NEW rec, SetJob(u, rec) PROVE FALSE
    BY DEF RollbackStep, ReadSnapshot, Restore, Update, RestoreCommit, StopRollback
  <2> QED BY <1>1, JobsApart DEF SetJob, RecomputeTypeOK
<1>4. PICK p \in Runs : RunStep(p)
  BY <1>2, <1>3 DEF RecomputeNext
<1>5. p = r
  <2>1. \E rec : SetJob(p, rec)
    BY <1>4 DEF RunStep, ReadBases, ReadDocuments, Plan, Apply, Stop, Probe, Overwrite, Update
  <2> QED BY <1>1, <2>1 DEF SetJob, RecomputeTypeOK
<1>6. snapshot' # snapshot
  BY DEF Commits
<1> QED BY <1>4, <1>5, <1>6 DEF RunStep, ReadBases, ReadDocuments, Plan, Stop, Probe, Overwrite,
                                Update

\* A run writes the sum over the completed documents of a base, or one of them
\* came, went or was dropped since it listed them.
THEOREM RepairsAreExact == RecomputeSpec => RepairIsExact
<1>1. ASSUME RecomputeInv, [RecomputeNext]_recomputeVars, NEW r \in Runs, Commits(r),
             NEW k \in job[r].wrote \ disturbed[r]
      PROVE  chunks'[k] = Size(Completed(k))
  <2>1. Apply(r)
    BY <1>1, CommitIsApply
  <2>2. /\ RunOK(r) /\ job[r] \in JobRecord /\ job[r].phase = "apply"
    BY <1>1, <2>1 DEF RecomputeInv, RecomputeTypeOK, Jobs, Apply
  <2>3. k \in Bases /\ k \notin job[r].blocked /\ job[r].read[k] # Gone /\ job[r].left = {}
    BY <1>1, <2>2 DEF RunOK, WriteOK, Changes, JobRecord
  <2>4. job[r].found \cap DocumentsOf(k) = Completed(k)
    BY <1>1, <2>2, <2>3 DEF RunOK, ListOK
  <2>5. chunks'[k] = Suggested(r, k)
    BY <1>1, <2>1, <2>3 DEF Apply
  <2> QED BY <2>4, <2>5 DEF Suggested
<1>2. RecomputeInv /\ [RecomputeNext]_recomputeVars =>
        \A r \in Runs : Commits(r) =>
          \A k \in job[r].wrote \ disturbed[r] : chunks'[k] = Size(Completed(k))
  BY <1>1
<1> QED BY <1>2, RecomputeInvariant, PTL DEF RecomputeSpec, RepairIsExact

\* A run overwrites an increment it has not read, and a rollback one that is none
\* of its run's, only in a total that fell back to the value expected.
THEOREM OverwritesOnlyWhatReturned == RecomputeSpec => OverwritesOnlyReturned
<1>1. ASSUME RecomputeInv, [RecomputeNext]_recomputeVars, NEW r \in Runs, Commits(r)
      PROVE  job[r].wrote \cap grown[r] \subseteq shrunk[r]
  <2> SUFFICES ASSUME NEW k \in job[r].wrote, k \in grown[r], k \notin shrunk[r] PROVE FALSE
    OBVIOUS
  <2>1. RecomputeTypeOK /\ RunOK(r) /\ job[r] \in JobRecord /\ job[r].phase = "apply"
    BY <1>1 DEF RecomputeInv, RecomputeTypeOK, Jobs, Commits
  <2>2. k \in Bases /\ job[r].read[k] # Gone /\ chunks[k] = job[r].read[k] /\ r \in Reading
    BY <2>1 DEF RunOK, WriteOK, Changes, JobRecord, Reading
  <2>3. Band(r, k, job[r].read[k]) /\ chunks[k] \in Nat
    BY <2>1, <2>2 DEF RunOK, WatchOK, RecomputeTypeOK
  <2> QED BY <2>2, <2>3 DEF Band
<1>2. ASSUME RecomputeInv, NEW u \in Rollbacks, job[u].phase = "restore"
      PROVE  job[u].wrote \cap grown[job[u].of] \subseteq shrunk[job[u].of]
  <2> SUFFICES ASSUME NEW k \in job[u].wrote, k \in grown[job[u].of],
                      k \notin shrunk[job[u].of]
               PROVE  FALSE
    OBVIOUS
  <2> DEFINE r == job[u].of
  <2>1. /\ RecomputeTypeOK /\ k \in Bases /\ r \in Runs /\ snapshot[r][k] # Gone
        /\ chunks[k] = snapshot[r][k].applied
    BY <1>2 DEF RecomputeInv, RollbackOK, RecomputeTypeOK, JobRecord, Jobs
  <2>2. chunks[k] # Gone /\ Band(r, k, chunks[k])
    BY <1>2, <2>1 DEF RecomputeInv, SavedOK
  <2>3. chunks[k] \in Nat
    BY <2>1, <2>2 DEF RecomputeTypeOK
  <2> QED BY <2>2, <2>3 DEF Band
<1>3. RecomputeInv /\ [RecomputeNext]_recomputeVars =>
        /\ \A r \in Runs : Commits(r) => job[r].wrote \cap grown[r] \subseteq shrunk[r]
        /\ \A u \in Rollbacks : Restores(u) =>
             job[u].wrote \cap grown[job[u].of] \subseteq shrunk[job[u].of]
  BY <1>1, <1>2 DEF Restores
<1> QED BY <1>3, RecomputeInvariant, PTL DEF RecomputeSpec, OverwritesOnlyReturned
=============================================================================
