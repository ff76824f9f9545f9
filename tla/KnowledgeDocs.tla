--------------------------- MODULE KnowledgeDocs ---------------------------
(***************************************************************************)
(* The documents of one knowledge base: upload, status observation, retry  *)
(* and deletion (services/knowledge.py over repositories/knowledge.py).    *)
(*                                                                         *)
(* A document lives twice: upstream in Dify, which indexes it on its own,  *)
(* and as a row here, which follows what a request happened to observe.    *)
(* The knowledge-base row sums its documents up: how many there are, how   *)
(* many segments they have, and one folded indexing status.  No            *)
(* transaction spans the two stores; the local one is Postgres at READ     *)
(* COMMITTED:                                                              *)
(*                                                                         *)
(*   - an UPDATE or DELETE locks the row it changes until the transaction  *)
(*     ends, waits for one that is locked, and then judges it again;       *)
(*   - the fold of the document rows is a subquery: it reads them as they  *)
(*     were when the statement started, even if the statement then waited  *)
(*     for the knowledge-base row;                                         *)
(*   - what a transaction writes is seen by others when it commits.        *)
(***************************************************************************)
EXTENDS Naturals, FiniteSets

CONSTANTS
    Docs,         \* documents; their order is the order of a listing
    Requests,     \* HTTP requests in flight together
    MaxRestarts,  \* bound: times Dify restarts the indexing of one document
    None          \* nobody

ASSUME DocsAssumption ==
    Docs \subseteq Nat /\ IsFiniteSet(Docs) /\ MaxRestarts \in Nat
ASSUME NoneIsNobody == None \notin Requests

VARIABLES
    up,         \* document -> its state in Dify
    restarts,   \* document -> restarts so far
    row,        \* document -> status column of its row, "none" without one
    aggregate,  \* indexing_status of the knowledge base
    docCount,   \* doc_count of the knowledge base
    counted,    \* document -> times its segments are in chunk_count
    rowLock,    \* document -> request whose transaction holds its row
    kbLock,     \* request whose transaction holds the knowledge-base row
    req         \* request -> what it has observed and written

dify  == <<up, restarts>>
table == <<row, aggregate, docCount, counted>>
locks == <<rowLock, kbLock>>
vars  == <<dify, table, locks, req>>

-----------------------------------------------------------------------------
Terminal  == {"completed", "failed"}
RowStatus == {"none", "indexing"} \cup Terminal
UpStatus  == {"absent", "indexing", "gone"} \cup Terminal
Aggregate == {"ready", "indexing", "failed"}

Steps == {"idle", "create", "answer", "record", "refresh", "fold", "count",
          "restart", "rewind", "drop", "retire", "release"}

\* doc: the document at hand; todo: observed documents still to record; goal:
\* the status observed of each, which it is to get; wrote: rows this transaction has changed;
\* fold: the aggregate it has computed; pages: it serves a listing; owes: the
\* row it deletes was read as completed.
RequestRecord == [ step : Steps, doc : Docs \cup {None}, todo : SUBSET Docs,
                   goal : [Docs -> RowStatus], wrote : SUBSET Docs,
                   fold : Aggregate, pages : BOOLEAN, owes : BOOLEAN ]

Idle == [step |-> "idle", doc |-> None, todo |-> {}, goal |-> [d \in Docs |-> "none"],
         wrote |-> {}, fold |-> "ready", pages |-> FALSE, owes |-> FALSE]

On(step, d)     == [Idle EXCEPT !.step = step, !.doc = d]
Becomes(r, rec) == req' = [req EXCEPT ![r] = rec]
Goto(r, step)   == Becomes(r, [req[r] EXCEPT !.step = step])

\* The rule of refresh_indexing_status.
Fold(status) ==
    IF \E d \in Docs : status[d] = "indexing" THEN "indexing"
    ELSE IF \E d \in Docs : status[d] = "failed" THEN "failed" ELSE "ready"

\* The rows as r's own transaction sees them: committed, and its own writes.
Seen(r) == [d \in Docs |-> IF d \in req[r].wrote THEN req[r].goal[d] ELSE row[d]]

Unlock(r) ==
    /\ rowLock' = [d \in Docs |-> IF rowLock[d] = r THEN None ELSE rowLock[d]]
    /\ kbLock' = IF kbLock = r THEN None ELSE kbLock

\* The transaction of r ends.
Ends(r) == Unlock(r) /\ Becomes(r, Idle)

-----------------------------------------------------------------------------
Init ==
    /\ up = [d \in Docs |-> "absent"]
    /\ restarts = [d \in Docs |-> 0]
    /\ row = [d \in Docs |-> "none"]
    /\ aggregate = "ready"
    /\ docCount = 0
    /\ counted = [d \in Docs |-> 0]
    /\ rowLock = [d \in Docs |-> None] /\ kbLock = None
    /\ req = [r \in Requests |-> Idle]

\* Dify finishes indexing, well or badly.
Indexed(d) ==
    /\ up[d] = "indexing"
    /\ \E s \in Terminal : up' = [up EXCEPT ![d] = s]
    /\ UNCHANGED <<restarts, table, locks, req>>

-----------------------------------------------------------------------------
(* Upload: the document is created in Dify first.                          *)

CreateUpstream(r, d) ==
    /\ req[r] = Idle /\ up[d] = "absent"
    /\ up' = [up EXCEPT ![d] = "indexing"]
    /\ Becomes(r, On("create", d))
    /\ UNCHANGED <<restarts, table, locks>>

\* A document that is not tracked yet starts at "indexing".
Inserted(d) == [row EXCEPT ![d] = "indexing"]

AddDocument == docCount' = docCount + 1

\* Count, row, fold and commit.  The counter's UPDATE takes the knowledge-base
\* row, and no document row is committed past it, so the fold is fresh and
\* nobody tells these statements apart.
CreateRow(r) ==
    LET d == req[r].doc IN
    /\ req[r].step = "create" /\ kbLock = None
    /\ row' = Inserted(d)
    /\ AddDocument
    /\ aggregate' = Fold(row')
    /\ Ends(r)
    /\ UNCHANGED <<dify, counted>>

-----------------------------------------------------------------------------
(* Observation: a status poll records one document, a listing its page.    *)

Observing(step, D) ==
    [Idle EXCEPT !.step = step, !.todo = D, !.pages = (step = "answer"),
                 !.goal = [d \in Docs |-> IF d \in D THEN up[d] ELSE "none"]]

Observe(r) ==
    LET listed == {d \in Docs : up[d] \notin {"absent", "gone"}} IN
    /\ req[r] = Idle
    /\ \/ \E d \in listed : up[d] \in Terminal /\ Becomes(r, Observing("record", {d}))
       \/ listed # {} /\ Becomes(r, Observing("answer", listed))
    /\ UNCHANGED <<dify, table, locks>>

\* A listing answers with what the record has reached where Dify is behind it,
\* and records its answers.
Answer(r) ==
    LET answered == [d \in Docs |-> IF d \in req[r].todo /\ req[r].goal[d] \notin Terminal
                                     THEN row[d] ELSE req[r].goal[d]]
        done == {d \in req[r].todo : answered[d] \in Terminal}
    IN  /\ req[r].step = "answer"
        /\ Becomes(r, [req[r] EXCEPT !.step = "record", !.todo = done,
                        !.goal = [d \in Docs |-> IF d \in done THEN answered[d] ELSE "none"]])
        /\ UNCHANGED <<dify, table, locks>>

\* Mutant: a status that is already recorded is recorded once more.
RecordsAgain(d, status) == row[d] # "none"

\* transition_document_status without from_status: any other status moves.
Records(d, status) == row[d] \notin {"none", status}

\* The page's documents are taken in the order it lists them.
NextOf(D) == CHOOSE d \in D : \A e \in D : d <= e

\* The guarded UPDATE matches no row: nothing is locked or written.
Skip(r) ==
    LET d == NextOf(req[r].todo) IN
    /\ req[r].step = "record" /\ req[r].todo # {}
    /\ ~Records(d, req[r].goal[d])
    /\ Becomes(r, [req[r] EXCEPT !.todo = @ \ {d}])
    /\ UNCHANGED <<dify, table, locks>>

Transition(r) ==
    LET d == NextOf(req[r].todo) IN
    /\ req[r].step = "record" /\ req[r].todo # {}
    /\ rowLock[d] = None /\ Records(d, req[r].goal[d])
    /\ rowLock' = [rowLock EXCEPT ![d] = r]
    /\ Becomes(r, [req[r] EXCEPT !.step = "refresh", !.doc = d,
                                 !.todo = @ \ {d}, !.wrote = @ \cup {d}])
    /\ UNCHANGED <<dify, table, kbLock>>

\* refresh_indexing_status: the statement starts, and its subqueries are as
\* old as that ...
Refresh(r) ==
    /\ req[r].step = "refresh"
    /\ Becomes(r, [req[r] EXCEPT !.step = "fold", !.fold = Fold(Seen(r))])
    /\ UNCHANGED <<dify, table, locks>>

\* ... when it gets the knowledge-base row.  A listing asks Dify for the
\* segments of a completed document; a poll already has them.
Write(r) ==
    /\ req[r].step = "fold" /\ kbLock \in {None, r}
    /\ kbLock' = r
    /\ Goto(r, IF req[r].pages /\ req[r].goal[req[r].doc] = "completed"
                 THEN "count" ELSE "record")
    /\ UNCHANGED <<dify, table, rowLock>>

\* The document must still be there, else the request fails (Rollback).
Count(r) ==
    /\ req[r].step = "count" /\ up[req[r].doc] # "gone"
    /\ Goto(r, "record")
    /\ UNCHANGED <<dify, table, locks>>

\* Documents whose segments r adds to chunk_count.
Adds(r) == {d \in req[r].wrote : req[r].goal[d] = "completed"}

\* Mutant: the statuses are committed without the segments.
CommitUncounted(r) ==
    /\ req[r].step = "record" /\ req[r].todo = {} /\ kbLock = r
    /\ row' = Seen(r)
    /\ aggregate' = req[r].fold
    /\ Ends(r)
    /\ UNCHANGED <<dify, docCount, counted>>

Commit(r) ==
    /\ req[r].step = "record" /\ req[r].todo = {} /\ kbLock = r
    /\ row' = Seen(r)
    /\ aggregate' = req[r].fold
    /\ counted' = [d \in Docs |-> IF d \in Adds(r) THEN counted[d] + 1 ELSE counted[d]]
    /\ Ends(r)
    /\ UNCHANGED <<dify, docCount>>

\* Nothing was recorded, so there is nothing to commit.
NothingToCommit(r) ==
    /\ req[r].step = "record" /\ req[r].todo = {} /\ kbLock # r
    /\ Ends(r)
    /\ UNCHANGED <<dify, table>>

-----------------------------------------------------------------------------
(* Retry: only a document recorded as failed, or not recorded at all.      *)

ReadFailed(r, d) ==
    /\ req[r] = Idle /\ up[d] # "absent" /\ row[d] \in {"none", "failed"}
    /\ Becomes(r, On("restart", d))
    /\ UNCHANGED <<dify, table, locks>>

\* Dify answers 204 whether or not it restarts the document.
Restart(r) ==
    LET d == req[r].doc IN
    /\ req[r].step = "restart"
    /\ \/ /\ up[d] = "failed" /\ restarts[d] < MaxRestarts
          /\ up' = [up EXCEPT ![d] = "indexing"]
          /\ restarts' = [restarts EXCEPT ![d] = @ + 1]
       \/ UNCHANGED dify
    /\ Goto(r, "rewind")
    /\ UNCHANGED <<table, locks>>

\* transition_document_status from "failed"; the refresh follows either way.
Rewind(r) ==
    LET d == req[r].doc IN
    /\ req[r].step = "rewind"
    /\ \/ /\ row[d] # "failed"
          /\ Goto(r, "refresh")
          /\ UNCHANGED rowLock
       \/ /\ row[d] = "failed" /\ rowLock[d] = None
          /\ rowLock' = [rowLock EXCEPT ![d] = r]
          /\ Becomes(r, [req[r] EXCEPT !.step = "refresh", !.wrote = {d},
                                       !.goal = [@ EXCEPT ![d] = "indexing"]])
    /\ UNCHANGED <<dify, table, kbLock>>

-----------------------------------------------------------------------------
(* Deletion: whether segments are owed back is read before Dify is asked,  *)
(* and only a document Dify dropped is retired here.                       *)

ReadTracked(r, d) ==
    /\ req[r] = Idle /\ up[d] # "absent"
    /\ Becomes(r, [On("drop", d) EXCEPT !.owes = (row[d] = "completed")])
    /\ UNCHANGED <<dify, table, locks>>

\* A document that is being indexed, or is no longer there, is refused.
DropUpstream(r) ==
    LET d == req[r].doc IN
    /\ req[r].step = "drop"
    /\ \/ /\ up[d] \in Terminal
          /\ up' = [up EXCEPT ![d] = "gone"]
          /\ Goto(r, "retire")
       \/ /\ up[d] \notin Terminal
          /\ Becomes(r, Idle)
          /\ UNCHANGED up
    /\ UNCHANGED <<restarts, table, locks>>

\* Mutant: the counters are released whether or not a row was deleted.
RetireAnyway(r) ==
    LET d == req[r].doc IN
    /\ req[r].step = "retire" /\ rowLock[d] = None
    /\ rowLock' = [rowLock EXCEPT ![d] = r]
    /\ Goto(r, "release")
    /\ UNCHANGED <<dify, table, kbLock>>

\* DELETE ... RETURNING.
Retire(r) ==
    LET d == req[r].doc IN
    /\ req[r].step = "retire"
    /\ \/ /\ row[d] = "none"
          /\ Becomes(r, Idle)
          /\ UNCHANGED rowLock
       \/ /\ row[d] # "none" /\ rowLock[d] = None
          /\ rowLock' = [rowLock EXCEPT ![d] = r]
          /\ Goto(r, "release")
    /\ UNCHANGED <<dify, table, kbLock>>

\* release_document_counts, fold and commit; as in CreateRow the counter's
\* UPDATE comes first, so the fold is fresh.
ReleaseCounts(r) ==
    LET d == req[r].doc IN
    /\ req[r].step = "release" /\ kbLock = None
    /\ row' = [row EXCEPT ![d] = "none"]
    /\ docCount' = IF docCount > 0 THEN docCount - 1 ELSE 0
    /\ counted' = [counted EXCEPT ![d] = IF req[r].owes /\ @ > 0 THEN @ - 1 ELSE @]
    /\ aggregate' = Fold(row')
    /\ Ends(r)
    /\ UNCHANGED dify

-----------------------------------------------------------------------------
\* A request fails, its process dies, or Postgres picks it to end a deadlock.
Rollback(r) ==
    /\ req[r].step # "idle"
    /\ Ends(r)
    /\ UNCHANGED <<dify, table>>

Step(r) ==
    \/ \E d \in Docs : CreateUpstream(r, d) \/ ReadFailed(r, d) \/ ReadTracked(r, d)
    \/ CreateRow(r)
    \/ Observe(r) \/ Answer(r) \/ Skip(r) \/ Transition(r) \/ Refresh(r) \/ Write(r)
    \/ Count(r) \/ Commit(r) \/ NothingToCommit(r)
    \/ Restart(r) \/ Rewind(r)
    \/ DropUpstream(r) \/ Retire(r) \/ ReleaseCounts(r)
    \/ Rollback(r)

Next == \/ \E d \in Docs : Indexed(d)
        \/ \E r \in Requests : Step(r)

Spec == Init /\ [][Next]_vars

-----------------------------------------------------------------------------
\* Every column, lock and request record keeps its shape.
TypeOK ==
    /\ up \in [Docs -> UpStatus] /\ restarts \in [Docs -> 0..MaxRestarts]
    /\ row \in [Docs -> RowStatus] /\ aggregate \in Aggregate
    /\ docCount \in Nat /\ counted \in [Docs -> Nat]
    /\ rowLock \in [Docs -> Requests \cup {None}] /\ kbLock \in Requests \cup {None}
    /\ req \in [Requests -> RequestRecord]

\* A busy request knows its document, and what it is to record is terminal; a
\* retry has nothing to record.
StepsOK ==
    /\ \A r \in Requests : req[r].step \notin {"idle", "answer", "record"} => req[r].doc \in Docs
    /\ \A r \in Requests : req[r].step # "answer" =>
         \A d \in req[r].todo : req[r].goal[d] \in Terminal
    /\ \A r \in Requests : req[r].step = "answer" =>
         req[r].wrote = {} /\ \A d \in req[r].todo : req[r].goal[d] # "none"
    /\ \A r \in Requests : req[r].step \in {"restart", "rewind"} => req[r].todo = {}

\* What a transaction is about to change is locked, is there, and is a change.
LocksOK ==
    /\ \A r \in Requests : \A d \in req[r].wrote :
         /\ rowLock[d] = r /\ row[d] \notin {"none", req[r].goal[d]}
         /\ req[r].goal[d] # "none"
    /\ \A r \in Requests : req[r].step = "release" =>
         rowLock[req[r].doc] = r /\ row[req[r].doc] # "none"

\* A row is created by the one request that created its document.
CreatesOK ==
    /\ \A d \in Docs : up[d] = "absent" => row[d] = "none"
    /\ \A r \in Requests : req[r].step = "create" =>
         up[req[r].doc] # "absent" /\ row[req[r].doc] = "none"
    /\ \A r, s \in Requests :
         req[r].step = "create" /\ req[s].step = "create" /\ req[r].doc = req[s].doc => r = s

-----------------------------------------------------------------------------
Rows == {d \in Docs : row[d] # "none"}

\* doc_count is the number of document rows, whatever uploads, deletions and
\* failures interleave: "retire the local row and its share of both KB totals"
\* (knowledge.py:442).
DocCountIsExact == docCount = Cardinality(Rows)

\* "a document is never recorded as completed without its segments"
\* (knowledge.py:544).
CompletedIsCounted == \A d \in Docs : row[d] = "completed" => counted[d] > 0

\* Segments are added only by a move into completed, once for it: observers
\* that race with the same answer never count it twice (knowledge.py:592).
CountedByTransition ==
    [][\A d \in Docs : counted'[d] > counted[d] =>
         /\ row[d] # "completed" /\ row'[d] = "completed"
         /\ counted'[d] = counted[d] + 1]_vars

\* "every status transition re-folds the aggregate" (knowledge.py:408): what
\* the recall gate reads is the fold of the rows.
AggregateIsFolded == aggregate = Fold(row)
=============================================================================
