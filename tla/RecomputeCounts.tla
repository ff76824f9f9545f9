-------------------------- MODULE RecomputeCounts --------------------------
(***************************************************************************)
(* The repair of chunk_count (scripts/recompute_kb_counts.py), run by hand *)
(* while the API goes on serving.                                          *)
(*                                                                         *)
(* A run reads every knowledge base, then the completed documents, asks    *)
(* Dify for the segments of each, and overwrites each total that differs   *)
(* with a compare-and-set, all in one transaction that also snapshots what *)
(* it replaced.  A rollback puts a snapshot back, guarded the same way.    *)
(* Meanwhile documents complete, fail and are deleted, each in a           *)
(* transaction of its own that moves chunk_count with the document's row   *)
(* (KnowledgeDocs has their inner steps), and knowledge bases go.          *)
(***************************************************************************)
EXTENDS Naturals, FiniteSets

CONSTANTS
    Bases,      \* knowledge bases; their order is the order of a run
    Documents,  \* documents; their order is the order of the probes
    BaseOf,     \* document -> its knowledge base
    Segments,   \* segments Dify holds or held
    DocOf,      \* segment -> its document
    Runs,       \* invocations that recompute; each is a snapshot_id
    Rollbacks,  \* invocations with --rollback
    MaxCount,   \* bound: a document is counted only up to this chunk_count
    MaxDeletions, \* bound: deletions under way together
    Gone        \* a row that is not there; nobody

\* One row of kb_chunk_count_snapshots.
Entry == [previous : Nat, applied : Nat]

ASSUME RecomputeAssumption ==
    /\ Bases \subseteq Nat /\ Documents \subseteq Nat /\ IsFiniteSet(Segments)
    /\ BaseOf \in [Documents -> Bases] /\ DocOf \in [Segments -> Documents]
    /\ MaxCount \in Nat /\ MaxDeletions \in Nat
ASSUME GoneAssumption == Gone \notin Nat \cup Runs \cup Rollbacks \cup Entry
ASSUME JobsAssumption == Runs \cap Rollbacks = {}

Jobs == Runs \cup Rollbacks

VARIABLES
    chunks,     \* knowledge base -> chunk_count, Gone without a row
    recorded,   \* document -> status column of its row, "none" without one
    held,       \* documents Dify holds
    deletion,   \* document -> how far a request to delete it has come
    job,        \* run or rollback -> what it has read, planned and written
    holder,     \* knowledge base -> job whose transaction has locked its row
    snapshot,   \* run -> knowledge base -> its snapshot row, Gone without one
    disturbed,  \* run -> bases whose completed documents changed since it listed them
    grown,      \* run -> bases whose total rose since it read or wrote them
    shrunk      \* run -> bases whose total fell since it read or wrote them

documents == <<recorded, held, deletion>>
totals    == <<chunks, grown, shrunk>>
recomputeVars == <<documents, totals, job, holder, snapshot, disturbed>>

-----------------------------------------------------------------------------
DocumentStatus == {"none", "indexing", "completed", "failed"}
Deletion == {"no", "owing", "free", "owed", "settled"}
Phase    == {"idle", "documents", "probe", "apply", "restore", "over"}

\* read: chunk_count of each base; left: documents to probe; found: documents
\* whose segments were read; blocked: bases with an unreadable one; todo: bases
\* still to write; wrote: bases written in this transaction; of: the snapshot
\* that a rollback restores.
JobRecord == [ phase : Phase, read : [Bases -> Nat \cup {Gone}], left : SUBSET Documents,
               found : SUBSET Documents, blocked : SUBSET Bases,
               todo : SUBSET Bases, wrote : SUBSET Bases, of : Runs \cup {Gone} ]

NoJob == [ phase |-> "idle", read |-> [k \in Bases |-> Gone], left |-> {}, found |-> {},
           blocked |-> {}, todo |-> {}, wrote |-> {}, of |-> Gone ]

Over == [NoJob EXCEPT !.phase = "over"]

DocumentsOf(k) == {d \in Documents : BaseOf[d] = k}
Completed(k)   == {d \in DocumentsOf(k) : recorded[d] = "completed"}

\* Segments of some documents, and the total a run has summed up for a base.
Size(D)         == Cardinality({s \in Segments : DocOf[s] \in D})
Suggested(r, k) == Size(job[r].found \cap DocumentsOf(k))

First(S) == {x \in S : \A y \in S : x <= y}

SetJob(r, rec) == job' = [job EXCEPT ![r] = rec]

Frees(r) == holder' = [k \in Bases |-> IF holder[k] = r THEN Gone ELSE holder[k]]

\* The totals become these, and whoever watches them is told which way they went.
Present(new) == {k \in Bases : chunks[k] # Gone /\ new[k] # Gone}
Risen(new)   == {k \in Present(new) : new[k] > chunks[k]}
Fallen(new)  == {k \in Present(new) : new[k] < chunks[k]}
Reading == {r \in Runs : job[r].phase \in {"documents", "probe", "apply"}}
Saved   == {r \in Runs : \E k \in Bases : snapshot[r][k] # Gone}
With(told, watching, B) == [r \in Runs |-> IF r \in watching THEN told[r] \cup B ELSE told[r]]
SetTotals(new) ==
    /\ chunks' = new
    /\ grown' = With(grown, Reading \cup Saved, Risen(new))
    /\ shrunk' = With(shrunk, Reading \cup Saved, Fallen(new))

Disturbs(B) == disturbed' = With(disturbed, Reading, B)

-----------------------------------------------------------------------------
\* Documents that completed before the accumulator shipped are missing from
\* the totals.
RecomputeInit ==
    /\ recorded \in [Documents -> DocumentStatus \ {"none"}]
    /\ \E early \in SUBSET Documents : chunks = [k \in Bases |-> Size(Completed(k) \ early)]
    /\ held = Documents
    /\ deletion = [d \in Documents |-> "no"]
    /\ job = [j \in Jobs |-> NoJob]
    /\ holder = [k \in Bases |-> Gone]
    /\ snapshot = [r \in Runs |-> [k \in Bases |-> Gone]]
    /\ disturbed = [r \in Runs |-> {}]
    /\ grown = [r \in Runs |-> {}] /\ shrunk = [r \in Runs |-> {}]

-----------------------------------------------------------------------------
(* The API.  Each of its transactions updates the knowledge-base row, so it *)
(* waits for a run that has locked this row.                               *)

\* A terminal status is recorded, or a retry takes a failed document back.
RecordStatus(d, s) ==
    LET k == BaseOf[d] IN
    /\ recorded[d] \notin {"none", s} /\ holder[k] = Gone
    /\ s = "indexing" => recorded[d] = "failed"
    /\ recorded' = [recorded EXCEPT ![d] = s]
    /\ \/ /\ s = "completed" /\ chunks[k] + Size({d}) <= MaxCount
          /\ SetTotals([chunks EXCEPT ![k] = @ + Size({d})])
       \/ /\ s # "completed"
          /\ UNCHANGED totals
    /\ Disturbs(IF "completed" \in {s, recorded[d]} THEN {k} ELSE {})
    /\ UNCHANGED <<held, deletion, job, holder, snapshot>>

\* A deletion reads whether segments are owed, then asks Dify ...
AskDelete(d) ==
    /\ deletion[d] = "no" /\ d \in held
    /\ Cardinality({e \in Documents : deletion[e] # "no"}) < MaxDeletions
    /\ deletion' = [deletion EXCEPT ![d] = IF recorded[d] = "completed" THEN "owing" ELSE "free"]
    /\ UNCHANGED <<recorded, held, totals, job, holder, snapshot, disturbed>>

Drop(d) ==
    /\ deletion[d] \in {"owing", "free"} /\ d \in held
    /\ held' = held \ {d}
    /\ deletion' = [deletion EXCEPT ![d] = IF @ = "owing" THEN "owed" ELSE "settled"]
    /\ Disturbs(IF recorded[d] = "completed" THEN {BaseOf[d]} ELSE {})
    /\ UNCHANGED <<recorded, totals, job, holder, snapshot>>

\* ... then retires the row and gives its segments back.
Given(total, d) == IF total > Size({d}) THEN total - Size({d}) ELSE 0
RetireRow(d) ==
    LET k == BaseOf[d] IN
    /\ deletion[d] \in {"owed", "settled"} /\ recorded[d] # "none" /\ holder[k] = Gone
    /\ recorded' = [recorded EXCEPT ![d] = "none"]
    /\ SetTotals([chunks EXCEPT ![k] = IF deletion[d] = "owed" THEN Given(@, d) ELSE @])
    /\ deletion' = [deletion EXCEPT ![d] = "no"]
    /\ Disturbs(IF recorded[d] = "completed" THEN {k} ELSE {})
    /\ UNCHANGED <<held, job, holder, snapshot>>

\* The request is refused or fails, or there is no row left.
EndDelete(d) ==
    /\ deletion[d] # "no"
    /\ deletion' = [deletion EXCEPT ![d] = "no"]
    /\ UNCHANGED <<recorded, held, totals, job, holder, snapshot, disturbed>>

\* A knowledge base is deleted: its dataset first, then its row with those of
\* its documents and snapshots.
DropDataset(k) ==
    /\ chunks[k] # Gone /\ held \cap DocumentsOf(k) # {}
    /\ held' = held \ DocumentsOf(k)
    /\ Disturbs({k})
    /\ UNCHANGED <<recorded, deletion, totals, job, holder, snapshot>>

DeleteBase(k) ==
    /\ chunks[k] # Gone /\ held \cap DocumentsOf(k) = {} /\ holder[k] = Gone
    /\ SetTotals([chunks EXCEPT ![k] = Gone])
    /\ recorded' = [d \in Documents |-> IF BaseOf[d] = k THEN "none" ELSE recorded[d]]
    /\ snapshot' = [r \in Runs |-> [snapshot[r] EXCEPT ![k] = Gone]]
    /\ Disturbs({k})
    /\ UNCHANGED <<held, deletion, job, holder>>

-----------------------------------------------------------------------------
(* A run: two queries, the probes, one transaction.                        *)

ReadBases(r) ==
    /\ job[r] = NoJob
    /\ SetJob(r, [NoJob EXCEPT !.phase = "documents", !.read = chunks])
    /\ grown' = [grown EXCEPT ![r] = {}] /\ shrunk' = [shrunk EXCEPT ![r] = {}]
    /\ UNCHANGED <<documents, chunks, holder, snapshot, disturbed>>

\* The completed documents of the bases it has read.
Listed(r) == {d \in Documents : recorded[d] = "completed" /\ job[r].read[BaseOf[d]] # Gone}

ReadDocuments(r) ==
    /\ job[r].phase = "documents"
    /\ SetJob(r, [job[r] EXCEPT !.phase = "probe", !.left = Listed(r)])
    /\ disturbed' = [disturbed EXCEPT ![r] = {k \in Bases : ~(Completed(k) \subseteq held)}]
    /\ UNCHANGED <<documents, totals, holder, snapshot>>

\* Mutant: an unreadable document counts for nothing, as one that is gone.
ProbeLenient(r, d) ==
    /\ job[r].phase = "probe" /\ d \in First(job[r].left)
    /\ \E found \in SUBSET (held \cap {d}) :
          SetJob(r, [job[r] EXCEPT !.left = @ \ {d}, !.found = @ \cup found])
    /\ UNCHANGED <<documents, totals, holder, snapshot, disturbed>>

\* Dify answers with the segments; a document it no longer holds (404) counts
\* for nothing; any other failure takes the whole base out of the run.
Probe(r, d) ==
    /\ job[r].phase = "probe" /\ d \in First(job[r].left)
    /\ \/ SetJob(r, [job[r] EXCEPT !.left = @ \ {d}, !.found = @ \cup (held \cap {d})])
       \/ SetJob(r, [job[r] EXCEPT !.left = @ \ {d}, !.blocked = @ \cup {BaseOf[d]}])
    /\ UNCHANGED <<documents, totals, holder, snapshot, disturbed>>

\* What differs is to be written.
Changes(r) == {k \in Bases : /\ job[r].read[k] # Gone /\ k \notin job[r].blocked
                             /\ Suggested(r, k) # job[r].read[k]}
Plan(r) ==
    /\ job[r].phase = "probe" /\ job[r].left = {}
    /\ SetJob(r, [job[r] EXCEPT !.phase = "apply", !.todo = Changes(r)])
    /\ UNCHANGED <<documents, totals, holder, snapshot, disturbed>>

\* A guarded UPDATE: the row holds the expected value, or it is left alone.  One
\* that does not match is not waited for.
Update(r, k, matches) ==
    /\ \/ /\ matches /\ holder[k] = Gone
          /\ holder' = [holder EXCEPT ![k] = r]
          /\ SetJob(r, [job[r] EXCEPT !.todo = @ \ {k}, !.wrote = @ \cup {k}])
       \/ /\ ~matches
          /\ SetJob(r, [job[r] EXCEPT !.todo = @ \ {k}])
          /\ UNCHANGED holder
    /\ UNCHANGED <<documents, totals, snapshot, disturbed>>

\* Mutant: the row is overwritten whatever it holds.
OverwriteAnyway(r, k) ==
    /\ job[r].phase = "apply" /\ k \in First(job[r].todo)
    /\ Update(r, k, chunks[k] # Gone)

Overwrite(r, k) ==
    /\ job[r].phase = "apply" /\ k \in First(job[r].todo)
    /\ Update(r, k, chunks[k] = job[r].read[k])

\* A snapshot row for each base that was overwritten.
Entries(r) ==
    [k \in Bases |-> IF k \in job[r].wrote
                       THEN [previous |-> job[r].read[k], applied |-> Suggested(r, k)]
                       ELSE Gone]

Apply(r) ==
    LET new == [k \in Bases |-> IF k \in job[r].wrote THEN Suggested(r, k) ELSE chunks[k]] IN
    /\ job[r].phase = "apply" /\ job[r].todo = {}
    /\ chunks' = new
    /\ grown' = [With(grown, Reading \cup Saved, Risen(new)) EXCEPT ![r] = {}]
    /\ shrunk' = [With(shrunk, Reading \cup Saved, Fallen(new)) EXCEPT ![r] = {}]
    /\ disturbed' = [disturbed EXCEPT ![r] = {}]
    /\ snapshot' = [snapshot EXCEPT ![r] = Entries(r)]
    /\ Frees(r)
    /\ SetJob(r, Over)
    /\ UNCHANGED documents

\* A dry run ends; Dify refuses the login; the process dies, or Postgres picks
\* it to end a deadlock.
Stop(r) ==
    /\ job[r].phase # "over"
    /\ SetJob(r, Over)
    /\ Frees(r)
    /\ disturbed' = [disturbed EXCEPT ![r] = {}]
    /\ grown' = [grown EXCEPT ![r] = {}] /\ shrunk' = [shrunk EXCEPT ![r] = {}]
    /\ UNCHANGED <<documents, chunks, snapshot>>

-----------------------------------------------------------------------------
(* A rollback of one snapshot, as often as the operator asks for it.       *)

ReadSnapshot(u, r) ==
    LET saved == {k \in Bases : snapshot[r][k] # Gone} IN
    /\ job[u] = NoJob /\ saved # {}
    /\ SetJob(u, [NoJob EXCEPT !.phase = "restore", !.todo = saved, !.of = r])
    /\ UNCHANGED <<documents, totals, holder, snapshot, disturbed>>

\* The rows of a snapshot come in no promised order.
Restore(u, k) ==
    LET entry == snapshot[job[u].of][k] IN
    /\ job[u].phase = "restore" /\ k \in job[u].todo
    /\ Update(u, k, entry # Gone /\ chunks[k] = entry.applied)

RestoreCommit(u) ==
    /\ job[u].phase = "restore" /\ job[u].todo = {}
    /\ SetTotals([k \in Bases |-> IF k \in job[u].wrote
                                    THEN snapshot[job[u].of][k].previous ELSE chunks[k]])
    /\ Frees(u)
    /\ SetJob(u, Over)
    /\ UNCHANGED <<documents, snapshot, disturbed>>

StopRollback(u) ==
    /\ job[u].phase # "over"
    /\ SetJob(u, Over)
    /\ Frees(u)
    /\ UNCHANGED <<documents, totals, snapshot, disturbed>>

RunStep(r) ==
    \/ ReadBases(r) \/ ReadDocuments(r) \/ Plan(r) \/ Apply(r) \/ Stop(r)
    \/ \E d \in Documents : Probe(r, d)
    \/ \E k \in Bases : Overwrite(r, k)

RollbackStep(u) ==
    \/ \E r \in Runs : ReadSnapshot(u, r)
    \/ \E k \in Bases : Restore(u, k)
    \/ RestoreCommit(u) \/ StopRollback(u)

ApiStep ==
    \/ \E d \in Documents : \/ \E s \in DocumentStatus \ {"none"} : RecordStatus(d, s)
                            \/ AskDelete(d) \/ Drop(d) \/ RetireRow(d) \/ EndDelete(d)
    \/ \E k \in Bases : DropDataset(k) \/ DeleteBase(k)

RecomputeNext ==
    ApiStep \/ (\E r \in Runs : RunStep(r)) \/ (\E u \in Rollbacks : RollbackStep(u))

RecomputeSpec == RecomputeInit /\ [][RecomputeNext]_recomputeVars

-----------------------------------------------------------------------------
\* Every column, lock and job record keeps its shape.
RecomputeTypeOK ==
    /\ chunks \in [Bases -> Nat \cup {Gone}]
    /\ recorded \in [Documents -> DocumentStatus] /\ held \in SUBSET Documents
    /\ deletion \in [Documents -> Deletion]
    /\ job \in [Jobs -> JobRecord] /\ holder \in [Bases -> Jobs \cup {Gone}]
    /\ snapshot \in [Runs -> [Bases -> Entry \cup {Gone}]]
    /\ disturbed \in [Runs -> SUBSET Bases]
    /\ grown \in [Runs -> SUBSET Bases] /\ shrunk \in [Runs -> SUBSET Bases]

\* A run commits its totals.
Commits(r) == job[r].phase = "apply" /\ job'[r].phase = "over" /\ snapshot'[r] # snapshot[r]

\* "rebuilds each total as the sum over the KB's locally tracked completed
\* documents" (recompute_kb_counts.py:5): what a run writes is that sum, unless
\* a completed document of this base came, went or was dropped by Dify since the
\* run listed them.  Never a partial sum, which "would silently undercount"
\* (recompute_kb_counts.py:177).
RepairIsExact ==
    [][\A r \in Runs : Commits(r) =>
         \A k \in job[r].wrote \ disturbed[r] : chunks'[k] = Size(Completed(k))]_recomputeVars

\* A rollback commits what it put back.
Restores(u) == job[u].phase = "restore" /\ job'[u].phase = "over" /\ chunks' # chunks

\* An increment that was committed after a run read the total is overwritten only
\* where the total fell as well and came back to the value the plan read.  The
\* same of a rollback, which undoes "exactly what this run moved"
\* (recompute_kb_counts.py:211), and of the value its run wrote.
OverwritesOnlyReturned ==
    [][/\ \A r \in Runs : Commits(r) => job[r].wrote \cap grown[r] \subseteq shrunk[r]
       /\ \A u \in Rollbacks : Restores(u) =>
            job[u].wrote \cap grown[job[u].of] \subseteq shrunk[job[u].of]]_recomputeVars

\* What a snapshot keeps is a change, and can be undone as long as the total has
\* not moved: "a rollback can tell a row it may still undo from one a later
\* increment has moved on from" (models/knowledge.py:113).
SnapshotIsUndoable ==
    \A r \in Runs : \A k \in Bases : snapshot[r][k] # Gone =>
      /\ snapshot[r][k].applied # snapshot[r][k].previous
      /\ chunks[k] = snapshot[r][k].applied \/ k \in grown[r] \cup shrunk[r]

\* "an increment the API committed in between survives instead of being
\* overwritten" (recompute_kb_counts.py:207): of the documents that Dify holds,
\* each that is completed is in the total a run writes.
IncrementSurvives ==
    [][\A r \in Runs : Commits(r) =>
         \A k \in job[r].wrote : Completed(k) \cap held \subseteq job[r].found]_recomputeVars
=============================================================================
