----------------------------- MODULE Catalogue -----------------------------
(* The agents and knowledge bases of a tenant, each mirrored by an app or a  *)
(* dataset in Dify (app/services/agent_service.py, knowledge.py).  A request *)
(* is a saga: calls to Dify and transactions of its own, with other requests *)
(* between any two of them; a call may be refused or its answer lost, and    *)
(* the process may die.                                                      *)
EXTENDS Naturals, FiniteSets

CONSTANTS Agent, Kb,      \* rows the tenant may come to have
          App, Dataset,   \* what Dify may come to hold for them
          Request,        \* requests of administrators
          MaxVersion      \* bound: versions of an agent
CONSTANT None

VARIABLES agent, kb,        \* agent_registry with its bindings, knowledge_base_registry
          apps, datasets,   \* Dify
          request,
          faulted           \* history: an answer, a cleanup or a process was lost

vars == <<agent, kb, apps, datasets, request, faulted>>

Live == {"draft", "testing", "published", "offline"}
Kinds == {"register", "update", "testing", "published", "offline", "archive", "kb", "dropkb"}
Held == {"key", "insert", "undo"}              \* an app only the request can name
KbHeld == {"kbkey", "kbinsert", "kbundo"}      \* a dataset only the request can name
Steps == {"idle", "app", "read", "write", "archive", "dataset", "kbupstream", "kbdrop"}
             \cup Held \cup KbHeld

AgentRow == [status : Live \cup {"none", "archived"}, version : 0 .. MaxVersion,
             app : App \cup {None}, kbs : SUBSET Kb, unsure : BOOLEAN]
KbRow == [status : {"none", "there", "gone"}, dataset : Dataset \cup {None}]
RequestRecord == [pc : Steps, kind : Kinds, agent : Agent \cup {None}, version : 0 .. MaxVersion,
                  app : App \cup {None}, kb : Kb \cup {None}, kbs : SUBSET Kb,
                  dataset : Dataset \cup {None}]

ASSUME CatalogueAssumption ==
    /\ MaxVersion \in Nat \ {0}
    /\ None \notin Agent \cup Kb \cup App \cup Dataset

Idle == [pc |-> "idle", kind |-> "update", agent |-> None, version |-> 0, app |-> None,
         kb |-> None, kbs |-> {}, dataset |-> None]

Init ==
    /\ agent = [a \in Agent |-> [status |-> "none", version |-> 0, app |-> None,
                                 kbs |-> {}, unsure |-> FALSE]]
    /\ kb = [k \in Kb |-> [status |-> "none", dataset |-> None]]
    /\ apps = {} /\ datasets = {}
    /\ request = [q \in Request |-> Idle]
    /\ faulted = FALSE

IsLive(a) == agent[a].status \in Live
There(k) == kb[k].status = "there"
KnownKbs(kbs) == \A k \in kbs : There(k)

At(q, pc) == request[q].pc = pc
Goto(q, pc) == request' = [request EXCEPT ![q].pc = pc]
End(q) == request' = [request EXCEPT ![q] = Idle]
Begin(q, rec) == At(q, "idle") /\ request' = [request EXCEPT ![q] = rec]

Fault == faulted' = TRUE
Sound == UNCHANGED faulted

(* Ids that Dify has not given to anything that is still named. *)
FreshApps == {x \in App : /\ x \notin apps /\ \A a \in Agent : agent[a].app # x
                          /\ \A q \in Request : request[q].app # x}
FreshDatasets == {d \in Dataset : /\ d \notin datasets /\ \A k \in Kb : kb[k].dataset # d
                                  /\ \A q \in Request : request[q].dataset # d}

(***************************************************************************)
(* Registering an agent: the app, its key, then the row with its bindings. *)
(***************************************************************************)
BeginRegister(q) ==
    /\ \E a \in Agent, kbs \in SUBSET Kb :
          Begin(q, [Idle EXCEPT !.pc = "app", !.kind = "register", !.agent = a, !.kbs = kbs])
    /\ UNCHANGED <<agent, kb, apps, datasets, faulted>>

(* Answered, refused, or answered to nobody: then the app has no name here. *)
CreateApp(q) ==
    /\ At(q, "app")
    /\ \/ \E x \in FreshApps :
             /\ apps' = apps \cup {x}
             /\ \/ request' = [request EXCEPT ![q].pc = "key", ![q].app = x] /\ Sound
                \/ End(q) /\ Fault
       \/ End(q) /\ UNCHANGED apps /\ Sound
    /\ UNCHANGED <<agent, kb, datasets>>

(* The app's model and its key; a failure is compensated. *)
MakeKey(q) ==
    /\ At(q, "key")
    /\ Goto(q, "insert") \/ Goto(q, "undo")
    /\ UNCHANGED <<agent, kb, apps, datasets, faulted>>

Draft(q, unsure) == [status |-> "draft", version |-> 1, app |-> request[q].app,
                     kbs |-> request[q].kbs, unsure |-> unsure]

(* The id is free -- an archived row keeps it -- and every binding has a row. *)
Insertable(q) == agent[request[q].agent].status = "none" /\ KnownKbs(request[q].kbs)

(* Mutant of InsertAgent: the handler of a duplicate id leaves the app.       *)
InsertAgentUncompensated(q) ==
    LET a == request[q].agent IN
    /\ At(q, "insert") /\ End(q) /\ Sound
    /\ \/ /\ Insertable(q)
          /\ agent' = [agent EXCEPT ![a] = Draft(q, FALSE)]
       \/ agent[a].status # "none" /\ UNCHANGED agent
    /\ UNCHANGED <<kb, apps, datasets>>

(* A row that cannot be inserted fails, and so may the database.  A commit whose       *)
(* answer is lost looks like a failure, and its app is deleted too.           *)
InsertAgent(q) ==
    LET a == request[q].agent IN
    /\ At(q, "insert")
    /\ \/ /\ Insertable(q)
          /\ \/ agent' = [agent EXCEPT ![a] = Draft(q, FALSE)] /\ End(q) /\ Sound
             \/ agent' = [agent EXCEPT ![a] = Draft(q, TRUE)] /\ Goto(q, "undo") /\ Fault
       \/ Goto(q, "undo") /\ UNCHANGED agent /\ Sound
    /\ UNCHANGED <<kb, apps, datasets>>

(* Best effort: a failed cleanup is only logged. *)
Undo(q) ==
    /\ At(q, "undo") /\ End(q)
    /\ \/ apps' = apps \ {request[q].app} /\ Sound
       \/ UNCHANGED apps /\ Fault
    /\ UNCHANGED <<agent, kb, datasets>>

(***************************************************************************)
(* An agent's lifecycle: every write names the version its client has seen. *)
(***************************************************************************)
BeginEdit(q) ==
    /\ \E a \in Agent, kind \in {"update", "testing", "published", "offline"}, kbs \in SUBSET Kb :
          /\ IsLive(a) /\ agent[a].version < MaxVersion
          /\ kind # "update" => kbs = {}
          /\ Begin(q, [Idle EXCEPT !.pc = "read", !.kind = kind, !.agent = a,
                                   !.version = agent[a].version, !.kbs = kbs])
    /\ UNCHANGED <<agent, kb, apps, datasets, faulted>>

Admits(kind, status) ==
    CASE kind = "testing"   -> status = "draft"
      [] kind = "published" -> status \in {"draft", "testing", "published"}
      [] OTHER              -> status \in Live

(* Refused for an agent that is gone or in the wrong status; to start testing *)
(* again is answered from the row that was read.                              *)
ReadAgent(q) ==
    /\ At(q, "read")
    /\ IF Admits(request[q].kind, agent[request[q].agent].status) THEN Goto(q, "write") ELSE End(q)
    /\ UNCHANGED <<agent, kb, apps, datasets, faulted>>

Edited(row, rec) ==
    [row EXCEPT !.version = @ + 1,
                !.status = IF rec.kind = "update" THEN @ ELSE rec.kind,
                !.kbs = IF rec.kind = "update" THEN rec.kbs ELSE @]

(* Mutant of Unchanged: the version is not compared. *)
UnchangedOrNot(row, rec) == row.status \in Live

Unchanged(row, rec) == row.status \in Live /\ row.version = rec.version

(* The version moves with the edit or not at all: a binding that is refused   *)
(* takes the whole transaction back.                                          *)
WriteAgent(q) ==
    LET a == request[q].agent IN
    /\ At(q, "write") /\ End(q)
    /\ \/ /\ Unchanged(agent[a], request[q]) /\ KnownKbs(request[q].kbs)
          /\ agent' = [agent EXCEPT ![a] = Edited(agent[a], request[q])]
       \/ UNCHANGED agent
    /\ UNCHANGED <<kb, apps, datasets, faulted>>

BeginArchive(q) ==
    /\ \E a \in Agent : IsLive(a)
          /\ Begin(q, [Idle EXCEPT !.pc = "archive", !.kind = "archive", !.agent = a])
    /\ UNCHANGED <<agent, kb, apps, datasets, faulted>>

(* Mutant of Archive: the app goes first, the row with the next request.      *)
ArchiveAppFirst(q) ==
    /\ At(q, "archive")
    /\ \/ /\ IsLive(request[q].agent)
          /\ request' = [request EXCEPT ![q].pc = "undo", ![q].app = agent[request[q].agent].app]
       \/ End(q)
    /\ UNCHANGED <<agent, kb, apps, datasets, faulted>>

Archived(row) == [row EXCEPT !.status = "archived"]

(* The row is archived first, its app deleted after, and only by the request  *)
(* that archived it.                                                          *)
Archive(q) ==
    LET a == request[q].agent IN
    /\ At(q, "archive")
    /\ \/ /\ IsLive(a)
          /\ agent' = [agent EXCEPT ![a] = Archived(@)]
          /\ \/ request' = [request EXCEPT ![q].pc = "undo", ![q].app = agent[a].app] /\ Sound
             \/ End(q) /\ Fault
       \/ End(q) /\ UNCHANGED agent /\ Sound
    /\ UNCHANGED <<kb, apps, datasets>>

(***************************************************************************)
(* Creating a knowledge base: the dataset, the tenant's key, then the row. *)
(***************************************************************************)
BeginKb(q) ==
    /\ Begin(q, [Idle EXCEPT !.pc = "dataset", !.kind = "kb"])
    /\ UNCHANGED <<agent, kb, apps, datasets, faulted>>

CreateDataset(q) ==
    /\ At(q, "dataset")
    /\ \/ \E d \in FreshDatasets :
             /\ datasets' = datasets \cup {d}
             /\ \/ request' = [request EXCEPT ![q].pc = "kbkey", ![q].dataset = d] /\ Sound
                \/ End(q) /\ Fault
       \/ End(q) /\ UNCHANGED datasets /\ Sound
    /\ UNCHANGED <<agent, kb, apps>>

MakeDatasetKey(q) ==
    /\ At(q, "kbkey")
    /\ Goto(q, "kbinsert") \/ Goto(q, "kbundo")
    /\ UNCHANGED <<agent, kb, apps, datasets, faulted>>

NewKb(q) == [status |-> "there", dataset |-> request[q].dataset]

InsertKb(q) ==
    /\ At(q, "kbinsert")
    /\ \/ \E k \in Kb :
             /\ kb[k].status = "none"
             /\ kb' = [kb EXCEPT ![k] = NewKb(q)]
             /\ (End(q) /\ Sound) \/ (Goto(q, "kbundo") /\ Fault)
       \/ Goto(q, "kbundo") /\ UNCHANGED kb /\ Sound
    /\ UNCHANGED <<agent, apps, datasets>>

UndoKb(q) ==
    /\ At(q, "kbundo") /\ End(q)
    /\ \/ datasets' = datasets \ {request[q].dataset} /\ Sound
       \/ UNCHANGED datasets /\ Fault
    /\ UNCHANGED <<agent, kb, apps>>

(***************************************************************************)
(* Deleting one: the dataset first, then the row and what is bound to it.  *)
(***************************************************************************)
BoundTo(k) == {a \in Agent : k \in agent[a].kbs}

BeginDrop(q) ==
    /\ \E k \in Kb, cascade \in BOOLEAN :
          /\ There(k)
          /\ BoundTo(k) # {} => cascade
          /\ Begin(q, [Idle EXCEPT !.pc = "kbupstream", !.kind = "dropkb", !.kb = k])
    /\ UNCHANGED <<agent, kb, apps, datasets, faulted>>

(* Removed, or found removed; refused; or removed and the answer lost. *)
DropDataset(q) ==
    LET d == kb[request[q].kb].dataset IN
    /\ At(q, "kbupstream")
    /\ \/ datasets' = datasets \ {d} /\ Goto(q, "kbdrop") /\ Sound
       \/ UNCHANGED datasets /\ End(q) /\ Sound
       \/ datasets' = datasets \ {d} /\ End(q) /\ Fault
    /\ UNCHANGED <<agent, kb, apps>>

Unbound(k) == [a \in Agent |-> [agent[a] EXCEPT !.kbs = @ \ {k}]]

(* The bindings go with the row, those made since the request read it too. *)
DropRow(q) ==
    LET k == request[q].kb IN
    /\ At(q, "kbdrop") /\ End(q)
    /\ \/ /\ kb' = [kb EXCEPT ![k].status = "gone"]
          /\ agent' = Unbound(k)
          /\ Sound
       \/ UNCHANGED <<agent, kb>> /\ Fault
    /\ UNCHANGED <<apps, datasets>>

Crash(q) ==
    /\ request[q].pc # "idle" /\ End(q) /\ Fault
    /\ UNCHANGED <<agent, kb, apps, datasets>>

AgentStep(q) ==
    \/ BeginRegister(q) \/ CreateApp(q) \/ MakeKey(q) \/ InsertAgent(q) \/ Undo(q)
    \/ BeginEdit(q) \/ ReadAgent(q) \/ WriteAgent(q) \/ BeginArchive(q) \/ Archive(q)

KbStep(q) ==
    \/ BeginKb(q) \/ CreateDataset(q) \/ MakeDatasetKey(q) \/ InsertKb(q) \/ UndoKb(q)
    \/ BeginDrop(q) \/ DropDataset(q) \/ DropRow(q)

Next == \E q \in Request : AgentStep(q) \/ KbStep(q) \/ Crash(q)

Spec == Init /\ [][Next]_vars

(***************************************************************************)
(* What must hold.                                                         *)
(***************************************************************************)
TypeOK ==
    /\ agent \in [Agent -> AgentRow]
    /\ kb \in [Kb -> KbRow]
    /\ apps \subseteq App /\ datasets \subseteq Dataset
    /\ request \in [Request -> RequestRecord]
    /\ faulted \in BOOLEAN

(* An agent that can be listed has its app in Dify: no request's cleanup     *)
(* deletes the app of an agent that stays, save one whose registration was   *)
(* told that it failed although it was committed.                            *)
LiveHasApp == \A a \in Agent : IsLive(a) /\ ~agent[a].unsure => agent[a].app \in apps

(* As long as no answer, cleanup or process was lost, Dify holds the apps    *)
(* and datasets of the rows and of the requests at work, and nothing else:   *)
(* "a failed registration never leaves an orphaned Dify app behind", and a   *)
(* knowledge base loses its dataset only to a request about to drop its row. *)
NothingLeftBehind ==
    ~faulted =>
        /\ apps = {agent[a].app : a \in {b \in Agent : IsLive(b)}}
                  \cup {request[q].app : q \in {r \in Request : request[r].pc \in Held}}
        /\ datasets = {kb[k].dataset : k \in {j \in Kb : There(j)
                                 /\ ~\E q \in Request : At(q, "kbdrop") /\ request[q].kb = j}}
                      \cup {request[q].dataset : q \in {r \in Request : request[r].pc \in KbHeld}}

(* An agent taken down stays down: a publish or a test that read the agent   *)
(* before it was taken down does not bring it back.                          *)
OfflineStays ==
    [][\A a \in Agent : agent[a].status = "offline"
           => agent'[a].status \in {"offline", "archived"}]_vars
=============================================================================
