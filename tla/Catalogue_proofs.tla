-------------------------- MODULE Catalogue_proofs --------------------------
EXTENDS Catalogue, TLAPS

(***************************************************************************)
(* The inductive invariant: what a request may rely on between two of its  *)
(* calls, whatever the others do meanwhile.                                *)
(***************************************************************************)
Edits == {"update", "testing", "published", "offline"}

\* A request names what its next step works on; an edit never knows a version
\* ahead of the row's, and one that has read the row was admitted by it unless
\* the row has moved on since.
Knows(q) ==
    /\ At(q, "app") \/ At(q, "key") \/ At(q, "insert") \/ At(q, "archive")
          => request[q].agent \in Agent
    /\ request[q].pc \in Held => request[q].app \in App
    /\ At(q, "read") \/ At(q, "write") =>
          /\ request[q].agent \in Agent /\ request[q].kind \in Edits
          /\ agent[request[q].agent].status # "none"
          /\ request[q].version < MaxVersion
          /\ request[q].version <= agent[request[q].agent].version
    /\ At(q, "write") /\ Unchanged(agent[request[q].agent], request[q])
          => Admits(request[q].kind, agent[request[q].agent].status)
    /\ request[q].pc \in KbHeld => request[q].dataset \in Dataset
    /\ At(q, "kbupstream") \/ At(q, "kbdrop") =>
          request[q].kb \in Kb /\ kb[request[q].kb].status # "none"

\* An app that is still to be registered is in Dify and nobody else's; one that
\* is to be deleted is no agent's, but for one that was told it failed.
Owns(q) ==
    /\ At(q, "key") \/ At(q, "insert") =>
          /\ request[q].app \in apps
          /\ \A a \in Agent : agent[a].app # request[q].app
          /\ \A r \in Request \ {q} : request[r].pc \in Held => request[r].app # request[q].app
    /\ At(q, "undo") =>
          \A a \in Agent : IsLive(a) /\ ~agent[a].unsure => agent[a].app # request[q].app

\* No two agents have one app, and a live one has one.
OwnApps ==
    /\ \A a \in Agent : IsLive(a) => agent[a].app \in App
    /\ \A a, b \in Agent : agent[a].app = agent[b].app => a = b \/ agent[a].app = None

\* While nothing was lost, whoever is to delete an app or a dataset is the only
\* one that names it.
SoleApps ==
    /\ \A a \in Agent : ~agent[a].unsure
    /\ \A q, r \in Request : request[q].pc \in Held /\ request[r].pc \in Held
                               /\ request[q].app = request[r].app => q = r

SoleDatasets ==
    /\ \A k \in Kb : There(k) => kb[k].dataset \in Dataset
    /\ \A j, k \in Kb : kb[j].dataset = kb[k].dataset => j = k \/ kb[j].dataset = None
    /\ \A q \in Request : request[q].pc \in KbHeld =>
          /\ \A k \in Kb : kb[k].dataset # request[q].dataset
          /\ \A r \in Request \ {q} : request[r].pc \in KbHeld => request[r].dataset # request[q].dataset

\* Dify holds what is named here, and nothing else.
AppsExact ==
    \A x : x \in apps <=> \/ \E a \in Agent : IsLive(a) /\ agent[a].app = x
                          \/ \E q \in Request : request[q].pc \in Held /\ request[q].app = x

Dropping(k) == \E q \in Request : At(q, "kbdrop") /\ request[q].kb = k

DatasetsExact ==
    \A d : d \in datasets <=>
              \/ \E k \in Kb : There(k) /\ ~Dropping(k) /\ kb[k].dataset = d
              \/ \E q \in Request : request[q].pc \in KbHeld /\ request[q].dataset = d

AppsInv == /\ \A q \in Request : Owns(q)
           /\ OwnApps /\ LiveHasApp
           /\ ~faulted => SoleApps /\ AppsExact

DatasetsInv == ~faulted => SoleDatasets /\ DatasetsExact

IInv == TypeOK /\ (\A q \in Request : Knows(q)) /\ AppsInv /\ DatasetsInv

-----------------------------------------------------------------------------
(* Type correctness. *)

LEMMA IdleTyped == Idle \in RequestRecord
BY CatalogueAssumption DEF Idle, RequestRecord, Steps, Kinds

\* A request takes a new record, the others keep theirs.
LEMMA RequestTakes ==
    ASSUME request \in [Request -> RequestRecord], NEW q \in Request, NEW v \in RequestRecord,
           request' = [request EXCEPT ![q] = v]
    PROVE  /\ request' \in [Request -> RequestRecord]
           /\ request'[q] = v
           /\ \A r \in Request \ {q} : request'[r] = request[r]
OBVIOUS

\* The records a request moves through.
LEMMA RecordMoves ==
    ASSUME NEW rec \in RequestRecord, NEW pc \in Steps
    PROVE  /\ [rec EXCEPT !.pc = pc] \in RequestRecord
           /\ \A x \in App \cup {None} : [rec EXCEPT !.pc = pc, !.app = x] \in RequestRecord
           /\ \A d \in Dataset \cup {None} : [rec EXCEPT !.pc = pc, !.dataset = d] \in RequestRecord
BY DEF RequestRecord

LEMMA IdleMoves ==
    ASSUME NEW pc \in Steps, NEW kind \in Kinds
    PROVE  /\ [Idle EXCEPT !.pc = pc, !.kind = kind] \in RequestRecord
           /\ \A k \in Kb : [Idle EXCEPT !.pc = pc, !.kind = kind, !.kb = k] \in RequestRecord
           /\ \A a \in Agent : [Idle EXCEPT !.pc = pc, !.kind = kind, !.agent = a] \in RequestRecord
           /\ \A a \in Agent, kbs \in SUBSET Kb :
                [Idle EXCEPT !.pc = pc, !.kind = kind, !.agent = a, !.kbs = kbs] \in RequestRecord
           /\ \A a \in Agent, kbs \in SUBSET Kb, v \in 0 .. MaxVersion :
                [Idle EXCEPT !.pc = pc, !.kind = kind, !.agent = a, !.version = v, !.kbs = kbs]
                   \in RequestRecord
BY IdleTyped DEF Idle, RequestRecord

\* q moves to a step; it keeps what it was asked.
Moved(q, pc) ==
    /\ request' \in [Request -> RequestRecord]
    /\ \A r \in Request \ {q} : request'[r] = request[r]
    /\ request'[q].pc = pc
Kept(q) ==
    /\ request'[q].kind = request[q].kind /\ request'[q].agent = request[q].agent
    /\ request'[q].version = request[q].version
    /\ request'[q].kb = request[q].kb /\ request'[q].kbs = request[q].kbs

LEMMA GotoFacts ==
    ASSUME TypeOK, NEW q \in Request, NEW pc \in Steps, Goto(q, pc)
    PROVE  /\ Moved(q, pc) /\ Kept(q)
           /\ request'[q].app = request[q].app /\ request'[q].dataset = request[q].dataset
<1> DEFINE v == [request[q] EXCEPT !.pc = pc]
<1>1. request[q] \in RequestRecord /\ request' = [request EXCEPT ![q] = v]
  BY DEF TypeOK, Goto
<1>2. v \in RequestRecord
  BY <1>1, RecordMoves
<1>3. /\ v.pc = pc /\ v.kind = request[q].kind /\ v.agent = request[q].agent
      /\ v.version = request[q].version /\ v.kb = request[q].kb /\ v.kbs = request[q].kbs
      /\ v.app = request[q].app /\ v.dataset = request[q].dataset
  BY <1>1 DEF RequestRecord
<1> HIDE DEF v
<1>4. /\ request' \in [Request -> RequestRecord] /\ request'[q] = v
      /\ \A r \in Request \ {q} : request'[r] = request[r]
  BY <1>1, <1>2, RequestTakes DEF TypeOK
<1> QED BY <1>3, <1>4 DEF Moved, Kept

LEMMA NameAppFacts ==
    ASSUME TypeOK, NEW q \in Request, NEW pc \in Steps, NEW x \in App \cup {None},
           request' = [request EXCEPT ![q].pc = pc, ![q].app = x]
    PROVE  Moved(q, pc) /\ Kept(q) /\ request'[q].app = x
<1> DEFINE v == [request[q] EXCEPT !.pc = pc, !.app = x]
<1>1. request[q] \in RequestRecord /\ request' = [request EXCEPT ![q] = v]
  BY DEF TypeOK
<1>2. v \in RequestRecord
  BY <1>1, RecordMoves
<1>3. /\ v.pc = pc /\ v.kind = request[q].kind /\ v.agent = request[q].agent
      /\ v.version = request[q].version /\ v.kb = request[q].kb /\ v.kbs = request[q].kbs
      /\ v.app = x
  BY <1>1 DEF RequestRecord
<1> HIDE DEF v
<1>4. /\ request' \in [Request -> RequestRecord] /\ request'[q] = v
      /\ \A r \in Request \ {q} : request'[r] = request[r]
  BY <1>1, <1>2, RequestTakes DEF TypeOK
<1> QED BY <1>3, <1>4 DEF Moved, Kept

LEMMA NameDatasetFacts ==
    ASSUME TypeOK, NEW q \in Request, NEW pc \in Steps, NEW d \in Dataset \cup {None},
           request' = [request EXCEPT ![q].pc = pc, ![q].dataset = d]
    PROVE  Moved(q, pc) /\ Kept(q) /\ request'[q].dataset = d
<1> DEFINE v == [request[q] EXCEPT !.pc = pc, !.dataset = d]
<1>1. request[q] \in RequestRecord /\ request' = [request EXCEPT ![q] = v]
  BY DEF TypeOK
<1>2. v \in RequestRecord
  BY <1>1, RecordMoves
<1>3. /\ v.pc = pc /\ v.kind = request[q].kind /\ v.agent = request[q].agent
      /\ v.version = request[q].version /\ v.kb = request[q].kb /\ v.kbs = request[q].kbs
      /\ v.dataset = d
  BY <1>1 DEF RequestRecord
<1> HIDE DEF v
<1>4. /\ request' \in [Request -> RequestRecord] /\ request'[q] = v
      /\ \A r \in Request \ {q} : request'[r] = request[r]
  BY <1>1, <1>2, RequestTakes DEF TypeOK
<1> QED BY <1>3, <1>4 DEF Moved, Kept

LEMMA EndFacts ==
    ASSUME TypeOK, NEW q \in Request, End(q)
    PROVE  Moved(q, "idle")
<1>1. Idle.pc = "idle"
  BY DEF Idle
<1> QED BY <1>1, IdleTyped DEF TypeOK, End, Moved

\* What a request is asked when it begins.
LEMMA BeginFacts ==
    ASSUME TypeOK, NEW q \in Request
    PROVE  /\ BeginRegister(q) =>
                At(q, "idle") /\ Moved(q, "app") /\ request'[q].agent \in Agent
           /\ BeginEdit(q) =>
                /\ At(q, "idle") /\ Moved(q, "read")
                /\ \E a \in Agent : /\ request'[q].agent = a /\ IsLive(a)
                                    /\ request'[q].version = agent[a].version
                                    /\ agent[a].version < MaxVersion
                                    /\ request'[q].kind \in Edits
           /\ BeginArchive(q) =>
                At(q, "idle") /\ Moved(q, "archive") /\ request'[q].agent \in Agent
           /\ BeginKb(q) => At(q, "idle") /\ Moved(q, "dataset")
           /\ BeginDrop(q) =>
                /\ At(q, "idle") /\ Moved(q, "kbupstream")
                /\ request'[q].kb \in Kb /\ There(request'[q].kb)
<1> USE DEF Begin, Moved
<1>1. ASSUME NEW v \in RequestRecord, request' = [request EXCEPT ![q] = v]
      PROVE  /\ request' \in [Request -> RequestRecord] /\ request'[q] = v
             /\ \A r \in Request \ {q} : request'[r] = request[r]
  BY <1>1, RequestTakes DEF TypeOK
<1>2. ASSUME BeginRegister(q)
      PROVE  At(q, "idle") /\ Moved(q, "app") /\ request'[q].agent \in Agent
  <2> PICK a \in Agent, kbs \in SUBSET Kb :
        Begin(q, [Idle EXCEPT !.pc = "app", !.kind = "register", !.agent = a, !.kbs = kbs])
    BY <1>2 DEF BeginRegister
  <2> DEFINE v == [Idle EXCEPT !.pc = "app", !.kind = "register", !.agent = a, !.kbs = kbs]
  <2>1. v \in RequestRecord
    BY IdleMoves DEF Steps, Kinds
  <2>2. v.pc = "app" /\ v.agent = a
    BY DEF Idle
  <2> QED BY <1>1, <2>1, <2>2
<1>3. ASSUME BeginEdit(q)
      PROVE  /\ At(q, "idle") /\ Moved(q, "read")
             /\ \E a \in Agent : /\ request'[q].agent = a /\ IsLive(a)
                                 /\ request'[q].version = agent[a].version
                                 /\ agent[a].version < MaxVersion
                                 /\ request'[q].kind \in Edits
  <2> PICK a \in Agent, kind \in Edits, kbs \in SUBSET Kb :
        /\ IsLive(a) /\ agent[a].version < MaxVersion
        /\ Begin(q, [Idle EXCEPT !.pc = "read", !.kind = kind, !.agent = a,
                                 !.version = agent[a].version, !.kbs = kbs])
    BY <1>3 DEF BeginEdit, Edits
  <2> DEFINE v == [Idle EXCEPT !.pc = "read", !.kind = kind, !.agent = a,
                               !.version = agent[a].version, !.kbs = kbs]
  <2>1. agent[a].version \in 0 .. MaxVersion
    BY DEF TypeOK, AgentRow
  <2>2. v \in RequestRecord
    BY <2>1, IdleMoves DEF Steps, Kinds, Edits
  <2>3. v.pc = "read" /\ v.agent = a /\ v.kind = kind /\ v.version = agent[a].version
    BY DEF Idle
  <2> HIDE DEF v
  <2>4. request'[q] = v /\ At(q, "idle") /\ Moved(q, "read")
    BY <1>1, <2>2, <2>3 DEF v
  <2> QED BY <2>3, <2>4
<1>4. ASSUME BeginArchive(q)
      PROVE  At(q, "idle") /\ Moved(q, "archive") /\ request'[q].agent \in Agent
  <2> PICK a \in Agent : Begin(q, [Idle EXCEPT !.pc = "archive", !.kind = "archive", !.agent = a])
    BY <1>4 DEF BeginArchive
  <2> DEFINE v == [Idle EXCEPT !.pc = "archive", !.kind = "archive", !.agent = a]
  <2>1. v \in RequestRecord
    BY IdleMoves DEF Steps, Kinds
  <2>2. v.pc = "archive" /\ v.agent = a
    BY DEF Idle
  <2> QED BY <1>1, <2>1, <2>2
<1>5. ASSUME BeginKb(q) PROVE At(q, "idle") /\ Moved(q, "dataset")
  <2> DEFINE v == [Idle EXCEPT !.pc = "dataset", !.kind = "kb"]
  <2>1. v \in RequestRecord
    BY IdleMoves DEF Steps, Kinds
  <2>2. v.pc = "dataset"
    BY DEF Idle
  <2> QED BY <1>1, <1>5, <2>1, <2>2 DEF BeginKb
<1>6. ASSUME BeginDrop(q)
      PROVE  /\ At(q, "idle") /\ Moved(q, "kbupstream")
             /\ request'[q].kb \in Kb /\ There(request'[q].kb)
  <2> PICK k \in Kb :
        There(k) /\ Begin(q, [Idle EXCEPT !.pc = "kbupstream", !.kind = "dropkb", !.kb = k])
    BY <1>6 DEF BeginDrop
  <2> DEFINE v == [Idle EXCEPT !.pc = "kbupstream", !.kind = "dropkb", !.kb = k]
  <2>1. v \in RequestRecord
    BY IdleMoves DEF Steps, Kinds
  <2>2. v.pc = "kbupstream" /\ v.kb = k
    BY DEF Idle
  <2> QED BY <1>1, <2>1, <2>2
<1> QED BY <1>2, <1>3, <1>4, <1>5, <1>6

\* The rows of agents that the steps write.
LEMMA AgentRows ==
    ASSUME NEW row \in AgentRow
    PROVE  /\ Archived(row) \in AgentRow /\ Archived(row).status = "archived"
           /\ Archived(row).version = row.version /\ Archived(row).app = row.app
           /\ Archived(row).unsure = row.unsure
           /\ \A kbs \in SUBSET Kb :
                LET new == [row EXCEPT !.kbs = kbs] IN
                /\ new \in AgentRow /\ new.status = row.status /\ new.version = row.version
                /\ new.app = row.app /\ new.unsure = row.unsure
BY DEF AgentRow, Archived, Live

LEMMA EditedRow ==
    ASSUME NEW row \in AgentRow, NEW rec \in RequestRecord, rec.kind \in Edits,
           row.version < MaxVersion, row.status \in Live
    PROVE  /\ Edited(row, rec) \in AgentRow
           /\ Edited(row, rec).status = IF rec.kind = "update" THEN row.status ELSE rec.kind
           /\ Edited(row, rec).status \in Live /\ Edited(row, rec).version = row.version + 1
           /\ Edited(row, rec).app = row.app /\ Edited(row, rec).unsure = row.unsure
<1>1. /\ rec.kbs \in SUBSET Kb /\ row.kbs \in SUBSET Kb
      /\ row.version + 1 \in 0 .. MaxVersion
  BY CatalogueAssumption DEF RequestRecord, AgentRow
<1> DEFINE st == IF rec.kind = "update" THEN row.status ELSE rec.kind
           kbs == IF rec.kind = "update" THEN rec.kbs ELSE row.kbs
<1>2. st \in Live /\ kbs \in SUBSET Kb
  BY <1>1 DEF Edits, Live
<1>3. Edited(row, rec) = [row EXCEPT !.version = row.version + 1, !.status = st, !.kbs = kbs]
  BY DEF Edited, AgentRow
<1> HIDE DEF kbs
<1>4. st \in Live \cup {"none", "archived"}
  BY <1>2
<1> HIDE DEF st
<1>5. /\ Edited(row, rec) \in AgentRow /\ Edited(row, rec).status = st
      /\ Edited(row, rec).version = row.version + 1
      /\ Edited(row, rec).app = row.app /\ Edited(row, rec).unsure = row.unsure
  BY <1>1, <1>2, <1>3, <1>4 DEF AgentRow
<1> QED BY <1>2, <1>5 DEF st

LEMMA AgentTakes ==
    ASSUME TypeOK, NEW a \in Agent, NEW row \in AgentRow, agent' = [agent EXCEPT ![a] = row]
    PROVE  /\ agent' \in [Agent -> AgentRow] /\ agent'[a] = row
           /\ \A b \in Agent \ {a} : agent'[b] = agent[b]
BY DEF TypeOK

(***************************************************************************)
(* What the steps do to the agents.                                        *)
(***************************************************************************)

\* A row keeps its app and never becomes new again; its status moves with its
\* version, or to archived.
Aged == /\ agent' \in [Agent -> AgentRow]
        /\ \A a \in Agent :
              /\ agent'[a].app = agent[a].app /\ agent'[a].unsure = agent[a].unsure
              /\ agent[a].status # "none" => agent'[a].status # "none"
              /\ agent'[a].status \in Live => agent[a].status \in Live
              /\ agent[a].version <= agent'[a].version
              /\ agent'[a].version = agent[a].version
                    => agent'[a].status \in {agent[a].status, "archived"}

LEMMA SameAgents == TypeOK /\ UNCHANGED agent => Aged
BY DEF TypeOK, Aged, AgentRow

LEMMA InsertAgentFacts ==
    ASSUME TypeOK, NEW q \in Request, Knows(q), InsertAgent(q)
    PROVE  /\ At(q, "insert") /\ request[q].app \in App
           /\ \/ \E a \in Agent, unsure \in BOOLEAN :
                   /\ agent[a].status = "none" /\ agent'[a].status = "draft"
                   /\ agent'[a].app = request[q].app /\ agent'[a].unsure = unsure
                   /\ agent' \in [Agent -> AgentRow]
                   /\ \A b \in Agent \ {a} : agent'[b] = agent[b]
                   /\ unsure => Moved(q, "undo") /\ Kept(q) /\ faulted'
                                 /\ request'[q].app = request[q].app
                   /\ ~unsure => Moved(q, "idle") /\ faulted' = faulted
              \/ /\ UNCHANGED <<agent, faulted>> /\ Moved(q, "undo") /\ Kept(q)
                 /\ request'[q].app = request[q].app
           /\ UNCHANGED <<kb, apps, datasets>>
<1> DEFINE a == request[q].agent
<1>1. At(q, "insert") /\ request[q].app \in App /\ a \in Agent
  BY DEF InsertAgent, Knows, At, Held
<1>2. \A unsure \in BOOLEAN : /\ Draft(q, unsure) \in AgentRow
                              /\ Draft(q, unsure).status = "draft"
                              /\ Draft(q, unsure).app = request[q].app
                              /\ Draft(q, unsure).unsure = unsure
  <2>1. request[q].kbs \in SUBSET Kb /\ 1 \in 0 .. MaxVersion
    BY CatalogueAssumption DEF TypeOK, RequestRecord
  <2> QED BY <1>1, <2>1 DEF Draft, AgentRow, Live
<1>3. ASSUME NEW unsure \in BOOLEAN, agent' = [agent EXCEPT ![a] = Draft(q, unsure)]
      PROVE  /\ agent' \in [Agent -> AgentRow] /\ agent'[a] = Draft(q, unsure)
             /\ \A b \in Agent \ {a} : agent'[b] = agent[b]
  BY <1>1, <1>2, <1>3, AgentTakes
<1>4. UNCHANGED <<kb, apps, datasets>>
  BY DEF InsertAgent
<1>5. Goto(q, "undo") => Moved(q, "undo") /\ Kept(q) /\ request'[q].app = request[q].app
  BY GotoFacts DEF Steps, Held
<1>6. End(q) => Moved(q, "idle")
  BY EndFacts
<1>7. CASE /\ Insertable(q)
           /\ agent' = [agent EXCEPT ![a] = Draft(q, FALSE)] /\ End(q) /\ Sound
  BY <1>1, <1>2, <1>3, <1>4, <1>6, <1>7 DEF Insertable, Sound
<1>8. CASE /\ Insertable(q)
           /\ agent' = [agent EXCEPT ![a] = Draft(q, TRUE)] /\ Goto(q, "undo") /\ Fault
  BY <1>1, <1>2, <1>3, <1>4, <1>5, <1>8 DEF Insertable, Fault
<1>9. CASE Goto(q, "undo") /\ UNCHANGED agent /\ Sound
  BY <1>1, <1>4, <1>5, <1>9 DEF Sound
<1> QED BY <1>7, <1>8, <1>9 DEF InsertAgent

LEMMA ArchiveFacts ==
    ASSUME TypeOK, NEW q \in Request, Knows(q), OwnApps, Archive(q)
    PROVE  /\ At(q, "archive") /\ Aged /\ UNCHANGED <<kb, apps, datasets>>
           /\ \/ \E a \in Agent :
                   /\ IsLive(a) /\ agent'[a].status = "archived"
                   /\ \A b \in Agent \ {a} : agent'[b] = agent[b]
                   /\ \/ /\ Moved(q, "undo") /\ request'[q].app = agent[a].app
                         /\ agent[a].app \in App /\ UNCHANGED faulted
                      \/ Moved(q, "idle") /\ faulted'
              \/ UNCHANGED <<agent, faulted>> /\ Moved(q, "idle")
<1> DEFINE a == request[q].agent
<1>1. At(q, "archive") /\ a \in Agent /\ UNCHANGED <<kb, apps, datasets>>
  BY DEF Archive, Knows
<1>2. agent[a] \in AgentRow
  BY <1>1 DEF TypeOK
<1>3. End(q) => Moved(q, "idle")
  BY EndFacts
<1>4. CASE /\ IsLive(a)
           /\ agent' = [agent EXCEPT ![a] = Archived(@)]
           /\ \/ request' = [request EXCEPT ![q].pc = "undo", ![q].app = agent[a].app] /\ Sound
              \/ End(q) /\ Fault
  <2>1. /\ agent' \in [Agent -> AgentRow] /\ agent'[a] = Archived(agent[a])
        /\ \A b \in Agent \ {a} : agent'[b] = agent[b]
    <3>1. agent' = [agent EXCEPT ![a] = Archived(agent[a])]
      BY <1>4
    <3> QED BY <1>1, <1>2, <3>1, AgentRows, AgentTakes
  <2>2. agent[a].app \in App
    BY <1>1, <1>4 DEF OwnApps
  <2>3. Aged
    <3>1. \A b \in Agent : agent[b] \in AgentRow /\ agent[b].version \in Nat
      BY DEF TypeOK, AgentRow
    <3>2. "archived" \notin Live
      BY DEF Live
    <3> QED BY <1>1, <1>2, <2>1, <3>1, <3>2, AgentRows DEF Aged
  <2>4. request' = [request EXCEPT ![q].pc = "undo", ![q].app = agent[a].app]
           => Moved(q, "undo") /\ request'[q].app = agent[a].app
    <3>1. "undo" \in Steps
      BY DEF Steps, Held
    <3> DEFINE x == agent[a].app
    <3>2. x \in App \cup {None}
      BY <2>2
    <3> HIDE DEF x
    <3>3. request' = [request EXCEPT ![q].pc = "undo", ![q].app = x]
             => Moved(q, "undo") /\ request'[q].app = x
      BY <3>1, <3>2, NameAppFacts
    <3> QED BY <3>3 DEF x
  <2>5. agent'[a].status = "archived"
    BY <1>2, <2>1, AgentRows
  <2> QED BY <1>1, <1>3, <1>4, <2>1, <2>2, <2>3, <2>4, <2>5 DEF Fault, Sound
<1>5. CASE End(q) /\ UNCHANGED agent /\ Sound
  BY <1>1, <1>3, <1>5, SameAgents DEF Sound
<1> QED BY <1>4, <1>5 DEF Archive

\* An edit stays within the living; a knowledge base leaves the rows as they are.
LEMMA WriteAgentFacts ==
    ASSUME TypeOK, NEW q \in Request, Knows(q), WriteAgent(q)
    PROVE  /\ Aged /\ Moved(q, "idle") /\ UNCHANGED <<kb, apps, datasets, faulted>>
           /\ \A a \in Agent : agent[a].status \in Live => agent'[a].status \in Live
<1> DEFINE a == request[q].agent
<1>1. /\ At(q, "write") /\ a \in Agent /\ request[q].kind \in Edits
      /\ UNCHANGED <<kb, apps, datasets, faulted>> /\ Moved(q, "idle")
      /\ request[q].version < MaxVersion
  BY EndFacts DEF WriteAgent, Knows
<1>2. agent[a] \in AgentRow /\ request[q] \in RequestRecord
  BY <1>1 DEF TypeOK
<1>3. \A b \in Agent : agent[b] \in AgentRow /\ agent[b].version \in Nat
  BY DEF TypeOK, AgentRow
<1>4. CASE /\ Unchanged(agent[a], request[q])
           /\ agent' = [agent EXCEPT ![a] = Edited(agent[a], request[q])]
  <2>1. agent[a].version < MaxVersion /\ agent[a].status \in Live
    BY <1>1, <1>4 DEF Unchanged
  <2> DEFINE row == Edited(agent[a], request[q])
  <2>2. /\ row \in AgentRow /\ row.status \in Live /\ row.version = agent[a].version + 1
        /\ row.app = agent[a].app /\ row.unsure = agent[a].unsure
    BY <1>1, <1>2, <2>1, EditedRow
  <2> HIDE DEF row
  <2>3. /\ agent' \in [Agent -> AgentRow] /\ agent'[a] = row
        /\ \A b \in Agent \ {a} : agent'[b] = agent[b]
    BY <1>1, <1>4, <2>2, AgentTakes DEF row
  <2>4. "none" \notin Live
    BY DEF Live
  <2> QED BY <1>1, <1>3, <2>1, <2>2, <2>3, <2>4 DEF Aged
<1>5. CASE UNCHANGED agent
  BY <1>1, <1>5, SameAgents
<1> QED BY <1>4, <1>5 DEF WriteAgent

LEMMA DropRowFacts ==
    ASSUME TypeOK, NEW q \in Request, Knows(q), DropRow(q)
    PROVE  /\ At(q, "kbdrop") /\ Aged /\ Moved(q, "idle") /\ UNCHANGED <<apps, datasets>>
           /\ \A a \in Agent : agent'[a].status = agent[a].status
           /\ \/ UNCHANGED kb /\ faulted'
              \/ /\ UNCHANGED faulted /\ kb' \in [Kb -> KbRow]
                 /\ kb'[request[q].kb].status = "gone"
                 /\ \A k \in Kb : /\ kb'[k].dataset = kb[k].dataset
                                  /\ k # request[q].kb => kb'[k] = kb[k]
<1> DEFINE k0 == request[q].kb
<1>1. /\ At(q, "kbdrop") /\ k0 \in Kb /\ Moved(q, "idle") /\ UNCHANGED <<apps, datasets>>
  BY EndFacts DEF DropRow, Knows
<1>2. CASE UNCHANGED <<agent, kb>> /\ Fault
  BY <1>1, <1>2, SameAgents DEF Fault
<1>3. CASE kb' = [kb EXCEPT ![k0].status = "gone"] /\ agent' = Unbound(k0) /\ Sound
  <2>1. \A a \in Agent : /\ agent[a] \in AgentRow /\ agent[a].version \in Nat
                         /\ agent[a].kbs \ {k0} \in SUBSET Kb
    BY DEF TypeOK, AgentRow
  <2>2. agent' = [a \in Agent |-> [agent[a] EXCEPT !.kbs = agent[a].kbs \ {k0}]]
    BY <1>3, <2>1 DEF Unbound, AgentRow
  <2>3. /\ agent' \in [Agent -> AgentRow]
        /\ \A a \in Agent : /\ agent'[a].status = agent[a].status
                            /\ agent'[a].version = agent[a].version
                            /\ agent'[a].app = agent[a].app /\ agent'[a].unsure = agent[a].unsure
    BY <2>1, <2>2, AgentRows
  <2>4. Aged
    BY <2>1, <2>3 DEF Aged
  <2>5. /\ kb' \in [Kb -> KbRow] /\ kb'[k0].status = "gone"
        /\ \A k \in Kb : kb'[k].dataset = kb[k].dataset /\ (k # k0 => kb'[k] = kb[k])
    BY <1>1, <1>3 DEF TypeOK, KbRow
  <2> QED BY <1>1, <1>3, <2>3, <2>4, <2>5 DEF Sound
<1> QED BY <1>2, <1>3 DEF DropRow

(***************************************************************************)
(* What they do to Dify and to the knowledge bases.                        *)
(***************************************************************************)
LEMMA CreateAppFacts ==
    ASSUME TypeOK, NEW q \in Request, CreateApp(q)
    PROVE  /\ At(q, "app") /\ UNCHANGED <<agent, kb, datasets>>
           /\ \/ \E x \in FreshApps :
                   /\ x \in App /\ apps' = apps \cup {x}
                   /\ \/ /\ Moved(q, "key") /\ Kept(q) /\ request'[q].app = x
                         /\ UNCHANGED faulted
                      \/ Moved(q, "idle") /\ faulted'
              \/ Moved(q, "idle") /\ UNCHANGED <<apps, faulted>>
<1>1. "key" \in Steps /\ (End(q) => Moved(q, "idle"))
  BY EndFacts DEF Steps, Held
<1>2. ASSUME NEW x \in App,
             request' = [request EXCEPT ![q].pc = "key", ![q].app = x]
      PROVE  Moved(q, "key") /\ Kept(q) /\ request'[q].app = x
  BY <1>1, <1>2, NameAppFacts
<1>3. \A x \in FreshApps : x \in App
  BY DEF FreshApps
<1>4. At(q, "app") /\ UNCHANGED <<agent, kb, datasets>>
  BY DEF CreateApp
<1>5. CASE End(q) /\ UNCHANGED apps /\ Sound
  BY <1>1, <1>4, <1>5 DEF Sound
<1>6. CASE \E x \in FreshApps :
             /\ apps' = apps \cup {x}
             /\ \/ request' = [request EXCEPT ![q].pc = "key", ![q].app = x] /\ Sound
                \/ End(q) /\ Fault
  BY <1>1, <1>2, <1>3, <1>4, <1>6 DEF Sound, Fault
<1> QED BY <1>5, <1>6 DEF CreateApp

LEMMA CreateDatasetFacts ==
    ASSUME TypeOK, NEW q \in Request, CreateDataset(q)
    PROVE  /\ At(q, "dataset") /\ UNCHANGED <<agent, kb, apps>>
           /\ \/ \E d \in FreshDatasets :
                   /\ d \in Dataset /\ datasets' = datasets \cup {d}
                   /\ \/ /\ Moved(q, "kbkey") /\ Kept(q) /\ request'[q].dataset = d
                         /\ UNCHANGED faulted
                      \/ Moved(q, "idle") /\ faulted'
              \/ Moved(q, "idle") /\ UNCHANGED <<datasets, faulted>>
<1>1. "kbkey" \in Steps /\ (End(q) => Moved(q, "idle"))
  BY EndFacts DEF Steps, KbHeld
<1>2. ASSUME NEW d \in Dataset,
             request' = [request EXCEPT ![q].pc = "kbkey", ![q].dataset = d]
      PROVE  Moved(q, "kbkey") /\ Kept(q) /\ request'[q].dataset = d
  BY <1>1, <1>2, NameDatasetFacts
<1>3. \A d \in FreshDatasets : d \in Dataset
  BY DEF FreshDatasets
<1>4. At(q, "dataset") /\ UNCHANGED <<agent, kb, apps>>
  BY DEF CreateDataset
<1>5. CASE End(q) /\ UNCHANGED datasets /\ Sound
  BY <1>1, <1>4, <1>5 DEF Sound
<1>6. CASE \E d \in FreshDatasets :
             /\ datasets' = datasets \cup {d}
             /\ \/ request' = [request EXCEPT ![q].pc = "kbkey", ![q].dataset = d] /\ Sound
                \/ End(q) /\ Fault
  BY <1>1, <1>2, <1>3, <1>4, <1>6 DEF Sound, Fault
<1> QED BY <1>5, <1>6 DEF CreateDataset

\* The steps in between: a key, or the compensation of its failure.
LEMMA MakeKeyFacts ==
    ASSUME TypeOK, NEW q \in Request
    PROVE  /\ MakeKey(q) =>
                /\ At(q, "key") /\ (Moved(q, "insert") \/ Moved(q, "undo"))
                /\ Kept(q) /\ request'[q].app = request[q].app
                /\ UNCHANGED <<agent, kb, apps, datasets, faulted>>
           /\ MakeDatasetKey(q) =>
                /\ At(q, "kbkey") /\ (Moved(q, "kbinsert") \/ Moved(q, "kbundo"))
                /\ Kept(q) /\ request'[q].dataset = request[q].dataset
                /\ UNCHANGED <<agent, kb, apps, datasets, faulted>>
           /\ ReadAgent(q) =>
                /\ At(q, "read") /\ UNCHANGED <<agent, kb, apps, datasets, faulted>>
                /\ \/ /\ Moved(q, "write") /\ Kept(q)
                      /\ Admits(request[q].kind, agent[request[q].agent].status)
                   \/ Moved(q, "idle")
<1>1. {"insert", "undo", "kbinsert", "kbundo", "write"} \subseteq Steps
  BY DEF Steps, Held, KbHeld
<1>2. \A pc \in Steps : Goto(q, pc) => /\ Moved(q, pc) /\ Kept(q)
                                       /\ request'[q].app = request[q].app
                                       /\ request'[q].dataset = request[q].dataset
  BY GotoFacts
<1>3. MakeKey(q) => /\ At(q, "key") /\ (Moved(q, "insert") \/ Moved(q, "undo"))
                    /\ Kept(q) /\ request'[q].app = request[q].app
                    /\ UNCHANGED <<agent, kb, apps, datasets, faulted>>
  BY <1>1, <1>2 DEF MakeKey
<1>4. MakeDatasetKey(q) =>
                /\ At(q, "kbkey") /\ (Moved(q, "kbinsert") \/ Moved(q, "kbundo"))
                /\ Kept(q) /\ request'[q].dataset = request[q].dataset
                /\ UNCHANGED <<agent, kb, apps, datasets, faulted>>
  BY <1>1, <1>2 DEF MakeDatasetKey
<1>5. ReadAgent(q) =>
                /\ At(q, "read") /\ UNCHANGED <<agent, kb, apps, datasets, faulted>>
                /\ \/ /\ Moved(q, "write") /\ Kept(q)
                      /\ Admits(request[q].kind, agent[request[q].agent].status)
                   \/ Moved(q, "idle")
  BY <1>1, <1>2, EndFacts DEF ReadAgent
<1> QED BY <1>3, <1>4, <1>5

\* The compensations.
LEMMA UndoFacts ==
    ASSUME TypeOK, NEW q \in Request
    PROVE  /\ Undo(q) =>
                /\ At(q, "undo") /\ Moved(q, "idle") /\ UNCHANGED <<agent, kb, datasets>>
                /\ \/ apps' = apps \ {request[q].app} /\ UNCHANGED faulted
                   \/ UNCHANGED apps /\ faulted'
           /\ UndoKb(q) =>
                /\ At(q, "kbundo") /\ Moved(q, "idle") /\ UNCHANGED <<agent, kb, apps>>
                /\ \/ datasets' = datasets \ {request[q].dataset} /\ UNCHANGED faulted
                   \/ UNCHANGED datasets /\ faulted'
           /\ Crash(q) => Moved(q, "idle") /\ faulted' /\ UNCHANGED <<agent, kb, apps, datasets>>
BY EndFacts DEF Undo, UndoKb, Crash, Sound, Fault

LEMMA InsertKbFacts ==
    ASSUME TypeOK, NEW q \in Request, Knows(q), InsertKb(q)
    PROVE  /\ At(q, "kbinsert") /\ request[q].dataset \in Dataset
           /\ UNCHANGED <<agent, apps, datasets>>
           /\ \/ \E k \in Kb :
                   /\ kb[k].status = "none" /\ kb'[k].status = "there"
                   /\ kb'[k].dataset = request[q].dataset
                   /\ kb' \in [Kb -> KbRow] /\ \A j \in Kb \ {k} : kb'[j] = kb[j]
                   /\ \/ Moved(q, "idle") /\ UNCHANGED faulted
                      \/ /\ Moved(q, "kbundo") /\ Kept(q) /\ faulted'
                         /\ request'[q].dataset = request[q].dataset
              \/ /\ UNCHANGED <<kb, faulted>> /\ Moved(q, "kbundo") /\ Kept(q)
                 /\ request'[q].dataset = request[q].dataset
<1>1. /\ At(q, "kbinsert") /\ request[q].dataset \in Dataset
      /\ UNCHANGED <<agent, apps, datasets>>
  BY DEF InsertKb, Knows, At, KbHeld
<1>2. /\ End(q) => Moved(q, "idle")
      /\ Goto(q, "kbundo") => /\ Moved(q, "kbundo") /\ Kept(q)
                              /\ request'[q].dataset = request[q].dataset
  BY EndFacts, GotoFacts DEF Steps, KbHeld
<1>3. CASE \E k \in Kb :
             /\ kb[k].status = "none"
             /\ kb' = [kb EXCEPT ![k] = NewKb(q)]
             /\ (End(q) /\ Sound) \/ (Goto(q, "kbundo") /\ Fault)
  <2> PICK k \in Kb : /\ kb[k].status = "none"
                      /\ kb' = [kb EXCEPT ![k] = NewKb(q)]
                      /\ (End(q) /\ Sound) \/ (Goto(q, "kbundo") /\ Fault)
    BY <1>3
  <2>1. /\ NewKb(q) \in KbRow /\ NewKb(q).status = "there"
        /\ NewKb(q).dataset = request[q].dataset
    BY <1>1 DEF NewKb, KbRow
  <2>2. /\ kb' \in [Kb -> KbRow] /\ kb'[k] = NewKb(q)
        /\ \A j \in Kb \ {k} : kb'[j] = kb[j]
    BY <2>1 DEF TypeOK
  <2> QED BY <1>1, <1>2, <2>1, <2>2 DEF Sound, Fault
<1>4. CASE Goto(q, "kbundo") /\ UNCHANGED kb /\ Sound
  BY <1>1, <1>2, <1>4 DEF Sound
<1> QED BY <1>3, <1>4 DEF InsertKb

LEMMA DropDatasetFacts ==
    ASSUME TypeOK, NEW q \in Request, Knows(q), DropDataset(q)
    PROVE  /\ At(q, "kbupstream") /\ request[q].kb \in Kb /\ UNCHANGED <<agent, kb, apps>>
           /\ \/ /\ datasets' = datasets \ {kb[request[q].kb].dataset} /\ UNCHANGED faulted
                 /\ Moved(q, "kbdrop") /\ Kept(q)
              \/ UNCHANGED <<datasets, faulted>> /\ Moved(q, "idle")
              \/ /\ datasets' = datasets \ {kb[request[q].kb].dataset} /\ faulted'
                 /\ Moved(q, "idle")
<1>1. At(q, "kbupstream") /\ request[q].kb \in Kb /\ UNCHANGED <<agent, kb, apps>>
  BY DEF DropDataset, Knows
<1>2. /\ End(q) => Moved(q, "idle")
      /\ Goto(q, "kbdrop") => Moved(q, "kbdrop") /\ Kept(q)
  BY EndFacts, GotoFacts DEF Steps
<1> QED BY <1>1, <1>2 DEF DropDataset, Sound, Fault

(***************************************************************************)
(* Type correctness.                                                       *)
(***************************************************************************)
Work(q) == AgentStep(q) \/ KbStep(q) \/ Crash(q)

LEMMA TypeInit == Init => TypeOK
<1> SUFFICES ASSUME Init PROVE TypeOK
  OBVIOUS
<1>1. 0 \in 0 .. MaxVersion
  BY CatalogueAssumption
<1> QED BY <1>1, IdleTyped DEF Init, TypeOK, AgentRow, KbRow

LEMMA TypeStep ==
    ASSUME TypeOK, OwnApps, NEW q \in Request, Knows(q), Work(q)
    PROVE  TypeOK'
<1> USE DEF TypeOK, Moved
<1>1. CASE BeginRegister(q) \/ BeginEdit(q) \/ BeginArchive(q) \/ BeginKb(q) \/ BeginDrop(q)
  <2>1. UNCHANGED <<agent, kb, apps, datasets, faulted>>
    BY <1>1 DEF BeginRegister, BeginEdit, BeginArchive, BeginKb, BeginDrop
  <2>2. request' \in [Request -> RequestRecord]
    BY <1>1, BeginFacts
  <2> QED BY <2>1, <2>2
<1>2. CASE CreateApp(q)
  <2>1. faulted' \in BOOLEAN
    BY <1>2 DEF CreateApp, Fault, Sound
  <2> QED BY <1>2, <2>1, CreateAppFacts
<1>3. CASE MakeKey(q) \/ MakeDatasetKey(q) \/ ReadAgent(q)
  BY <1>3, MakeKeyFacts
<1>4. CASE InsertAgent(q)
  <2>1. faulted' \in BOOLEAN
    BY <1>4 DEF InsertAgent, Fault, Sound
  <2>2. agent' \in [Agent -> AgentRow] /\ request' \in [Request -> RequestRecord]
    BY <1>4, InsertAgentFacts
  <2> QED BY <1>4, <2>1, <2>2, InsertAgentFacts
<1>5. CASE Undo(q) \/ UndoKb(q) \/ Crash(q)
  <2>1. faulted' \in BOOLEAN
    BY <1>5 DEF Undo, UndoKb, Crash, Fault, Sound
  <2>2. /\ UNCHANGED <<agent, kb>> /\ request' \in [Request -> RequestRecord]
        /\ apps' \subseteq apps /\ datasets' \subseteq datasets
    BY <1>5, UndoFacts
  <2> QED BY <2>1, <2>2
<1>6. CASE WriteAgent(q)
  BY <1>6, WriteAgentFacts DEF Aged
<1>7. CASE Archive(q)
  <2>1. faulted' \in BOOLEAN
    BY <1>7 DEF Archive, Fault, Sound
  <2>2. agent' \in [Agent -> AgentRow] /\ request' \in [Request -> RequestRecord]
    BY <1>7, ArchiveFacts DEF Aged
  <2> QED BY <1>7, <2>1, <2>2, ArchiveFacts
<1>8. CASE CreateDataset(q)
  <2>1. faulted' \in BOOLEAN
    BY <1>8 DEF CreateDataset, Fault, Sound
  <2> QED BY <1>8, <2>1, CreateDatasetFacts
<1>9. CASE InsertKb(q)
  <2>1. faulted' \in BOOLEAN
    BY <1>9 DEF InsertKb, Fault, Sound
  <2>2. kb' \in [Kb -> KbRow] /\ request' \in [Request -> RequestRecord]
    BY <1>9, InsertKbFacts
  <2> QED BY <1>9, <2>1, <2>2, InsertKbFacts
<1>10. CASE DropDataset(q)
  <2>1. faulted' \in BOOLEAN
    BY <1>10 DEF DropDataset, Fault, Sound
  <2> QED BY <1>10, <2>1, DropDatasetFacts
<1>11. CASE DropRow(q)
  <2>1. faulted' \in BOOLEAN
    BY <1>11 DEF DropRow, Fault, Sound
  <2>2. /\ agent' \in [Agent -> AgentRow] /\ kb' \in [Kb -> KbRow]
        /\ request' \in [Request -> RequestRecord]
    BY <1>11, DropRowFacts DEF Aged
  <2> QED BY <1>11, <2>1, <2>2, DropRowFacts
<1> QED BY <1>1, <1>2, <1>3, <1>4, <1>5, <1>6, <1>7, <1>8, <1>9, <1>10, <1>11
        DEF Work, AgentStep, KbStep

(***************************************************************************)
(* What the requests know stays true of the rows.                          *)
(***************************************************************************)

\* No row becomes new again; a status moves with its version, or to archived.
RowsAge ==
    /\ \A a \in Agent : agent[a].status # "none" =>
          /\ agent'[a].status # "none" /\ agent[a].version <= agent'[a].version
          /\ agent'[a].version = agent[a].version
                => agent'[a].status \in {agent[a].status, "archived"}
    /\ \A k \in Kb : kb[k].status # "none" => kb'[k].status # "none"

LEMMA RowsAgeStep ==
    ASSUME TypeOK, OwnApps, NEW q \in Request, Knows(q), Work(q)
    PROVE  RowsAge /\ \E pc \in Steps : Moved(q, pc)
<1>1. CASE BeginRegister(q) \/ BeginEdit(q) \/ BeginArchive(q) \/ BeginKb(q) \/ BeginDrop(q)
  <2>1. UNCHANGED <<agent, kb>>
    BY <1>1 DEF BeginRegister, BeginEdit, BeginArchive, BeginKb, BeginDrop
  <2> QED BY <1>1, <2>1, BeginFacts, SameAgents DEF Aged, RowsAge, Steps
<1>2. CASE CreateApp(q)
  BY <1>2, CreateAppFacts, SameAgents DEF Aged, RowsAge, Steps, Held
<1>3. CASE MakeKey(q) \/ MakeDatasetKey(q) \/ ReadAgent(q)
  BY <1>3, MakeKeyFacts, SameAgents DEF Aged, RowsAge, Steps, Held, KbHeld
<1>4. CASE InsertAgent(q)
  <2>1. CASE UNCHANGED agent
    BY <1>4, <2>1, InsertAgentFacts, SameAgents DEF Aged, RowsAge, Steps, Held
  <2>2. CASE \E a \in Agent : agent[a].status = "none" /\ \A b \in Agent \ {a} : agent'[b] = agent[b]
    <3>1. \A a \in Agent : agent[a].version \in Nat
      BY DEF TypeOK, AgentRow
    <3> QED BY <1>4, <2>2, <3>1, InsertAgentFacts DEF RowsAge, Steps, Held
  <2> QED BY <1>4, <2>1, <2>2, InsertAgentFacts
<1>5. CASE Undo(q) \/ UndoKb(q) \/ Crash(q)
  BY <1>5, UndoFacts, SameAgents DEF Aged, RowsAge, Steps
<1>6. CASE WriteAgent(q)
  BY <1>6, WriteAgentFacts DEF Aged, RowsAge, Steps
<1>7. CASE Archive(q)
  BY <1>7, ArchiveFacts DEF Aged, RowsAge, Steps, Held
<1>8. CASE CreateDataset(q)
  BY <1>8, CreateDatasetFacts, SameAgents DEF Aged, RowsAge, Steps, KbHeld
<1>9. CASE InsertKb(q)
  <2>1. UNCHANGED agent /\ \E pc \in Steps : Moved(q, pc)
    BY <1>9, InsertKbFacts DEF Steps, KbHeld
  <2>2. \A k \in Kb : kb[k].status # "none" => kb'[k].status # "none"
    BY <1>9, InsertKbFacts
  <2> QED BY <2>1, <2>2, SameAgents DEF Aged, RowsAge
<1>10. CASE DropDataset(q)
  BY <1>10, DropDatasetFacts, SameAgents DEF Aged, RowsAge, Steps
<1>11. CASE DropRow(q)
  <2>1. \A k \in Kb : kb[k].status # "none" => kb'[k].status # "none"
    BY <1>11, DropRowFacts
  <2> QED BY <1>11, <2>1, DropRowFacts DEF Aged, RowsAge, Steps
<1> QED BY <1>1, <1>2, <1>3, <1>4, <1>5, <1>6, <1>7, <1>8, <1>9, <1>10, <1>11
        DEF Work, AgentStep, KbStep

LEMMA KnowsKept ==
    ASSUME TypeOK, TypeOK', NEW r \in Request, Knows(r), request'[r] = request[r], RowsAge
    PROVE  Knows(r)'
<1> DEFINE a == request[r].agent
<1>1. \A b \in Agent : agent[b].version \in Nat /\ agent'[b].version \in Nat
  BY DEF TypeOK, AgentRow
<1>2. request[r].version \in Nat
  BY DEF TypeOK, RequestRecord
<1>3. (At(r, "read") \/ At(r, "write"))' =>
         /\ a \in Agent /\ request[r].kind \in Edits /\ agent'[a].status # "none"
         /\ request[r].version < MaxVersion /\ request[r].version <= agent'[a].version
  BY <1>1, <1>2 DEF Knows, RowsAge, At
<1>4. ASSUME At(r, "write"), Unchanged(agent'[a], request[r])
      PROVE  Admits(request[r].kind, agent'[a].status)
  <2>1. /\ a \in Agent /\ agent[a].status # "none" /\ request[r].version <= agent[a].version
        /\ agent[a].version <= agent'[a].version /\ agent'[a].version = request[r].version
        /\ agent'[a].status \in Live
    BY <1>4 DEF Knows, RowsAge, Unchanged
  <2>2. agent'[a].version = agent[a].version
    BY <1>1, <1>2, <2>1
  <2>3. agent'[a].status = agent[a].status
    BY <2>1, <2>2 DEF RowsAge, Live
  <2> QED BY <1>4, <2>1, <2>2, <2>3 DEF Knows, Unchanged
<1>5. (At(r, "kbupstream") \/ At(r, "kbdrop"))' =>
         request[r].kb \in Kb /\ kb'[request[r].kb].status # "none"
  BY DEF Knows, RowsAge, At
<1> QED BY <1>3, <1>4, <1>5 DEF Knows, At

LEMMA KnowsOwn ==
    ASSUME TypeOK, TypeOK', OwnApps, NEW q \in Request, Knows(q), Work(q)
    PROVE  Knows(q)'
<1> USE DEF Moved, Kept, At
<1>0. \A pc \in {"idle", "dataset"} : Moved(q, pc) => Knows(q)'
  BY DEF Knows, Held, KbHeld
<1>1. CASE BeginRegister(q) \/ BeginArchive(q) \/ BeginKb(q)
  BY <1>1, BeginFacts DEF Knows, Held, KbHeld
<1>2. CASE BeginEdit(q)
  <2> PICK a \in Agent : /\ request'[q].agent = a /\ IsLive(a)
                         /\ request'[q].version = agent[a].version
                         /\ agent[a].version < MaxVersion
                         /\ request'[q].kind \in Edits
    BY <1>2, BeginFacts
  <2>1. Moved(q, "read") /\ UNCHANGED agent
    BY <1>2, BeginFacts DEF BeginEdit
  <2>2. agent[a].status # "none" /\ agent[a].version <= agent[a].version
    BY DEF IsLive, Live, TypeOK, AgentRow
  <2> QED BY <2>1, <2>2 DEF Knows, Held, KbHeld
<1>3. CASE BeginDrop(q)
  <2>1. UNCHANGED kb
    BY <1>3 DEF BeginDrop
  <2> QED BY <1>3, <2>1, BeginFacts DEF Knows, Held, KbHeld, There
<1>4. CASE CreateApp(q)
  BY <1>0, <1>4, CreateAppFacts DEF Knows, Held, KbHeld
<1>5. CASE MakeKey(q)
  <2>1. /\ request[q].app \in App /\ request'[q].app = request[q].app
        /\ Moved(q, "insert") \/ Moved(q, "undo")
    BY <1>5, MakeKeyFacts DEF Knows, Held
  <2>2. request[q].agent \in Agent /\ request'[q].agent = request[q].agent
    BY <1>5, MakeKeyFacts DEF Knows
  <2> QED BY <2>1, <2>2 DEF Knows, Held, KbHeld
<1>6. CASE MakeDatasetKey(q)
  <2>1. /\ request[q].dataset \in Dataset /\ request'[q].dataset = request[q].dataset
        /\ Moved(q, "kbinsert") \/ Moved(q, "kbundo")
    BY <1>6, MakeKeyFacts DEF Knows, KbHeld
  <2> QED BY <2>1 DEF Knows, Held, KbHeld
<1>7. CASE ReadAgent(q)
  <2>1. CASE Moved(q, "idle")
    BY <1>0, <2>1
  <2>2. CASE ~Moved(q, "idle")
    <3>1. /\ At(q, "read") /\ UNCHANGED agent /\ Moved(q, "write") /\ Kept(q)
          /\ Admits(request[q].kind, agent[request[q].agent].status)
      BY <1>7, <2>2, MakeKeyFacts
    <3> QED BY <3>1 DEF Knows, Held, KbHeld
  <2> QED BY <2>1, <2>2
<1>8. CASE InsertAgent(q)
  <2>1. \/ Moved(q, "idle")
        \/ Moved(q, "undo") /\ request'[q].app = request[q].app /\ request[q].app \in App
    BY <1>8, InsertAgentFacts
  <2> QED BY <1>0, <2>1 DEF Knows, Held, KbHeld
<1>9. CASE Undo(q) \/ UndoKb(q) \/ Crash(q) \/ WriteAgent(q) \/ DropRow(q)
  BY <1>0, <1>9, UndoFacts, WriteAgentFacts, DropRowFacts
<1>10. CASE Archive(q)
  <2>1. Moved(q, "idle") \/ (Moved(q, "undo") /\ request'[q].app \in App)
    BY <1>10, ArchiveFacts
  <2> QED BY <1>0, <2>1 DEF Knows, Held, KbHeld
<1>11. CASE CreateDataset(q)
  BY <1>0, <1>11, CreateDatasetFacts DEF Knows, Held, KbHeld
<1>12. CASE InsertKb(q)
  <2>1. \/ Moved(q, "idle")
        \/ /\ Moved(q, "kbundo") /\ request'[q].dataset = request[q].dataset
           /\ request[q].dataset \in Dataset
    BY <1>12, InsertKbFacts
  <2> QED BY <1>0, <2>1 DEF Knows, Held, KbHeld
<1>13. CASE DropDataset(q)
  <2>1. Moved(q, "idle") \/ (Moved(q, "kbdrop") /\ Kept(q))
    BY <1>13, DropDatasetFacts
  <2>2. UNCHANGED kb /\ At(q, "kbupstream")
    BY <1>13, DropDatasetFacts
  <2> QED BY <1>0, <2>1, <2>2 DEF Knows, Held, KbHeld
<1> QED BY <1>1, <1>2, <1>3, <1>4, <1>5, <1>6, <1>7, <1>8, <1>9, <1>10, <1>11, <1>12, <1>13
        DEF Work, AgentStep, KbStep

LEMMA KnowsStep ==
    ASSUME TypeOK, TypeOK', OwnApps, \A r \in Request : Knows(r), NEW q \in Request, Work(q)
    PROVE  \A r \in Request : Knows(r)'
<1>1. Knows(q)'
  BY KnowsOwn
<1>2. ASSUME NEW r \in Request \ {q} PROVE Knows(r)'
  <2>1. RowsAge /\ request'[r] = request[r]
    BY RowsAgeStep DEF Moved
  <2> QED BY <2>1, KnowsKept
<1> QED BY <1>1, <1>2

(***************************************************************************)
(* The apps.                                                               *)
(***************************************************************************)

\* A step that neither makes nor deletes an app, and names none but its own.
AppsQuiet ==
    /\ apps' = apps
    /\ \A a \in Agent : /\ agent'[a].app = agent[a].app /\ agent'[a].unsure = agent[a].unsure
                        /\ agent'[a].status \in Live <=> agent[a].status \in Live
    /\ \A r \in Request : request'[r].pc \in Held =>
                             request[r].pc \in Held /\ request'[r].app = request[r].app
    /\ \A r \in Request : request'[r].pc \in {"key", "insert"} => request[r].pc \in {"key", "insert"}
    /\ ~faulted' => /\ ~faulted
                    /\ \A r \in Request : request[r].pc \in Held => request'[r].pc \in Held

LEMMA QuietApps == AppsInv /\ AppsQuiet => AppsInv'
<1> SUFFICES ASSUME AppsInv, AppsQuiet PROVE AppsInv'
  OBVIOUS
<1>1. ASSUME NEW r \in Request PROVE Owns(r)'
  <2>1. CASE request'[r].pc \in {"key", "insert"}
    <3>1. request[r].pc \in {"key", "insert"} /\ request'[r].app = request[r].app /\ Owns(r)
      BY <2>1 DEF AppsQuiet, Held, AppsInv
    <3> QED BY <2>1, <3>1 DEF Owns, At, AppsQuiet
  <2>2. CASE request'[r].pc = "undo"
    <3>1. /\ request[r].pc \in {"key", "insert", "undo"} /\ request'[r].app = request[r].app
          /\ Owns(r)
      BY <2>2 DEF AppsQuiet, Held, AppsInv
    <3>2. \A a \in Agent : IsLive(a) /\ ~agent[a].unsure => agent[a].app # request[r].app
      BY <3>1 DEF Owns, At
    <3> QED BY <2>2, <3>1, <3>2 DEF Owns, At, AppsQuiet, IsLive
  <2> QED BY <2>1, <2>2 DEF Owns, At
<1>2. OwnApps' /\ LiveHasApp'
  BY DEF AppsInv, AppsQuiet, OwnApps, LiveHasApp, IsLive
<1>3. ASSUME ~faulted' PROVE SoleApps' /\ AppsExact'
  <2>1. ~faulted /\ SoleApps /\ AppsExact
    BY <1>3 DEF AppsInv, AppsQuiet
  <2>2. \A r \in Request : /\ request'[r].pc \in Held <=> request[r].pc \in Held
                           /\ request[r].pc \in Held => request'[r].app = request[r].app
    BY <1>3 DEF AppsQuiet
  <2>3. SoleApps'
    BY <2>1, <2>2 DEF SoleApps, AppsQuiet
  <2>4. AppsExact'
    BY <2>1, <2>2 DEF AppsExact, AppsQuiet, IsLive
  <2> QED BY <2>3, <2>4
<1> QED BY <1>1, <1>2, <1>3 DEF AppsInv

\* Steps of a request that holds no app before or after.
LEMMA QuietRequest ==
    ASSUME TypeOK, NEW q \in Request, NEW pc, Moved(q, pc), pc \notin Held,
           request[q].pc \notin Held \/ faulted', faulted => faulted', apps' = apps, Aged,
           \A a \in Agent : agent[a].status \in Live => agent'[a].status \in Live
    PROVE  AppsQuiet
<1>1. \A r \in Request : /\ request'[r].pc \in Held => r # q /\ request'[r] = request[r]
                         /\ ~faulted' /\ request[r].pc \in Held => request'[r] = request[r]
  BY DEF Moved
<1>2. \A x \in {"key", "insert"} : x \in Held
  BY DEF Held
<1>3. \A r \in Request : request'[r].pc \in {"key", "insert"} => request[r].pc \in {"key", "insert"}
  BY <1>1, <1>2
<1> QED BY <1>1, <1>3 DEF AppsQuiet, Aged

LEMMA CreateAppApps ==
    ASSUME TypeOK, TypeOK', AppsInv, NEW q \in Request, CreateApp(q)
    PROVE  AppsInv'
<1>1. At(q, "app") /\ UNCHANGED <<agent, kb, datasets>>
  BY CreateAppFacts
<1>2. request[q].pc \notin Held
  BY <1>1 DEF At, Held
<1>3. CASE Moved(q, "idle") /\ UNCHANGED <<apps, faulted>>
  <2>1. AppsQuiet
    BY <1>1, <1>2, <1>3, QuietRequest, SameAgents DEF Held
  <2> QED BY <2>1, QuietApps
<1>4. ASSUME NEW x \in FreshApps, x \in App, apps' = apps \cup {x},
             \/ Moved(q, "key") /\ Kept(q) /\ request'[q].app = x /\ UNCHANGED faulted
             \/ Moved(q, "idle") /\ faulted'
      PROVE  AppsInv'
  <2>1. /\ x \notin apps /\ \A a \in Agent : agent[a].app # x
        /\ \A r \in Request : request[r].app # x
    BY DEF FreshApps
  <2>2. \A r \in Request \ {q} : request'[r] = request[r]
    BY <1>4 DEF Moved
  <2>3. ASSUME NEW r \in Request \ {q} PROVE Owns(r)'
    <3>1. Owns(r)
      BY DEF AppsInv
    <3>2. request'[q].pc \in Held => request'[q].app = x
      BY <1>4 DEF Moved, Held
    <3> QED BY <1>1, <1>2, <1>4, <2>1, <2>2, <3>1, <3>2 DEF Owns, At, IsLive
  <2>4. Owns(q)'
    BY <1>1, <1>4, <2>1, <2>2 DEF Owns, At, Moved
  <2>5. OwnApps' /\ LiveHasApp'
    BY <1>1, <1>4 DEF AppsInv, OwnApps, LiveHasApp, IsLive
  <2>6. ASSUME ~faulted' PROVE SoleApps' /\ AppsExact'
    <3>1. ~faulted /\ Moved(q, "key") /\ request'[q].app = x /\ SoleApps /\ AppsExact
      BY <1>4, <2>6 DEF AppsInv
    <3>2. request'[q].pc \in Held
      BY <3>1 DEF Moved, Held
    <3>3. SoleApps'
      BY <1>1, <1>2, <2>1, <2>2, <3>1 DEF SoleApps
    <3>4. AppsExact'
      BY <1>1, <1>2, <1>4, <2>1, <2>2, <3>1, <3>2 DEF AppsExact, IsLive
    <3> QED BY <3>3, <3>4
  <2> QED BY <2>3, <2>4, <2>5, <2>6 DEF AppsInv
<1> QED BY <1>3, <1>4, CreateAppFacts

LEMMA InsertAgentApps ==
    ASSUME TypeOK, TypeOK', AppsInv, NEW q \in Request, Knows(q), InsertAgent(q)
    PROVE  AppsInv'
<1>1. At(q, "insert") /\ request[q].app \in App /\ UNCHANGED <<kb, apps, datasets>>
  BY InsertAgentFacts
<1>2. /\ request[q].pc \in Held /\ request[q].app \in apps
      /\ \A a \in Agent : agent[a].app # request[q].app
      /\ \A r \in Request \ {q} : request[r].pc \in Held => request[r].app # request[q].app
  BY <1>1 DEF AppsInv, Owns, At, Held
<1>3. CASE /\ UNCHANGED <<agent, faulted>> /\ Moved(q, "undo") /\ Kept(q)
           /\ request'[q].app = request[q].app
  <2>1. AppsQuiet
    BY <1>1, <1>2, <1>3 DEF AppsQuiet, Moved, Held, At
  <2> QED BY <2>1, QuietApps
<1>4. ASSUME NEW a \in Agent, NEW unsure \in BOOLEAN,
             agent[a].status = "none", agent'[a].status = "draft",
             agent'[a].app = request[q].app, agent'[a].unsure = unsure,
             \A b \in Agent \ {a} : agent'[b] = agent[b],
             unsure => /\ Moved(q, "undo") /\ Kept(q) /\ faulted'
                       /\ request'[q].app = request[q].app,
             ~unsure => Moved(q, "idle") /\ faulted' = faulted
      PROVE  AppsInv'
  <2>1. /\ \A r \in Request \ {q} : request'[r] = request[r]
        /\ unsure => request'[q].pc = "undo"
        /\ ~unsure => request'[q].pc = "idle"
    BY <1>4 DEF Moved
  <2>2. "none" \notin Live /\ "draft" \in Live
    BY DEF Live
  <2>3. ASSUME NEW r \in Request \ {q} PROVE Owns(r)'
    <3>1. Owns(r)
      BY DEF AppsInv
    <3>2. request[r].pc \in Held => agent'[a].app # request[r].app
      BY <1>2, <1>4
    <3>3. request'[q].pc \in Held => request'[q].app = request[q].app
      BY <1>4, <2>1 DEF Held
    <3> QED BY <1>1, <1>2, <1>4, <2>1, <2>2, <3>1, <3>2, <3>3 DEF Owns, At, Held, IsLive
  <2>4. Owns(q)'
    <3>1. CASE unsure
      BY <1>2, <1>4, <2>1, <3>1 DEF Owns, At, IsLive
    <3>2. CASE ~unsure
      BY <2>1, <3>2 DEF Owns, At
    <3> QED BY <3>1, <3>2
  <2>5. OwnApps'
    <3>1. OwnApps
      BY DEF AppsInv
    <3> QED BY <1>1, <1>2, <1>4, <3>1 DEF OwnApps, IsLive
  <2>6. LiveHasApp'
    BY <1>1, <1>2, <1>4 DEF AppsInv, LiveHasApp, IsLive
  <2>7. ASSUME ~faulted' PROVE SoleApps' /\ AppsExact'
    <3>1. ~faulted /\ ~unsure /\ SoleApps /\ AppsExact
      BY <1>4, <2>7 DEF AppsInv
    <3>2. request'[q].pc \notin Held
      BY <2>1, <3>1 DEF Held
    <3>3. SoleApps'
      BY <1>4, <2>1, <3>1, <3>2 DEF SoleApps
    <3>4. AppsExact'
      BY <1>1, <1>2, <1>4, <2>1, <2>2, <3>1, <3>2 DEF AppsExact, IsLive
    <3> QED BY <3>3, <3>4
  <2> QED BY <2>3, <2>4, <2>5, <2>6, <2>7 DEF AppsInv
<1> QED BY <1>3, <1>4, InsertAgentFacts

LEMMA UndoApps ==
    ASSUME TypeOK, TypeOK', AppsInv, NEW q \in Request, Undo(q)
    PROVE  AppsInv'
<1>1. At(q, "undo") /\ Moved(q, "idle") /\ UNCHANGED <<agent, kb, datasets>>
  BY UndoFacts
<1>2. CASE UNCHANGED apps /\ faulted'
  <2>1. AppsQuiet
    BY <1>1, <1>2, QuietRequest, SameAgents DEF Held
  <2> QED BY <2>1, QuietApps
<1>3. CASE apps' = apps \ {request[q].app} /\ UNCHANGED faulted
  <2>1. /\ request[q].pc \in Held
        /\ \A a \in Agent : IsLive(a) /\ ~agent[a].unsure => agent[a].app # request[q].app
        /\ request'[q].pc = "idle" /\ \A r \in Request \ {q} : request'[r] = request[r]
    BY <1>1 DEF AppsInv, Owns, At, Held, Moved
  <2>2. ASSUME NEW r \in Request \ {q} PROVE Owns(r)'
    <3>1. Owns(r)
      BY DEF AppsInv
    <3>2. request[r].pc \in {"key", "insert"} => request[r].app # request[q].app
      BY <2>1, <3>1 DEF Owns, At
    <3> QED BY <1>1, <1>3, <2>1, <3>1, <3>2 DEF Owns, At, Held, IsLive
  <2>3. Owns(q)'
    BY <2>1 DEF Owns, At
  <2>4. OwnApps' /\ LiveHasApp'
    BY <1>1, <1>3, <2>1 DEF AppsInv, OwnApps, LiveHasApp, IsLive
  <2>5. ASSUME ~faulted' PROVE SoleApps' /\ AppsExact'
    <3>1. SoleApps /\ AppsExact
      BY <1>3, <2>5 DEF AppsInv
    <3>2. request'[q].pc \notin Held
      BY <2>1 DEF Held
    <3>3. SoleApps'
      BY <1>1, <2>1, <3>1, <3>2 DEF SoleApps
    <3>4. AppsExact'
      BY <1>1, <1>3, <2>1, <3>1, <3>2 DEF AppsExact, SoleApps, IsLive
    <3> QED BY <3>3, <3>4
  <2> QED BY <2>2, <2>3, <2>4, <2>5 DEF AppsInv
<1> QED BY <1>2, <1>3, UndoFacts

LEMMA ArchiveApps ==
    ASSUME TypeOK, TypeOK', AppsInv, NEW q \in Request, Knows(q), Archive(q)
    PROVE  AppsInv'
<1>1. OwnApps
  BY DEF AppsInv
<1>2. At(q, "archive") /\ Aged /\ UNCHANGED <<kb, apps, datasets>> /\ request[q].pc \notin Held
  BY <1>1, ArchiveFacts DEF At, Held
<1>3. CASE UNCHANGED <<agent, faulted>> /\ Moved(q, "idle")
  <2>1. AppsQuiet
    BY <1>2, <1>3, QuietRequest, SameAgents DEF Held
  <2> QED BY <2>1, QuietApps
<1>4. ASSUME NEW a \in Agent, IsLive(a), agent'[a].status = "archived",
             \A b \in Agent \ {a} : agent'[b] = agent[b],
             \/ Moved(q, "undo") /\ request'[q].app = agent[a].app /\ UNCHANGED faulted
             \/ Moved(q, "idle") /\ faulted'
      PROVE  AppsInv'
  <2>1. /\ \A r \in Request \ {q} : request'[r] = request[r]
        /\ \/ request'[q].pc = "undo" /\ request'[q].app = agent[a].app
           \/ request'[q].pc = "idle"
    BY <1>4 DEF Moved
  <2>2. /\ "archived" \notin Live /\ agent[a].app \in App /\ agent[a].app # None
        /\ \A b \in Agent : agent'[b].app = agent[b].app /\ agent'[b].unsure = agent[b].unsure
        /\ \A b \in Agent : agent'[b].status \in Live => agent[b].status \in Live /\ b # a
    BY <1>1, <1>2, <1>4, CatalogueAssumption DEF Live, OwnApps, Aged
  <2>3. ASSUME NEW r \in Request \ {q} PROVE Owns(r)'
    <3>1. Owns(r)
      BY DEF AppsInv
    <3>2. request[r].pc \in {"key", "insert"} => request[r].app # agent[a].app
      BY <3>1 DEF Owns, At
    <3> QED BY <1>2, <2>1, <2>2, <3>1, <3>2 DEF Owns, At, Held, IsLive
  <2>4. Owns(q)'
    BY <1>1, <2>1, <2>2 DEF Owns, At, OwnApps, IsLive
  <2>5. OwnApps' /\ LiveHasApp'
    BY <1>2, <2>2 DEF AppsInv, OwnApps, LiveHasApp, IsLive
  <2>6. ASSUME ~faulted' PROVE SoleApps' /\ AppsExact'
    <3>1. /\ ~faulted /\ SoleApps /\ AppsExact /\ request'[q].pc = "undo"
          /\ request'[q].app = agent[a].app
      BY <1>4, <2>1, <2>6 DEF AppsInv, Moved
    <3>2. \A r \in Request \ {q} : request[r].pc \in Held => request[r].app # agent[a].app
      BY <1>4, <3>1 DEF AppsInv, Owns, At, Held, SoleApps
    <3>3. request'[q].pc \in Held
      BY <3>1 DEF Held
    <3>4. SoleApps'
      BY <2>1, <2>2, <3>1, <3>2 DEF SoleApps
    <3>5. ASSUME NEW b \in Agent PROVE IsLive(b)' <=> IsLive(b) /\ b # a
      BY <1>4, <2>2 DEF IsLive
    <3>6. \A b \in Agent : IsLive(b) /\ agent[b].app = agent[a].app => b = a
      BY <1>1, <2>2 DEF OwnApps
    <3>7. ASSUME NEW x
          PROVE  x \in apps' <=> \/ \E b \in Agent : IsLive(b)' /\ agent'[b].app = x
                                 \/ \E r \in Request : request'[r].pc \in Held /\ request'[r].app = x
      <4>1. CASE x = agent[a].app
        <5>1. x \in apps'
          BY <1>2, <1>4, <3>1, <4>1 DEF AppsExact
        <5> QED BY <3>1, <3>3, <4>1, <5>1
      <4>2. CASE x # agent[a].app
        <5>1. (\E b \in Agent : IsLive(b)' /\ agent'[b].app = x)
                <=> (\E b \in Agent : IsLive(b) /\ agent[b].app = x)
          BY <2>2, <3>5, <4>2
        <5>2. (\E r \in Request : request'[r].pc \in Held /\ request'[r].app = x)
                <=> (\E r \in Request : request[r].pc \in Held /\ request[r].app = x)
          BY <1>2, <2>1, <3>1, <4>2
        <5> QED BY <1>2, <3>1, <5>1, <5>2 DEF AppsExact
      <4> QED BY <4>1, <4>2
    <3>8. AppsExact'
      BY <3>7 DEF AppsExact
    <3> QED BY <3>4, <3>8
  <2> QED BY <2>3, <2>4, <2>5, <2>6 DEF AppsInv
<1> QED BY <1>1, <1>3, <1>4, ArchiveFacts

LEMMA AppsStep ==
    ASSUME TypeOK, TypeOK', AppsInv, NEW q \in Request, Knows(q), Work(q)
    PROVE  AppsInv'
<1>1. CASE CreateApp(q) \/ InsertAgent(q) \/ Undo(q) \/ Archive(q)
  BY <1>1, CreateAppApps, InsertAgentApps, UndoApps, ArchiveApps
<1>2. CASE BeginRegister(q) \/ BeginEdit(q) \/ BeginArchive(q) \/ BeginKb(q) \/ BeginDrop(q)
  <2>1. UNCHANGED <<agent, kb, apps, datasets, faulted>>
    BY <1>2 DEF BeginRegister, BeginEdit, BeginArchive, BeginKb, BeginDrop
  <2>2. At(q, "idle") /\ \E pc \in {"app", "read", "archive", "dataset", "kbupstream"} : Moved(q, pc)
    BY <1>2, BeginFacts
  <2>3. AppsQuiet
    BY <2>1, <2>2, QuietRequest, SameAgents DEF At, Held
  <2> QED BY <2>3, QuietApps
<1>3. CASE MakeKey(q)
  <2>1. AppsQuiet
    BY <1>3, MakeKeyFacts DEF AppsQuiet, Moved, Held, At
  <2> QED BY <2>1, QuietApps
<1>4. CASE MakeDatasetKey(q) \/ ReadAgent(q)
  <2>1. /\ At(q, "kbkey") \/ At(q, "read")
        /\ \E pc \in {"kbinsert", "kbundo", "write", "idle"} : Moved(q, pc)
        /\ UNCHANGED <<agent, kb, apps, datasets, faulted>>
    BY <1>4, MakeKeyFacts
  <2>2. AppsQuiet
    BY <2>1, QuietRequest, SameAgents DEF At, Held
  <2> QED BY <2>2, QuietApps
<1>5. CASE UndoKb(q) \/ Crash(q)
  <2>1. /\ At(q, "kbundo") \/ faulted'
        /\ faulted => faulted' /\ Moved(q, "idle") /\ UNCHANGED <<agent, apps>>
    BY <1>5, UndoFacts
  <2>2. AppsQuiet
    BY <1>5, <2>1, UndoFacts, QuietRequest, SameAgents DEF At, Held
  <2> QED BY <2>2, QuietApps
<1>6. CASE WriteAgent(q)
  <2>1. At(q, "write")
    BY <1>6 DEF WriteAgent
  <2>2. AppsQuiet
    BY <1>6, <2>1, WriteAgentFacts, QuietRequest DEF At, Held
  <2> QED BY <2>2, QuietApps
<1>7. CASE CreateDataset(q)
  <2>1. /\ At(q, "dataset") /\ UNCHANGED <<agent, apps>> /\ (faulted => faulted')
        /\ \E pc \in {"kbkey", "idle"} : Moved(q, pc)
    BY <1>7, CreateDatasetFacts
  <2>2. AppsQuiet
    BY <2>1, QuietRequest, SameAgents DEF At, Held
  <2> QED BY <2>2, QuietApps
<1>8. CASE InsertKb(q)
  <2>1. /\ At(q, "kbinsert") /\ UNCHANGED <<agent, apps>> /\ (faulted => faulted')
        /\ \E pc \in {"kbundo", "idle"} : Moved(q, pc)
    BY <1>8, InsertKbFacts
  <2>2. AppsQuiet
    BY <2>1, QuietRequest, SameAgents DEF At, Held
  <2> QED BY <2>2, QuietApps
<1>9. CASE DropDataset(q)
  <2>1. /\ At(q, "kbupstream") /\ UNCHANGED <<agent, apps>> /\ (faulted => faulted')
        /\ \E pc \in {"kbdrop", "idle"} : Moved(q, pc)
    BY <1>9, DropDatasetFacts
  <2>2. AppsQuiet
    BY <2>1, QuietRequest, SameAgents DEF At, Held
  <2> QED BY <2>2, QuietApps
<1>10. CASE DropRow(q)
  <2>1. /\ At(q, "kbdrop") /\ UNCHANGED apps /\ Aged /\ Moved(q, "idle") /\ (faulted => faulted')
        /\ \A a \in Agent : agent'[a].status = agent[a].status
    BY <1>10, DropRowFacts
  <2>2. AppsQuiet
    BY <2>1, QuietRequest DEF At, Held
  <2> QED BY <2>2, QuietApps
<1> QED BY <1>1, <1>2, <1>3, <1>4, <1>5, <1>6, <1>7, <1>8, <1>9, <1>10
        DEF Work, AgentStep, KbStep

(***************************************************************************)
(* The datasets.                                                           *)
(***************************************************************************)

\* A step that leaves the datasets, the knowledge bases and what requests name
\* of them.
DatasetsQuiet ==
    ~faulted' =>
      /\ ~faulted /\ UNCHANGED <<datasets, kb>>
      /\ \A r \in Request :
           /\ request'[r].pc \in KbHeld <=> request[r].pc \in KbHeld
           /\ request[r].pc \in KbHeld => request'[r].dataset = request[r].dataset
           /\ request'[r].pc = "kbdrop" <=> request[r].pc = "kbdrop"
           /\ request[r].pc = "kbdrop" => request'[r].kb = request[r].kb

LEMMA QuietDatasets == DatasetsInv /\ DatasetsQuiet => DatasetsInv'
<1> SUFFICES ASSUME DatasetsInv, DatasetsQuiet, ~faulted'
             PROVE  SoleDatasets' /\ DatasetsExact'
  BY DEF DatasetsInv
<1>1. /\ SoleDatasets /\ DatasetsExact /\ UNCHANGED <<datasets, kb>>
      /\ \A r \in Request :
           /\ request'[r].pc \in KbHeld <=> request[r].pc \in KbHeld
           /\ request[r].pc \in KbHeld => request'[r].dataset = request[r].dataset
           /\ request'[r].pc = "kbdrop" <=> request[r].pc = "kbdrop"
           /\ request[r].pc = "kbdrop" => request'[r].kb = request[r].kb
  BY DEF DatasetsInv, DatasetsQuiet
<1>2. SoleDatasets'
  BY <1>1 DEF SoleDatasets, There
<1>3. \A k \in Kb : Dropping(k)' <=> Dropping(k)
  BY <1>1 DEF Dropping, At
<1>4. DatasetsExact'
  BY <1>1, <1>3 DEF DatasetsExact, There
<1> QED BY <1>2, <1>4

\* Steps of a request that holds no dataset before or after.
LEMMA QuietDatasetRequest ==
    ASSUME NEW q \in Request, NEW pc, Moved(q, pc), pc \notin KbHeld, pc # "kbdrop",
           request[q].pc \notin KbHeld, request[q].pc # "kbdrop", faulted => faulted',
           UNCHANGED <<datasets, kb>>
    PROVE  DatasetsQuiet
BY DEF DatasetsQuiet, Moved

LEMMA CreateDatasetDatasets ==
    ASSUME TypeOK, DatasetsInv, NEW q \in Request, CreateDataset(q), ~faulted'
    PROVE  SoleDatasets' /\ DatasetsExact'
<1>1. /\ At(q, "dataset") /\ UNCHANGED kb
      /\ request[q].pc \notin KbHeld /\ request[q].pc # "kbdrop"
  BY CreateDatasetFacts DEF At, KbHeld
<1>2. CASE Moved(q, "idle") /\ UNCHANGED <<datasets, faulted>>
  <2>1. DatasetsQuiet
    BY <1>1, <1>2, QuietDatasetRequest DEF KbHeld
  <2> QED BY <2>1, QuietDatasets DEF DatasetsInv
<1>3. ASSUME NEW d \in FreshDatasets, d \in Dataset, datasets' = datasets \cup {d},
             Moved(q, "kbkey"), request'[q].dataset = d, UNCHANGED faulted
      PROVE  SoleDatasets' /\ DatasetsExact'
  <2>1. /\ \A k \in Kb : kb[k].dataset # d
        /\ \A r \in Request : request[r].dataset # d
        /\ request'[q].pc = "kbkey" /\ "kbkey" \in KbHeld
        /\ \A r \in Request \ {q} : request'[r] = request[r]
        /\ SoleDatasets /\ DatasetsExact
    BY <1>3 DEF FreshDatasets, Moved, KbHeld, DatasetsInv
  <2>2. SoleDatasets'
    BY <1>1, <1>3, <2>1 DEF SoleDatasets, There
  <2>3. \A k \in Kb : Dropping(k)' <=> Dropping(k)
    BY <1>1, <2>1 DEF Dropping, At
  <2>4. DatasetsExact'
    BY <1>1, <1>3, <2>1, <2>3 DEF DatasetsExact, There
  <2> QED BY <2>2, <2>4
<1> QED BY <1>2, <1>3, CreateDatasetFacts

LEMMA InsertKbDatasets ==
    ASSUME TypeOK, DatasetsInv, \A r \in Request : Knows(r), NEW q \in Request, InsertKb(q), ~faulted'
    PROVE  SoleDatasets' /\ DatasetsExact'
<1>1. /\ At(q, "kbinsert") /\ request[q].dataset \in Dataset /\ UNCHANGED datasets
      /\ request[q].pc \in KbHeld /\ request[q].pc # "kbdrop"
  BY InsertKbFacts DEF At, KbHeld
<1>2. CASE /\ UNCHANGED <<kb, faulted>> /\ Moved(q, "kbundo")
           /\ request'[q].dataset = request[q].dataset
  <2>1. DatasetsQuiet
    BY <1>1, <1>2 DEF DatasetsQuiet, Moved, KbHeld
  <2> QED BY <2>1, QuietDatasets DEF DatasetsInv
<1>3. ASSUME NEW k \in Kb, kb[k].status = "none", kb'[k].status = "there",
             kb'[k].dataset = request[q].dataset, \A j \in Kb \ {k} : kb'[j] = kb[j],
             Moved(q, "idle"), UNCHANGED faulted
      PROVE  SoleDatasets' /\ DatasetsExact'
  <2>1. /\ request'[q].pc = "idle" /\ request'[q].pc \notin KbHeld
        /\ \A r \in Request \ {q} : request'[r] = request[r]
        /\ SoleDatasets /\ DatasetsExact
    BY <1>3 DEF Moved, KbHeld, DatasetsInv
  <2>2. /\ \A j \in Kb : kb[j].dataset # request[q].dataset
        /\ \A r \in Request \ {q} : request[r].pc \in KbHeld => request[r].dataset # request[q].dataset
    BY <1>1, <2>1 DEF SoleDatasets
  <2>3. SoleDatasets'
    BY <1>1, <1>3, <2>1, <2>2 DEF SoleDatasets, There
  <2>4. /\ \A j \in Kb : Dropping(j)' <=> Dropping(j)
        /\ ~Dropping(k) /\ ~There(k)
    BY <1>1, <1>3, <2>1 DEF Dropping, At, Knows, There
  <2>5. DatasetsExact'
    BY <1>1, <1>3, <2>1, <2>4 DEF DatasetsExact, There
  <2> QED BY <2>3, <2>5
<1> QED BY <1>2, <1>3, InsertKbFacts

LEMMA UndoKbDatasets ==
    ASSUME TypeOK, DatasetsInv, NEW q \in Request, UndoKb(q), ~faulted'
    PROVE  SoleDatasets' /\ DatasetsExact'
<1>1. /\ At(q, "kbundo") /\ Moved(q, "idle") /\ UNCHANGED kb
      /\ datasets' = datasets \ {request[q].dataset} /\ UNCHANGED faulted
  BY UndoFacts
<1>2. /\ request[q].pc \in KbHeld /\ request[q].pc # "kbdrop"
      /\ request'[q].pc = "idle" /\ request'[q].pc \notin KbHeld
      /\ \A r \in Request \ {q} : request'[r] = request[r]
      /\ SoleDatasets /\ DatasetsExact
  BY <1>1 DEF At, Moved, KbHeld, DatasetsInv
<1>3. /\ \A k \in Kb : kb[k].dataset # request[q].dataset
      /\ \A r \in Request \ {q} : request[r].pc \in KbHeld => request[r].dataset # request[q].dataset
  BY <1>2 DEF SoleDatasets
<1>4. SoleDatasets'
  BY <1>1, <1>2 DEF SoleDatasets, There
<1>5. \A k \in Kb : Dropping(k)' <=> Dropping(k)
  BY <1>2 DEF Dropping, At
<1>6. DatasetsExact'
  BY <1>1, <1>2, <1>3, <1>5 DEF DatasetsExact, There
<1> QED BY <1>4, <1>6

LEMMA DropDatasetDatasets ==
    ASSUME TypeOK, DatasetsInv, NEW q \in Request, Knows(q), DropDataset(q), ~faulted'
    PROVE  SoleDatasets' /\ DatasetsExact'
<1> DEFINE k0 == request[q].kb
<1>1. /\ At(q, "kbupstream") /\ k0 \in Kb /\ UNCHANGED kb
      /\ request[q].pc \notin KbHeld /\ request[q].pc # "kbdrop"
  BY DropDatasetFacts DEF At, KbHeld
<1>2. CASE UNCHANGED <<datasets, faulted>> /\ Moved(q, "idle")
  <2>1. DatasetsQuiet
    BY <1>1, <1>2, QuietDatasetRequest DEF KbHeld
  <2> QED BY <2>1, QuietDatasets DEF DatasetsInv
<1>3. CASE /\ datasets' = datasets \ {kb[k0].dataset} /\ UNCHANGED faulted
           /\ Moved(q, "kbdrop") /\ Kept(q)
  <2>1. /\ request'[q].pc = "kbdrop" /\ request'[q].pc \notin KbHeld /\ request'[q].kb = k0
        /\ \A r \in Request \ {q} : request'[r] = request[r]
        /\ SoleDatasets /\ DatasetsExact
    BY <1>3 DEF Moved, Kept, KbHeld, DatasetsInv
  <2>2. SoleDatasets'
    BY <1>1, <2>1 DEF SoleDatasets, There
  <2>3. \A k \in Kb : Dropping(k)' <=> Dropping(k) \/ k = k0
    BY <1>1, <2>1 DEF Dropping, At
  <2>4. /\ \A k \in Kb : There(k) /\ kb[k].dataset = kb[k0].dataset => k = k0
        /\ \A r \in Request : request[r].pc \in KbHeld => request[r].dataset # kb[k0].dataset
    BY <1>1, <2>1, CatalogueAssumption DEF SoleDatasets
  <2>5. ASSUME NEW d
        PROVE  d \in datasets' <=>
                  \/ \E k \in Kb : There(k)' /\ ~Dropping(k)' /\ kb'[k].dataset = d
                  \/ \E r \in Request : request'[r].pc \in KbHeld /\ request'[r].dataset = d
    <3>1. (\E r \in Request : request'[r].pc \in KbHeld /\ request'[r].dataset = d)
            <=> (\E r \in Request : request[r].pc \in KbHeld /\ request[r].dataset = d)
      BY <1>1, <2>1
    <3>2. \A k \in Kb : There(k)' <=> There(k)
      BY <1>1 DEF There
    <3>3. CASE d = kb[k0].dataset
      BY <1>1, <1>3, <2>3, <2>4, <3>1, <3>2, <3>3
    <3>4. CASE d # kb[k0].dataset
      BY <1>1, <1>3, <2>1, <2>3, <3>1, <3>2, <3>4 DEF DatasetsExact
    <3> QED BY <3>3, <3>4
  <2>6. DatasetsExact'
    BY <2>5 DEF DatasetsExact
  <2> QED BY <2>2, <2>6
<1> QED BY <1>2, <1>3, DropDatasetFacts

LEMMA DropRowDatasets ==
    ASSUME TypeOK, DatasetsInv, NEW q \in Request, Knows(q), DropRow(q), ~faulted'
    PROVE  SoleDatasets' /\ DatasetsExact'
<1> DEFINE k0 == request[q].kb
<1>1. /\ At(q, "kbdrop") /\ Moved(q, "idle") /\ UNCHANGED <<datasets, faulted>>
      /\ kb'[k0].status = "gone"
      /\ \A k \in Kb : kb'[k].dataset = kb[k].dataset /\ (k # k0 => kb'[k] = kb[k])
  BY DropRowFacts
<1>2. /\ request'[q].pc = "idle" /\ request'[q].pc \notin KbHeld
      /\ request[q].pc \notin KbHeld /\ request[q].pc = "kbdrop"
      /\ \A r \in Request \ {q} : request'[r] = request[r]
      /\ SoleDatasets /\ DatasetsExact
  BY <1>1 DEF At, Moved, KbHeld, DatasetsInv
<1>3. \A k \in Kb : There(k)' <=> There(k) /\ k # k0
  BY <1>1 DEF There
<1>4. SoleDatasets'
  BY <1>1, <1>2, <1>3 DEF SoleDatasets
<1>5. \A k \in Kb : k # k0 => (Dropping(k)' <=> Dropping(k))
  BY <1>2 DEF Dropping, At
<1>6. Dropping(k0)
  BY <1>2 DEF Dropping, At
<1>7. DatasetsExact'
  BY <1>1, <1>2, <1>3, <1>5, <1>6 DEF DatasetsExact
<1> QED BY <1>4, <1>7

LEMMA DatasetsStep ==
    ASSUME TypeOK, AppsInv, DatasetsInv, \A r \in Request : Knows(r), NEW q \in Request, Work(q)
    PROVE  DatasetsInv'
<1>1. CASE CreateDataset(q) \/ InsertKb(q) \/ UndoKb(q) \/ DropDataset(q) \/ DropRow(q)
  BY <1>1, CreateDatasetDatasets, InsertKbDatasets, UndoKbDatasets, DropDatasetDatasets,
     DropRowDatasets DEF DatasetsInv
<1>2. CASE BeginRegister(q) \/ BeginEdit(q) \/ BeginArchive(q) \/ BeginKb(q) \/ BeginDrop(q)
  <2>1. UNCHANGED <<agent, kb, apps, datasets, faulted>>
    BY <1>2 DEF BeginRegister, BeginEdit, BeginArchive, BeginKb, BeginDrop
  <2>2. At(q, "idle") /\ \E pc \in {"app", "read", "archive", "dataset", "kbupstream"} : Moved(q, pc)
    BY <1>2, BeginFacts
  <2>3. DatasetsQuiet
    BY <2>1, <2>2, QuietDatasetRequest DEF At, KbHeld
  <2> QED BY <2>3, QuietDatasets
<1>3. CASE MakeDatasetKey(q)
  <2>1. /\ request[q].pc = "kbkey" /\ request'[q].pc \in {"kbinsert", "kbundo"}
        /\ \A r \in Request \ {q} : request'[r] = request[r]
        /\ request'[q].dataset = request[q].dataset /\ UNCHANGED <<kb, datasets, faulted>>
    BY <1>3, MakeKeyFacts DEF Moved, At
  <2>2. DatasetsQuiet
    BY <2>1 DEF DatasetsQuiet, KbHeld
  <2> QED BY <2>2, QuietDatasets
<1>4. CASE Crash(q)
  BY <1>4, UndoFacts DEF DatasetsInv
<1>5. CASE \/ CreateApp(q) \/ MakeKey(q) \/ ReadAgent(q) \/ InsertAgent(q) \/ Undo(q)
           \/ WriteAgent(q) \/ Archive(q)
  <2>1. request[q].pc \in {"app", "key", "read", "insert", "undo", "write", "archive"}
    BY <1>5 DEF CreateApp, MakeKey, ReadAgent, InsertAgent, Undo, WriteAgent, Archive, At
  <2>2. UNCHANGED <<datasets, kb>> /\ (faulted => faulted')
    <3>1. CASE CreateApp(q) \/ MakeKey(q) \/ ReadAgent(q) \/ Undo(q)
      BY <3>1, CreateAppFacts, MakeKeyFacts, UndoFacts
    <3>2. CASE InsertAgent(q)
      BY <3>2, InsertAgentFacts
    <3>3. CASE WriteAgent(q) \/ Archive(q)
      BY <3>3, WriteAgentFacts, ArchiveFacts DEF AppsInv
    <3> QED BY <1>5, <3>1, <3>2, <3>3
  <2>3. \E pc \in {"idle", "key", "insert", "undo", "write"} : Moved(q, pc)
    BY <1>5, CreateAppFacts, MakeKeyFacts, InsertAgentFacts, UndoFacts, WriteAgentFacts,
       ArchiveFacts DEF AppsInv
  <2>4. DatasetsQuiet
    BY <2>1, <2>2, <2>3, QuietDatasetRequest DEF KbHeld
  <2> QED BY <2>4, QuietDatasets
<1> QED BY <1>1, <1>2, <1>3, <1>4, <1>5 DEF Work, AgentStep, KbStep

(***************************************************************************)
(* The theorems.                                                           *)
(***************************************************************************)
LEMMA IInvInit == Init => IInv
<1> SUFFICES ASSUME Init PROVE IInv
  OBVIOUS
<1>1. TypeOK
  BY TypeInit
<1>2. /\ \A q \in Request : request[q].pc = "idle"
      /\ \A a \in Agent : agent[a].status = "none" /\ agent[a].app = None /\ ~agent[a].unsure
      /\ \A k \in Kb : kb[k].status = "none" /\ kb[k].dataset = None
      /\ apps = {} /\ datasets = {}
  BY DEF Init, Idle
<1>3. "none" \notin Live /\ "idle" \notin Held /\ "idle" \notin KbHeld
  BY DEF Live, Held, KbHeld
<1>4. \A q \in Request : Knows(q) /\ Owns(q)
  BY <1>2, <1>3 DEF Knows, Owns, At
<1>5. OwnApps /\ LiveHasApp /\ SoleApps /\ SoleDatasets
  BY <1>2, <1>3 DEF OwnApps, LiveHasApp, SoleApps, SoleDatasets, IsLive, There
<1>6. AppsExact /\ DatasetsExact
  BY <1>2, <1>3 DEF AppsExact, DatasetsExact, IsLive, There
<1> QED BY <1>1, <1>4, <1>5, <1>6 DEF IInv, AppsInv, DatasetsInv

LEMMA IInvNext == IInv /\ [Next]_vars => IInv'
<1> SUFFICES ASSUME IInv, [Next]_vars PROVE IInv'
  OBVIOUS
<1>1. ASSUME NEW q \in Request, Work(q) PROVE IInv'
  <2>1. TypeOK /\ (\A r \in Request : Knows(r)) /\ AppsInv /\ DatasetsInv /\ OwnApps
    BY DEF IInv, AppsInv
  <2>2. TypeOK'
    BY <1>1, <2>1, TypeStep
  <2>3. \A r \in Request : Knows(r)'
    BY <1>1, <2>1, <2>2, KnowsStep
  <2>4. AppsInv'
    BY <1>1, <2>1, <2>2, AppsStep
  <2>5. DatasetsInv'
    BY <1>1, <2>1, DatasetsStep
  <2> QED BY <2>2, <2>3, <2>4, <2>5 DEF IInv
<1>2. CASE UNCHANGED vars
  BY <1>2 DEF vars, IInv, TypeOK, Knows, AppsInv, DatasetsInv, Owns, OwnApps, LiveHasApp, SoleApps,
     AppsExact, SoleDatasets, DatasetsExact, Dropping, At, IsLive, There, Unchanged
<1> QED BY <1>1, <1>2 DEF Next, Work

\* Every row, request and set keeps its shape.
THEOREM CatalogueTypeCorrect == Spec => []TypeOK
<1>1. IInv => TypeOK
  BY DEF IInv
<1> QED BY <1>1, IInvInit, IInvNext, PTL DEF Spec

\* No interleaving of registrations, compensations, edits and archivals deletes
\* the app of an agent that stays (agent_service.py), save one whose
\* registration was told that it failed although it was committed.
THEOREM AgentsKeepTheirApps == Spec => []LiveHasApp
<1>1. IInv => LiveHasApp
  BY DEF IInv, AppsInv
<1> QED BY <1>1, IInvInit, IInvNext, PTL DEF Spec

\* While no answer, cleanup or process is lost, Dify holds exactly the apps and
\* datasets of the rows and of the requests at work.
THEOREM NoOrphans == Spec => []NothingLeftBehind
<1>1. IInv => NothingLeftBehind
  <2> SUFFICES ASSUME IInv, ~faulted
               PROVE  /\ apps = {agent[a].app : a \in {b \in Agent : IsLive(b)}}
                                \cup {request[q].app : q \in {r \in Request : request[r].pc \in Held}}
                      /\ datasets = {kb[k].dataset : k \in {j \in Kb : There(j)
                                        /\ ~\E q \in Request : At(q, "kbdrop") /\ request[q].kb = j}}
                                    \cup {request[q].dataset :
                                            q \in {r \in Request : request[r].pc \in KbHeld}}
    BY DEF NothingLeftBehind
  <2>1. AppsExact /\ DatasetsExact
    BY DEF IInv, AppsInv, DatasetsInv
  <2>2. apps = {agent[a].app : a \in {b \in Agent : IsLive(b)}}
                 \cup {request[q].app : q \in {r \in Request : request[r].pc \in Held}}
    BY <2>1 DEF AppsExact
  <2>3. datasets = {kb[k].dataset : k \in {j \in Kb : There(j)
                        /\ ~\E q \in Request : At(q, "kbdrop") /\ request[q].kb = j}}
                     \cup {request[q].dataset : q \in {r \in Request : request[r].pc \in KbHeld}}
    BY <2>1 DEF DatasetsExact, Dropping
  <2> QED BY <2>2, <2>3
<1> QED BY <1>1, IInvInit, IInvNext, PTL DEF Spec

\* A publish or a test that read an agent before it was taken down does not
\* bring it back: the version it names is no longer the row's (agent_service.py,
\* the WHERE version = expected of every edit).
THEOREM TakenDownStaysDown == Spec => OfflineStays
<1> DEFINE A == \A a \in Agent : agent[a].status = "offline"
                   => agent'[a].status \in {"offline", "archived"}
<1>1. IInv /\ [Next]_vars => A
  <2> SUFFICES ASSUME IInv, [Next]_vars, NEW a \in Agent, agent[a].status = "offline"
               PROVE  agent'[a].status \in {"offline", "archived"}
    OBVIOUS
  <2>1. CASE UNCHANGED agent
    BY <2>1
  <2>2. ASSUME NEW q \in Request, Work(q), agent' # agent
        PROVE  agent'[a].status \in {"offline", "archived"}
    <3>1. TypeOK /\ Knows(q) /\ OwnApps
      BY DEF IInv, AppsInv
    <3>2. CASE InsertAgent(q)
      BY <2>2, <3>1, <3>2, InsertAgentFacts
    <3>3. CASE Archive(q)
      BY <2>2, <3>1, <3>3, ArchiveFacts
    <3>4. CASE DropRow(q)
      BY <3>1, <3>4, DropRowFacts
    <3>5. CASE WriteAgent(q)
      <4> DEFINE b == request[q].agent
      <4>1. /\ At(q, "write") /\ Unchanged(agent[b], request[q])
            /\ agent' = [agent EXCEPT ![b] = Edited(agent[b], request[q])]
        BY <2>2, <3>5 DEF WriteAgent
      <4>2. /\ b \in Agent /\ request[q].kind \in Edits
            /\ Admits(request[q].kind, agent[b].status)
        BY <3>1, <4>1 DEF Knows
      <4>3. CASE a # b
        BY <4>1, <4>2, <4>3, <3>1 DEF TypeOK
      <4>4. CASE a = b
        <5>1. request[q].kind \in {"update", "offline"}
          BY <4>2, <4>4 DEF Admits, Edits
        <5>2. agent[a] \in AgentRow /\ agent'[a] = Edited(agent[a], request[q])
          BY <3>1, <4>1, <4>2, <4>4 DEF TypeOK
        <5>3. Edited(agent[a], request[q]).status = "offline"
          BY <5>1, <5>2 DEF Edited, AgentRow
        <5> QED BY <5>2, <5>3
      <4> QED BY <4>3, <4>4
    <3> QED BY <2>2, <3>2, <3>3, <3>4, <3>5
        DEF Work, AgentStep, KbStep, BeginRegister, CreateApp, MakeKey, Undo, BeginEdit, ReadAgent,
            BeginArchive, BeginKb, CreateDataset, MakeDatasetKey, InsertKb, UndoKb, BeginDrop,
            DropDataset, Crash
  <2> QED BY <2>1, <2>2 DEF Next, Work, vars
<1> QED BY <1>1, IInvInit, IInvNext, PTL DEF Spec, OfflineStays
=============================================================================
