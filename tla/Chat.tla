-------------------------------- MODULE Chat --------------------------------
(* The turns of one conversation: a browser's request, the relay of Dify's   *)
(* stream to it, and what the stream leaves behind -- approval tasks, run    *)
(* logs and the conversation's id in Dify (services/conversation.py,         *)
(* dify_conversation_adapter.py, events/run_log.py; lib/use-stream-chat.ts). *)
(* Every turn has a session of its own and may overlap any other.            *)
EXTENDS Naturals, Sequences

CONSTANTS Turn,        \* questions sent; a Dify conversation is named by the turn that opened it
          MaxCalls,    \* bound: tool calls in a turn
          None

ASSUME ChatAssumption == MaxCalls \in Nat \ {0} /\ None \notin Turn

VARIABLES conv,      \* the row: deleted, and its conversation in Dify
          app,       \* mode of the agent's app in Dify
          turn,
          overlap    \* history: two turns of the conversation were open at once

vars == <<conv, app, turn, overlap>>

Thread == Turn \cup {None}
Frames == {"message", "agent_message", "thought", "approval", "message_end", "error"}
Shown == {"approval", "message_end"}      \* what the client is told once and acts on
Marks == Shown \cup {"debug", "reading", "answered", "error"}
Closed == {"idle", "closed"}

TurnRecord == [pc : {"idle", "ready", "stream", "closed"},
               known : Thread,     \* the row's Dify id, as this turn's session holds it
               thread : Thread,    \* the Dify conversation the turn went to
               out : Seq(Frames),  \* mapped, not relayed yet
               marks : SUBSET Marks,   \* a debug turn; the client reads; it was told
                                       \* ...; an answer, or an error, was relayed
               calls : 0 .. MaxCalls, echoes : 0 .. MaxCalls, tasks : 0 .. MaxCalls,
               log : {"none", "kept", "lost"}]

NoTurn == [pc |-> "idle", known |-> None, thread |-> None, out |-> <<>>, marks |-> {},
           calls |-> 0, echoes |-> 0, tasks |-> 0, log |-> "none"]

Init ==
    /\ conv = [deleted |-> FALSE, thread |-> None]
    /\ app \in {"chat", "agent-chat"}
    /\ turn = [t \in Turn |-> NoTurn]
    /\ overlap = FALSE

At(t, pc) == turn[t].pc = pc
Becomes(t, rec) == turn' = [turn EXCEPT ![t] = rec]
Is(t, mark) == mark \in turn[t].marks
Busy == {t \in Turn : turn[t].pc \notin Closed /\ ~Is(t, "debug")}

(* Relayed; it reaches the client if the client still reads. *)
Received(rec, frame) ==
    [rec EXCEPT !.marks = @ \cup ({frame} \cap (IF "reading" \in @ THEN Shown \cup {"error"}
                                                                  ELSE {"error"}))]

Close(rec) == [rec EXCEPT !.pc = "closed", !.out = <<>>, !.marks = @ \ {"reading"}]

(* An exception under the stream: one error frame, and the response ends. *)
Broken(rec) == Close(Received(rec, "error"))

(***************************************************************************)
(* The row.                                                                *)
(***************************************************************************)
Delete ==
    /\ ~conv.deleted /\ conv' = [conv EXCEPT !.deleted = TRUE]
    /\ UNCHANGED <<app, turn, overlap>>

Restore ==
    /\ conv.deleted /\ conv' = [conv EXCEPT !.deleted = FALSE]
    /\ UNCHANGED <<app, turn, overlap>>

(***************************************************************************)
(* A turn until Dify streams.                                              *)
(***************************************************************************)
Opened(known, marks) ==
    [NoTurn EXCEPT !.pc = "ready", !.known = known, !.marks = marks \cup {"reading"}]

(* What a user may open, list and write to. *)
Usable == ~conv.deleted

Prepare(t) ==
    /\ At(t, "idle") /\ Usable
    /\ Becomes(t, Opened(conv.thread, {}))
    /\ overlap' = (overlap \/ Busy # {})
    /\ UNCHANGED <<conv, app>>

(* An administrator tries the agent: no history and no approvals. *)
PrepareDebug(t) ==
    /\ At(t, "idle")
    /\ Becomes(t, Opened(None, {"debug"}))
    /\ UNCHANGED <<conv, app, overlap>>

(* After the count of messages and the memories; posted once, never again. *)
Post(t) ==
    /\ At(t, "ready")
    /\ \/ Becomes(t, [turn[t] EXCEPT !.pc = "stream",
                                     !.thread = IF turn[t].known = None THEN t ELSE turn[t].known])
       \/ Becomes(t, Broken(turn[t]))
    /\ UNCHANGED <<conv, app, overlap>>

(***************************************************************************)
(* One line of Dify's stream, mapped when all before it has been relayed.  *)
(***************************************************************************)
Streaming(t) == At(t, "stream") /\ turn[t].out = <<>>

(* A chat app streams messages, an agent app agent_messages. *)
Text(t) ==
    /\ Streaming(t)
    /\ Becomes(t, [turn[t] EXCEPT !.out = <<IF app = "chat" THEN "message" ELSE "agent_message">>])
    /\ UNCHANGED <<conv, app, overlap>>

(* Mutant of Asks: the echo of a call asks for approval once more. *)
AsksTwice(rec, before) == "debug" \notin rec.marks

(* Only the frame that announces a call asks. *)
Asks(rec, before) == before /\ "debug" \notin rec.marks

(* The trace takes in both frames of a call, the echo as well.                *)
Heard(rec, before) ==
    [rec EXCEPT !.out = <<"thought">>,
                !.calls = IF before THEN @ + 1 ELSE @,
                !.echoes = IF before THEN @ ELSE @ + 1]

Filed(rec) == [rec EXCEPT !.tasks = @ + 1, !.out = <<"thought", "approval">>]

(* A gated tool's task is committed before the client hears of it; a tool    *)
(* that is disabled, or a database that fails, breaks the stream.            *)
Gate(rec) == {Filed(rec), Broken(rec)}

Thought(t) ==
    LET rec == turn[t] IN
    /\ Streaming(t)
    /\ \E before \in BOOLEAN :
         /\ IF before THEN rec.calls < MaxCalls ELSE rec.echoes < rec.calls
         /\ \/ Becomes(t, Heard(rec, before))
            \/ Asks(rec, before) /\ \E next \in Gate(Heard(rec, before)) : Becomes(t, next)
    /\ UNCHANGED <<conv, app, overlap>>

(* One row with the citations, steps and calls of the turn, or a failure that *)
(* is only logged.                                                           *)
Logged(rec) == {[rec EXCEPT !.log = log] : log \in {"kept", "lost"}}

(* Mutant of MessageEnd: the frame first, the run log when it has been read. *)
MessageEndFirst(t) ==
    /\ Streaming(t)
    /\ IF Is(t, "message_end")
         THEN Becomes(t, [turn[t] EXCEPT !.log = "kept"])
         ELSE Becomes(t, [turn[t] EXCEPT !.out = <<"message_end">>])
    /\ UNCHANGED <<conv, app, overlap>>

(* conversation.completed: the handlers are awaited, then the frame is due.  *)
MessageEnd(t) ==
    /\ Streaming(t)
    /\ turn[t].log = "none"
    /\ \E rec \in Logged(turn[t]) : Becomes(t, [rec EXCEPT !.out = <<"message_end">>])
    /\ UNCHANGED <<conv, app, overlap>>

ErrorEvent(t) ==
    /\ Streaming(t)
    /\ Becomes(t, [turn[t] EXCEPT !.out = <<"error">>])
    /\ UNCHANGED <<conv, app, overlap>>

(* The upstream ends, or is cut. *)
UpstreamEnds(t) ==
    /\ Streaming(t)
    /\ Becomes(t, Close(turn[t])) \/ Becomes(t, Broken(turn[t]))
    /\ UNCHANGED <<conv, app, overlap>>

(***************************************************************************)
(* The relay of one frame.                                                 *)
(***************************************************************************)
(* Mutant of Records: the id is left to the end of the turn.                 *)
RecordsAtEnd(rec) == Head(rec.out) = "message_end" /\ rec.known = None /\ "debug" \notin rec.marks

(* Only a message names the Dify conversation, and only the first is kept.   *)
Records(rec) == Head(rec.out) = "message" /\ rec.known = None /\ "debug" \notin rec.marks

(* Mutant of AfterFrame: the upstream frames after an error are relayed.     *)
AfterFrameGoesOn(rec) == rec

AfterFrame(rec) == IF "error" \in rec.marks THEN Close(rec) ELSE rec

(* The id is committed, then the frame goes out; or the router has noticed    *)
(* that the browser is gone, and the stream is given up; or the commit fails. *)
Relay(t) ==
    LET rec  == turn[t]
        kept == [rec EXCEPT !.known = IF Records(rec) THEN rec.thread ELSE @, !.out = Tail(@),
                            !.marks = IF Head(rec.out) \in {"message", "agent_message"}
                                        THEN @ \cup {"answered"} ELSE @]
    IN
    /\ At(t, "stream") /\ rec.out # <<>>
    /\ \/ /\ conv' = IF Records(rec) THEN [conv EXCEPT !.thread = rec.thread] ELSE conv
          /\ \/ Becomes(t, AfterFrame(Received(kept, Head(rec.out))))
             \/ ~Is(t, "reading") /\ Becomes(t, Close(kept))
       \/ Records(rec) /\ Becomes(t, Broken(rec)) /\ UNCHANGED conv
    /\ UNCHANGED <<app, overlap>>

(***************************************************************************)
(* The browser: it stops reading on abort, on a heartbeat missed, when it  *)
(* leaves the page.  And the server, which may die.                        *)
(***************************************************************************)
Leave(t) ==
    /\ Is(t, "reading")
    /\ Becomes(t, [turn[t] EXCEPT !.marks = @ \ {"reading"}])
    /\ UNCHANGED <<conv, app, overlap>>

Crash ==
    /\ turn' = [t \in Turn |-> IF At(t, "idle") THEN turn[t] ELSE Close(turn[t])]
    /\ UNCHANGED <<conv, app, overlap>>

TurnStep(t) ==
    \/ Prepare(t) \/ PrepareDebug(t) \/ Post(t) \/ Text(t) \/ Thought(t) \/ MessageEnd(t)
    \/ ErrorEvent(t) \/ UpstreamEnds(t) \/ Relay(t) \/ Leave(t)

Next == (\E t \in Turn : TurnStep(t)) \/ Delete \/ Restore \/ Crash

Spec == Init /\ [][Next]_vars

(***************************************************************************)
(* What must hold.                                                         *)
(***************************************************************************)
TypeOK ==
    /\ conv \in [deleted : BOOLEAN, thread : Thread]
    /\ app \in {"chat", "agent-chat"}
    /\ turn \in [Turn -> TurnRecord]
    /\ overlap \in BOOLEAN

(* A turn the client was told is complete has its run log, or the one        *)
(* attempt to write it has failed: the frame waits for conversation.completed. *)
RecordedBeforeShown ==
    \A t \in Turn : Is(t, "message_end") => turn[t].log # "none"

(* A gated call leaves at most one approval task, a debug turn none, and the *)
(* client hears of no task that is not there: "gating the echo would create *)
(* a second pending task" (dify_conversation_adapter.py:265).                *)
OneTaskPerCall ==
    \A t \in Turn :
        /\ turn[t].tasks <= turn[t].calls
        /\ Is(t, "debug") => turn[t].tasks = 0
        /\ Is(t, "approval") => turn[t].tasks > 0

(* The turns a listing of the conversation's messages shows. *)
Listed == {t \in Turn : conv.thread # None /\ turn[t].thread = conv.thread}

(* With one turn at a time, all that a chat app has answered is in the Dify  *)
(* conversation the row names, so its history shows it -- also when browsers *)
(* left, streams broke or the server died in between.                        *)
HistoryIsWhole ==
    app = "chat" /\ ~overlap =>
        \A t \in Turn : Is(t, "answered") /\ ~Is(t, "debug") => t \in Listed

(* "The error event ends the stream": the turn leaves nothing behind after,  *)
(* no task, no run log and no frame, even if Dify goes on.                   *)
ErrorIsLast ==
    [][\A t \in Turn : Is(t, "error") =>
          /\ turn'[t].tasks = turn[t].tasks
          /\ turn'[t].log = turn[t].log
          /\ turn'[t].marks \cap Shown = turn[t].marks \cap Shown]_vars

(* "A conversation with no dify_conversation_id has exchanged no turn yet"   *)
(* (conversation.py:284).                                                    *)
TurnsAreOnRecord ==
    \A t \in Turn : {"answered", "message_end"} \subseteq turn[t].marks /\ ~Is(t, "debug")
                        => conv.thread # None
=============================================================================
