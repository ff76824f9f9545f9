--------------------------- MODULE Streams_proofs ---------------------------
(* A stream and what it goes through: the turns of a conversation (Chat) and *)
(* the circuit breaker of the upstream they call (CircuitBreaker).           *)
EXTENDS Chat, CircuitBreaker, TLAPS

(***************************************************************************)
(*                                Chat                                     *)
(***************************************************************************)
(***************************************************************************)
(* What holds of one turn.                                                 *)
(***************************************************************************)
CountOK(rec) ==
    /\ rec.tasks <= rec.calls
    /\ "debug" \in rec.marks => rec.tasks = 0
    /\ "approval" \in rec.marks => rec.tasks > 0
    /\ "message_end" \in rec.marks => rec.log # "none"

Pending == {<<>>, <<"message">>, <<"agent_message">>, <<"thought">>, <<"approval">>,
            <<"thought", "approval">>, <<"message_end">>, <<"error">>}

OutOK(rec) ==
    /\ rec.out \in Pending
    /\ rec.out \in {<<"approval">>, <<"thought", "approval">>} => rec.tasks > 0
    /\ rec.out = <<"message_end">> => rec.log # "none"
    /\ rec.out # <<>> => rec.pc = "stream"
    /\ rec.out = <<"agent_message">> => app # "chat"

EndOK(rec) == "error" \in rec.marks => rec.pc = "closed"

TurnOK(rec) == rec \in TurnRecord /\ CountOK(rec) /\ OutOK(rec) /\ EndOK(rec)

\* What an error leaves as it is.
Same(old, new) ==
    "error" \in old.marks => /\ new.tasks = old.tasks
                             /\ new.log = old.log
                             /\ new.marks \cap Shown = old.marks \cap Shown

LEMMA PendingTyped == Pending \subseteq Seq(Frames)
<1>1. /\ <<>> \in Seq(Frames)
      /\ \A f \in Frames : <<f>> \in Seq(Frames)
      /\ \A f, g \in Frames : <<f, g>> \in Seq(Frames)
  OBVIOUS
<1>2. {"message", "agent_message", "thought", "approval", "message_end", "error"} \subseteq Frames
  BY DEF Frames
<1> HIDE DEF Frames
<1> QED BY <1>1, <1>2 DEF Pending

LEMMA CloseTyped ==
    ASSUME NEW r \in TurnRecord
    PROVE  Close(r) \in TurnRecord
<1>1. <<>> \in Seq(Frames)
  OBVIOUS
<1>2. r.marks \ {"reading"} \in SUBSET Marks
  BY DEF TurnRecord
<1> HIDE DEF Frames, Marks
<1> QED BY <1>1, <1>2 DEF Close, TurnRecord

LEMMA CloseOK ==
    ASSUME NEW r \in TurnRecord, CountOK(r)
    PROVE  TurnOK(Close(r))
<1>1. CountOK(Close(r))
  BY DEF CountOK, Close, TurnRecord
<1>2. OutOK(Close(r)) /\ EndOK(Close(r))
  BY DEF OutOK, EndOK, Close, TurnRecord, Pending
<1> QED BY <1>1, <1>2, CloseTyped DEF TurnOK

LEMMA ReceivedOK ==
    ASSUME NEW r \in TurnRecord, CountOK(r), NEW f \in Frames,
           f = "approval" => r.tasks > 0,
           f = "message_end" => r.log # "none"
    PROVE  /\ Received(r, f) \in TurnRecord /\ CountOK(Received(r, f))
           /\ \E m \in SUBSET Marks :
                /\ Received(r, f) = [r EXCEPT !.marks = m]
                /\ r.marks \subseteq m /\ m \subseteq r.marks \cup ({f} \cap (Shown \cup {"error"}))
<1> DEFINE m == r.marks \cup ({f} \cap (IF "reading" \in r.marks THEN Shown \cup {"error"}
                                                                 ELSE {"error"}))
<1>1. m \in SUBSET Marks
  BY DEF TurnRecord, Marks, Shown
<1>2. Received(r, f) = [r EXCEPT !.marks = m]
  BY DEF Received
<1>3. r.marks \subseteq m /\ m \subseteq r.marks \cup ({f} \cap (Shown \cup {"error"}))
  OBVIOUS
<1> HIDE DEF m
<1>4. [r EXCEPT !.marks = m] \in TurnRecord
  BY <1>1 DEF TurnRecord
<1>5. CountOK([r EXCEPT !.marks = m])
  BY <1>1, <1>3 DEF CountOK, TurnRecord, Shown
<1> QED BY <1>1, <1>2, <1>3, <1>4, <1>5

LEMMA BrokenOK ==
    ASSUME NEW r \in TurnRecord, CountOK(r)
    PROVE  TurnOK(Broken(r))
<1>1. Received(r, "error") \in TurnRecord /\ CountOK(Received(r, "error"))
  BY ReceivedOK DEF Frames
<1> QED BY <1>1, CloseOK DEF Broken

(***************************************************************************)
(* Each step of a turn keeps it so.                                        *)
(***************************************************************************)
\* The turn's next record.
Moves(t, rec) == Becomes(t, rec) /\ TurnOK(rec) /\ Same(turn[t], rec) /\ app' = app

LEMMA OpenedOK ==
    ASSUME NEW k \in Thread, NEW m \in SUBSET {"debug"}, ChatAssumption
    PROVE  TurnOK(Opened(k, m))
<1> DEFINE r == Opened(k, m)
<1>1. /\ r.pc = "ready" /\ r.out = <<>> /\ r.tasks = 0 /\ r.calls = 0
      /\ r.marks = m \cup {"reading"}
  BY DEF Opened, NoTurn
<1>2. r \in TurnRecord
  <2>1. <<>> \in Seq(Frames)
    BY PendingTyped DEF Pending
  <2>2. None \in Thread /\ m \cup {"reading"} \in SUBSET Marks /\ 0 \in 0 .. MaxCalls
    BY ChatAssumption DEF Thread, Marks
  <2>3. NoTurn \in TurnRecord
    BY <2>1, <2>2, ChatAssumption DEF NoTurn, TurnRecord, Marks
  <2> HIDE DEF r
  <2>4. r = [NoTurn EXCEPT !.pc = "ready", !.known = k, !.marks = m \cup {"reading"}]
    BY DEF r, Opened
  <2> QED BY <2>2, <2>3, <2>4 DEF TurnRecord
<1>3. CountOK(r) /\ OutOK(r) /\ EndOK(r)
  <2> HIDE DEF r
  <2> QED BY <1>1 DEF CountOK, OutOK, EndOK, Pending
<1> QED BY <1>2, <1>3 DEF TurnOK

LEMMA PrepareMoves ==
    ASSUME TypeOK, NEW t \in Turn, TurnOK(turn[t]), Prepare(t) \/ PrepareDebug(t)
    PROVE  \E rec : Moves(t, rec)
<1>1. turn[t].pc = "idle" /\ app' = app
  BY DEF Prepare, PrepareDebug, At
<1>2. \E k \in Thread, m \in SUBSET {"debug"} : Becomes(t, Opened(k, m))
  BY DEF Prepare, PrepareDebug, TypeOK, Thread
<1>3. "error" \notin turn[t].marks
  BY <1>1 DEF TurnOK, EndOK
<1> QED BY <1>1, <1>2, <1>3, OpenedOK, ChatAssumption DEF Moves, Same

LEMMA PostMoves ==
    ASSUME TypeOK, NEW t \in Turn, TurnOK(turn[t]), Post(t)
    PROVE  \E rec : Moves(t, rec)
<1> DEFINE th == IF turn[t].known = None THEN t ELSE turn[t].known
           r  == [turn[t] EXCEPT !.pc = "stream", !.thread = th]
<1>1. turn[t] \in TurnRecord /\ th \in Thread
  BY DEF TypeOK, TurnRecord, Thread
<1> HIDE DEF th
<1>2. TurnOK(r)
  <2>1. r \in TurnRecord
    BY <1>1 DEF TurnRecord
  <2>2. /\ r.pc = "stream" /\ r.out = turn[t].out /\ r.tasks = turn[t].tasks
        /\ r.calls = turn[t].calls /\ r.marks = turn[t].marks /\ r.log = turn[t].log
    BY <1>1 DEF TurnRecord
  <2>3. turn[t].pc = "ready"
    BY DEF Post, At
  <2> HIDE DEF r
  <2> QED BY <2>1, <2>2, <2>3 DEF TurnOK, CountOK, OutOK, EndOK
<1>3. TurnOK(Broken(turn[t]))
  BY <1>1, BrokenOK DEF TurnOK
<1>4. "error" \notin turn[t].marks
  BY DEF TurnOK, EndOK, Post, At
<1>5. (Becomes(t, r) \/ Becomes(t, Broken(turn[t]))) /\ app' = app
  BY DEF Post, th
<1> QED BY <1>2, <1>3, <1>4, <1>5 DEF Moves, Same

\* A line of the stream becomes frames to relay; counters and log may move with it.
LEMMA LineOK ==
    ASSUME NEW r \in TurnRecord, CountOK(r), EndOK(r), r.pc = "stream",
           NEW o \in Pending,
           o \in {<<"approval">>, <<"thought", "approval">>} => r.tasks > 0,
           o = <<"message_end">> => r.log # "none",
           o = <<"agent_message">> => app # "chat"
    PROVE  TurnOK([r EXCEPT !.out = o])
<1>1. o \in Seq(Frames)
  BY PendingTyped
<1> DEFINE s == [r EXCEPT !.out = o]
<1>2. s \in TurnRecord
  BY <1>1 DEF TurnRecord
<1>3. /\ s.pc = r.pc /\ s.out = o /\ s.tasks = r.tasks /\ s.calls = r.calls
      /\ s.marks = r.marks /\ s.log = r.log
  BY DEF TurnRecord
<1> HIDE DEF s
<1>4. CountOK(s) /\ OutOK(s) /\ EndOK(s)
  BY <1>3 DEF CountOK, OutOK, EndOK
<1> QED BY <1>2, <1>4 DEF TurnOK, s

LEMMA TextMoves ==
    ASSUME TypeOK, NEW t \in Turn, TurnOK(turn[t]), Text(t) \/ ErrorEvent(t)
    PROVE  \E rec : Moves(t, rec)
<1>1. turn[t].pc = "stream" /\ "error" \notin turn[t].marks /\ app' = app
  BY DEF TurnOK, EndOK, Text, ErrorEvent, Streaming, At
<1>2. PICK o \in {<<"message">>, <<"agent_message">>, <<"error">>} :
        Becomes(t, [turn[t] EXCEPT !.out = o]) /\ (o = <<"agent_message">> => app # "chat")
  BY DEF Text, ErrorEvent
<1>3. TurnOK([turn[t] EXCEPT !.out = o])
  BY <1>1, <1>2, LineOK DEF TurnOK, Pending
<1> QED BY <1>1, <1>2, <1>3 DEF Moves, Same

LEMMA MessageEndMoves ==
    ASSUME TypeOK, NEW t \in Turn, TurnOK(turn[t]), MessageEnd(t)
    PROVE  \E rec : Moves(t, rec)
<1>1. turn[t].pc = "stream" /\ "error" \notin turn[t].marks /\ app' = app
  BY DEF TurnOK, EndOK, MessageEnd, Streaming, At
<1>2. PICK log \in {"kept", "lost"} :
        Becomes(t, [turn[t] EXCEPT !.log = log, !.out = <<"message_end">>])
  BY DEF MessageEnd, Logged
<1> DEFINE r == [turn[t] EXCEPT !.log = log]
<1>3. r \in TurnRecord /\ r.log # "none" /\ r.pc = "stream"
  BY <1>1 DEF TurnOK, TurnRecord
<1>4. CountOK(r) /\ EndOK(r)
  BY <1>1 DEF TurnOK, TurnRecord, CountOK, EndOK
<1>5. [turn[t] EXCEPT !.log = log, !.out = <<"message_end">>] = [r EXCEPT !.out = <<"message_end">>]
  BY DEF TurnOK, TurnRecord
<1> HIDE DEF r
<1>6. TurnOK([r EXCEPT !.out = <<"message_end">>])
  BY <1>3, <1>4, LineOK DEF Pending
<1> QED BY <1>1, <1>2, <1>5, <1>6 DEF Moves, Same

LEMMA ThoughtMoves ==
    ASSUME TypeOK, NEW t \in Turn, TurnOK(turn[t]), Thought(t)
    PROVE  \E rec : Moves(t, rec)
<1> DEFINE rec == turn[t]
<1>1. rec.pc = "stream" /\ "error" \notin rec.marks /\ app' = app /\ rec \in TurnRecord
  BY DEF TurnOK, EndOK, Thought, Streaming, At
<1>2. PICK before \in BOOLEAN :
        /\ IF before THEN rec.calls < MaxCalls ELSE rec.echoes < rec.calls
        /\ \/ Becomes(t, Heard(rec, before))
           \/ Asks(rec, before) /\ \E next \in Gate(Heard(rec, before)) : Becomes(t, next)
  BY DEF Thought
<1> DEFINE heard == Heard(rec, before)
<1>0. \/ Becomes(t, heard)
      \/ Asks(rec, before) /\ Becomes(t, Filed(heard))
      \/ Becomes(t, Broken(heard))
  BY <1>2 DEF Gate
<1> DEFINE nc == IF before THEN rec.calls + 1 ELSE rec.calls
           ne == IF before THEN rec.echoes ELSE rec.echoes + 1
           h  == [rec EXCEPT !.calls = nc, !.echoes = ne]
           asked == [rec EXCEPT !.calls = nc, !.echoes = ne, !.tasks = rec.tasks + 1]
<1>3. /\ MaxCalls \in Nat /\ rec.calls \in 0 .. MaxCalls /\ rec.echoes \in 0 .. MaxCalls
      /\ rec.tasks \in 0 .. MaxCalls /\ rec.tasks <= rec.calls
  BY <1>1, ChatAssumption DEF TurnRecord, TurnOK, CountOK
<1>4. nc \in 0 .. MaxCalls /\ ne \in 0 .. MaxCalls /\ nc >= rec.tasks
      /\ (before => nc >= rec.tasks + 1 /\ rec.tasks + 1 \in 0 .. MaxCalls)
  BY <1>2, <1>3
<1> HIDE DEF nc, ne
<1>5. h \in TurnRecord /\ CountOK(h) /\ EndOK(h) /\ h.pc = "stream"
  <2>1. h \in TurnRecord
    BY <1>1, <1>4 DEF TurnRecord
  <2>2. /\ h.pc = rec.pc /\ h.tasks = rec.tasks /\ h.calls = nc
        /\ h.marks = rec.marks /\ h.log = rec.log
    BY <1>1 DEF TurnRecord
  <2> HIDE DEF h
  <2> QED BY <2>1, <2>2, <1>1, <1>4 DEF TurnOK, CountOK, EndOK
<1>6. TurnOK([h EXCEPT !.out = <<"thought">>])
  BY <1>5, LineOK DEF Pending
<1>7. ASSUME Asks(rec, before)
      PROVE  TurnOK([asked EXCEPT !.out = <<"thought", "approval">>])
  <2>0. before /\ "debug" \notin rec.marks
    BY <1>7 DEF Asks
  <2>1. asked \in TurnRecord
    BY <1>1, <1>4, <2>0 DEF TurnRecord
  <2>2. /\ asked.pc = rec.pc /\ asked.tasks = rec.tasks + 1 /\ asked.calls = nc
        /\ asked.marks = rec.marks /\ asked.log = rec.log
    BY <1>1 DEF TurnRecord
  <2> HIDE DEF asked
  <2>3. CountOK(asked) /\ EndOK(asked) /\ asked.pc = "stream" /\ asked.tasks > 0
    BY <2>0, <2>1, <2>2, <1>1, <1>3, <1>4 DEF TurnOK, CountOK, EndOK
  <2> QED BY <2>1, <2>3, LineOK DEF Pending
<1>8. /\ heard = [h EXCEPT !.out = <<"thought">>]
      /\ Filed(heard) = [asked EXCEPT !.out = <<"thought", "approval">>]
  BY <1>1 DEF TurnRecord, Heard, Filed, nc, ne
<1> HIDE DEF rec, heard, h, asked
<1>9. \/ Becomes(t, [h EXCEPT !.out = <<"thought">>])
      \/ Asks(rec, before) /\ Becomes(t, [asked EXCEPT !.out = <<"thought", "approval">>])
      \/ Becomes(t, Broken([h EXCEPT !.out = <<"thought">>]))
  BY <1>0, <1>8
<1>10. TurnOK(Broken([h EXCEPT !.out = <<"thought">>]))
  BY <1>6, BrokenOK DEF TurnOK
<1>11. \A new : Becomes(t, new) /\ TurnOK(new) => Moves(t, new)
  BY <1>1 DEF Moves, Same, rec
<1> QED BY <1>6, <1>7, <1>9, <1>10, <1>11

LEMMA EndMoves ==
    ASSUME TypeOK, NEW t \in Turn, TurnOK(turn[t]), UpstreamEnds(t)
    PROVE  \E rec : Moves(t, rec)
<1>1. "error" \notin turn[t].marks /\ app' = app
  BY DEF TurnOK, EndOK, UpstreamEnds, Streaming, At
<1>2. TurnOK(Close(turn[t])) /\ TurnOK(Broken(turn[t]))
  BY CloseOK, BrokenOK DEF TurnOK
<1> QED BY <1>1, <1>2 DEF UpstreamEnds, Moves, Same

LEMMA PendingTail ==
    ASSUME NEW o \in Pending, o # <<>>
    PROVE  /\ Head(o) \in Frames /\ Tail(o) \in Pending
           /\ Tail(o) # <<>> => o = <<"thought", "approval">> /\ Tail(o) = <<"approval">>
           /\ Head(o) = "approval" => o = <<"approval">>
           /\ Head(o) = "message_end" => o = <<"message_end">>
<1>1. \A f \in Frames : Head(<<f>>) = f /\ Tail(<<f>>) = <<>>
  OBVIOUS
<1>2. \A f, g \in Frames : Head(<<f, g>>) = f /\ Tail(<<f, g>>) = <<g>>
  OBVIOUS
<1>3. {"message", "agent_message", "thought", "approval", "message_end", "error"} = Frames
  BY DEF Frames
<1>4. \/ \E f \in Frames : o = <<f>>
      \/ o = <<"thought", "approval">>
  BY <1>3 DEF Pending
<1> HIDE DEF Frames
<1>5. CASE \E f \in Frames : o = <<f>>
  <2>1. PICK f \in Frames : o = <<f>>
    BY <1>5
  <2>2. Head(o) = f /\ Tail(o) = <<>>
    BY <1>1, <2>1
  <2> QED BY <2>1, <2>2 DEF Pending
<1>6. CASE o = <<"thought", "approval">>
  <2>1. Head(o) = "thought" /\ Tail(o) = <<"approval">>
    BY <1>2, <1>3, <1>6
  <2> QED BY <1>3, <1>6, <2>1 DEF Pending
<1> QED BY <1>4, <1>5, <1>6

LEMMA RelayMoves ==
    ASSUME TypeOK, NEW t \in Turn, TurnOK(turn[t]), Relay(t)
    PROVE  \E rec : Moves(t, rec)
<1> DEFINE rec == turn[t]
           o   == Tail(rec.out)
           k   == IF Records(rec) THEN rec.thread ELSE rec.known
           m   == IF Head(rec.out) \in {"message", "agent_message"}
                    THEN rec.marks \cup {"answered"} ELSE rec.marks
           kept == [rec EXCEPT !.known = k, !.out = o, !.marks = m]
<1>1. /\ rec.pc = "stream" /\ "error" \notin rec.marks /\ app' = app /\ rec \in TurnRecord
      /\ rec.out \in Pending /\ rec.out # <<>> /\ CountOK(rec) /\ OutOK(rec)
  BY DEF TurnOK, EndOK, OutOK, Relay, At
<1>2. /\ Head(rec.out) \in Frames /\ o \in Pending
      /\ Head(rec.out) = "approval" => rec.tasks > 0
      /\ Head(rec.out) = "message_end" => rec.log # "none"
      /\ o # <<>> => rec.tasks > 0 /\ o = <<"approval">>
  BY <1>1, PendingTail DEF OutOK
<1>3. k \in Thread /\ o \in Seq(Frames) /\ m \in SUBSET Marks /\ m \subseteq rec.marks \cup {"answered"}
      /\ rec.marks \subseteq m
  BY <1>1, <1>2, PendingTyped DEF TurnRecord, Marks
<1>4. kept = [rec EXCEPT !.known = IF Records(rec) THEN rec.thread ELSE @, !.out = Tail(@),
                         !.marks = IF Head(rec.out) \in {"message", "agent_message"}
                                     THEN @ \cup {"answered"} ELSE @]
  BY <1>1 DEF TurnRecord
<1>5. \/ Becomes(t, AfterFrame(Received(kept, Head(rec.out))))
      \/ Becomes(t, Close(kept))
      \/ Becomes(t, Broken(rec))
  BY <1>4 DEF Relay
<1> HIDE DEF k, o, m
<1>6. /\ kept \in TurnRecord /\ kept.out = o /\ kept.marks = m /\ kept.tasks = rec.tasks
      /\ kept.calls = rec.calls /\ kept.log = rec.log /\ kept.pc = "stream"
  BY <1>1, <1>3 DEF TurnRecord
<1> HIDE DEF kept
<1>7. CountOK(kept) /\ "error" \notin kept.marks
  BY <1>1, <1>3, <1>6 DEF CountOK
<1>8. TurnOK(Close(kept)) /\ TurnOK(Broken(rec))
  BY <1>1, <1>6, <1>7, CloseOK, BrokenOK
<1>9. TurnOK(AfterFrame(Received(kept, Head(rec.out))))
  <2> DEFINE got == Received(kept, Head(rec.out))
  <2>1. got \in TurnRecord /\ CountOK(got)
    BY <1>2, <1>6, <1>7, ReceivedOK
  <2>2. got.out = o /\ got.tasks = rec.tasks /\ got.log = rec.log /\ got.pc = "stream"
    BY <1>6 DEF Received, TurnRecord
  <2> HIDE DEF got
  <2>3. ASSUME "error" \in got.marks PROVE TurnOK(AfterFrame(got))
    BY <2>1, <2>3, CloseOK DEF AfterFrame
  <2>4. ASSUME "error" \notin got.marks PROVE TurnOK(AfterFrame(got))
    <3>1. <<"approval">> # <<"message_end">> /\ <<"approval">> # <<"agent_message">>
          /\ <<>> # <<"message_end">> /\ <<>> # <<"agent_message">>
          /\ <<>> # <<"approval">> /\ <<>> # <<"thought", "approval">>
      OBVIOUS
    <3>2. OutOK(got) /\ EndOK(got)
      BY <1>2, <2>1, <2>2, <2>4, <3>1 DEF OutOK, EndOK
    <3> QED BY <2>1, <2>4, <3>2 DEF AfterFrame, TurnOK
  <2> QED BY <2>3, <2>4 DEF got
<1>10. \A new : Becomes(t, new) /\ TurnOK(new) => Moves(t, new)
  BY <1>1 DEF Moves, Same
<1> QED BY <1>5, <1>8, <1>9, <1>10

LEMMA LeaveMoves ==
    ASSUME TypeOK, NEW t \in Turn, TurnOK(turn[t]), Leave(t)
    PROVE  \E rec : Moves(t, rec)
<1> DEFINE r == [turn[t] EXCEPT !.marks = turn[t].marks \ {"reading"}]
<1>1. turn[t] \in TurnRecord /\ CountOK(turn[t]) /\ OutOK(turn[t]) /\ EndOK(turn[t])
  BY DEF TurnOK
<1>2. r \in TurnRecord
  BY <1>1 DEF TurnRecord
<1>3. /\ r.pc = turn[t].pc /\ r.out = turn[t].out /\ r.tasks = turn[t].tasks
      /\ r.calls = turn[t].calls /\ r.log = turn[t].log
      /\ r.marks = turn[t].marks \ {"reading"}
  BY <1>1 DEF TurnRecord
<1>4. Becomes(t, r) /\ app' = app
  BY DEF Leave
<1> HIDE DEF r
<1>5. CountOK(r) /\ OutOK(r) /\ EndOK(r)
  BY <1>1, <1>3 DEF CountOK, OutOK, EndOK
<1>6. Same(turn[t], r)
  BY <1>3 DEF Same, Shown
<1> QED BY <1>2, <1>4, <1>5, <1>6 DEF Moves, TurnOK

LEMMA StepMoves ==
    ASSUME TypeOK, NEW t \in Turn, TurnOK(turn[t]), TurnStep(t)
    PROVE  \E rec : Moves(t, rec)
BY PrepareMoves, PostMoves, TextMoves, ThoughtMoves, MessageEndMoves, EndMoves,
   RelayMoves, LeaveMoves DEF TurnStep

(***************************************************************************)
(* The invariant of all turns, and the properties of one.                  *)
(***************************************************************************)
TurnsOK == TypeOK /\ \A t \in Turn : TurnOK(turn[t])

LEMMA NoTurnOK == TurnOK(NoTurn)
<1>1. <<>> \in Seq(Frames)
  BY PendingTyped DEF Pending
<1>2. NoTurn \in TurnRecord
  BY <1>1, ChatAssumption DEF NoTurn, TurnRecord, Thread, Marks
<1>3. CountOK(NoTurn) /\ OutOK(NoTurn) /\ EndOK(NoTurn)
  BY DEF NoTurn, CountOK, OutOK, EndOK, Pending
<1> QED BY <1>2, <1>3 DEF TurnOK

LEMMA ConvTyped ==
    ASSUME TypeOK, [Next]_vars
    PROVE  conv' \in [deleted : BOOLEAN, thread : Thread] /\ overlap' \in BOOLEAN /\ app' = app
<1>1. CASE Delete
  BY <1>1 DEF Delete, TypeOK
<1>2. CASE Restore
  BY <1>2 DEF Restore, TypeOK
<1>3. CASE Crash
  BY <1>3 DEF Crash, TypeOK
<1>4. ASSUME NEW t \in Turn, TurnStep(t)
      PROVE  conv' \in [deleted : BOOLEAN, thread : Thread] /\ overlap' \in BOOLEAN /\ app' = app
  <2>1. CASE Prepare(t)
    BY <2>1 DEF Prepare, TypeOK
  <2>2. CASE Relay(t)
    <3>1. turn[t].thread \in Thread
      BY DEF TypeOK, TurnRecord
    <3>2. conv' = conv \/ conv' = [conv EXCEPT !.thread = turn[t].thread]
      BY <2>2 DEF Relay
    <3>3. overlap' = overlap /\ app' = app
      BY <2>2 DEF Relay
    <3> QED BY <3>1, <3>2, <3>3 DEF TypeOK
  <2>3. CASE ~Prepare(t) /\ ~Relay(t)
    BY <1>4, <2>3 DEF TurnStep, PrepareDebug, Post, Text, Thought, MessageEnd, ErrorEvent,
                      UpstreamEnds, Leave, TypeOK
  <2> QED BY <2>1, <2>2, <2>3
<1>5. CASE UNCHANGED vars
  BY <1>5 DEF vars, TypeOK
<1> QED BY <1>1, <1>2, <1>3, <1>4, <1>5 DEF Next

\* What one step does to the turns.
TurnsMove ==
    \/ \E t \in Turn : \E rec : Moves(t, rec)
    \/ turn' = [t \in Turn |-> IF At(t, "idle") THEN turn[t] ELSE Close(turn[t])]
    \/ turn' = turn

LEMMA NextMoves ==
    ASSUME TurnsOK, [Next]_vars
    PROVE  TurnsMove /\ app' = app
<1>1. \A t \in Turn : TurnStep(t) => \E rec : Moves(t, rec)
  BY StepMoves DEF TurnsOK
<1>2. app' = app
  BY ConvTyped DEF TurnsOK
<1> QED BY <1>1, <1>2 DEF Next, TurnsMove, Delete, Restore, Crash, vars

LEMMA TurnsMoveOK ==
    ASSUME TurnsOK, TurnsMove, app' = app
    PROVE  /\ turn' \in [Turn -> TurnRecord]
           /\ \A t \in Turn : TurnOK(turn[t])' /\ Same(turn[t], turn'[t])
<1>0. turn \in [Turn -> TurnRecord] /\ \A u \in Turn : TurnOK(turn[u])
  BY DEF TurnsOK, TypeOK
<1>1. ASSUME NEW r, TurnOK(r), NEW u \in Turn, turn'[u] = r
      PROVE  TurnOK(turn[u])'
  BY <1>1 DEF TurnOK, OutOK, CountOK, EndOK
<1>2. CASE \E t \in Turn : \E rec : Moves(t, rec)
  <2>0. PICK t \in Turn : \E rec : Moves(t, rec)
    BY <1>2
  <2>1. PICK rec : Moves(t, rec)
    BY <2>0
  <2>2. turn' = [turn EXCEPT ![t] = rec] /\ TurnOK(rec) /\ rec \in TurnRecord /\ Same(turn[t], rec)
    BY <2>1 DEF Moves, Becomes, TurnOK
  <2>3. \A u \in Turn : TurnOK(turn'[u]) /\ Same(turn[u], turn'[u])
    BY <1>0, <2>2 DEF Same
  <2>4. \A u \in Turn : TurnOK(turn[u])'
    BY <2>3 DEF TurnOK, OutOK, CountOK, EndOK
  <2> QED BY <1>0, <2>2, <2>3, <2>4
<1>3. CASE turn' = [t \in Turn |-> IF At(t, "idle") THEN turn[t] ELSE Close(turn[t])]
  <2>1. \A u \in Turn : TurnOK(Close(turn[u]))
    BY <1>0, CloseOK DEF TurnOK
  <2>2. \A u \in Turn : Same(turn[u], Close(turn[u])) /\ Same(turn[u], turn[u])
    BY <1>0 DEF Same, Close, TurnRecord, Shown
  <2>3. \A u \in Turn : TurnOK(turn'[u]) /\ Same(turn[u], turn'[u])
    BY <1>0, <1>3, <2>1, <2>2
  <2>4. \A u \in Turn : TurnOK(turn[u])'
    BY <2>3 DEF TurnOK, OutOK, CountOK, EndOK
  <2> QED BY <1>0, <1>3, <2>1, <2>3, <2>4 DEF TurnOK
<1>4. CASE turn' = turn
  BY <1>0, <1>4 DEF TurnOK, OutOK, CountOK, EndOK, Same
<1> QED BY <1>2, <1>3, <1>4 DEF TurnsMove

LEMMA TurnsInit == Init => TurnsOK
<1> SUFFICES ASSUME Init PROVE TurnsOK
  OBVIOUS
<1>1. TurnOK(NoTurn)
  BY NoTurnOK
<1>2. turn = [t \in Turn |-> NoTurn]
  BY DEF Init
<1>3. TypeOK
  BY <1>1, <1>2, ChatAssumption DEF Init, TypeOK, TurnOK, Thread
<1> QED BY <1>1, <1>2, <1>3 DEF TurnsOK

LEMMA TurnsStep == TurnsOK /\ [Next]_vars => TurnsOK'
<1> SUFFICES ASSUME TurnsOK, [Next]_vars PROVE TurnsOK'
  OBVIOUS
<1>1. /\ conv' \in [deleted : BOOLEAN, thread : Thread] /\ overlap' \in BOOLEAN /\ app' = app
  BY ConvTyped DEF TurnsOK
<1>2. turn' \in [Turn -> TurnRecord] /\ \A t \in Turn : TurnOK(turn[t])'
  BY NextMoves, TurnsMoveOK
<1> QED BY <1>1, <1>2 DEF TurnsOK, TypeOK

\* Every variable keeps its type: for any number of turns and tool calls.
THEOREM ChatTypeCorrect == Spec => []TypeOK
<1>1. TurnsOK => TypeOK
  BY DEF TurnsOK
<1> QED BY TurnsInit, TurnsStep, <1>1, PTL DEF Spec

\* A turn the browser shows as complete has had its run log written, or the
\* attempt has failed, however frames, crashes and departures interleave.
THEOREM RunLogsComeFirst == Spec => []RecordedBeforeShown
<1>1. TurnsOK => RecordedBeforeShown
  BY DEF TurnsOK, TurnOK, CountOK, RecordedBeforeShown, Is
<1> QED BY TurnsInit, TurnsStep, <1>1, PTL DEF Spec

\* No call leaves two approval tasks, no debug turn leaves any, and no browser
\* shows an approval without its task.
THEOREM CallsAskOnce == Spec => []OneTaskPerCall
<1>1. TurnsOK => OneTaskPerCall
  BY DEF TurnsOK, TurnOK, CountOK, OneTaskPerCall, Is
<1> QED BY TurnsInit, TurnsStep, <1>1, PTL DEF Spec

\* After the error frame the turn adds no task, no run log and nothing shown.
THEOREM ErrorsEndTurns == Spec => ErrorIsLast
<1>1. TurnsOK /\ [Next]_vars =>
        [\A t \in Turn : Is(t, "error") =>
            /\ turn'[t].tasks = turn[t].tasks
            /\ turn'[t].log = turn[t].log
            /\ turn'[t].marks \cap Shown = turn[t].marks \cap Shown]_vars
  BY NextMoves, TurnsMoveOK DEF Same, Is
<1> QED BY TurnsInit, TurnsStep, <1>1, PTL DEF Spec, ErrorIsLast

(***************************************************************************)
(* One turn at a time in a chat app.                                       *)
(***************************************************************************)
HistoryOK(rec, thread) ==
    "debug" \notin rec.marks =>
        /\ rec.pc \in {"ready", "stream"} => rec.known = thread
        /\ rec.pc = "stream" => /\ rec.thread # None
                                /\ rec.known # None => rec.thread = rec.known
        /\ "answered" \in rec.marks => rec.thread = thread /\ thread # None

OneBusy == \A t, u \in Busy : t = u

Histories ==
    app = "chat" /\ ~overlap =>
        OneBusy /\ \A t \in Turn : HistoryOK(turn[t], conv.thread)

\* A step of turn t that leaves it as busy as it was, or not busy.
Slows(t, rec) ==
    /\ Becomes(t, rec)
    /\ rec.pc \notin Closed /\ "debug" \notin rec.marks
         => turn[t].pc \notin Closed /\ "debug" \notin turn[t].marks

LEMMA SlowsKeepsOne ==
    ASSUME TurnsOK, OneBusy, NEW t \in Turn, NEW rec, Slows(t, rec)
    PROVE  OneBusy'
<1>1. \A u \in Turn : turn'[u] = IF u = t THEN rec ELSE turn[u]
  BY DEF Slows, Becomes, TurnsOK, TypeOK
<1>2. Busy' \subseteq Busy
  BY <1>1 DEF Slows, Busy, Is
<1> QED BY <1>2 DEF OneBusy

\* The conversation's id stays, and the turn's record answers for itself.
LEMMA KeepsHistory ==
    ASSUME TurnsOK, Histories, NEW t \in Turn, NEW rec, Slows(t, rec),
           UNCHANGED <<conv, app, overlap>>,
           HistoryOK(turn[t], conv.thread) => HistoryOK(rec, conv.thread)
    PROVE  Histories'
<1> SUFFICES ASSUME app = "chat", ~overlap
             PROVE  (OneBusy /\ \A u \in Turn : HistoryOK(turn[u], conv.thread))'
  BY DEF Histories
<1>1. OneBusy /\ \A u \in Turn : HistoryOK(turn[u], conv.thread)
  BY DEF Histories
<1>2. \A u \in Turn : turn'[u] = IF u = t THEN rec ELSE turn[u]
  BY DEF Slows, Becomes, TurnsOK, TypeOK
<1>3. \A u \in Turn : HistoryOK(turn'[u], conv.thread)
  BY <1>1, <1>2
<1> QED BY <1>1, <1>3, SlowsKeepsOne DEF HistoryOK

LEMMA CloseHistory ==
    ASSUME NEW r \in TurnRecord, NEW th, HistoryOK(r, th)
    PROVE  HistoryOK(Close(r), th) /\ HistoryOK(Broken(r), th)
<1>1. ASSUME NEW s \in TurnRecord,
             "debug" \in r.marks => "debug" \in s.marks,
             "answered" \in s.marks => "answered" \in r.marks, s.thread = r.thread
      PROVE  HistoryOK(Close(s), th)
  BY <1>1 DEF HistoryOK, Close, TurnRecord
<1>2. Received(r, "error") \in TurnRecord
  BY DEF Received, TurnRecord, Marks, Shown
<1>3. /\ Received(r, "error").thread = r.thread
      /\ "debug" \in r.marks => "debug" \in Received(r, "error").marks
      /\ "answered" \in Received(r, "error").marks => "answered" \in r.marks
  BY DEF Received, TurnRecord, Shown
<1> QED BY <1>1, <1>2, <1>3 DEF Broken

LEMMA Closes ==
    ASSUME TurnsOK, NEW t \in Turn, NEW rec, rec.pc = "closed", Becomes(t, rec)
    PROVE  Slows(t, rec)
BY DEF Slows, Closed

LEMMA ClosedPc == \A r \in TurnRecord : Close(r).pc = "closed" /\ Broken(r).pc = "closed"
<1>1. \A r \in TurnRecord : Close(r).pc = "closed"
  BY DEF Close, TurnRecord
<1>2. \A r \in TurnRecord : Received(r, "error") \in TurnRecord
  BY DEF Received, TurnRecord, Marks, Shown
<1> QED BY <1>1, <1>2 DEF Broken

LEMMA PrepareHistory ==
    ASSUME TurnsOK, Histories, NEW t \in Turn, Prepare(t)
    PROVE  Histories'
<1> SUFFICES ASSUME app = "chat", ~overlap'
             PROVE  (OneBusy /\ \A u \in Turn : HistoryOK(turn[u], conv.thread))'
  BY DEF Histories, Prepare
<1>1. ~overlap /\ Busy = {} /\ conv' = conv
  BY DEF Prepare, TurnsOK, TypeOK
<1>2. \A u \in Turn : HistoryOK(turn[u], conv.thread)
  BY <1>1 DEF Histories
<1>3. \A u \in Turn : turn'[u] = IF u = t THEN Opened(conv.thread, {}) ELSE turn[u]
  BY DEF Prepare, Becomes, TurnsOK, TypeOK
<1>4. HistoryOK(Opened(conv.thread, {}), conv.thread)
  BY DEF HistoryOK, Opened, NoTurn
<1>5. Busy' \subseteq {t}
  BY <1>1, <1>3 DEF Busy, Is
<1>6. \A u \in Turn : HistoryOK(turn'[u], conv.thread)
  BY <1>2, <1>3, <1>4
<1> QED BY <1>1, <1>5, <1>6 DEF OneBusy, HistoryOK

LEMMA DebugHistory ==
    ASSUME TurnsOK, Histories, NEW t \in Turn, PrepareDebug(t)
    PROVE  Histories'
<1> DEFINE r == Opened(None, {"debug"})
<1>1. "debug" \in r.marks
  BY DEF Opened, NoTurn
<1>2. Becomes(t, r) /\ UNCHANGED <<conv, app, overlap>>
  BY DEF PrepareDebug
<1> HIDE DEF r
<1> QED BY <1>1, <1>2, KeepsHistory DEF Slows, HistoryOK

LEMMA PostHistory ==
    ASSUME TurnsOK, Histories, NEW t \in Turn, Post(t)
    PROVE  Histories'
<1> DEFINE th == IF turn[t].known = None THEN t ELSE turn[t].known
           r  == [turn[t] EXCEPT !.pc = "stream", !.thread = th]
<1>1. turn[t] \in TurnRecord /\ turn[t].pc = "ready" /\ UNCHANGED <<conv, app, overlap>>
  BY DEF TurnsOK, TypeOK, Post, At
<1>2. CASE Becomes(t, r)
  <2>1. th # None /\ (turn[t].known # None => th = turn[t].known)
    BY ChatAssumption
  <2>2. /\ r.pc = "stream" /\ r.thread = th /\ r.known = turn[t].known /\ r.marks = turn[t].marks
    BY <1>1 DEF TurnRecord
  <2> HIDE DEF th, r
  <2>3. Slows(t, r)
    BY <1>1, <1>2, <2>2 DEF Slows, Closed
  <2>4. HistoryOK(turn[t], conv.thread) => HistoryOK(r, conv.thread)
    BY <1>1, <2>1, <2>2 DEF HistoryOK
  <2> QED BY <1>1, <2>3, <2>4, KeepsHistory
<1>3. CASE Becomes(t, Broken(turn[t]))
  BY <1>1, <1>3, ClosedPc, Closes, CloseHistory, KeepsHistory
<1> QED BY <1>2, <1>3 DEF Post

\* Steps that touch nothing the history is about.
LEMMA OtherHistory ==
    ASSUME TurnsOK, Histories, NEW t \in Turn, NEW rec, Becomes(t, rec),
           UNCHANGED <<conv, app, overlap>>,
           rec.pc = turn[t].pc, rec.known = turn[t].known, rec.thread = turn[t].thread,
           "debug" \in rec.marks <=> "debug" \in turn[t].marks,
           "answered" \in rec.marks <=> "answered" \in turn[t].marks
    PROVE  Histories'
<1>1. Slows(t, rec)
  BY DEF Slows
<1>2. HistoryOK(turn[t], conv.thread) => HistoryOK(rec, conv.thread)
  BY DEF HistoryOK
<1> QED BY <1>1, <1>2, KeepsHistory

LEMMA ClosingHistory ==
    ASSUME TurnsOK, Histories, NEW t \in Turn, NEW r \in TurnRecord,
           UNCHANGED <<conv, app, overlap>>,
           Becomes(t, Close(r)) \/ Becomes(t, Broken(r)),
           HistoryOK(turn[t], conv.thread) => HistoryOK(r, conv.thread)
    PROVE  Histories'
<1>1. PICK rec \in {Close(r), Broken(r)} : Becomes(t, rec)
  OBVIOUS
<1>2. rec.pc = "closed"
  BY ClosedPc
<1>3. HistoryOK(turn[t], conv.thread) => HistoryOK(rec, conv.thread)
  BY CloseHistory
<1> QED BY <1>1, <1>2, <1>3, Closes, KeepsHistory

LEMMA LineHistory ==
    ASSUME TurnsOK, Histories, NEW t \in Turn,
           Text(t) \/ ErrorEvent(t) \/ MessageEnd(t) \/ UpstreamEnds(t) \/ Leave(t)
    PROVE  Histories'
<1>1. turn[t] \in TurnRecord /\ UNCHANGED <<conv, app, overlap>>
  BY DEF TurnsOK, TypeOK, Text, ErrorEvent, MessageEnd, UpstreamEnds, Leave
<1>2. ASSUME NEW o, Becomes(t, [turn[t] EXCEPT !.out = o])
      PROVE  Histories'
  <2>1. LET s == [turn[t] EXCEPT !.out = o]
        IN  /\ s.pc = turn[t].pc /\ s.known = turn[t].known /\ s.thread = turn[t].thread
            /\ s.marks = turn[t].marks
    BY <1>1 DEF TurnRecord
  <2> QED BY <1>1, <1>2, <2>1, OtherHistory
<1>3. ASSUME MessageEnd(t)
      PROVE  Histories'
  <2>1. PICK log \in {"kept", "lost"} :
          Becomes(t, [turn[t] EXCEPT !.log = log, !.out = <<"message_end">>])
    BY <1>3 DEF MessageEnd, Logged
  <2>2. LET s == [turn[t] EXCEPT !.log = log, !.out = <<"message_end">>]
        IN  /\ s.pc = turn[t].pc /\ s.known = turn[t].known /\ s.thread = turn[t].thread
            /\ s.marks = turn[t].marks
    BY <1>1 DEF TurnRecord
  <2> QED BY <1>1, <2>1, <2>2, OtherHistory
<1>4. ASSUME Leave(t)
      PROVE  Histories'
  <2>1. Becomes(t, [turn[t] EXCEPT !.marks = turn[t].marks \ {"reading"}])
    BY <1>4 DEF Leave
  <2>2. LET s == [turn[t] EXCEPT !.marks = turn[t].marks \ {"reading"}]
        IN  /\ s.pc = turn[t].pc /\ s.known = turn[t].known /\ s.thread = turn[t].thread
            /\ s.marks = turn[t].marks \ {"reading"}
    BY <1>1 DEF TurnRecord
  <2>3. LET s == [turn[t] EXCEPT !.marks = turn[t].marks \ {"reading"}]
        IN  /\ "debug" \in s.marks <=> "debug" \in turn[t].marks
            /\ "answered" \in s.marks <=> "answered" \in turn[t].marks
    BY <2>2
  <2> QED BY <1>1, <2>1, <2>2, <2>3, OtherHistory
<1>5. ASSUME UpstreamEnds(t)
      PROVE  Histories'
  BY <1>1, <1>5, ClosingHistory DEF UpstreamEnds
<1> QED BY <1>2, <1>3, <1>4, <1>5 DEF Text, ErrorEvent

LEMMA ThoughtHistory ==
    ASSUME TurnsOK, Histories, NEW t \in Turn, Thought(t)
    PROVE  Histories'
<1>1. turn[t] \in TurnRecord /\ UNCHANGED <<conv, app, overlap>>
  BY DEF TurnsOK, TypeOK, Thought
<1>2. PICK before \in BOOLEAN :
        /\ IF before THEN turn[t].calls < MaxCalls ELSE turn[t].echoes < turn[t].calls
        /\ \/ Becomes(t, Heard(turn[t], before))
           \/ \E next \in Gate(Heard(turn[t], before)) : Becomes(t, next)
  BY DEF Thought
<1> DEFINE heard == Heard(turn[t], before)
           asked == Filed(heard)
<1>3. Becomes(t, heard) \/ Becomes(t, asked) \/ Becomes(t, Broken(heard))
  BY <1>2 DEF Gate
<1>4. /\ heard.pc = turn[t].pc /\ heard.known = turn[t].known
      /\ heard.thread = turn[t].thread /\ heard.marks = turn[t].marks
      /\ asked.pc = turn[t].pc /\ asked.known = turn[t].known
      /\ asked.thread = turn[t].thread /\ asked.marks = turn[t].marks
  BY <1>1 DEF TurnRecord, Heard, Filed
<1>5. heard \in TurnRecord
  <2>1. /\ turn[t].calls \in 0 .. MaxCalls /\ turn[t].echoes \in 0 .. MaxCalls
        /\ MaxCalls \in Nat /\ IF before THEN turn[t].calls < MaxCalls ELSE turn[t].echoes < turn[t].calls
    BY <1>1, <1>2, ChatAssumption DEF TurnRecord
  <2> DEFINE nc == IF before THEN turn[t].calls + 1 ELSE turn[t].calls
             ne == IF before THEN turn[t].echoes ELSE turn[t].echoes + 1
  <2>2. nc \in 0 .. MaxCalls /\ ne \in 0 .. MaxCalls
    BY <2>1
  <2>3. heard = [turn[t] EXCEPT !.out = <<"thought">>, !.calls = nc, !.echoes = ne]
    BY <1>1 DEF TurnRecord, Heard
  <2>4. <<"thought">> \in Seq(Frames)
    BY PendingTyped DEF Pending
  <2> HIDE DEF nc, ne, heard
  <2> QED BY <1>1, <2>2, <2>3, <2>4 DEF TurnRecord
<1> HIDE DEF heard, asked
<1>6. HistoryOK(turn[t], conv.thread) => HistoryOK(heard, conv.thread)
  BY <1>4 DEF HistoryOK
<1> QED BY <1>1, <1>3, <1>4, <1>5, <1>6, OtherHistory, ClosingHistory

LEMMA RelayHistory ==
    ASSUME TurnsOK, Histories, NEW t \in Turn, Relay(t)
    PROVE  Histories'
<1> SUFFICES ASSUME app = "chat", ~overlap
             PROVE  (OneBusy /\ \A u \in Turn : HistoryOK(turn[u], conv.thread))'
  BY DEF Histories, Relay
<1> DEFINE rec == turn[t]
           k   == IF Records(rec) THEN rec.thread ELSE rec.known
           m   == IF Head(rec.out) \in {"message", "agent_message"}
                    THEN rec.marks \cup {"answered"} ELSE rec.marks
           o   == Tail(rec.out)
           kept == [rec EXCEPT !.known = k, !.out = o, !.marks = m]
<1>1. OneBusy /\ \A u \in Turn : HistoryOK(turn[u], conv.thread)
  BY DEF Histories
<1>2. /\ rec \in TurnRecord /\ rec.pc = "stream" /\ rec.out # <<>> /\ rec.out \in Pending
      /\ rec.out # <<"agent_message">> /\ conv.thread \in Thread
  BY DEF TurnsOK, TypeOK, TurnOK, OutOK, Relay, At
<1>3. Head(rec.out) \in Frames \ {"agent_message"} /\ o \in Seq(Frames)
  <2>1. Head(rec.out) \in Frames /\ o \in Pending
    BY <1>2, PendingTail
  <2>2. Head(rec.out) = "agent_message" => rec.out = <<"agent_message">>
    BY <1>2 DEF Pending
  <2> QED BY <1>2, <2>1, <2>2, PendingTyped
<1>4. kept = [rec EXCEPT !.known = IF Records(rec) THEN rec.thread ELSE @, !.out = Tail(@),
                         !.marks = IF Head(rec.out) \in {"message", "agent_message"}
                                     THEN @ \cup {"answered"} ELSE @]
  BY <1>2 DEF TurnRecord
<1>5. \/ /\ conv' = IF Records(rec) THEN [conv EXCEPT !.thread = rec.thread] ELSE conv
         /\ Becomes(t, AfterFrame(Received(kept, Head(rec.out)))) \/ Becomes(t, Close(kept))
      \/ Becomes(t, Broken(rec)) /\ UNCHANGED conv
  BY <1>4 DEF Relay
<1> HIDE DEF k, o, m
<1>6. k \in Thread /\ m \in SUBSET Marks
  BY <1>2 DEF k, m, TurnRecord, Marks
<1>7. /\ kept \in TurnRecord /\ kept.pc = "stream" /\ kept.known = k
      /\ kept.thread = rec.thread /\ kept.marks = m
  BY <1>2, <1>3, <1>6 DEF TurnRecord
<1>8. CASE Becomes(t, Broken(rec)) /\ UNCHANGED conv
  BY <1>2, <1>8, ClosingHistory DEF Relay, Histories
<1>9. CASE /\ conv' = IF Records(rec) THEN [conv EXCEPT !.thread = rec.thread] ELSE conv
           /\ Becomes(t, AfterFrame(Received(kept, Head(rec.out)))) \/ Becomes(t, Close(kept))
  <2>1. conv'.thread = IF Records(rec) THEN rec.thread ELSE conv.thread
    BY <1>9 DEF TurnsOK, TypeOK
  <2>2. HistoryOK(kept, conv'.thread)
    <3>1. CASE "debug" \in m
      BY <3>1, <1>7 DEF HistoryOK
    <3>2. CASE "debug" \notin m
      <4>1. "debug" \notin rec.marks
        BY <3>2 DEF m
      <4>2. /\ rec.known = conv.thread /\ rec.thread # None
            /\ rec.known # None => rec.thread = rec.known
            /\ "answered" \in rec.marks => rec.thread = conv.thread /\ conv.thread # None
        BY <1>1, <1>2, <4>1 DEF HistoryOK
      <4>3. k = conv'.thread /\ (k # None => rec.thread = k)
        BY <2>1, <4>2 DEF k
      <4>4. "answered" \in m => k # None
        BY <1>3, <4>1, <4>2 DEF k, m, Records
      <4> HIDE DEF rec, kept
      <4> QED BY <1>7, <4>2, <4>3, <4>4 DEF HistoryOK
    <3> QED BY <3>1, <3>2
  <2> HIDE DEF kept
  <2>3. PICK new : /\ Becomes(t, new) /\ Slows(t, new)
                   /\ HistoryOK(new, conv'.thread)
    <3>1. CASE Becomes(t, Close(kept))
      BY <1>7, <2>2, <3>1, CloseHistory, ClosedPc, Closes
    <3>2. CASE Becomes(t, AfterFrame(Received(kept, Head(rec.out))))
      <4> DEFINE got == Received(kept, Head(rec.out))
      <4>1. /\ got \in TurnRecord /\ got.pc = "stream" /\ got.known = k /\ got.thread = rec.thread
            /\ kept.marks \subseteq got.marks
            /\ got.marks \subseteq kept.marks \cup Shown \cup {"error"}
        BY <1>3, <1>7 DEF Received, TurnRecord, Marks, Shown
      <4> HIDE DEF got
      <4>2. "debug" \in got.marks <=> "debug" \in m
        BY <1>7, <4>1 DEF Shown
      <4>3. "answered" \in got.marks <=> "answered" \in m
        BY <1>7, <4>1 DEF Shown
      <4>4. HistoryOK(got, conv'.thread)
        BY <1>7, <2>2, <4>1, <4>2, <4>3 DEF HistoryOK
      <4>5. Becomes(t, IF "error" \in got.marks THEN Close(got) ELSE got)
        BY <3>2 DEF AfterFrame, got
      <4>6. CASE "error" \in got.marks
        BY <4>1, <4>4, <4>5, <4>6, CloseHistory, ClosedPc, Closes
      <4>7. CASE "error" \notin got.marks
        <5>1. "debug" \in turn[t].marks <=> "debug" \in m
          BY DEF m
        <5>2. Slows(t, got)
          BY <1>2, <4>1, <4>2, <4>5, <4>7, <5>1 DEF Slows, Closed
        <5> QED BY <4>4, <4>5, <4>7, <5>2
      <4> QED BY <4>6, <4>7
    <3> QED BY <1>9, <3>1, <3>2
  <2>4. OneBusy'
    BY <1>1, <2>3, SlowsKeepsOne
  <2>5. ASSUME NEW u \in Turn, u # t
        PROVE  HistoryOK(turn[u], conv'.thread)
    <3>1. CASE ~Records(rec)
      BY <1>1, <2>1, <3>1
    <3>2. CASE Records(rec)
      <4>1. t \in Busy
        BY <1>2, <3>2 DEF Busy, Records, Is, Closed
      <4>2. conv.thread = None
        BY <1>1, <1>2, <3>2 DEF HistoryOK, Records
      <4>3. u \notin Busy
        BY <1>1, <2>5, <4>1 DEF OneBusy
      <4> QED BY <1>1, <4>2, <4>3 DEF HistoryOK, Busy, Is, Closed
    <3> QED BY <3>1, <3>2
  <2>6. \A u \in Turn : turn'[u] = IF u = t THEN new ELSE turn[u]
    BY <2>3 DEF Becomes, TurnsOK, TypeOK
  <2>7. \A u \in Turn : HistoryOK(turn'[u], conv'.thread)
    BY <2>3, <2>5, <2>6
  <2> QED BY <2>4, <2>7 DEF HistoryOK
<1> QED BY <1>5, <1>8, <1>9

LEMMA StillHistory ==
    ASSUME TurnsOK, Histories, [Next]_vars, conv'.thread = conv.thread,
           turn' = turn, UNCHANGED <<app, overlap>>
    PROVE  Histories'
BY DEF Histories, OneBusy, Busy, Is, HistoryOK

LEMMA CrashHistory ==
    ASSUME TurnsOK, Histories, Crash
    PROVE  Histories'
<1> SUFFICES ASSUME app = "chat", ~overlap
             PROVE  (OneBusy /\ \A u \in Turn : HistoryOK(turn[u], conv.thread))'
  BY DEF Histories, Crash
<1>1. \A u \in Turn : HistoryOK(turn[u], conv.thread) /\ turn[u] \in TurnRecord
  BY DEF Histories, TurnsOK, TypeOK
<1>2. \A u \in Turn : turn'[u] = IF turn[u].pc = "idle" THEN turn[u] ELSE Close(turn[u])
  BY DEF Crash, At
<1>3. \A u \in Turn : turn'[u].pc \in Closed /\ HistoryOK(turn'[u], conv.thread)
  BY <1>1, <1>2, CloseHistory, ClosedPc DEF Closed
<1>4. Busy' = {}
  BY <1>3 DEF Busy
<1> QED BY <1>3, <1>4 DEF OneBusy, HistoryOK, Crash

LEMMA HistoriesStep == TurnsOK /\ Histories /\ [Next]_vars => Histories'
<1> SUFFICES ASSUME TurnsOK, Histories, [Next]_vars PROVE Histories'
  OBVIOUS
<1>1. CASE Delete \/ Restore
  <2>1. conv'.thread = conv.thread /\ turn' = turn /\ UNCHANGED <<app, overlap>>
    BY <1>1 DEF Delete, Restore, TurnsOK, TypeOK
  <2> QED BY <2>1, StillHistory
<1>2. CASE Crash
  BY <1>2, CrashHistory
<1>3. CASE \E t \in Turn : TurnStep(t)
  BY <1>3, PrepareHistory, DebugHistory, PostHistory, LineHistory, ThoughtHistory,
     RelayHistory DEF TurnStep
<1>4. CASE UNCHANGED vars
  BY <1>4, StillHistory DEF vars
<1> QED BY <1>1, <1>2, <1>3, <1>4 DEF Next

\* With one turn at a time, all a chat app has answered is in the conversation
\* the row names: for any number of turns, crashes, departures and breaks.
THEOREM HistoriesAreWhole == Spec => []HistoryIsWhole
<1>1. Init => Histories
  BY DEF Init, Histories, OneBusy, Busy, HistoryOK, NoTurn, Closed
<1>2. TurnsOK /\ Histories => HistoryIsWhole
  BY DEF Histories, HistoryIsWhole, HistoryOK, Listed, Is
<1> QED BY TurnsInit, TurnsStep, HistoriesStep, <1>1, <1>2, PTL DEF Spec

(***************************************************************************)
(*                           CircuitBreaker                                *)
(***************************************************************************)
\* What an admission, a further attempt and an end do to the calls.
LEMMA CallUpdate ==
    ASSUME call \in [Callers -> CallRecord], NEW c \in Callers, NEW v \in CallRecord,
           call' = [call EXCEPT ![c] = v]
    PROVE  /\ call' \in [Callers -> CallRecord]
           /\ call'[c] = v
           /\ \A d \in Callers \ {c} : call'[d] = call[d]
OBVIOUS

LEMMA CallsTyped ==
    /\ Idle \in CallRecord /\ ~Idle.calling
    /\ \A n \in 0..Attempts, b \in BOOLEAN :
         /\ Calling(n, b) \in CallRecord /\ Calling(n, b).calling
         /\ Calling(n, b).trial = b /\ ~Calling(n, b).outlasts
<1>1. Idle \in CallRecord /\ ~Idle.calling
  BY BreakerAssumption DEF Idle, CallRecord
<1>2. ASSUME NEW n \in 0..Attempts, NEW b \in BOOLEAN
      PROVE  /\ Calling(n, b) \in CallRecord /\ Calling(n, b).calling
             /\ Calling(n, b).trial = b /\ ~Calling(n, b).outlasts
  <2>1. [calling |-> TRUE, left |-> n, trial |-> b, outlasts |-> FALSE]
          \in [calling : BOOLEAN, left : 0..Attempts, trial : BOOLEAN, outlasts : BOOLEAN]
    OBVIOUS
  <2> QED BY <2>1 DEF Calling, CallRecord
<1> QED BY <1>1, <1>2

LEMMA BreakerTypeInit == BreakerInit => BreakerTypeOK
<1> SUFFICES ASSUME BreakerInit PROVE BreakerTypeOK
  OBVIOUS
<1>1. failures \in 0..Threshold /\ failures # Threshold
  BY BreakerAssumption DEF BreakerInit
<1>2. call \in [Callers -> CallRecord]
  BY CallsTyped DEF BreakerInit
<1> QED BY <1>1, <1>2, Zenon DEF BreakerInit, BreakerTypeOK

\* The steps of a call, as the ways they can touch the breaker.
Admission(c) ==
    /\ ~call[c].calling /\ Admits /\ call'[c].calling /\ call'[c].trial = open
    /\ ~call'[c].outlasts
    /\ halfOpen' = open /\ UNCHANGED <<failures, open, cooled, lost>>
Attempt(c) ==
    /\ call[c].calling /\ call'[c].calling /\ call'[c].trial = call[c].trial
    /\ call'[c].outlasts = call[c].outlasts
    /\ UNCHANGED <<breaker, lost>>
Answer(c) ==
    /\ call[c].calling /\ call'[c] = Idle /\ lost' = FALSE
    /\ RecordSuccess \/ RecordFailure
Lost(c) ==
    /\ call[c].calling /\ call'[c] = Idle /\ UNCHANGED breaker
    /\ lost' = (lost \/ (halfOpen /\ Standing(c)))

LEMMA StepKinds ==
    ASSUME BreakerTypeOK, NEW c \in Callers, Step(c)
    PROVE  \/ UNCHANGED breakerVars
           \/ /\ call' \in [Callers -> CallRecord]
              /\ \A d \in Callers \ {c} : call'[d] = call[d]
              /\ Admission(c) \/ Attempt(c) \/ Answer(c) \/ Lost(c)
<1>1. call \in [Callers -> CallRecord] /\ open \in BOOLEAN
  BY DEF BreakerTypeOK
<1>2. Attempts \in 0..Attempts /\ 0 \in 0..Attempts
  BY BreakerAssumption
<1>3. ASSUME NEW n \in 0..Attempts, Admit(c, n)
      PROVE  /\ call' \in [Callers -> CallRecord]
             /\ \A d \in Callers \ {c} : call'[d] = call[d]
             /\ Admission(c)
  <2>1. call' = [call EXCEPT ![c] = Calling(n, open)] /\ Calling(n, open) \in CallRecord
    BY <1>1, <1>3, CallsTyped DEF Admit
  <2>2. /\ call' \in [Callers -> CallRecord] /\ call'[c] = Calling(n, open)
        /\ \A d \in Callers \ {c} : call'[d] = call[d]
    BY <1>1, <2>1, CallUpdate
  <2>3. ~call[c].calling
    BY <1>3, CallsTyped DEF Admit
  <2> QED BY <1>1, <1>3, <2>2, <2>3, CallsTyped DEF Admit, Admission
<1>4. CASE TryAgain(c)
  <2> DEFINE rec == [call[c] EXCEPT !.left = @ - 1]
  <2>1. call[c] \in CallRecord /\ call[c].calling /\ call[c].left > 0
    BY <1>1, <1>4 DEF TryAgain
  <2>2. /\ rec \in CallRecord /\ rec.calling
        /\ rec.trial = call[c].trial /\ rec.outlasts = call[c].outlasts
    BY <2>1, BreakerAssumption DEF CallRecord
  <2>3. call' = [call EXCEPT ![c] = rec] /\ UNCHANGED <<breaker, lost>>
    BY <1>4 DEF TryAgain
  <2> HIDE DEF rec
  <2>4. /\ call' \in [Callers -> CallRecord] /\ call'[c] = rec
        /\ \A d \in Callers \ {c} : call'[d] = call[d]
    BY <1>1, <2>2, <2>3, CallUpdate
  <2> QED BY <2>1, <2>2, <2>3, <2>4 DEF Attempt
<1>5. CASE Succeed(c) \/ Fail(c) \/ Abandon(c)
  <2>1. call' = [call EXCEPT ![c] = Idle] /\ call[c].calling
    BY <1>5 DEF Succeed, Fail, Abandon
  <2>2. /\ call' \in [Callers -> CallRecord] /\ call'[c] = Idle
        /\ \A d \in Callers \ {c} : call'[d] = call[d]
    BY <1>1, <2>1, CallUpdate, CallsTyped
  <2> QED BY <1>5, <2>1, <2>2 DEF Succeed, Fail, Abandon, Answer, Lost
<1>6. CASE Refuse(c)
  BY <1>6 DEF Refuse
<1> QED BY <1>2, <1>3, <1>4, <1>5, <1>6 DEF Step, Execute, Debug

\* A window passes over every call in flight: no trial stands any more.
LEMMA WindowFacts ==
    ASSUME BreakerTypeOK, WindowPasses
    PROVE  /\ call' \in [Callers -> CallRecord]
           /\ \A c \in Callers : ~Standing(c)'
           /\ halfOpen' = FALSE /\ cooled' = TRUE /\ open /\ UNCHANGED <<failures, open, lost>>
<1>1. ASSUME NEW c \in Callers
      PROVE  /\ call'[c] \in CallRecord
             /\ call'[c].outlasts = call'[c].calling
  <2>1. call[c] \in CallRecord
    BY DEF BreakerTypeOK
  <2>2. call'[c] = [call[c] EXCEPT !.outlasts = call[c].calling]
    BY DEF WindowPasses
  <2> QED BY <2>1, <2>2 DEF CallRecord
<1>2. call' \in [Callers -> CallRecord]
  <2>1. call' = [c \in Callers |-> call'[c]]
    BY DEF WindowPasses
  <2> QED BY <1>1, <2>1
<1>3. \A c \in Callers : ~Standing(c)'
  BY <1>1 DEF Standing
<1> QED BY <1>2, <1>3 DEF WindowPasses, BreakerTypeOK

LEMMA BreakerTypeNext == BreakerTypeOK /\ [BreakerNext]_breakerVars => BreakerTypeOK'
<1> SUFFICES ASSUME BreakerTypeOK, [BreakerNext]_breakerVars PROVE BreakerTypeOK'
  OBVIOUS
<1> USE BreakerAssumption
<1>1. CASE WindowPasses
  BY <1>1, WindowFacts DEF BreakerTypeOK
<1>2. CASE UNCHANGED breakerVars
  BY <1>2 DEF breakerVars, breaker, BreakerTypeOK
<1>3. ASSUME NEW c \in Callers, Step(c), ~UNCHANGED breakerVars PROVE BreakerTypeOK'
  <2>1. CASE Admission(c)
    BY <1>3, <2>1, StepKinds DEF Admission, Admits, BreakerTypeOK
  <2>2. CASE Attempt(c) \/ Lost(c)
    <3>1. lost' \in BOOLEAN
      BY <2>2, Zenon DEF Attempt, Lost, Standing, BreakerTypeOK
    <3>2. call' \in [Callers -> CallRecord] /\ UNCHANGED breaker
      BY <1>3, <2>2, StepKinds DEF breakerVars, Attempt, Lost
    <3> QED BY <3>1, <3>2 DEF breaker, BreakerTypeOK
  <2>3. CASE Answer(c)
    <3>1. failures' \in 0..Threshold /\ halfOpen' = FALSE /\ cooled' = FALSE
      BY <2>3 DEF Answer, RecordSuccess, RecordFailure, BreakerTypeOK
    <3>2. open' \in BOOLEAN /\ (open' <=> (failures' = Threshold))
      <4>1. 0 # Threshold
        OBVIOUS
      <4> QED BY <2>3, <4>1, Zenon DEF Answer, RecordSuccess, RecordFailure
    <3>3. call' \in [Callers -> CallRecord]
      BY <1>3, <2>3, StepKinds DEF breakerVars
    <3>4. lost' \in BOOLEAN
      BY <2>3 DEF Answer
    <3> QED BY <3>1, <3>2, <3>3, <3>4 DEF BreakerTypeOK
  <2> QED BY <1>3, <2>1, <2>2, <2>3, StepKinds
<1> QED BY <1>1, <1>2, <1>3 DEF BreakerNext

\* The breaker is open exactly at the threshold, and reserved only while open.
THEOREM BreakerTypeCorrect == BreakerSpec => []BreakerTypeOK
BY BreakerTypeInit, BreakerTypeNext, PTL DEF BreakerSpec

-----------------------------------------------------------------------------
\* A reservation that no trial lost belongs to a trial in flight that no window
\* has passed over: the breaker cannot get stuck half-open, in whatever order
\* older calls answer and trials overlap (tool_proxy.py).
THEOREM TrialHoldsReservation == BreakerSpec => []TrialInFlight
<1>1. BreakerInit => TrialInFlight
  BY DEF BreakerInit, TrialInFlight
<1>2. BreakerTypeOK /\ TrialInFlight /\ [BreakerNext]_breakerVars => TrialInFlight'
  <2> SUFFICES ASSUME BreakerTypeOK, TrialInFlight, [BreakerNext]_breakerVars, halfOpen', ~lost'
               PROVE  \E c \in Callers : Standing(c)'
    BY DEF TrialInFlight
  <2>1. CASE UNCHANGED breakerVars
    BY <2>1 DEF breakerVars, breaker, TrialInFlight, Standing
  <2>2. ASSUME NEW c \in Callers, Step(c), ~UNCHANGED breakerVars
        PROVE  \E d \in Callers : Standing(d)'
    <3>1. CASE Admission(c)
      BY <3>1 DEF Admission, Standing
    <3>2. CASE Attempt(c)
      <4> PICK d \in Callers : Standing(d)
        BY <3>2 DEF Attempt, breaker, TrialInFlight
      <4> QED BY <2>2, <3>2, StepKinds, Zenon DEF Attempt, Standing
    <3>3. CASE Lost(c)
      <4>1. halfOpen /\ ~lost /\ ~Standing(c)
        BY <3>3 DEF Lost, breaker
      <4> PICK d \in Callers : Standing(d)
        BY <4>1 DEF TrialInFlight
      <4>2. d # c
        BY <4>1
      <4> QED BY <2>2, <4>2, StepKinds DEF Standing
    <3>4. ~Answer(c)
      BY DEF Answer, RecordSuccess, RecordFailure
    <3> QED BY <2>2, <3>1, <3>2, <3>3, <3>4, StepKinds
  <2>3. ~WindowPasses
    BY WindowFacts
  <2> QED BY <2>1, <2>2, <2>3 DEF BreakerNext
<1> QED BY <1>1, <1>2, BreakerTypeInit, BreakerTypeNext, PTL DEF BreakerSpec

-----------------------------------------------------------------------------
\* A trial that no window has passed over has the reservation for as long as its
\* window lasts: an older answer that takes it away makes a new window begin.
TrialStands ==
    /\ SingleTrial
    /\ cooled /\ ~halfOpen => \A c \in Callers : ~Standing(c)

LEMMA TrialStandsInit == BreakerInit => TrialStands
BY CallsTyped DEF BreakerInit, TrialStands, SingleTrial, Standing

LEMMA TrialStandsNext == BreakerTypeOK /\ TrialStands /\ [BreakerNext]_breakerVars => TrialStands'
<1> SUFFICES ASSUME BreakerTypeOK, TrialStands, [BreakerNext]_breakerVars PROVE TrialStands'
  OBVIOUS
<1>1. CASE WindowPasses
  BY <1>1, WindowFacts DEF TrialStands, SingleTrial
<1>2. CASE UNCHANGED breakerVars
  BY <1>2 DEF breakerVars, breaker, TrialStands, SingleTrial, Standing
<1>3. ASSUME NEW c \in Callers, Step(c), ~UNCHANGED breakerVars PROVE TrialStands'
  <2>1. \A d \in Callers \ {c} : Standing(d)' <=> Standing(d)
    BY <1>3, StepKinds DEF Standing
  <2>2. CASE Admission(c)
    <3>1. CASE open
      <4>1. cooled /\ ~halfOpen /\ \A d \in Callers : ~Standing(d)
        BY <2>2, <3>1 DEF Admission, Admits, TrialStands
      <4>2. halfOpen' /\ \A d \in Callers \ {c} : ~Standing(d)'
        BY <2>1, <2>2, <3>1, <4>1 DEF Admission
      <4> QED BY <4>2 DEF TrialStands, SingleTrial
    <3>2. CASE ~open
      <4>1. ~Standing(c)' /\ ~cooled'
        BY <2>2, <3>2 DEF Admission, Standing, BreakerTypeOK
      <4> QED BY <2>1, <4>1 DEF TrialStands, SingleTrial
    <3> QED BY <3>1, <3>2
  <2>3. CASE Attempt(c) \/ Lost(c)
    <3>1. UNCHANGED <<cooled, halfOpen>> /\ (Standing(c)' => Standing(c))
      BY <2>3, CallsTyped, Zenon DEF Attempt, Lost, breaker, Standing
    <3> QED BY <2>1, <3>1, Zenon DEF TrialStands, SingleTrial
  <2>4. CASE Answer(c)
    <3>1. ~cooled' /\ ~Standing(c)'
      BY <2>4, CallsTyped DEF Answer, RecordSuccess, RecordFailure, Standing
    <3> QED BY <2>1, <3>1 DEF TrialStands, SingleTrial
  <2> QED BY <1>3, <2>2, <2>3, <2>4, StepKinds
<1> QED BY <1>1, <1>2, <1>3 DEF BreakerNext

\* However many callers wait, and however late the answers of older calls clear
\* half_open under a trial (tool_proxy.py:360), an open breaker lets no second
\* trial through until a whole recovery window has passed over the first.
THEOREM OneTrial == BreakerSpec => []SingleTrial
<1>1. TrialStands => SingleTrial
  BY DEF TrialStands
<1> QED BY <1>1, TrialStandsInit, BreakerTypeInit, BreakerTypeNext, TrialStandsNext, PTL DEF BreakerSpec
=============================================================================
