--------------------------- MODULE BrowserSession ---------------------------
(* The tabs of one browser against the refresh endpoint: one cookie jar, an  *)
(* access token in each tab's memory, a Web Lock across tabs and a stamp in  *)
(* each tab's session storage (frontend/lib/refresh-channel.ts,              *)
(* http-client.ts, components/auth/auth-context.tsx), with rotation and      *)
(* replay as app/auth/refresh.py answers them.  Requests outlive documents,  *)
(* answers are lost or late, documents are replaced at any moment.           *)
EXTENDS Naturals, FiniteSets

CONSTANTS Tab,
          MaxToken,     \* bound: refresh tokens issued
          MaxAttempt,   \* retries of a conflict, REFRESH_CONFLICT_DELAYS_MS
          MaxOrphans,   \* bound: requests under way that no document waits for
          Nothing

Token == 1 .. MaxToken      \* in the order of issue; a session is named by its first

ASSUME BrowserAssumption ==
    /\ MaxToken \in Nat \ {0} /\ MaxAttempt \in Nat /\ MaxOrphans \in Nat \ {0}
    /\ Nothing \notin Token \cup Tab

VARIABLES jar,       \* the refresh cookie the tabs share
          server,    \* refresh_tokens
          lock,      \* holder of the Web Lock
          tab,       \* each tab's document and its stamp
          post,      \* refresh requests under way, answered or not
          history

browserVars == <<jar, server, lock, tab, post, history>>

\* rotated: within the window; dead: after it, or logged out; breached: ended as stolen
Row == [status : {"unused", "active", "rotated", "dead", "breached"}, session : Token \cup {Nothing}]
TabRecord == [pc : {"idle", "lock", "wait", "sent"},
              attempt : 0 .. MaxAttempt,
              access : Token \cup {Nothing},      \* the session its access token speaks for
              page : {"open", "login"},
              stamp : {"none", "own", "dead"}]    \* a lease; whose document wrote it
RefreshRequest == [tab : Tab, token : Token \cup {Nothing},
                   to : {"tab", "browser", "nobody"},    \* who still hears the answer
                   reply : {"none", "ok", "conflict", "refused"}, fresh : Token \cup {Nothing}]
\* mishap: a bound of the channel was passed, or an answer went unheard; handover: a tab
\* took the lock of another's replaced document mid-rotation; late: a successor no jar got
\* in time, or a replay that a window ended on before it was answered.
History == [mishap : BOOLEAN, handover : BOOLEAN, late : BOOLEAN]

(* The access token minted with refresh token k speaks for the session of k. *)
SessionOf(k) == server[k].session

Fresh == {k \in Token : server[k].status = "unused" /\ \A j \in 1 .. k - 1 : server[j].status # "unused"}
ActiveOf(s) == {k \in Token : server[k].status = "active" /\ server[k].session = s}

BrowserInit ==
    /\ server = [k \in Token |-> IF k = 1 THEN [status |-> "active", session |-> k]
                                 ELSE [status |-> "unused", session |-> Nothing]]
    /\ jar = 1
    /\ lock = Nothing
    /\ tab = [t \in Tab |-> [pc |-> "idle", attempt |-> 0, access |-> Nothing, page |-> "open",
                             stamp |-> "none"]]
    /\ post = {}
    /\ history = [mishap |-> FALSE, handover |-> FALSE, late |-> FALSE]

At(t, pc) == tab[t].pc = pc
Becomes(t, rec) == tab' = [tab EXCEPT ![t] = rec]
Freed(t) == IF lock = t THEN Nothing ELSE lock
Notes(mark, holds) == history' = [history EXCEPT ![mark] = @ \/ holds]
Orphans == {p \in post : p.to # "tab"}
RoomBeside(p) == Cardinality(Orphans \ {p}) < MaxOrphans

(***************************************************************************)
(* The refresh endpoint.                                                   *)
(***************************************************************************)
Answered(p, reply, fresh) ==
    post' = (post \ {p}) \cup (IF p.to = "nobody" THEN {}
                               ELSE {[p EXCEPT !.reply = reply, !.fresh = fresh]})

Rotate(p) ==
    \E k \in Fresh :
        /\ server' = [server EXCEPT ![p.token].status = "rotated",
                                    ![k] = [status |-> "active", session |-> server[p.token].session]]
        /\ Answered(p, "ok", k)
        /\ Notes("late", p.to = "nobody")

Ended(live, status) ==
    server' = [k \in Token |-> IF k \in live THEN [server[k] EXCEPT !.status = status] ELSE server[k]]

(* No cookie, or one that stands for nothing: a replay outside the window     *)
(* takes the whole session with it.                                           *)
Refuse(p) ==
    /\ Ended(IF p.token = Nothing THEN {} ELSE ActiveOf(server[p.token].session), "breached")
    /\ Answered(p, "refused", Nothing)
    /\ UNCHANGED history

Serve(p) ==
    LET status == IF p.token = Nothing THEN "dead" ELSE server[p.token].status IN
    /\ p.reply = "none"
    /\ \/ status = "active" /\ Rotate(p)
       \/ status = "rotated" /\ Answered(p, "conflict", Nothing) /\ UNCHANGED <<server, history>>
       \/ status \in {"dead", "breached"} /\ Refuse(p)
    /\ UNCHANGED <<jar, lock, tab>>

(* The 30 seconds after a rotation: a successor still under way is too late,  *)
(* and a replay that nobody answered yet will not find the window open.       *)
WindowEnds(k) ==
    /\ server[k].status = "rotated"
    /\ server' = [server EXCEPT ![k].status = "dead"]
    /\ Notes("late", \E p \in post : p.token = k /\ p.reply \in {"none", "ok"})
    /\ UNCHANGED <<jar, lock, tab, post>>

(***************************************************************************)
(* One refresh of a tab: every caller joins the one that is in flight.     *)
(***************************************************************************)
(* Bootstrap, or a request whose access token was answered with 401. *)
Start(t) ==
    /\ At(t, "idle")
    /\ Becomes(t, [tab[t] EXCEPT !.pc = "lock", !.attempt = 0])
    /\ UNCHANGED <<jar, server, lock, post, history>>

(* A lock dies with its document, whose request may still be under way: the   *)
(* same tab is warned by its stamp, another tab cannot see it (noted while no *)
(* bound was passed yet).                                                     *)
Grant(t) ==
    /\ At(t, "lock") /\ lock = Nothing
    /\ lock' = t
    /\ Becomes(t, [tab[t] EXCEPT !.pc = "wait"])
    /\ Notes("handover", ~history.mishap /\ \E p \in Orphans : p.tab # t)
    /\ UNCHANGED <<jar, server, post>>

(* The wait for the lock is bounded. *)
PassLock(t) ==
    /\ At(t, "lock") /\ lock # Nothing
    /\ Becomes(t, [tab[t] EXCEPT !.pc = "wait"])
    /\ Notes("mishap", TRUE)
    /\ UNCHANGED <<jar, server, lock, post>>

(* A stamp that its document no longer renews ages out. *)
AgeOut(t) ==
    /\ At(t, "wait") /\ tab[t].stamp = "dead"
    /\ Becomes(t, [tab[t] EXCEPT !.stamp = "none"])
    /\ Notes("mishap", \E p \in post : p.tab = t)
    /\ UNCHANGED <<jar, server, lock, post>>

(* Mutant of MaySend: the predecessor's rotation is not waited for.           *)
MaySendAtOnce(t) == TRUE

MaySend(t) == tab[t].stamp # "dead"

Send(t) ==
    /\ At(t, "wait") /\ MaySend(t)
    /\ post' = post \cup {[tab |-> t, token |-> jar, to |-> "tab", reply |-> "none", fresh |-> Nothing]}
    /\ Becomes(t, [tab[t] EXCEPT !.pc = "sent", !.stamp = "own"])
    /\ UNCHANGED <<jar, server, lock, history>>

(* The refresh of t is over: with a token, refused, or with nothing learnt.   *)
Settled(t, access, page) ==
    [tab[t] EXCEPT !.pc = "idle", !.attempt = 0, !.access = access, !.page = page]

Unstamped(rec) == [rec EXCEPT !.stamp = "none"]

(* Mutant of Refused: a conflict is taken for the end of the session.         *)
RefusedOrConflict(reply) == reply \in {"refused", "conflict"}

Refused(reply) == reply = "refused"

MayRetry(t) == tab[t].attempt < MaxAttempt

(* The retry reads the jar again; the deadline may forbid it earlier. *)
Take(t, p) ==
    \/ /\ p.reply = "ok"
       /\ Becomes(t, Unstamped(Settled(t, SessionOf(p.fresh), "open"))) /\ lock' = Freed(t)
    \/ /\ Refused(p.reply)
       /\ Becomes(t, Unstamped(Settled(t, Nothing, "login"))) /\ lock' = Freed(t)
    \/ /\ p.reply = "conflict" /\ ~Refused(p.reply) /\ MayRetry(t)
       /\ Becomes(t, Unstamped([tab[t] EXCEPT !.pc = "wait", !.attempt = @ + 1])) /\ UNCHANGED lock
    \/ /\ p.reply = "conflict" /\ ~Refused(p.reply)
       /\ Becomes(t, Unstamped(Settled(t, Nothing, tab[t].page))) /\ lock' = Freed(t)

(* Mutant of Stores: without keepalive the cookie dies with the document.     *)
StoresForDocument(p) == p.reply = "ok" /\ p.to = "tab"

Stores(p) == p.reply = "ok"

(* The browser stores the cookie, also for a document that is gone. *)
Land(p) ==
    /\ p.reply # "none"
    /\ jar' = IF Stores(p) THEN p.fresh ELSE jar
    /\ post' = post \ {p}
    /\ IF p.to = "tab" THEN Take(p.tab, p) ELSE UNCHANGED <<tab, lock>>
    /\ UNCHANGED <<server, history>>

(* The answer is not heard any more; the request may still be served, or not. *)
Unheard(p) ==
    /\ \E left \in {{}, {[p EXCEPT !.to = "nobody"]}} :
          /\ left # {} => p.reply = "none" /\ RoomBeside(p)
          /\ post' = (post \ {p}) \cup left
    /\ history' = [history EXCEPT !.mishap = TRUE, !.late = @ \/ p.reply = "ok"]
    /\ UNCHANGED <<jar, server>>

(* The attempt's timeout, or the network.  The stamp stays. *)
CutOff(t) ==
    /\ At(t, "sent")
    /\ \E p \in post : p.tab = t /\ p.to = "tab" /\ Unheard(p)
    /\ Becomes(t, Settled(t, Nothing, tab[t].page))
    /\ lock' = Freed(t)

Drop(p) == p.to = "browser" /\ Unheard(p) /\ UNCHANGED <<tab, lock>>

(***************************************************************************)
(* The document: replaced, signed out, signed in.                          *)
(***************************************************************************)
(* Its memory and its lock die with it, its request and its stamp do not.    *)
Reload(t) ==
    LET sent == {p \in post : p.tab = t /\ p.to = "tab"} IN
    /\ \A p \in sent : RoomBeside(p)
    /\ post' = (post \ sent) \cup {[p EXCEPT !.to = "browser"] : p \in sent}
    /\ Becomes(t, [tab[t] EXCEPT !.pc = "idle", !.attempt = 0, !.access = Nothing, !.page = "open",
                                 !.stamp = IF @ = "none" THEN @ ELSE "dead"])
    /\ lock' = Freed(t)
    /\ UNCHANGED <<jar, server, history>>

(* What a logout ends: an expired access token still names its session.      *)
Named(t) == ActiveOf(tab[t].access)

(* The signal takes their tokens from the peers: when it arrives matters to   *)
(* nothing else.                                                              *)
SignedOut(t) ==
    [u \in Tab |-> IF u = t THEN Unstamped(Settled(t, Nothing, "login"))
                    ELSE [tab[u] EXCEPT !.access = Nothing]]

(* The session of the bearer token ends and the answer deletes the cookie, if *)
(* it arrives; or the call fails.  Either way the page is left.               *)
SignOut(t) ==
    /\ At(t, "idle") /\ tab[t].access # Nothing
    /\ \/ Ended(Named(t), "dead") /\ jar' \in {Nothing, jar}
       \/ UNCHANGED <<server, jar>>
    /\ tab' = SignedOut(t)
    /\ UNCHANGED <<lock, post, history>>

(* A new session; its access token comes from a refresh, like any other.      *)
Login(t) ==
    /\ tab[t].page = "login" /\ At(t, "idle")
    /\ \E k \in Fresh :
          /\ server' = [server EXCEPT ![k] = [status |-> "active", session |-> k]]
          /\ jar' = k
    /\ Becomes(t, [tab[t] EXCEPT !.pc = "lock", !.attempt = 0])
    /\ UNCHANGED <<lock, post, history>>

RefreshStep(t) == Start(t) \/ Grant(t) \/ PassLock(t) \/ AgeOut(t) \/ Send(t) \/ CutOff(t)

BrowserNext ==
    \/ \E t \in Tab : RefreshStep(t) \/ Reload(t) \/ SignOut(t) \/ Login(t)
    \/ \E p \in post : Serve(p) \/ Land(p) \/ Drop(p)
    \/ \E k \in Token : WindowEnds(k)

BrowserSpec == BrowserInit /\ [][BrowserNext]_browserVars

(***************************************************************************)
(* What must hold.                                                         *)
(***************************************************************************)
BrowserTypeOK ==
    /\ jar \in Token \cup {Nothing}
    /\ server \in [Token -> Row]
    /\ lock \in Tab \cup {Nothing}
    /\ tab \in [Tab -> TabRecord]
    /\ post \subseteq RefreshRequest
    /\ history \in History

(* What refresh-channel.ts:3-8 and refresh-channel.test.ts:272-275 promise: a  *)
(* document whose lock was released by a navigation still keeps its peers     *)
(* out.  It keeps out its successor in the same tab; no run checks this.      *)
PeersKeptOut == (\E p \in post : p.reply = "conflict") => history.mishap

(* A browser races itself into TOKEN_REFRESH_IN_PROGRESS only after a bound   *)
(* was passed or an answer went unheard, or when a tab took the lock that     *)
(* another's replaced document held mid-rotation: between tabs the lock, and  *)
(* between a document and its successor the stamp, keep one rotation at a time. *)
NoSelfConflict == (\E p \in post : p.reply = "conflict") => history.mishap \/ history.handover

(* The retries and the reloads of a browser never make it look like a thief:  *)
(* its session is ended as a breach only after a successor cookie was lost or *)
(* outlived its window, or the window ended on a replay still unanswered.     *)
SessionKept == (\E k \in Token : server[k].status = "breached") => history.late

(* A refresh sends the page to the login only when the session it presented   *)
(* is over; a conflict and a lost answer leave it where it is.                *)
SentAwayWhenOver ==
    [][\A t \in Tab : At(t, "sent") /\ tab'[t].page = "login" /\ tab[t].page # "login" =>
          \E p \in post \ post' : p.tab = t /\ (p.token = Nothing \/ ActiveOf(server[p.token].session) = {})]_browserVars
=============================================================================
