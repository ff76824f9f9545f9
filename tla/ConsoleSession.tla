--------------------------- MODULE ConsoleSession ---------------------------
(* The one session the process keeps with Dify's console                     *)
(* (app/dify_console.py): every call goes out with the cookie of the latest  *)
(* login; a 401 is answered by one login and one more try; concurrent calls  *)
(* share a login under an asyncio lock.                                      *)
EXTENDS Naturals

CONSTANTS Caller,      \* tasks that call the console
          Refresher,   \* the scheduled job that logs in anew
          MaxSessions  \* bound: logins Dify accepts
CONSTANT None

VARIABLES loggedIn,   \* _logged_in
          loginLock,  \* who holds _login_lock
          jar,        \* the session the cookie jar names; 0 is none
          expired,    \* the sessions Dify no longer honours
          call        \* the calls

consoleVars == <<loggedIn, loginLock, jar, expired, call>>

Session == 0 .. MaxSessions
CallSteps == {"idle", "wait", "login", "sent", "refused", "accepted"}
CallRecord == [pc : CallSteps, sent : Session, again : BOOLEAN]
Quiet == [pc |-> "idle", sent |-> 0, again |-> FALSE]

(* The login of the application's startup may have succeeded or not. *)
ConsoleInit ==
    /\ \/ loggedIn = TRUE /\ jar = 1
       \/ loggedIn = FALSE /\ jar = 0
    /\ loginLock = None
    /\ expired = {0}
    /\ call = [c \in Caller \cup {Refresher} |-> Quiet]

(* Where the caller goes once a session is there: the refresher is done, a   *)
(* call goes out with the jar's cookie.                                      *)
Onward(c, session) ==
    call' = [call EXCEPT ![c] = IF c = Refresher THEN Quiet
                                ELSE [@ EXCEPT !.pc = "sent", !.sent = session]]

Done(c) == call' = [call EXCEPT ![c] = Quiet]

(* _ensure_session, then the request. *)
Call(c) ==
    /\ c # Refresher /\ call[c].pc = "idle"
    /\ IF loggedIn THEN Onward(c, jar) ELSE call' = [call EXCEPT ![c].pc = "wait"]
    /\ UNCHANGED <<loggedIn, loginLock, jar, expired>>

(* The scheduled refresh. *)
Refresh ==
    /\ call[Refresher].pc = "idle"
    /\ call' = [call EXCEPT ![Refresher].pc = "wait"]
    /\ UNCHANGED <<loggedIn, loginLock, jar, expired>>

(* login(): inside the lock, a session somebody else has opened is enough,   *)
(* except for the refresher.                                                 *)
EnterLogin(c) ==
    /\ call[c].pc = "wait" /\ loginLock = None
    /\ IF loggedIn /\ c # Refresher
       THEN Onward(c, jar) /\ UNCHANGED loginLock
       ELSE /\ loginLock' = c
            /\ call' = [call EXCEPT ![c].pc = "login"]
    /\ UNCHANGED <<loggedIn, jar, expired>>

(* Mutant: a failed login leaves the lock with the task that is gone. *)
UnlockedOnSuccess(ok) == loginLock' = IF ok THEN None ELSE loginLock

(* The lock is given back on every way out. *)
Unlocked(ok) == loginLock' = None

(* _do_login, answered: a new session, or none of a refused or lost one. *)
AnswerLogin(c) ==
    /\ call[c].pc = "login"
    /\ \/ /\ jar < MaxSessions
          /\ jar' = jar + 1 /\ loggedIn' = TRUE
          /\ Onward(c, jar + 1)
          /\ Unlocked(TRUE)
       \/ /\ loggedIn' = FALSE /\ UNCHANGED jar
          /\ Done(c)
          /\ Unlocked(FALSE)
    /\ UNCHANGED expired

(* Dify judges the cookie. *)
Serve(c) ==
    /\ call[c].pc = "sent"
    /\ call' = [call EXCEPT ![c].pc = IF call[c].sent \in expired THEN "refused" ELSE "accepted"]
    /\ UNCHANGED <<loggedIn, loginLock, jar, expired>>

(* Mutant: the flag is left as it is before the login. *)
KeptFlag == UNCHANGED loggedIn

(* The login must not take a session's being there for an answer. *)
ClearedFlag == loggedIn' = FALSE

(* The 401 arrives, perhaps long after Dify gave it: one login and one more  *)
(* try; a second 401 is an error.                                            *)
ReceiveRefusal(c) ==
    /\ call[c].pc = "refused"
    /\ IF call[c].again
       THEN Done(c) /\ UNCHANGED loggedIn
       ELSE /\ call' = [call EXCEPT ![c].pc = "wait", ![c].again = TRUE]
            /\ ClearedFlag
    /\ UNCHANGED <<loginLock, jar, expired>>

(* An answer, a refusal of another kind, or a failure of the transport. *)
ReceiveOther(c) ==
    /\ call[c].pc \in {"sent", "accepted"}
    /\ Done(c)
    /\ UNCHANGED <<loggedIn, loginLock, jar, expired>>

Expire ==
    /\ \E s \in 1 .. jar : s \notin expired /\ expired' = expired \cup {s}
    /\ UNCHANGED <<loggedIn, loginLock, jar, call>>

ConsoleStep(c) ==
    \/ EnterLogin(c) \/ AnswerLogin(c) \/ Serve(c) \/ ReceiveRefusal(c) \/ ReceiveOther(c)

ConsoleTypeOK ==
    /\ loggedIn \in BOOLEAN
    /\ loginLock \in Caller \cup {Refresher, None}
    /\ jar \in Session /\ expired \subseteq Session
    /\ call \in [Caller \cup {Refresher} -> CallRecord]

(* The second try goes out with a younger session than the one that was      *)
(* refused, whoever logged in meanwhile and however late the 401 was.        *)
RetryIsFresh ==
    [][\A c \in Caller :
         call[c].again /\ call[c].pc # "sent" /\ call'[c].pc = "sent"
         => call'[c].sent > call[c].sent]_consoleVars
=============================================================================
