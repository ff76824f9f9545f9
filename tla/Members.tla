------------------------------ MODULE Members ------------------------------
(* The accounts of one tenant and the requests by which platform             *)
(* administrators change them (app/services/member_service.py).  A request   *)
(* is one transaction at READ COMMITTED: each step below is a statement of   *)
(* it, and other requests commit in between.                                 *)
EXTENDS Naturals, FiniteSets

CONSTANTS Account,  \* rows the tenant may come to have
          Address,  \* folded e-mail addresses
          Subject,  \* subjects of the identity provider
          Change,   \* concurrent administrative requests
          Wish      \* what a request may ask for: <<role, status>>
CONSTANT Nobody

Role == {"admin", "other"}
Status == {"active", "disabled"}
Source == {"sso", "local"}

ASSUME MembersAssumption ==
    /\ IsFiniteSet(Account)
    /\ Nobody \notin Account /\ Nobody \notin Change /\ Nobody \notin Subject
    /\ Wish \subseteq (Role \cup {"keep"}) \X (Status \cup {"keep"})

VARIABLES row,     \* the users table
          lock,    \* who holds the tenant's advisory lock
          change   \* the administrative requests

memberVars == <<row, lock, change>>

Row == [there : BOOLEAN, role : Role, status : Status, mustChange : BOOLEAN,
        source : Source, sub : Subject \cup {Nobody}, addr : Address]

Steps == {"idle", "lock", "read", "count", "write", "reset"}
ChangeRecord == [pc : Steps, own : BOOLEAN, target : Account \cup {Nobody},
                 wish : Wish \cup {<<"keep", "keep">>}, role : Role, status : Status]

Idle == [pc |-> "idle", own |-> FALSE, target |-> Nobody,
         wish |-> <<"keep", "keep">>, role |-> "other", status |-> "active"]

ActiveAdmin(a) == row[a].there /\ row[a].role = "admin" /\ row[a].status = "active"
Admins == {a \in Account : ActiveAdmin(a)}

(* The guard of every administrative route, judged before the request's own  *)
(* statements: an active account with nothing to change first, an admin.     *)
MayAct(a) == ActiveAdmin(a) /\ ~row[a].mustChange

Chosen(wanted, current) == IF wanted = "keep" THEN current ELSE wanted
NextRole(c) == Chosen(change[c].wish[1], change[c].role)
NextStatus(c) == Chosen(change[c].wish[2], change[c].status)

(* The request ends, by an answer or by a failure; its transaction ends with *)
(* it and gives the advisory lock back.                                      *)
End(c) ==
    /\ change' = [change EXCEPT ![c] = Idle]
    /\ lock' = IF lock = c THEN Nobody ELSE lock

Goto(c, pc) == change' = [change EXCEPT ![c].pc = pc]

(* Mutant: only a demotion joins the serialised section. *)
SerialisedDemotions(wish) == wish[1] # "keep"

(* Mutant: only a disabling does. *)
SerialisedDisables(wish) == wish[2] = "disabled"

Serialised(wish) == wish[1] # "keep" \/ wish[2] = "disabled"

Asking(own, target, wish) ==
    [Idle EXCEPT !.own = own, !.target = target, !.wish = wish,
                 !.pc = IF Serialised(wish) THEN "lock" ELSE "read"]

BeginUpdate(c) ==
    /\ change[c].pc = "idle"
    /\ \E a \in Account, t \in Account, w \in Wish, own \in BOOLEAN :
          /\ MayAct(a) /\ (own <=> a = t)
          /\ change' = [change EXCEPT ![c] = Asking(own, t, w)]
    /\ UNCHANGED <<row, lock>>

(* _serialise_member_change *)
TakeLock(c) ==
    /\ change[c].pc = "lock" /\ lock = Nobody
    /\ lock' = c
    /\ Goto(c, "read")
    /\ UNCHANGED row

(* The member is read as committed now, after the lock. *)
ReadMember(c) ==
    LET m == row[change[c].target]
        seen == [change[c] EXCEPT !.role = m.role, !.status = m.status]
        removes == /\ m.role = "admin" /\ m.status = "active"
                   /\ \/ Chosen(seen.wish[1], m.role) # "admin"
                      \/ Chosen(seen.wish[2], m.status) # "active"
    IN  /\ change[c].pc = "read"
        /\ IF ~m.there THEN End(c)
           ELSE /\ change' = [change EXCEPT ![c] =
                      [seen EXCEPT !.pc = IF removes THEN "count" ELSE "write"]]
                /\ UNCHANGED lock
        /\ UNCHANGED row

(* _admins_left: one administrator cannot be taken away (409 LAST_ADMIN). *)
CountAdmins(c) ==
    /\ change[c].pc = "count"
    /\ IF Cardinality(Admins) <= 1 THEN End(c)
       ELSE Goto(c, "write") /\ UNCHANGED lock
    /\ UNCHANGED row

DisablesSelf(c) ==
    /\ NextStatus(c) = "disabled" /\ change[c].status = "active" /\ change[c].own

(* Nobody disables their own account (409 SELF_DISABLE); otherwise the row   *)
(* is written.  Only the columns that differ from what was read are.         *)
WriteMember(c) ==
    LET r == change[c] IN
    /\ r.pc = "write"
    /\ IF DisablesSelf(c) THEN UNCHANGED row
       ELSE row' = [row EXCEPT
               ![r.target].role = IF NextRole(c) # r.role THEN NextRole(c) ELSE @,
               ![r.target].status = IF NextStatus(c) # r.status THEN NextStatus(c) ELSE @]
    /\ End(c)

(* reset_password: only a local account has a password, and it must be       *)
(* changed at the next sign-in.  (What it does to sessions: SessionTokens.)  *)
BeginReset(c) ==
    /\ change[c].pc = "idle"
    /\ \E a \in Account, t \in Account :
          /\ MayAct(a) /\ row[t].there /\ row[t].source = "local"
          /\ change' = [change EXCEPT ![c] =
                [Idle EXCEPT !.pc = "reset", !.target = t]]
    /\ UNCHANGED <<row, lock>>

WriteReset(c) ==
    /\ change[c].pc = "reset"
    /\ row' = [row EXCEPT ![change[c].target].mustChange = TRUE]
    /\ End(c)

(* The account's owner changes the password (auth/password_change.py). *)
ChangeOwnPassword(a) ==
    /\ row[a].there /\ row[a].source = "local" /\ row[a].status = "active"
    /\ row' = [row EXCEPT ![a].mustChange = FALSE]
    /\ UNCHANGED <<lock, change>>

Fail(c) ==
    /\ change[c].pc # "idle"
    /\ End(c)
    /\ UNCHANGED row

MemberStep(c) ==
    \/ BeginUpdate(c) \/ TakeLock(c) \/ ReadMember(c) \/ CountAdmins(c) \/ WriteMember(c)
    \/ BeginReset(c) \/ WriteReset(c) \/ Fail(c)

MemberTypeOK ==
    /\ row \in [Account -> Row]
    /\ lock \in Change \cup {Nobody}
    /\ change \in [Change -> ChangeRecord]

(* However demotions, disablings and enablings of a tenant's members         *)
(* interleave, an active platform administrator is left (C-29), although the *)
(* count is read before the write and enabling takes no lock.                *)
AdminRemains == Admins # {}

(* A role change that is answered with success is what the row then says:    *)
(* the value it was compared with cannot have gone stale under it.           *)
RoleChangeLands ==
    [][\A c \in Change :
         WriteMember(c) /\ ~DisablesSelf(c) /\ change[c].wish[1] # "keep"
         => row'[change[c].target].role = change[c].wish[1]]_memberVars
=============================================================================
