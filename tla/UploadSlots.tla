---------------------------- MODULE UploadSlots ----------------------------
(* The in-flight limit on document uploads (app/uploads.py): a process-wide  *)
(* semaphore and one per user, the user's kept in a table for as long as     *)
(* some request of that user holds or awaits a slot.  A step is what one     *)
(* request's task does between two awaits.                                   *)
EXTENDS Naturals, FiniteSets

CONSTANTS Request,   \* upload requests the process may be serving
          UserOf,    \* whose they are
          MaxSlots,  \* MAX_CONCURRENT_UPLOADS
          PerUser    \* MAX_UPLOADS_PER_USER

User == {UserOf[r] : r \in Request}

VARIABLES free,   \* permits left of the process-wide semaphore
          users,  \* the table: requests counted and permits left, by user
          upload  \* the requests

slotVars == <<free, users, upload>>

UploadSteps == {"idle", "userwait", "slotwait", "parsing", "handling"}
UserSlot == [there : BOOLEAN, requests : Nat, free : Nat]
NoSlot == [there |-> FALSE, requests |-> 0, free |-> 0]

SlotInit ==
    /\ free = MaxSlots
    /\ users = [u \in User |-> NoSlot]
    /\ upload = [r \in Request |-> [pc |-> "idle", leased |-> FALSE]]

Has(r, pcs) == upload[r].pc \in pcs

(* _leave: the last request of a user takes the entry out of the table. *)
Left(slot) ==
    IF slot.requests = 1 THEN NoSlot ELSE [slot EXCEPT !.requests = @ - 1]

GivenBack(slot) == Left([slot EXCEPT !.free = @ + 1])

(* The request joins the user's entry, made for it if there is none, and     *)
(* waits for a permit of it.                                                 *)
Arrive(r) ==
    LET u == UserOf[r]
        slot == IF users[u].there THEN users[u]
                ELSE [there |-> TRUE, requests |-> 0, free |-> PerUser]
    IN  /\ Has(r, {"idle"})
        /\ users' = [users EXCEPT ![u] = [slot EXCEPT !.requests = @ + 1]]
        /\ upload' = [upload EXCEPT ![r].pc = "userwait"]
        /\ UNCHANGED free

TakeUserPermit(r) ==
    LET u == UserOf[r] IN
    /\ Has(r, {"userwait"}) /\ users[u].free > 0
    /\ users' = [users EXCEPT ![u].free = @ - 1]
    /\ upload' = [upload EXCEPT ![r].pc = "slotwait"]
    /\ UNCHANGED free

TakePermit(r) ==
    /\ Has(r, {"slotwait"}) /\ free > 0
    /\ free' = free - 1
    /\ upload' = [upload EXCEPT ![r] = [pc |-> "parsing", leased |-> TRUE]]
    /\ UNCHANGED users

(* Mutant: the deadline forgets the user's permit. *)
RolledBackHalf(r) == Left(users[UserOf[r]])

(* What the user's entry is once _acquire has undone what it had taken. *)
RolledBack(r) ==
    LET slot == users[UserOf[r]] IN
    IF Has(r, {"userwait"}) THEN Left(slot) ELSE GivenBack(slot)

(* The deadline, or a cancellation, ends the wait (429 RATE_LIMITED). *)
GiveUp(r) ==
    /\ Has(r, {"userwait", "slotwait"})
    /\ users' = [users EXCEPT ![UserOf[r]] = RolledBack(r)]
    /\ upload' = [upload EXCEPT ![r].pc = "idle"]
    /\ UNCHANGED free

(* _Lease.release: once, whoever comes first. *)
Released(r) ==
    IF upload[r].leased
    THEN /\ free' = free + 1
         /\ users' = [users EXCEPT ![UserOf[r]] = GivenBack(@)]
    ELSE UNCHANGED <<free, users>>

(* The body parses, and the handler runs with a watcher on the connection. *)
Parse(r) ==
    /\ Has(r, {"parsing"})
    /\ upload' = [upload EXCEPT ![r].pc = "handling"]
    /\ UNCHANGED <<free, users>>

(* The client goes away: the slot is free at once, the handler runs on. *)
Disconnect(r) ==
    /\ Has(r, {"handling"}) /\ upload[r].leased
    /\ Released(r)
    /\ upload' = [upload EXCEPT ![r].leased = FALSE]

(* The request ends: refused by the parser, answered, or failed. *)
Finish(r) ==
    /\ Has(r, {"parsing", "handling"})
    /\ Released(r)
    /\ upload' = [upload EXCEPT ![r] = [pc |-> "idle", leased |-> FALSE]]

SlotTypeOK ==
    /\ free \in Nat
    /\ users \in [User -> UserSlot]
    /\ upload \in [Request -> [pc : UploadSteps, leased : BOOLEAN]]

Of(u) == {r \in Request : UserOf[r] = u}
Leases == {r \in Request : upload[r].leased}
UserPermits(u) == {r \in Of(u) : Has(r, {"slotwait"}) \/ upload[r].leased}
Counted(u) == {r \in Of(u) : Has(r, {"userwait", "slotwait"}) \/ upload[r].leased}

(* No slot is lost and none is given twice, however deadlines, disconnects   *)
(* and answers race: the permits left and the permits held are always the    *)
(* limits, and a user's entry lives exactly as long as it is needed.  Hence  *)
(* at most MaxSlots uploads hold a slot, and PerUser of one user.            *)
SlotsConserved ==
    /\ free + Cardinality(Leases) = MaxSlots
    /\ \A u \in User :
          /\ users[u].there <=> Counted(u) # {}
          /\ users[u].requests = Cardinality(Counted(u))
          /\ users[u].there => users[u].free + Cardinality(UserPermits(u)) = PerUser
=============================================================================
