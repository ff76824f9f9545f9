-------------------------- MODULE Directory_proofs --------------------------
EXTENDS Directory, FiniteSetTheorems, TLAPS

(***************************************************************************)
(* What a write leaves of the rows.                                        *)
(***************************************************************************)
LEMMA WishTyped ==
    \A w \in Wish \cup {<<"keep", "keep">>} :
        w[1] \in Role \cup {"keep"} /\ w[2] \in Status \cup {"keep"}
BY MembersAssumption

\* Steps that leave roles, statuses and identities of existing rows alone.
Untouched ==
    /\ row' \in [Account -> Row]
    /\ \A a \in Account : row[a].there =>
          /\ row'[a].there /\ row'[a].role = row[a].role /\ row'[a].status = row[a].status
          /\ row'[a].source = row[a].source /\ row'[a].sub = row[a].sub

LEMMA SetMustChange ==
    ASSUME row \in [Account -> Row], NEW a \in Account, NEW b \in BOOLEAN,
           row' = [row EXCEPT ![a].mustChange = b]
    PROVE  Untouched
BY DEF Row, Untouched

LEMMA SetAddress ==
    ASSUME row \in [Account -> Row], NEW a \in Account, NEW x \in Address,
           row' = [row EXCEPT ![a].addr = x]
    PROVE  Untouched
BY DEF Row, Untouched

LEMMA AddRow ==
    ASSUME row \in [Account -> Row], NEW a \in Account, NEW r \in Row, ~row[a].there,
           row' = [row EXCEPT ![a] = r]
    PROVE  Untouched
BY DEF Untouched

\* The two columns WriteMember may write.
LEMMA WriteColumns ==
    ASSUME MemberTypeOK, NEW c \in Change, change[c].target \in Account,
           WriteMember(c), ~DisablesSelf(c)
    PROVE  LET t == change[c].target IN
           /\ row' \in [Account -> Row]
           /\ \A a \in Account : /\ row'[a].there = row[a].there
                                 /\ row'[a].source = row[a].source /\ row'[a].sub = row[a].sub
           /\ \A a \in Account \ {t} : row'[a] = row[a]
           /\ row'[t].role = IF NextRole(c) # change[c].role THEN NextRole(c) ELSE row[t].role
           /\ row'[t].status = IF NextStatus(c) # change[c].status
                               THEN NextStatus(c) ELSE row[t].status
<1> DEFINE t == change[c].target
           newRole == IF NextRole(c) # change[c].role THEN NextRole(c) ELSE row[t].role
           newStatus == IF NextStatus(c) # change[c].status THEN NextStatus(c) ELSE row[t].status
<1>1. row \in [Account -> Row] /\ change[c] \in ChangeRecord
  BY DEF MemberTypeOK
<1>2. change[c].wish[1] \in Role \cup {"keep"} /\ change[c].wish[2] \in Status \cup {"keep"}
  BY <1>1, WishTyped DEF ChangeRecord
<1>3. newRole \in Role /\ newStatus \in Status
  BY <1>1, <1>2 DEF ChangeRecord, NextRole, NextStatus, Chosen, Row
<1>4. row' = [row EXCEPT ![t].role = newRole, ![t].status = newStatus]
  BY DEF WriteMember
<1> HIDE DEF newRole, newStatus
<1>5. /\ row' \in [Account -> Row]
      /\ \A a \in Account : /\ row'[a].there = row[a].there
                            /\ row'[a].source = row[a].source /\ row'[a].sub = row[a].sub
      /\ \A a \in Account \ {t} : row'[a] = row[a]
      /\ row'[t].role = newRole /\ row'[t].status = newStatus
  BY <1>1, <1>3, <1>4 DEF Row
<1> QED BY <1>5 DEF newRole, newStatus

(***************************************************************************)
(* Types.                                                                  *)
(***************************************************************************)
LEMMA IdleTyped == Idle \in ChangeRecord
BY DEF Idle, ChangeRecord, Steps, Role, Status

LEMMA RestingTyped == Address # {} => Resting \in EntryRecord
BY DEF Resting, EntryRecord, EntrySteps

\* Only a request's own record and its own hold on the lock change with it.
LEMMA EndTyped ==
    ASSUME MemberTypeOK, NEW c \in Change, End(c)
    PROVE  change' \in [Change -> ChangeRecord] /\ lock' \in Change \cup {Nobody}
BY IdleTyped DEF MemberTypeOK, End

LEMMA GotoTyped ==
    ASSUME MemberTypeOK, NEW c \in Change, NEW pc \in Steps, Goto(c, pc)
    PROVE  change' \in [Change -> ChangeRecord]
BY DEF MemberTypeOK, Goto, ChangeRecord

LEMMA ChangeTypes ==
    ASSUME MemberTypeOK, NEW c \in Change, MemberStep(c), change[c].pc # "write",
           change[c].pc = "read" => change[c].target \in Account
    PROVE  change' \in [Change -> ChangeRecord] /\ lock' \in Change \cup {Nobody}
<1>1. ASSUME NEW t \in Account, NEW w \in Wish, NEW b \in BOOLEAN
      PROVE  Asking(b, t, w) \in ChangeRecord
  <2>1. (IF Serialised(w) THEN "lock" ELSE "read") \in Steps
    BY DEF Steps
  <2> QED BY <2>1, IdleTyped DEF Asking, ChangeRecord
<1>2. CASE BeginUpdate(c)
  <2>1. PICK t \in Account, w \in Wish, own \in BOOLEAN :
          change' = [change EXCEPT ![c] = Asking(own, t, w)]
    BY <1>2 DEF BeginUpdate
  <2>2. Asking(own, t, w) \in ChangeRecord
    BY <1>1
  <2> QED BY <1>2, <2>1, <2>2 DEF BeginUpdate, MemberTypeOK
<1>3. CASE TakeLock(c)
  BY <1>3, GotoTyped DEF TakeLock, Steps
<1>4. CASE ReadMember(c)
  <2> DEFINE m == row[change[c].target]
             seen == [change[c] EXCEPT !.role = m.role, !.status = m.status]
  <2>1. CASE ~m.there
    BY <1>4, <2>1, EndTyped DEF ReadMember
  <2>2. CASE m.there
    <3>1. PICK pc \in {"count", "write"} :
            change' = [change EXCEPT ![c] = [seen EXCEPT !.pc = pc]] /\ UNCHANGED lock
      BY <1>4, <2>2 DEF ReadMember
    <3>2. change[c] \in ChangeRecord
      BY DEF MemberTypeOK
    <3>3. m \in Row
      BY <1>4 DEF MemberTypeOK, ReadMember
    <3>4. [seen EXCEPT !.pc = pc] \in ChangeRecord
      BY <3>2, <3>3 DEF ChangeRecord, Row, Steps
    <3> HIDE DEF seen
    <3> QED BY <3>1, <3>4 DEF MemberTypeOK
  <2> QED BY <2>1, <2>2
<1>5. CASE CountAdmins(c)
  BY <1>5, GotoTyped, EndTyped DEF CountAdmins, Steps, MemberTypeOK
<1>6. CASE BeginReset(c)
  <2>1. PICK t \in Account : change' = [change EXCEPT ![c] = [Idle EXCEPT !.pc = "reset", !.target = t]]
    BY <1>6 DEF BeginReset
  <2>2. [Idle EXCEPT !.pc = "reset", !.target = t] \in ChangeRecord
    BY IdleTyped DEF ChangeRecord, Steps
  <2> QED BY <1>6, <2>1, <2>2 DEF BeginReset, MemberTypeOK
<1>7. CASE WriteReset(c) \/ Fail(c)
  BY <1>7, EndTyped DEF WriteReset, Fail
<1>8. CASE WriteMember(c)
  BY <1>8 DEF WriteMember
<1> QED BY <1>2, <1>3, <1>4, <1>5, <1>6, <1>7, <1>8 DEF MemberStep

(***************************************************************************)
(* The inductive invariant of the administrative requests.                 *)
(***************************************************************************)
Reads == {"read", "count", "write"}

Held(c) == change[c].pc \in Reads /\ Serialised(change[c].wish) => lock = c

Aimed(c) ==
    /\ change[c].pc # "idle" => change[c].target \in Account
    /\ change[c].pc \in {"count", "write", "reset"} => row[change[c].target].there

\* What a serialised request has read is still so, but that an account may
\* have been enabled since.
Fresh(c) ==
    change[c].pc \in {"count", "write"} /\ Serialised(change[c].wish)
    => LET m == row[change[c].target] IN
       m.role = change[c].role /\ (change[c].status = "active" => m.status = "active")

\* Whatever a serialised request is about to write, an administrator is left.
Spared(c) ==
    change[c].pc = "write" /\ Serialised(change[c].wish)
    => \/ \E b \in Admins : b # change[c].target
       \/ NextRole(c) = "admin" /\ NextStatus(c) = "active"

Safe(c) == Held(c) /\ Aimed(c) /\ Fresh(c) /\ Spared(c)

\* No administrator is lost, and no role changes.
Gentle ==
    \A a \in Account : row[a].there =>
        /\ row'[a].there /\ row'[a].role = row[a].role
        /\ row[a].status = "active" => row'[a].status = "active"

LEMMA GentleKeepsAdmins == Gentle => \A a \in Admins : a \in Admins'
BY DEF Gentle, Admins, ActiveAdmin

LEMMA UntouchedIsGentle == Untouched => Gentle
BY DEF Untouched, Gentle

\* Another request's gentle step leaves a request's claims true.
LEMMA OthersSafe ==
    ASSUME NEW d \in Change, Safe(d), Gentle, change'[d] = change[d],
           lock = d => lock' = d
    PROVE  Safe(d)'
<1>1. Held(d)' /\ Aimed(d)' /\ Fresh(d)'
  BY DEF Safe, Held, Aimed, Fresh, Gentle
<1>2. Spared(d)'
  <2>1. NextRole(d)' = NextRole(d) /\ NextStatus(d)' = NextStatus(d)
    BY DEF NextRole, NextStatus
  <2> QED BY <2>1, GentleKeepsAdmins DEF Safe, Spared
<1> QED BY <1>1, <1>2 DEF Safe

\* The same for a step that writes a row in a way the lock allows: request d
\* holds no claim, since it does not hold the lock.
LEMMA UnlockedSafe ==
    ASSUME NEW d \in Change, Safe(d), change'[d] = change[d], lock # d,
           \A a \in Account : row[a].there => row'[a].there
    PROVE  Safe(d)'
<1>1. ~(change[d].pc \in Reads /\ Serialised(change[d].wish))
  BY DEF Safe, Held
<1>2. Held(d)' /\ Aimed(d)' /\ Fresh(d)' /\ Spared(d)'
  BY <1>1 DEF Safe, Held, Aimed, Fresh, Spared, Reads
<1> QED BY <1>2 DEF Safe

\* Others' claims over a gentle step of c, which gives up only its own lock.
LEMMA GentleStep ==
    ASSUME MemberTypeOK, \A d \in Change : Safe(d), AdminRemains, Gentle,
           NEW c \in Change, Safe(c)', \A d \in Change \ {c} : change'[d] = change[d],
           \A d \in Change \ {c} : lock = d => lock' = d
    PROVE  AdminRemains' /\ \A d \in Change : Safe(d)'
<1>1. AdminRemains'
  BY GentleKeepsAdmins DEF AdminRemains
<1>2. ASSUME NEW d \in Change, d # c
      PROVE  Safe(d)'
  BY <1>2, OthersSafe
<1> QED BY <1>1, <1>2

LEMMA SameRowsGentle == row' = row => Gentle
BY DEF Gentle

LEMMA EndSafe ==
    ASSUME MemberTypeOK, NEW c \in Change, End(c)
    PROVE  Safe(c)'
<1>1. change'[c].pc = "idle"
  BY DEF MemberTypeOK, End, Idle
<1> QED BY <1>1 DEF Safe, Held, Aimed, Fresh, Spared, Reads

\* A step of c leaves the other requests' records and holds alone.
LEMMA OthersKept ==
    ASSUME MemberTypeOK, NEW c \in Change, MemberStep(c)
    PROVE  \A d \in Change \ {c} : change'[d] = change[d] /\ (lock = d => lock' = d)
<1>1. ASSUME End(c)
      PROVE  \A d \in Change \ {c} : change'[d] = change[d] /\ (lock = d => lock' = d)
  BY <1>1 DEF End, MemberTypeOK
<1>2. CASE BeginUpdate(c) \/ BeginReset(c)
  BY <1>2 DEF BeginUpdate, BeginReset, MemberTypeOK
<1>3. CASE TakeLock(c)
  BY <1>3, MembersAssumption DEF TakeLock, Goto, MemberTypeOK
<1>4. CASE ReadMember(c) \/ CountAdmins(c)
  BY <1>1, <1>4 DEF ReadMember, CountAdmins, Goto, MemberTypeOK
<1>5. CASE WriteMember(c) \/ WriteReset(c) \/ Fail(c)
  BY <1>1, <1>5 DEF WriteMember, WriteReset, Fail
<1> QED BY <1>2, <1>3, <1>4, <1>5 DEF MemberStep

LEMMA BeginSafe ==
    ASSUME MemberTypeOK, NEW c \in Change, BeginUpdate(c) \/ BeginReset(c)
    PROVE  Safe(c)'
<1>1. CASE BeginUpdate(c)
  <2>1. PICK t \in Account, w \in Wish, own \in BOOLEAN :
          change' = [change EXCEPT ![c] = Asking(own, t, w)]
    BY <1>1 DEF BeginUpdate
  <2>2. change'[c] = Asking(own, t, w)
    BY <2>1 DEF MemberTypeOK
  <2>3. change'[c].pc = (IF Serialised(w) THEN "lock" ELSE "read")
        /\ change'[c].target = t /\ change'[c].wish = w
    BY <2>2 DEF Asking, Idle
  <2> QED BY <2>3 DEF Safe, Held, Aimed, Fresh, Spared, Reads
<1>2. CASE BeginReset(c)
  <2>1. PICK t \in Account :
          row[t].there /\ change' = [change EXCEPT ![c] = [Idle EXCEPT !.pc = "reset", !.target = t]]
    BY <1>2 DEF BeginReset
  <2>2. change'[c].pc = "reset" /\ change'[c].target = t /\ row'[t].there
    BY <1>2, <2>1 DEF MemberTypeOK, Idle, BeginReset
  <2> QED BY <2>2 DEF Safe, Held, Aimed, Fresh, Spared, Reads
<1> QED BY <1>1, <1>2

LEMMA AnotherAdmin ==
    ASSUME MemberTypeOK, Cardinality(Admins) > 1, NEW t
    PROVE  \E b \in Admins : b # t
<1> SUFFICES ASSUME \A b \in Admins : b = t PROVE FALSE
  OBVIOUS
<1>1. IsFiniteSet({t}) /\ Cardinality({t}) = 1
  BY FS_Singleton
<1>2. Admins \subseteq {t}
  OBVIOUS
<1>3. Cardinality(Admins) <= 1
  BY <1>1, <1>2, FS_Subset
<1>4. Cardinality(Admins) \in Nat
  BY <1>1, <1>2, FS_Subset, FS_CardinalityType
<1> QED BY <1>3, <1>4

LEMMA TakeSafe ==
    ASSUME MemberTypeOK, NEW c \in Change, Safe(c), TakeLock(c)
    PROVE  Safe(c)'
<1>1. change'[c] = [change[c] EXCEPT !.pc = "read"] /\ lock' = c
  BY DEF TakeLock, Goto, MemberTypeOK
<1>2. change'[c].pc = "read" /\ change'[c].target = change[c].target
  BY <1>1 DEF MemberTypeOK, ChangeRecord
<1> QED BY <1>1, <1>2 DEF Safe, Held, Aimed, Fresh, Spared, Reads, TakeLock

LEMMA ReadSafe ==
    ASSUME MemberTypeOK, AdminRemains, NEW c \in Change, Safe(c), ReadMember(c)
    PROVE  Safe(c)'
<1> DEFINE t == change[c].target
           m == row[t]
<1>1. CASE ~m.there
  BY <1>1, EndSafe DEF ReadMember
<1>2. CASE m.there
  <2> DEFINE seen == [change[c] EXCEPT !.role = m.role, !.status = m.status]
             removes == /\ m.role = "admin" /\ m.status = "active"
                        /\ \/ Chosen(seen.wish[1], m.role) # "admin"
                           \/ Chosen(seen.wish[2], m.status) # "active"
             pc == IF removes THEN "count" ELSE "write"
  <2>1. t \in Account /\ change[c] \in ChangeRecord /\ m \in Row
    BY DEF ReadMember, Safe, Aimed, MemberTypeOK
  <2>2. /\ change' = [change EXCEPT ![c] = [seen EXCEPT !.pc = pc]]
        /\ lock' = lock /\ row' = row
    BY <1>2 DEF ReadMember
  <2> HIDE DEF removes
  <2>3. /\ change'[c].pc = pc /\ change'[c].target = t /\ change'[c].wish = change[c].wish
        /\ change'[c].role = m.role /\ change'[c].status = m.status
    BY <2>1, <2>2 DEF MemberTypeOK, ChangeRecord
  <2> HIDE DEF t
  <2>4. Held(c)' /\ Aimed(c)' /\ Fresh(c)'
    BY <1>2, <2>1, <2>2, <2>3 DEF ReadMember, Safe, Held, Aimed, Fresh, Reads
  <2>5. ASSUME ~removes
        PROVE  \/ \E b \in Admins : b # t
               \/ Chosen(change[c].wish[1], m.role) = "admin"
                  /\ Chosen(change[c].wish[2], m.status) = "active"
    <3>1. seen.wish = change[c].wish
      BY <2>1 DEF ChangeRecord
    <3> HIDE DEF m, seen
    <3>2. CASE m.role = "admin" /\ m.status = "active"
      BY <2>5, <3>1, <3>2 DEF removes
    <3>3. CASE ~(m.role = "admin" /\ m.status = "active")
      BY <3>3 DEF AdminRemains, Admins, ActiveAdmin, m
    <3> QED BY <3>2, <3>3
  <2>6. Admins' = Admins
    BY <2>2 DEF Admins, ActiveAdmin
  <2>7. NextRole(c)' = Chosen(change[c].wish[1], m.role)
        /\ NextStatus(c)' = Chosen(change[c].wish[2], m.status)
    BY <2>3 DEF NextRole, NextStatus
  <2>8. Spared(c)'
    <3> HIDE DEF m
    <3> QED BY <2>3, <2>5, <2>6, <2>7 DEF Spared
  <2> QED BY <2>4, <2>8 DEF Safe
<1> QED BY <1>1, <1>2

LEMMA CountSafe ==
    ASSUME MemberTypeOK, NEW c \in Change, Safe(c), CountAdmins(c)
    PROVE  Safe(c)'
<1>1. CASE Cardinality(Admins) <= 1
  BY <1>1, EndSafe DEF CountAdmins
<1>2. CASE ~(Cardinality(Admins) <= 1)
  <2>1. change'[c] = [change[c] EXCEPT !.pc = "write"] /\ lock' = lock /\ row' = row
    BY <1>2 DEF CountAdmins, Goto, MemberTypeOK
  <2>2. /\ change'[c].pc = "write" /\ change'[c].target = change[c].target
        /\ change'[c].wish = change[c].wish /\ change'[c].role = change[c].role
        /\ change'[c].status = change[c].status
    BY <2>1 DEF MemberTypeOK, ChangeRecord
  <2>3. Admins' = Admins
    BY <2>1 DEF Admins, ActiveAdmin
  <2>4. Cardinality(Admins) > 1
    <3>1. IsFiniteSet(Admins)
      BY MembersAssumption, FS_Subset DEF Admins
    <3>2. Cardinality(Admins) \in Nat
      BY <3>1, FS_CardinalityType
    <3> QED BY <1>2, <3>2
  <2>5. \E b \in Admins : b # change[c].target
    BY <2>4, AnotherAdmin
  <2>6. Held(c)' /\ Aimed(c)' /\ Fresh(c)'
    BY <2>1, <2>2 DEF CountAdmins, Safe, Held, Aimed, Fresh, Reads
  <2>7. Spared(c)'
    BY <2>2, <2>3, <2>5 DEF Spared
  <2> QED BY <2>6, <2>7 DEF Safe
<1> QED BY <1>1, <1>2

(***************************************************************************)
(* The write: serialised, it holds the lock; unserialised, it is gentle.   *)
(***************************************************************************)
LEMMA WriteTyped ==
    ASSUME MemberTypeOK, NEW c \in Change, Safe(c), WriteMember(c)
    PROVE  MemberTypeOK'
<1>1. change' \in [Change -> ChangeRecord] /\ lock' \in Change \cup {Nobody}
  BY EndTyped DEF WriteMember
<1>2. change[c].target \in Account
  BY DEF WriteMember, Safe, Aimed
<1>3. CASE DisablesSelf(c)
  BY <1>1, <1>3 DEF WriteMember, MemberTypeOK
<1>4. CASE ~DisablesSelf(c)
  BY <1>1, <1>2, <1>4, WriteColumns DEF MemberTypeOK
<1> QED BY <1>3, <1>4

LEMMA WriteGentle ==
    ASSUME MemberTypeOK, NEW c \in Change, Safe(c), WriteMember(c),
           DisablesSelf(c) \/ ~Serialised(change[c].wish)
    PROVE  Gentle
<1>1. CASE DisablesSelf(c)
  BY <1>1, SameRowsGentle DEF WriteMember
<1>2. CASE ~DisablesSelf(c)
  <2> DEFINE t == change[c].target
  <2>1. t \in Account
    BY DEF WriteMember, Safe, Aimed
  <2>2. /\ \A a \in Account : row'[a].there = row[a].there
        /\ \A a \in Account \ {t} : row'[a] = row[a]
        /\ row'[t].role = IF NextRole(c) # change[c].role THEN NextRole(c) ELSE row[t].role
        /\ row'[t].status = IF NextStatus(c) # change[c].status
                            THEN NextStatus(c) ELSE row[t].status
    BY <1>2, <2>1, WriteColumns
  <2>3. change[c].wish[1] = "keep" /\ change[c].wish[2] # "disabled"
    BY <1>2 DEF Serialised
  <2>4. NextRole(c) = change[c].role
    BY <2>3 DEF NextRole, Chosen
  <2>5. change[c].wish[2] \in {"keep", "active"}
    <3>1. change[c].wish[2] \in Status \cup {"keep"}
      BY WishTyped DEF MemberTypeOK, ChangeRecord
    <3> QED BY <2>3, <3>1 DEF Status
  <2>6. NextStatus(c) \in {change[c].status, "active"}
    BY <2>5 DEF NextStatus, Chosen
  <2> HIDE DEF t
  <2> QED BY <2>2, <2>4, <2>6 DEF Gentle
<1> QED BY <1>1, <1>2

LEMMA WriteSerialised ==
    ASSUME MemberTypeOK, AdminRemains, \A d \in Change : Safe(d), NEW c \in Change,
           WriteMember(c), ~DisablesSelf(c), Serialised(change[c].wish)
    PROVE  /\ AdminRemains' /\ \A d \in Change : Safe(d)'
           /\ row'[change[c].target].role = NextRole(c)
<1> DEFINE t == change[c].target
<1>1. lock = c /\ t \in Account /\ Fresh(c) /\ Spared(c) /\ change[c].pc = "write"
  BY DEF WriteMember, Safe, Held, Aimed, Reads
<1>2. /\ \A a \in Account : row'[a].there = row[a].there
      /\ \A a \in Account \ {t} : row'[a] = row[a]
      /\ row'[t].role = IF NextRole(c) # change[c].role THEN NextRole(c) ELSE row[t].role
      /\ row'[t].status = IF NextStatus(c) # change[c].status
                          THEN NextStatus(c) ELSE row[t].status
  BY <1>1, WriteColumns
<1>3. row[t].role = change[c].role
      /\ (change[c].status = "active" => row[t].status = "active") /\ row[t].there
  BY <1>1 DEF Fresh, Safe, Aimed
<1> HIDE DEF t
<1>4. row'[t].role = NextRole(c)
  BY <1>2, <1>3
<1>5. AdminRemains'
  <2>1. CASE \E b \in Admins : b # t
    BY <1>2, <2>1 DEF AdminRemains, Admins, ActiveAdmin
  <2>2. CASE NextRole(c) = "admin" /\ NextStatus(c) = "active"
    <3>1. row'[t].role = "admin" /\ row'[t].status = "active" /\ row'[t].there
      BY <1>1, <1>2, <1>3, <1>4, <2>2
    <3> QED BY <1>1, <3>1 DEF AdminRemains, Admins, ActiveAdmin
  <2> QED BY <1>1, <2>1, <2>2 DEF Spared, t
<1>6. ASSUME NEW d \in Change
      PROVE  Safe(d)'
  <2>1. CASE d = c
    BY <2>1, EndSafe DEF WriteMember
  <2>2. CASE d # c
    <3>1. change'[d] = change[d]
      BY <2>2 DEF WriteMember, End, MemberTypeOK
    <3> QED BY <1>1, <1>2, <2>2, <3>1, UnlockedSafe
  <2> QED BY <2>1, <2>2
<1> QED BY <1>4, <1>5, <1>6 DEF t

LEMMA MemberSafe ==
    ASSUME MemberTypeOK, AdminRemains, \A d \in Change : Safe(d), NEW c \in Change,
           MemberStep(c)
    PROVE  MemberTypeOK' /\ AdminRemains' /\ \A d \in Change : Safe(d)'
<1>1. CASE WriteMember(c)
  <2>1. CASE DisablesSelf(c) \/ ~Serialised(change[c].wish)
    BY <1>1, <2>1, WriteGentle, WriteTyped, GentleStep, OthersKept, EndSafe DEF WriteMember
  <2>2. CASE ~DisablesSelf(c) /\ Serialised(change[c].wish)
    BY <1>1, <2>2, WriteSerialised, WriteTyped
  <2> QED BY <2>1, <2>2
<1>2. CASE WriteReset(c)
  <2>1. change[c].target \in Account
    BY <1>2 DEF WriteReset, Safe, Aimed
  <2>2. Untouched
    BY <1>2, <2>1, SetMustChange DEF WriteReset, MemberTypeOK
  <2>3. MemberTypeOK'
    BY <1>2, <2>2, EndTyped DEF WriteReset, MemberTypeOK, Untouched
  <2> QED BY <1>2, <2>2, <2>3, UntouchedIsGentle, GentleStep, OthersKept, EndSafe DEF WriteReset
<1>3. CASE ~WriteMember(c) /\ ~WriteReset(c)
  <2>1. row' = row
    BY <1>3 DEF MemberStep, BeginUpdate, TakeLock, ReadMember, CountAdmins, BeginReset, Fail
  <2>2. Safe(c)'
    BY <1>3, BeginSafe, TakeSafe, ReadSafe, CountSafe, EndSafe DEF MemberStep, Fail
  <2>3. MemberTypeOK'
    <3>1. change[c].pc # "write" \/ Fail(c)
      BY <1>3 DEF MemberStep, BeginUpdate, TakeLock, ReadMember, CountAdmins, BeginReset
    <3>2. change[c].pc = "read" => change[c].target \in Account
      BY DEF Safe, Aimed
    <3> QED BY <2>1, <3>1, <3>2, ChangeTypes, EndTyped DEF MemberTypeOK, Fail
  <2> QED BY <2>1, <2>2, <2>3, SameRowsGentle, GentleStep, OthersKept
<1> QED BY <1>1, <1>2, <1>3

(***************************************************************************)
(* Callbacks and creations: where a sign-in lands.                         *)
(***************************************************************************)
Kept ==
    \A a \in Account : row[a].there =>
        row'[a].there /\ row'[a].source = row[a].source /\ row'[a].sub = row[a].sub

Lands(e) ==
    /\ entry[e].pc \in {"lookup", "rewrite", "resolve"} => entry[e].sub \in Subject
    /\ entry[e].pc \in {"rewrite", "landed"} =>
          /\ entry[e].account \in Account
          /\ LET r == row[entry[e].account] IN
             /\ r.there /\ r.sub = entry[e].sub
             /\ r.source = IF entry[e].sub = Nobody THEN "local" ELSE "sso"

LEMMA SomeAddress == Address # {}
BY DirectoryAssumption DEF Row

LEMMA MemberKeeps ==
    ASSUME MemberTypeOK, NEW c \in Change, Safe(c), MemberStep(c)
    PROVE  Kept
<1>1. CASE WriteMember(c)
  <2>1. change[c].target \in Account
    BY <1>1 DEF WriteMember, Safe, Aimed
  <2>2. CASE DisablesSelf(c)
    BY <1>1, <2>2 DEF WriteMember, Kept
  <2>3. CASE ~DisablesSelf(c)
    BY <1>1, <2>1, <2>3, WriteColumns DEF Kept
  <2> QED BY <2>2, <2>3
<1>2. CASE WriteReset(c)
  <2>1. change[c].target \in Account
    BY <1>2 DEF WriteReset, Safe, Aimed
  <2> QED BY <1>2, <2>1, SetMustChange DEF WriteReset, MemberTypeOK, Untouched, Kept
<1>3. CASE ~WriteMember(c) /\ ~WriteReset(c)
  BY <1>3 DEF MemberStep, BeginUpdate, TakeLock, ReadMember, CountAdmins, BeginReset, Fail, Kept
<1> QED BY <1>1, <1>2, <1>3

LEMMA StillLands ==
    ASSUME NEW e \in Entry, Lands(e), Kept, entry'[e] = entry[e]
    PROVE  Lands(e)'
BY DEF Lands, Kept

\* A callback or creation leaves the members untouched but for the row it adds
\* or the address it moves.
LEMMA EntryUntouched ==
    ASSUME TypeOK, NEW e \in Entry, Lands(e), EntryStep(e)
    PROVE  Untouched /\ UNCHANGED <<lock, change>>
<1>1. CASE Insert(e)
  <2>1. New(e) \in Row
    BY DEF TypeOK, EntryRecord, New, Row, Role, Status, Source
  <2>2. row' = row => Untouched
    BY DEF Untouched, TypeOK, MemberTypeOK
  <2>3. ASSUME NEW a \in Account, ~row[a].there, row' = [row EXCEPT ![a] = New(e)]
        PROVE  Untouched
    BY <2>1, <2>3, AddRow DEF TypeOK, MemberTypeOK
  <2> QED BY <1>1, <2>2, <2>3 DEF Insert
<1>2. CASE Rewrite(e)
  <2>1. entry[e].account \in Account /\ entry[e].addr \in Address
    BY <1>2 DEF Rewrite, Lands, TypeOK, EntryRecord
  <2>2. row' = row => Untouched
    BY DEF Untouched, TypeOK, MemberTypeOK
  <2>3. ASSUME row' = [row EXCEPT ![entry[e].account].addr = entry[e].addr]
        PROVE  Untouched
    BY <2>1, <2>3, SetAddress DEF TypeOK, MemberTypeOK
  <2> QED BY <1>2, <2>2, <2>3 DEF Rewrite
<1>3. CASE UNCHANGED memberVars
  BY <1>3 DEF memberVars, Untouched, TypeOK, MemberTypeOK
<1> QED BY <1>1, <1>2, <1>3
    DEF EntryStep, BeginCallback, BeginCreate, Lookup, CheckHeld, Resolve, Leave

LEMMA EntryLands ==
    ASSUME TypeOK, NEW e \in Entry, Lands(e), EntryStep(e)
    PROVE  /\ entry' \in [Entry -> EntryRecord] /\ Lands(e)'
           /\ \A d \in Entry \ {e} : entry'[d] = entry[d]
<1> USE SomeAddress, RestingTyped DEF TypeOK
<1>0. entry[e] \in EntryRecord /\ entry \in [Entry -> EntryRecord]
  OBVIOUS
<1>1. CASE BeginCallback(e)
  <2>1. PICK claim \in Claim : entry' = [entry EXCEPT ![e] =
           [Resting EXCEPT !.pc = "lookup", !.sub = claim[1], !.addr = claim[2]]]
    BY <1>1 DEF BeginCallback
  <2> DEFINE rec == [Resting EXCEPT !.pc = "lookup", !.sub = claim[1], !.addr = claim[2]]
  <2>2. claim[1] \in Subject /\ claim[2] \in Address
    BY DirectoryAssumption
  <2>3. rec \in EntryRecord /\ rec.pc = "lookup" /\ rec.sub = claim[1]
    BY <2>2 DEF EntryRecord, EntrySteps
  <2>4. entry' = [entry EXCEPT ![e] = rec]
    BY <2>1
  <2> HIDE DEF rec
  <2>5. entry'[e] = rec
    BY <1>0, <2>4
  <2> QED BY <1>0, <2>2, <2>3, <2>4, <2>5 DEF Lands
<1>2. CASE BeginCreate(e)
  <2>1. PICK addr \in Address :
          entry' = [entry EXCEPT ![e] = [Resting EXCEPT !.pc = "held", !.addr = addr]]
    BY <1>2 DEF BeginCreate
  <2> DEFINE rec == [Resting EXCEPT !.pc = "held", !.addr = addr]
  <2>2. rec \in EntryRecord /\ rec.pc = "held"
    BY DEF EntryRecord, EntrySteps
  <2>3. entry' = [entry EXCEPT ![e] = rec]
    BY <2>1
  <2> HIDE DEF rec
  <2>4. entry'[e] = rec
    BY <1>0, <2>3
  <2> QED BY <1>0, <2>2, <2>3, <2>4 DEF Lands
<1>3. CASE Lookup(e)
  <2>1. CASE \E a \in Account :
               /\ Names(a, entry[e].sub)
               /\ entry' = [entry EXCEPT ![e].pc = "rewrite", ![e].account = a,
                                         ![e].same = row[a].addr = entry[e].addr]
    <3>1. PICK a \in Account :
               /\ Names(a, entry[e].sub)
               /\ entry' = [entry EXCEPT ![e].pc = "rewrite", ![e].account = a,
                                         ![e].same = row[a].addr = entry[e].addr]
      BY <2>1
    <3>2. /\ entry' \in [Entry -> EntryRecord] /\ entry'[e].pc = "rewrite"
          /\ entry'[e].account = a /\ entry'[e].sub = entry[e].sub
          /\ \A d \in Entry \ {e} : entry'[d] = entry[d]
      BY <1>0, <3>1 DEF EntryRecord, EntrySteps
    <3>3. entry[e].sub \in Subject /\ row' = row
      BY <1>3 DEF Lookup, Lands, memberVars
    <3> QED BY <3>1, <3>2, <3>3, MembersAssumption DEF Names, Lands
  <2>2. CASE Move(e, "held")
    BY <1>0, <2>2 DEF Move, EntryRecord, EntrySteps, Lands
  <2> QED BY <1>3, <2>1, <2>2 DEF Lookup
<1>4. CASE CheckHeld(e)
  <2>1. PICK pc \in {"refused", "insert"} : entry' = [entry EXCEPT ![e].pc = pc]
    BY <1>4 DEF CheckHeld, Move
  <2> QED BY <1>0, <2>1 DEF EntryRecord, EntrySteps, Lands
<1>5. CASE Insert(e)
  <2>1. CASE Move(e, IF entry[e].sub = Nobody THEN "refused" ELSE "resolve")
    BY <1>0, <2>1 DEF Move, EntryRecord, EntrySteps, Lands
  <2>2. CASE \E a \in Account :
               /\ row' = [row EXCEPT ![a] = New(e)]
               /\ entry' = [entry EXCEPT ![e].pc = "landed", ![e].account = a]
    <3>1. PICK a \in Account :
               /\ row' = [row EXCEPT ![a] = New(e)]
               /\ entry' = [entry EXCEPT ![e].pc = "landed", ![e].account = a]
      BY <2>2
    <3>2. /\ entry' \in [Entry -> EntryRecord] /\ entry'[e].pc = "landed"
          /\ entry'[e].account = a /\ entry'[e].sub = entry[e].sub
          /\ \A d \in Entry \ {e} : entry'[d] = entry[d]
      BY <1>0, <3>1 DEF EntryRecord, EntrySteps
    <3>3. row'[a] = New(e)
      BY <3>1 DEF MemberTypeOK
    <3>4. /\ row'[a].there /\ row'[a].sub = entry[e].sub
          /\ row'[a].source = IF entry[e].sub = Nobody THEN "local" ELSE "sso"
      BY <3>3 DEF New
    <3> QED BY <3>2, <3>4 DEF Lands
  <2> QED BY <1>5, <2>1, <2>2 DEF Insert
<1>6. CASE Rewrite(e)
  <2>1. PICK pc \in {"landed", "resolve"} : entry' = [entry EXCEPT ![e].pc = pc]
    BY <1>6 DEF Rewrite, Move
  <2>2. /\ entry' \in [Entry -> EntryRecord] /\ entry'[e].pc \in {"landed", "resolve"}
        /\ entry'[e].account = entry[e].account /\ entry'[e].sub = entry[e].sub
        /\ \A d \in Entry \ {e} : entry'[d] = entry[d]
    BY <1>0, <2>1 DEF EntryRecord, EntrySteps
  <2>3. Kept
    BY <1>6, EntryUntouched DEF Untouched, Kept, EntryStep
  <2>4. entry[e].pc = "rewrite"
    BY <1>6 DEF Rewrite
  <2> QED BY <2>2, <2>3, <2>4 DEF Lands, Kept
<1>7. CASE Resolve(e)
  <2>1. CASE \E a \in Account :
               /\ Names(a, entry[e].sub)
               /\ entry' = [entry EXCEPT ![e].pc = "landed", ![e].account = a]
    <3>1. PICK a \in Account :
               /\ Names(a, entry[e].sub)
               /\ entry' = [entry EXCEPT ![e].pc = "landed", ![e].account = a]
      BY <2>1
    <3>2. /\ entry' \in [Entry -> EntryRecord] /\ entry'[e].pc = "landed"
          /\ entry'[e].account = a /\ entry'[e].sub = entry[e].sub
          /\ \A d \in Entry \ {e} : entry'[d] = entry[d]
      BY <1>0, <3>1 DEF EntryRecord, EntrySteps
    <3>3. entry[e].sub \in Subject /\ row' = row
      BY <1>7 DEF Resolve, Lands, memberVars
    <3> QED BY <3>1, <3>2, <3>3, MembersAssumption DEF Names, Lands
  <2>2. CASE Move(e, "refused")
    BY <1>0, <2>2 DEF Move, EntryRecord, EntrySteps, Lands
  <2> QED BY <1>7, <2>1, <2>2 DEF Resolve
<1>8. CASE Leave(e)
  BY <1>0, <1>8 DEF Leave, Resting, Lands
<1> QED BY <1>1, <1>2, <1>3, <1>4, <1>5, <1>6, <1>7, <1>8 DEF EntryStep

(***************************************************************************)
(* The invariant, and the theorems.                                        *)
(***************************************************************************)
DInv ==
    /\ TypeOK
    /\ AdminRemains
    /\ \A c \in Change : Safe(c)
    /\ \A e \in Entry : Lands(e)

LEMMA InitDInv == Init => DInv
<1> SUFFICES ASSUME Init PROVE DInv
  OBVIOUS
<1>1. TypeOK
  BY DirectoryAssumption, IdleTyped, RestingTyped, SomeAddress DEF Init, TypeOK, MemberTypeOK
<1>2. AdminRemains
  BY DirectoryAssumption DEF Init, AdminRemains, Admins, ActiveAdmin
<1>3. \A c \in Change : Safe(c)
  <2>1. \A c \in Change : change[c].pc = "idle"
    BY DEF Init, Idle
  <2> QED BY <2>1 DEF Safe, Held, Aimed, Fresh, Spared, Reads
<1>4. \A e \in Entry : Lands(e)
  BY DEF Init, Resting, Lands
<1> QED BY <1>1, <1>2, <1>3, <1>4 DEF DInv

\* A step of the sign-in side, or of an account's owner.
LEMMA UntouchedStep ==
    ASSUME DInv, Untouched, UNCHANGED <<lock, change>>
    PROVE  MemberTypeOK' /\ AdminRemains' /\ (\A c \in Change : Safe(c)') /\ Kept
<1>1. Gentle
  BY UntouchedIsGentle
<1>2. AdminRemains'
  BY <1>1, GentleKeepsAdmins DEF DInv, AdminRemains
<1>3. \A c \in Change : Safe(c)'
  BY <1>1, OthersSafe DEF DInv
<1>4. MemberTypeOK'
  BY DEF DInv, TypeOK, MemberTypeOK, Untouched
<1> QED BY <1>2, <1>3, <1>4 DEF Untouched, Kept

LEMMA StepDInv == DInv /\ [Next]_vars => DInv'
<1> SUFFICES ASSUME DInv, [Next]_vars PROVE DInv'
  OBVIOUS
<1>1. CASE UNCHANGED vars
  BY <1>1 DEF vars, memberVars, DInv, TypeOK, MemberTypeOK, AdminRemains, Admins, ActiveAdmin,
     Safe, Held, Aimed, Fresh, Spared, Lands, NextRole, NextStatus
<1>2. ASSUME NEW c \in Change, MemberStep(c), UNCHANGED entry
      PROVE  DInv'
  <2>1. MemberTypeOK' /\ AdminRemains' /\ \A d \in Change : Safe(d)'
    BY <1>2, MemberSafe DEF DInv, TypeOK
  <2>2. Kept
    BY <1>2, MemberKeeps DEF DInv, TypeOK
  <2>3. \A e \in Entry : Lands(e)'
    BY <1>2, <2>2, StillLands DEF DInv
  <2> QED BY <1>2, <2>1, <2>3 DEF DInv, TypeOK
<1>3. ASSUME NEW a \in Account, ChangeOwnPassword(a), UNCHANGED entry
      PROVE  DInv'
  <2>1. Untouched
    BY <1>3, SetMustChange DEF ChangeOwnPassword, DInv, TypeOK, MemberTypeOK
  <2>2. MemberTypeOK' /\ AdminRemains' /\ (\A c \in Change : Safe(c)') /\ Kept
    BY <1>3, <2>1, UntouchedStep DEF ChangeOwnPassword
  <2>3. \A e \in Entry : Lands(e)'
    BY <1>3, <2>2, StillLands DEF DInv
  <2> QED BY <1>3, <2>2, <2>3 DEF DInv, TypeOK
<1>4. ASSUME NEW e \in Entry, EntryStep(e)
      PROVE  DInv'
  <2>1. Untouched /\ UNCHANGED <<lock, change>>
    BY <1>4, EntryUntouched DEF DInv
  <2>2. MemberTypeOK' /\ AdminRemains' /\ (\A c \in Change : Safe(c)') /\ Kept
    BY <2>1, UntouchedStep
  <2>3. /\ entry' \in [Entry -> EntryRecord] /\ Lands(e)'
        /\ \A d \in Entry \ {e} : entry'[d] = entry[d]
    BY <1>4, EntryLands DEF DInv
  <2>4. \A d \in Entry : Lands(d)'
    BY <2>2, <2>3, StillLands DEF DInv
  <2> QED BY <2>2, <2>3, <2>4 DEF DInv, TypeOK
<1> QED BY <1>1, <1>2, <1>3, <1>4 DEF Next

LEMMA Inductive == Spec => []DInv
BY InitDInv, StepDInv, PTL DEF Spec

\* Every row, request and sign-in keeps its shape, whatever interleaves.
THEOREM DirectoryTypeCorrect == Spec => []TypeOK
<1>1. DInv => TypeOK
  BY DEF DInv
<1> QED BY <1>1, Inductive, PTL

\* A tenant that starts with an active administrator always has one (C-29).
THEOREM AnAdminAlwaysRemains == Spec => []AdminRemains
<1>1. DInv => AdminRemains
  BY DEF DInv
<1> QED BY <1>1, Inductive, PTL

\* No sign-in ends on an account of another identity (C-103, C-114).
THEOREM SignInsLandOnTheirOwn == Spec => []LandsOnOwn
<1>1. DInv => LandsOnOwn
  BY DEF DInv, Lands, LandsOnOwn
<1> QED BY <1>1, Inductive, PTL

\* A role change answered with success is in the row.
THEOREM RoleChangesLand == Spec => RoleChangeLands
<1>1. DInv => [\A c \in Change :
                 WriteMember(c) /\ ~DisablesSelf(c) /\ change[c].wish[1] # "keep"
                 => row'[change[c].target].role = change[c].wish[1]]_memberVars
  <2> SUFFICES ASSUME DInv, NEW c \in Change, WriteMember(c), ~DisablesSelf(c),
                      change[c].wish[1] # "keep"
               PROVE  row'[change[c].target].role = change[c].wish[1]
    OBVIOUS
  <2>1. row'[change[c].target].role = NextRole(c)
    BY WriteSerialised DEF DInv, TypeOK, Serialised
  <2> QED BY <2>1 DEF NextRole, Chosen
<1> QED BY <1>1, Inductive, PTL DEF RoleChangeLands
=============================================================================
