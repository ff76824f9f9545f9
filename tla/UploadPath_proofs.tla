-------------------------- MODULE UploadPath_proofs --------------------------
EXTENDS UploadPath, FiniteSetTheorems, TLAPS

(***************************************************************************)
(* Counting.                                                               *)
(***************************************************************************)
LEMMA CardAdd ==
    ASSUME NEW S, IsFiniteSet(S), NEW r, r \notin S
    PROVE  Cardinality(S \cup {r}) = Cardinality(S) + 1
BY FS_AddElement

LEMMA CardRemove ==
    ASSUME NEW S, IsFiniteSet(S), NEW r \in S
    PROVE  Cardinality(S \ {r}) = Cardinality(S) - 1 /\ Cardinality(S) > 0
<1>1. Cardinality(S \ {r}) = Cardinality(S) - 1
  BY FS_RemoveElement
<1>2. Cardinality(S) \in Nat /\ Cardinality(S) # 0
  BY FS_CardinalityType, FS_EmptySet
<1> QED BY <1>1, <1>2

\* The set S gains r, loses it, or stays, as r belongs to it afterwards.
With(S, r, belongs) == IF belongs THEN S \cup {r} ELSE S \ {r}

LEMMA CardWith ==
    ASSUME NEW S, IsFiniteSet(S), NEW r, NEW belongs \in BOOLEAN
    PROVE  /\ Cardinality(S) \in Nat
           /\ belongs /\ r \notin S => Cardinality(With(S, r, belongs)) = Cardinality(S) + 1
           /\ ~belongs /\ r \in S => Cardinality(With(S, r, belongs)) = Cardinality(S) - 1
           /\ (belongs <=> r \in S) => With(S, r, belongs) = S
           /\ r \in S => Cardinality(S) > 0
<1>1. Cardinality(S) \in Nat
  BY FS_CardinalityType
<1>2. belongs /\ r \notin S => Cardinality(With(S, r, belongs)) = Cardinality(S) + 1
  BY CardAdd DEF With
<1>3. ~belongs /\ r \in S => Cardinality(With(S, r, belongs)) = Cardinality(S) - 1
  BY CardRemove DEF With
<1>4. (belongs <=> r \in S) => With(S, r, belongs) = S
  BY DEF With
<1>5. r \in S => Cardinality(S) > 0
  BY CardRemove
<1> QED BY <1>1, <1>2, <1>3, <1>4, <1>5

(***************************************************************************)
(* The books of one user, by number.                                       *)
(***************************************************************************)
Books(slot, counted, permits) ==
    /\ slot \in UserSlot /\ slot.requests = counted
    /\ slot.there <=> counted > 0
    /\ slot.there => slot.free + permits = PerUser

LEMMA LeftBooks ==
    ASSUME NEW slot, NEW n \in Nat, NEW p \in Nat, Books(slot, n, p), n > 0
    PROVE  Books(Left(slot), n - 1, p)
BY DEF Books, Left, NoSlot, UserSlot

LEMMA GivenBackBooks ==
    ASSUME NEW slot, NEW n \in Nat, NEW p \in Nat, Books(slot, n, p), n > 0, p > 0
    PROVE  Books(GivenBack(slot), n - 1, p - 1)
<1> DEFINE back == [slot EXCEPT !.free = @ + 1]
<1>1. Books(back, n, p - 1)
  BY UploadAssumption DEF Books, UserSlot
<1> QED BY <1>1, LeftBooks DEF GivenBack

\* The entry a request of the user joins.
Joined(slot) ==
    IF slot.there THEN slot ELSE [there |-> TRUE, requests |-> 0, free |-> PerUser]

LEMMA JoinedBooks ==
    ASSUME NEW slot, NEW n \in Nat, NEW p \in Nat, Books(slot, n, p), n = 0 => p = 0
    PROVE  Books([Joined(slot) EXCEPT !.requests = @ + 1], n + 1, p)
<1>1. /\ Joined(slot) \in UserSlot /\ Joined(slot).there
      /\ Joined(slot).requests = n /\ Joined(slot).free + p = PerUser
  BY UploadAssumption DEF Books, UserSlot, Joined
<1> DEFINE more == [Joined(slot) EXCEPT !.requests = @ + 1]
<1>2. /\ more \in UserSlot /\ more.there /\ more.requests = n + 1
      /\ more.free = Joined(slot).free
  BY <1>1 DEF UserSlot
<1> HIDE DEF more
<1>3. Books(more, n + 1, p)
  BY <1>1, <1>2 DEF Books
<1> QED BY <1>3 DEF more

LEMMA TakenBooks ==
    ASSUME NEW slot, NEW n \in Nat, NEW p \in Nat, Books(slot, n, p), n > 0, slot.free > 0
    PROVE  Books([slot EXCEPT !.free = @ - 1], n, p + 1)
<1>1. slot.free - 1 \in Nat /\ (slot.free - 1) + (p + 1) = slot.free + p
  BY DEF Books, UserSlot
<1>2. slot.there /\ slot \in UserSlot /\ slot.requests = n
  BY DEF Books
<1> DEFINE less == slot.free - 1
<1>3. [slot EXCEPT !.free = less] \in UserSlot
  BY <1>1, <1>2 DEF UserSlot
<1> HIDE DEF less
<1>4. [slot EXCEPT !.free = less].free = less
  BY <1>2 DEF UserSlot
<1>5. Books([slot EXCEPT !.free = less], n, p + 1)
  BY <1>1, <1>2, <1>3, <1>4 DEF Books, UserSlot, less
<1> QED BY <1>5 DEF less

(***************************************************************************)
(* The invariant of the slots.                                             *)
(***************************************************************************)
Record == [pc : UploadSteps, leased : BOOLEAN]

Counts(r) == Has(r, {"userwait", "slotwait"}) \/ upload[r].leased
Permits(r) == Has(r, {"slotwait"}) \/ upload[r].leased

SlotInv ==
    /\ free \in Nat /\ users \in [User -> UserSlot] /\ upload \in [Request -> Record]
    /\ \A r \in Request : upload[r].leased => Has(r, {"parsing", "handling"})
    /\ free + Cardinality(Leases) = MaxSlots
    /\ \A u \in User : Books(users[u], Cardinality(Counted(u)), Cardinality(UserPermits(u)))

LEMMA FiniteSets ==
    /\ IsFiniteSet(Leases)
    /\ \A u \in User : IsFiniteSet(Counted(u)) /\ IsFiniteSet(UserPermits(u))
<1>1. \A S \in SUBSET Request : IsFiniteSet(S)
  BY UploadAssumption, FS_Subset
<1> QED BY <1>1 DEF Leases, Counted, UserPermits, Of

\* A step moves one request, and the sets it is counted in change by it alone.
LEMMA Moved ==
    ASSUME upload \in [Request -> Record], NEW r \in Request, NEW rec \in Record,
           upload' = [upload EXCEPT ![r] = rec]
    PROVE  /\ upload' \in [Request -> Record] /\ upload'[r] = rec
           /\ \A q \in Request \ {r} : upload'[q] = upload[q]
           /\ Leases' = With(Leases, r, rec.leased)
           /\ \A u \in User : UserOf[r] # u => Counted(u)' = Counted(u)
                                             /\ UserPermits(u)' = UserPermits(u)
           /\ Counted(UserOf[r])' = With(Counted(UserOf[r]), r,
                  rec.pc \in {"userwait", "slotwait"} \/ rec.leased)
           /\ UserPermits(UserOf[r])' = With(UserPermits(UserOf[r]), r,
                  rec.pc \in {"slotwait"} \/ rec.leased)
<1>1. /\ upload' \in [Request -> Record] /\ upload'[r] = rec
      /\ \A q \in Request \ {r} : upload'[q] = upload[q]
  OBVIOUS
<1>2. Leases' = With(Leases, r, rec.leased)
  BY <1>1 DEF Leases, With
<1>3. \A u \in User : UserOf[r] # u => Counted(u)' = Counted(u)
                                    /\ UserPermits(u)' = UserPermits(u)
  BY <1>1 DEF Counted, UserPermits, Of, Has
<1>4. Counted(UserOf[r])' = With(Counted(UserOf[r]), r,
         rec.pc \in {"userwait", "slotwait"} \/ rec.leased)
  BY <1>1 DEF Counted, Of, Has, With
<1>5. UserPermits(UserOf[r])' = With(UserPermits(UserOf[r]), r,
         rec.pc \in {"slotwait"} \/ rec.leased)
  BY <1>1 DEF UserPermits, Of, Has, With
<1> QED BY <1>1, <1>2, <1>3, <1>4, <1>5

LEMMA UserTyped == \A r \in Request : UserOf[r] \in User
BY UploadAssumption

\* What is left to show of a step that moves r: the books of r's own user and
\* the process-wide permits.
LEMMA StepSlots ==
    ASSUME SlotInv, NEW r \in Request, NEW rec \in Record, NEW slot,
           upload' = [upload EXCEPT ![r] = rec],
           users' = [users EXCEPT ![UserOf[r]] = slot],
           rec.leased => rec.pc \in {"parsing", "handling"},
           free' \in Nat, free' + Cardinality(With(Leases, r, rec.leased)) = MaxSlots,
           Books(slot, Cardinality(With(Counted(UserOf[r]), r,
                           rec.pc \in {"userwait", "slotwait"} \/ rec.leased)),
                       Cardinality(With(UserPermits(UserOf[r]), r,
                           rec.pc \in {"slotwait"} \/ rec.leased)))
    PROVE  SlotInv'
<1> DEFINE u == UserOf[r]
<1>1. /\ upload' \in [Request -> Record] /\ upload'[r] = rec
      /\ \A q \in Request \ {r} : upload'[q] = upload[q]
      /\ Leases' = With(Leases, r, rec.leased)
      /\ \A v \in User : u # v => Counted(v)' = Counted(v) /\ UserPermits(v)' = UserPermits(v)
      /\ Counted(u)' = With(Counted(u), r, rec.pc \in {"userwait", "slotwait"} \/ rec.leased)
      /\ UserPermits(u)' = With(UserPermits(u), r, rec.pc \in {"slotwait"} \/ rec.leased)
  BY Moved DEF SlotInv
<1>2. u \in User /\ slot \in UserSlot
  BY UserTyped DEF Books
<1>3. users' \in [User -> UserSlot] /\ users'[u] = slot
      /\ \A v \in User \ {u} : users'[v] = users[v]
  BY <1>2 DEF SlotInv
<1>4. \A q \in Request : upload'[q].leased => upload'[q].pc \in {"parsing", "handling"}
  BY <1>1 DEF SlotInv, Has
<1>5. free' + Cardinality(Leases') = MaxSlots
  BY <1>1
<1>6. ASSUME NEW v \in User
      PROVE  Books(users'[v], Cardinality(Counted(v)'), Cardinality(UserPermits(v)'))
  <2>1. CASE v = u
    BY <1>1, <1>3, <2>1
  <2>2. CASE v # u
    BY <1>1, <1>3, <2>2 DEF SlotInv
  <2> QED BY <2>1, <2>2
<1>7. \A v \in User : Books(users[v], Cardinality(Counted(v)), Cardinality(UserPermits(v)))'
  BY <1>6 DEF Books
<1> QED BY <1>1, <1>3, <1>4, <1>5, <1>7 DEF SlotInv, Has

LEMMA Own ==
    ASSUME SlotInv, NEW r \in Request
    PROVE  LET C == Counted(UserOf[r])
               P == UserPermits(UserOf[r]) IN
           /\ r \in C <=> Counts(r)
           /\ r \in P <=> Permits(r)
           /\ r \in Leases <=> upload[r].leased
           /\ IsFiniteSet(C) /\ IsFiniteSet(P) /\ IsFiniteSet(Leases)
           /\ Cardinality(C) \in Nat /\ Cardinality(P) \in Nat
           /\ Cardinality(C) = 0 => Cardinality(P) = 0
           /\ Books(users[UserOf[r]], Cardinality(C), Cardinality(P))
<1> DEFINE C == Counted(UserOf[r])
           P == UserPermits(UserOf[r])
<1>1. (r \in C <=> Counts(r)) /\ (r \in P <=> Permits(r)) /\ (r \in Leases <=> upload[r].leased)
  BY DEF Counted, UserPermits, Of, Leases, Counts, Permits
<1>2. IsFiniteSet(C) /\ IsFiniteSet(P) /\ IsFiniteSet(Leases)
  BY FiniteSets, UserTyped
<1>3. P \subseteq C
  BY DEF Counted, UserPermits, Has
<1>4. Cardinality(C) \in Nat /\ Cardinality(P) \in Nat /\ Cardinality(P) <= Cardinality(C)
  BY <1>2, <1>3, FS_CardinalityType, FS_Subset
<1>5. Cardinality(C) = 0 => Cardinality(P) = 0
  BY <1>4
<1>6. Books(users[UserOf[r]], Cardinality(C), Cardinality(P))
  BY UserTyped DEF SlotInv
<1> QED BY <1>1, <1>2, <1>4, <1>5, <1>6

LEMMA ArriveInv == ASSUME SlotInv, NEW r \in Request, Arrive(r) PROVE SlotInv'
<1> DEFINE u == UserOf[r]
           C == Counted(u)
           P == UserPermits(u)
           rec == [upload[r] EXCEPT !.pc = "userwait"]
           slot == [Joined(users[u]) EXCEPT !.requests = @ + 1]
<1>1. upload[r] \in Record /\ upload[r].pc = "idle" /\ ~upload[r].leased
  BY DEF SlotInv, Arrive, Has
<1>2. rec \in Record /\ rec.pc = "userwait" /\ rec.leased = FALSE
  BY <1>1 DEF Record, UploadSteps
<1>3. upload' = [upload EXCEPT ![r] = rec] /\ users' = [users EXCEPT ![u] = slot] /\ free' = free
  BY DEF Arrive, Joined
<1> HIDE DEF rec, slot
<1>4. r \notin C /\ r \notin P /\ r \notin Leases
  BY <1>1, Own DEF Counts, Permits, Has
<1>5. With(C, r, rec.pc \in {"userwait", "slotwait"} \/ rec.leased) = C \cup {r}
      /\ With(P, r, rec.pc \in {"slotwait"} \/ rec.leased) = P
      /\ With(Leases, r, rec.leased) = Leases
  BY <1>2, <1>4 DEF With
<1>6. Cardinality(C \cup {r}) = Cardinality(C) + 1
  BY <1>4, Own, CardAdd
<1>7. Books(slot, Cardinality(C) + 1, Cardinality(P))
  BY Own, JoinedBooks DEF slot
<1> QED BY <1>2, <1>3, <1>5, <1>6, <1>7, StepSlots DEF SlotInv

LEMMA TakeUserPermitInv == ASSUME SlotInv, NEW r \in Request, TakeUserPermit(r) PROVE SlotInv'
<1> DEFINE u == UserOf[r]
           C == Counted(u)
           P == UserPermits(u)
           rec == [upload[r] EXCEPT !.pc = "slotwait"]
           slot == [users[u] EXCEPT !.free = @ - 1]
<1>1. upload[r] \in Record /\ upload[r].pc = "userwait" /\ ~upload[r].leased
  BY DEF SlotInv, TakeUserPermit, Has
<1>2. rec \in Record /\ rec.pc = "slotwait" /\ rec.leased = FALSE
  BY <1>1 DEF Record, UploadSteps
<1>3. /\ upload' = [upload EXCEPT ![r] = rec] /\ users' = [users EXCEPT ![u] = slot]
      /\ free' = free /\ users[u].free > 0
  BY DEF TakeUserPermit
<1> HIDE DEF rec, slot
<1>4. r \in C /\ r \notin P /\ r \notin Leases
  BY <1>1, Own DEF Counts, Permits, Has
<1>5. With(C, r, rec.pc \in {"userwait", "slotwait"} \/ rec.leased) = C
      /\ With(P, r, rec.pc \in {"slotwait"} \/ rec.leased) = P \cup {r}
      /\ With(Leases, r, rec.leased) = Leases
  BY <1>2, <1>4 DEF With
<1>6. Cardinality(P \cup {r}) = Cardinality(P) + 1 /\ Cardinality(C) > 0
  BY <1>4, Own, CardAdd, CardRemove
<1>7. Books(slot, Cardinality(C), Cardinality(P) + 1)
  BY <1>3, <1>6, Own, TakenBooks DEF slot
<1> QED BY <1>2, <1>3, <1>5, <1>6, <1>7, StepSlots DEF SlotInv

LEMMA TakePermitInv == ASSUME SlotInv, NEW r \in Request, TakePermit(r) PROVE SlotInv'
<1> DEFINE u == UserOf[r]
           C == Counted(u)
           P == UserPermits(u)
           rec == [pc |-> "parsing", leased |-> TRUE]
<1>1. upload[r].pc = "slotwait" /\ ~upload[r].leased
  BY DEF SlotInv, TakePermit, Has
<1>2. rec \in Record /\ rec.pc = "parsing" /\ rec.leased = TRUE
  BY DEF Record, UploadSteps
<1>3. /\ upload' = [upload EXCEPT ![r] = rec] /\ users' = [users EXCEPT ![u] = users[u]]
      /\ free' = free - 1 /\ free > 0
  BY UserTyped DEF TakePermit, SlotInv
<1> HIDE DEF rec
<1>4. r \in C /\ r \in P /\ r \notin Leases
  BY <1>1, Own DEF Counts, Permits, Has
<1>5. With(C, r, rec.pc \in {"userwait", "slotwait"} \/ rec.leased) = C
      /\ With(P, r, rec.pc \in {"slotwait"} \/ rec.leased) = P
      /\ With(Leases, r, rec.leased) = Leases \cup {r}
  BY <1>2, <1>4 DEF With
<1>6. Cardinality(Leases \cup {r}) = Cardinality(Leases) + 1 /\ Cardinality(Leases) \in Nat
  BY <1>4, Own, CardAdd, FS_CardinalityType
<1>7. Books(users[u], Cardinality(C), Cardinality(P))
  BY Own
<1>8. free' \in Nat /\ free' + (Cardinality(Leases) + 1) = MaxSlots
  BY <1>3, <1>6, UploadAssumption DEF SlotInv
<1> QED BY <1>2, <1>3, <1>5, <1>6, <1>7, <1>8, StepSlots

LEMMA GiveUpInv == ASSUME SlotInv, NEW r \in Request, GiveUp(r) PROVE SlotInv'
<1> DEFINE u == UserOf[r]
           C == Counted(u)
           P == UserPermits(u)
           rec == [upload[r] EXCEPT !.pc = "idle"]
           slot == RolledBack(r)
<1>1. upload[r] \in Record /\ upload[r].pc \in {"userwait", "slotwait"} /\ ~upload[r].leased
  BY DEF SlotInv, GiveUp, Has
<1>2. rec \in Record /\ rec.pc = "idle" /\ rec.leased = FALSE
  BY <1>1 DEF Record, UploadSteps
<1>3. /\ upload' = [upload EXCEPT ![r] = rec] /\ users' = [users EXCEPT ![u] = slot]
      /\ free' = free
  BY DEF GiveUp
<1> HIDE DEF rec, slot
<1>4. r \in C /\ r \notin Leases /\ (r \in P <=> upload[r].pc = "slotwait")
  BY <1>1, Own DEF Counts, Permits, Has
<1>5. With(C, r, rec.pc \in {"userwait", "slotwait"} \/ rec.leased) = C \ {r}
      /\ With(P, r, rec.pc \in {"slotwait"} \/ rec.leased) = P \ {r}
      /\ With(Leases, r, rec.leased) = Leases
  BY <1>2, <1>4 DEF With
<1>6. Cardinality(C \ {r}) = Cardinality(C) - 1 /\ Cardinality(C) > 0
  BY <1>4, Own, CardRemove
<1>7. CASE upload[r].pc = "slotwait"
  <2>1. Cardinality(P \ {r}) = Cardinality(P) - 1 /\ Cardinality(P) > 0
    BY <1>4, <1>7, Own, CardRemove
  <2>2. slot = GivenBack(users[u])
    BY <1>7 DEF slot, RolledBack, Has
  <2>3. Books(slot, Cardinality(C) - 1, Cardinality(P) - 1)
    BY <1>6, <2>1, <2>2, Own, GivenBackBooks
  <2> QED BY <1>2, <1>3, <1>5, <1>6, <2>1, <2>3, StepSlots DEF SlotInv
<1>8. CASE upload[r].pc = "userwait"
  <2>1. P \ {r} = P
    BY <1>4, <1>8
  <2>2. slot = Left(users[u])
    BY <1>8 DEF slot, RolledBack, Has
  <2>3. Books(slot, Cardinality(C) - 1, Cardinality(P))
    BY <1>6, <2>2, Own, LeftBooks
  <2> QED BY <1>2, <1>3, <1>5, <1>6, <2>1, <2>3, StepSlots DEF SlotInv
<1> QED BY <1>1, <1>7, <1>8

\* A step whose request neither gains nor gives up anything.
LEMMA KeepInv ==
    ASSUME SlotInv, NEW r \in Request, NEW rec \in Record,
           Has(r, {"parsing", "handling"}), rec.leased <=> upload[r].leased,
           rec.pc = "handling" \/ (rec.pc = "idle" /\ ~rec.leased),
           upload' = [upload EXCEPT ![r] = rec],
           free' = free, users' = users
    PROVE  SlotInv'
<1> DEFINE u == UserOf[r]
           C == Counted(u)
           P == UserPermits(u)
<1>3. users' = [users EXCEPT ![u] = users[u]] /\ free' = free
  BY UserTyped DEF SlotInv
<1>4. (r \in C <=> upload[r].leased) /\ (r \in P <=> upload[r].leased)
      /\ (r \in Leases <=> upload[r].leased)
  BY Own DEF Counts, Permits, Has
<1>5. With(C, r, rec.pc \in {"userwait", "slotwait"} \/ rec.leased) = C
      /\ With(P, r, rec.pc \in {"slotwait"} \/ rec.leased) = P
      /\ With(Leases, r, rec.leased) = Leases
  BY <1>4 DEF With
<1>6. Books(users[u], Cardinality(C), Cardinality(P))
  BY Own
<1> QED BY <1>3, <1>5, <1>6, StepSlots DEF SlotInv

\* A lease ends: both permits go back, and the user's entry is left.
LEMMA ReleaseInv ==
    ASSUME SlotInv, NEW r \in Request, NEW rec \in Record,
           rec.pc \in {"idle", "handling"}, ~rec.leased,
           Has(r, {"parsing", "handling"}), upload[r].leased, Released(r),
           upload' = [upload EXCEPT ![r] = rec]
    PROVE  SlotInv'
<1> DEFINE u == UserOf[r]
           C == Counted(u)
           P == UserPermits(u)
           slot == GivenBack(users[u])
<1>2. users' = [users EXCEPT ![u] = slot] /\ free' = free + 1
  BY DEF Released
<1> HIDE DEF slot
<1>3. r \in C /\ r \in P /\ r \in Leases
  BY Own DEF Counts, Permits
<1>4. With(C, r, rec.pc \in {"userwait", "slotwait"} \/ rec.leased) = C \ {r}
      /\ With(P, r, rec.pc \in {"slotwait"} \/ rec.leased) = P \ {r}
      /\ With(Leases, r, rec.leased) = Leases \ {r}
  BY <1>3 DEF With
<1>5. /\ Cardinality(C \ {r}) = Cardinality(C) - 1 /\ Cardinality(C) > 0
      /\ Cardinality(P \ {r}) = Cardinality(P) - 1 /\ Cardinality(P) > 0
      /\ Cardinality(Leases \ {r}) = Cardinality(Leases) - 1 /\ Cardinality(Leases) \in Nat
  BY <1>3, Own, CardRemove, FS_CardinalityType
<1>6. Books(slot, Cardinality(C) - 1, Cardinality(P) - 1)
  BY <1>5, Own, GivenBackBooks DEF slot
<1>7. free' \in Nat /\ free' + (Cardinality(Leases) - 1) = MaxSlots
  BY <1>2, <1>5, UploadAssumption DEF SlotInv
<1> QED BY <1>2, <1>4, <1>5, <1>6, <1>7, StepSlots

LEMMA SlotStepInv ==
    ASSUME SlotInv, NEW r \in Request, Arrive(r) \/ SlotStep(r) \/ Disconnect(r)
    PROVE  SlotInv'
<1>0. upload[r] \in Record
  BY DEF SlotInv
<1>1. CASE Parse(r)
  <2> DEFINE rec == [upload[r] EXCEPT !.pc = "handling"]
  <2>1. upload' = [upload EXCEPT ![r] = rec] /\ Has(r, {"parsing"}) /\ free' = free /\ users' = users
    BY <1>1 DEF Parse
  <2>2. rec \in Record /\ rec.pc = "handling"
    BY <1>0 DEF Record, UploadSteps
  <2>3. rec.leased <=> upload[r].leased
    BY <1>0 DEF Record
  <2> HIDE DEF rec
  <2>4. Has(r, {"parsing", "handling"})
    BY <2>1 DEF Has
  <2>5. rec.pc = "handling" \/ (rec.pc = "idle" /\ ~rec.leased)
    BY <2>2, Zenon
  <2> QED BY <2>1, <2>2, <2>3, <2>4, <2>5, KeepInv, Zenon
<1>2. CASE Disconnect(r)
  <2> DEFINE rec == [upload[r] EXCEPT !.leased = FALSE]
  <2>1. upload' = [upload EXCEPT ![r] = rec] /\ upload[r].pc = "handling" /\ upload[r].leased
        /\ Released(r)
    BY <1>2 DEF Disconnect, Has
  <2>2. rec \in Record
    <3>1. FALSE \in BOOLEAN
      OBVIOUS
    <3>2. \A old \in Record, b \in BOOLEAN : [old EXCEPT !.leased = b] \in Record
      BY DEF Record
    <3> QED BY <1>0, <3>1, <3>2, Zenon
  <2>3. rec.pc = upload[r].pc
    BY <1>0 DEF Record
  <2>4. ~rec.leased
    <3>1. "leased" \in DOMAIN upload[r]
      BY <1>0 DEF Record
    <3> QED BY <3>1
  <2> HIDE DEF rec
  <2> QED BY <2>1, <2>2, <2>3, <2>4, ReleaseInv DEF Has
<1>3. CASE Finish(r)
  <2> DEFINE rec == [pc |-> "idle", leased |-> FALSE]
  <2>1. upload' = [upload EXCEPT ![r] = rec] /\ Has(r, {"parsing", "handling"}) /\ Released(r)
    BY <1>3 DEF Finish
  <2>2. rec \in Record /\ rec.pc = "idle" /\ ~rec.leased
    BY DEF Record, UploadSteps
  <2> HIDE DEF rec
  <2>3. CASE upload[r].leased
    BY <2>1, <2>2, <2>3, ReleaseInv
  <2>4. CASE ~upload[r].leased
    <3>1. free' = free /\ users' = users
      BY <2>1, <2>4 DEF Released
    <3> QED BY <2>1, <2>2, <2>4, <3>1, KeepInv
  <2> QED BY <2>3, <2>4
<1> QED BY <1>1, <1>2, <1>3, ArriveInv, TakeUserPermitInv, TakePermitInv, GiveUpInv
    DEF SlotStep, End

(***************************************************************************)
(* The session.                                                            *)
(***************************************************************************)
\* Once a call has been refused, no session counts but a younger one; a call
\* begins with nothing refused.
Refused(c) ==
    /\ c # Refresher /\ call[c].again /\ call[c].pc \in {"wait", "login"}
       => call[c].sent <= jar /\ (loggedIn => call[c].sent < jar)
    /\ call[c].pc = "idle" => ~call[c].again

ConsoleInv ==
    /\ ConsoleTypeOK
    /\ \A c \in Caller \cup {Refresher} : Refused(c)
    /\ \A c \in Caller \cup {Refresher} : call[c].sent <= jar

LEMMA QuietTyped == Quiet \in CallRecord
BY UploadAssumption DEF Quiet, CallRecord, CallSteps, Session

\* The one who goes onward: quiet, or out with the session.
LEMMA OnwardTyped ==
    ASSUME ConsoleTypeOK, NEW c \in Caller \cup {Refresher}, NEW s \in Session, Onward(c, s)
    PROVE  /\ call' \in [Caller \cup {Refresher} -> CallRecord]
           /\ \A d \in (Caller \cup {Refresher}) \ {c} : call'[d] = call[d]
           /\ call'[c].pc \in {"idle", "sent"}
           /\ call'[c].pc = "idle" => ~call'[c].again
           /\ call'[c].sent \in {0, s}
           /\ c # Refresher => call'[c].sent = s
<1>1. CASE c = Refresher
  BY <1>1, QuietTyped DEF Onward, ConsoleTypeOK, Quiet
<1>2. CASE c # Refresher
  BY <1>2 DEF Onward, ConsoleTypeOK, CallRecord, CallSteps
<1> QED BY <1>1, <1>2

LEMMA DoneTyped ==
    ASSUME ConsoleTypeOK, NEW c \in Caller \cup {Refresher}, Done(c)
    PROVE  /\ call' \in [Caller \cup {Refresher} -> CallRecord]
           /\ \A d \in (Caller \cup {Refresher}) \ {c} : call'[d] = call[d]
           /\ call'[c].pc = "idle" /\ call'[c].sent = 0 /\ ~call'[c].again
BY QuietTyped DEF Done, ConsoleTypeOK, Quiet

LEMMA GoTyped ==
    ASSUME ConsoleTypeOK, NEW c \in Caller \cup {Refresher}, NEW pc \in CallSteps,
           call' = [call EXCEPT ![c].pc = pc]
    PROVE  /\ call' \in [Caller \cup {Refresher} -> CallRecord]
           /\ \A d \in (Caller \cup {Refresher}) \ {c} : call'[d] = call[d]
           /\ call'[c].pc = pc /\ call'[c].sent = call[c].sent
           /\ call'[c].again <=> call[c].again
<1>1. /\ call' \in [Caller \cup {Refresher} -> CallRecord]
      /\ \A d \in (Caller \cup {Refresher}) \ {c} : call'[d] = call[d]
      /\ call'[c].pc = pc /\ call'[c].sent = call[c].sent
  BY DEF ConsoleTypeOK, CallRecord
<1>2. call'[c].again <=> call[c].again
  BY DEF ConsoleTypeOK, CallRecord
<1> QED BY <1>1, <1>2

LEMMA AgainTyped ==
    ASSUME ConsoleTypeOK, NEW c \in Caller \cup {Refresher},
           call' = [call EXCEPT ![c].pc = "wait", ![c].again = TRUE]
    PROVE  /\ call' \in [Caller \cup {Refresher} -> CallRecord]
           /\ \A d \in (Caller \cup {Refresher}) \ {c} : call'[d] = call[d]
           /\ call'[c].pc = "wait" /\ call'[c].sent = call[c].sent
BY DEF ConsoleTypeOK, CallRecord, CallSteps

\* The flag comes back only with a younger session.
Younger == jar' \in Session /\ jar' >= jar /\ (loggedIn' => loggedIn \/ jar' > jar)

LEMMA OthersStill ==
    ASSUME ConsoleInv, Younger, NEW d \in Caller \cup {Refresher}, call'[d] = call[d]
    PROVE  Refused(d)' /\ call'[d].sent <= jar'
<1>1. jar \in Nat /\ jar' \in Nat /\ call[d].sent \in Nat /\ call[d].sent <= jar
  BY DEF ConsoleInv, ConsoleTypeOK, CallRecord, Session, Younger
<1>2. call'[d].sent <= jar'
  BY <1>1 DEF Younger
<1>3. Refused(d)
  BY DEF ConsoleInv
<1>4. CASE jar' > jar
  <2>1. call'[d].sent < jar'
    BY <1>1, <1>4
  <2> QED BY <1>2, <1>3, <2>1 DEF Refused
<1>5. CASE ~(jar' > jar)
  <2>1. jar' = jar /\ (loggedIn' => loggedIn)
    BY <1>1, <1>5 DEF Younger
  <2> QED BY <1>2, <1>3, <2>1 DEF Refused
<1> QED BY <1>2, <1>4, <1>5

LEMMA ConsoleStepInv ==
    ASSUME ConsoleInv, NEW c \in Caller \cup {Refresher},
           ConsoleTypeOK', Younger,
           \A d \in (Caller \cup {Refresher}) \ {c} : call'[d] = call[d],
           call'[c].sent <= jar', Refused(c)'
    PROVE  ConsoleInv'
BY OthersStill DEF ConsoleInv

LEMMA SessionArith ==
    ASSUME ConsoleInv
    PROVE  /\ jar \in Session /\ 0 \in Session /\ 0 <= jar /\ jar <= jar
           /\ jar < MaxSessions => jar + 1 \in Session /\ jar + 1 > jar /\ jar + 1 >= jar
           /\ \A c \in Caller \cup {Refresher} : call[c] \in CallRecord
BY UploadAssumption DEF ConsoleInv, ConsoleTypeOK, Session

LEMMA BeginInv == ASSUME ConsoleInv, NEW c \in Caller, Call(c) PROVE ConsoleInv'
<1>1. Younger
  BY SessionArith DEF Call, Younger
<1>2. CASE loggedIn
  <2>1. Onward(c, jar)
    BY <1>2 DEF Call
  <2>2. /\ call' \in [Caller \cup {Refresher} -> CallRecord]
        /\ \A d \in (Caller \cup {Refresher}) \ {c} : call'[d] = call[d]
        /\ call'[c].pc \in {"idle", "sent"} /\ (call'[c].pc = "idle" => ~call'[c].again)
        /\ call'[c].sent \in {0, jar}
    BY <2>1, SessionArith, OnwardTyped DEF ConsoleInv
  <2>3. call'[c].sent <= jar'
    BY <2>2, SessionArith DEF Call
  <2>4. Refused(c)' /\ ConsoleTypeOK'
    BY <2>2 DEF Refused, Call, ConsoleInv, ConsoleTypeOK
  <2> QED BY <1>1, <2>2, <2>3, <2>4, ConsoleStepInv
<1>3. CASE ~loggedIn
  <2>1. call' = [call EXCEPT ![c].pc = "wait"]
    BY <1>3 DEF Call
  <2>2. /\ call' \in [Caller \cup {Refresher} -> CallRecord]
        /\ \A d \in (Caller \cup {Refresher}) \ {c} : call'[d] = call[d]
        /\ call'[c].pc = "wait" /\ call'[c].sent = call[c].sent
    BY <2>1, GoTyped DEF ConsoleInv, CallSteps
  <2>3. call'[c].sent <= jar' /\ ConsoleTypeOK'
    BY <2>2 DEF Call, ConsoleInv, ConsoleTypeOK
  <2>4. Refused(c)'
    BY <1>3, <2>2, <2>3 DEF Refused, Call
  <2> QED BY <1>1, <2>2, <2>3, <2>4, ConsoleStepInv
<1> QED BY <1>2, <1>3

\* The refresher's own record makes no claim.
LEMMA RefreshInv == ASSUME ConsoleInv, Refresh PROVE ConsoleInv'
<1>1. /\ call' \in [Caller \cup {Refresher} -> CallRecord]
      /\ \A d \in (Caller \cup {Refresher}) \ {Refresher} : call'[d] = call[d]
      /\ call'[Refresher].pc = "wait" /\ call'[Refresher].sent = call[Refresher].sent
      /\ call'[Refresher].again <=> call[Refresher].again
  BY GoTyped DEF Refresh, ConsoleInv, CallSteps
<1>2. Younger
  BY SessionArith DEF Refresh, Younger
<1>3. call'[Refresher].sent <= jar' /\ Refused(Refresher)'
  BY <1>1 DEF Refresh, ConsoleInv, Refused
<1>4. ConsoleTypeOK'
  BY <1>1 DEF Refresh, ConsoleInv, ConsoleTypeOK
<1> QED BY <1>1, <1>2, <1>3, <1>4, ConsoleStepInv

LEMMA EnterInv ==
    ASSUME ConsoleInv, NEW c \in Caller \cup {Refresher}, EnterLogin(c) PROVE ConsoleInv'
<1>1. Younger
  BY SessionArith DEF EnterLogin, Younger
<1>2. CASE loggedIn /\ c # Refresher
  <2>1. Onward(c, jar) /\ loginLock' = loginLock
    BY <1>2 DEF EnterLogin
  <2>2. /\ call' \in [Caller \cup {Refresher} -> CallRecord]
        /\ \A d \in (Caller \cup {Refresher}) \ {c} : call'[d] = call[d]
        /\ call'[c].pc \in {"idle", "sent"} /\ (call'[c].pc = "idle" => ~call'[c].again)
        /\ call'[c].sent \in {0, jar}
    BY <2>1, SessionArith, OnwardTyped DEF ConsoleInv
  <2>3. call'[c].sent <= jar'
    BY <2>2, SessionArith DEF EnterLogin
  <2>4. Refused(c)' /\ ConsoleTypeOK'
    BY <2>1, <2>2 DEF Refused, EnterLogin, ConsoleInv, ConsoleTypeOK
  <2> QED BY <1>1, <2>2, <2>3, <2>4, ConsoleStepInv
<1>3. CASE ~(loggedIn /\ c # Refresher)
  <2>1. call' = [call EXCEPT ![c].pc = "login"] /\ loginLock' = c
    BY <1>3 DEF EnterLogin
  <2>2. /\ call' \in [Caller \cup {Refresher} -> CallRecord]
        /\ \A d \in (Caller \cup {Refresher}) \ {c} : call'[d] = call[d]
        /\ call'[c].pc = "login" /\ call'[c].sent = call[c].sent
        /\ call'[c].again <=> call[c].again
    BY <2>1, GoTyped DEF ConsoleInv, CallSteps
  <2>3. call'[c].sent <= jar' /\ ConsoleTypeOK'
    BY <2>1, <2>2 DEF EnterLogin, ConsoleInv, ConsoleTypeOK
  <2>4. Refused(c)'
    BY <2>2 DEF Refused, EnterLogin, ConsoleInv
  <2> QED BY <1>1, <2>2, <2>3, <2>4, ConsoleStepInv
<1> QED BY <1>2, <1>3

LEMMA AnswerInv ==
    ASSUME ConsoleInv, NEW c \in Caller \cup {Refresher}, AnswerLogin(c) PROVE ConsoleInv'
<1>1. CASE jar < MaxSessions /\ jar' = jar + 1 /\ loggedIn' = TRUE /\ Onward(c, jar + 1)
  <2>1. Younger
    BY <1>1, SessionArith DEF Younger
  <2>2. /\ call' \in [Caller \cup {Refresher} -> CallRecord]
        /\ \A d \in (Caller \cup {Refresher}) \ {c} : call'[d] = call[d]
        /\ call'[c].pc \in {"idle", "sent"} /\ (call'[c].pc = "idle" => ~call'[c].again)
        /\ call'[c].sent \in {0, jar + 1}
    BY <1>1, SessionArith, OnwardTyped DEF ConsoleInv
  <2>3. call'[c].sent <= jar'
    BY <1>1, <2>2, SessionArith DEF Session
  <2>4. Refused(c)' /\ ConsoleTypeOK'
    BY <1>1, <2>2, SessionArith DEF Refused, AnswerLogin, Unlocked, ConsoleInv, ConsoleTypeOK
  <2> QED BY <2>1, <2>2, <2>3, <2>4, ConsoleStepInv
<1>2. CASE loggedIn' = FALSE /\ jar' = jar /\ Done(c)
  <2>1. Younger
    BY <1>2, SessionArith DEF Younger
  <2>2. /\ call' \in [Caller \cup {Refresher} -> CallRecord]
        /\ \A d \in (Caller \cup {Refresher}) \ {c} : call'[d] = call[d]
        /\ call'[c].pc = "idle" /\ call'[c].sent = 0 /\ ~call'[c].again
    BY <1>2, DoneTyped DEF ConsoleInv
  <2>3. call'[c].sent <= jar' /\ Refused(c)'
    BY <1>2, <2>2, SessionArith DEF Refused
  <2>4. ConsoleTypeOK'
    BY <1>2, <2>2 DEF AnswerLogin, Unlocked, ConsoleInv, ConsoleTypeOK
  <2> QED BY <2>1, <2>2, <2>3, <2>4, ConsoleStepInv
<1> QED BY <1>1, <1>2 DEF AnswerLogin

LEMMA ServeInv ==
    ASSUME ConsoleInv, NEW c \in Caller \cup {Refresher}, Serve(c) PROVE ConsoleInv'
<1>1. PICK pc \in {"refused", "accepted"} : call' = [call EXCEPT ![c].pc = pc]
  BY DEF Serve
<1>2. /\ call' \in [Caller \cup {Refresher} -> CallRecord]
      /\ \A d \in (Caller \cup {Refresher}) \ {c} : call'[d] = call[d]
      /\ call'[c].pc = pc /\ call'[c].sent = call[c].sent
  BY <1>1, GoTyped DEF ConsoleInv, CallSteps
<1>3. Younger
  BY SessionArith DEF Serve, Younger
<1>4. call'[c].sent <= jar' /\ Refused(c)' /\ ConsoleTypeOK'
  BY <1>2 DEF Serve, ConsoleInv, ConsoleTypeOK, Refused
<1> QED BY <1>2, <1>3, <1>4, ConsoleStepInv

LEMMA ReceiveInv ==
    ASSUME ConsoleInv, NEW c \in Caller \cup {Refresher}, ReceiveRefusal(c) \/ ReceiveOther(c)
    PROVE  ConsoleInv'
<1>1. CASE Done(c) /\ loggedIn' = loggedIn /\ UNCHANGED <<loginLock, jar, expired>>
  <2>1. /\ call' \in [Caller \cup {Refresher} -> CallRecord]
        /\ \A d \in (Caller \cup {Refresher}) \ {c} : call'[d] = call[d]
        /\ call'[c].pc = "idle" /\ call'[c].sent = 0 /\ ~call'[c].again
    BY <1>1, DoneTyped DEF ConsoleInv
  <2>2. Younger
    BY <1>1, SessionArith DEF Younger
  <2>3. call'[c].sent <= jar' /\ Refused(c)' /\ ConsoleTypeOK'
    BY <1>1, <2>1, SessionArith DEF Refused, ConsoleInv, ConsoleTypeOK
  <2> QED BY <2>1, <2>2, <2>3, ConsoleStepInv
<1>2. CASE /\ call' = [call EXCEPT ![c].pc = "wait", ![c].again = TRUE]
           /\ loggedIn' = FALSE /\ UNCHANGED <<loginLock, jar, expired>>
  <2>1. /\ call' \in [Caller \cup {Refresher} -> CallRecord]
        /\ \A d \in (Caller \cup {Refresher}) \ {c} : call'[d] = call[d]
        /\ call'[c].pc = "wait" /\ call'[c].sent = call[c].sent
    BY <1>2, AgainTyped DEF ConsoleInv
  <2>2. Younger
    BY <1>2, SessionArith DEF Younger
  <2>3. call'[c].sent <= jar' /\ ConsoleTypeOK'
    BY <1>2, <2>1 DEF ConsoleInv, ConsoleTypeOK
  <2>4. Refused(c)'
    BY <1>2, <2>1, <2>3 DEF Refused
  <2> QED BY <2>1, <2>2, <2>3, <2>4, ConsoleStepInv
<1> QED BY <1>1, <1>2 DEF ReceiveRefusal, ReceiveOther, ClearedFlag

(***************************************************************************)
(* The invariant, and the theorems.                                        *)
(***************************************************************************)
UInv == SlotInv /\ ConsoleInv

LEMMA InitUInv == Init => UInv
<1> SUFFICES ASSUME Init PROVE UInv
  OBVIOUS
<1>1. SlotInv
  <2>1. \A r \in Request : upload[r] = [pc |-> "idle", leased |-> FALSE]
    BY DEF Init, SlotInit
  <2>2. Leases = {} /\ \A u \in User : Counted(u) = {} /\ UserPermits(u) = {}
    BY <2>1 DEF Leases, Counted, UserPermits, Of, Has
  <2>3. Cardinality({}) = 0
    BY FS_EmptySet
  <2>4. free \in Nat /\ free + 0 = MaxSlots /\ users = [u \in User |-> NoSlot]
    BY UploadAssumption DEF Init, SlotInit
  <2>5. \A u \in User : Books(users[u], 0, 0)
    BY <2>4 DEF Books, NoSlot, UserSlot
  <2>6. upload \in [Request -> Record]
    BY DEF Init, SlotInit, Record, UploadSteps
  <2>7. \A r \in Request : ~upload[r].leased
    BY <2>1
  <2>8. users \in [User -> UserSlot]
    BY <2>4 DEF NoSlot, UserSlot
  <2> QED BY <2>2, <2>3, <2>4, <2>5, <2>6, <2>7, <2>8 DEF SlotInv
<1>2. ConsoleInv
  <2>1. call = [c \in Caller \cup {Refresher} |-> Quiet]
    BY DEF Init, ConsoleInit
  <2>2. \A c \in Caller \cup {Refresher} : call[c].pc = "idle" /\ call[c].sent = 0 /\ ~call[c].again
    BY <2>1 DEF Quiet
  <2>3. jar \in Session /\ 0 <= jar /\ {0} \subseteq Session
    BY UploadAssumption DEF Init, ConsoleInit, Session
  <2>4. ConsoleTypeOK
    BY <2>1, <2>3, QuietTyped DEF Init, ConsoleInit, ConsoleTypeOK
  <2> QED BY <2>2, <2>3, <2>4 DEF ConsoleInv, Refused
<1> QED BY <1>1, <1>2 DEF UInv

LEMMA ExpireInv == ASSUME ConsoleInv, Expire PROVE ConsoleInv'
<1>1. expired' \subseteq Session
  <2>1. PICK s \in 1 .. jar : expired' = expired \cup {s}
    BY DEF Expire
  <2>2. s \in Session
    BY <2>1, UploadAssumption DEF ConsoleInv, ConsoleTypeOK, Session
  <2> QED BY <2>1, <2>2 DEF ConsoleInv, ConsoleTypeOK
<1> QED BY <1>1 DEF Expire, ConsoleInv, ConsoleTypeOK, Refused

LEMMA ConsoleSame == ASSUME ConsoleInv, UNCHANGED consoleVars PROVE ConsoleInv'
BY DEF consoleVars, ConsoleInv, ConsoleTypeOK, Refused

LEMMA SlotsSame == ASSUME SlotInv, UNCHANGED slotVars PROVE SlotInv'
BY DEF slotVars, SlotInv, Books, Counted, UserPermits, Leases, Of, Has

LEMMA ConsoleNext ==
    ASSUME ConsoleInv, NEW c \in Caller \cup {Refresher}, ConsoleStep(c)
    PROVE  ConsoleInv'
BY EnterInv, AnswerInv, ServeInv, ReceiveInv DEF ConsoleStep

LEMMA StepUInv == UInv /\ [Next]_vars => UInv'
<1> SUFFICES ASSUME UInv, [Next]_vars PROVE UInv'
  OBVIOUS
<1>1. CASE UNCHANGED vars
  BY <1>1, ConsoleSame, SlotsSame DEF vars, UInv
<1>2. ASSUME NEW r \in Request, Arrive(r) \/ SlotStep(r) \/ Disconnect(r), UNCHANGED consoleVars
      PROVE  UInv'
  BY <1>2, SlotStepInv, ConsoleSame DEF UInv
<1>3. ASSUME NEW r \in Request, Begin(r), UNCHANGED slotVars
      PROVE  UInv'
  BY <1>3, BeginInv, SlotsSame, UploadAssumption DEF UInv, Begin
<1>4. ASSUME NEW c \in Caller \cup {Refresher}, ConsoleStep(c), UNCHANGED slotVars
      PROVE  UInv'
  BY <1>4, ConsoleNext, SlotsSame DEF UInv
<1>5. CASE (Refresh \/ Expire) /\ UNCHANGED slotVars
  BY <1>5, RefreshInv, ExpireInv, SlotsSame DEF UInv
<1> QED BY <1>1, <1>2, <1>3, <1>4, <1>5 DEF Next

LEMMA Inductive == Spec => []UInv
BY InitUInv, StepUInv, PTL DEF Spec

\* The semaphores, the table and the session keep their shape.
THEOREM UploadTypeCorrect == Spec => []TypeOK
<1>1. UInv => TypeOK
  BY DEF UInv, SlotInv, ConsoleInv, TypeOK, SlotTypeOK, Record
<1> QED BY <1>1, Inductive, PTL

\* Whatever the limits, no upload slot is lost or given twice.
THEOREM SlotsAreConserved == Spec => []SlotsConserved
<1>1. UInv => SlotsConserved
  <2> SUFFICES ASSUME UInv, NEW u \in User
               PROVE  /\ free + Cardinality(Leases) = MaxSlots
                      /\ users[u].there <=> Counted(u) # {}
                      /\ users[u].requests = Cardinality(Counted(u))
                      /\ users[u].there => users[u].free + Cardinality(UserPermits(u)) = PerUser
    <3>1. CASE User = {}
      BY <3>1 DEF SlotsConserved, UInv, SlotInv
    <3>2. CASE User # {}
      BY <3>2 DEF SlotsConserved
    <3> QED BY <3>1, <3>2
  <2>1. Books(users[u], Cardinality(Counted(u)), Cardinality(UserPermits(u)))
        /\ free + Cardinality(Leases) = MaxSlots
    BY DEF UInv, SlotInv
  <2>2. Counted(u) # {} <=> Cardinality(Counted(u)) > 0
    <3>1. Cardinality(Counted(u)) \in Nat /\ (Cardinality(Counted(u)) = 0 <=> Counted(u) = {})
      BY FiniteSets, FS_CardinalityType, FS_EmptySet
    <3> QED BY <3>1
  <2> QED BY <2>1, <2>2 DEF Books
<1> QED BY <1>1, Inductive, PTL

\* A second try never goes out with the session that was refused.
THEOREM RetriesAreFresh == Spec => RetryIsFresh
<1>1. UInv /\ [Next]_vars =>
        [\A c \in Caller : call[c].again /\ call[c].pc # "sent" /\ call'[c].pc = "sent"
                          => call'[c].sent > call[c].sent]_consoleVars
  <2> SUFFICES ASSUME UInv, [Next]_vars, NEW c \in Caller,
                      call[c].again, call[c].pc # "sent", call'[c].pc = "sent"
               PROVE  call'[c].sent > call[c].sent
    OBVIOUS
  <2>0. ConsoleInv /\ ConsoleTypeOK /\ c # Refresher /\ Refused(c) /\ call[c] \in CallRecord
    BY UploadAssumption DEF UInv, ConsoleInv, ConsoleTypeOK
  <2>1. CASE EnterLogin(c)
    <3>1. loggedIn /\ Onward(c, jar) /\ call[c].pc = "wait"
      BY <2>0, <2>1 DEF EnterLogin, ConsoleTypeOK, CallRecord
    <3>2. call'[c].sent = jar
      BY <2>0, <3>1, SessionArith, OnwardTyped
    <3> QED BY <2>0, <3>1, <3>2, SessionArith DEF Refused, Session, CallRecord
  <2>2. CASE AnswerLogin(c)
    <3>1. Onward(c, jar + 1) /\ jar < MaxSessions /\ call[c].pc = "login"
      BY <2>0, <2>2, DoneTyped DEF AnswerLogin
    <3>2. call'[c].sent = jar + 1
      BY <2>0, <3>1, SessionArith, OnwardTyped
    <3> QED BY <2>0, <3>1, <3>2, SessionArith DEF Refused, Session, CallRecord
  <2>3. ASSUME ~EnterLogin(c), ~AnswerLogin(c)
        PROVE  FALSE
    <3>1. CASE call'[c] = call[c]
      BY <3>1
    <3>2. CASE Call(c)
      <4>1. call[c].pc = "idle"
        BY <3>2 DEF Call
      <4> QED BY <2>0, <4>1 DEF Refused
    <3>3. CASE Serve(c) \/ ReceiveRefusal(c) \/ ReceiveOther(c)
      <4>1. Done(c) => call'[c].pc = "idle"
        BY <2>0, DoneTyped
      <4>2. CASE Serve(c)
        BY <4>2 DEF Serve
      <4>3. CASE ReceiveOther(c)
        BY <4>1, <4>3 DEF ReceiveOther
      <4>4. CASE ReceiveRefusal(c)
        BY <2>0, <4>1, <4>4, AgainTyped DEF ReceiveRefusal
      <4> QED BY <3>3, <4>2, <4>3, <4>4
    <3>4. ASSUME NEW d \in Caller \cup {Refresher}, d # c,
                 ConsoleStep(d) \/ Call(d) \/ Refresh
          PROVE  call'[c] = call[c]
      <4>1. call'[c] = call[c] \/ d = c
        BY <2>0, <3>4, UploadAssumption DEF ConsoleStep, EnterLogin, AnswerLogin, Serve, ReceiveRefusal,
           ReceiveOther, Onward, Done, Call, Refresh, ConsoleTypeOK
      <4> QED BY <3>4, <4>1
    <3>5. CASE UNCHANGED consoleVars \/ Expire
      <4>1. call'[c] = call[c]
        BY <3>5 DEF consoleVars, Expire
      <4> QED BY <3>1, <4>1
    <3> QED BY <2>0, <2>3, <3>1, <3>2, <3>3, <3>4, <3>5, UploadAssumption
        DEF Next, vars, Begin, ConsoleStep
  <2> QED BY <2>1, <2>2, <2>3
<1> QED BY <1>1, Inductive, PTL DEF Spec, RetryIsFresh
=============================================================================
