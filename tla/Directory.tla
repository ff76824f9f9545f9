----------------------------- MODULE Directory -----------------------------
(* How accounts come into a tenant: an administrator creates a local one, or *)
(* the identity provider's callback finds or creates one (app/auth/routes.py *)
(* _resolve_user), while administrators change members.  Both look before    *)
(* they write and leave the last word to the unique constraints.             *)
EXTENDS Members

CONSTANTS Entry,   \* concurrent callbacks and creations
          Claim,   \* identities the provider vouches for: <<subject, address>>
          Initial, \* the accounts the tenant starts with
          Busy     \* bound: requests under way at once

VARIABLE entry

vars == <<memberVars, entry>>

EntrySteps == {"idle", "lookup", "rewrite", "held", "insert", "resolve", "refused", "landed"}
EntryRecord == [pc : EntrySteps, sub : Subject \cup {Nobody}, addr : Address,
                same : BOOLEAN, account : Account \cup {Nobody}]

ASSUME DirectoryAssumption ==
    /\ Claim \subseteq Subject \X Address
    /\ Initial \in [Account -> Row] /\ Busy \in Nat
    /\ IsFiniteSet(Change) /\ IsFiniteSet(Entry)
    /\ \E a \in Account :
          Initial[a].there /\ Initial[a].role = "admin" /\ Initial[a].status = "active"
    /\ \A a \in Account :
          Initial[a].there => (Initial[a].source = "sso" <=> Initial[a].sub # Nobody)

Resting == [pc |-> "idle", sub |-> Nobody, addr |-> CHOOSE x \in Address : TRUE,
            same |-> FALSE, account |-> Nobody]

Init ==
    /\ row = Initial
    /\ lock = Nobody
    /\ change = [c \in Change |-> Idle]
    /\ entry = [e \in Entry |-> Resting]

Move(e, pc) == entry' = [entry EXCEPT ![e].pc = pc]

Holds(a, addr) == row[a].there /\ row[a].addr = addr
Names(a, sub) == row[a].there /\ row[a].source = "sso" /\ row[a].sub = sub

(* A callback arrives with a verified identity, or an administrator asks for *)
(* a local account; a closed capability or a bad body ends there.            *)
BeginCallback(e) ==
    /\ entry[e].pc = "idle"
    /\ \E claim \in Claim :
          entry' = [entry EXCEPT ![e] =
                       [Resting EXCEPT !.pc = "lookup", !.sub = claim[1], !.addr = claim[2]]]
    /\ UNCHANGED memberVars

BeginCreate(e) ==
    /\ entry[e].pc = "idle"
    /\ \E a \in Account : MayAct(a)
    /\ \E addr \in Address :
          entry' = [entry EXCEPT ![e] = [Resting EXCEPT !.pc = "held", !.addr = addr]]
    /\ UNCHANGED memberVars

(* The lookup by subject reaches the enterprise accounts only. *)
Lookup(e) ==
    /\ entry[e].pc = "lookup"
    /\ \/ \E a \in Account :
             /\ Names(a, entry[e].sub)
             /\ entry' = [entry EXCEPT ![e].pc = "rewrite", ![e].account = a,
                                       ![e].same = row[a].addr = entry[e].addr]
       \/ /\ ~\E a \in Account : Names(a, entry[e].sub)
          /\ Move(e, "held")
    /\ UNCHANGED memberVars

(* An address somebody holds is refused before anything is written. *)
CheckHeld(e) ==
    /\ entry[e].pc = "held"
    /\ Move(e, IF \E a \in Account : Holds(a, entry[e].addr) THEN "refused" ELSE "insert")
    /\ UNCHANGED memberVars

New(e) == [there |-> TRUE, role |-> "other", status |-> "active",
           mustChange |-> entry[e].sub = Nobody,
           source |-> IF entry[e].sub = Nobody THEN "local" ELSE "sso",
           sub |-> entry[e].sub, addr |-> entry[e].addr]

(* The insert: the constraints on address and subject have the last word.    *)
(* A creation answers 409; a callback looks once more.                       *)
Insert(e) ==
    /\ entry[e].pc = "insert"
    /\ IF \/ \E a \in Account : Holds(a, entry[e].addr)
          \/ entry[e].sub # Nobody /\ \E a \in Account : Names(a, entry[e].sub)
       THEN /\ Move(e, IF entry[e].sub = Nobody THEN "refused" ELSE "resolve")
            /\ UNCHANGED row
       ELSE \E a \in Account :
               /\ ~row[a].there
               /\ row' = [row EXCEPT ![a] = New(e)]
               /\ entry' = [entry EXCEPT ![e].pc = "landed", ![e].account = a]
    /\ UNCHANGED <<lock, change>>

(* A known account's address follows the identity provider's. *)
Rewrite(e) ==
    LET a == entry[e].account IN
    /\ entry[e].pc = "rewrite"
    /\ IF entry[e].same
       THEN Move(e, "landed") /\ UNCHANGED row
       ELSE IF \E b \in Account \ {a} : Holds(b, entry[e].addr)
       THEN Move(e, "resolve") /\ UNCHANGED row
       ELSE /\ row' = [row EXCEPT ![a].addr = entry[e].addr]
            /\ Move(e, "landed")
    /\ UNCHANGED <<lock, change>>

(* Mutant: after a conflict the account is looked up by its address. *)
ResolveByAddress(e) ==
    /\ entry[e].pc = "resolve"
    /\ \/ \E a \in Account :
             /\ Holds(a, entry[e].addr)
             /\ entry' = [entry EXCEPT ![e].pc = "landed", ![e].account = a]
       \/ /\ ~\E a \in Account : Holds(a, entry[e].addr)
          /\ Move(e, "refused")
    /\ UNCHANGED memberVars

(* After a conflict: the account of this very identity and address, if a     *)
(* peer has committed it, and else a 409.                                    *)
Resolve(e) ==
    /\ entry[e].pc = "resolve"
    /\ \/ \E a \in Account :
             /\ Names(a, entry[e].sub) /\ row[a].addr = entry[e].addr
             /\ entry' = [entry EXCEPT ![e].pc = "landed", ![e].account = a]
       \/ /\ ~\E a \in Account : Names(a, entry[e].sub) /\ row[a].addr = entry[e].addr
          /\ Move(e, "refused")
    /\ UNCHANGED memberVars

(* The request ends: a session for the account, an answer, or a failure. *)
Leave(e) ==
    /\ entry[e].pc # "idle"
    /\ entry' = [entry EXCEPT ![e] = Resting]
    /\ UNCHANGED memberVars

(* A further request begins only while fewer than Busy are under way. *)
Room == Cardinality({c \in Change : change[c].pc # "idle"})
        + Cardinality({e \in Entry : entry[e].pc # "idle"}) < Busy

EntryStep(e) ==
    \/ BeginCallback(e) \/ BeginCreate(e) \/ Lookup(e) \/ CheckHeld(e)
    \/ Insert(e) \/ Rewrite(e) \/ Resolve(e) \/ Leave(e)

Next ==
    \/ \E c \in Change :
          /\ change[c].pc = "idle" => Room
          /\ MemberStep(c) /\ UNCHANGED entry
    \/ \E a \in Account : ChangeOwnPassword(a) /\ UNCHANGED entry
    \/ \E e \in Entry :
          /\ entry[e].pc = "idle" => Room
          /\ EntryStep(e)

Spec == Init /\ [][Next]_vars

TypeOK == MemberTypeOK /\ entry \in [Entry -> EntryRecord]

(* A sign-in lands on the account of its own identity, and a creation on the *)
(* local account it made: no race of callbacks, creations and address        *)
(* changes hands an account to somebody else (C-103, C-114).                 *)
LandsOnOwn ==
    \A e \in Entry : entry[e].pc = "landed" =>
        LET r == row[entry[e].account] IN
        /\ r.there /\ r.sub = entry[e].sub
        /\ r.source = IF entry[e].sub = Nobody THEN "local" ELSE "sso"
=============================================================================
