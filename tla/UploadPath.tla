----------------------------- MODULE UploadPath -----------------------------
(* A document upload end to end: it takes its slots, parses its body, and    *)
(* its handler calls Dify's console, while other uploads do the same, the    *)
(* session is refreshed and expires, and clients go away.                    *)
EXTENDS UploadSlots, ConsoleSession

vars == <<slotVars, consoleVars>>

ASSUME UploadAssumption ==
    /\ IsFiniteSet(Request) /\ UserOf \in [Request -> User]
    /\ MaxSlots \in Nat /\ PerUser \in Nat /\ MaxSessions \in Nat \ {0}
    /\ Caller = Request /\ Refresher \notin Request
    /\ None \notin Request \cup {Refresher}

Init == SlotInit /\ ConsoleInit

(* The handler calls the console while it runs, and ends between calls. *)
Begin(r) == Has(r, {"handling"}) /\ Call(r)
End(r) == call[r].pc = "idle" /\ Finish(r)

SlotStep(r) ==
    \/ TakeUserPermit(r) \/ TakePermit(r) \/ GiveUp(r) \/ Parse(r) \/ End(r)

Next ==
    \/ \E r \in Request :
          /\ Arrive(r) \/ SlotStep(r) \/ Disconnect(r)
          /\ UNCHANGED consoleVars
    \/ /\ UNCHANGED slotVars
       /\ \/ \E r \in Request : Begin(r)
          \/ \E c \in Caller \cup {Refresher} : ConsoleStep(c)
          \/ Refresh \/ Expire

TaskStep(r) ==
    \/ (GiveUp(r) \/ Parse(r)) /\ UNCHANGED consoleVars
    \/ ConsoleStep(r) /\ UNCHANGED slotVars

(* The loop runs every task that can go on, and the lock is first come,      *)
(* first served: the deadline ends a wait for slots, a parse comes to an     *)
(* end, the transport's timeout ends a call and a login, and a handler does  *)
(* not call for ever.                                                        *)
Fairness ==
    /\ \A r \in Request :
          SF_vars(TaskStep(r)) /\ SF_vars(End(r) /\ UNCHANGED consoleVars)
    /\ SF_vars(ConsoleStep(Refresher) /\ UNCHANGED slotVars)

Spec == Init /\ [][Next]_vars /\ Fairness

TypeOK == SlotTypeOK /\ ConsoleTypeOK

(* Every upload ends, and with it its hold on the slots: no wait for a slot, *)
(* a login or an answer is for ever, though a task waits for the lock while  *)
(* it holds its slots and the lock's holder may fail.                        *)
UploadsEnd == \A r \in Request : ~Has(r, {"idle"}) ~> Has(r, {"idle"})
=============================================================================
