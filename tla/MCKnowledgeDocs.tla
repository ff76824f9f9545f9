-------------------------- MODULE MCKnowledgeDocs --------------------------
(***************************************************************************)
(* The counts of a knowledge base, as its requests keep them statement by  *)
(* statement (KnowledgeDocs) and as the script repairs them beside whole   *)
(* requests (RecomputeCounts).  The two models share no variable, so a     *)
(* behaviour moves one of them while the other rests where it started.     *)
(***************************************************************************)
EXTENDS KnowledgeDocs, RecomputeCounts, TLC

\* All documents are in one base, and the second has two segments.
OneBase == [d \in Documents |-> 1]
SecondLong == [s \in Segments |-> IF s = 1 THEN 1 ELSE 2]

VARIABLE moves  \* the model that a behaviour moves

CountsInit ==
    /\ Init /\ RecomputeInit
    /\ \/ moves = "requests" /\ \A d \in Documents : recorded[d] = "indexing"
       \/ moves = "script"
CountsNext ==
    \/ moves = "requests" /\ Next /\ UNCHANGED <<recomputeVars, moves>>
    \/ moves = "script" /\ RecomputeNext /\ UNCHANGED <<vars, moves>>
CountsSpec == CountsInit /\ [][CountsNext]_<<vars, recomputeVars, moves>>

\* Requests are interchangeable; documents are ordered and are not.
Symmetry == Permutations(Requests)
=============================================================================
