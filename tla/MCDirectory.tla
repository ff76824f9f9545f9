---------------------------- MODULE MCDirectory ----------------------------
EXTENDS Directory, TLC
CONSTANTS a1, a2, a3, x1, x2, x3, s1, s2
Member(role, source, sub, addr) ==
    [there |-> TRUE, role |-> role, status |-> "active", mustChange |-> FALSE,
     source |-> source, sub |-> sub, addr |-> addr]
Vacant == [Member("other", "local", Nobody, x1) EXCEPT !.there = FALSE]
(* An enterprise administrator, a local one, and room for one more account. *)
TwoAdmins == (a1 :> Member("admin", "sso", s1, x1)) @@ (a2 :> Member("admin", "local", Nobody, x2))
             @@ (a3 :> Vacant)
Wishes == {<<"other", "keep">>, <<"admin", "keep">>, <<"keep", "disabled">>, <<"keep", "active">>}
(* A new employee; an old one whose address moves, to a free and a held one. *)
Claims == {<<s2, x3>>, <<s1, x3>>, <<s1, x2>>}
Symmetry == Permutations(Change) \cup Permutations(Entry)
=============================================================================
