------------------------------ MODULE MCSignIn ------------------------------
EXTENDS SignIn, TLC
CONSTANTS p1, p2, r1, r2
Served == (r1 :> p1) @@ (r2 :> p2)
(* The renamings that leave every request with its process. *)
Symmetry == {f \in Permutations(Process \cup Request) :
    \A r \in Request : f[r] \in Request /\ ProcessOf[f[r]] = f[ProcessOf[r]]}
=============================================================================
