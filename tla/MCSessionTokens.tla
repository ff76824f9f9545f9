-------------------------- MODULE MCSessionTokens --------------------------
EXTENDS SessionTokens, TLC

\* Requests and login sessions are each interchangeable.
Symmetry == Permutations(Requests) \cup Permutations(Families)
=============================================================================
