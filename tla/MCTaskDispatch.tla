--------------------------- MODULE MCTaskDispatch ---------------------------
EXTENDS TaskDispatch, TLC

\* Tasks, workers, requests and replicas are each interchangeable.
Symmetry ==
    UNION {Permutations(Tasks), Permutations(Workers),
           Permutations(Requests), Permutations(Replicas)}
=============================================================================
