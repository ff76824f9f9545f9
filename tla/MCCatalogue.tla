---------------------------- MODULE MCCatalogue ----------------------------
EXTENDS Catalogue, TLC

Symmetry == Permutations(Request) \cup Permutations(App) \cup Permutations(Dataset)
=============================================================================
