-------------------------- MODULE MCBrowserSession --------------------------
EXTENDS BrowserSession, TLC

Symmetry == Permutations(Tab)
=============================================================================
