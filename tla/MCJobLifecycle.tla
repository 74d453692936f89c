--------------------------- MODULE MCJobLifecycle ---------------------------
EXTENDS JobLifecycle, TLC

Symmetric == Permutations(Runs) \cup Permutations(Submitters) \cup Permutations(Requests)
=============================================================================
