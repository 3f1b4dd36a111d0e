------------------------------- MODULE MCMatch -------------------------------
EXTENDS Match, TLC

Symmetry == Permutations(UID) \cup Permutations(Loop)
=============================================================================
