------------------------------ MODULE MCBooks ------------------------------
EXTENDS Books, TLC

Symmetric == Permutations(Requests) \cup Permutations(Users)
=============================================================================
