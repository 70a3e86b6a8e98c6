----------------------------- MODULE MCFamilies -----------------------------
EXTENDS FamiliesServed, TLC

Symmetric == Permutations(Requests) \cup Permutations(Users) \cup Permutations(Families)
=============================================================================
