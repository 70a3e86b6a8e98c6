---------------------------- MODULE MCSyncServer ----------------------------
EXTENDS SyncServerPromises, TLC

CONSTANTS r1, r2, d1, d2, u1, t1, c1

\* All devices belong to one user, all transactions to one category.
OneUser     == [d \in Devices |-> u1]
OneCategory == [t \in Transactions |-> c1]
Permuted    == Permutations(Requests)
=============================================================================
