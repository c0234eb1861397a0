------------------------- MODULE MCAccountPayments --------------------------
EXTENDS AccountPayments, TLC

\* Hashes and requests are interchangeable; account IDs are ordered.
Symmetry == Permutations(Hashes) \cup Permutations(Reqs)
=============================================================================
