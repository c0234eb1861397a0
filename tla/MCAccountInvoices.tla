------------------------- MODULE MCAccountInvoices --------------------------
EXTENDS AccountInvoices, TLC

\* Invoices and accounts are interchangeable.
Symmetry == Permutations(Invoices) \cup Permutations(Accounts)
=============================================================================
