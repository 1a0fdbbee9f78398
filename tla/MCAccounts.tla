----------------------------- MODULE MCAccounts -----------------------------
EXTENDS Accounts, TLC

Symmetry == Permutations(Requests) \union Permutations(Passwords)
=============================================================================
