---------------------------- MODULE MCTokenPool ----------------------------
EXTENDS TokenPool, TLC

Symmetric == Permutations(Tokens) \cup Permutations(Requests) \cup Permutations(Creds)
=============================================================================
