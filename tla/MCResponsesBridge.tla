-------------------------- MODULE MCResponsesBridge --------------------------
EXTENDS ResponsesBridge, TLC

RequestSymmetry == Permutations(Requests)
=============================================================================
