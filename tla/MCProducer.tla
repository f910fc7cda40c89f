------------------------------ MODULE MCProducer ------------------------------
EXTENDS Producer, TLC
Symmetry == Permutations(Requests)
=============================================================================
