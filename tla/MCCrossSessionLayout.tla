------------------------ MODULE MCCrossSessionLayout ------------------------
EXTENDS CrossSessionLayout

Interchangeable == Permutations(Relays)
=============================================================================
