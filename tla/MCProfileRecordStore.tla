------------------------- MODULE MCProfileRecordStore -------------------------
EXTENDS ProfileRecordStore, TLC
Symmetry == Permutations(Callers)
=============================================================================
