-------------------------- MODULE MCProfileSwitching --------------------------
EXTENDS ProfileSwitching, TLC
CONSTANTS a, b, c, r1, r2, g1, g2, g3, g4
OneKind == [i \in Ids |-> "api_key"]
Symmetry == Permutations(Requests) \cup Permutations(Ids) \cup Permutations(Gens)
=============================================================================
