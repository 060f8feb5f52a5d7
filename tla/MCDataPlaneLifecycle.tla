------------------------- MODULE MCDataPlaneLifecycle -------------------------
(* Small instances of DataPlaneLifecycle for TLC. *)
EXTENDS DataPlaneLifecycle, TLC

CONSTANTS l1, l2, q1, q2

TwoListeners == {l1, l2}
OneRequest == {q1}
TwoRequests == {q1, q2}
Symmetry == Permutations(TwoListeners) \cup Permutations(TwoRequests)
=============================================================================
