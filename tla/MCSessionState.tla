---------------------------- MODULE MCSessionState ----------------------------
(* Small instances of SessionState for TLC. *)
EXTENDS SessionState

CONSTANTS r1, r2, r3

Three == {r1, r2, r3}
=============================================================================
