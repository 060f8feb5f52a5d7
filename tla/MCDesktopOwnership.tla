-------------------------- MODULE MCDesktopOwnership --------------------------
(* Small instances of DesktopOwnership for TLC. *)
EXTENDS DesktopOwnership
CONSTANTS s1, s2, c1, b1, b2
TwoBuilds == [s \in Shells |-> IF s = s1 THEN "old" ELSE "new"]
=============================================================================
