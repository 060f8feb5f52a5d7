----------------------------- MODULE MCPublicModels -----------------------------
(* A small instance of PublicModels for TLC: Provider p1 has two models whose *)
(* ids end in the same name, so that their default aliases collide, and a     *)
(* user can give any of them an alias that is a default of the other.         *)
EXTENDS PublicModels, TLC

CONSTANTS p1, p2, m1, m2, m3, x, x2, x3, z

TwoProviders == {p1, p2}
ThreeModels == {m1, m2, m3}
FourAliases == {x, x2, x3, z}
Owners == m1 :> p1 @@ m2 :> p1 @@ m3 :> p2
Prefixes == x :> p1 @@ x2 :> p1 @@ x3 :> p1 @@ z :> p2
Defaults == m1 :> <<x, x2, x3>> @@ m2 :> <<x, x2, x3>> @@ m3 :> <<z>>

\* Models come one by one and together; Providers lose and gain their login.
FiveReports ==
  {[present |-> {p1}, usable |-> {p1}, models |-> {m1}],
   [present |-> {p1}, usable |-> {}, models |-> {m2}],
   [present |-> {p1, p2}, usable |-> {p1, p2}, models |-> {m1, m2}],
   [present |-> {p1, p2}, usable |-> {p1}, models |-> {m1, m2, m3}],
   [present |-> {p1, p2}, usable |-> {p2}, models |-> {m3}]}
=============================================================================
