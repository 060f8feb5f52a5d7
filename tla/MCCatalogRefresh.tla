--------------------------- MODULE MCCatalogRefresh ---------------------------
(* Small instances of CatalogRefresh for TLC. *)
EXTENDS CatalogRefresh

CONSTANTS p1, p2

TwoProviders == <<p1, p2>>
FirstOnly == {p1}
OneContent == {1}
=============================================================================
