------------------------- MODULE MCCatalogLifecycle -------------------------
(* Small instances of CatalogLifecycle for TLC. *)
EXTENDS CatalogLifecycle, TLC

CONSTANTS r1, r2

RequestSymmetry == Permutations(Requests)
=============================================================================
