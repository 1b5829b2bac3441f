------------------------- MODULE MCContextRepository -------------------------
(* Small instances of ContextRepository for TLC. *)
EXTENDS ContextRepository

CONSTANTS w1, w2, refresher, saver, pruner
=============================================================================
