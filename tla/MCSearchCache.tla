--------------------------- MODULE MCSearchCache ---------------------------
(* SearchCache on a small instance. *)
EXTENDS SearchCache, TLC

CONSTANTS g1, g2, w1, path, ds

\* One dataset, reached by one key: the theorems are about any aliasing.
OneKey == path :> ds

=============================================================================
