--------------------------- MODULE MCAdminReindex ---------------------------
(* A small instance of AdminReindex. *)
EXTENDS AdminReindex, TLC

CONSTANTS a1, a2, c1, c2, c3

=============================================================================
