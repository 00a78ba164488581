--------------------------- MODULE MCTrustCenter ---------------------------
(* The device of the run of TrustCenter. *)
EXTENDS TrustCenter

CONSTANTS d1
=============================================================================
