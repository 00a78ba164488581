---------------------------- MODULE MCLifecycle ----------------------------
(* Handlers of the server's lifecycle for TLC. *)
EXTENDS Lifecycle, TLC

CONSTANTS q1, q2

=============================================================================
