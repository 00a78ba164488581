------------------------------ MODULE MCRadio ------------------------------
(* Handlers and addresses for the runs of Radio. *)
EXTENDS Radio

CONSTANTS h1, h2, short1, extended1
=============================================================================
