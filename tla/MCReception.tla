---------------------------- MODULE MCReception ----------------------------
(* The neighbours, broadcasts and data frames of the runs of Reception. *)
EXTENDS Reception

CONSTANTS p, q, mine, theirs, data

Symmetry == {[r \in Routers |-> r], [r \in {p, q} |-> IF r = p THEN q ELSE p]}
=============================================================================
