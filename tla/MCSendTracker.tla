--------------------------- MODULE MCSendTracker ---------------------------
(* Request ids for the runs of SendTracker. *)
EXTENDS SendTracker

CONSTANTS r1, r2
=============================================================================
