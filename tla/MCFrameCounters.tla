-------------------------- MODULE MCFrameCounters --------------------------
(* Two callers and small intervals for the runs of FrameCounters. *)
EXTENDS FrameCounters, TLC

CONSTANTS c1, c2, NwkFrames, ApsFrames, NwkMargin, ApsMargin, NwkUnheard, ApsUnheard

FrameBounds == [nwk |-> NwkFrames, aps |-> ApsFrames]
Margins     == [nwk |-> NwkMargin, aps |-> ApsMargin]
Unheard     == [nwk |-> NwkUnheard, aps |-> ApsUnheard]
Symmetric   == Permutations(Callers)
=============================================================================
