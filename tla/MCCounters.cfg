\* Restarts with a margin above what the client can have missed, a queue that drops updates.
SPECIFICATION Spec
CONSTANTS
    c1 = c1  c2 = c2
    Callers = {c1, c2}
    Interval = 2
    Cap = 1
    NwkMargin = 3  ApsMargin = 6
    Margin <- Margins
    NwkUnheard = 1  ApsUnheard = 0
    MaxUnheard <- Unheard
    MaxSilent = 1
    MaxOvertaken = 1
    NwkFrames = 4  ApsFrames = 7
    MaxFrames <- FrameBounds
    MaxOther = 1
    MaxRestarts = 1
SYMMETRY Symmetric
INVARIANT NwkLagBounded
 
CHECK_DEADLOCK FALSE
