\* Two request ids, one of them used again, on a connection of the server: the safety of
\* the confirms, and that each client gets its last one.
SPECIFICATION FairSpec
CONSTANTS
    r1 = r1  r2 = r2
    RequestIds = {r1, r2}
    MaxSends = 2
    Requested = {"UnicastApsAck", "Broadcast"}
    Outcomes = {"Ok"}
    Depth = 1
    DropOldest = FALSE
INVARIANTS ConfirmsExact NoConfirmForgotten CancelIsFinal
PROPERTY EverySendConfirmed
CHECK_DEADLOCK FALSE
