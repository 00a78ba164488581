\* Every send settles: one of each kind, with the copies and route requests it brings along,
\* racing a poll, an ack, a route, a relay and a cancellation.
SPECIFICATION FairSpec
CONSTANTS
    h1 = h1  h2 = h2  c1 = c1  k1 = k1
    MaxSends = 1
    Handlers = {h1}
    ShutdownAllowed = FALSE
    Devices = {c1}
    AckKeys = {k1}
    Destinations = {1}
    UnicastRequests <- Awaiting
    UnroutedRequests <- OnlyHeld
    BroadcastRequests <- Broadcasts
    RoutedPolls <- NotSleepy
    HandoffTimeout = 2  PersistenceTime = 1  AckTimeout = 1
    UnicastRetries = 1  UnicastRetryDelay = 0
    PassiveAckTimeout = 1  MaxBroadcastJitter = 0  MaxBroadcastRetries = 1
    RreqRetryInterval = 1  RreqRetries = 0
    RouteDiscoveryTime = 1  RouteDiscoveryAttempts = 1
INVARIANTS
    HandoffTruthful CancelTakesCopies
PROPERTY EverySendSettles
