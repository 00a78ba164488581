\* Unicasts with a next hop: retries, polls, acks and cancellations racing two handlers.
SPECIFICATION Spec
CONSTANTS
    h1 = h1  h2 = h2  c1 = c1  k1 = k1
    MaxSends = 2
    Handlers = {h1, h2}
    ShutdownAllowed = TRUE
    Devices = {c1}
    AckKeys = {k1}
    Destinations = {}
    UnicastRequests <- Unicasts
    UnroutedRequests <- None
    BroadcastRequests <- None
    RoutedPolls <- NotSleepy
    HandoffTimeout = 2  PersistenceTime = 2  AckTimeout = 1
    UnicastRetries = 1  UnicastRetryDelay = 1
    PassiveAckTimeout = 1  MaxBroadcastJitter = 0  MaxBroadcastRetries = 1
    RreqRetryInterval = 1  RreqRetries = 1
    RouteDiscoveryTime = 1  RouteDiscoveryAttempts = 1
SYMMETRY HandlerSymmetry
INVARIANTS
    LoanIntact SenderNeverSleepsOnWork 
PROPERTY ImplementsContract
