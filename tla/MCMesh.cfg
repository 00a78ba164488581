\* The concentrator c and the child of far: source routes, discoveries and one bad link.
SPECIFICATION Spec
CONSTANTS
    a = a  b = b  c = c  far = far  kid = kid
    Nodes = {a, b, c, far}
    Kids = {kid}
    Parent <- ParentOf
    Cost <- Kite
    Concentrators = {c}
    Senders <- Sending
    Reporters <- Reporting
    Radius = 5
    RequestRadius = 3
    MaxSourceRoute = 3
    Attempts = 2
    MaxRequests = 2
    MaxAdverts = 1
    MaxRecords = 1
    MaxData = 1
    Fragile <- BadLinks
CONSTRAINT FewInFlight
INVARIANTS  NeverStuck  RecordsAreChains
\* Every frame comes to rest.
CHECK_DEADLOCK FALSE
