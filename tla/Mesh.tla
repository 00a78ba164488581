------------------------------- MODULE Mesh -------------------------------
(***************************************************************************)
(* Routing in a mesh of nodes that all run this stack: the route table, the *)
(* route discovery table and the route records, route requests flooded with *)
(* their accumulating cost, replies that retrace them, many-to-one          *)
(* advertisements, frames sent, held for a discovery, relayed and source    *)
(* routed, and what failing links do to all of it.                          *)
(*                                                                          *)
(* Each frame in flight is a message to one receiver: a broadcast is a      *)
(* message per neighbour, so that copies over longer and shorter paths race *)
(* each other; one flood is over before the next begins.  A message handler *)
(* is one step: its lock sections follow each other without an await.  A    *)
(* unicast that fails was retried until the send table gave it up.          *)
(***************************************************************************)
EXTENDS Integers, Sequences, FiniteSets

CONSTANTS
    Nodes,          \* the routers and the coordinator
    Kids,           \* end device children, which take no part in discovery
    Parent,         \* per child: its parent
    Cost,           \* per pair of nodes: the cost of their link, 0 where there is none
    Concentrators,  \* the nodes that advertise many-to-one routes and keep route records
    Senders,        \* the pairs <<node, destination>> that data is sent between
    Reporters,      \* the pairs <<child, concentrator>> of route records
    Radius,         \* the radius of a unicast
    RequestRadius,  \* the radius of a route request
    MaxSourceRoute, \* max_source_route
    Attempts,       \* pending_route_discovery_attempts
    MaxRequests,    \* bound: the route requests originated
    MaxAdverts,     \* bound: the advertisements among them
    MaxRecords,     \* bound: the route records sent
    MaxData,        \* bound: the data frames sent
    Fragile         \* bound: the links that may break

Nobody    == "nobody"      \* UNKNOWN_NEXT_HOP
Everyone  == "everyone"    \* BROADCAST_ALL_ROUTERS_AND_COORDINATOR
Unknown   == 255           \* u8::MAX, a cost not known
NoRecord  == <<Nobody>>    \* no relay list
Places    == Nodes \cup Kids
Neighbours(n) == {m \in Nodes : Cost[n, m] > 0}
Children(n)   == {k \in Kids : Parent[k] = n}

ASSUME MeshAssumption ==
    /\ Parent \in [Kids -> Nodes] /\ Nodes \cap Kids = {}
    /\ Cost \in [Nodes \X Nodes -> 0 .. 7]
    /\ \A n, m \in Nodes : Cost[n, m] = Cost[m, n] /\ Cost[n, n] = 0
    /\ Concentrators \subseteq Nodes
    /\ Senders \subseteq Nodes \X Places /\ Reporters \subseteq Kids \X Concentrators
    /\ {Radius, RequestRadius} \subseteq Nat \ {0} /\ MaxSourceRoute \in Nat /\ Attempts \in Nat \ {0}
    /\ {MaxRequests, MaxAdverts, MaxRecords, MaxData} \subseteq Nat

VARIABLES
    routes,       \* per node and destination: the route table
    discoveries,  \* per node: the discovery table
    requestId,    \* per node: request_sequence_number
    records,      \* per node and source: the route record table
    held,         \* per node: the frames held for a route discovery
    retries,      \* per node and destination: the restarts its discovery has left
    live,         \* per node: the neighbours with an outgoing cost
    air,          \* the messages in flight
    broken,       \* the links that are down
    seen,         \* history: the data sent and delivered
    bounds        \* what the bounds count

discovering == <<discoveries, requestId, held, retries>>
vars == <<routes, discovering, records, live, air, broken, seen, bounds>>

NoRoute == [status |-> "none", next |-> Nobody, cost |-> Unknown]

Init ==
    /\ routes = [n \in Nodes |-> [d \in Places |-> NoRoute]]
    /\ discoveries = [n \in Nodes |-> {}]
    /\ requestId = [n \in Nodes |-> 0]
    /\ records = [n \in Nodes |-> [d \in Places |-> NoRecord]]
    /\ held = [n \in Nodes |-> {}]
    /\ retries = [n \in Nodes |-> [d \in Places |-> 0]]
    /\ live = [n \in Nodes |-> Neighbours(n)]
    /\ air = {} /\ broken = {}
    /\ seen = [sent |-> 0, delivered |-> {}]
    /\ bounds = [requests |-> 0, adverts |-> 0, records |-> 0]

-----------------------------------------------------------------------------
(* The tables of a node *)

\* The neighbor's link cost, the worse of the two directions; 0 once it has aged out.
LinkCost(n, m) == IF m \in live[n] THEN Cost[n, m] ELSE 0

Discovery(table, originator, id) == {e \in table : e.originator = originator /\ e.id = id}

Live(n) == {e \in discoveries[n] : ~e.expired}

BugExpired(n, table) == table

\* expire_discoveries: with the last expired entry for a destination goes its route entry, if
\* discovery is all it stands for.
Expired(n, table) ==
    LET over == {d \in Places :
            /\ \E e \in discoveries[n] : e.expired /\ e.destination = d
            /\ ~\E e \in Live(n) : e.destination = d}
    IN [d \in Places |-> IF d \in over /\ table[d].status = "underway" THEN NoRoute ELSE table[d]]

BugConsiderRoute(route, next, cost) == [status |-> "active", next |-> next, cost |-> cost]

\* consider_route: an active entry is only replaced by a strictly cheaper route.
ConsiderRoute(route, next, cost) ==
    IF route.status = "active" /\ cost >= route.cost
    THEN route
    ELSE [status |-> "active", next |-> next, cost |-> cost]

NoteRelayed(table, destination) ==
    [table EXCEPT ![destination].status = IF @ = "active" THEN @ ELSE "underway"]

InvalidatedVia(table, next) ==
    [d \in Places |-> IF table[d].status = "active" /\ table[d].next = next
                      THEN [table[d] EXCEPT !.status = "inactive"]
                      ELSE table[d]]

BugStoreRouteRecord(table, source, relays) ==
    [d \in Places |->
        IF d = source THEN relays
        ELSE IF \E i \in 1 .. Len(relays) : relays[i] = d
        THEN LET i == CHOOSE i \in 1 .. Len(relays) : relays[i] = d IN SubSeq(relays, i, Len(relays))
        ELSE table[d]]

\* store_route_record: the relays between a relay and us are its own route.
StoreRouteRecord(table, source, relays) ==
    [d \in Places |->
        IF d = source THEN relays
        ELSE IF \E i \in 1 .. Len(relays) : relays[i] = d
        THEN LET i == CHOOSE i \in 1 .. Len(relays) : relays[i] = d
             IN SubSeq(relays, i + 1, Len(relays))
        ELSE table[d]]

-----------------------------------------------------------------------------
(* Messages *)

Message(kind, from, to, body) == [kind |-> kind, from |-> from, to |-> to, body |-> body]

Flood(n, request) == {Message("request", n, m, request) : m \in Neighbours(n)}

\* A frame the routing layer takes to its destination: data, a route record or a network status.
Frame(kind, source, dest, about) ==
    [kind |-> kind, source |-> source, dest |-> dest, relays |-> <<>>, index |-> -1,
     radius |-> Radius, about |-> about]

SourceRouted(frame) == frame.index >= 0

Up(n, m) == {n, m} \notin broken

Flooding == \E m \in air : m.kind = "request"

-----------------------------------------------------------------------------
(* Originating a route request *)

\* begin_discovery and begin_many_to_one_advertisement, and the broadcast of the request.
Originate(n, destination, table, flight) ==
    LET id == requestId[n] + 1 IN
    /\ bounds.requests < MaxRequests
    /\ ~Flooding
    /\ bounds' = [bounds EXCEPT !.requests = @ + 1,
                                !.adverts = IF destination = Everyone THEN @ + 1 ELSE @]
    /\ requestId' = [requestId EXCEPT ![n] = id]
    /\ routes' = [routes EXCEPT ![n] = table]
    /\ discoveries' = [discoveries EXCEPT ![n] = Live(n) \cup
           {[originator |-> n, id |-> id, sender |-> Nobody, forward |-> 0, residual |-> Unknown,
             destination |-> destination, expired |-> FALSE]}]
    /\ air' = flight \cup Flood(n, [originator |-> n, id |-> id, destination |-> destination,
                                    cost |-> 0, radius |-> RequestRadius])

StartRouteDiscovery(n, destination, table, flight) ==
    Originate(n, destination, [Expired(n, table) EXCEPT ![destination].status = "underway"], flight)

\* send_many_to_one_route_request
Advertise(n) ==
    /\ n \in Concentrators
    /\ bounds.adverts < MaxAdverts
    /\ Originate(n, Everyone, Expired(n, routes[n]), air)
    /\ UNCHANGED <<held, retries, records, live, broken, seen>>

-----------------------------------------------------------------------------
(* Sending a frame *)

\* apply_source_route: the path is walked from its last relay, indices count from zero.
ApplySourceRoute(frame, relays) ==
    [hop |-> relays[Len(relays)],
     frame |-> [frame EXCEPT !.relays = relays, !.index = Len(relays) - 1]]

\* Routing::next_hop
NextHop(table, d) == IF table[d].status = "active" THEN table[d].next ELSE Nobody

\* route_to: a stored source route that is short enough wins over the route table.
RouteTo(n, table, frame) ==
    LET record == records[n][frame.dest] IN
    CASE record = <<>> -> [hop |-> frame.dest, frame |-> frame]
      [] record # NoRecord /\ Len(record) \in 1 .. MaxSourceRoute - 1 -> ApplySourceRoute(frame, record)
      [] OTHER -> [hop |-> NextHop(table, frame.dest), frame |-> frame]

\* next_hop::resolve, the stack deciding: children first.
Resolve(n, table, frame) ==
    CASE frame.dest \in Children(n) -> [hop |-> frame.dest, frame |-> frame]
      [] frame.dest \notin Children(n) /\ n \in Concentrators -> RouteTo(n, table, frame)
      [] OTHER -> [hop |-> NextHop(table, frame.dest), frame |-> frame]

\* has_unrouted
Awaited(n, d) == \E f \in held[n] : f.dest = d

\* send_unicast, next to the rest of its step: the frame leaves, or is held while the first one
\* for its destination has a route discovered.
SendUnicast(n, frame, table, flight) ==
    LET r == Resolve(n, table, frame) IN
    \/ /\ r.hop # Nobody
       /\ routes' = [routes EXCEPT ![n] = table]
       /\ air' = flight \cup {Message("frame", n, r.hop, r.frame)}
       /\ UNCHANGED <<discovering, bounds>>
    \/ /\ r.hop = Nobody
       /\ held' = [held EXCEPT ![n] = @ \cup {frame}]
       /\ \/ /\ Awaited(n, frame.dest)
             /\ routes' = [routes EXCEPT ![n] = table] /\ air' = flight
             /\ UNCHANGED <<discoveries, requestId, retries, bounds>>
          \/ /\ ~Awaited(n, frame.dest)
             /\ retries' = [retries EXCEPT ![n][frame.dest] = Attempts - 1]
             /\ StartRouteDiscovery(n, frame.dest, table, flight)

\* The host sends data.
SendData(n, d) ==
    /\ <<n, d>> \in Senders /\ seen.sent < MaxData
    /\ seen' = [seen EXCEPT !.sent = @ + 1]
    /\ SendUnicast(n, Frame("data", n, d, seen.sent + 1), routes[n], air)
    /\ UNCHANGED <<records, live, broken>>

\* A child reports the path to a concentrator it has heard of, in a frame to its parent, between
\* two floods.
SendRouteRecord(k, c) ==
    /\ ~Flooding
    /\ <<k, c>> \in Reporters /\ routes[Parent[k]][c].status = "active"
    /\ bounds.records < MaxRecords /\ bounds' = [bounds EXCEPT !.records = @ + 1]
    /\ air' = air \cup {Message("frame", k, Parent[k], Frame("record", k, c, 0))}
    /\ UNCHANGED <<routes, discovering, records, live, broken, seen>>

\* drive_sends: the route the frames were held for is active.
RouteUnicasts(n, d) ==
    LET frames == {f \in held[n] : f.dest = d} IN
    /\ Awaited(n, d) /\ routes[n][d].status = "active"
    /\ held' = [held EXCEPT ![n] = @ \ frames]
    /\ air' = air \cup {LET r == Resolve(n, routes[n], f) IN Message("frame", n, r.hop, r.frame) : f \in frames}
    /\ UNCHANGED <<routes, discoveries, requestId, retries, records, live, broken, seen, bounds>>

\* drive_sends: no discovery towards the destination is live any more: restart it or give up.
DiscoveryLapsed(n, d) ==
    /\ Awaited(n, d) /\ routes[n][d].status # "active"
    /\ ~\E e \in Live(n) : e.destination = d
    /\ \/ /\ retries[n][d] > 0
          /\ retries' = [retries EXCEPT ![n][d] = @ - 1]
          /\ StartRouteDiscovery(n, d, routes[n], air)
          /\ UNCHANGED held
       \/ /\ retries[n][d] = 0
          /\ routes' = [routes EXCEPT ![n][d].status = IF @ = "none" THEN @ ELSE "failed"]
          /\ held' = [held EXCEPT ![n] = {f \in @ : f.dest # d}]
          /\ UNCHANGED <<discoveries, requestId, retries, air, bounds>>
    /\ UNCHANGED <<records, live, broken, seen>>

-----------------------------------------------------------------------------
(* A received route request *)

\* A copy is accepted unless it is worse than the best one so far.
Accepts(entries, cost) == \A e \in entries : cost <= e.forward

\* accept_route_request: the discovery table once the request is accepted.
Recorded(n, request, sender, cost) ==
    LET known == Discovery(Live(n), request.originator, request.id)
        entry == IF known = {}
                 THEN [originator |-> request.originator, id |-> request.id, sender |-> sender,
                       forward |-> cost, residual |-> Unknown,
                       destination |-> request.destination, expired |-> FALSE]
                 ELSE [(CHOOSE e \in known : TRUE) EXCEPT !.forward = cost, !.sender = sender]
    IN (Live(n) \ known) \cup {entry}

\* A parent answers for its end device children.
Answers(n, destination) == destination \in {n} \cup Children(n)

Dropped(m) ==
    /\ air' = air \ {m}
    /\ UNCHANGED <<routes, discovering, records, live, broken, seen, bounds>>

HandleRouteRequest(m) ==
    LET n       == m.to
        request == m.body
        link    == LinkCost(n, m.from)
        cost    == request.cost + link
        accepts == Accepts(Discovery(Live(n), request.originator, request.id), cost)
        back    == [Expired(n, routes[n]) EXCEPT
                       ![request.originator] = ConsiderRoute(@, m.from, cost)]
        answer  == Answers(n, request.destination)
    IN
    /\ m.kind = "request"
    /\ \/ /\ link = 0 \/ ~accepts
          /\ routes' = [routes EXCEPT ![n] = IF link = 0 THEN @ ELSE Expired(n, @)]
          /\ discoveries' = [discoveries EXCEPT ![n] = IF link = 0 THEN @ ELSE Live(n)]
          /\ air' = air \ {m}
          /\ UNCHANGED <<requestId, held, retries, records, live, broken, seen, bounds>>
       \/ /\ link # 0 /\ accepts
          /\ discoveries' = [discoveries EXCEPT ![n] = Recorded(n, request, m.from, cost)]
          /\ routes' = [routes EXCEPT ![n] =
                 IF answer \/ request.destination = Everyone
                 THEN back
                 ELSE NoteRelayed(back, request.destination)]
          /\ air' = (air \ {m}) \cup
                 (IF answer
                  THEN {Message("reply", n, m.from,
                                [originator |-> request.originator, id |-> request.id,
                                 responder |-> request.destination, cost |-> link])}
                  ELSE IF request.radius > 1
                  THEN Flood(n, [request EXCEPT !.cost = cost, !.radius = @ - 1])
                  ELSE {})
          /\ UNCHANGED <<requestId, held, retries, records, live, broken, seen, bounds>>

-----------------------------------------------------------------------------
(* A received route reply *)

BugAcceptsReply(n, e, route, cost) == e.originator = n /\ route.status # "active"

\* The originator takes a reply while it has no active route, everybody a strictly cheaper one.
AcceptsReply(n, e, route, cost) ==
    \/ cost < e.residual
    \/ e.originator = n /\ route.status # "active"

HandleRouteReply(m) ==
    LET n     == m.to
        reply == m.body
        known == Discovery(discoveries[n], reply.originator, reply.id)
        route == routes[n][reply.responder]
        e     == CHOOSE e \in known : TRUE
        taken == [routes[n] EXCEPT ![reply.responder] =
                      [status |-> "active", next |-> m.from, cost |-> reply.cost]]
    IN
    /\ m.kind = "reply"
    /\ \/ /\ \/ m.from \notin live[n] \/ known = {} \/ route.status = "none"
             \/ ~AcceptsReply(n, e, route, reply.cost)
          /\ Dropped(m)
       \/ /\ m.from \in live[n] /\ known # {} /\ route.status # "none"
          /\ AcceptsReply(n, e, route, reply.cost)
          /\ discoveries' = [discoveries EXCEPT ![n] = (@ \ {e}) \cup {[e EXCEPT !.residual = reply.cost]}]
          /\ IF reply.originator = n
             THEN /\ routes' = [routes EXCEPT ![n] = taken]
                  /\ air' = air \ {m}
             ELSE /\ routes' = [routes EXCEPT ![n] =
                        [taken EXCEPT ![reply.originator] = ConsiderRoute(@, e.sender, e.forward)]]
                  /\ air' = (air \ {m}) \cup
                        {Message("reply", n, e.sender,
                                 [reply EXCEPT !.cost = @ + LinkCost(n, e.sender)])}
          /\ UNCHANGED <<requestId, held, retries, records, live, broken, seen, bounds>>

-----------------------------------------------------------------------------
(* A received frame *)

\* The frame is for the receiver: data, a route record, or a network status (handle_network_status).
Deliver(m) ==
    LET n == m.to
        f == m.body
    IN
    /\ m.kind = "frame" /\ f.dest = n
    /\ air' = air \ {m}
    /\ seen' = IF f.kind = "data"
               THEN [seen EXCEPT !.delivered = @ \cup {f.about}]
               ELSE seen
    /\ routes' = IF f.kind = "status" /\ n \in Nodes
                 THEN [routes EXCEPT ![n][f.about[1]] = NoRoute]
                 ELSE routes
    /\ records' = CASE f.kind = "record" ->
                           [records EXCEPT ![n] = StoreRouteRecord(@, f.source, f.relays)]
                    [] f.kind = "status" /\ n \in Nodes /\ f.about[2] = "SourceRouteFailure" ->
                           [records EXCEPT ![n][f.about[1]] = NoRecord]
                    [] OTHER -> records
    /\ UNCHANGED <<discovering, live, broken, bounds>>

\* The next hop of a frame to relay: its source route, the neighbour itself, or the route table.
RelayHop(n, f) ==
    IF SourceRouted(f) /\ f.index > 0 /\ f.dest \notin Children(n)
    THEN IF f.relays[f.index + 1] = n THEN f.relays[f.index] ELSE Nobody
    ELSE IF SourceRouted(f) \/ f.dest \in Neighbours(n) \cup Children(n) THEN f.dest
    ELSE IF routes[n][f.dest].status = "active" THEN routes[n][f.dest].next
    ELSE Nobody

\* relay_unicast_nwk_frame: a transiting route record names its relays, a source route is
\* walked by its index; a frame with no way on is dropped.
RelayUnicast(m) ==
    LET n    == m.to
        f    == m.body
        hop  == RelayHop(n, f)
        full == f.kind = "record" /\ Len(f.relays) >= MaxSourceRoute
        next == [f EXCEPT !.radius = @ - 1,
                          !.relays = IF f.kind = "record" THEN Append(@, n) ELSE @,
                          !.index  = IF @ > 0 THEN @ - 1 ELSE @]
    IN
    /\ m.kind = "frame" /\ f.dest # n
    /\ \/ (f.radius <= 1 \/ full \/ hop = Nobody) /\ Dropped(m)
       \/ /\ f.radius > 1 /\ ~full /\ hop # Nobody
          /\ air' = (air \ {m}) \cup {Message("frame", n, hop, next)}
          /\ UNCHANGED <<routes, discovering, records, live, broken, seen, bounds>>

-----------------------------------------------------------------------------
(* Links, losses and time *)

\* A link breaks, between two floods.
LinkBreaks(n, m) ==
    /\ ~Flooding
    /\ m \in Neighbours(n) /\ Up(n, m) /\ {n, m} \in Fragile
    /\ broken' = broken \cup {{n, m}}
    /\ UNCHANGED <<routes, discovering, records, live, air, seen, bounds>>

\* maybe_age_neighbors, handle_link_status: the outgoing cost collapses, and the routes with it.
LoseLink(n, m) ==
    /\ m \in live[n] /\ ~Up(n, m)
    /\ live' = [live EXCEPT ![n] = @ \ {m}]
    /\ routes' = [routes EXCEPT ![n] = InvalidatedVia(@, m)]
    /\ UNCHANGED <<discovering, records, air, broken, seen, bounds>>

\* A broadcast copy is lost.
LoseBroadcast(m) ==
    /\ m.kind = "request" /\ ~Up(m.from, m.to)
    /\ Dropped(m)

\* The network status that reports a frame that could not be relayed.
FailureOf(f) ==
    [dest |-> f.dest, code |-> IF SourceRouted(f) THEN "SourceRouteFailure" ELSE "LinkFailure"]

\* handle_unicast_send_failure, handle_relay_failure: the link of a unicast is down.
UnicastFails(m) ==
    LET n     == m.from
        f     == m.body
        table == InvalidatedVia(routes[n], m.to)
        own   == IF m.kind = "reply" THEN TRUE ELSE f.source = n
        dest  == IF m.kind = "reply" THEN m.to ELSE f.dest
    IN
    /\ m.kind \in {"reply", "frame"} /\ ~Up(n, m.to)
    /\ \/ /\ own
          /\ records' = [records EXCEPT ![n][dest] = NoRecord]
          /\ routes' = [routes EXCEPT ![n] = table]
          /\ air' = air \ {m}
          /\ UNCHANGED <<discovering, bounds>>
       \/ /\ ~own
          /\ SendUnicast(n, Frame("status", n, f.source, <<FailureOf(f).dest, FailureOf(f).code>>),
                         table, air \ {m})
          /\ UNCHANGED records
    /\ UNCHANGED <<live, broken, seen>>

\* A discovery runs out, seconds after the milliseconds a flood takes.  Its entries, made within
\* one flood, run out together; each node removes its own when it next looks.
Expire(o, id) ==
    /\ \E n \in Nodes : Discovery(Live(n), o, id) # {}
    /\ ~\E m \in air : m.kind # "frame"
    /\ discoveries' = [n \in Nodes |->
           {IF e.originator = o /\ e.id = id THEN [e EXCEPT !.expired = TRUE] ELSE e :
               e \in discoveries[n]}]
    /\ UNCHANGED <<routes, requestId, held, retries, records, live, air, broken, seen, bounds>>

-----------------------------------------------------------------------------
Receive(m) ==
    /\ Up(m.from, m.to)
    /\ HandleRouteRequest(m) \/ HandleRouteReply(m) \/ Deliver(m) \/ RelayUnicast(m)

Next ==
    \/ \E n \in Nodes : Advertise(n)
    \/ \E n \in Nodes, d \in Places : SendData(n, d) \/ RouteUnicasts(n, d) \/ DiscoveryLapsed(n, d)
    \/ \E k \in Kids, c \in Concentrators : SendRouteRecord(k, c)
    \/ \E m \in air : Receive(m) \/ LoseBroadcast(m) \/ UnicastFails(m)
    \/ \E n, m \in Nodes : LinkBreaks(n, m) \/ LoseLink(n, m)
    \/ \E o \in Nodes, id \in 1 .. MaxRequests : Expire(o, id)

Spec == Init /\ [][Next]_vars

-----------------------------------------------------------------------------
(* Properties *)

Stable == broken = {}

Hop(n, d) == IF d \in {n} \cup Children(n) \/ routes[n][d].status # "active"
             THEN {} ELSE {routes[n][d].next}

\* consider_route, "a worse advertisement never clobbers a good route or forms a loop": while no
\* link breaks, the next hops of active routes to a destination never lead back to a node, however
\* the copies of the requests and replies of several discoveries race: of any nodes that have next
\* hops, one has its own outside them.
NoLoopWhileStable ==
    Stable =>
        \A d \in Places : \A C \in SUBSET {n \in Nodes : Hop(n, d) # {}} :
            C # {} => \E n \in C : Hop(n, d) \cap C = {}

\* expire_discoveries, "a discovery that never completed must not leave the routing entry stuck in
\* DISCOVERY_UNDERWAY": an entry is underway only while a discovery for it is on the table.
NeverStuck ==
    \A n \in Nodes, d \in Places :
        routes[n][d].status = "underway" => \E e \in discoveries[n] : e.destination = d

\* send_unicast to relay_unicast_nwk_frame to store_route_record: when nothing is lost and nothing
\* is under way, every frame the host sent has reached its destination, over discovered routes,
\* many-to-one routes and source routes alike.  It is claimed of meshes where a discovery always
\* answers its originator: where the way back can turn round under a reply, it may not.
DeliveredUnlessLost ==
    Stable /\ air = {} /\ (\A n \in Nodes : held[n] = {}) => seen.delivered = 1 .. seen.sent

Linked(n, m) == IF n \in Kids THEN Parent[n] = m ELSE m \in Neighbours(n)

\* store_route_record: every stored source route, the derived ones of the relays included, is a
\* chain of radio links from the device to us.
RecordsAreChains ==
    \A c \in Concentrators, d \in Places :
        records[c][d] # NoRecord =>
            LET path == <<d>> \o records[c][d] \o <<c>>
            IN \A i \in 1 .. Len(path) - 1 : Linked(path[i], path[i + 1])

=============================================================================
