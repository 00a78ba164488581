------------------------------ MODULE NwkProofs ------------------------------
(* Theorems about the network layer: Mesh, for any nodes, links, children and bounds, and      *)
(* BroadcastBudget, for any interval, capacity and tuning.                                     *)
EXTENDS Mesh, BroadcastBudget, SequenceTheorems, TLAPS

-----------------------------------------------------------------------------
(* Mesh *)

Codes    == {"SourceRouteFailure", "LinkFailure"}
Statuses == {"none", "underway", "active", "inactive", "failed"}
Goals    == Places \cup {Everyone}

RouteType   == [status : Statuses, next : Nodes \cup {Nobody}, cost : Int]
RouteTable  == [Places -> RouteType]
EntryType   == [originator : Nodes, id : Nat, sender : Nodes \cup {Nobody}, forward : Int,
                residual : Int, destination : Goals, expired : BOOLEAN]
RequestType == [originator : Nodes, id : Nat, destination : Goals, cost : Int, radius : Int]
ReplyType   == [originator : Nodes, id : Nat, responder : Places, cost : Int]
FrameType   == [kind : {"data", "record", "status"}, source : Places, dest : Places,
                relays : Seq(Nodes), index : Int, radius : Int, about : Nat \cup (Places \X Codes)]

\* The routes of a node lead to neighbours while they are active, the way back of a discovery
\* leads to a neighbour, and an entry that is underway has its discovery.
ToNeighbours(n, table) == \A d \in Places : table[d].status = "active" => table[d].next \in Neighbours(n)

WayBack(n, D) == \A e \in D : e.originator # n => e.sender \in Neighbours(n)

Covers(D, table) == \A d \in Places : table[d].status = "underway" => \E e \in D : e.destination = d

NodeSound(n, table, D) ==
    /\ table \in RouteTable /\ D \subseteq EntryType
    /\ ToNeighbours(n, table) /\ WayBack(n, D) /\ Covers(D, table)

TablesSound ==
    /\ routes \in [Nodes -> RouteTable] /\ discoveries \in [Nodes -> SUBSET EntryType]
    /\ live \in [Nodes -> SUBSET Nodes]
    /\ \A n \in Nodes : live[n] \subseteq Neighbours(n) /\ NodeSound(n, routes[n], discoveries[n])

\* A chain of radio links: from d over the relays of s to c.
Joined(d, s, c) ==
    /\ s = <<>> => Linked(d, c)
    /\ s # <<>> => Linked(d, s[1]) /\ Linked(s[Len(s)], c)
    /\ \A i \in 1 .. Len(s) - 1 : Linked(s[i], s[i + 1])

\* A frame goes to a node or to its destination, its index lies within its relays, and a route
\* record on its way names a chain up to its receiver.
FrameSound(from, to, f) ==
    /\ f \in FrameType
    /\ from \in Places /\ to \in Places
    /\ to \in Nodes \/ to = f.dest
    /\ from \in Nodes \/ from = f.source
    /\ f.index \in -1 .. Len(f.relays) - 1
    /\ f.kind = "record" => f.dest \in Concentrators /\ f.index = -1 /\ Joined(f.source, f.relays, to)

MessageSound(m) ==
    \/ m.kind = "request" /\ m.from \in Nodes /\ m.to \in Nodes /\ m.body \in RequestType
    \/ m.kind = "reply" /\ m.from \in Nodes /\ m.to \in Nodes /\ m.body \in ReplyType
    \/ m.kind = "frame" /\ FrameSound(m.from, m.to, m.body)

AirSound == \A m \in air : MessageSound(m)

\* What a node sends of its own, and holds.
Outgoing(f) == f \in FrameType /\ f.kind # "record" /\ f.index = -1

HeldSound == held \in [Nodes -> SUBSET FrameType] /\ \A n \in Nodes : \A f \in held[n] : Outgoing(f)

RecordSound(n, d, s) == s # NoRecord => s \in Seq(Nodes) /\ Joined(d, s, n)

RecordsSound ==
    /\ DOMAIN records = Nodes /\ records = [n \in Nodes |-> records[n]]
    /\ \A n \in Nodes : /\ DOMAIN records[n] = Places /\ records[n] = [d \in Places |-> records[n][d]]
                        /\ \A d \in Places : RecordSound(n, d, records[n][d])

\* A route request is known by its originator and its number, and asks for one destination,
\* wherever it is on the table or in flight.
Asks(x, o, id, d) == x.originator = o /\ x.id = id /\ x.destination = d

Asked(o, id, d) ==
    \/ \E n \in Nodes : \E e \in discoveries[n] : Asks(e, o, id, d)
    \/ \E m \in air : m.kind = "request" /\ Asks(m.body, o, id, d)

RequestsSound ==
    /\ requestId \in [Nodes -> Nat]
    /\ \A o \in Nodes, id \in Nat, d \in Goals :
          Asked(o, id, d) => id <= requestId[o] /\ \A x \in Goals : Asked(o, id, x) => x = d

HistorySound == seen \in [sent : Nat, delivered : SUBSET (Nat \cup (Places \X Codes))]

MeshInv ==
    TablesSound /\ AirSound /\ HeldSound /\ RecordsSound /\ RequestsSound /\ HistorySound

-----------------------------------------------------------------------------
(* Chains *)

\* What the proofs use of the constants.
LEMMA Constants ==
    /\ Parent \in [Kids -> Nodes] /\ Nodes \cap Kids = {} /\ Concentrators \subseteq Nodes
    /\ Senders \subseteq Nodes \X Places /\ Reporters \subseteq Kids \X Concentrators
    /\ Radius \in Nat /\ RequestRadius \in Nat /\ MaxSourceRoute \in Nat
  BY MeshAssumption, Zenon

LEMMA LinkedNode ==
    ASSUME NEW n \in Nodes, NEW m
    PROVE  Linked(n, m) <=> m \in Neighbours(n)
  BY Constants DEF Linked

\* A chain grows by the node it has reached.
LEMMA JoinedAppend ==
    ASSUME NEW d, NEW s \in Seq(Nodes), NEW n \in Nodes, NEW c, Joined(d, s, n), Linked(n, c)
    PROVE  Append(s, n) \in Seq(Nodes) /\ Joined(d, Append(s, n), c)
  <1> DEFINE t == Append(s, n)
  <1>1. /\ t \in Seq(Nodes) /\ Len(t) = Len(s) + 1 /\ Len(s) \in Nat
        /\ t[Len(s) + 1] = n /\ \A i \in 1 .. Len(s) : t[i] = s[i]
    OBVIOUS
  <1> HIDE DEF t
  <1>2. t # <<>>
    BY <1>1
  <1>3. Linked(d, t[1])
    <2>1. CASE s = <<>>
      BY <1>1, <2>1 DEF Joined
    <2>2. CASE s # <<>>
      <3>1. Len(s) \in Nat \ {0}
        BY <2>2
      <3> QED BY <1>1, <2>2, <3>1 DEF Joined
    <2> QED BY <2>1, <2>2
  <1>4. Linked(t[Len(t)], c)
    BY <1>1
  <1>5. ASSUME NEW i \in 1 .. Len(t) - 1 PROVE Linked(t[i], t[i + 1])
    <2>1. CASE i = Len(s)
      <3>1. s # <<>> /\ t[i] = s[Len(s)] /\ t[i + 1] = n
        BY <1>1, <1>5, <2>1
      <3> QED BY <3>1 DEF Joined
    <2>2. CASE i # Len(s)
      <3>1. i \in 1 .. Len(s) - 1 /\ t[i] = s[i] /\ t[i + 1] = s[i + 1]
        BY <1>1, <1>5, <2>2
      <3> QED BY <3>1 DEF Joined
    <2> QED BY <2>1, <2>2
  <1> QED BY <1>1, <1>2, <1>3, <1>4, <1>5 DEF Joined, t

\* What is left of a chain after one of its relays is that relay's chain.
LEMMA JoinedSuffix ==
    ASSUME NEW d, NEW s \in Seq(Nodes), NEW c, Joined(d, s, c), NEW i \in 1 .. Len(s)
    PROVE  SubSeq(s, i + 1, Len(s)) \in Seq(Nodes) /\ Joined(s[i], SubSeq(s, i + 1, Len(s)), c)
  <1> DEFINE t == SubSeq(s, i + 1, Len(s))
  <1>1. Len(s) \in Nat /\ i \in Nat
    OBVIOUS
  <1>2. /\ t \in Seq(Nodes) /\ Len(t) = Len(s) - i
        /\ \A j \in 1 .. Len(s) - i : t[j] = s[i + j]
    <2>1. \A j \in (i + 1) .. Len(s) : s[j] \in Nodes
      BY <1>1
    <2> QED BY <1>1, <2>1
  <1> HIDE DEF t
  <1>3. CASE i = Len(s)
    <2>1. t = <<>> /\ s # <<>>
      BY <1>1, <1>2, <1>3
    <2> QED BY <1>1, <1>2, <1>3, <2>1 DEF Joined, t
  <1>4. CASE i # Len(s)
    <2>5. Len(t) \in Nat \ {0} /\ Len(t) \in 1 .. Len(s) - i /\ 1 \in 1 .. Len(s) - i /\ i + Len(t) = Len(s)
      BY <1>1, <1>2, <1>4
    <2>6. t # <<>> /\ s # <<>>
      BY <1>2, <2>5
    <2>7. t[1] = s[i + 1] /\ t[Len(t)] = s[i + Len(t)]
      BY <1>2, <2>5
    <2>1. t # <<>> /\ s # <<>> /\ t[1] = s[i + 1] /\ t[Len(t)] = s[Len(s)]
      BY <2>5, <2>6, <2>7
    <2>2. \A j \in 1 .. Len(t) - 1 : t[j] = s[i + j] /\ t[j + 1] = s[i + j + 1] /\ i + j \in 1 .. Len(s) - 1
      BY <1>1, <1>2, <1>4
    <2>3. Linked(s[i], s[i + 1])
      BY <1>1, <1>4 DEF Joined
    <2>4. \A j \in 1 .. Len(t) - 1 : Linked(t[j], t[j + 1])
      BY <2>2 DEF Joined
    <2> QED BY <1>2, <2>1, <2>3, <2>4 DEF Joined, t
  <1> QED BY <1>3, <1>4

\* The path of a record, as RecordsAreChains walks it.
LEMMA JoinedPath ==
    ASSUME NEW d, NEW s \in Seq(Nodes), NEW c, Joined(d, s, c),
           NEW path, path = <<d>> \o s \o <<c>>, NEW i \in 1 .. Len(path) - 1
    PROVE  Linked(path[i], path[i + 1])
  <1> DEFINE U == Nodes \cup {d, c}
  <1>1. s \in Seq(U) /\ <<d>> \in Seq(U) /\ <<c>> \in Seq(U) /\ Len(s) \in Nat
    OBVIOUS
  <1> HIDE DEF U
  <1>2. /\ Len(path) = Len(s) + 2 /\ path[1] = d /\ path[Len(s) + 2] = c
        /\ \A j \in 1 .. Len(s) : path[j + 1] = s[j]
    BY <1>1
  <1>3. CASE s = <<>>
    <2>1. i = 1 /\ path[2] = c
      BY <1>2, <1>3
    <2> QED BY <1>2, <1>3, <2>1 DEF Joined
  <1>4. CASE s # <<>>
    <2>1. Len(s) \in Nat \ {0}
      BY <1>4
    <2>2. CASE i = 1
      <3>1. path[2] = s[1]
        BY <1>2, <2>1
      <3> QED BY <1>2, <1>4, <2>2, <3>1 DEF Joined
    <2>3. CASE i = Len(s) + 1
      <3>1. path[i] = s[Len(s)] /\ path[i + 1] = c
        BY <1>2, <2>1, <2>3
      <3> QED BY <1>4, <3>1 DEF Joined
    <2>4. CASE i \in 2 .. Len(s)
      <3> DEFINE j == i - 1
      <3>1. j \in 1 .. Len(s) - 1 /\ j + 1 \in 1 .. Len(s) /\ i = j + 1
        BY <2>1, <2>4
      <3> HIDE DEF j
      <3>2. path[i] = s[j] /\ path[i + 1] = s[j + 1]
        BY <1>2, <2>1, <3>1
      <3> QED BY <3>1, <3>2 DEF Joined
    <2> QED BY <1>2, <2>1, <2>2, <2>3, <2>4
  <1> QED BY <1>3, <1>4

-----------------------------------------------------------------------------
(* The tables of a node *)

LEMMA NodePlace == \A n \in Nodes : n \in Places /\ n \notin Kids
  BY Constants DEF Places

LEMMA LinkCostType ==
    ASSUME TablesSound, NEW n \in Nodes, NEW m \in Nodes
    PROVE  LinkCost(n, m) \in Int /\ (LinkCost(n, m) # 0 => m \in live[n])
  <1>1. Cost[n, m] \in 0 .. 7
    BY MeshAssumption, Zenon
  <1>2. \A c : c \in 0 .. 7 => c \in Int
    BY SMT
  <1>3. CASE m \in live[n]
    <2>1. LinkCost(n, m) = Cost[n, m]
      BY <1>3, Zenon DEF LinkCost
    <2> QED BY <1>1, <1>2, <1>3, <2>1, Zenon
  <1>4. CASE m \notin live[n]
    <2>1. LinkCost(n, m) = 0
      BY <1>4, Zenon DEF LinkCost
    <2> QED BY <2>1
  <1> QED BY <1>3, <1>4

LEMMA NeighbourNode == \A n : Neighbours(n) \subseteq Nodes
  BY Zenon DEF Neighbours

LEMMA NoRouteType == NoRoute \in RouteType /\ NoRoute.status = "none"
  BY DEF NoRoute, RouteType, Statuses, Unknown

LEMMA LiveFacts ==
    ASSUME TablesSound, NEW n \in Nodes
    PROVE  Live(n) \subseteq discoveries[n] /\ Live(n) \subseteq EntryType /\ WayBack(n, Live(n))
  BY DEF Live, TablesSound, NodeSound, WayBack

\* expire_discoveries leaves an entry underway only with a live discovery for it.
LEMMA ExpiredFacts ==
    ASSUME TablesSound, NEW n \in Nodes, NEW table \in RouteTable
    PROVE  /\ Expired(n, table) \in RouteTable
           /\ ToNeighbours(n, table) => ToNeighbours(n, Expired(n, table))
           /\ Covers(discoveries[n], table) => Covers(Live(n), Expired(n, table))
  <1> DEFINE over == {d \in Places :
                 /\ \E e \in discoveries[n] : e.expired /\ e.destination = d
                 /\ ~\E e \in Live(n) : e.destination = d}
             t == Expired(n, table)
  <1>1. /\ t = [d \in Places |-> IF d \in over /\ table[d].status = "underway" THEN NoRoute ELSE table[d]]
    BY DEF Expired
  <1>2. t \in RouteTable
    BY <1>1, NoRouteType DEF RouteTable
  <1>3. \A d \in Places : t[d] = table[d] \/ t[d] = NoRoute
    BY <1>1
  <1>4. ToNeighbours(n, table) => ToNeighbours(n, t)
    BY <1>3, NoRouteType DEF ToNeighbours
  <1>5. ASSUME Covers(discoveries[n], table), NEW d \in Places, t[d].status = "underway"
        PROVE  \E e \in Live(n) : e.destination = d
    <2>1. t[d] = table[d] /\ table[d].status = "underway" /\ d \notin over
      BY <1>1, <1>5, NoRouteType
    <2>2. PICK e \in discoveries[n] : e.destination = d
      BY <1>5, <2>1 DEF Covers
    <2>3. CASE e.expired
      BY <2>1, <2>2, <2>3
    <2>4. CASE ~e.expired
      BY <2>2, <2>4 DEF Live
    <2> QED BY <2>3, <2>4
  <1> QED BY <1>2, <1>4, <1>5 DEF Covers

\* consider_route leaves an active entry, whose next hop is a neighbour.
LEMMA ConsiderRouteFacts ==
    ASSUME NEW n \in Nodes, NEW route \in RouteType, NEW next \in Neighbours(n), NEW cost \in Int,
           route.status = "active" => route.next \in Neighbours(n)
    PROVE  /\ ConsiderRoute(route, next, cost) \in RouteType
           /\ ConsiderRoute(route, next, cost).status = "active"
           /\ ConsiderRoute(route, next, cost).next \in Neighbours(n)
  BY DEF ConsiderRoute, RouteType, Statuses, Neighbours

\* invalidate_routes_via takes active entries away and adds none.
LEMMA InvalidatedFacts ==
    ASSUME NEW n \in Nodes, NEW table \in RouteTable, NEW next
    PROVE  /\ InvalidatedVia(table, next) \in RouteTable
           /\ ToNeighbours(n, table) => ToNeighbours(n, InvalidatedVia(table, next))
           /\ \A D : Covers(D, table) => Covers(D, InvalidatedVia(table, next))
  <1> DEFINE t == InvalidatedVia(table, next)
  <1>1. ASSUME NEW d \in Places
        PROVE  /\ t[d] \in RouteType
               /\ t[d].status \in {"active", "underway"} => t[d] = table[d]
    <2>1. table[d] \in RouteType
      BY DEF RouteTable
    <2> QED BY <2>1 DEF InvalidatedVia, RouteType, Statuses
  <1>2. t \in RouteTable
    BY <1>1 DEF InvalidatedVia, RouteTable
  <1> HIDE DEF t
  <1> QED BY <1>1, <1>2 DEF t, ToNeighbours, Covers

\* A route entry that changes, in a table that is otherwise the same.
LEMMA EntrySet ==
    ASSUME NEW n \in Nodes, NEW table \in RouteTable, NEW d \in Places, NEW r \in RouteType, NEW D,
           ToNeighbours(n, table), r.status = "active" => r.next \in Neighbours(n),
           Covers(D, table), r.status = "underway" => \E e \in D : e.destination = d
    PROVE  /\ [table EXCEPT ![d] = r] \in RouteTable
           /\ ToNeighbours(n, [table EXCEPT ![d] = r])
           /\ Covers(D, [table EXCEPT ![d] = r])
  <1> DEFINE t == [table EXCEPT ![d] = r]
  <1>1. t \in RouteTable /\ t[d] = r /\ \A x \in Places : x # d => t[x] = table[x]
    BY DEF RouteTable
  <1> HIDE DEF t
  <1> QED BY <1>1 DEF t, ToNeighbours, Covers

-----------------------------------------------------------------------------
(* Steps of one node, and of the messages *)

LEMMA TablesUnchanged ==
    ASSUME TablesSound, routes' = routes, discoveries' = discoveries, live' = live
    PROVE  TablesSound'
  BY DEF TablesSound

\* A step on the tables of one node.
LEMMA NodeStep ==
    ASSUME TablesSound, NEW n \in Nodes, NEW t, NEW D, NodeSound(n, t, D),
           routes' = [routes EXCEPT ![n] = t], discoveries' = [discoveries EXCEPT ![n] = D],
           live' = live
    PROVE  TablesSound'
  <1>1. t \in RouteTable /\ D \in SUBSET EntryType
    BY DEF NodeSound
  <1>2. /\ routes' \in [Nodes -> RouteTable] /\ discoveries' \in [Nodes -> SUBSET EntryType]
        /\ live' \in [Nodes -> SUBSET Nodes]
    BY <1>1 DEF TablesSound
  <1>3. ASSUME NEW x \in Nodes PROVE live'[x] \subseteq Neighbours(x) /\ NodeSound(x, routes'[x], discoveries'[x])
    <2>1. CASE x = n
      <3>1. routes'[x] = t /\ discoveries'[x] = D
        BY <2>1 DEF TablesSound
      <3> QED BY <2>1, <3>1 DEF TablesSound
    <2>2. CASE x # n
      <3>1. routes'[x] = routes[x] /\ discoveries'[x] = discoveries[x]
        BY <2>2 DEF TablesSound
      <3> QED BY <3>1 DEF TablesSound
    <2> QED BY <2>1, <2>2
  <1> QED BY <1>2, <1>3 DEF TablesSound

LEMMA RoutesStep ==
    ASSUME TablesSound, NEW n \in Nodes, NEW t, NodeSound(n, t, discoveries[n]),
           routes' = [routes EXCEPT ![n] = t], discoveries' = discoveries, live' = live
    PROVE  TablesSound'
  <1>1. discoveries' = [discoveries EXCEPT ![n] = discoveries[n]]
    BY DEF TablesSound
  <1> QED BY <1>1, NodeStep

\* No new request: what is asked now was asked before.
LEMMA RequestsKept ==
    ASSUME RequestsSound, requestId' = requestId,
           \A n \in Nodes : \A e \in discoveries'[n] : Asked(e.originator, e.id, e.destination),
           \A m \in air' : m.kind = "request" =>
               Asked(m.body.originator, m.body.id, m.body.destination)
    PROVE  RequestsSound'
  <1>1. ASSUME NEW o, NEW id, NEW d, Asked(o, id, d)' PROVE Asked(o, id, d)
    <2>1. CASE \E n \in Nodes : \E e \in discoveries'[n] : Asks(e, o, id, d)
      BY <2>1 DEF Asks
    <2>2. CASE \E m \in air' : m.kind = "request" /\ Asks(m.body, o, id, d)
      BY <2>2 DEF Asks
    <2> QED BY <1>1, <2>1, <2>2 DEF Asked
  <1> QED BY <1>1 DEF RequestsSound

\* One new request of n, with its next number.
LEMMA RequestsGrow ==
    ASSUME RequestsSound, NEW n \in Nodes, NEW g \in Goals, NEW k, k = requestId[n] + 1,
           requestId' = [requestId EXCEPT ![n] = k],
           \A x \in Nodes : \A e \in discoveries'[x] :
               Asked(e.originator, e.id, e.destination) \/ Asks(e, n, k, g),
           \A m \in air' : m.kind = "request" =>
               Asked(m.body.originator, m.body.id, m.body.destination) \/ Asks(m.body, n, k, g)
    PROVE  RequestsSound'
  <1>1. ASSUME NEW o, NEW id, NEW d, Asked(o, id, d)'
        PROVE  Asked(o, id, d) \/ (o = n /\ id = k /\ d = g)
    <2>1. CASE \E x \in Nodes : \E e \in discoveries'[x] : Asks(e, o, id, d)
      BY <2>1 DEF Asks
    <2>2. CASE \E m \in air' : m.kind = "request" /\ Asks(m.body, o, id, d)
      BY <2>2 DEF Asks
    <2> QED BY <1>1, <2>1, <2>2 DEF Asked
  <1>2. requestId' \in [Nodes -> Nat] /\ k \in Nat /\ requestId'[n] = k
    BY DEF RequestsSound
  <1>3. ASSUME NEW o \in Nodes PROVE requestId[o] \in Nat /\ requestId[o] <= requestId'[o]
    BY DEF RequestsSound
  <1>4. ASSUME NEW d \in Goals PROVE ~Asked(n, k, d)
    <2>1. ~(k <= requestId[n]) /\ k \in Nat
      BY DEF RequestsSound
    <2> QED BY <2>1 DEF RequestsSound
  <1>5. ASSUME NEW o \in Nodes, NEW id \in Nat, NEW d \in Goals, Asked(o, id, d)'
        PROVE  id <= requestId'[o] /\ \A x \in Goals : Asked(o, id, x)' => x = d
    <2>1. CASE o = n /\ id = k
      <3>1. \A x \in Goals : Asked(o, id, x)' => x = g
        BY <1>1, <1>4, <2>1
      <3> QED BY <1>2, <1>5, <2>1, <3>1
    <2>2. CASE ~(o = n /\ id = k)
      <3>1. \A x \in Goals : Asked(o, id, x)' => Asked(o, id, x)
        BY <1>1, <2>2
      <3>2. Asked(o, id, d)
        BY <1>5, <3>1
      <3>3. id <= requestId[o] /\ \A x \in Goals : Asked(o, id, x) => x = d
        BY <3>2 DEF RequestsSound
      <3>4. requestId[o] \in Nat /\ requestId'[o] \in Nat /\ requestId[o] <= requestId'[o]
        BY <1>2, <1>3
      <3> QED BY <3>1, <3>3, <3>4
    <2> QED BY <2>1, <2>2
  <1> QED BY <1>2, <1>5 DEF RequestsSound

LEMMA AskedOnTable ==
    ASSUME NEW n \in Nodes, NEW e \in discoveries[n]
    PROVE  Asked(e.originator, e.id, e.destination)
  BY DEF Asked, Asks

LEMMA AskedInAir ==
    ASSUME NEW m \in air, m.kind = "request"
    PROVE  Asked(m.body.originator, m.body.id, m.body.destination)
  BY DEF Asked, Asks

\* The requests of a step that originates none, and floods none but on behalf of a known one.
LEMMA RequestsNode ==
    ASSUME TablesSound, RequestsSound, requestId' = requestId, NEW n \in Nodes, NEW D,
           discoveries' = [discoveries EXCEPT ![n] = D],
           \A e \in D : Asked(e.originator, e.id, e.destination),
           \A m \in air' : m.kind = "request" =>
               m \in air \/ Asked(m.body.originator, m.body.id, m.body.destination)
    PROVE  RequestsSound'
  <1>1. ASSUME NEW x \in Nodes, NEW e \in discoveries'[x]
        PROVE  Asked(e.originator, e.id, e.destination)
    <2>1. CASE x = n
      <3>1. e \in D
        BY <2>1 DEF TablesSound
      <3> QED BY <3>1
    <2>2. CASE x # n
      <3>1. e \in discoveries[x]
        BY <2>2 DEF TablesSound
      <3> QED BY <3>1, AskedOnTable
    <2> QED BY <2>1, <2>2
  <1>2. \A m \in air' : m.kind = "request" => Asked(m.body.originator, m.body.id, m.body.destination)
    BY AskedInAir
  <1> QED BY <1>1, <1>2, RequestsKept

LEMMA RequestsUnchanged ==
    ASSUME RequestsSound, requestId' = requestId, discoveries' = discoveries,
           \A m \in air' : m.kind = "request" => m \in air
    PROVE  RequestsSound'
  <1>1. \A n \in Nodes : \A e \in discoveries'[n] : Asked(e.originator, e.id, e.destination)
    BY AskedOnTable
  <1>2. \A m \in air' : m.kind = "request" => Asked(m.body.originator, m.body.id, m.body.destination)
    BY AskedInAir
  <1> QED BY <1>1, <1>2, RequestsKept

-----------------------------------------------------------------------------
(* The operators on frames and tables *)

LEMMA AirUnchanged ==
    ASSUME AirSound, air' \subseteq air
    PROVE  AirSound'
  BY DEF AirSound

LEMMA HeldUnchanged ==
    ASSUME HeldSound, held' = held
    PROVE  HeldSound'
  BY DEF HeldSound

LEMMA RecordsUnchanged ==
    ASSUME RecordsSound, records' = records
    PROVE  RecordsSound'
  BY DEF RecordsSound

LEMMA HistoryUnchanged ==
    ASSUME HistorySound, seen' = seen
    PROVE  HistorySound'
  BY DEF HistorySound

LEMMA FrameFacts ==
    ASSUME NEW kind \in {"data", "record", "status"}, NEW source \in Places, NEW dest \in Places,
           NEW about \in Nat \cup (Places \X Codes)
    PROVE  LET f == Frame(kind, source, dest, about) IN
           /\ f \in FrameType
           /\ f.kind = kind /\ f.source = source /\ f.dest = dest /\ f.relays = <<>> /\ f.index = -1
  <1>1. Radius \in Int
    BY Constants
  <1>2. <<>> \in Seq(Nodes) /\ -1 \in Int
    OBVIOUS
  <1> QED BY <1>1, <1>2 DEF Frame, FrameType

Routed(g, f, s, i) == g = [f EXCEPT !.relays = s, !.index = i]

LEMMA RoutedFrame ==
    ASSUME NEW f \in FrameType, NEW s \in Seq(Nodes), NEW i \in Int, NEW g, Routed(g, f, s, i)
    PROVE  /\ g \in FrameType /\ g.relays = s /\ g.index = i
           /\ g.kind = f.kind /\ g.source = f.source /\ g.dest = f.dest
  <1> DEFINE h == [f EXCEPT !.relays = s]
  <1>1. /\ h \in FrameType /\ h.relays = s
        /\ h.kind = f.kind /\ h.source = f.source /\ h.dest = f.dest
    BY DEF FrameType
  <1>2. g = [h EXCEPT !.index = i]
    BY DEF Routed
  <1> HIDE DEF h
  <1>3. /\ g \in FrameType /\ g.relays = h.relays /\ g.index = i
        /\ g.kind = h.kind /\ g.source = h.source /\ g.dest = h.dest
    BY <1>1, <1>2 DEF FrameType
  <1> QED BY <1>1, <1>3

LEMMA MessageFacts ==
    ASSUME NEW kind, NEW from, NEW to, NEW body
    PROVE  LET m == Message(kind, from, to, body) IN
           m.kind = kind /\ m.from = from /\ m.to = to /\ m.body = body
  BY DEF Message

\* A frame that leaves its source goes to a place, and source routed ones to their last relay.
LEMMA ResolveSound ==
    ASSUME RecordsSound, NEW n \in Nodes, NEW table \in RouteTable, ToNeighbours(n, table),
           NEW f, Outgoing(f), NEW r, r = Resolve(n, table, f),
           table[f.dest].status = "active" \/ r.hop # Nobody
    PROVE  MessageSound(Message("frame", n, r.hop, r.frame))
  <1>1. f \in FrameType /\ f.dest \in Places /\ f.kind # "record" /\ f.index = -1 /\ Len(f.relays) \in Nat
    <2>1. f \in FrameType /\ f.kind # "record" /\ f.index = -1
      BY DEF Outgoing
    <2>2. f.dest \in Places /\ f.relays \in Seq(Nodes)
      BY <2>1 DEF FrameType
    <2>3. Len(f.relays) \in Nat
      BY <2>2
    <2> QED BY <2>1, <2>2, <2>3
  <1>2. n \in Places
    BY NodePlace
  <1>3. ASSUME r = [hop |-> f.dest, frame |-> f] PROVE FrameSound(n, r.hop, r.frame)
    <2>1. r.hop = f.dest /\ r.frame = f
      BY <1>3
    <2> QED BY <1>1, <1>2, <2>1 DEF FrameSound
  <1>4. ASSUME r = [hop |-> NextHop(table, f.dest), frame |-> f] PROVE FrameSound(n, r.hop, r.frame)
    <2>1. r.hop = NextHop(table, f.dest) /\ r.frame = f
      BY <1>4
    <2>2. table[f.dest].status = "active" /\ r.hop = table[f.dest].next
      BY <2>1 DEF NextHop
    <2>3. r.hop \in Nodes
      BY <1>1, <2>2, NeighbourNode DEF ToNeighbours
    <2>4. r.hop \in Places
      BY <2>3, NodePlace
    <2> QED BY <1>1, <1>2, <2>1, <2>3, <2>4 DEF FrameSound
  <1>5. ASSUME NEW s \in Seq(Nodes), Len(s) \in Nat \ {0}, r = ApplySourceRoute(f, s)
        PROVE  FrameSound(n, r.hop, r.frame)
    <2> DEFINE g == [f EXCEPT !.relays = s, !.index = Len(s) - 1]
    <2>1. r.hop = s[Len(s)] /\ r.frame = g
      BY <1>5 DEF ApplySourceRoute
    <2>6. Len(s) - 1 \in Int
      BY <1>5
    <2>2. g \in FrameType /\ g.kind = f.kind /\ g.relays = s /\ g.index = Len(s) - 1
      <3>1. PICK i \in Int : i = Len(s) - 1
        BY <2>6
      <3>2. Routed(g, f, s, i)
        BY <3>1 DEF Routed
      <3> HIDE DEF g
      <3> QED BY <1>1, <1>5, <3>1, <3>2, RoutedFrame
    <2> HIDE DEF g
    <2>3. s[Len(s)] \in Nodes
      BY <1>5
    <2>4. r.hop \in Nodes /\ r.hop \in Places
      BY <2>1, <2>3, NodePlace
    <2>5. g.index \in -1 .. Len(g.relays) - 1
      BY <1>5, <2>2
    <2> QED BY <1>1, <1>2, <2>1, <2>2, <2>4, <2>5 DEF FrameSound
  <1>6. FrameSound(n, r.hop, r.frame)
    <2>1. CASE f.dest \in Children(n)
      <3>1. r = [hop |-> f.dest, frame |-> f]
        BY <2>1 DEF Resolve
      <3> QED BY <1>3, <3>1
    <2>2. CASE f.dest \notin Children(n) /\ n \in Concentrators
      <3>1. r = RouteTo(n, table, f)
        BY <2>2 DEF Resolve
      <3> DEFINE s == records[n][f.dest]
      <3>2. s # NoRecord => s \in Seq(Nodes)
        BY <1>1 DEF RecordsSound, RecordSound
      <3>3. CASE s = <<>>
        <4>1. r = [hop |-> f.dest, frame |-> f]
          BY <3>1, <3>3 DEF RouteTo, NoRecord
        <4> QED BY <1>3, <4>1
      <3>4. CASE s # <<>> /\ s # NoRecord /\ Len(s) \in 1 .. MaxSourceRoute - 1
        <4>1. r = ApplySourceRoute(f, s)
          BY <3>1, <3>4 DEF RouteTo
        <4>2. Len(s) \in Nat \ {0}
          BY <3>4, Constants
        <4> HIDE DEF s
        <4> QED BY <1>5, <3>2, <3>4, <4>1, <4>2
      <3>5. CASE s # <<>> /\ ~(s # NoRecord /\ Len(s) \in 1 .. MaxSourceRoute - 1)
        <4>1. r = [hop |-> NextHop(table, f.dest), frame |-> f]
          BY <3>1, <3>5 DEF RouteTo
        <4> QED BY <1>4, <4>1
      <3> QED BY <3>3, <3>4, <3>5
    <2>3. CASE f.dest \notin Children(n) /\ n \notin Concentrators
      <3>1. r = [hop |-> NextHop(table, f.dest), frame |-> f]
        BY <2>3 DEF Resolve
      <3> QED BY <1>4, <3>1
    <2> QED BY <2>1, <2>2, <2>3
  <1> QED BY <1>6, MessageFacts DEF MessageSound

\* The copies of a request that a node broadcasts.
LEMMA FloodSound ==
    ASSUME NEW n \in Nodes, NEW q \in RequestType, NEW m \in Flood(n, q)
    PROVE  MessageSound(m) /\ m.kind = "request" /\ m.body = q
  <1>1. PICK x \in Neighbours(n) : m = Message("request", n, x, q)
    BY DEF Flood
  <1>2. x \in Nodes
    BY NeighbourNode
  <1> QED BY <1>1, <1>2, MessageFacts DEF MessageSound

-----------------------------------------------------------------------------
(* Originating a route request *)

\* begin_discovery: the request is fresh, and what it leaves underway it asks for.
LEMMA OriginateStep ==
    ASSUME TablesSound, AirSound, RequestsSound, NEW n \in Nodes, NEW g \in Goals,
           NEW table \in RouteTable, NEW flight, flight \subseteq air,
           ToNeighbours(n, table),
           \A d \in Places : table[d].status = "underway" =>
               d = g \/ \E e \in Live(n) : e.destination = d,
           Originate(n, g, table, flight), live' = live
    PROVE  TablesSound' /\ AirSound' /\ RequestsSound'
  <1> DEFINE k == requestId[n] + 1
             e0 == [originator |-> n, id |-> k, sender |-> Nobody, forward |-> 0, residual |-> Unknown,
                    destination |-> g, expired |-> FALSE]
             D == Live(n) \cup {e0}
             q == [originator |-> n, id |-> k, destination |-> g, cost |-> 0, radius |-> RequestRadius]
  <1>1. /\ requestId' = [requestId EXCEPT ![n] = k]
        /\ routes' = [routes EXCEPT ![n] = table]
        /\ discoveries' = [discoveries EXCEPT ![n] = D]
        /\ air' = flight \cup Flood(n, q)
    BY DEF Originate
  <1>2. k \in Nat
    BY DEF RequestsSound
  <1>3. e0 \in EntryType /\ e0.originator = n /\ e0.id = k /\ e0.destination = g
    <2>1. FALSE \in BOOLEAN /\ Unknown \in Int /\ 0 \in Int
      BY DEF Unknown
    <2> QED BY <1>2, <2>1 DEF EntryType
  <1>4. q \in RequestType /\ q.originator = n /\ q.id = k /\ q.destination = g
    BY <1>2, Constants DEF RequestType
  <1> HIDE DEF e0, q
  <1>5. NodeSound(n, table, D)
    <2>1. D \subseteq EntryType /\ WayBack(n, D)
      BY <1>3, LiveFacts DEF WayBack
    <2>2. Covers(D, table)
      BY <1>3 DEF Covers
    <2> QED BY <2>1, <2>2 DEF NodeSound
  <1>6. TablesSound'
    BY <1>1, <1>5, NodeStep
  <1>7. AirSound'
    BY <1>1, <1>4, FloodSound DEF AirSound
  <1>8. ASSUME NEW x \in Nodes, NEW e \in discoveries'[x]
        PROVE  Asked(e.originator, e.id, e.destination) \/ Asks(e, n, k, g)
    <2>1. CASE e = e0
      BY <1>3, <2>1 DEF Asks
    <2>2. CASE e # e0
      <3>1. e \in discoveries[x]
        BY <1>1, <2>2, LiveFacts DEF TablesSound
      <3> QED BY <3>1, AskedOnTable
    <2> QED BY <2>1, <2>2
  <1>9. ASSUME NEW m \in air', m.kind = "request"
        PROVE  Asked(m.body.originator, m.body.id, m.body.destination) \/ Asks(m.body, n, k, g)
    <2>1. CASE m \in Flood(n, q)
      BY <1>4, <2>1, FloodSound DEF Asks
    <2>2. CASE m \in air
      BY <1>9, <2>2, AskedInAir
    <2> QED BY <1>1, <2>1, <2>2
  <1>10. RequestsSound'
    <2> HIDE DEF k, D
    <2>1. k = requestId[n] + 1
      BY DEF k
    <2> QED BY <1>1, <1>8, <1>9, <2>1, RequestsGrow
  <1> QED BY <1>6, <1>7, <1>10

\* start_route_discovery, from any sound table.
LEMMA DiscoveryStep ==
    ASSUME TablesSound, AirSound, RequestsSound, NEW n \in Nodes, NEW d \in Places,
           NEW table, NodeSound(n, table, discoveries[n]), NEW flight, flight \subseteq air,
           StartRouteDiscovery(n, d, table, flight), live' = live
    PROVE  TablesSound' /\ AirSound' /\ RequestsSound'
  <1> DEFINE x == Expired(n, table)
             t == [x EXCEPT ![d].status = "underway"]
  <1>1. x \in RouteTable /\ ToNeighbours(n, x) /\ Covers(Live(n), x)
    BY ExpiredFacts DEF NodeSound
  <1>2. Originate(n, d, t, flight)
    BY DEF StartRouteDiscovery
  <1> HIDE DEF x
  <1>3. t \in RouteTable /\ t[d].status = "underway" /\ \A y \in Places : y # d => t[y] = x[y]
    BY <1>1 DEF RouteTable, RouteType, Statuses
  <1> HIDE DEF t
  <1>4. ToNeighbours(n, t)
    BY <1>1, <1>3 DEF ToNeighbours
  <1>5. \A y \in Places : t[y].status = "underway" => y = d \/ \E e \in Live(n) : e.destination = y
    BY <1>1, <1>3 DEF Covers
  <1>6. d \in Goals
    BY DEF Goals
  <1> QED BY <1>2, <1>3, <1>4, <1>5, <1>6, OriginateStep

LEMMA AdvertiseStep ==
    ASSUME MeshInv, NEW n \in Nodes, Advertise(n)
    PROVE  MeshInv'
  <1>1. TablesSound /\ AirSound /\ RequestsSound /\ NodeSound(n, routes[n], discoveries[n])
    BY DEF MeshInv, TablesSound
  <1>2. /\ Expired(n, routes[n]) \in RouteTable /\ ToNeighbours(n, Expired(n, routes[n]))
        /\ Covers(Live(n), Expired(n, routes[n]))
    BY <1>1, ExpiredFacts DEF NodeSound
  <1>3. Everyone \in Goals
    BY DEF Goals
  <1>4. /\ Originate(n, Everyone, Expired(n, routes[n]), air)
        /\ held' = held /\ records' = records /\ live' = live /\ seen' = seen
    BY DEF Advertise
  <1>5. TablesSound' /\ AirSound' /\ RequestsSound'
    <2>1. \A d \in Places : Expired(n, routes[n])[d].status = "underway" =>
              d = Everyone \/ \E e \in Live(n) : e.destination = d
      BY <1>2 DEF Covers
    <2> QED BY <1>1, <1>2, <1>3, <1>4, <2>1, OriginateStep
  <1>6. HeldSound' /\ RecordsSound' /\ HistorySound'
    BY <1>4, HeldUnchanged, RecordsUnchanged, HistoryUnchanged DEF MeshInv
  <1> QED BY <1>5, <1>6 DEF MeshInv

-----------------------------------------------------------------------------
(* Sending a frame *)

LEMMA AirGrows ==
    ASSUME AirSound, NEW x, MessageSound(x), NEW flight, flight \subseteq air, air' = flight \cup {x}
    PROVE  AirSound'
  BY DEF AirSound

LEMMA HeldGrows ==
    ASSUME HeldSound, NEW n \in Nodes, NEW f, Outgoing(f), held' = [held EXCEPT ![n] = @ \cup {f}]
    PROVE  HeldSound'
  <1>1. f \in FrameType
    BY DEF Outgoing
  <1>2. held' \in [Nodes -> SUBSET FrameType]
    BY <1>1 DEF HeldSound
  <1>3. ASSUME NEW x \in Nodes, NEW g \in held'[x] PROVE Outgoing(g)
    <2>1. g \in held[x] \/ g = f
      BY DEF HeldSound
    <2> QED BY <2>1 DEF HeldSound
  <1> QED BY <1>2, <1>3 DEF HeldSound

LEMMA HeldShrinks ==
    ASSUME HeldSound, NEW n \in Nodes, NEW F, F \subseteq held[n], held' = [held EXCEPT ![n] = F]
    PROVE  HeldSound'
  <1>1. held' \in [Nodes -> SUBSET FrameType]
    BY DEF HeldSound
  <1>2. ASSUME NEW x \in Nodes, NEW g \in held'[x] PROVE Outgoing(g)
    <2>1. g \in held[x]
      BY DEF HeldSound
    <2> QED BY <2>1 DEF HeldSound
  <1> QED BY <1>1, <1>2 DEF HeldSound

\* send_unicast: the frame leaves to a sound next hop, joins the held ones, or starts a discovery.
LEMMA SendUnicastStep ==
    ASSUME MeshInv, NEW n \in Nodes, NEW f, Outgoing(f), NEW table, NodeSound(n, table, discoveries[n]),
           NEW flight, flight \subseteq air, SendUnicast(n, f, table, flight),
           records' = records, live' = live, HistorySound'
    PROVE  MeshInv'
  <1>1. TablesSound /\ AirSound /\ RequestsSound /\ HeldSound /\ RecordsSound
    BY DEF MeshInv
  <1>2. table \in RouteTable /\ ToNeighbours(n, table) /\ f.dest \in Places
    BY DEF NodeSound, Outgoing, FrameType
  <1>3. PICK r : r = Resolve(n, table, f)
    OBVIOUS
  <1>4. RecordsSound'
    BY <1>1, RecordsUnchanged
  <1>5. CASE /\ r.hop # Nobody
             /\ routes' = [routes EXCEPT ![n] = table]
             /\ air' = flight \cup {Message("frame", n, r.hop, r.frame)}
             /\ discoveries' = discoveries /\ requestId' = requestId /\ held' = held
    <2>1. MessageSound(Message("frame", n, r.hop, r.frame))
      BY <1>1, <1>2, <1>3, <1>5, ResolveSound
    <2>2. AirSound'
      BY <1>1, <1>5, <2>1, AirGrows
    <2>3. TablesSound'
      BY <1>1, <1>5, RoutesStep
    <2>4. RequestsSound'
      <3>1. \A m \in air' : m.kind = "request" => m \in air
        BY <1>5, MessageFacts
      <3> QED BY <1>1, <1>5, <3>1, RequestsUnchanged
    <2>5. HeldSound'
      BY <1>1, <1>5, HeldUnchanged
    <2> QED BY <1>4, <2>2, <2>3, <2>4, <2>5 DEF MeshInv
  <1>6. CASE /\ held' = [held EXCEPT ![n] = @ \cup {f}]
             /\ routes' = [routes EXCEPT ![n] = table] /\ air' = flight
             /\ discoveries' = discoveries /\ requestId' = requestId
    <2>1. TablesSound'
      BY <1>1, <1>6, RoutesStep
    <2>2. RequestsSound'
      <3>1. \A m \in air' : m.kind = "request" => m \in air
        BY <1>6
      <3> QED BY <1>1, <1>6, <3>1, RequestsUnchanged
    <2>3. HeldSound'
      BY <1>1, <1>6, HeldGrows
    <2>4. AirSound'
      BY <1>1, <1>6, AirUnchanged
    <2> QED BY <1>4, <2>1, <2>2, <2>3, <2>4 DEF MeshInv
  <1>7. CASE held' = [held EXCEPT ![n] = @ \cup {f}] /\ StartRouteDiscovery(n, f.dest, table, flight)
    <2>1. TablesSound' /\ AirSound' /\ RequestsSound'
      BY <1>1, <1>2, <1>7, DiscoveryStep
    <2>2. HeldSound'
      BY <1>1, <1>7, HeldGrows
    <2> QED BY <1>4, <2>1, <2>2 DEF MeshInv
  <1> QED BY <1>3, <1>5, <1>6, <1>7 DEF SendUnicast, discovering

LEMMA SendDataStep ==
    ASSUME MeshInv, NEW n \in Nodes, NEW d \in Places, SendData(n, d)
    PROVE  MeshInv'
  <1>1. /\ SendUnicast(n, Frame("data", n, d, seen.sent + 1), routes[n], air)
        /\ records' = records /\ live' = live
        /\ seen' = [seen EXCEPT !.sent = @ + 1]
    BY DEF SendData
  <1>2. seen.sent \in Nat /\ seen.sent + 1 \in Nat
    BY DEF MeshInv, HistorySound
  <1>3. HistorySound'
    BY <1>1, <1>2 DEF MeshInv, HistorySound
  <1>4. Outgoing(Frame("data", n, d, seen.sent + 1))
    <2>1. PICK k \in Nat : k = seen.sent + 1
      BY <1>2
    <2>2. Outgoing(Frame("data", n, d, k))
      BY NodePlace, FrameFacts DEF Outgoing
    <2> QED BY <2>1, <2>2
  <1>5. NodeSound(n, routes[n], discoveries[n])
    BY DEF MeshInv, TablesSound
  <1> QED BY <1>1, <1>3, <1>4, <1>5, SendUnicastStep

LEMMA SendRouteRecordStep ==
    ASSUME MeshInv, NEW k \in Kids, NEW c \in Concentrators, SendRouteRecord(k, c)
    PROVE  MeshInv'
  <1>1. /\ air' = air \cup {Message("frame", k, Parent[k], Frame("record", k, c, 0))}
        /\ routes' = routes /\ discoveries' = discoveries /\ requestId' = requestId /\ held' = held
        /\ records' = records /\ live' = live /\ seen' = seen
    BY DEF SendRouteRecord, discovering
  <1>2. TablesSound /\ AirSound /\ RequestsSound /\ HeldSound /\ RecordsSound
    BY DEF MeshInv
  <1>3. k \in Places /\ Parent[k] \in Nodes /\ Parent[k] \in Places /\ c \in Nodes /\ c \in Places
    BY Constants, NodePlace DEF Places
  <1>4. PICK f : f = Frame("record", k, c, 0)
    OBVIOUS
  <1>5. f \in FrameType /\ f.kind = "record" /\ f.source = k /\ f.dest = c /\ f.relays = <<>> /\ f.index = -1
    BY <1>3, <1>4, FrameFacts
  <1>6. Joined(k, <<>>, Parent[k])
    BY DEF Joined, Linked
  <1>7. MessageSound(Message("frame", k, Parent[k], f))
    <2>1. FrameSound(k, Parent[k], f)
      BY <1>3, <1>5, <1>6 DEF FrameSound
    <2> QED BY <2>1, MessageFacts DEF MessageSound
  <1>8. AirSound'
    BY <1>1, <1>2, <1>4, <1>7, AirGrows
  <1>9. RequestsSound'
    <2>1. \A m \in air' : m.kind = "request" => m \in air
      BY <1>1, MessageFacts
    <2> QED BY <1>1, <1>2, <2>1, RequestsUnchanged
  <1> QED BY <1>1, <1>2, <1>8, <1>9, TablesUnchanged, HeldUnchanged, RecordsUnchanged, HistoryUnchanged DEF MeshInv

LEMMA RouteUnicastsStep ==
    ASSUME MeshInv, NEW n \in Nodes, NEW d \in Places, RouteUnicasts(n, d)
    PROVE  MeshInv'
  <1> DEFINE frames == {f \in held[n] : f.dest = d}
  <1>1. /\ routes[n][d].status = "active"
        /\ held' = [held EXCEPT ![n] = @ \ frames]
        /\ air' = air \cup {LET r == Resolve(n, routes[n], f) IN Message("frame", n, r.hop, r.frame) : f \in frames}
        /\ routes' = routes /\ discoveries' = discoveries /\ requestId' = requestId
        /\ records' = records /\ live' = live /\ seen' = seen
    BY DEF RouteUnicasts
  <1>2. TablesSound /\ AirSound /\ RequestsSound /\ HeldSound /\ RecordsSound
    BY DEF MeshInv
  <1>3. routes[n] \in RouteTable /\ ToNeighbours(n, routes[n])
    BY <1>2 DEF TablesSound, NodeSound
  <1>4. ASSUME NEW m \in air' PROVE m \in air \/ (m.kind = "frame" /\ MessageSound(m))
    <2>1. CASE m \notin air
      <3>1. PICK f \in frames : m = Message("frame", n, Resolve(n, routes[n], f).hop, Resolve(n, routes[n], f).frame)
        BY <1>1, <2>1
      <3>2. Outgoing(f) /\ routes[n][f.dest].status = "active"
        BY <1>1, <1>2 DEF HeldSound
      <3>3. PICK r : r = Resolve(n, routes[n], f)
        OBVIOUS
      <3>4. MessageSound(Message("frame", n, r.hop, r.frame))
        BY <1>2, <1>3, <3>2, <3>3, ResolveSound
      <3> QED BY <3>1, <3>3, <3>4, MessageFacts
    <2> QED BY <2>1
  <1>5. AirSound'
    BY <1>2, <1>4 DEF AirSound
  <1>6. RequestsSound'
    <2>1. \A m \in air' : m.kind = "request" => m \in air
      BY <1>4
    <2> QED BY <1>1, <1>2, <2>1, RequestsUnchanged
  <1>7. HeldSound'
    <2>1. held' = [held EXCEPT ![n] = held[n] \ frames]
      BY <1>1
    <2> QED BY <1>2, <2>1, HeldShrinks
  <1> QED BY <1>1, <1>2, <1>5, <1>6, <1>7, TablesUnchanged, RecordsUnchanged, HistoryUnchanged DEF MeshInv

LEMMA DiscoveryLapsedStep ==
    ASSUME MeshInv, NEW n \in Nodes, NEW d \in Places, DiscoveryLapsed(n, d)
    PROVE  MeshInv'
  <1>1. TablesSound /\ AirSound /\ RequestsSound /\ HeldSound /\ RecordsSound /\ HistorySound
    BY DEF MeshInv
  <1>2. NodeSound(n, routes[n], discoveries[n])
    BY <1>1 DEF TablesSound
  <1>3. records' = records /\ live' = live /\ seen' = seen
    BY DEF DiscoveryLapsed
  <1>4. RecordsSound' /\ HistorySound'
    BY <1>1, <1>3, RecordsUnchanged, HistoryUnchanged
  <1>5. CASE StartRouteDiscovery(n, d, routes[n], air) /\ held' = held
    <2>1. TablesSound' /\ AirSound' /\ RequestsSound'
      BY <1>1, <1>2, <1>3, <1>5, DiscoveryStep
    <2> QED BY <1>1, <1>4, <1>5, <2>1, HeldUnchanged DEF MeshInv
  <1>6. CASE /\ routes' = [routes EXCEPT ![n][d].status = IF @ = "none" THEN @ ELSE "failed"]
             /\ held' = [held EXCEPT ![n] = {f \in @ : f.dest # d}]
             /\ discoveries' = discoveries /\ requestId' = requestId /\ air' = air
    <2>1. PICK s \in {"none", "failed"} : s = IF routes[n][d].status = "none" THEN routes[n][d].status ELSE "failed"
      OBVIOUS
    <2> DEFINE r == [routes[n][d] EXCEPT !.status = s]
               t == [routes[n] EXCEPT ![d] = r]
    <2>2. routes[n] \in RouteTable /\ routes[n][d] \in RouteType
      BY <1>2 DEF NodeSound, RouteTable
    <2>3. r \in RouteType /\ r.status = s
      BY <2>2 DEF RouteType, Statuses
    <2>4. routes' = [routes EXCEPT ![n] = t]
      BY <1>1, <1>6, <2>1 DEF TablesSound
    <2> HIDE DEF r
    <2>5. NodeSound(n, t, discoveries[n])
      <3>1. r.status # "active" /\ r.status # "underway"
        BY <2>1, <2>3
      <3> QED BY <1>2, <2>3, <3>1, EntrySet DEF NodeSound
    <2> HIDE DEF t
    <2>6. TablesSound'
      BY <1>1, <1>3, <1>6, <2>4, <2>5, RoutesStep
    <2>7. HeldSound'
      <3>1. held' = [held EXCEPT ![n] = {f \in held[n] : f.dest # d}]
        BY <1>6
      <3> QED BY <1>1, <3>1, HeldShrinks
    <2> QED BY <1>1, <1>4, <1>6, <2>6, <2>7, AirUnchanged, RequestsUnchanged DEF MeshInv
  <1> QED BY <1>5, <1>6 DEF DiscoveryLapsed

-----------------------------------------------------------------------------
(* A received route request *)

LEMMA DroppedStep ==
    ASSUME MeshInv, NEW m \in air, Dropped(m)
    PROVE  MeshInv'
  <1>1. /\ air' \subseteq air
        /\ routes' = routes /\ discoveries' = discoveries /\ requestId' = requestId /\ held' = held
        /\ records' = records /\ live' = live /\ seen' = seen
    BY DEF Dropped, discovering
  <1>2. \A x \in air' : x.kind = "request" => x \in air
    BY <1>1
  <1> QED BY <1>1, <1>2, TablesUnchanged, AirUnchanged, RequestsUnchanged, HeldUnchanged,
             RecordsUnchanged, HistoryUnchanged DEF MeshInv

\* Two records of one request name one destination.
LEMMA OneDestination ==
    ASSUME TablesSound, RequestsSound, NEW n \in Nodes, NEW e \in discoveries[n],
           NEW d \in Goals, Asked(e.originator, e.id, d)
    PROVE  e.destination = d
  <1>1. Asked(e.originator, e.id, e.destination)
    BY AskedOnTable
  <1>2. e.originator \in Nodes /\ e.id \in Nat /\ e.destination \in Goals
    BY DEF TablesSound, EntryType
  <1> QED BY <1>1, <1>2 DEF RequestsSound

EntryWith(f, e, c, s) == f = [e EXCEPT !.forward = c, !.sender = s]

LEMMA EntryWithFacts ==
    ASSUME NEW e \in EntryType, NEW c \in Int, NEW s \in Nodes, NEW f, EntryWith(f, e, c, s)
    PROVE  /\ f \in EntryType /\ f.originator = e.originator /\ f.id = e.id
           /\ f.destination = e.destination /\ f.sender = s
  <1> DEFINE h == [e EXCEPT !.forward = c]
  <1>1. h \in EntryType /\ h.originator = e.originator /\ h.id = e.id /\ h.destination = e.destination
    BY DEF EntryType
  <1>2. f = [h EXCEPT !.sender = s]
    BY DEF EntryWith
  <1> HIDE DEF h
  <1>3. /\ f \in EntryType /\ f.originator = h.originator /\ f.id = h.id
        /\ f.destination = h.destination /\ f.sender = s
    BY <1>1, <1>2 DEF EntryType
  <1> QED BY <1>1, <1>3

\* accept_route_request keeps one entry for the request, for the destination it asks for.
LEMMA RecordedFacts ==
    ASSUME TablesSound, RequestsSound, NEW n \in Nodes, NEW q \in RequestType,
           Asked(q.originator, q.id, q.destination), NEW s \in Neighbours(n), NEW c \in Int,
           NEW D, D = Recorded(n, q, s, c)
    PROVE  /\ D \subseteq EntryType /\ WayBack(n, D)
           /\ \A e \in D : Asked(e.originator, e.id, e.destination)
           /\ \A x \in Live(n) : \E e \in D : e.destination = x.destination
           /\ \E e \in D : e.destination = q.destination
  <1> DEFINE known == Discovery(Live(n), q.originator, q.id)
             fresh == [originator |-> q.originator, id |-> q.id, sender |-> s,
                       forward |-> c, residual |-> Unknown,
                       destination |-> q.destination, expired |-> FALSE]
             old == CHOOSE e \in known : TRUE
             entry == IF known = {} THEN fresh ELSE [old EXCEPT !.forward = c, !.sender = s]
  <1>1. D = (Live(n) \ known) \cup {entry}
    BY DEF Recorded
  <1>2. s \in Nodes
    BY NeighbourNode
  <1>3. q.originator \in Nodes /\ q.id \in Nat /\ q.destination \in Goals
    BY DEF RequestType
  <1>4. ASSUME NEW e \in known
        PROVE  /\ e \in Live(n) /\ e \in discoveries[n] /\ e \in EntryType /\ e.originator = q.originator
               /\ e.id = q.id /\ e.destination = q.destination
    <2>1. e \in Live(n) /\ e.originator = q.originator /\ e.id = q.id
      BY DEF Discovery
    <2>2. e \in discoveries[n] /\ e \in EntryType
      BY <2>1, LiveFacts
    <2>3. e.destination = q.destination
      BY <1>3, <2>1, <2>2, OneDestination
    <2> QED BY <2>1, <2>2, <2>3
  <1>5. /\ entry \in EntryType /\ entry.originator = q.originator /\ entry.id = q.id
        /\ entry.destination = q.destination /\ entry.sender = s
    <2>1. CASE known = {}
      <3>1. entry = fresh
        BY <2>1
      <3>2. FALSE \in BOOLEAN /\ Unknown \in Int
        BY DEF Unknown
      <3> QED BY <1>2, <1>3, <3>1, <3>2 DEF EntryType
    <2>2. CASE known # {}
      <3>1. old \in known
        BY <2>2
      <3> HIDE DEF old, known
      <3>2. EntryWith(entry, old, c, s)
        BY <2>2 DEF EntryWith
      <3>3. old \in EntryType /\ old.originator = q.originator /\ old.id = q.id /\ old.destination = q.destination
        BY <1>4, <3>1
      <3> HIDE DEF entry
      <3> QED BY <1>2, <3>2, <3>3, EntryWithFacts
    <2> QED BY <2>1, <2>2
  <1> HIDE DEF entry, known
  <1>6. D \subseteq EntryType /\ WayBack(n, D)
    BY <1>1, <1>5, LiveFacts DEF WayBack
  <1>7. ASSUME NEW e \in D PROVE Asked(e.originator, e.id, e.destination)
    <2>1. CASE e = entry
      BY <1>5, <2>1
    <2>2. CASE e # entry
      <3>1. e \in discoveries[n]
        BY <1>1, <2>2, LiveFacts
      <3> QED BY <3>1, AskedOnTable
    <2> QED BY <2>1, <2>2
  <1>8. \E e \in D : e.destination = q.destination
    BY <1>1, <1>5
  <1>9. ASSUME NEW x \in Live(n) PROVE \E e \in D : e.destination = x.destination
    <2>1. CASE x \in known
      BY <1>4, <1>8, <2>1
    <2>2. CASE x \notin known
      BY <1>1, <2>2
    <2> QED BY <2>1, <2>2
  <1> QED BY <1>6, <1>7, <1>8, <1>9

RequestRefused(m, n, link) ==
    /\ routes' = [routes EXCEPT ![n] = IF link = 0 THEN @ ELSE Expired(n, @)]
    /\ discoveries' = [discoveries EXCEPT ![n] = IF link = 0 THEN @ ELSE Live(n)]
    /\ air' = air \ {m}
    /\ UNCHANGED <<requestId, held, retries, records, live, broken, seen, bounds>>

LEMMA RequestRefusedStep ==
    ASSUME MeshInv, NEW m \in air, NEW n \in Nodes, NEW link, RequestRefused(m, n, link)
    PROVE  MeshInv'
  <1>0. /\ air' \subseteq air /\ requestId' = requestId /\ held' = held /\ records' = records
        /\ live' = live /\ seen' = seen
    BY DEF RequestRefused
  <1>1. TablesSound /\ AirSound /\ RequestsSound /\ HeldSound /\ RecordsSound
    BY DEF MeshInv
  <1>2. NodeSound(n, routes[n], discoveries[n])
    BY <1>1 DEF TablesSound
  <1>3. PICK t, D : /\ routes' = [routes EXCEPT ![n] = t] /\ discoveries' = [discoveries EXCEPT ![n] = D]
                    /\ \/ t = routes[n] /\ D = discoveries[n]
                       \/ t = Expired(n, routes[n]) /\ D = Live(n)
    BY DEF RequestRefused
  <1>4. NodeSound(n, t, D) /\ D \subseteq discoveries[n]
    <2>1. CASE t = routes[n] /\ D = discoveries[n]
      BY <1>2, <2>1
    <2>2. CASE t = Expired(n, routes[n]) /\ D = Live(n)
      BY <1>1, <1>2, <2>2, ExpiredFacts, LiveFacts DEF NodeSound
    <2> QED BY <1>3, <2>1, <2>2
  <1>5. TablesSound'
    BY <1>0, <1>1, <1>3, <1>4, NodeStep
  <1>6. RequestsSound'
    <2>1. \A e \in D : Asked(e.originator, e.id, e.destination)
      BY <1>4, AskedOnTable
    <2>2. \A x \in air' : x.kind = "request" => x \in air \/ Asked(x.body.originator, x.body.id, x.body.destination)
      BY <1>0
    <2> QED BY <1>0, <1>1, <1>3, <2>1, <2>2, RequestsNode
  <1> QED BY <1>0, <1>1, <1>5, <1>6, AirUnchanged, HeldUnchanged, RecordsUnchanged, HistoryUnchanged DEF MeshInv

LEMMA NoteRelayedFacts ==
    ASSUME NEW n \in Nodes, NEW table, NEW D, NodeSound(n, table, D), NEW d \in Places,
           \E e \in D : e.destination = d
    PROVE  NodeSound(n, NoteRelayed(table, d), D)
  <1>1. PICK s \in {"active", "underway"} : s = IF table[d].status = "active" THEN table[d].status ELSE "underway"
    OBVIOUS
  <1> DEFINE r == [table[d] EXCEPT !.status = s]
  <1>2. table \in RouteTable /\ table[d] \in RouteType
    BY DEF NodeSound, RouteTable
  <1>3. r \in RouteType /\ r.status = s /\ r.next = table[d].next
    BY <1>2 DEF RouteType, Statuses
  <1>4. NoteRelayed(table, d) = [table EXCEPT ![d] = r]
    BY <1>1, <1>2 DEF NoteRelayed, RouteTable
  <1> HIDE DEF r
  <1>5. r.status = "active" => r.next \in Neighbours(n)
    BY <1>1, <1>3 DEF NodeSound, ToNeighbours
  <1>6. ToNeighbours(n, table) /\ WayBack(n, D) /\ Covers(D, table) /\ D \subseteq EntryType
    BY DEF NodeSound
  <1> DEFINE t == [table EXCEPT ![d] = r]
  <1>7. t \in RouteTable /\ ToNeighbours(n, t) /\ Covers(D, t)
    BY <1>2, <1>3, <1>5, <1>6, EntrySet
  <1> HIDE DEF t
  <1>8. NodeSound(n, t, D)
    BY <1>6, <1>7 DEF NodeSound
  <1> QED BY <1>4, <1>8 DEF t

RequestWith(r, q, c) == r = [q EXCEPT !.cost = c, !.radius = @ - 1]

LEMMA RequestWithFacts ==
    ASSUME NEW q \in RequestType, NEW c \in Int, NEW r, RequestWith(r, q, c)
    PROVE  r \in RequestType /\ r.originator = q.originator /\ r.id = q.id /\ r.destination = q.destination
  <1> DEFINE h == [q EXCEPT !.cost = c]
  <1>1. h \in RequestType /\ h.originator = q.originator /\ h.id = q.id /\ h.destination = q.destination
    BY DEF RequestType
  <1>2. r = [h EXCEPT !.radius = @ - 1]
    BY DEF RequestWith
  <1> HIDE DEF h
  <1>3. h.radius - 1 \in Int
    BY <1>1 DEF RequestType
  <1>4. r \in RequestType /\ r.originator = h.originator /\ r.id = h.id /\ r.destination = h.destination
    BY <1>1, <1>2, <1>3 DEF RequestType
  <1> QED BY <1>1, <1>4

RequestTaken(m, n, q, link, c) ==
    /\ link = LinkCost(n, m.from) /\ link # 0 /\ c = q.cost + link
    /\ discoveries' = [discoveries EXCEPT ![n] = Recorded(n, q, m.from, c)]
    /\ LET back == [Expired(n, routes[n]) EXCEPT ![q.originator] = ConsiderRoute(@, m.from, c)]
       IN routes' = [routes EXCEPT ![n] =
              IF Answers(n, q.destination) \/ q.destination = Everyone THEN back
              ELSE NoteRelayed(back, q.destination)]
    /\ air' = (air \ {m}) \cup
           (IF Answers(n, q.destination)
            THEN {Message("reply", n, m.from,
                          [originator |-> q.originator, id |-> q.id,
                           responder |-> q.destination, cost |-> link])}
            ELSE IF q.radius > 1
            THEN Flood(n, [q EXCEPT !.cost = c, !.radius = @ - 1])
            ELSE {})
    /\ UNCHANGED <<requestId, held, retries, records, live, broken, seen, bounds>>

\* accept_route_request with the reply or the rebroadcast that follows it.
LEMMA RequestTakenStep ==
    ASSUME MeshInv, NEW m \in air, m.kind = "request", NEW n \in Nodes, n = m.to,
           NEW q, q = m.body, NEW link, NEW c, RequestTaken(m, n, q, link, c)
    PROVE  MeshInv'
  <1>0. /\ link = LinkCost(n, m.from) /\ link # 0 /\ c = q.cost + link
        /\ requestId' = requestId /\ held' = held /\ records' = records
        /\ live' = live /\ seen' = seen
    BY DEF RequestTaken
  <1>1. TablesSound /\ AirSound /\ RequestsSound /\ HeldSound /\ RecordsSound
    BY DEF MeshInv
  <1>2. m.from \in Nodes /\ q \in RequestType
    BY <1>1 DEF AirSound, MessageSound
  <1>3. link \in Int /\ m.from \in live[n] /\ m.from \in Neighbours(n)
    <2>1. link \in Int /\ m.from \in live[n]
      BY <1>0, <1>1, <1>2, LinkCostType
    <2> QED BY <1>1, <2>1 DEF TablesSound
  <1>4. c \in Int /\ q.originator \in Nodes /\ q.originator \in Places /\ q.id \in Nat /\ q.destination \in Goals
    <2>1. q.cost \in Int /\ q.originator \in Nodes /\ q.id \in Nat /\ q.destination \in Goals
      BY <1>2 DEF RequestType
    <2> QED BY <1>0, <1>3, <2>1, NodePlace
  <1>5. Asked(q.originator, q.id, q.destination)
    BY AskedInAir
  <1>6. PICK D : D = Recorded(n, q, m.from, c) /\ discoveries' = [discoveries EXCEPT ![n] = D]
    BY DEF RequestTaken
  <1>7. /\ D \subseteq EntryType /\ WayBack(n, D)
        /\ \A e \in D : Asked(e.originator, e.id, e.destination)
        /\ \A x \in Live(n) : \E e \in D : e.destination = x.destination
        /\ \E e \in D : e.destination = q.destination
    BY <1>1, <1>2, <1>3, <1>4, <1>5, <1>6, RecordedFacts
  <1> DEFINE back == [Expired(n, routes[n]) EXCEPT ![q.originator] = ConsiderRoute(@, m.from, c)]
  <1>8. NodeSound(n, back, D)
    <2> DEFINE x == Expired(n, routes[n])
               r == ConsiderRoute(x[q.originator], m.from, c)
    <2>1. x \in RouteTable /\ ToNeighbours(n, x) /\ Covers(Live(n), x)
      BY <1>1, ExpiredFacts DEF TablesSound, NodeSound
    <2>2. back = [x EXCEPT ![q.originator] = r]
      BY <2>1 DEF RouteTable
    <2> HIDE DEF x, back
    <2>3. Covers(D, x)
      BY <1>7, <2>1 DEF Covers
    <2>4. x[q.originator] \in RouteType /\ (x[q.originator].status = "active" => x[q.originator].next \in Neighbours(n))
      BY <1>4, <2>1 DEF RouteTable, ToNeighbours
    <2>5. r \in RouteType /\ r.status = "active" /\ r.next \in Neighbours(n)
      BY <1>3, <1>4, <2>4, ConsiderRouteFacts
    <2> HIDE DEF r
    <2> DEFINE y == [x EXCEPT ![q.originator] = r]
    <2>6. y \in RouteTable /\ ToNeighbours(n, y) /\ Covers(D, y)
      BY <1>4, <2>1, <2>3, <2>5, EntrySet
    <2> HIDE DEF y
    <2>7. NodeSound(n, y, D)
      BY <1>7, <2>6 DEF NodeSound
    <2> QED BY <2>2, <2>7 DEF y
  <1>9. TablesSound'
    <2>0. routes' = [routes EXCEPT ![n] =
              IF Answers(n, q.destination) \/ q.destination = Everyone THEN back
              ELSE NoteRelayed(back, q.destination)]
      BY DEF RequestTaken
    <2> HIDE DEF back
    <2>1. CASE Answers(n, q.destination) \/ q.destination = Everyone
      <3>1. routes' = [routes EXCEPT ![n] = back]
        BY <2>0, <2>1
      <3> QED BY <1>0, <1>1, <1>6, <1>8, <3>1, NodeStep
    <2>2. CASE ~(Answers(n, q.destination) \/ q.destination = Everyone)
      <3>1. routes' = [routes EXCEPT ![n] = NoteRelayed(back, q.destination)]
        BY <2>0, <2>2
      <3>2. q.destination \in Places
        BY <1>4, <2>2 DEF Goals
      <3>3. NodeSound(n, NoteRelayed(back, q.destination), D)
        BY <1>7, <1>8, <3>2, NoteRelayedFacts
      <3> QED BY <1>0, <1>1, <1>6, <3>1, <3>3, NodeStep
    <2> QED BY <2>1, <2>2
  <1>10. ASSUME NEW x \in air'
         PROVE  /\ MessageSound(x)
                /\ x.kind = "request" => x \in air \/ Asked(x.body.originator, x.body.id, x.body.destination)
    <2>1. CASE x \in air
      BY <1>1, <2>1 DEF AirSound
    <2>2. CASE x \notin air /\ Answers(n, q.destination)
      <3> DEFINE reply == [originator |-> q.originator, id |-> q.id,
                           responder |-> q.destination, cost |-> link]
      <3>1. x = Message("reply", n, m.from, reply)
        BY <2>2 DEF RequestTaken
      <3>2. q.destination \in Places
        BY <2>2, NodePlace DEF Answers, Children, Places
      <3>3. reply \in ReplyType
        BY <1>3, <1>4, <3>2 DEF ReplyType
      <3> HIDE DEF reply
      <3> QED BY <1>2, <3>1, <3>3, MessageFacts DEF MessageSound
    <2>3. CASE x \notin air /\ ~Answers(n, q.destination)
      <3>1. PICK r : RequestWith(r, q, c) /\ x \in Flood(n, r)
        BY <2>3 DEF RequestWith, RequestTaken
      <3>2. /\ r \in RequestType /\ r.originator = q.originator /\ r.id = q.id
            /\ r.destination = q.destination
        BY <1>2, <1>4, <3>1, RequestWithFacts
      <3>3. MessageSound(x) /\ x.body = r
        BY <3>1, <3>2, FloodSound
      <3> QED BY <1>5, <3>2, <3>3
    <2> QED BY <2>1, <2>2, <2>3
  <1>11. AirSound'
    BY <1>10 DEF AirSound
  <1>12. RequestsSound'
    BY <1>0, <1>1, <1>6, <1>7, <1>10, RequestsNode
  <1> QED BY <1>0, <1>1, <1>9, <1>11, <1>12, HeldUnchanged, RecordsUnchanged, HistoryUnchanged DEF MeshInv

LEMMA HandleRouteRequestStep ==
    ASSUME MeshInv, NEW m \in air, HandleRouteRequest(m)
    PROVE  MeshInv'
  <1>1. m.kind = "request"
    BY DEF HandleRouteRequest
  <1>2. m.to \in Nodes
    BY <1>1 DEF MeshInv, AirSound, MessageSound
  <1>3. \/ RequestRefused(m, m.to, LinkCost(m.to, m.from))
        \/ RequestTaken(m, m.to, m.body, LinkCost(m.to, m.from),
                        m.body.cost + LinkCost(m.to, m.from))
    BY Zenon DEF HandleRouteRequest, RequestRefused, RequestTaken
  <1> QED BY <1>1, <1>2, <1>3, RequestRefusedStep, RequestTakenStep

-----------------------------------------------------------------------------
(* A received route reply *)

\* The discovery a reply is for, with its residual cost.
ReplyNoted(D, n, e, c) == D = (discoveries[n] \ {e}) \cup {[e EXCEPT !.residual = c]}

LEMMA ReplyNotedFacts ==
    ASSUME TablesSound, NEW n \in Nodes, NEW e \in discoveries[n], NEW c \in Int,
           NEW D, ReplyNoted(D, n, e, c)
    PROVE  /\ D \subseteq EntryType /\ WayBack(n, D)
           /\ \A x \in D : Asked(x.originator, x.id, x.destination)
           /\ \A x : Covers(discoveries[n], x) => Covers(D, x)
  <1>0. PICK f : f = [e EXCEPT !.residual = c] /\ D = (discoveries[n] \ {e}) \cup {f}
    BY DEF ReplyNoted
  <1>1. e \in EntryType /\ discoveries[n] \subseteq EntryType /\ WayBack(n, discoveries[n])
    BY DEF TablesSound, NodeSound
  <1>2. /\ f \in EntryType /\ f.originator = e.originator /\ f.id = e.id /\ f.sender = e.sender
        /\ f.destination = e.destination
    BY <1>0, <1>1 DEF EntryType
  <1>3. D \subseteq EntryType /\ WayBack(n, D)
    BY <1>0, <1>1, <1>2 DEF WayBack
  <1>4. ASSUME NEW x \in D PROVE Asked(x.originator, x.id, x.destination)
    <2>1. CASE x = f
      BY <1>2, <2>1, AskedOnTable
    <2>2. CASE x # f
      BY <1>0, <2>2, AskedOnTable
    <2> QED BY <2>1, <2>2
  <1>5. ASSUME NEW t, Covers(discoveries[n], t), NEW d \in Places, t[d].status = "underway"
        PROVE  \E x \in D : x.destination = d
    <2>1. PICK x \in discoveries[n] : x.destination = d
      BY <1>5 DEF Covers
    <2>2. CASE x = e
      BY <1>0, <1>2, <2>1, <2>2
    <2>3. CASE x # e
      BY <1>0, <2>1, <2>3
    <2> QED BY <2>2, <2>3
  <1> QED BY <1>3, <1>4, <1>5 DEF Covers

ReplyTaken(m, n, q, e, t) ==
    /\ t = [routes[n] EXCEPT ![q.responder] = [status |-> "active", next |-> m.from, cost |-> q.cost]]
    /\ m.from \in live[n] /\ e \in Discovery(discoveries[n], q.originator, q.id)
    /\ discoveries' = [discoveries EXCEPT ![n] = (@ \ {e}) \cup {[e EXCEPT !.residual = q.cost]}]
    /\ IF q.originator = n
       THEN /\ routes' = [routes EXCEPT ![n] = t]
            /\ air' = air \ {m}
       ELSE /\ routes' = [routes EXCEPT ![n] =
                  [t EXCEPT ![q.originator] = ConsiderRoute(@, e.sender, e.forward)]]
            /\ air' = (air \ {m}) \cup
                  {Message("reply", n, e.sender, [q EXCEPT !.cost = @ + LinkCost(n, e.sender)])}
    /\ UNCHANGED <<requestId, held, retries, records, live, broken, seen, bounds>>

\* A reply that is taken, by the originator or by a node on its way.
LEMMA ReplyTakenStep ==
    ASSUME MeshInv, NEW m \in air, m.kind = "reply", NEW n \in Nodes, n = m.to,
           NEW q, q = m.body, NEW e, NEW t, ReplyTaken(m, n, q, e, t)
    PROVE  MeshInv'
  <1>1. TablesSound /\ AirSound /\ RequestsSound /\ HeldSound /\ RecordsSound /\ HistorySound
    BY DEF MeshInv
  <1>2. m.from \in Nodes /\ q \in ReplyType
    BY <1>1 DEF AirSound, MessageSound
  <1>3. q.originator \in Nodes /\ q.originator \in Places /\ q.responder \in Places /\ q.cost \in Int
    <2>1. q.originator \in Nodes /\ q.responder \in Places /\ q.cost \in Int
      BY <1>2 DEF ReplyType
    <2> QED BY <2>1, NodePlace
  <1>4. /\ m.from \in live[n] /\ e \in discoveries[n] /\ e.originator = q.originator
        /\ requestId' = requestId /\ held' = held /\ records' = records
        /\ live' = live /\ seen' = seen
    BY DEF ReplyTaken, Discovery
  <1>5. m.from \in Neighbours(n) /\ NodeSound(n, routes[n], discoveries[n])
    BY <1>1, <1>4 DEF TablesSound
  <1>6. PICK D : ReplyNoted(D, n, e, q.cost) /\ discoveries' = [discoveries EXCEPT ![n] = D]
    BY DEF ReplyTaken, ReplyNoted
  <1>7. /\ D \subseteq EntryType /\ WayBack(n, D)
        /\ \A x \in D : Asked(x.originator, x.id, x.destination)
        /\ \A x : Covers(discoveries[n], x) => Covers(D, x)
    BY <1>1, <1>3, <1>4, <1>6, ReplyNotedFacts
  <1> DEFINE takes == [status |-> "active", next |-> m.from, cost |-> q.cost]
  <1>8. takes \in RouteType /\ takes.status = "active" /\ takes.next = m.from
    BY <1>2, <1>3 DEF RouteType, Statuses
  <1>9. t \in RouteTable /\ ToNeighbours(n, t) /\ Covers(D, t)
    <2>2. t = [routes[n] EXCEPT ![q.responder] = takes]
      BY DEF ReplyTaken
    <2> HIDE DEF takes
    <2>1. routes[n] \in RouteTable /\ ToNeighbours(n, routes[n]) /\ Covers(D, routes[n])
      BY <1>5, <1>7 DEF NodeSound
    <2> QED BY <1>3, <1>5, <1>8, <2>1, <2>2, EntrySet
  <1>10. CASE q.originator = n
    <2>1. routes' = [routes EXCEPT ![n] = t] /\ air' = air \ {m}
      BY <1>10 DEF ReplyTaken
    <2>3. NodeSound(n, t, D)
      BY <1>7, <1>9 DEF NodeSound
    <2>4. TablesSound'
      BY <1>1, <1>4, <1>6, <2>1, <2>3, NodeStep
    <2>5. air' \subseteq air
      BY <2>1
    <2>6. \A x \in air' : x.kind = "request" => x \in air \/ Asked(x.body.originator, x.body.id, x.body.destination)
      BY <2>5
    <2>7. RequestsSound'
      BY <1>1, <1>4, <1>6, <1>7, <2>6, RequestsNode
    <2> QED BY <1>1, <1>4, <2>4, <2>5, <2>7, AirUnchanged, HeldUnchanged, RecordsUnchanged, HistoryUnchanged DEF MeshInv
  <1>11. CASE q.originator # n
    <2> DEFINE g == [q EXCEPT !.cost = @ + LinkCost(n, e.sender)]
               r == ConsiderRoute(t[q.originator], e.sender, e.forward)
               u == [t EXCEPT ![q.originator] = r]
    <2>1. air' = (air \ {m}) \cup {Message("reply", n, e.sender, g)}
      BY <1>11 DEF ReplyTaken
    <2>2. routes' = [routes EXCEPT ![n] = u]
      BY <1>9, <1>11 DEF ReplyTaken, RouteTable
    <2>3. e.sender \in Neighbours(n) /\ e.sender \in Nodes /\ e.forward \in Int
      <3>1. e.sender \in Neighbours(n)
        BY <1>4, <1>5, <1>11 DEF NodeSound, WayBack
      <3>2. e.forward \in Int
        BY <1>4, <1>5 DEF NodeSound, EntryType
      <3> QED BY <3>1, <3>2, NeighbourNode
    <2>4. t[q.originator] \in RouteType /\ (t[q.originator].status = "active" => t[q.originator].next \in Neighbours(n))
      BY <1>3, <1>9 DEF RouteTable, ToNeighbours
    <2>5. r \in RouteType /\ r.status = "active" /\ r.next \in Neighbours(n)
      BY <2>3, <2>4, ConsiderRouteFacts
    <2> HIDE DEF r
    <2>6. u \in RouteTable /\ ToNeighbours(n, u) /\ Covers(D, u)
      BY <1>3, <1>9, <2>5, EntrySet
    <2> HIDE DEF u
    <2>7. NodeSound(n, u, D)
      BY <1>7, <2>6 DEF NodeSound
    <2>8. TablesSound'
      BY <1>1, <1>4, <1>6, <2>2, <2>7, NodeStep
    <2>9. MessageSound(Message("reply", n, e.sender, g))
      <3>1. PICK c \in Int : c = q.cost + LinkCost(n, e.sender)
        BY <1>1, <1>3, <2>3, LinkCostType
      <3>2. g = [q EXCEPT !.cost = c]
        BY <1>2, <3>1 DEF ReplyType
      <3>3. g \in ReplyType
        BY <1>2, <3>2 DEF ReplyType
      <3> HIDE DEF g
      <3> QED BY <2>3, <3>3, MessageFacts DEF MessageSound
    <2> HIDE DEF g
    <2>10. AirSound'
      BY <1>1, <2>1, <2>9 DEF AirSound
    <2>11. \A x \in air' : x.kind = "request" => x \in air \/ Asked(x.body.originator, x.body.id, x.body.destination)
      BY <2>1, MessageFacts
    <2>12. RequestsSound'
      BY <1>1, <1>4, <1>6, <1>7, <2>11, RequestsNode
    <2> QED BY <1>1, <1>4, <2>8, <2>10, <2>12, HeldUnchanged, RecordsUnchanged, HistoryUnchanged DEF MeshInv
  <1> QED BY <1>10, <1>11

LEMMA HandleRouteReplyStep ==
    ASSUME MeshInv, NEW m \in air, HandleRouteReply(m)
    PROVE  MeshInv'
  <1>1. m.kind = "reply"
    BY DEF HandleRouteReply
  <1>2. m.to \in Nodes
    BY <1>1 DEF MeshInv, AirSound, MessageSound
  <1> DEFINE known == Discovery(discoveries[m.to], m.body.originator, m.body.id)
             e == CHOOSE e \in known : TRUE
  <1>3. known # {} => e \in known
    OBVIOUS
  <1>4. Dropped(m) \/ \E t : ReplyTaken(m, m.to, m.body, e, t)
    BY <1>3, Zenon DEF HandleRouteReply, ReplyTaken
  <1> QED BY <1>1, <1>2, <1>4, DroppedStep, ReplyTakenStep

-----------------------------------------------------------------------------
(* A received frame *)

\* store_route_record: the chains of the source and of every relay.
LEMMA StoredChains ==
    ASSUME NEW n \in Nodes, NEW table, DOMAIN table = Places,
           \A d \in Places : RecordSound(n, d, table[d]),
           NEW source, NEW relays \in Seq(Nodes), Joined(source, relays, n),
           NEW t, t = StoreRouteRecord(table, source, relays)
    PROVE  /\ DOMAIN t = Places /\ t = [d \in Places |-> t[d]]
           /\ \A d \in Places : RecordSound(n, d, t[d])
  <1>1. DOMAIN t = Places /\ t = [d \in Places |-> t[d]]
    BY DEF StoreRouteRecord
  <1>2. ASSUME NEW d \in Places PROVE RecordSound(n, d, t[d])
    <2>1. CASE d = source
      <3>1. t[d] = relays
        BY <2>1 DEF StoreRouteRecord
      <3> QED BY <2>1, <3>1 DEF RecordSound
    <2>2. CASE d # source /\ \E i \in 1 .. Len(relays) : relays[i] = d
      <3> DEFINE i == CHOOSE i \in 1 .. Len(relays) : relays[i] = d
      <3>1. i \in 1 .. Len(relays) /\ relays[i] = d
        BY <2>2
      <3>2. t[d] = SubSeq(relays, i + 1, Len(relays))
        BY <2>2 DEF StoreRouteRecord
      <3> HIDE DEF i
      <3>3. t[d] \in Seq(Nodes) /\ Joined(d, t[d], n)
        BY <3>1, <3>2, JoinedSuffix
      <3> QED BY <3>3 DEF RecordSound
    <2>3. CASE d # source /\ ~\E i \in 1 .. Len(relays) : relays[i] = d
      <3>1. t[d] = table[d]
        BY <2>3 DEF StoreRouteRecord
      <3> QED BY <3>1
    <2> QED BY <2>1, <2>2, <2>3
  <1> QED BY <1>1, <1>2

\* One node's route records change.
LEMMA RecordsStep ==
    ASSUME RecordsSound, NEW n \in Nodes, NEW t, DOMAIN t = Places, t = [d \in Places |-> t[d]],
           \A d \in Places : RecordSound(n, d, t[d]), records' = [records EXCEPT ![n] = t]
    PROVE  RecordsSound'
  <1>1. DOMAIN records' = Nodes /\ records' = [x \in Nodes |-> records'[x]]
    BY DEF RecordsSound
  <1>2. records'[n] = t /\ \A x \in Nodes : x # n => records'[x] = records[x]
    BY DEF RecordsSound
  <1>3. ASSUME NEW x \in Nodes
        PROVE  /\ DOMAIN records'[x] = Places /\ records'[x] = [d \in Places |-> records'[x][d]]
               /\ \A d \in Places : RecordSound(x, d, records'[x][d])
    <2>1. CASE x = n
      BY <1>2, <2>1
    <2>2. CASE x # n
      BY <1>2, <2>2 DEF RecordsSound
    <2> QED BY <2>1, <2>2
  <1> QED BY <1>1, <1>3 DEF RecordsSound

LEMMA RecordForgotten ==
    ASSUME RecordsSound, NEW n, NEW d, records' = [records EXCEPT ![n][d] = NoRecord]
    PROVE  RecordsSound'
  <1>1. CASE n \in Nodes
    <2> DEFINE t == [records[n] EXCEPT ![d] = NoRecord]
    <2>1. records' = [records EXCEPT ![n] = t]
      OBVIOUS
    <2>2. DOMAIN t = Places /\ t = [x \in Places |-> t[x]]
      BY <1>1 DEF RecordsSound
    <2>3. ASSUME NEW x \in Places PROVE RecordSound(n, x, t[x])
      <3>1. t[x] = NoRecord \/ t[x] = records[n][x]
        BY <1>1 DEF RecordsSound
      <3> HIDE DEF t
      <3> QED BY <1>1, <3>1 DEF RecordSound, RecordsSound
    <2> HIDE DEF t
    <2> QED BY <1>1, <2>1, <2>2, <2>3, RecordsStep
  <1>2. CASE n \notin Nodes
    <2>1. records' = records
      BY <1>2 DEF RecordsSound
    <2> QED BY <2>1, RecordsUnchanged
  <1> QED BY <1>1, <1>2

\* A route entry is removed.
LEMMA RouteForgotten ==
    ASSUME TablesSound, NEW n \in Nodes, NEW d, routes' = [routes EXCEPT ![n][d] = NoRoute],
           discoveries' = discoveries, live' = live
    PROVE  TablesSound'
  <1> DEFINE t == [routes[n] EXCEPT ![d] = NoRoute]
  <1>1. routes' = [routes EXCEPT ![n] = t]
    OBVIOUS
  <1>2. NodeSound(n, routes[n], discoveries[n])
    BY DEF TablesSound
  <1>3. t \in RouteTable
    BY <1>2, NoRouteType DEF NodeSound, RouteTable
  <1>4. \A x \in Places : t[x] = NoRoute \/ t[x] = routes[n][x]
    BY <1>2 DEF NodeSound, RouteTable
  <1> HIDE DEF t
  <1>5. NodeSound(n, t, discoveries[n])
    BY <1>2, <1>3, <1>4, NoRouteType DEF NodeSound, ToNeighbours, Covers
  <1> QED BY <1>1, <1>5, RoutesStep

LEMMA DeliverStep ==
    ASSUME MeshInv, NEW m \in air, Deliver(m)
    PROVE  MeshInv'
  <1>1. TablesSound /\ AirSound /\ RequestsSound /\ HeldSound /\ RecordsSound /\ HistorySound
    BY DEF MeshInv
  <1>2. PICK n, f : n = m.to /\ f = m.body
    OBVIOUS
  <1>3. /\ m.kind = "frame" /\ f.dest = n /\ air' = air \ {m}
        /\ discoveries' = discoveries /\ requestId' = requestId /\ held' = held /\ live' = live
    BY <1>2 DEF Deliver, discovering
  <1>4. FrameSound(m.from, n, f)
    BY <1>1, <1>2, <1>3 DEF AirSound, MessageSound
  <1>5. AirSound' /\ RequestsSound' /\ HeldSound'
    <2>1. air' \subseteq air /\ \A x \in air' : x.kind = "request" => x \in air
      BY <1>3
    <2> QED BY <1>1, <1>3, <2>1, AirUnchanged, RequestsUnchanged, HeldUnchanged
  <1>6. TablesSound'
    <2>1. CASE f.kind = "status" /\ n \in Nodes
      <3>1. routes' = [routes EXCEPT ![n][f.about[1]] = NoRoute]
        BY <1>2, <2>1 DEF Deliver
      <3> QED BY <1>1, <1>3, <2>1, <3>1, RouteForgotten
    <2>2. CASE ~(f.kind = "status" /\ n \in Nodes)
      <3>1. routes' = routes
        BY <1>2, <2>2 DEF Deliver
      <3> QED BY <1>1, <1>3, <3>1, TablesUnchanged
    <2> QED BY <2>1, <2>2
  <1>7. RecordsSound'
    <2>1. CASE f.kind = "record"
      <3>1. records' = [records EXCEPT ![n] = StoreRouteRecord(@, f.source, f.relays)]
        BY <1>2, <2>1 DEF Deliver
      <3>2. n \in Nodes /\ f.relays \in Seq(Nodes) /\ Joined(f.source, f.relays, n)
        <4>1. f.dest \in Concentrators /\ f \in FrameType /\ Joined(f.source, f.relays, n)
          BY <1>4, <2>1 DEF FrameSound
        <4>2. f.relays \in Seq(Nodes)
          BY <4>1 DEF FrameType
        <4> QED BY <1>3, <4>1, <4>2, Constants
      <3>3. PICK t : t = StoreRouteRecord(records[n], f.source, f.relays)
        OBVIOUS
      <3>4. DOMAIN records[n] = Places /\ \A d \in Places : RecordSound(n, d, records[n][d])
        BY <1>1, <3>2 DEF RecordsSound
      <3>5. /\ DOMAIN t = Places /\ t = [d \in Places |-> t[d]]
            /\ \A d \in Places : RecordSound(n, d, t[d])
        BY <3>2, <3>3, <3>4, StoredChains
      <3>6. records' = [records EXCEPT ![n] = t]
        BY <3>1, <3>3
      <3> QED BY <1>1, <3>2, <3>5, <3>6, RecordsStep
    <2>2. CASE f.kind = "status" /\ n \in Nodes /\ f.about[2] = "SourceRouteFailure"
      <3>1. records' = [records EXCEPT ![n][f.about[1]] = NoRecord]
        BY <1>2, <2>2 DEF Deliver
      <3> QED BY <1>1, <3>1, RecordForgotten
    <2>3. CASE f.kind # "record" /\ ~(f.kind = "status" /\ n \in Nodes /\ f.about[2] = "SourceRouteFailure")
      <3>1. records' = records
        BY <1>2, <2>3 DEF Deliver
      <3> QED BY <1>1, <3>1, RecordsUnchanged
    <2> QED BY <2>1, <2>2, <2>3
  <1>8. HistorySound'
    <2>1. seen' = seen \/ seen' = [seen EXCEPT !.delivered = @ \cup {f.about}]
      BY <1>2 DEF Deliver
    <2>2. f.about \in Nat \cup (Places \X Codes)
      BY <1>4 DEF FrameSound, FrameType
    <2> QED BY <1>1, <2>1, <2>2 DEF HistorySound
  <1> QED BY <1>5, <1>6, <1>7, <1>8 DEF MeshInv

\* The next hop of a frame to relay, and what holds of it for a route record.
LEMMA RelayHopSound ==
    ASSUME TablesSound, NEW from, NEW n \in Nodes, NEW f, FrameSound(from, n, f), f.dest # n,
           NEW hop, hop = RelayHop(n, f), hop # Nobody
    PROVE  /\ hop \in Nodes \/ hop = f.dest
           /\ hop \in Places
           /\ f.kind = "record" => Linked(n, hop)
  <1>1. /\ f \in FrameType /\ f.index \in -1 .. Len(f.relays) - 1
        /\ f.kind = "record" => f.dest \in Concentrators /\ f.index = -1
    BY DEF FrameSound
  <1>2. f.dest \in Places /\ f.relays \in Seq(Nodes) /\ f.index \in Int
    BY <1>1 DEF FrameType
  <1>3. CASE SourceRouted(f) /\ f.index > 0 /\ f.dest \notin Children(n)
    <2>1. hop = f.relays[f.index]
      BY <1>3 DEF RelayHop
    <2>2. f.index \in 1 .. Len(f.relays)
      BY <1>1, <1>2, <1>3
    <2>3. hop \in Nodes
      BY <1>2, <2>1, <2>2
    <2>4. f.kind # "record"
      BY <1>1, <1>3
    <2> QED BY <2>3, <2>4, NodePlace
  <1>4. CASE /\ ~(SourceRouted(f) /\ f.index > 0 /\ f.dest \notin Children(n))
             /\ SourceRouted(f) \/ f.dest \in Neighbours(n) \cup Children(n)
    <2>1. hop = f.dest
      BY <1>4 DEF RelayHop
    <2>2. ASSUME f.kind = "record" PROVE Linked(n, hop)
      <3>1. f.dest \in Nodes /\ ~SourceRouted(f)
        BY <1>1, <2>2, Constants DEF SourceRouted
      <3>2. f.dest \notin Children(n)
        BY <3>1, NodePlace DEF Children
      <3> QED BY <1>4, <2>1, <3>1, <3>2, LinkedNode
    <2> QED BY <1>2, <2>1, <2>2
  <1>5. CASE ~(SourceRouted(f) \/ f.dest \in Neighbours(n) \cup Children(n))
    <2>1. routes[n][f.dest].status = "active" /\ hop = routes[n][f.dest].next
      BY <1>5 DEF RelayHop
    <2>2. hop \in Neighbours(n)
      BY <1>2, <2>1 DEF TablesSound, NodeSound, ToNeighbours
    <2> QED BY <2>2, NeighbourNode, NodePlace, LinkedNode
  <1> QED BY <1>3, <1>4, <1>5

RelayedFrame(g, f, n) ==
    g = [f EXCEPT !.radius = @ - 1,
                  !.relays = IF f.kind = "record" THEN Append(@, n) ELSE @,
                  !.index  = IF @ > 0 THEN @ - 1 ELSE @]

LEMMA RelayedFrameFacts ==
    ASSUME NEW f \in FrameType, NEW n \in Nodes, NEW g, RelayedFrame(g, f, n)
    PROVE  /\ g \in FrameType /\ g.kind = f.kind /\ g.source = f.source /\ g.dest = f.dest
           /\ g.relays = IF f.kind = "record" THEN Append(f.relays, n) ELSE f.relays
           /\ g.index = IF f.index > 0 THEN f.index - 1 ELSE f.index
  <1>1. f.relays \in Seq(Nodes) /\ f.index \in Int /\ f.radius \in Int
    BY DEF FrameType
  <1>2. PICK s \in Seq(Nodes) : s = IF f.kind = "record" THEN Append(f.relays, n) ELSE f.relays
    <2>1. Append(f.relays, n) \in Seq(Nodes)
      BY <1>1
    <2> QED BY <1>1, <2>1, Zenon
  <1>3. PICK i \in Int : i = IF f.index > 0 THEN f.index - 1 ELSE f.index
    BY <1>1
  <1>4. PICK r \in Int : r = f.radius - 1
    BY <1>1
  <1> DEFINE h == [f EXCEPT !.radius = r]
  <1>5. /\ h \in FrameType /\ h.kind = f.kind /\ h.source = f.source /\ h.dest = f.dest
        /\ h.relays = f.relays /\ h.index = f.index
    BY DEF FrameType
  <1>6. Routed(g, h, s, i)
    BY <1>2, <1>3, <1>4 DEF RelayedFrame, Routed, FrameType
  <1> HIDE DEF h
  <1>7. /\ g \in FrameType /\ g.relays = s /\ g.index = i
        /\ g.kind = h.kind /\ g.source = h.source /\ g.dest = h.dest
    BY <1>5, <1>6, RoutedFrame
  <1> QED BY <1>2, <1>3, <1>5, <1>7

\* A relayed frame stays sound, and a route record grows by the link it crosses.
LEMMA RelayedSound ==
    ASSUME TablesSound, NEW from, NEW n \in Nodes, NEW f, FrameSound(from, n, f), f.dest # n,
           NEW hop, hop = RelayHop(n, f), hop # Nobody, NEW g, RelayedFrame(g, f, n)
    PROVE  MessageSound(Message("frame", n, hop, g))
  <1>1. /\ f \in FrameType /\ f.index \in -1 .. Len(f.relays) - 1
        /\ f.kind = "record" => f.dest \in Concentrators /\ f.index = -1 /\ Joined(f.source, f.relays, n)
    BY DEF FrameSound
  <1>2. f.relays \in Seq(Nodes) /\ f.index \in Int
    BY <1>1 DEF FrameType
  <1>3. /\ g \in FrameType /\ g.kind = f.kind /\ g.source = f.source /\ g.dest = f.dest
        /\ g.relays = IF f.kind = "record" THEN Append(f.relays, n) ELSE f.relays
        /\ g.index = IF f.index > 0 THEN f.index - 1 ELSE f.index
    BY <1>1, RelayedFrameFacts
  <1>4. /\ hop \in Nodes \/ hop = f.dest
        /\ hop \in Places
        /\ f.kind = "record" => Linked(n, hop)
    BY RelayHopSound
  <1>5. n \in Places
    BY NodePlace
  <1>6. CASE f.kind = "record"
    <2>1. g.relays = Append(f.relays, n) /\ g.index = -1
      BY <1>1, <1>3, <1>6
    <2>2. Append(f.relays, n) \in Seq(Nodes) /\ Joined(f.source, Append(f.relays, n), hop)
      BY <1>1, <1>2, <1>4, <1>6, JoinedAppend
    <2>3. g.index \in -1 .. Len(g.relays) - 1
      <3>1. Len(g.relays) \in Nat
        BY <2>1, <2>2
      <3> QED BY <2>1, <3>1
    <2>4. FrameSound(n, hop, g)
      BY <1>1, <1>3, <1>4, <1>5, <1>6, <2>1, <2>2, <2>3 DEF FrameSound
    <2> QED BY <2>4, MessageFacts DEF MessageSound
  <1>7. CASE f.kind # "record"
    <2>1. g.relays = f.relays
      BY <1>3, <1>7
    <2>2. g.index \in -1 .. Len(g.relays) - 1
      <3>1. Len(f.relays) \in Nat
        BY <1>2
      <3>2. CASE f.index > 0
        BY <1>1, <1>2, <1>3, <2>1, <3>1, <3>2
      <3>3. CASE ~(f.index > 0)
        BY <1>1, <1>2, <1>3, <2>1, <3>1, <3>3
      <3> QED BY <3>2, <3>3
    <2>3. FrameSound(n, hop, g)
      BY <1>3, <1>4, <1>5, <1>7, <2>2 DEF FrameSound
    <2> QED BY <2>3, MessageFacts DEF MessageSound
  <1> QED BY <1>6, <1>7

LEMMA RelayUnicastStep ==
    ASSUME MeshInv, NEW m \in air, RelayUnicast(m)
    PROVE  MeshInv'
  <1>1. TablesSound /\ AirSound /\ RequestsSound /\ HeldSound /\ RecordsSound /\ HistorySound
    BY DEF MeshInv
  <1>2. m.kind = "frame" /\ m.body.dest # m.to
    BY DEF RelayUnicast
  <1>3. PICK n, f : n = m.to /\ f = m.body
    OBVIOUS
  <1>4. FrameSound(m.from, n, f) /\ f.dest # n
    BY <1>1, <1>2, <1>3 DEF AirSound, MessageSound
  <1>5. n \in Nodes
    BY <1>4 DEF FrameSound
  <1>6. CASE Dropped(m)
    BY <1>6, DroppedStep
  <1>7. CASE ~Dropped(m)
    <2>1. PICK hop, g :
              /\ hop = RelayHop(n, f) /\ hop # Nobody /\ RelayedFrame(g, f, n)
              /\ air' = (air \ {m}) \cup {Message("frame", n, hop, g)}
              /\ UNCHANGED <<routes, discovering, records, live, broken, seen, bounds>>
      BY <1>3, <1>7, Zenon DEF RelayUnicast, RelayedFrame
    <2>2. MessageSound(Message("frame", n, hop, g))
      BY <1>1, <1>4, <1>5, <2>1, RelayedSound
    <2>3. /\ routes' = routes /\ discoveries' = discoveries /\ requestId' = requestId /\ held' = held
          /\ records' = records /\ live' = live /\ seen' = seen
      BY <2>1 DEF discovering
    <2>4. AirSound'
      BY <1>1, <2>1, <2>2 DEF AirSound
    <2>5. \A x \in air' : x.kind = "request" => x \in air
      BY <2>1, MessageFacts
    <2> QED BY <1>1, <2>3, <2>4, <2>5, TablesUnchanged, RequestsUnchanged, HeldUnchanged,
               RecordsUnchanged, HistoryUnchanged DEF MeshInv
  <1> QED BY <1>6, <1>7

-----------------------------------------------------------------------------
(* Links, losses and time *)

LEMMA LinkBreaksStep ==
    ASSUME MeshInv, NEW n \in Nodes, NEW m \in Nodes, LinkBreaks(n, m)
    PROVE  MeshInv'
  <1>1. /\ routes' = routes /\ discoveries' = discoveries /\ requestId' = requestId /\ held' = held
        /\ records' = records /\ live' = live /\ seen' = seen /\ air' = air
    BY DEF LinkBreaks, discovering
  <1> QED BY <1>1, TablesUnchanged, AirUnchanged, RequestsUnchanged, HeldUnchanged,
             RecordsUnchanged, HistoryUnchanged DEF MeshInv

\* invalidate_routes_via leaves a sound table sound.
LEMMA InvalidatedSound ==
    ASSUME NEW n \in Nodes, NEW table, NEW D, NodeSound(n, table, D), NEW next
    PROVE  NodeSound(n, InvalidatedVia(table, next), D)
  BY InvalidatedFacts DEF NodeSound

\* A link that ages out takes the routes over it along.
LEMMA LoseLinkStep ==
    ASSUME MeshInv, NEW n \in Nodes, NEW m \in Nodes, LoseLink(n, m)
    PROVE  MeshInv'
  <1>1. /\ live' = [live EXCEPT ![n] = @ \ {m}]
        /\ routes' = [routes EXCEPT ![n] = InvalidatedVia(@, m)]
        /\ discoveries' = discoveries /\ requestId' = requestId /\ held' = held
        /\ records' = records /\ seen' = seen /\ air' = air
    BY DEF LoseLink, discovering
  <1>2. TablesSound
    BY DEF MeshInv
  <1>3. PICK t : t = InvalidatedVia(routes[n], m)
    OBVIOUS
  <1>4. NodeSound(n, t, discoveries[n])
    BY <1>2, <1>3, InvalidatedSound DEF TablesSound
  <1>5. /\ routes' \in [Nodes -> RouteTable] /\ discoveries' \in [Nodes -> SUBSET EntryType]
        /\ live' \in [Nodes -> SUBSET Nodes]
    BY <1>1, <1>2, <1>3, <1>4 DEF TablesSound, NodeSound
  <1>6. ASSUME NEW x \in Nodes PROVE live'[x] \subseteq Neighbours(x) /\ NodeSound(x, routes'[x], discoveries'[x])
    <2>1. live'[x] \subseteq live[x]
      BY <1>1, <1>2 DEF TablesSound
    <2>2. CASE x = n
      <3>1. routes'[x] = t
        BY <1>1, <1>2, <1>3, <2>2 DEF TablesSound
      <3> QED BY <1>1, <1>2, <1>4, <2>1, <2>2, <3>1 DEF TablesSound
    <2>3. CASE x # n
      <3>1. routes'[x] = routes[x]
        BY <1>1, <1>2, <2>3 DEF TablesSound
      <3> QED BY <1>1, <1>2, <2>1, <3>1 DEF TablesSound
    <2> QED BY <2>2, <2>3
  <1>7. TablesSound'
    BY <1>5, <1>6 DEF TablesSound
  <1> QED BY <1>1, <1>7, AirUnchanged, RequestsUnchanged, HeldUnchanged,
             RecordsUnchanged, HistoryUnchanged DEF MeshInv

\* A unicast that fails, of our own or relayed; a child fails only with its own.
LEMMA UnicastFailsStep ==
    ASSUME MeshInv, NEW m \in air, UnicastFails(m)
    PROVE  MeshInv'
  <1>1. TablesSound /\ AirSound /\ RequestsSound /\ HeldSound /\ RecordsSound /\ HistorySound
    BY DEF MeshInv
  <1>2. PICK n, f, t : n = m.from /\ f = m.body /\ t = InvalidatedVia(routes[n], m.to)
    OBVIOUS
  <1>3. m.kind \in {"reply", "frame"} /\ live' = live /\ seen' = seen
    BY DEF UnicastFails
  <1>4. HistorySound'
    BY <1>1, <1>3, HistoryUnchanged
  <1>5. n \in Nodes => NodeSound(n, t, discoveries[n])
    BY <1>1, <1>2, InvalidatedSound DEF TablesSound
  <1>6. ASSUME NEW dest, records' = [records EXCEPT ![n][dest] = NoRecord],
               routes' = [routes EXCEPT ![n] = t], air' = air \ {m},
               discoveries' = discoveries, requestId' = requestId, held' = held
        PROVE  MeshInv'
    <2>1. RecordsSound'
      BY <1>1, <1>6, RecordForgotten
    <2>2. TablesSound'
      <3>1. CASE n \in Nodes
        BY <1>1, <1>3, <1>5, <1>6, <3>1, RoutesStep
      <3>2. CASE n \notin Nodes
        <4>1. routes' = routes
          BY <1>1, <1>6, <3>2 DEF TablesSound
        <4> QED BY <1>1, <1>3, <1>6, <4>1, TablesUnchanged
      <3> QED BY <3>1, <3>2
    <2>3. air' \subseteq air /\ \A x \in air' : x.kind = "request" => x \in air
      BY <1>6
    <2> QED BY <1>1, <1>4, <1>6, <2>1, <2>2, <2>3, AirUnchanged, RequestsUnchanged, HeldUnchanged DEF MeshInv
  <1>7. CASE m.kind = "reply" \/ f.source = n
    <2>1. PICK dest : /\ records' = [records EXCEPT ![n][dest] = NoRecord]
                      /\ routes' = [routes EXCEPT ![n] = t] /\ air' = air \ {m}
                      /\ UNCHANGED <<discovering, bounds>>
      BY <1>2, <1>7, Zenon DEF UnicastFails
    <2> QED BY <1>6, <2>1 DEF discovering
  <1>8. CASE m.kind = "frame" /\ f.source # n
    <2>1. FrameSound(n, m.to, f)
      BY <1>1, <1>2, <1>8 DEF AirSound, MessageSound
    <2>2. n \in Nodes /\ n \in Places /\ f.source \in Places /\ f.dest \in Places
      BY <1>8, <2>1 DEF FrameSound, FrameType
    <2>3. PICK a : a = <<FailureOf(f).dest, FailureOf(f).code>>
      OBVIOUS
    <2>4. a \in Places \X Codes
      BY <2>2, <2>3 DEF FailureOf, Codes
    <2>5. PICK g : g = Frame("status", n, f.source, a)
      OBVIOUS
    <2>6. Outgoing(g)
      <3>1. a \in Nat \cup (Places \X Codes)
        BY <2>4, Zenon
      <3>2. g \in FrameType /\ g.kind = "status" /\ g.index = -1
        BY <2>2, <2>5, <3>1, FrameFacts
      <3> QED BY <3>2 DEF Outgoing
    <2>7. SendUnicast(n, g, t, air \ {m}) /\ records' = records
      BY <1>2, <1>8, <2>3, <2>5 DEF UnicastFails
    <2>8. air \ {m} \subseteq air
      OBVIOUS
    <2> QED BY <1>3, <1>4, <1>5, <2>2, <2>6, <2>7, <2>8, SendUnicastStep
  <1> QED BY <1>3, <1>7, <1>8

\* Entries that run out are still the discoveries they were.
LEMMA ExpireStep ==
    ASSUME MeshInv, NEW o \in Nodes, NEW id, Expire(o, id)
    PROVE  MeshInv'
  <1> DEFINE over(e) == IF e.originator = o /\ e.id = id THEN [e EXCEPT !.expired = TRUE] ELSE e
  <1>1. /\ discoveries' = [n \in Nodes |-> {over(e) : e \in discoveries[n]}]
        /\ routes' = routes /\ requestId' = requestId /\ held' = held
        /\ records' = records /\ live' = live /\ seen' = seen /\ air' = air
    BY DEF Expire
  <1>2. TablesSound /\ AirSound /\ RequestsSound /\ HeldSound /\ RecordsSound /\ HistorySound
    BY DEF MeshInv
  <1>3. ASSUME NEW e \in EntryType
        PROVE  /\ over(e) \in EntryType /\ over(e).originator = e.originator /\ over(e).id = e.id
               /\ over(e).sender = e.sender /\ over(e).destination = e.destination
    BY DEF EntryType
  <1> HIDE DEF over
  <1>4. ASSUME NEW n \in Nodes, NEW x \in discoveries'[n]
        PROVE  \E e \in discoveries[n] : e \in EntryType /\ x = over(e)
    BY <1>1, <1>2 DEF TablesSound
  <1>5. ASSUME NEW n \in Nodes, NEW e \in discoveries[n]
        PROVE  over(e) \in discoveries'[n] /\ e \in EntryType
    BY <1>1, <1>2 DEF TablesSound
  <1>6. ASSUME NEW n \in Nodes PROVE NodeSound(n, routes[n], discoveries'[n])
    <2>1. NodeSound(n, routes[n], discoveries[n])
      BY <1>2 DEF TablesSound
    <2>2. discoveries'[n] \subseteq EntryType /\ WayBack(n, discoveries'[n])
      BY <1>3, <1>4, <2>1 DEF NodeSound, WayBack
    <2>3. Covers(discoveries'[n], routes[n])
      BY <1>3, <1>5, <2>1 DEF NodeSound, Covers
    <2> QED BY <2>1, <2>2, <2>3 DEF NodeSound
  <1>7. TablesSound'
    <2>1. discoveries' \in [Nodes -> SUBSET EntryType]
      BY <1>1, <1>6 DEF NodeSound
    <2> QED BY <1>1, <1>2, <1>6, <2>1 DEF TablesSound
  <1>8. RequestsSound'
    <2>1. ASSUME NEW n \in Nodes, NEW x \in discoveries'[n] PROVE Asked(x.originator, x.id, x.destination)
      <3>1. PICK e \in discoveries[n] : e \in EntryType /\ x = over(e)
        BY <1>4
      <3>2. Asked(e.originator, e.id, e.destination)
        BY AskedOnTable
      <3> QED BY <1>3, <3>1, <3>2
    <2>2. \A m \in air' : m.kind = "request" => Asked(m.body.originator, m.body.id, m.body.destination)
      BY <1>1, AskedInAir
    <2> QED BY <1>1, <1>2, <2>1, <2>2, RequestsKept
  <1> QED BY <1>1, <1>2, <1>7, <1>8, AirUnchanged, HeldUnchanged, RecordsUnchanged, HistoryUnchanged DEF MeshInv

-----------------------------------------------------------------------------
(* The specification *)

LEMMA MeshInitial ==
    ASSUME Init PROVE MeshInv
  <1>1. HeldSound /\ HistorySound /\ AirSound
    BY DEF Init, HeldSound, HistorySound, AirSound
  <1>2. RecordsSound
    BY DEF Init, RecordsSound, RecordSound
  <1>3. RequestsSound
    BY DEF Init, RequestsSound, Asked
  <1>4. TablesSound
    <2>1. PICK r : r = NoRoute
      OBVIOUS
    <2>2. r \in RouteType /\ r.status = "none"
      BY <2>1, NoRouteType
    <2>3. [d \in Places |-> r] \in RouteTable
      BY <2>2 DEF RouteTable
    <2>4. \A n \in Nodes : routes[n] = [d \in Places |-> r] /\ discoveries[n] = {} /\ live[n] = Neighbours(n)
      BY <2>1, Zenon DEF Init
    <2>5. /\ routes \in [Nodes -> RouteTable] /\ discoveries \in [Nodes -> SUBSET EntryType]
          /\ live \in [Nodes -> SUBSET Nodes]
      BY <2>1, <2>3, NeighbourNode DEF Init
    <2>6. \A n \in Nodes : NodeSound(n, routes[n], discoveries[n])
      BY <2>2, <2>3, <2>4 DEF NodeSound, ToNeighbours, WayBack, Covers
    <2> QED BY <2>4, <2>5, <2>6 DEF TablesSound
  <1> QED BY <1>1, <1>2, <1>3, <1>4 DEF MeshInv

LEMMA MeshStep ==
    ASSUME MeshInv, [Next]_vars PROVE MeshInv'
  <1>1. CASE UNCHANGED vars
    <2>1. /\ routes' = routes /\ discoveries' = discoveries /\ requestId' = requestId /\ held' = held
          /\ records' = records /\ live' = live /\ seen' = seen /\ air' = air
      BY <1>1 DEF vars, discovering
    <2> QED BY <2>1, TablesUnchanged, AirUnchanged, RequestsUnchanged, HeldUnchanged,
               RecordsUnchanged, HistoryUnchanged DEF MeshInv
  <1>2. ASSUME NEW n \in Nodes, Advertise(n) PROVE MeshInv'
    BY <1>2, AdvertiseStep
  <1>3. ASSUME NEW n \in Nodes, NEW d \in Places, SendData(n, d) \/ RouteUnicasts(n, d) \/ DiscoveryLapsed(n, d)
        PROVE  MeshInv'
    BY <1>3, SendDataStep, RouteUnicastsStep, DiscoveryLapsedStep
  <1>4. ASSUME NEW k \in Kids, NEW c \in Concentrators, SendRouteRecord(k, c) PROVE MeshInv'
    BY <1>4, SendRouteRecordStep
  <1>5. ASSUME NEW m \in air, Receive(m) \/ LoseBroadcast(m) \/ UnicastFails(m) PROVE MeshInv'
    BY <1>5, HandleRouteRequestStep, HandleRouteReplyStep, DeliverStep, RelayUnicastStep,
       DroppedStep, UnicastFailsStep DEF Receive, LoseBroadcast
  <1>6. ASSUME NEW n \in Nodes, NEW m \in Nodes, LinkBreaks(n, m) \/ LoseLink(n, m) PROVE MeshInv'
    BY <1>6, LinkBreaksStep, LoseLinkStep
  <1>7. ASSUME NEW o \in Nodes, NEW id \in 1 .. MaxRequests, Expire(o, id) PROVE MeshInv'
    BY <1>7, ExpireStep
  <1> QED BY <1>1, <1>2, <1>3, <1>4, <1>5, <1>6, <1>7 DEF Next

\* Routing's tables and messages stay sound, however requests, replies, frames, failing links and
\* expiring discoveries interleave.
THEOREM MeshInvariant == Spec => []MeshInv
  <1>1. Init => MeshInv
    BY MeshInitial
  <1>2. MeshInv /\ [Next]_vars => MeshInv'
    BY MeshStep
  <1> QED BY <1>1, <1>2, PTL DEF Spec

\* expire_discoveries, accept_route_request and handle_route_reply: no route entry is ever left
\* underway without a discovery that will take it away.
THEOREM NothingStuck == Spec => []NeverStuck
  <1>1. MeshInv => NeverStuck
    BY DEF MeshInv, TablesSound, NodeSound, Covers, NeverStuck
  <1> QED BY <1>1, MeshInvariant, PTL

\* store_route_record and relay_unicast_nwk_frame: every source route a concentrator has stored or
\* derived is a chain of radio links from the device, whatever relayed the records.
THEOREM StoredRoutesAreChains == Spec => []RecordsAreChains
  <1>1. MeshInv => RecordsAreChains
    <2> SUFFICES ASSUME MeshInv, NEW c \in Concentrators, NEW d \in Places, records[c][d] # NoRecord,
                        NEW path, path = <<d>> \o records[c][d] \o <<c>>, NEW i \in 1 .. Len(path) - 1
                 PROVE  Linked(path[i], path[i + 1])
      BY DEF RecordsAreChains
    <2>1. PICK s : s = records[c][d]
      OBVIOUS
    <2>2. s \in Seq(Nodes) /\ Joined(d, s, c)
      BY <2>1, Constants DEF MeshInv, RecordsSound, RecordSound
    <2> QED BY <2>1, <2>2, JoinedPath
  <1> QED BY <1>1, MeshInvariant, PTL

-----------------------------------------------------------------------------
(* BroadcastBudget *)

\* What the bucket is worth now, in ticks of refilling, and at most a full bucket's worth.
Worth == tokens * Interval + (now - lastRefill)
Credit == IF Worth <= MaxTokens * Interval THEN Worth ELSE MaxTokens * Interval

\* The budget's account of the window: what was drawn and what is left never exceed a full
\* bucket and the time that passed.
Account == spent * Interval + Credit <= MaxTokens * Interval + (now - mark)

-----------------------------------------------------------------------------
(* Arithmetic *)

LEMMA Distributes ==
    ASSUME NEW a \in Int, NEW b \in Int, NEW n \in Int
    PROVE  (a + b) * n = a * n + b * n
  OBVIOUS

LEMMA Monotone ==
    ASSUME NEW a \in Nat, NEW b \in Nat, NEW n \in Nat, a <= b
    PROVE  a * n <= b * n
  <1>1. PICK d \in Nat : b = a + d
    <2>1. b - a \in Nat /\ b = a + (b - a)
      OBVIOUS
    <2> QED BY <2>1
  <1>2. b * n = a * n + d * n /\ d * n \in Nat /\ a * n \in Nat
    BY <1>1, Distributes
  <1> QED BY <1>2

LEMMA Quotient ==
    ASSUME NEW e \in Nat, NEW n \in Nat \ {0}
    PROVE  /\ e \div n \in Nat
           /\ (e \div n) * n <= e /\ e < (e \div n) * n + n
  OBVIOUS

LEMMA TakesOne ==
    ASSUME NEW a \in Int, NEW n \in Int
    PROVE  (a - 1) * n = a * n - n /\ (a + 1) * n = a * n + n
  <1>1. (a + 1) * n = a * n + 1 * n
    BY Distributes
  <1>2. (a + (-1)) * n = a * n + (-1) * n
    BY Distributes
  <1> QED BY <1>1, <1>2

LEMMA Carry ==
    ASSUME NEW d \in Int, NEW f \in Int, NEW c \in Int, NEW left \in Int, NEW n \in Int, NEW t \in Int,
           d + c <= f + t, left <= c - n
    PROVE  (d + n) + left <= f + t
  OBVIOUS

-----------------------------------------------------------------------------
(* refill *)

\* A refill leaves the tokens within the capacity and the clock within now.
LEMMA RefillType ==
    ASSUME TypeOK
    PROVE  /\ Refilled \in 0 .. MaxTokens
           /\ RefilledAt \in 0 .. now
           /\ tunables.capacity \in 0 .. MaxTokens
           /\ tunables.critical \in Nat /\ tunables.forwarding \in Nat
  <1>1. /\ tunables.capacity \in 0 .. MaxTokens /\ MaxTokens \in Nat /\ Interval \in Nat
        /\ tunables.critical \in Nat /\ tunables.forwarding \in Nat
    BY BudgetAssumption DEF TypeOK
  <1>2. CASE Fills
    BY <1>1, <1>2 DEF Refilled, RefilledAt, TypeOK
  <1>3. CASE ~Fills
    <2>1. Interval \in Nat \ {0} /\ now - lastRefill \in Nat /\ tokens \in Nat
      BY <1>1, <1>3 DEF Fills, Full, TypeOK
    <2>2. Accrued \in Nat /\ Accrued * Interval <= now - lastRefill /\ Accrued * Interval \in Nat
      BY <2>1, Quotient DEF Accrued
    <2>3. tokens + Accrued < tunables.capacity
      BY <1>1, <1>3, <2>1, <2>2 DEF Fills
    <2> QED BY <1>1, <1>3, <2>1, <2>2, <2>3 DEF Refilled, RefilledAt, TypeOK
  <1> QED BY <1>1, <1>2, <1>3

\* A refill creates no worth: what the bucket holds after it was accounted for.
LEMMA RefillWorth ==
    ASSUME TypeOK
    PROVE  Refilled * Interval + (now - RefilledAt) <= Credit
  <1> DEFINE cap == tunables.capacity
             I == Interval
  <1>1. cap \in 0 .. MaxTokens /\ MaxTokens \in Nat /\ I \in Nat /\ tokens \in 0 .. MaxTokens
        /\ now \in Nat /\ lastRefill \in 0 .. now
    BY BudgetAssumption DEF TypeOK
  <1>2. cap * I <= MaxTokens * I /\ cap * I \in Nat /\ tokens * I \in Nat /\ MaxTokens * I \in Nat
    BY <1>1, Monotone
  <1>3. CASE Full
    <2>1. Refilled = cap /\ RefilledAt = now
      BY <1>3 DEF Refilled, RefilledAt, Fills
    <2>2. cap * I <= tokens * I
      <3>1. CASE I = 0
        BY <1>1, <3>1
      <3>2. CASE tokens >= cap
        BY <1>1, <3>2, Monotone
      <3> QED BY <1>3, <3>1, <3>2 DEF Full
    <2> QED BY <1>1, <1>2, <2>1, <2>2 DEF Credit, Worth
  <1>4. CASE ~Full
    <2>1. I \in Nat \ {0} /\ now - lastRefill \in Nat
      BY <1>1, <1>4 DEF Full
    <2> DEFINE n == Accrued
    <2> DEFINE e == now - lastRefill
    <2>0. /\ e \div I \in Nat
          /\ (e \div I) * I <= e /\ e < (e \div I) * I + I
      <3>1. e \in Nat /\ I \in Nat \ {0}
        BY <2>1
      <3> HIDE DEF e, I
      <3> QED BY <3>1, Quotient
    <2>2. /\ n \in Nat /\ n * I \in Nat
          /\ n * I <= now - lastRefill /\ now - lastRefill < n * I + I
      BY <2>0, <2>1 DEF Accrued
    <2> HIDE DEF n
    <2>3. (tokens + n) * I = tokens * I + n * I
      BY <1>1, <2>2, Distributes
    <2>4. CASE Fills
      <3>1. Refilled = cap /\ RefilledAt = now /\ cap <= tokens + n
        BY <1>1, <1>4, <2>2, <2>4 DEF Refilled, RefilledAt, Fills, n
      <3>2. cap * I <= (tokens + n) * I
        BY <1>1, <2>2, <3>1, Monotone
      <3> QED BY <1>1, <1>2, <2>2, <2>3, <3>1, <3>2 DEF Credit, Worth
    <2>5. CASE ~Fills
      <3>1. Refilled = tokens + n /\ RefilledAt = lastRefill + n * I /\ tokens + n + 1 <= cap
        BY <1>1, <1>4, <2>2, <2>5 DEF Refilled, RefilledAt, Fills, n
      <3>2. (tokens + n + 1) * I <= cap * I
        BY <1>1, <2>2, <3>1, Monotone
      <3>3. (tokens + n + 1) * I = (tokens + n) * I + I
        BY <1>1, <2>2, TakesOne
      <3> QED BY <1>1, <1>2, <2>2, <2>3, <3>1, <3>2, <3>3 DEF Credit, Worth
    <2> QED BY <2>4, <2>5
  <1> QED BY <1>3, <1>4

-----------------------------------------------------------------------------
(* The invariant *)

LEMMA InitHolds == BudgetInit => TypeOK /\ Account
  <1> SUFFICES ASSUME BudgetInit PROVE TypeOK /\ Account
    OBVIOUS
  <1>1. tunables.capacity \in 0 .. MaxTokens /\ MaxTokens \in Nat /\ Interval \in Nat
    BY BudgetAssumption DEF BudgetInit
  <1>2. TypeOK
    BY <1>1 DEF BudgetInit, TypeOK, Never
  <1>3. tokens * Interval <= MaxTokens * Interval /\ tokens * Interval \in Nat
    BY <1>1, Monotone DEF BudgetInit
  <1>4. spent * Interval = 0
    BY <1>1 DEF BudgetInit
  <1> QED BY <1>1, <1>2, <1>3, <1>4 DEF BudgetInit, Account, Credit, Worth

LEMMA TypeStep == TypeOK /\ [BudgetNext]_budgetVars => TypeOK'
  <1> SUFFICES ASSUME TypeOK, [BudgetNext]_budgetVars PROVE TypeOK'
    OBVIOUS
  <1> USE RefillType, BudgetAssumption
  <1>1. CASE TakeCritical
    BY <1>1 DEF TakeCritical, history, TypeOK
  <1>2. ASSUME NEW c \in Limited, Admit(c)
        PROVE  TypeOK'
    <2>1. Floor(c) \in Nat
      BY <1>2 DEF Floor, Limited
    <2>2. Refilled - 1 \in 0 .. MaxTokens
      BY <1>2, <2>1 DEF Admit, Admits
    <2>3. Relays(c, Refilled - 1) \in Nat
      BY DEF Relays, TypeOK
    <2> QED BY <1>2, <2>2, <2>3 DEF Admit, TypeOK
  <1>3. ASSUME NEW c \in Limited, Defer(c)
        PROVE  TypeOK'
    <2>1. Floor(c) \in Nat
      BY <1>3 DEF Floor, Limited
    <2>2. Floor(c) + 1 - Refilled \in Nat
      BY <1>3, <2>1 DEF Defer, Admits
    <2>3. now + RetryIn(c) \in Nat
      BY <2>2 DEF RetryIn, TypeOK
    <2> QED BY <1>3, <2>3 DEF Defer, TypeOK
  <1>4. ASSUME NEW t \in Tunings, SetTunable(t)
        PROVE  TypeOK'
    BY <1>4 DEF SetTunable, bucket, TypeOK
  <1>5. CASE Tick
    BY <1>5 DEF Tick, bucket, history, TypeOK
  <1>6. CASE Mark
    BY <1>6 DEF Mark, bucket, TypeOK
  <1>7. CASE UNCHANGED budgetVars
    BY <1>7 DEF budgetVars, bucket, history, TypeOK
  <1> QED BY <1>1, <1>2, <1>3, <1>4, <1>5, <1>6, <1>7 DEF BudgetNext

LEMMA AccountStep == TypeOK /\ Account /\ [BudgetNext]_budgetVars => Account'
  <1> SUFFICES ASSUME TypeOK, Account, [BudgetNext]_budgetVars PROVE Account'
    OBVIOUS
  <1>1. /\ Interval \in Nat /\ MaxTokens \in Nat /\ tokens \in Nat /\ spent \in Nat
        /\ now \in Nat /\ lastRefill \in 0 .. now /\ mark \in 0 .. now
    BY BudgetAssumption DEF TypeOK
  <1>2. /\ tokens * Interval \in Nat /\ spent * Interval \in Nat /\ MaxTokens * Interval \in Nat
    BY <1>1
  <1>3. Refilled \in Nat /\ RefilledAt \in 0 .. now /\ Refilled * Interval \in Nat
    BY <1>1, RefillType
  <1>4. Refilled * Interval + (now - RefilledAt) <= Credit
    BY RefillWorth
  <1>5. CASE TakeCritical \/ \E c \in Limited : Defer(c)
    <2>1. tokens' = Refilled /\ lastRefill' = RefilledAt /\ UNCHANGED <<now, spent, mark>>
      BY <1>5 DEF TakeCritical, Defer, history
    <2> QED BY <1>1, <1>2, <1>3, <1>4, <2>1 DEF Account, Credit, Worth
  <1>6. ASSUME NEW c \in Limited, Admit(c)
        PROVE  Account'
    <2>1. tokens' = Refilled - 1 /\ lastRefill' = RefilledAt /\ spent' = spent + 1 /\ UNCHANGED <<now, mark>>
      BY <1>6 DEF Admit
    <2>2. /\ tokens' * Interval = Refilled * Interval - Interval
          /\ spent' * Interval = spent * Interval + Interval
      BY <1>1, <1>3, <2>1, TakesOne
    <2>3. Worth' <= Credit - Interval /\ Credit' <= Worth' /\ Worth' \in Int
      BY <1>1, <1>2, <1>3, <1>4, <2>1, <2>2 DEF Credit, Worth
    <2>4. Credit \in Int /\ Credit' \in Int
      BY <1>1, <1>2, <1>3, <2>1, <2>2, <2>3 DEF Credit, Worth
    <2>5. Credit' <= Credit - Interval
      BY <1>1, <2>3, <2>4
    <2>6. spent * Interval + Credit <= MaxTokens * Interval + (now - mark)
      BY DEF Account
    <2>7. (spent * Interval + Interval) + Credit' <= MaxTokens * Interval + (now - mark)
      <3> HIDE DEF Credit
      <3>1. /\ spent * Interval \in Int /\ MaxTokens * Interval \in Int
            /\ now - mark \in Int /\ Interval \in Int
        BY <1>1, <1>2
      <3> QED BY <2>4, <2>5, <2>6, <3>1, Carry, Zenon
    <2> QED BY <2>1, <2>2, <2>7 DEF Account
  <1>7. CASE Tick
    BY <1>1, <1>2, <1>7 DEF Tick, bucket, history, Account, Credit, Worth
  <1>8. CASE Mark
    <2>1. spent' * Interval = 0
      BY <1>1, <1>8 DEF Mark
    <2> QED BY <1>1, <1>2, <1>8, <2>1 DEF Mark, bucket, Account, Credit, Worth
  <1>9. CASE UNCHANGED budgetVars \/ \E t \in Tunings : SetTunable(t)
    <2>1. UNCHANGED <<now, tokens, lastRefill, spent, mark>>
      BY <1>9 DEF budgetVars, bucket, history, SetTunable
    <2>2. Credit' = Credit
      BY <2>1 DEF Credit, Worth
    <2> QED BY <2>1, <2>2 DEF Account
  <1> QED BY <1>5, <1>6, <1>7, <1>8, <1>9 DEF BudgetNext

-----------------------------------------------------------------------------
(* What a refusal promises, and what the relays are owed *)

\* The bucket covers a class, or its refilling up to the promised instant makes up for
\* what the class lacks.
Ripens(c) ==
    \/ tokens >= Floor(c) + 1
    \/ (Floor(c) + 1) * Interval <= tokens * Interval + (promise[c] - lastRefill)

PromisesRipen ==
    \A c \in Limited : promise[c] # Never /\ tunables.capacity > Floor(c) => Ripens(c)

\* What is left of the bucket and what the relays drew of it make up the host's floor.
ReserveAccounted ==
    tunables.capacity >= Floor("Host")
    => relayed >= tunables.forwarding \/ tokens + relayed >= Floor("Host")

\* Whole intervals are counted whole.
LEMMA QuotientAtLeast ==
    ASSUME NEW e \in Nat, NEW n \in Nat \ {0}, NEW k \in Nat, k * n <= e
    PROVE  k <= e \div n
  <1>1. /\ e \div n \in Nat
        /\ e < (e \div n) * n + n
    BY Quotient
  <1>2. PICK q \in Nat : q = e \div n
    BY <1>1
  <1>3. SUFFICES ASSUME q + 1 <= k PROVE FALSE
    BY <1>2
  <1>4. (q + 1) * n <= k * n
    BY <1>3, Monotone
  <1>5. (q + 1) * n = q * n + n /\ q * n \in Nat /\ k * n \in Nat
    BY TakesOne
  <1> QED BY <1>1, <1>2, <1>4, <1>5

LEMMA FloorType ==
    ASSUME TypeOK, NEW c \in Limited
    PROVE  Floor(c) \in Nat /\ Floor("Host") = tunables.critical + tunables.forwarding
           /\ Floor("Forwarding") = tunables.critical
  BY RefillType DEF Floor, Limited

\* How a refill moves the bucket.
LEMMA RefillMoves ==
    ASSUME TypeOK
    PROVE  \/ Refilled = tunables.capacity
           \/ /\ Interval \in Nat \ {0} /\ Accrued \in Nat /\ ~Fills
              /\ Refilled = tokens + Accrued /\ RefilledAt = lastRefill + Accrued * Interval
              /\ Refilled * Interval = tokens * Interval + Accrued * Interval
  <1>1. CASE Fills
    BY <1>1 DEF Refilled
  <1>2. CASE ~Fills
    <2>1. Interval \in Nat \ {0} /\ now - lastRefill \in Nat /\ tokens \in Nat
      BY <1>2, BudgetAssumption DEF Fills, Full, TypeOK
    <2>2. Accrued \in Nat
      BY <2>1, Quotient DEF Accrued
    <2>3. (tokens + Accrued) * Interval = tokens * Interval + Accrued * Interval
      <3> HIDE DEF Accrued
      <3> QED BY <2>1, <2>2, Distributes
    <2> QED BY <1>2, <2>1, <2>2, <2>3 DEF Refilled, RefilledAt
  <1> QED BY <1>1, <1>2

\* A refill keeps a promise that was made.
LEMMA RefillRipens ==
    ASSUME TypeOK, NEW c \in Limited, promise[c] # Never, tunables.capacity > Floor(c), Ripens(c),
           tokens' = Refilled, lastRefill' = RefilledAt, tunables' = tunables,
           promise'[c] = promise[c]
    PROVE  Ripens(c)'
  <1>0. Floor(c)' = Floor(c)
    BY DEF Floor
  <1>1. /\ Floor(c) \in Nat /\ Floor(c)' = Floor(c) /\ tunables.capacity \in Nat
        /\ promise[c] \in Nat /\ tokens \in Nat /\ lastRefill \in Nat /\ Interval \in Nat
    BY <1>0, FloorType, RefillType, BudgetAssumption DEF TypeOK
  <1>2. CASE Refilled = tunables.capacity
    BY <1>1, <1>2 DEF Ripens
  <1>3. CASE Refilled # tunables.capacity
    <2>1. PICK n \in Nat : /\ Refilled = tokens + n /\ RefilledAt = lastRefill + n * Interval
                           /\ Refilled * Interval = tokens * Interval + n * Interval
      BY <1>3, RefillMoves
    <2>2. /\ n * Interval \in Int /\ tokens * Interval \in Int
          /\ (Floor(c) + 1) * Interval \in Int
      BY <1>1
    <2>3. CASE tokens >= Floor(c) + 1
      BY <1>1, <2>1, <2>3 DEF Ripens
    <2>4. CASE (Floor(c) + 1) * Interval <= tokens * Interval + (promise[c] - lastRefill)
      <3>1. /\ tokens' * Interval = tokens * Interval + n * Interval
            /\ lastRefill' = lastRefill + n * Interval
        BY <2>1
      <3>2. (Floor(c) + 1) * Interval <= tokens' * Interval + (promise[c] - lastRefill')
        BY <1>1, <2>2, <2>4, <3>1
      <3> QED BY <1>1, <3>2 DEF Ripens
    <2> QED BY <2>3, <2>4 DEF Ripens
  <1> QED BY <1>2, <1>3

LEMMA PromiseStep == TypeOK /\ PromisesRipen /\ [BudgetNext]_budgetVars => PromisesRipen'
  <1> SUFFICES ASSUME TypeOK, PromisesRipen, [BudgetNext]_budgetVars PROVE PromisesRipen'
    OBVIOUS
  <1>1. CASE TakeCritical
    <2>1. /\ tokens' = Refilled /\ lastRefill' = RefilledAt /\ tunables' = tunables
          /\ promise' = promise /\ \A c \in Limited : Floor(c)' = Floor(c)
      BY <1>1 DEF TakeCritical, history, Floor
    <2> QED BY <2>1, RefillRipens DEF PromisesRipen
  <1>2. CASE \E c \in Limited : Admit(c)
    BY <1>2 DEF Admit, PromisesRipen
  <1>3. ASSUME NEW d \in Limited, Defer(d)
        PROVE  PromisesRipen'
    <2>1. /\ tokens' = Refilled /\ lastRefill' = RefilledAt /\ tunables' = tunables
          /\ promise' = [promise EXCEPT ![d] = now + RetryIn(d)]
          /\ \A c \in Limited : Floor(c)' = Floor(c)
      BY <1>3 DEF Defer, Floor
    <2>2. ASSUME NEW c \in Limited, c # d, promise'[c] # Never, tunables.capacity > Floor(c)
          PROVE  Ripens(c)'
      <3>1. promise'[c] = promise[c]
        BY <2>1, <2>2 DEF TypeOK
      <3> QED BY <2>1, <2>2, <3>1, RefillRipens DEF PromisesRipen
    <2>3. Ripens(d)'
      <3>1. /\ Floor(d) \in Nat /\ Refilled \in Nat /\ RefilledAt \in 0 .. now /\ now \in Nat
            /\ Interval \in Nat
        BY FloorType, RefillType, BudgetAssumption DEF TypeOK
      <3>2. PICK lack \in Nat : lack = Floor(d) + 1 - Refilled
        BY <1>3, <3>1 DEF Defer, Admits
      <3>3. promise'[d] = now + lack * Interval
        BY <2>1, <3>1, <3>2 DEF TypeOK, RetryIn
      <3>4. /\ (Refilled + lack) * Interval = Refilled * Interval + lack * Interval
            /\ Refilled + lack = Floor(d) + 1
            /\ Refilled * Interval \in Int /\ lack * Interval \in Int
        BY <3>1, <3>2, Distributes
      <3>5. (Floor(d) + 1) * Interval <= tokens' * Interval + (promise'[d] - lastRefill')
        BY <2>1, <3>1, <3>3, <3>4
      <3> QED BY <2>1, <3>5 DEF Ripens
    <2> QED BY <2>1, <2>2, <2>3 DEF PromisesRipen
  <1>4. CASE \E t \in Tunings : SetTunable(t)
    BY <1>4 DEF SetTunable, PromisesRipen
  <1>5. CASE Tick \/ Mark \/ UNCHANGED budgetVars
    <2>1. UNCHANGED <<tokens, lastRefill, tunables, promise>>
      BY <1>5 DEF Tick, Mark, budgetVars, bucket, history
    <2> QED BY <2>1 DEF PromisesRipen, Ripens, Floor
  <1> QED BY <1>1, <1>2, <1>3, <1>4, <1>5 DEF BudgetNext

LEMMA ReserveStep == TypeOK /\ ReserveAccounted /\ [BudgetNext]_budgetVars => ReserveAccounted'
  <1> SUFFICES ASSUME TypeOK, ReserveAccounted, [BudgetNext]_budgetVars PROVE ReserveAccounted'
    OBVIOUS
  <1>0. /\ Floor("Host") = tunables.critical + tunables.forwarding
        /\ Floor("Host")' = tunables'.critical + tunables'.forwarding
        /\ tunables.critical \in Nat /\ tunables.forwarding \in Nat
        /\ tunables.capacity \in Nat /\ relayed \in Nat /\ tokens \in Nat /\ Refilled \in Nat
    BY RefillType DEF TypeOK, Floor
  <1>00. Refilled = tunables.capacity \/ Refilled >= tokens
    BY <1>0, RefillMoves
  <1>1. CASE TakeCritical \/ \E c \in Limited : Defer(c)
    <2>1. tokens' = Refilled /\ UNCHANGED <<tunables, relayed>>
      BY <1>1 DEF TakeCritical, Defer, history
    <2> QED BY <1>0, <1>00, <2>1 DEF ReserveAccounted
  <1>2. ASSUME NEW c \in Limited, Admit(c)
        PROVE  ReserveAccounted'
    <2>1. /\ tokens' = Refilled - 1 /\ tunables' = tunables
          /\ relayed' = Relays(c, Refilled - 1) /\ Refilled > Floor(c)
      BY <1>2 DEF Admit, Admits
    <2>2. CASE Refilled - 1 >= Floor("Host")
      BY <1>0, <2>1, <2>2 DEF ReserveAccounted, Relays
    <2>3. CASE Refilled - 1 < Floor("Host")
      <3>1. c = "Forwarding"
        BY <1>0, <2>1, <2>3 DEF Limited
      <3>2. relayed' = relayed + 1
        BY <1>0, <2>1, <2>3, <3>1 DEF Relays
      <3> QED BY <1>0, <1>00, <2>1, <3>2 DEF ReserveAccounted
    <2> QED BY <1>0, <2>2, <2>3
  <1>4. CASE \E t \in Tunings : SetTunable(t)
    <2>1. relayed' = tunables'.forwarding /\ tunables'.forwarding \in Nat
      BY <1>4, BudgetAssumption DEF SetTunable
    <2> QED BY <2>1 DEF ReserveAccounted
  <1>5. CASE Tick \/ Mark \/ UNCHANGED budgetVars
    <2>1. UNCHANGED <<tokens, tunables, relayed>>
      BY <1>5 DEF Tick, Mark, budgetVars, bucket, history
    <2> QED BY <2>1 DEF ReserveAccounted, Floor
  <1> QED BY <1>1, <1>2, <1>4, <1>5 DEF BudgetNext

LEMMA RetryHolds == TypeOK /\ PromisesRipen => RetrySuffices
  <1> SUFFICES ASSUME TypeOK, PromisesRipen, NEW c \in Limited,
                      promise[c] # Never, promise[c] <= now, tunables.capacity > Floor(c)
               PROVE  Admits(c)
    BY DEF RetrySuffices
  <1>1. /\ Floor(c) \in Nat /\ promise[c] \in Nat /\ tokens \in Nat /\ now \in Nat
        /\ lastRefill \in 0 .. now /\ Interval \in Nat /\ tunables.capacity \in Nat
    BY FloorType, RefillType, BudgetAssumption DEF TypeOK
  <1>2. CASE Refilled = tunables.capacity
    BY <1>1, <1>2 DEF Admits
  <1>3. CASE Refilled # tunables.capacity
    <2>1. Interval \in Nat \ {0} /\ Accrued \in Nat /\ Refilled = tokens + Accrued
      BY <1>3, RefillMoves
    <2>2. CASE tokens >= Floor(c) + 1
      <3> HIDE DEF Accrued
      <3> QED BY <1>1, <2>1, <2>2 DEF Admits
    <2>3. CASE tokens < Floor(c) + 1
      <3>1. PICK lack \in Nat : lack = Floor(c) + 1 - tokens
        BY <1>1, <2>3
      <3>2. (tokens + lack) * Interval = tokens * Interval + lack * Interval
            /\ tokens + lack = Floor(c) + 1
        BY <1>1, <3>1, Distributes
      <3>3. (Floor(c) + 1) * Interval <= tokens * Interval + (promise[c] - lastRefill)
        BY <1>1, <2>3 DEF PromisesRipen, Ripens
      <3>4. lack * Interval <= now - lastRefill /\ now - lastRefill \in Nat
        <4>1. lack * Interval \in Int /\ tokens * Interval \in Int
          BY <1>1
        <4> QED BY <1>1, <3>2, <3>3, <4>1
      <3>5. lack <= Accrued
        BY <2>1, <3>4, QuotientAtLeast DEF Accrued
      <3> HIDE DEF Accrued
      <3> QED BY <1>1, <2>1, <3>1, <3>5 DEF Admits
    <2> QED BY <1>1, <2>2, <2>3
  <1> QED BY <1>2, <1>3

LEMMA ReserveHolds == TypeOK /\ ReserveAccounted => RelaysKeepReserve
  <1> SUFFICES ASSUME TypeOK, ReserveAccounted,
                      tunables.capacity >= Floor("Host"), ~Admits("Forwarding")
               PROVE  relayed >= tunables.forwarding
    BY DEF RelaysKeepReserve
  <1>1. /\ Floor("Host") = tunables.critical + tunables.forwarding
        /\ Floor("Forwarding") = tunables.critical
        /\ tunables.critical \in Nat /\ tunables.forwarding \in Nat
        /\ tunables.capacity \in Nat /\ relayed \in Nat /\ tokens \in Nat /\ Refilled \in Nat
    BY RefillType DEF TypeOK, Floor
  <1>2. Refilled = tunables.capacity \/ Refilled >= tokens
    BY <1>1, RefillMoves
  <1> QED BY <1>1, <1>2 DEF ReserveAccounted, Admits

-----------------------------------------------------------------------------
(* The theorems *)

\* The token count never underflows its u32 and never passes the largest capacity, whatever
\* the interval, the tunings and the order of the takes.
THEOREM BudgetTypes == BudgetSpec => []TypeOK
  BY InitHolds, TypeStep, PTL DEF BudgetSpec

\* The budget bounds the broadcast rate in every window, for every interval and capacity
\* and through every change of the tunables.
THEOREM RateIsBounded == BudgetSpec => []RateBounded
  <1>1. BudgetInit => TypeOK /\ Account
    BY InitHolds
  <1>2. TypeOK /\ Account /\ [BudgetNext]_budgetVars => (TypeOK /\ Account)'
    BY TypeStep, AccountStep
  <1>3. TypeOK /\ Account => RateBounded
    <2> SUFFICES ASSUME TypeOK, Account PROVE RateBounded
      OBVIOUS
    <2>1. /\ Interval \in Nat /\ MaxTokens \in Nat /\ tokens \in Nat /\ spent \in Nat
          /\ now \in Nat /\ lastRefill \in 0 .. now /\ mark \in 0 .. now
      BY BudgetAssumption DEF TypeOK
    <2>2. Credit \in Nat
      BY <2>1 DEF Credit, Worth
    <2> HIDE DEF Credit
    <2> QED BY <2>1, <2>2 DEF Account, RateBounded
  <1> QED BY <1>1, <1>2, <1>3, PTL DEF BudgetSpec

\* A refused sender that waits for its retry_in and meets no other traffic is admitted, for
\* every interval, floor and capacity above it and however often others were refused
\* meanwhile: the refill's rounding never makes the promised instant too early.
THEOREM RetryPromiseKept == BudgetSpec => []RetrySuffices
  <1>1. BudgetInit => TypeOK /\ PromisesRipen
    BY InitHolds DEF BudgetInit, PromisesRipen
  <1>2. TypeOK /\ PromisesRipen /\ [BudgetNext]_budgetVars => (TypeOK /\ PromisesRipen)'
    BY TypeStep, PromiseStep
  <1> QED BY <1>1, <1>2, RetryHolds, PTL DEF BudgetSpec

\* A flood of host broadcasts never starves the relays: they are refused only when they
\* drew the whole of their own reserve, for every tuning that has room for the floors.
THEOREM RelaysNotStarved == BudgetSpec => []RelaysKeepReserve
  <1>1. BudgetInit => TypeOK /\ ReserveAccounted
    <2> SUFFICES ASSUME BudgetInit PROVE ReserveAccounted
      BY InitHolds
    <2>1. TypeOK
      BY InitHolds
    <2> QED BY <2>1, RefillType DEF BudgetInit, ReserveAccounted, Floor
  <1>2. TypeOK /\ ReserveAccounted /\ [BudgetNext]_budgetVars => (TypeOK /\ ReserveAccounted)'
    BY TypeStep, ReserveStep
  <1> QED BY <1>1, <1>2, ReserveHolds, PTL DEF BudgetSpec
=============================================================================
