----------------------------- MODULE Reception -----------------------------
(***************************************************************************)
(* What the stack does with a secured frame a neighbour transmits: the      *)
(* replay check, the links to the neighbours and their ageing, the          *)
(* broadcast transaction table with its passive acknowledgements, the relay *)
(* of broadcasts, and the rejection of APS duplicates on the way to the     *)
(* application.  A frame is handled in the step that receives it (run is    *)
(* the only receiver); send_timer_task and the link status task run within  *)
(* the tick in which they are due.                                          *)
(*                                                                          *)
(* Times are kept as what is left or what has passed.  A broadcast stands   *)
(* for its source and sequence number, which no other one shares while      *)
(* copies of it are around.  Routes are Mesh's, the queue of copies Sends'. *)
(***************************************************************************)
EXTENDS Integers, FiniteSets, Functions

CONSTANTS
    Routers,       \* the neighbours
    Own, Others,   \* broadcasts: the ones we originate, the ones of other devices
    Messages,      \* APS data frames sent to us, each with its counter
    Window,        \* broadcast_delivery_time
    Lifetime,      \* how long the network keeps repeating a broadcast
    Copies,        \* max_broadcast_retries + 1
    Interval,      \* passive_ack_timeout
    Quorum,        \* broadcast_passive_ack_quorum
    Rejection,     \* aps_duplicate_rejection_timeout
    MaxAge,        \* router_age_limit * link_status_period
    Period, Late,  \* link_status_period, and how long a link status may take to leave
    MaxEvents      \* bound

Broadcasts == Own \cup Others

\* The frame counters of a router that matter, relative to its last one.
Last == 0
New == 1
Counters == {Last, New}

Us == "us"

ASSUME ReceptionAssumption ==
    /\ Own \cap Others = {} /\ Messages \cap Broadcasts = {} /\ Us \notin Routers /\ IsFiniteSet(Routers)
    /\ {Window, Lifetime, Copies, Interval, Quorum, Rejection, MaxAge, Period} \subseteq Nat \ {0}
    /\ {Late, MaxEvents} \subseteq Nat
    \* nwkBroadcastDeliveryTime covers the life of a broadcast, retries included, and so does the
    \* rejection of APS duplicates.
    /\ Lifetime < Window /\ Lifetime < Rejection /\ Copies * Interval < Window

VARIABLES
    uptime,        \* core_now, up to where nothing depends on it
    impatient,     \* hack_ignore_broadcast_startup_wait_period
    seen,          \* incoming_frame_counter_set, relative to the last counter the router used
    neighbors,     \* per router: outgoing_cost, 0 without an entry, and the time since its last link status
    reporting,     \* when periodic_link_status_broadcast_task runs
    transactions,  \* the broadcast transaction table
    records,       \* the broadcasts we send or relay, until they settle
    duplicates,    \* aps_duplicates, without the expired: the time since a frame's last copy
    age,           \* the time since a broadcast was originated
    aired,         \* who transmitted a broadcast
    since,         \* the time since the last copy of an APS data frame
    processed,     \* history: how often a broadcast passed the transaction table
    upper,         \* history: how often a frame reached the application since the start
    conflict,      \* history: a broadcast was taken for that of a device with our address
    claims,        \* history: the broadcasts found delivered that neither the audience nor a quorum sent
    events         \* bound: what the network and the client did, and restarts

links   == <<neighbors, reporting>>
sending == <<transactions, records, claims>>
network == <<age, aired, since>>
history == <<processed, upper, conflict>>
receptionVars    == <<uptime, impatient, seen, links, sending, duplicates, network, history, events>>

None == [x \in {} |-> 0]

Unheard == [r \in Routers |-> [cost |-> 0, quiet |-> 0]]

ReceptionInit ==
    /\ uptime = 0 /\ impatient \in BOOLEAN
    /\ seen = None /\ neighbors = Unheard /\ reporting = Period
    /\ transactions = None /\ records = None /\ duplicates = None
    /\ age = None /\ aired = [b \in Broadcasts |-> {}] /\ since = [m \in Messages |-> 0]
    /\ processed = [b \in Broadcasts |-> 0]
    /\ upper = [x \in Broadcasts \cup Messages |-> 0]
    /\ conflict = FALSE /\ claims = {}
    /\ events = 0

Spend == events < MaxEvents /\ events' = events + 1

With(f, x, v) == [y \in DOMAIN f \cup {x} |-> IF y = x THEN v ELSE f[y]]

-----------------------------------------------------------------------------
(* The replay check *)

\* inbound_network_key: a sender's counter must advance; that of an unknown one is not checked.
Fresh(r, c) == r \in DOMAIN seen => c > seen[r]

BugNoted(r, c, authentic) == With(seen, r, c)

\* note_inbound_frame_counter follows the decryption: a frame that fails it leaves no trace.
Noted(r, c, authentic) == IF authentic THEN With(seen, r, c) ELSE seen

\* A router transmits a frame to us: a new one, whose counter becomes its last one, or again an
\* older one, which only a restart makes us accept.
Heard(r, c) ==
    /\ Fresh(r, c)
    /\ seen' = Noted(r, IF c = New THEN Last ELSE c, TRUE)

\* A frame damaged on its way fails to decrypt, whatever counter it shows.
Damaged(r, c) ==
    /\ Fresh(r, c)
    /\ seen' = Noted(r, c, FALSE)
    /\ Spend
    /\ UNCHANGED <<uptime, impatient, links, sending, duplicates, network, history>>

\* relay_unicast_nwk_frame: a frame in transit counts as heard; neither table nor ageing is touched.
Transit(r, c) ==
    /\ Heard(r, c)
    /\ Spend
    /\ UNCHANGED <<uptime, impatient, links, sending, duplicates, age, aired, since, history>>

-----------------------------------------------------------------------------
(* Links *)

\* age: the link to a router that fell silent is dead.
Aged(n) ==
    [r \in Routers |-> IF n[r].cost > 0 /\ n[r].quiet >= MaxAge THEN Unheard[r] ELSE n[r]]

\* expected_broadcast_relayers
Live(n) == {r \in Routers : n[r].cost > 0}

\* on_link_status: the first frame of an advertisement forgets the cost, a frame that lists us sets it.
Digested(n, r, first, lists) ==
    [n EXCEPT ![r].cost = IF lists THEN 1 ELSE IF first THEN 0 ELSE @, ![r].quiet = 0]

\* handle_link_status, past the transaction table
LinkStatus(r, c, first, lists) ==
    /\ Heard(r, c)
    /\ neighbors' = Digested(Aged(neighbors), r, first, lists)
    /\ Spend
    /\ UNCHANGED <<uptime, impatient, reporting, sending, duplicates, age, aired, since, history>>

\* periodic_link_status_broadcast_task ages the links before it reports them, and runs again a period
\* after it was due.
SendLinkStatus ==
    /\ reporting <= 0
    /\ neighbors' = Aged(neighbors)
    /\ reporting' = reporting + Period
    /\ UNCHANGED <<uptime, impatient, seen, sending, duplicates, network, history, events>>

-----------------------------------------------------------------------------
(* The broadcast transaction table *)

Transaction(audience, heard) == [left |-> Window, audience |-> audience, heard |-> heard]

\* passively_acked: the live part of the audience relayed the broadcast, or enough of it.
LiveAudience(b) == transactions[b].audience \cap Live(neighbors)

BugAcked(b) ==
    b \in DOMAIN transactions => Cardinality(transactions[b].heard) >= Quorum

Acked(b) ==
    b \in DOMAIN transactions =>
       LET heard == Cardinality(LiveAudience(b) \cap transactions[b].heard) IN
       heard >= Quorum \/ heard >= Cardinality(LiveAudience(b))

BugEarly == FALSE

\* filter_broadcast, and the check of our own address: no broadcast is handled in the first window.
Early == ~impatient /\ Window > uptime

\* filter_received drops the transactions whose window has closed.
Retained == Restrict(transactions, {b \in DOMAIN transactions : transactions[b].left > 0})

BugTakenForOurs(b) == b \in Own

\* A fresh broadcast with our address as its source is another device's, once those we sent before a
\* restart are gone.
TakenForOurs(b) == b \in Own /\ Window < uptime

\* A broadcast we send or relay, with the time to its next copy.
Record(wait) == [copies |-> Copies, wait |-> wait, handed |-> FALSE, quorum |-> FALSE]

\* send_broadcast, admitted.
SendBroadcast(b) ==
    /\ b \in Own \ DOMAIN age
    /\ age' = With(age, b, 0)
    /\ transactions' = With(transactions, b, Transaction(Live(neighbors), {}))
    /\ records' = With(records, b, Record(0))
    /\ Spend
    /\ UNCHANGED <<uptime, impatient, seen, links, claims, duplicates, aired, since, history>>

\* is_duplicate_aps_frame on the way to the application.  run goes on with every frame it decrypted,
\* the ones the transaction table filters and the copies of our own broadcasts too.
Known(x) == x \in DOMAIN duplicates

BugRefreshed(x) == IF Known(x) THEN duplicates ELSE With(duplicates, x, 0)

\* Every copy starts the rejection window again.
Refreshed(x) == With(duplicates, x, 0)

Deliver(x) ==
    /\ duplicates' = Refreshed(x)
    /\ upper' = IF Known(x) THEN upper ELSE [upper EXCEPT ![x] = @ + 1]

\* handle_decrypted_frame and the rest of run, for a broadcast that a router originates or relays.
\* A fresh one is relayed unless its radius is spent (maybe_relay_broadcast), the first copy after
\* some jitter.
HearBroadcast(r, c, b) ==
    /\ Heard(r, c)
    /\ IF b \in DOMAIN age THEN age[b] <= Lifetime /\ aired[b] \ {r} # {} ELSE b \in Others
    /\ age' = IF b \in DOMAIN age THEN age ELSE With(age, b, 0)
    /\ aired' = [aired EXCEPT ![b] = @ \cup {r}]
    /\ neighbors' = Aged(neighbors)
    /\ \/ /\ Early
          /\ UNCHANGED <<transactions, records, processed, conflict>>
       \/ /\ ~Early /\ b \in DOMAIN Retained
          /\ transactions' = [Retained EXCEPT ![b].heard = @ \cup {r}]
          /\ UNCHANGED <<records, processed, conflict>>
       \/ /\ ~Early /\ b \notin DOMAIN Retained
          /\ transactions' = With(Retained, b, Transaction(Live(neighbors'), {r}))
          /\ processed' = [processed EXCEPT ![b] = @ + 1]
          /\ conflict' = (conflict \/ TakenForOurs(b))
          /\ \/ b \in Others /\ \E jitter \in 0 .. 1 : records' = With(records, b, Record(jitter))
             \/ UNCHANGED records
    /\ Deliver(b)
    /\ Spend
    /\ UNCHANGED <<uptime, impatient, reporting, claims, since>>

\* A unicast to us.  Its copies, of one counter, come within the rejection window of each other.
HearUnicast(r, c, m) ==
    /\ Heard(r, c)
    /\ upper[m] = 0 \/ since[m] < Rejection
    /\ since' = [since EXCEPT ![m] = 0]
    /\ neighbors' = Aged(neighbors)
    /\ Deliver(m)
    /\ Spend
    /\ UNCHANGED <<uptime, impatient, reporting, sending, age, aired, processed, conflict>>

-----------------------------------------------------------------------------
(* drive_sends and the sender, for the broadcasts on the passive acknowledgement schedule *)

\* What an observer of the air sees of a quorum.
Relayed(b) == LiveAudience(b) \subseteq aired[b] \/ Cardinality(LiveAudience(b) \cap aired[b]) >= Quorum

Settled(b) == Restrict(records, DOMAIN records \ {b})

\* broadcast_delivered: the quorum settles a broadcast of which a copy was handed off, or leaves that
\* to the first copy.
QuorumHeard(b) ==
    /\ ~records[b].quorum /\ Acked(b)
    /\ records' = IF records[b].handed THEN Settled(b) ELSE [records EXCEPT ![b].quorum = TRUE]
    /\ claims' = IF b \in DOMAIN transactions => Relayed(b) THEN claims ELSE claims \cup {b}
    /\ UNCHANGED <<uptime, impatient, seen, links, transactions, duplicates, network, history, events>>

\* A copy is due and leaves, or is lost in the radio; the schedule retries either way.
Copy(b, leaves) ==
    /\ records[b].wait = 0 /\ records[b].copies > 0
    /\ aired' = IF leaves THEN [aired EXCEPT ![b] = @ \cup {Us}] ELSE aired
    /\ records' = IF leaves /\ records[b].quorum THEN Settled(b)
                  ELSE [records EXCEPT ![b].copies = @ - 1, ![b].wait = Interval,
                                       ![b].handed = @ \/ leaves]
    /\ UNCHANGED <<uptime, impatient, seen, links, transactions, claims, duplicates, age,
                   since, history, events>>

\* The schedule is over.
Exhausted(b) ==
    /\ records[b].wait = 0 /\ records[b].copies = 0
    /\ records' = Settled(b)
    /\ UNCHANGED <<uptime, impatient, seen, links, transactions, claims, duplicates, network,
                   history, events>>

-----------------------------------------------------------------------------
(* Time, and restarts *)

Tick ==
    /\ reporting > -Late
    /\ \A b \in DOMAIN records : records[b].wait > 0
    /\ uptime' = IF uptime > Window THEN uptime ELSE uptime + 1
    /\ neighbors' = [r \in Routers |->
                        [neighbors[r] EXCEPT !.quiet = IF neighbors[r].cost > 0 THEN @ + 1 ELSE 0]]
    /\ reporting' = reporting - 1
    /\ transactions' = [b \in DOMAIN transactions |->
                           [transactions[b] EXCEPT !.left = IF @ > 0 THEN @ - 1 ELSE 0]]
    /\ records' = [b \in DOMAIN records |-> [records[b] EXCEPT !.wait = @ - 1]]
    /\ duplicates' = [x \in {y \in DOMAIN duplicates : duplicates[y] + 1 < Rejection} |-> duplicates[x] + 1]
    /\ age' = [b \in DOMAIN age |-> IF age[b] > Lifetime THEN age[b] ELSE age[b] + 1]
    /\ since' = [m \in Messages |-> IF since[m] < Rejection THEN since[m] + 1 ELSE since[m]]
    /\ UNCHANGED <<impatient, seen, claims, aired, history, events>>

\* Nothing of this is stored: a restarted stack knows no counter, link, transaction or duplicate.
Restart ==
    /\ Spend
    /\ uptime' = 0
    /\ seen' = None /\ neighbors' = Unheard /\ reporting' = Period
    /\ transactions' = None /\ records' = None /\ claims' = {} /\ duplicates' = None
    /\ upper' = [x \in DOMAIN upper |-> 0]
    /\ UNCHANGED <<impatient, network, processed, conflict>>

ReceptionNext ==
    \/ SendLinkStatus \/ Tick \/ Restart
    \/ \E r \in Routers, c \in Counters :
           \/ Damaged(r, c)
           \/ Transit(r, c)
           \/ \E first, lists \in BOOLEAN : LinkStatus(r, c, first, lists)
           \/ \E b \in Broadcasts : HearBroadcast(r, c, b)
           \/ \E m \in Messages : HearUnicast(r, c, m)
    \/ \E b \in Own : SendBroadcast(b)
    \/ \E b \in DOMAIN records :
           \/ QuorumHeard(b) \/ Exhausted(b)
           \/ \E leaves \in BOOLEAN : Copy(b, leaves)

ReceptionSpec == ReceptionInit /\ [][ReceptionNext]_receptionVars

-----------------------------------------------------------------------------
(* Properties *)

\* filter_broadcast: a broadcast passes the transaction table once, however many neighbours relay it,
\* our own ones never, and a restart does not let it pass again unless the startup wait is disabled.
BroadcastOnce == ~impatient => \A b \in Broadcasts : processed[b] <= (IF b \in Own THEN 0 ELSE 1)

\* "Our own broadcasts never reach this point": no copy of one is taken for a broadcast of a device
\* with our address, not even one from before a restart.
NoFalseConflict == ~conflict

\* passively_acked: a broadcast that counts as delivered within its window was transmitted by all of
\* its audience that is still alive, or by a quorum of it.
QuorumHonest == claims = {}

\* is_duplicate_aps_frame: between two starts a data frame reaches the application once, over any
\* number of retransmissions.
DeliveredOnce == \A x \in DOMAIN upper : upper[x] <= 1

\* note_inbound_frame_counter: the counter a sender must exceed is one that it used, so that none of
\* its next frames is refused.
CountersGenuine == \A r \in DOMAIN seen : seen[r] <= Last

\* "Filtering broadcast, stopping further processing": what the transaction table filters, and with
\* it every broadcast of our own, does not reach the application.
OwnBroadcastsStop == \A b \in Own : upper[b] = 0
=============================================================================
