------------------------------ MODULE Children ------------------------------
(***************************************************************************)
(* The children of the coordinator: the address map, the child entries of   *)
(* the neighbour table, associations and rejoins, the frames that await the  *)
(* poll of a sleepy child, keepalive deadlines and the task that evicts on   *)
(* them, address conflicts and the task that reports them, announcements,    *)
(* and the tables a client loads into a restarted stack.                     *)
(*                                                                          *)
(* Every end device here is a sleepy one.  A frame is handled in the step    *)
(* that receives it; what a device or another router sends is any sequence   *)
(* of such frames.  The two tasks run within a tick of the clock once they   *)
(* are woken or due; times are kept as what is left of them.  The link keys  *)
(* are TrustCenter's, the writes to the source match table are Radio's,      *)
(* routes are Mesh's.                                                        *)
(***************************************************************************)
EXTENDS Integers, FiniteSets, Functions

CONSTANTS
    Us,              \* our IEEE address
    End, Routers,    \* the IEEE addresses of the other devices
    Own,             \* our network address
    Addresses,       \* the network addresses that are assigned
    Announceable,    \* the network addresses a device may announce
    NoAddr,
    MaxChildren,     \* max_children
    Timeouts,        \* keepalive timeouts a child may negotiate
    DefaultTimeout,  \* end_device_timeout_default
    RestoredTimeout, \* RESTORED_CHILD_TIMEOUT
    Window,          \* broadcast_delivery_time
    Jitter,          \* max_broadcast_jitter
    Never,           \* stands for no deadline at all
    PerFrame,        \* PARENT_ANNCE_CHILDREN_PER_FRAME
    MaxEvents, MaxFrames, MaxTasklets   \* bounds

Devices == End \cup Routers

ASSUME ChildrenAssumption ==
    /\ Own \notin Addresses /\ NoAddr \notin Addresses \cup {Own}
    /\ Us \notin Devices /\ End \cap Routers = {}
    /\ {MaxChildren, DefaultTimeout, RestoredTimeout, Window, Jitter, PerFrame} \subseteq Nat \ {0}
    /\ {MaxEvents, MaxFrames, MaxTasklets} \subseteq Nat /\ Timeouts \subseteq Nat \ {0}
    /\ Never \in Nat /\ \A t \in Timeouts \cup {DefaultTimeout, RestoredTimeout, Jitter} : t < Never
    \* A report is due well within the window in which its conflict is handled once.
    /\ Jitter <= Window

VARIABLES
    map,         \* address_map: IEEE address to network address
    table,       \* neighbors: the entries of devices attached to us
    queue,       \* sends: the frames that await a poll
    written,     \* src_match_written: the addresses whose polls are told to wait for a frame
    joins,       \* tasklets: the follow-ups of joins
    conflicts,   \* address_conflicts
    reporter,    \* how long address_conflict_task sleeps
    reportWake,  \* address_conflict_wake
    keeper,      \* how long child_timeout_task sleeps
    keeperWake,  \* maintenance_wake
    announcing,  \* run_parent_annce: the children left to announce
    running,     \* start has run; before it a client loads the tables
    stored,      \* what the client saved when the stack stopped
    at, addr,    \* per device: where it is attached, and the address it uses
    announced,   \* the children we announced
    owed,        \* history: the conflicts we noticed and neither reported nor heard of since
    events       \* bound: what the network and the client did

parts   == <<map, table, queue, written, joins>>
tasks   == <<conflicts, reporter, reportWake, owed>>
keeping == <<keeper, keeperWake>>
client  == <<running, stored>>
air     == <<at, addr, announced, announcing>>
vars    == <<parts, tasks, keeping, client, air, events>>

Init ==
    /\ map = [d \in {Us} |-> Own]
    /\ table = [d \in {} |-> 0]
    /\ queue = {} /\ written = {} /\ joins = {}
    /\ conflicts = [n \in {} |-> 0] /\ owed = {}
    /\ reporter = 0 /\ reportWake = FALSE
    /\ keeper = 0 /\ keeperWake = FALSE
    /\ announcing = {} /\ announced = {}
    /\ running = TRUE
    /\ stored = [children |-> [d \in {} |-> 0], addresses |-> [d \in {} |-> 0]]
    /\ at = [d \in Devices |-> "out"]
    /\ addr = [d \in Devices |-> NoAddr]
    /\ events = 0

\* What the network and the client do to us is bounded; our own tasks, polls and time are not.
Spend ==
    /\ events < MaxEvents
    /\ events' = events + 1

-----------------------------------------------------------------------------
(* The address map *)

Owners(n) == {d \in DOMAIN map : map[d] = n}

\* claimed_by_other
ClaimedByOther(n, d) == n = Own \/ Owners(n) \ {d} # {}

Recorded(d, n) == [e \in DOMAIN map \cup {d} |-> IF e = d THEN n ELSE map[e]]

BugUpdateMapping(d, n) == Recorded(d, n)

\* update_mapping: a mapping that another device holds is left untouched.
UpdateMapping(d, n) == IF ClaimedByOther(n, d) THEN map ELSE Recorded(d, n)

\* update_mapping returns that the address is claimed twice.
Conflicting(d, n) == ~(d \in DOMAIN map /\ map[d] = n) /\ ClaimedByOther(n, d)

\* claim, with evict_other_owners: the announcer owns the address from now on.
Claim(d, n) == [e \in (DOMAIN map \ Owners(n)) \cup {d} |-> IF e = d THEN n ELSE map[e]]

\* forget_address
Forget(n) == Restrict(map, DOMAIN map \ Owners(n))

\* generate_unused: neither ours, nor mapped, nor in the neighbour table.
Unused(t) == {n \in Addresses : n # Own /\ Owners(n) = {} /\ \A d \in DOMAIN t : t[d].nwk # n}

\* allocate: the address a device had before, or an unused one.
Allocated(d) == IF d \in DOMAIN map THEN {map[d]} ELSE Unused(table)

-----------------------------------------------------------------------------
(* The neighbour table *)

\* end_device_child_eui64 and sleepy_child_eui64
ChildrenAt(t, n) == {d \in DOMAIN t \cap End : t[d].nwk = n}

\* end_device_child_count against max_children; a known device may always attach again.
NoRoomFor(d) == d \in End \ DOMAIN table /\ Cardinality(DOMAIN table \cap End) >= MaxChildren

Without(f, S) == Restrict(f, DOMAIN f \ S)

Least(S) == CHOOSE x \in S : \A y \in S : x <= y

\* upsert_child: the address and the timeout are new, the keepalive confirmation is kept.
Upsert(t, d, n, timeout) ==
    [e \in DOMAIN t \cup {d} |->
        IF e # d THEN t[e]
        ELSE [nwk |-> n, timeout |-> timeout, left |-> timeout,
              heard |-> d \in DOMAIN t /\ t[d].heard]]

\* refresh_child_timeout
Refreshed(d) == [table EXCEPT ![d].left = table[d].timeout, ![d].heard = TRUE]

\* set_child_timeout: a negotiation counts as a keepalive.
Negotiated(d, timeout) == [table EXCEPT ![d].timeout = timeout, ![d].left = timeout, ![d].heard = TRUE]

\* update_network_address: an entry follows the address its device announces.
Renamed(d, n) == IF d \in DOMAIN table THEN [table EXCEPT ![d].nwk = n] ELSE table

\* evict_timed_out_children
TimedOut == {d \in DOMAIN table \cap End : table[d].left <= 0}

\* next_child_timeout
NextDeadline(t) == Least({t[d].left : d \in DOMAIN t \cap End} \cup {Never})

\* process_parent_annce: of the announced children, the ones we never heard since a restart.
Unconfirmed(S) == {d \in S \cap DOMAIN table : ~table[d].heard}

\* remove_claimed: another router answered that these children are its own.
Claimed(S) == S \cap DOMAIN table

-----------------------------------------------------------------------------
(* The frames that await a poll *)

\* A frame awaiting the poll of a device (its IEEE address) or of an address, meant for a device.
Frame(to, kind, d, n) == [to |-> to, kind |-> kind, for |-> d, nwk |-> n]

BugAwaiting(d, n) == {f \in queue : f.to = n}

\* drop_indirect_unicasts: the frames awaiting a device under either of its addresses.
Awaiting(d, n) == {f \in queue : f.to = d \/ f.to = n}

\* poll_addresses
Wanted(q, m) == {f.to : f \in q} \cup {m[f.to] : f \in {g \in q : g.to \in DOMAIN m}}

\* The frames change to q and the tasklets to j: the source match table follows, and a join whose
\* response is no longer queued is over.
Queue(q, j) ==
    /\ Cardinality(q) <= MaxFrames
    /\ queue' = q
    /\ written' = IF q = queue THEN written ELSE Wanted(q, map')
    /\ joins' = {k \in j : k.stage = "queued" =>
                     \E f \in q : f.kind = "assoc" /\ f.for = k.device /\ f.nwk = k.nwk}

-----------------------------------------------------------------------------
(* Address conflicts *)

\* handle_address_conflict: a conflict is handled once per window.  A record past its window stands
\* for none at all; the code drops it a window later.
Suppressed(n) == n \in DOMAIN conflicts /\ conflicts[n].age < Window

Noted(n, source, jitter) ==
    IF Suppressed(n) THEN [conflicts EXCEPT ![n].heard = @ \/ source = "network"]
    ELSE [m \in {n} \cup {k \in DOMAIN conflicts : conflicts[k].age < Window} |->
            IF m # n THEN conflicts[m]
            ELSE [age |-> 0, heard |-> source = "network",
                  report |-> IF source = "local" THEN jitter ELSE Never]]

BugNotified(n, source) == FALSE

\* A conflict we noticed ourselves wakes the task that reports it.
Notified(n, source) == source = "local" /\ ~Suppressed(n)

\* reassign_child_address: the child is told its new address with an unsolicited rejoin response.
Reassignment(d, fresh) == Frame(d, "rejoin", d, fresh)

\* The frames q and the table t are what the handler that noticed the conflict made of them.  An end
\* device child is moved to a new address; that of any other device is forgotten until its owner
\* announces itself.
HandleConflict(n, source, t, q, j) ==
    /\ \E jitter \in 0 .. Jitter - 1 : conflicts' = Noted(n, source, jitter)
    /\ reportWake' = (reportWake \/ Notified(n, source))
    /\ owed' = IF source = "local" /\ ~Suppressed(n) THEN owed \cup {n} ELSE owed
    /\ \/ /\ Suppressed(n) \/ n = Own
          /\ map' = map
          /\ Queue(q, j)
       \/ /\ ~Suppressed(n) /\ n # Own
          /\ map' = map
          /\ \E d \in ChildrenAt(t, n), fresh \in Unused(t) :
                 Queue(q \cup {Reassignment(d, fresh)}, j)
       \/ /\ ~Suppressed(n) /\ n # Own /\ ChildrenAt(t, n) = {}
          /\ map' = Forget(n)
          /\ Queue(q, j)
    /\ UNCHANGED reporter

\* update_nwk_eui64_mapping
Learns(d, n, t, q, j) ==
    \/ /\ ~Conflicting(d, n)
       /\ map' = UpdateMapping(d, n)
       /\ Queue(q, j)
       /\ UNCHANGED tasks
    \/ /\ Conflicting(d, n)
       /\ HandleConflict(n, "local", t, q, j)

\* address_conflict_task: due reports are broadcast, unless somebody else reported the conflict, and
\* the task sleeps until the earliest report that is owed (drive_conflict_reports).
Report ==
    /\ running
    /\ reportWake \/ reporter <= 0
    /\ LET due == {n \in DOMAIN conflicts : conflicts[n].report <= 0} IN
       /\ conflicts' = [n \in DOMAIN conflicts |->
                           IF n \in due THEN [conflicts[n] EXCEPT !.report = Never] ELSE conflicts[n]]
       /\ owed' = owed \ due
    /\ reporter' = Least({conflicts'[n].report : n \in DOMAIN conflicts} \cup {Never})
    /\ reportWake' = FALSE
    /\ UNCHANGED <<parts, keeping, client, air, events>>

\* handle_network_status: another device reports an address conflict.
HearConflict(n) ==
    /\ running
    /\ HandleConflict(n, "network", table, queue, joins)
    /\ Spend
    /\ UNCHANGED <<table, keeping, client, air>>

-----------------------------------------------------------------------------
(* Children attach *)

BugWoken == keeperWake

\* A new deadline may come before everything child_timeout_task knows of.
Woken == TRUE

\* process_802154_association_request.  The response of an accepted join is queued by its tasklet.
Associate(d, permitted) ==
    /\ running /\ at[d] = "out"
    /\ Cardinality(joins) < MaxTasklets
    /\ \/ /\ ~permitted \/ NoRoomFor(d)
          /\ map' = map
          /\ Queue((queue \ Awaiting(d, NoAddr)) \cup {Frame(d, "denied", d, NoAddr)}, joins)
          /\ UNCHANGED <<table, tasks, keeperWake>>
       \/ /\ permitted /\ ~NoRoomFor(d)
          /\ \E n \in Allocated(d) :
                 /\ table' = Upsert(table, d, n, DefaultTimeout)
                 /\ Learns(d, n, table', queue, joins \cup {[device |-> d, nwk |-> n, stage |-> "start"]})
          /\ keeperWake' = Woken
    /\ Spend
    /\ UNCHANGED <<keeper, client, air>>

\* run_join: the response replaces whatever is queued for the joiner, and with it older tasklets.
QueueResponse(j) ==
    /\ running /\ j.stage = "start"
    /\ map' = map
    /\ Queue((queue \ Awaiting(j.device, j.nwk)) \cup {Frame(j.device, "assoc", j.device, j.nwk)},
             {k \in joins : k # j /\ ~(k.device = j.device /\ k.stage = "queued")}
                 \cup {[j EXCEPT !.stage = "queued"]})
    /\ UNCHANGED <<table, tasks, keeping, client, air, events>>

\* deliver_key_and_announce: the network key is delivered, or it is not and the device tries again.
DeliverKey(j, delivered) ==
    /\ running /\ j.stage = "key"
    /\ joins' = joins \ {j}
    /\ at' = IF delivered /\ addr[j.device] = j.nwk THEN [at EXCEPT ![j.device] = "us"] ELSE at
    /\ UNCHANGED <<map, table, queue, written, tasks, keeping, client, addr, announced, announcing, events>>

\* handle_rejoin_request: the device keeps the address it asks for unless another device has it.
Reassigned(d) == IF ClaimedByOther(addr[d], d) THEN Allocated(d) ELSE {addr[d]}

\* send_rejoin_response goes to the requested address: it awaits the poll of the sleepy child that
\* has this address, and is transmitted at once when there is none.
Rejoin(d, secured) ==
    /\ running /\ at[d] # "us" /\ addr[d] # NoAddr
    /\ Cardinality(joins) < MaxTasklets
    /\ \/ /\ NoRoomFor(d)
          /\ UNCHANGED <<parts, tasks, keeperWake, at, addr>>
       \/ /\ ~NoRoomFor(d)
          /\ keeperWake' = Woken
          /\ \E n \in Reassigned(d) :
                 LET j == IF secured THEN joins ELSE joins \cup {[device |-> d, nwk |-> n, stage |-> "key"]} IN
                 /\ table' = Upsert(table, d, n, DefaultTimeout)
                 /\ \/ /\ ChildrenAt(table', addr[d]) = {}
                       /\ Learns(d, n, table', queue, j)
                       /\ at' = IF secured THEN [at EXCEPT ![d] = "us"] ELSE [at EXCEPT ![d] = "out"]
                       /\ addr' = [addr EXCEPT ![d] = n]
                    \/ /\ \E c \in ChildrenAt(table', addr[d]) :
                             Learns(d, n, table', queue \cup {Frame(c, "rejoin", d, n)}, j)
                       /\ at' = [at EXCEPT ![d] = "out"]
                       /\ UNCHANGED addr
    /\ Spend
    /\ UNCHANGED <<keeper, client, announced, announcing>>

\* The client sends to an address: the frame waits when it is that of a sleepy child (poll_address).
HostSend(n) ==
    /\ running
    /\ map' = map
    /\ \E d \in ChildrenAt(table, n) : Queue(queue \cup {Frame(d, "data", d, n)}, joins)
    /\ Spend
    /\ UNCHANGED <<table, tasks, keeping, client, air>>

\* A frame nobody polled, or nobody acknowledged, is given up.
Expire(f) ==
    /\ map' = map
    /\ Queue(queue \ {f}, joins)
    /\ UNCHANGED <<table, tasks, keeping, client, air, events>>

-----------------------------------------------------------------------------
(* Children poll, renegotiate, leave *)

\* The device takes the frame its poll extracted: an association response or a rejoin response meant
\* for it brings its address, a leave makes it rejoin.
Extract(d, f) ==
    /\ map' = map
    /\ LET j == {k \in joins : k.stage = "queued" /\ f.kind = "assoc" /\ k.device = d /\ k.nwk = f.nwk}
       IN Queue(queue \ {f}, (joins \ j) \cup {[k EXCEPT !.stage = "key"] : k \in j})
    /\ addr' = IF f.for = d /\ f.kind \in {"assoc", "rejoin"} THEN [addr EXCEPT ![d] = f.nwk] ELSE addr
    /\ at' = IF f.for = d /\ f.kind = "rejoin" THEN [at EXCEPT ![d] = "us"]
             ELSE IF f.kind = "leave" THEN [at EXCEPT ![d] = "out"] ELSE at

\* handle_data_request: a device polls under its network address, or its IEEE address.
Poll(d, short) ==
    LET eui    == IF short THEN Owners(addr[d]) ELSE {d}
        nwk    == IF short THEN {addr[d]} ELSE IF d \in DOMAIN map THEN {map[d]} ELSE {}
        known  == IF eui \cap DOMAIN table # {} THEN eui \cap DOMAIN table
                  ELSE {e \in DOMAIN table : table[e].nwk \in nwk}
        \* The poll was told to wait only if its address was written.
        told   == (IF short THEN addr[d] ELSE d) \in written
        frames == IF told THEN {f \in queue : f.to \in eui \cup nwk} ELSE {}
    IN
    /\ running /\ at[d] # "other" /\ (short => addr[d] # NoAddr)
    /\ IF known = {} THEN table' = table ELSE \E e \in known : table' = Refreshed(e)
    /\ \/ \E f \in frames : Extract(d, f)
       \/ /\ frames = {}
          /\ map' = map
          \* queue_leave_for_stale_child
          /\ IF known = {} THEN Queue(queue \cup {Frame(n, "leave", d, n) :
                                         n \in {m \in nwk : ~\E f \in queue : f.to = m}}, joins)
             ELSE Queue(queue, joins)
          /\ UNCHANGED <<at, addr>>
    /\ UNCHANGED <<tasks, keeping, client, announced, announcing, events>>

\* handle_end_device_timeout_request
RequestTimeout(d, timeout) ==
    /\ running /\ at[d] = "us"
    /\ \E e \in ChildrenAt(table, addr[d]) :
           table' = Negotiated(e, timeout)
    /\ keeperWake' = Woken
    /\ Spend
    /\ UNCHANGED <<map, queue, written, joins, tasks, keeper, client, air>>

\* handle_leave
Leave(d) ==
    /\ running /\ at[d] = "us"
    /\ table' = Without(table, {d})
    /\ map' = map
    /\ Queue(queue \ Awaiting(d, addr[d]), joins)
    /\ at' = [at EXCEPT ![d] = "out"]
    /\ Spend
    /\ UNCHANGED <<tasks, keeping, client, addr, announced, announcing>>

\* evict_timed_out_children, cleanup_moved_child: these children are gone, and so are the frames
\* that await their polls.
Drop(S) ==
    /\ table' = Without(table, S)
    /\ map' = map
    /\ Queue(queue \ UNION {Awaiting(d, table[d].nwk) : d \in S}, joins)

\* child_timeout_task evicts the children whose deadline has passed and sleeps until the next one.
Evict ==
    /\ running
    /\ keeperWake \/ keeper <= 0
    /\ Drop(TimedOut)
    /\ keeper' = NextDeadline(table')
    /\ keeperWake' = FALSE
    /\ UNCHANGED <<tasks, client, air, events>>

-----------------------------------------------------------------------------
(* Announcements *)

\* handle_device_annce; an announcement without an IEEE address only evicts.
Announce(d) ==
    /\ running /\ at[d] # "out" /\ addr[d] \in Announceable
    /\ map' = Claim(d, addr[d])
    /\ table' = Renamed(d, addr[d])
    /\ Spend
    /\ UNCHANGED <<queue, written, joins, tasks, keeping, client, air>>

AnnounceUnknown(n) ==
    /\ running
    /\ map' = Forget(n)
    /\ Spend
    /\ UNCHANGED <<table, queue, written, joins, tasks, keeping, client, air>>

\* handle_decrypted_frame: a frame that carries the IEEE address of its source, a relayed frame of
\* our own among them.
Hear(d) ==
    /\ running
    /\ d # Us => at[d] # "out"
    /\ Learns(d, IF d = Us THEN Own ELSE addr[d], table, queue, joins)
    /\ Spend
    /\ UNCHANGED <<table, keeping, client, air>>

\* handle_update_device: a router reports a device of its own.
UpdateDevice(d) ==
    LET S == {d} \cap DOMAIN table IN
    /\ running /\ at[d] = "other"
    /\ table' = Without(table, S)
    /\ Learns(d, addr[d], table', queue \ UNION {Awaiting(e, table[e].nwk) : e \in S}, joins)
    /\ Spend
    /\ UNCHANGED <<keeping, client, air>>

\* handle_parent_annce: another router announces these children.
ParentAnnounced(S) ==
    /\ running
    /\ Drop(Unconfirmed(S))
    /\ Spend
    /\ UNCHANGED <<tasks, keeping, client, air>>

\* handle_parent_annce_rsp: another router keeps these children, which we announced.
ParentAnswered(S) ==
    /\ running
    /\ S \subseteq announced
    /\ Drop(Claimed(S))
    /\ Spend
    /\ UNCHANGED <<tasks, keeping, client, air>>

\* run_parent_annce: a frame of children; the ones that confirmed themselves need no announcement.
AnnounceChildren(chunk) ==
    /\ running /\ announcing # {}
    /\ chunk \subseteq announcing /\ Cardinality(chunk) <= PerFrame /\ chunk # {}
    /\ announced' = announced \cup chunk
    /\ announcing' = {d \in announcing \ chunk : d \in DOMAIN table /\ ~table[d].heard}
    /\ UNCHANGED <<parts, tasks, keeping, client, at, addr, events>>

-----------------------------------------------------------------------------
(* Devices, the client, and time *)

\* A device attaches to another router, which picks its address.
Move(d, n) ==
    /\ at' = [at EXCEPT ![d] = "other"]
    /\ addr' = [addr EXCEPT ![d] = n]
    /\ Spend
    /\ UNCHANGED <<parts, tasks, keeping, client, announced, announcing>>

\* The stack stops; the client has saved child_entries and address_entries.
Stop ==
    /\ running /\ Spend
    /\ stored' = [children  |-> [d \in DOMAIN table \cap End |-> table[d].nwk],
                  addresses |-> [d \in {e \in DOMAIN map : map[e] # Own} |-> map[d]]]
    /\ running' = FALSE
    /\ map' = [d \in {Us} |-> Own] /\ table' = [d \in {} |-> 0]
    /\ queue' = {} /\ written' = {} /\ joins' = {}
    /\ conflicts' = [n \in {} |-> 0] /\ owed' = {}
    /\ reporter' = 0 /\ reportWake' = FALSE /\ keeper' = 0 /\ keeperWake' = FALSE
    /\ announcing' = {} /\ announced' = {}
    /\ UNCHANGED <<at, addr>>

\* apply_address_cache, an entry at a time: nothing else runs before the start.
LoadAddress(d) ==
    /\ ~running /\ d \in DOMAIN stored.addresses
    /\ map' = UpdateMapping(d, stored.addresses[d])
    /\ stored' = [stored EXCEPT !.addresses = Without(@, {d})]
    /\ UNCHANGED <<table, queue, written, joins, tasks, keeping, running, air, events>>

\* apply_children
LoadChild(d) ==
    /\ ~running /\ d \in DOMAIN stored.children
    /\ table' = Upsert(table, d, stored.children[d], RestoredTimeout)
    /\ map' = UpdateMapping(d, stored.children[d])
    /\ stored' = [stored EXCEPT !.children = Without(@, {d})]
    /\ UNCHANGED <<queue, written, joins, tasks, keeping, running, air, events>>

Start ==
    /\ ~running /\ DOMAIN stored.children = {} /\ DOMAIN stored.addresses = {}
    /\ running' = TRUE
    /\ announcing' = DOMAIN table \cap End
    /\ UNCHANGED <<parts, tasks, keeping, stored, at, addr, announced, events>>

\* Time passes once the tasks have run.
Tick ==
    /\ running
    /\ ~reportWake /\ reporter > 0 /\ ~keeperWake /\ keeper > 0
    /\ LET Later(t) == IF t = Never THEN Never ELSE t - 1 IN
       /\ table' = [d \in DOMAIN table |->
                       IF d \in End THEN [table[d] EXCEPT !.left = @ - 1] ELSE table[d]]
       /\ conflicts' = [n \in DOMAIN conflicts |->
                           [conflicts[n] EXCEPT !.age = IF @ < Window THEN @ + 1 ELSE @,
                                                !.report = Later(@)]]
       /\ reporter' = Later(reporter) /\ keeper' = Later(keeper)
    /\ UNCHANGED <<map, queue, written, joins, reportWake, owed, keeperWake, client, air, events>>

-----------------------------------------------------------------------------
Next ==
    \/ Report \/ Evict \/ Stop \/ Start \/ Tick
    \/ \E n \in Addresses : HostSend(n)
    \/ \E n \in Announceable : HearConflict(n) \/ AnnounceUnknown(n)
    \/ \E j \in joins : QueueResponse(j) \/ \E delivered \in BOOLEAN : DeliverKey(j, delivered)
    \/ \E f \in queue : Expire(f)
    \/ \E d \in Devices \cup {Us} : Hear(d)
    \/ \E d \in Devices :
           \/ Leave(d) \/ Announce(d) \/ UpdateDevice(d)
           \/ LoadAddress(d) \/ LoadChild(d)
           \/ \E permitted \in BOOLEAN : Associate(d, permitted)
           \/ \E secured \in BOOLEAN : Rejoin(d, secured)
           \/ \E short \in BOOLEAN : Poll(d, short)
           \/ \E timeout \in Timeouts : RequestTimeout(d, timeout)
           \/ \E n \in Addresses : Move(d, n)
    \/ \E S \in SUBSET End \ {{}} : ParentAnnounced(S) \/ ParentAnswered(S) \/ AnnounceChildren(S)

Spec == Init /\ [][Next]_vars

-----------------------------------------------------------------------------
(* Properties *)

\* AddressMap, "the invariant that a network address has a single owner": through joins, rejoins,
\* announcements, conflicts and the loads of a restart.
SingleOwner == \A d, e \in DOMAIN map : map[d] = map[e] => d = e

\* child_timeout_task: no child outlives its deadline, because no sleep of the task is longer than
\* the deadlines that joins, rejoins, renegotiations and loads set while it sleeps.
EvictedOnTime == running => \A d \in DOMAIN table \cap End : table[d].left >= 0

\* handle_address_conflict and address_conflict_task: a conflict we noticed is reported when its
\* jitter has passed or was reported by another device, however often it is noticed or heard meanwhile.
ConflictsReported ==
    \A n \in owed : n \in DOMAIN conflicts /\ conflicts[n].report \in 0 .. Never - 1

\* drop_indirect_transactions on every path that ends a child: no frame keeps waiting for the poll of
\* a device that is not attached to us.
NoOrphanFrames == \A f \in queue : f.kind \in {"data", "rejoin"} => f.to \in DOMAIN table
=============================================================================
