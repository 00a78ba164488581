--------------------------- MODULE TrustCenter ---------------------------
(***************************************************************************)
(* The trust center of the coordinator: the link keys it keeps for each     *)
(* device, joins and rejoins that have the network key delivered, and the   *)
(* exchange in which a device asks for a key of its own and proves that it   *)
(* holds it.  The devices, the router some of them join through and the     *)
(* client that stores the keys are outside the repository: they do what the *)
(* handlers here expect of them.                                            *)
(*                                                                          *)
(* A message is read by whoever holds the key it is secured under; messages *)
(* are lost and overtake each other.  A handler is one step.  The follow-up *)
(* of a join is a tasklet: the key it sends is looked up when the tasklet   *)
(* runs, not when the join began.                                           *)
(***************************************************************************)
EXTENDS Naturals, FiniteSets

CONSTANTS
    Devices,
    AllowUnsecuredRejoins,    \* allow_unsecured_rejoins
    AllowUnencryptedUpdates,  \* allow_unencrypted_router_device_update
    MaxIssued,                \* bound: the link keys issued
    MaxRequests,              \* bound: the requests a device makes, each with its frame counter
    MaxResets,                \* bound: the factory resets
    MaxRestarts,              \* bound: the restarts of the stack
    MaxAir                    \* bound: the messages in flight

None     == <<"none">>
Global   == <<"global">>     \* the well-known key, global_link_key
Seed     == <<"seed">>       \* the key the TCLK seed derives for a device
Router   == <<"router">>     \* the unique key of the router
Code(d)  == <<"code", d>>    \* the key derived from the install code of a device
Fresh(n) == <<"fresh", n>>   \* the n-th random key

ASSUME TrustCenterAssumption ==
    /\ {AllowUnsecuredRejoins, AllowUnencryptedUpdates} \subseteq BOOLEAN
    /\ {MaxIssued, MaxRequests, MaxResets, MaxRestarts, MaxAir} \subseteq Nat

VARIABLES
    setup,     \* whether a TCLK seed is configured, and the link key each device is made with
    keys,      \* per device: its DeviceState, the key pair entry and the replay counter
    window,    \* the trust center authorizes joins
    joins,     \* the tasklets that deliver the network key
    mapped,    \* the devices whose network address is on the address map
    store,     \* per device: the link key the client has stored
    device,    \* per device: what it holds
    air,       \* the messages in flight
    issued,    \* the number of keys issued
    registered, \* history: the install codes registered since the last restart or exchange
    admitted,  \* history: the devices whose authorized join has not yet brought them the network key
    bounds     \* what the bounds count

vars == <<setup, keys, window, joins, mapped, store, device, air, issued, registered, admitted, bounds>>

Seeded == setup.seeded

Preconfigured == setup.factory

NoKeys == [key |-> None, provisional |-> FALSE, pending |-> None, counter |-> 0]

\* A device as it leaves the factory: its link key, a key it was sent and must prove, whether it
\* has joined and has the network key, how far the exchange is, and its outgoing frame counter.
New(d) == [key |-> Preconfigured[d], pending |-> None, member |-> FALSE, network |-> FALSE,
           phase |-> "idle", counter |-> 0]

Init ==
    /\ setup \in [seeded : BOOLEAN,
                 factory : {f \in [Devices -> {Global} \cup {Code(d) : d \in Devices}] :
                                \A d \in Devices : f[d] \in {Global, Code(d)}}]
    /\ keys = [d \in Devices |-> NoKeys]
    /\ window = FALSE
    /\ joins = {} /\ mapped = {} /\ air = {}
    /\ store = [d \in Devices |-> None]
    /\ device = [d \in Devices |-> New(d)]
    /\ issued = 0
    /\ registered = {} /\ admitted = {}
    /\ bounds = [resets |-> 0, restarts |-> 0]

-----------------------------------------------------------------------------
(* The key pair set *)

\* unkeyed_link_key: what a device without an entry shares with us.
Unkeyed == IF Seeded THEN Seed ELSE Global

\* device_link_key
DeviceLinkKey(s) == IF s.key # None THEN s.key ELSE Unkeyed

\* join_link_key: a joiner never holds a seed-derived key yet.
JoinLinkKey(s) == IF s.key # None THEN s.key ELSE Global

HasUniqueLinkKey(s) == s.key # None \/ Seeded

BugBeginJoin(s) == [s EXCEPT !.pending = None]

\* begin_join: only an install code's key outlives a fresh join.
BeginJoin(s) ==
    [s EXCEPT !.pending = None,
              !.key = IF s.provisional THEN @ ELSE None]

BugIssueDeviceKey(s, fresh) == [s EXCEPT !.key = fresh, !.provisional = FALSE]

\* issue_device_key: the new key is pending, the current one stays in use.
IssueDeviceKey(s, fresh) == [s EXCEPT !.pending = IF Seeded THEN Seed ELSE fresh]

\* verify_device_key: the pending key is proved first; without one, the current key is.
Verifies(s, key) == IF s.pending # None THEN s.pending = key ELSE s.key = key

VerifyDeviceKey(s, key) ==
    IF ~Verifies(s, key) THEN s
    ELSE [s EXCEPT !.key = key, !.pending = None, !.provisional = FALSE]

\* The entry of a device exists (verify_device_key finds a key to compare with).
OnRecord(s) == s.pending # None \/ s.key # None

\* decrypt_frame: the keys tried on a frame of the device.
Candidates(s) == {DeviceLinkKey(s), Global}

\* decrypt_frame: only a frame under a unique key is checked for replays, and moves the counter.
Decrypts(s, m) == m.under \in Candidates(s) /\ (m.under # Global => m.counter >= s.counter)

Counted(s, m) == IF m.under = Global THEN s ELSE [s EXCEPT !.counter = m.counter + 1]

-----------------------------------------------------------------------------
(* Messages *)

\* A command for or from a device, secured under a key, about something, and maybe naming a key.
Message(kind, d, under, about, key) ==
    [kind |-> kind, device |-> d, under |-> under, about |-> about, key |-> key, counter |-> 0]

Sent(messages) == air' = messages /\ Cardinality(messages) <= MaxAir

Took(m, messages) == Sent((air \ {m}) \cup messages)

-----------------------------------------------------------------------------
(* The client *)

PermitJoins(open) ==
    /\ window # open
    /\ window' = open
    /\ UNCHANGED <<setup, keys, joins, mapped, store, device, air, issued, registered, admitted, bounds>>

\* A device attaches one way at a time: what it or its router sent has arrived or is lost.
Idle(d) == ~device[d].network /\ ~\E m \in air : m.device = d

\* set_provisional_key: the install code of a device expected to join.
SetProvisionalKey(d) ==
    /\ Idle(d) /\ ~device[d].member /\ ~\E j \in joins : j.device = d
    /\ Preconfigured[d] = Code(d) /\ d \notin registered
    /\ keys' = [keys EXCEPT ![d].key = Code(d), ![d].provisional = TRUE]
    /\ registered' = registered \cup {d}
    /\ UNCHANGED <<setup, window, joins, mapped, store, device, air, issued, admitted, bounds>>

\* The stack restarts with the keys the client stored (apply_key_table, restore_device_key).
Restart ==
    /\ bounds.restarts < MaxRestarts
    /\ bounds' = [bounds EXCEPT !.restarts = @ + 1]
    /\ keys' = [d \in Devices |-> [NoKeys EXCEPT !.key = store[d]]]
    /\ window' = FALSE /\ joins' = {} /\ registered' = {}
    /\ UNCHANGED <<setup, mapped, store, device, air, issued, admitted>>

-----------------------------------------------------------------------------
(* Joins *)

\* The devices a fresh join begins for: link keys reset, an install code's key sent to the client.
FreshJoin(d) ==
    /\ keys' = [keys EXCEPT ![d] = BeginJoin(@)]
    /\ store' = IF keys[d].provisional THEN [store EXCEPT ![d] = keys[d].key] ELSE store
    /\ mapped' = mapped \cup {d}
    /\ admitted' = admitted \cup {d}

\* The network key as build_encrypted_network_key_transport secures it.
NetworkKey(d, kind, s) ==
    Message("network", d, IF kind = "new" THEN JoinLinkKey(s) ELSE DeviceLinkKey(s), kind, None)

\* Nobody polls the association response of a device any more: it expires.
Unpolled(d) == {j \in joins : j.device = d /\ j.kind = "new"}

\* process_802154_association_request: the device has no network; a retry replaces the response, and
\* with it the tasklet that waits for it.
Associate(d) ==
    /\ window /\ Idle(d) /\ ~device[d].member
    /\ FreshJoin(d)
    /\ joins' = (joins \ Unpolled(d)) \cup {[device |-> d, kind |-> "new"]}
    /\ UNCHANGED <<setup, window, device, air, issued, registered, bounds>>

BugMayRejoinUnsecured(d) == TRUE

\* may_rejoin_unsecured
MayRejoinUnsecured(d) == AllowUnsecuredRejoins \/ HasUniqueLinkKey(keys[d])

\* handle_rejoin_request without security: the device lost the network key.  Its address is mapped
\* and the response sent whether or not the key follows.
RejoinUnsecured(d) ==
    /\ Idle(d) /\ device[d].member
    /\ mapped' = mapped \cup {d}
    /\ joins' = IF MayRejoinUnsecured(d) THEN joins \cup {[device |-> d, kind |-> "rejoin"]} ELSE joins
    /\ UNCHANGED <<setup, keys, window, store, device, air, issued, registered, admitted, bounds>>

\* run_join and deliver_key_and_announce: the device, with nothing else under way, polled the
\* response, and the network key goes out.
DeliverKey(j) ==
    /\ Idle(j.device)
    /\ joins' = joins \ {j}
    /\ Sent(air \cup {NetworkKey(j.device, j.kind, keys[j.device])})
    /\ UNCHANGED <<setup, keys, window, mapped, store, device, issued, registered, admitted, bounds>>

\* A router reports a device, in a command it secures with its own link key or not at all: joined,
\* rejoined without or with the network key, or gone.
ReportDevice(d, status, secured) ==
    /\ CASE status = "join"    -> Idle(d) /\ ~device[d].member
         [] status = "rejoin"  -> Idle(d) /\ device[d].member
         [] status = "secured" -> device[d].network
         [] status = "left"    -> Idle(d)
    /\ Sent(air \cup {Message("update", d, IF secured THEN Router ELSE None, status, None)})
    /\ joins' = joins \ Unpolled(d)
    /\ UNCHANGED <<setup, keys, window, mapped, store, device, issued, registered, admitted, bounds>>

\* handle_update_device: the router shares a unique link key with us, and must use it.
UpdateAllowed(m) == m.under # None \/ AllowUnencryptedUpdates

HandleUpdateDevice(m) ==
    LET d == m.device IN
    /\ m.kind = "update"
    /\ \/ /\ \/ ~UpdateAllowed(m)
             \/ m.about = "join" /\ ~window
             \/ m.about = "rejoin" /\ ~MayRejoinUnsecured(d)
             \/ m.about = "left"
          /\ Took(m, {})
          /\ UNCHANGED <<keys, store, mapped, admitted>>
       \/ /\ UpdateAllowed(m) /\ m.about = "join" /\ window
          /\ FreshJoin(d)
          /\ Took(m, {NetworkKey(d, "new", BeginJoin(keys[d]))})
       \/ /\ UpdateAllowed(m) /\ m.about = "rejoin" /\ MayRejoinUnsecured(d)
          /\ mapped' = mapped \cup {d}
          /\ Took(m, {NetworkKey(d, "rejoin", keys[d])})
          /\ UNCHANGED <<keys, store, admitted>>
       \/ /\ UpdateAllowed(m) /\ m.about = "secured"
          /\ mapped' = mapped \cup {d}
          /\ Took(m, {})
          /\ UNCHANGED <<keys, store, admitted>>
    /\ UNCHANGED <<setup, window, joins, device, issued, registered, bounds>>

\* forget_address: an address conflict left the address of the device without an owner; its next
\* frame maps it again.
Remap(d) ==
    /\ device[d].network
    /\ mapped' = IF d \in mapped THEN mapped \ {d} ELSE mapped \cup {d}
    /\ UNCHANGED <<setup, keys, window, joins, store, device, air, issued, registered, admitted, bounds>>

-----------------------------------------------------------------------------
(* The exchange of a link key *)

HandleRequestKey(m) ==
    LET d      == m.device
        s      == keys[d]
        after  == Counted(s, m)
        fresh  == Fresh(issued + 1)
        new    == IssueDeviceKey(after, fresh)
    IN
    /\ m.kind = "request"
    /\ \/ /\ ~Decrypts(s, m)
          /\ Took(m, {})
          /\ UNCHANGED <<keys, issued>>
       \/ /\ Decrypts(s, m) /\ d \notin mapped
          /\ keys' = [keys EXCEPT ![d] = after]
          /\ Took(m, {})
          /\ UNCHANGED issued
       \/ /\ Decrypts(s, m) /\ d \in mapped
          /\ issued < MaxIssued /\ issued' = issued + 1
          /\ keys' = [keys EXCEPT ![d] = new]
          \* The reply is secured with the key that decrypted the request.
          /\ Took(m, {Message("link", d, m.under, "", IF Seeded THEN Seed ELSE fresh)})
    /\ UNCHANGED <<setup, window, joins, mapped, store, device, registered, admitted, bounds>>

\* handle_verify_key and send_confirm_key: a proved key is stored by the client.
HandleVerifyKey(m) ==
    LET d  == m.device
        ok == Verifies(keys[d], m.key)
        s  == VerifyDeviceKey(keys[d], m.key)
    IN
    /\ m.kind = "verify"
    /\ \/ /\ ~OnRecord(keys[d])
          /\ Took(m, {Message("confirm", d, None, "failed", None)})
          /\ UNCHANGED <<keys, store, registered>>
       \/ /\ OnRecord(keys[d])
          /\ keys' = [keys EXCEPT ![d] = s]
          /\ store' = IF ok THEN [store EXCEPT ![d] = DeviceLinkKey(s)] ELSE store
          /\ registered' = IF ok THEN registered \ {d} ELSE registered
          /\ Took(m, {Message("confirm", d, DeviceLinkKey(s), IF ok THEN "success" ELSE "failed", None)})
    /\ UNCHANGED <<setup, window, joins, mapped, device, issued, admitted, bounds>>

-----------------------------------------------------------------------------
(* The devices *)

Reads(d, m) == m.under \in {None, device[d].key, device[d].pending}

\* The device takes what it can read and expects: the network key while it has none, a link key it
\* asked for, the answer to its proof (a success is secured with the key it proved).
Takes(m) ==
    LET d    == m.device
        v    == device[d]
        reads == Reads(d, m)
    IN
    /\ m.kind \in {"network", "link", "confirm"}
    /\ device' = [device EXCEPT ![d] =
           CASE reads /\ m.kind = "network" -> [v EXCEPT !.network = TRUE, !.member = TRUE]
             [] reads /\ m.kind = "link" /\ v.phase = "requested" ->
                    [v EXCEPT !.pending = m.key, !.phase = "received"]
             [] m.kind = "confirm" /\ v.phase = "proving" /\ m.about = "success" /\ m.under = v.pending ->
                    [v EXCEPT !.key = v.pending, !.pending = None, !.phase = "idle"]
             [] reads /\ m.kind = "confirm" /\ v.phase = "proving" /\ m.about = "failed" ->
                    [v EXCEPT !.pending = None, !.phase = "idle"]
             [] OTHER -> v]
    /\ admitted' = IF reads /\ m.kind = "network" THEN admitted \ {d} ELSE admitted
    /\ Took(m, {})
    /\ UNCHANGED <<setup, keys, window, joins, mapped, store, issued, registered, bounds>>

\* The device asks for a link key, again while it waits for one; a new exchange begins when nothing
\* of the last one is in flight any more.
RequestKey(d) ==
    LET v == device[d] IN
    /\ v.network /\ v.counter < MaxRequests
    /\ \/ v.phase = "requested"
       \/ v.phase = "idle" /\ ~\E m \in air : m.device = d
    /\ device' = [device EXCEPT ![d].phase = "requested", ![d].counter = @ + 1]
    /\ Sent(air \cup {[Message("request", d, v.key, "", None) EXCEPT !.counter = v.counter]})
    /\ UNCHANGED <<setup, keys, window, joins, mapped, store, issued, registered, admitted, bounds>>

\* The device proves that it holds the key it was sent, again when the proof or the answer was lost.
VerifyKey(d) ==
    LET v == device[d] IN
    /\ v.network /\ v.phase \in {"received", "proving"}
    /\ ~\E m \in air : m.device = d /\ m.kind \in {"verify", "confirm"}
    /\ device' = [device EXCEPT ![d].phase = "proving"]
    /\ Sent(air \cup {Message("verify", d, None, "", v.pending)})
    /\ UNCHANGED <<setup, keys, window, joins, mapped, store, issued, registered, admitted, bounds>>

\* The device gives the exchange up before it proved anything.
GiveUp(d) ==
    /\ device[d].phase \in {"requested", "received"}
    /\ device' = [device EXCEPT ![d].phase = "idle", ![d].pending = None]
    /\ UNCHANGED <<setup, keys, window, joins, mapped, store, air, issued, registered, admitted, bounds>>

\* The device misses a change of the network key.
LoseNetworkKey(d) ==
    /\ device[d].network /\ device[d].phase = "idle" /\ bounds.resets < MaxResets
    /\ bounds' = [bounds EXCEPT !.resets = @ + 1]
    /\ device' = [device EXCEPT ![d].network = FALSE]
    /\ UNCHANGED <<setup, keys, window, joins, mapped, store, air, issued, registered, admitted>>

\* The device is reset and forgets everything but its frame counter.  The tasklet of a rejoin waits
\* for nothing before it builds the key: it has run by then.
FactoryReset(d) ==
    /\ bounds.resets < MaxResets
    /\ joins \subseteq Unpolled(d) \cup {j \in joins : j.device # d}
    /\ bounds' = [bounds EXCEPT !.resets = @ + 1]
    /\ device' = [device EXCEPT ![d] = [New(d) EXCEPT !.counter = device[d].counter]]
    /\ air' = {m \in air : m.device # d}
    /\ joins' = joins \ Unpolled(d)
    /\ UNCHANGED <<setup, keys, window, mapped, store, issued, registered, admitted>>

Lose(m) ==
    /\ Took(m, {})
    /\ UNCHANGED <<setup, keys, window, joins, mapped, store, device, issued, registered, admitted, bounds>>

-----------------------------------------------------------------------------
Next ==
    \/ \E open \in BOOLEAN : PermitJoins(open)
    \/ Restart
    \/ \E d \in Devices :
           \/ SetProvisionalKey(d) \/ Associate(d) \/ RejoinUnsecured(d) \/ Remap(d)
           \/ RequestKey(d) \/ VerifyKey(d) \/ GiveUp(d) \/ LoseNetworkKey(d) \/ FactoryReset(d)
           \/ \E status \in {"join", "rejoin", "secured", "left"}, secured \in BOOLEAN : ReportDevice(d, status, secured)
    \/ \E j \in joins : DeliverKey(j)
    \/ \E m \in air :
           HandleUpdateDevice(m) \/ HandleRequestKey(m) \/ HandleVerifyKey(m) \/ Takes(m) \/ Lose(m)

Spec == Init /\ [][Next]_vars

-----------------------------------------------------------------------------
(* Properties *)

\* issue_device_key to verify_device_key, "a device that never verifies is never stranded without a
\* usable key": whatever is lost, retried or overtaken, and across restarts, the trust center reads
\* what an on-network device secures with a key it holds.
NeverStranded ==
    \A d \in Devices : device[d].network =>
        {device[d].key, device[d].pending} \cap Candidates(keys[d]) # {}

\* begin_join and join_link_key: the network key sent to a joiner is secured with the key the joiner
\* left the factory with, also when the tasklet runs long after the join began; an install code is
\* registered again after a restart.
JoinerCanRead ==
    \A m \in air :
        /\ m.kind = "network" /\ m.about = "new"
        /\ Preconfigured[m.device] = Code(m.device) => m.device \in registered
        => m.under = Preconfigured[m.device]

\* handle_rejoin_request and handle_update_device, "so the network key is never exposed to anyone who
\* knows the well-known key": under that key it is only ever sent while an authorized join waits for
\* it, also when the key of the device changed between the check of a rejoin and its tasklet.
NetworkKeyGuarded ==
    \A m \in air :
        m.kind = "network" /\ m.under = Global => m.device \in admitted \/ AllowUnsecuredRejoins
=============================================================================
