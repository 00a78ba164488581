------------------------------- MODULE Sends -------------------------------
(***************************************************************************)
(* The send tables of the stack (ziggurat-zigbee/src/sends) and the async   *)
(* shell that drives them (ziggurat-driver/src/zigbee_stack/sends.rs and    *)
(* send_handle.rs): every outgoing frame, from admission to the two         *)
(* verdicts its waiter reads.                                               *)
(*                                                                          *)
(* The tables are guarded by the core lock, so a mutation is one action.    *)
(* What a mutation returns (its Actions) is carried out after the lock is   *)
(* released, one step at a time, and only then are the sender and the timer *)
(* woken: the actions of different tasks interleave.  owes and phase hold   *)
(* what each task has still to do.                                          *)
(*                                                                          *)
(* Time.  Every Instant is kept relative to the clock: a field deadline,    *)
(* at or nextAttempt is the time left until it, 0 once it has passed.       *)
(* "deadline <= now" is deadline = 0, and Elapse lets one unit pass.        *)
(***************************************************************************)
EXTENDS Integers, Sequences, FiniteSets

CONSTANTS
    MaxSends,             \* bound: the handlers admit sends while next_id is below it
    Handlers,             \* the tasks that call into the stack, besides its own two
    ShutdownAllowed,      \* whether the behaviours include a shutdown of the stack
    Devices,              \* the sleepy children
    AckKeys,              \* what an end-to-end APS ack is matched on
    Destinations,         \* the NWK addresses that may need a route discovery
    UnicastRequests,      \* the unicasts with a next hop the handlers send
    UnroutedRequests,     \* the unicasts without one
    BroadcastRequests,    \* the broadcasts
    RoutedPolls,          \* what a routed unicast's next hop polls under
    HandoffTimeout, PersistenceTime, AckTimeout,
    UnicastRetries, UnicastRetryDelay,
    PassiveAckTimeout, MaxBroadcastJitter, MaxBroadcastRetries,
    RreqRetryInterval, RreqRetries,
    RouteDiscoveryTime, RouteDiscoveryAttempts

VARIABLES
    nextId,        \* Sends.next_id
    unicasts,      \* Unicasts.records
    unrouted,      \* UnroutedUnicasts.records
    retries,       \* UnroutedUnicasts.retries
    broadcasts,    \* Broadcasts.records
    sender,        \* where sender_task is: ready, radio, parked or stopped
    loan,          \* the InFlight the sender holds
    timer,         \* where send_timer_task is: ready, parked or stopped
    armed,         \* the time left until the timer's own timeout, or Never
    sendWake,      \* the permit stored in send_wake
    timerWake,     \* the permit stored in send_timer_wake
    phase,         \* per task: idle, or what it has to notify once its actions are done
    owes,          \* per task: the Actions it has still to carry out, per send
    slots,         \* per admitted send: its SendSlot
    quorum,        \* the broadcasts whose passive-ack quorum has been heard
    routes,        \* the destinations with an Active route
    discovery,     \* per destination: the time left of a live discovery, 0 for none
    evidence       \* history: the sends the table learnt the mesh accepted

tables  == <<nextId, unicasts, unrouted, retries, broadcasts, slots>>
tasks   == <<sender, loan, timer, armed>>
wakes   == <<sendWake, timerWake>>
routing == <<routes, discovery>>
vars    == <<nextId, unicasts, unrouted, retries, broadcasts, sender, loan, timer, armed,
             sendWake, timerWake, phase, owes, slots, quorum, routes, discovery, evidence>>

-----------------------------------------------------------------------------
(* Values *)

NoSend == -1
Never  == -1

Priorities    == 0 .. 5             \* TxPriority, Background to StackCritical
UserNormal    == 2
StackCritical == 5

OnHandoff == "OnHandoff"            \* Confirm::OnHandoff; any other confirm is an ack key
NoPoll    == "NoPoll"               \* poll_address: None

Unset      == "Unset"
RadioError == "NwkNoAck"            \* any failure the radio reports for a transmit
Verdicts   == {"Ok", "HandoffTimeout", "ApsAckTimeout", "IndirectExpired",
               "RouteDiscoveryTimeout", "BroadcastQuorumNotReached", "Cancelled", RadioError}

Schedules == {"Once", "PassiveAck", "FixedInterval"}
Stages    == {"Queued", "Transmitting", "Retrying", "AwaitingPoll", "AwaitingApsAck"}
Copies    == {"Idle", "Queued", "Transmitting"}
Confirms  == AckKeys \cup {OnHandoff}
Polls     == Devices \cup {NoPoll}
Tasks     == {"sender", "timer"} \cup Handlers

UnicastRequest  == [priority : Priorities, confirm : Confirms, poll : Polls]
UnroutedRequest == [priority : Priorities, confirm : Confirms, destination : Destinations]

\* delay is the jitter before the first copy; children are the sleepy children that get a
\* unicast copy of one of our own 0xFFFF broadcasts.
BroadcastRequest ==
    [priority : Priorities, schedule : Schedules, delay : Nat, children : Seq(Devices)]

ASSUME NamesAssumption ==
    /\ OnHandoff \notin AckKeys
    /\ NoPoll \notin Devices
    /\ "sender" \notin Handlers /\ "timer" \notin Handlers

ASSUME RequestsAssumption ==
    /\ UnicastRequests \subseteq UnicastRequest
    /\ UnroutedRequests \subseteq UnroutedRequest
    /\ BroadcastRequests \subseteq BroadcastRequest
    /\ RoutedPolls \subseteq Polls
    /\ Destinations \subseteq Nat /\ IsFiniteSet(Destinations)
    /\ ShutdownAllowed \in BOOLEAN /\ MaxSends \in Nat

ASSUME DurationsAssumption ==
    /\ HandoffTimeout \in Nat /\ PersistenceTime \in Nat /\ AckTimeout \in Nat
    /\ UnicastRetryDelay \in Nat /\ PassiveAckTimeout \in Nat /\ MaxBroadcastJitter \in Nat
    /\ RreqRetryInterval \in Nat /\ RouteDiscoveryTime \in Nat

\* The counts are u8 tunables, settable to any value at run time.
ASSUME CountsAssumption ==
    /\ UnicastRetries \in 0 .. 255 /\ RouteDiscoveryAttempts \in 0 .. 255
    /\ MaxBroadcastRetries \in 0 .. 255 /\ RreqRetries \in 0 .. 255

Allocated == 0 .. nextId - 1

UnicastRecord ==
    [frame : BOOLEAN, priority : Priorities, confirm : Confirms, poll : Polls,
     attempts : 0 .. 255, stage : Stages, acked : BOOLEAN, at : Nat, deadline : Nat,
     copyOf : Int]

UnroutedRecord ==
    [priority : Priorities, confirm : Confirms, destination : Destinations, deadline : Nat]

BroadcastRecord ==
    [frame : BOOLEAN, priority : Priorities, schedule : Schedules, copies : 0 .. 255,
     nextAttempt : Nat, copy : Copies, handedOff : BOOLEAN, quorumHeard : BOOLEAN,
     lastError : {RadioError, Unset}, deadline : Nat]

\* What a batch of actions holds for one send: a HandedOff, then a Settled.
Owed == [handedOff : BOOLEAN, verdict : Verdicts \cup {Unset}]
Slot == [handedOff : Verdicts \cup {Unset}, delivered : Verdicts \cup {Unset}]

NoLoan    == [id |-> NoSend, transmit |-> "None"]
NoActions == [i \in {} |-> [handedOff |-> FALSE, verdict |-> Unset]]
HandoffOnly == [handedOff |-> TRUE, verdict |-> Unset]
FreshSlot == [handedOff |-> Unset, delivered |-> Unset]

Put(f, i, r)  == [j \in DOMAIN f \cup {i} |-> IF j = i THEN r ELSE f[j]]
Without(f, S) == [j \in DOMAIN f \ S |-> f[j]]
Dec(n)        == IF n > 0 THEN n - 1 ELSE 0
Lesser(m, n)  == IF m <= n THEN m ELSE n

Init ==
    /\ nextId = 0
    /\ unicasts = [i \in {} |-> 0]
    /\ unrouted = [i \in {} |-> 0]
    /\ retries = [d \in {} |-> 0]
    /\ broadcasts = [i \in {} |-> 0]
    /\ sender = "ready" /\ loan = NoLoan
    /\ timer = "ready" /\ armed = Never
    /\ sendWake = FALSE /\ timerWake = FALSE
    /\ phase = [t \in Tasks |-> "idle"]
    /\ owes = [t \in Tasks |-> NoActions]
    /\ slots = [i \in {} |-> FreshSlot]
    /\ quorum = {}
    /\ routes = {}
    /\ discovery = [d \in Destinations |-> 0]
    /\ evidence = {}

-----------------------------------------------------------------------------
(* Admission *)

\* commit_sends, up to the release of the core lock: the task's actions are now its own to
\* carry out, and its wakes (phase) come after them.
Commit(t, kind, acts) ==
    /\ phase' = [phase EXCEPT ![t] = kind]
    /\ owes' = [owes EXCEPT ![t] = acts]

\* Every admitted send gets an id and a slot.
Allocate(n) ==
    /\ nextId' = nextId + n
    /\ slots' = [i \in 0 .. nextId + n - 1 |-> IF i < nextId THEN slots[i] ELSE FreshSlot]

\* Unicasts::enqueue.  admitted is the time left of the deadline the send was admitted
\* with, Never if it is admitted now.
NewUnicast(request, admitted, copyOf) ==
    [frame |-> TRUE, priority |-> request.priority, confirm |-> request.confirm,
     poll |-> request.poll, attempts |-> UnicastRetries,
     stage |-> IF request.poll = NoPoll THEN "Queued" ELSE "AwaitingPoll",
     acked |-> FALSE, at |-> 0,
     deadline |-> IF request.poll = NoPoll
                  THEN IF admitted = Never THEN HandoffTimeout ELSE admitted
                  ELSE IF admitted = Never THEN PersistenceTime
                       ELSE Lesser(PersistenceTime, admitted),
     copyOf |-> copyOf]

\* The copies a schedule starts with: the retries tunable plus one, in a u8.  A Once
\* schedule has none, its only copy is queued at admission.
InitialCopies(schedule) ==
    CASE schedule = "Once" -> 0
      [] schedule = "PassiveAck" -> (MaxBroadcastRetries + 1) % 256
      [] schedule = "FixedInterval" -> (RreqRetries + 1) % 256

NewBroadcast(request) ==
    [frame |-> TRUE, priority |-> request.priority, schedule |-> request.schedule,
     copies |-> InitialCopies(request.schedule), nextAttempt |-> request.delay,
     copy |-> IF request.schedule = "Once" THEN "Queued" ELSE "Idle",
     handedOff |-> FALSE, quorumHeard |-> FALSE, lastError |-> Unset,
     deadline |-> HandoffTimeout]

\* broadcast_route_request: the broadcast that start_route_discovery enqueues.  Its first
\* copy is due at a clock read after the caller's own, so a timer pass that enqueues it
\* leaves the copy to the next pass.
RouteRequest ==
    NewBroadcast([priority |-> UserNormal, schedule |-> "FixedInterval", delay |-> 0])

\* send_unicast to a destination whose next hop is known, or any direct enqueue_unicast.
EnqueueUnicast(h, request) ==
    /\ phase[h] = "idle"
    /\ nextId < MaxSends
    /\ unicasts' = Put(unicasts, nextId, NewUnicast(request, Never, NoSend))
    /\ Allocate(1)
    /\ Commit(h, "commit", NoActions)
    /\ UNCHANGED <<unrouted, retries, broadcasts, tasks, wakes, quorum, routing, evidence>>

\* send_unicast when the next hop needs a discovery: the first unrouted send to a
\* destination starts it, later ones ride along.
SendUnrouted(h, request) ==
    LET d == request.destination IN
    /\ phase[h] = "idle"
    /\ nextId < MaxSends
    /\ d \notin routes
    /\ unrouted' = Put(unrouted, nextId,
           [priority |-> request.priority, confirm |-> request.confirm,
            destination |-> d, deadline |-> HandoffTimeout])
    /\ \/ /\ d \in DOMAIN retries
          /\ Allocate(1)
          /\ UNCHANGED <<retries, broadcasts, discovery>>
       \/ /\ d \notin DOMAIN retries
          /\ retries' = Put(retries, d, Dec(RouteDiscoveryAttempts))
          /\ broadcasts' = Put(broadcasts, nextId + 1, RouteRequest)
          /\ discovery' = [discovery EXCEPT ![d] = RouteDiscoveryTime]
          /\ Allocate(2)
    /\ Commit(h, "commit", NoActions)
    /\ UNCHANGED <<unicasts, tasks, wakes, quorum, routes, evidence>>

\* send_broadcast, send_oneshot_broadcast, broadcast_route_request and the relay of a
\* broadcast.  With nobody to relay it, the quorum counts as heard from the start.
EnqueueBroadcast(h, request) ==
    LET n == Len(request.children)
        copyIds == nextId + 1 .. nextId + n
        copy(i) == NewUnicast([priority |-> UserNormal, confirm |-> OnHandoff,
                               poll |-> request.children[i - nextId]], Never, nextId)
    IN
    /\ phase[h] = "idle"
    /\ nextId < MaxSends
    /\ broadcasts' = Put(broadcasts, nextId, NewBroadcast(request))
    /\ unicasts' = [i \in DOMAIN unicasts \cup copyIds |->
                       IF i \in copyIds THEN copy(i) ELSE unicasts[i]]
    /\ Allocate(n + 1)
    /\ \/ UNCHANGED quorum
       \/ /\ request.schedule = "PassiveAck"
          /\ quorum' = quorum \cup {nextId}
    /\ Commit(h, "commit", NoActions)
    /\ UNCHANGED <<unrouted, retries, tasks, wakes, routing, evidence>>

-----------------------------------------------------------------------------
(* The sender task *)

ReadyUnicasts   == {i \in DOMAIN unicasts :
                      unicasts[i].stage = "Queued" /\ unicasts[i].deadline > 0}
ReadyBroadcasts == {i \in DOMAIN broadcasts :
                      broadcasts[i].copy = "Queued" /\ broadcasts[i].deadline > 0}
Ready           == ReadyUnicasts \cup ReadyBroadcasts

PriorityOf(i) == IF i \in DOMAIN unicasts THEN unicasts[i].priority ELSE broadcasts[i].priority

\* Sends::dequeue takes the highest priority, and the oldest send within a priority.
Best(i) == \A j \in Ready : \/ PriorityOf(i) > PriorityOf(j)
                            \/ PriorityOf(i) = PriorityOf(j) /\ i <= j

\* The frame leaves its record, on loan to the radio.
LendUnicast(i) ==
    /\ i \in ReadyUnicasts
    /\ unicasts' = [unicasts EXCEPT ![i].stage = "Transmitting", ![i].acked = FALSE,
                                    ![i].frame = FALSE]
    /\ loan' = [id |-> i, transmit |-> "Unicast"]
    /\ UNCHANGED broadcasts

LendBroadcast(i) ==
    /\ i \in ReadyBroadcasts
    /\ broadcasts' = [broadcasts EXCEPT ![i].copy = "Transmitting", ![i].frame = FALSE]
    /\ loan' = [id |-> i, transmit |-> "Broadcast"]
    /\ UNCHANGED unicasts

SenderDequeues ==
    /\ sender = "ready" /\ phase["sender"] = "idle"
    /\ \E i \in Ready : Best(i) /\ (LendUnicast(i) \/ LendBroadcast(i))
    /\ sender' = "radio"
    /\ UNCHANGED <<nextId, unrouted, retries, slots, timer, armed, wakes, phase, owes, quorum,
                   routing, evidence>>

SenderParks ==
    /\ sender = "ready" /\ phase["sender"] = "idle"
    /\ Ready = {}
    /\ sender' = "parked"
    /\ UNCHANGED <<tables, loan, timer, armed, wakes, phase, owes, quorum, routing, evidence>>

SenderWakes ==
    /\ sender = "parked" /\ sendWake
    /\ sender' = "ready" /\ sendWake' = FALSE
    /\ UNCHANGED <<tables, loan, timer, armed, timerWake, phase, owes, quorum, routing, evidence>>

\* Variants named Bug... are plausible errors in the definition that follows them: the
\* properties are tested against them, no specification uses them.

\* The verdict settle reports for a record, and the handoff it repeats because the first
\* one may not have reached the waiter yet.
BugNoRepeat(u, verdict) == [handedOff |-> FALSE, verdict |-> verdict]
UnicastSettled(u, verdict) ==
    [handedOff |-> u.stage = "AwaitingApsAck", verdict |-> verdict]
BroadcastSettled(b, verdict) ==
    [handedOff |-> b.handedOff, verdict |-> verdict]

GotThrough(u, result) == result = "Ok" \/ u.acked

\* Unicasts::transmitted and handed_off.  An end-to-end ack that arrived meanwhile
\* overrules the radio's failure.  A send that got through goes on if its ack is still to
\* come; one that did not, if it can be polled for again or has attempts left.
GoesOn(u, result) ==
    IF GotThrough(u, result) THEN u.confirm # OnHandoff /\ ~u.acked
    ELSE IF u.poll = NoPoll THEN u.attempts > 0 ELSE u.deadline > 0

\* The record of a send that goes on: handed off and waiting for its ack, back to waiting
\* for a poll, or waiting out the retry delay.
UnicastReportRecord(u, result, delay) ==
    CASE result = "Ok" ->
            [u EXCEPT !.frame = TRUE, !.stage = "AwaitingApsAck", !.deadline = AckTimeout]
      [] result # "Ok" /\ u.poll # NoPoll ->
            [u EXCEPT !.frame = TRUE, !.stage = "AwaitingPoll"]
      [] result # "Ok" /\ u.poll = NoPoll ->
            [u EXCEPT !.frame = TRUE, !.stage = "Retrying", !.attempts = u.attempts - 1,
                      !.at = delay]

ReportUnicast(i, result, delay) ==
    LET u == unicasts[i]
        verdict == IF GotThrough(u, result) THEN "Ok" ELSE result IN
    /\ \/ /\ ~GoesOn(u, result)
          /\ unicasts' = Without(unicasts, {i})
          /\ Commit("sender", "commit", Put(NoActions, i, UnicastSettled(u, verdict)))
       \/ /\ GoesOn(u, result)
          /\ unicasts' = Put(unicasts, i, UnicastReportRecord(u, result, delay))
          /\ Commit("sender", "commit",
                    IF result = "Ok" THEN Put(NoActions, i, HandoffOnly) ELSE NoActions)
    /\ evidence' = IF GotThrough(u, result) THEN evidence \cup {i} ELSE evidence
    /\ UNCHANGED broadcasts

\* Broadcasts::transmitted: the copy is back and the next one is re-armed from now.
BroadcastReportRecord(b, result, interval) ==
    [b EXCEPT !.frame = TRUE, !.copy = "Idle", !.nextAttempt = interval,
              !.handedOff = b.handedOff \/ result = "Ok",
              !.lastError = IF result = "Ok" THEN b.lastError ELSE result]

ReportBroadcast(i, result, interval) ==
    LET b == broadcasts[i]
        c == BroadcastReportRecord(b, result, interval) IN
    /\ \/ /\ b.schedule = "Once"
          /\ broadcasts' = Without(broadcasts, {i})
          /\ Commit("sender", "commit", Put(NoActions, i, BroadcastSettled(b, result)))
       \/ /\ b.schedule # "Once" /\ c.quorumHeard /\ c.handedOff
          /\ broadcasts' = Without(broadcasts, {i})
          /\ Commit("sender", "commit", Put(NoActions, i, BroadcastSettled(c, "Ok")))
       \/ /\ b.schedule # "Once" /\ ~(c.quorumHeard /\ c.handedOff)
          /\ broadcasts' = Put(broadcasts, i, c)
          /\ Commit("sender", "commit",
                    IF result = "Ok" /\ ~b.handedOff
                    THEN Put(NoActions, i, HandoffOnly) ELSE NoActions)
    /\ evidence' = IF result = "Ok" THEN evidence \cup {i} ELSE evidence
    /\ UNCHANGED unicasts

\* How long a passive-ack or a fixed-interval schedule waits before its next copy.
Intervals(schedule) ==
    IF schedule = "PassiveAck"
    THEN PassiveAckTimeout .. PassiveAckTimeout + MaxBroadcastJitter
    ELSE {RreqRetryInterval}

\* The radio answers, within its own timeout, and the sender reports.
SenderReports(result) ==
    /\ sender = "radio" /\ phase["sender"] = "idle"
    /\ \/ /\ loan.transmit = "Unicast"
          /\ \E delay \in UnicastRetryDelay .. 2 * UnicastRetryDelay :
                ReportUnicast(loan.id, result, delay)
       \/ /\ loan.transmit = "Broadcast"
          /\ \E interval \in Intervals(broadcasts[loan.id].schedule) :
                ReportBroadcast(loan.id, result, interval)
    /\ sender' = "ready" /\ loan' = NoLoan
    /\ UNCHANGED <<nextId, unrouted, retries, slots, timer, armed, wakes, quorum, routing>>

-----------------------------------------------------------------------------
(* The timer task *)

\* broadcasts_awaiting_quorum, broadcast_delivered: a broadcast whose quorum was heard is
\* delivered, unless no copy is out yet or one is in the radio; then its next successful
\* report settles it.
QuorumDue(i) ==
    /\ broadcasts[i].schedule = "PassiveAck" /\ ~broadcasts[i].quorumHeard
    /\ i \in quorum
DeliveredNow(i) ==
    QuorumDue(i) /\ broadcasts[i].copy # "Transmitting" /\ broadcasts[i].handedOff
Heard(i) ==
    IF QuorumDue(i) THEN [broadcasts[i] EXCEPT !.quorumHeard = TRUE] ELSE broadcasts[i]

\* Broadcasts::schedule_due.
CopyDue(b) ==
    b.copy = "Idle" /\ b.schedule # "Once" /\ b.nextAttempt = 0 /\ b.copies > 0
ScheduleOver(b) ==
    b.copy = "Idle" /\ b.schedule # "Once" /\ b.nextAttempt = 0 /\ b.copies = 0

\* Broadcasts::handed_off_verdict.
HandedOffVerdict(b) ==
    IF b.schedule = "PassiveAck" THEN "BroadcastQuorumNotReached" ELSE "Ok"

\* Broadcasts::tick: the verdict of a schedule that ran out or a lapsed deadline.
BroadcastTickVerdict(b) ==
    IF ScheduleOver(b)
    THEN IF b.handedOff THEN HandedOffVerdict(b) ELSE b.lastError
    ELSE IF b.copy # "Transmitting" /\ b.deadline = 0
    THEN IF b.handedOff THEN HandedOffVerdict(b) ELSE "HandoffTimeout"
    ELSE Unset
BroadcastTickRecord(b) ==
    IF CopyDue(b) THEN [b EXCEPT !.copy = "Queued", !.copies = b.copies - 1] ELSE b

BugLapseInRadio(u) ==
    IF u.deadline > 0 THEN Unset
    ELSE IF u.stage = "AwaitingApsAck" THEN "ApsAckTimeout"
    ELSE IF u.poll = NoPoll THEN "HandoffTimeout" ELSE "IndirectExpired"
BugNoAckTimeout(u) ==
    IF u.deadline > 0 \/ u.stage \in {"Transmitting", "AwaitingApsAck"} THEN Unset
    ELSE IF u.poll = NoPoll THEN "HandoffTimeout" ELSE "IndirectExpired"

\* Unicasts::tick: Record::deadline_failure of a lapsed record, and a retry that is due.
UnicastTickVerdict(u) ==
    IF u.deadline > 0 \/ u.stage = "Transmitting" THEN Unset
    ELSE IF u.stage = "AwaitingApsAck" THEN "ApsAckTimeout"
    ELSE IF u.poll = NoPoll THEN "HandoffTimeout" ELSE "IndirectExpired"
UnicastTickRecord(u) ==
    IF u.stage = "Retrying" /\ u.at = 0 THEN [u EXCEPT !.stage = "Queued"] ELSE u

\* drive_sends looks at every destination with unrouted sends, lowest address first: its
\* route is known, or its discovery lapsed and is restarted or given up.  Routing one
\* destination fails the unrouted sends past their deadline, whatever their destination.
RoutedDests == DOMAIN retries \cap routes
LapsedDests == {d \in DOMAIN retries \ routes : discovery[d] = 0}
WaitsFor(i, d) ==
    /\ unrouted[i].destination = d
    /\ unrouted[i].deadline > 0 \/ \A e \in RoutedDests : e > d
RestartedDests == {d \in LapsedDests : retries[d] > 0 /\ \E i \in DOMAIN unrouted : WaitsFor(i, d)}
FailedDests    == LapsedDests \ RestartedDests

RoutedSends == {i \in DOMAIN unrouted :
                  unrouted[i].destination \in RoutedDests /\ unrouted[i].deadline > 0}

\* route_unicasts: a routed send becomes a unicast and keeps the deadline it was admitted
\* with.  poll is what its next hop polls under.
Routed(i, poll) ==
    NewUnicast([priority |-> unrouted[i].priority, confirm |-> unrouted[i].confirm, poll |-> poll],
               unrouted[i].deadline, NoSend)

\* What the pass makes of each send: its verdict, and its record if it has none.
UnicastPass(i, polls) ==
    IF i \in DOMAIN unicasts THEN unicasts[i] ELSE Routed(i, polls[unrouted[i].destination])
UnroutedVerdict(i) ==
    IF \E d \in FailedDests : WaitsFor(i, d) THEN "RouteDiscoveryTimeout"
    ELSE IF unrouted[i].deadline = 0 THEN "HandoffTimeout" ELSE Unset
BroadcastVerdict(i) ==
    IF DeliveredNow(i) THEN "Ok" ELSE BroadcastTickVerdict(Heard(i))

BugRetryUntimed(u) == u.deadline

\* Record::next_wake of the three tables, and the discoveries unrouted sends wait on.
UnicastWake(u) == IF u.stage = "Retrying" THEN Lesser(u.at, u.deadline) ELSE u.deadline
BroadcastWake(b) ==
    IF b.copy = "Idle" /\ b.schedule # "Once" THEN Lesser(b.nextAttempt, b.deadline) ELSE b.deadline
WakeTimes ==
    {UnicastWake(unicasts[i]) : i \in {j \in DOMAIN unicasts : unicasts[j].stage # "Transmitting"}}
    \cup {BroadcastWake(broadcasts[i]) :
             i \in {j \in DOMAIN broadcasts : broadcasts[j].copy # "Transmitting"}}
    \cup {unrouted[i].deadline : i \in DOMAIN unrouted}
    \cup {discovery[d] : d \in {e \in DOMAIN retries : discovery[e] > 0}}

\* The next wake is the earliest of these, Never if there is none.
ArmedFor(times) ==
    IF times = {} THEN {Never} ELSE {m \in times : \A x \in times : m <= x}

\* The ids of the route requests of the restarted discoveries, in the order of the pass.
RestartIds(ids) ==
    /\ \A d, e \in RestartedDests : d < e => ids[d] < ids[e]
    /\ \A k \in nextId .. nextId + Cardinality(RestartedDests) - 1 :
          \E d \in RestartedDests : ids[d] = k

\* The sends one pass settles, and how.
PassSends      == DOMAIN unicasts \cup RoutedSends
Lapsing(polls) == {i \in PassSends : UnicastTickVerdict(UnicastPass(i, polls)) # Unset}
Failing        == {i \in DOMAIN unrouted : UnroutedVerdict(i) # Unset}
Ending         == {i \in DOMAIN broadcasts : BroadcastVerdict(i) # Unset}
PassActions(polls) ==
    [i \in Lapsing(polls) \cup Failing \cup Ending |->
       IF i \in Lapsing(polls)
       THEN UnicastSettled(UnicastPass(i, polls), UnicastTickVerdict(UnicastPass(i, polls)))
       ELSE IF i \in Failing THEN [handedOff |-> FALSE, verdict |-> UnroutedVerdict(i)]
       ELSE BroadcastSettled(broadcasts[i], BroadcastVerdict(i))]

DriveSends ==
    /\ timer = "ready" /\ phase["timer"] = "idle"
    /\ \E polls \in [RoutedDests -> RoutedPolls] :
         /\ unicasts' = [i \in PassSends \ Lapsing(polls) |-> UnicastTickRecord(UnicastPass(i, polls))]
         /\ Commit("timer", "pass", PassActions(polls))
    /\ unrouted' = Without(unrouted, RoutedSends \cup Failing)
    /\ \E ids \in [RestartedDests -> nextId .. nextId + Cardinality(RestartedDests) - 1] :
         /\ RestartIds(ids)
         /\ broadcasts' = [i \in (DOMAIN broadcasts \ Ending) \cup {ids[d] : d \in RestartedDests} |->
                              IF i \in DOMAIN broadcasts THEN BroadcastTickRecord(Heard(i))
                              ELSE RouteRequest]
    /\ retries' = [d \in DOMAIN retries \ (RoutedDests \cup FailedDests) |->
                      IF d \in RestartedDests THEN retries[d] - 1 ELSE retries[d]]
    /\ discovery' = [d \in Destinations |->
                        IF d \in RestartedDests THEN RouteDiscoveryTime ELSE discovery[d]]
    /\ Allocate(Cardinality(RestartedDests))
    /\ armed' \in ArmedFor(WakeTimes')
    /\ timer' = "parked"
    /\ UNCHANGED <<sender, loan, wakes, quorum, routes, evidence>>

\* The timer sleeps until its deadline or its wake, whichever it sees first.
TimerWakes ==
    /\ timer = "parked" /\ phase["timer"] = "idle"
    /\ \/ timerWake /\ timerWake' = FALSE
       \/ armed = 0 /\ UNCHANGED timerWake
    /\ timer' = "ready" /\ armed' = Never
    /\ UNCHANGED <<tables, sender, loan, sendWake, phase, owes, quorum, routing, evidence>>

-----------------------------------------------------------------------------
(* What the other tasks do to the tables *)

\* handle_data_request from a device the radio told to keep listening.
Poll(h, device) ==
    LET due == {i \in DOMAIN unicasts :
                  /\ unicasts[i].poll = device /\ unicasts[i].stage = "AwaitingPoll"
                  /\ unicasts[i].deadline > 0} IN
    /\ phase[h] = "idle"
    /\ unicasts' = [i \in DOMAIN unicasts |->
                       IF i \in due /\ \A j \in due : i <= j
                       THEN [unicasts[i] EXCEPT !.stage = "Queued", !.priority = StackCritical]
                       ELSE unicasts[i]]
    /\ Commit(h, "commit", NoActions)
    /\ UNCHANGED <<nextId, unrouted, retries, broadcasts, slots, tasks, wakes, quorum, routing,
                   evidence>>

\* handle_aps_ack: the oldest send with this key, whatever its stage.
AckReceived(h, key) ==
    LET waiting == {i \in DOMAIN unicasts : unicasts[i].confirm = key}
        oldest  == {i \in waiting : \A j \in waiting : i <= j}
        flying  == {i \in oldest : unicasts[i].stage = "Transmitting"}
        settled == oldest \ flying IN
    /\ phase[h] = "idle"
    /\ unicasts' = [i \in DOMAIN unicasts \ settled |->
                       IF i \in flying THEN [unicasts[i] EXCEPT !.acked = TRUE] ELSE unicasts[i]]
    /\ Commit(h, "commit", [i \in settled |-> UnicastSettled(unicasts[i], "Ok")])
    /\ evidence' = evidence \cup settled
    /\ UNCHANGED <<nextId, unrouted, retries, broadcasts, slots, tasks, wakes, quorum, routing>>

\* drop_indirect_transactions: the device is no longer a child.
DropIndirect(h, device) ==
    LET dropped == {i \in DOMAIN unicasts :
                      unicasts[i].poll = device /\ unicasts[i].stage = "AwaitingPoll"} IN
    /\ phase[h] = "idle"
    /\ unicasts' = Without(unicasts, dropped)
    /\ Commit(h, "commit", [i \in dropped |-> UnicastSettled(unicasts[i], "IndirectExpired")])
    /\ UNCHANGED <<nextId, unrouted, retries, broadcasts, slots, tasks, wakes, quorum, routing,
                   evidence>>

\* Sends::cancel of a unicast with a next hop: refused while it is in the radio.  Nobody
\* has the id of a sleepy child's copy.
CancelUnicast(h, i) ==
    /\ phase[h] = "idle"
    /\ i \in DOMAIN unicasts /\ unicasts[i].copyOf = NoSend
    /\ unicasts[i].stage # "Transmitting"
    /\ unicasts' = Without(unicasts, {i})
    /\ Commit(h, "commit", Put(NoActions, i, UnicastSettled(unicasts[i], "Cancelled")))
    /\ UNCHANGED <<nextId, unrouted, retries, broadcasts, slots, tasks, wakes, quorum, routing,
                   evidence>>

\* The destination stays awaited: its discovery lapses on its own.
CancelUnrouted(h, i) ==
    /\ phase[h] = "idle"
    /\ i \in DOMAIN unrouted
    /\ unrouted' = Without(unrouted, {i})
    /\ Commit(h, "commit", Put(NoActions, i, [handedOff |-> FALSE, verdict |-> "Cancelled"]))
    /\ UNCHANGED <<nextId, unicasts, retries, broadcasts, slots, tasks, wakes, quorum, routing,
                   evidence>>

BugOnlyQueuedCopies(i) ==
    {j \in DOMAIN unicasts : unicasts[j].copyOf = i /\ unicasts[j].stage = "Queued"}
CopiesOf(i) == {j \in DOMAIN unicasts : unicasts[j].copyOf = i}

\* A broadcast goes with its sleepy children's copies, or not at all.  The stack keeps no
\* handle on the one-shots, route requests and relays it sends on its own account.
CancelBroadcast(h, i) ==
    LET copies == CopiesOf(i) IN
    /\ phase[h] = "idle"
    /\ i \in DOMAIN broadcasts /\ broadcasts[i].schedule = "PassiveAck"
    /\ \A j \in copies : unicasts[j].stage # "Transmitting"
    /\ broadcasts[i].copy # "Transmitting"
    /\ broadcasts' = Without(broadcasts, {i})
    /\ unicasts' = Without(unicasts, copies)
    /\ Commit(h, "commit",
              [j \in copies \cup {i} |->
                 IF j = i THEN BroadcastSettled(broadcasts[i], "Cancelled")
                 ELSE UnicastSettled(unicasts[j], "Cancelled")])
    /\ UNCHANGED <<nextId, unrouted, retries, slots, tasks, wakes, quorum, routing, evidence>>

\* filter_broadcast: a relayed copy completes the quorum of one of our broadcasts.
RelayHeard(h, i) ==
    /\ phase[h] = "idle"
    /\ i \in DOMAIN broadcasts /\ broadcasts[i].schedule = "PassiveAck"
    /\ quorum' = quorum \cup {i}
    /\ Commit(h, "timer", NoActions)
    /\ UNCHANGED <<tables, tasks, wakes, routing, evidence>>

\* A route reply or a route request establishes a route; a relayed request also starts a
\* discovery the destination's sends can ride on.  Only destinations that sends wait for
\* matter here: any other send goes through EnqueueUnicast.
RouteEstablished(h, d) ==
    /\ phase[h] = "idle"
    /\ d \in DOMAIN retries
    /\ \/ routes' = routes \cup {d} /\ UNCHANGED discovery
       \/ discovery' = [discovery EXCEPT ![d] = RouteDiscoveryTime] /\ UNCHANGED routes
    /\ Commit(h, "timer", NoActions)
    /\ UNCHANGED <<tables, tasks, wakes, quorum, evidence>>

\* A network status, a failed delivery or an evicted neighbor takes a route away.
RouteLost(d) ==
    /\ d \in routes
    /\ routes' = routes \ {d}
    /\ UNCHANGED <<tables, tasks, wakes, phase, owes, quorum, discovery, evidence>>

\* shutdown: the sender and the timer are cancelled where they await, then the tables are
\* abandoned and every waiter is failed.  A handler that got hold of the stack earlier is
\* not stopped.
Shutdown(h) ==
    /\ ShutdownAllowed
    /\ phase[h] = "idle"
    /\ sender \in {"radio", "parked"} /\ phase["sender"] = "idle"
    /\ timer = "parked" /\ phase["timer"] = "idle"
    /\ sender' = "stopped" /\ timer' = "stopped" /\ loan' = NoLoan /\ armed' = Never
    /\ unicasts' = Without(unicasts, DOMAIN unicasts)
    /\ unrouted' = Without(unrouted, DOMAIN unrouted)
    /\ broadcasts' = Without(broadcasts, DOMAIN broadcasts)
    /\ retries' = Without(retries, DOMAIN retries)
    /\ Commit(h, "drain",
              [i \in DOMAIN unicasts \cup DOMAIN unrouted \cup DOMAIN broadcasts |->
                 [handedOff |-> FALSE, verdict |-> "Cancelled"]])
    /\ UNCHANGED <<nextId, slots, wakes, quorum, routing, evidence>>

-----------------------------------------------------------------------------
(* Carrying out the actions, and time *)

\* SendSlot::handed_off.
RunHandedOff(t, i) ==
    /\ i \in DOMAIN owes[t] /\ owes[t][i].handedOff
    /\ slots' = [slots EXCEPT ![i].handedOff = IF @ = Unset THEN "Ok" ELSE @]
    /\ owes' = [owes EXCEPT ![t] =
                   IF owes[t][i].verdict = Unset THEN Without(owes[t], {i})
                   ELSE Put(owes[t], i, [handedOff |-> FALSE, verdict |-> owes[t][i].verdict])]
    /\ UNCHANGED <<nextId, unicasts, unrouted, retries, broadcasts, tasks, wakes, phase, quorum,
                   routing, evidence>>

BugHandoffOverwritten(t, i) ==
    /\ i \in DOMAIN owes[t] /\ ~owes[t][i].handedOff
    /\ slots' = [slots EXCEPT ![i].handedOff = owes[t][i].verdict,
                              ![i].delivered = owes[t][i].verdict]
    /\ owes' = [owes EXCEPT ![t] = Without(owes[t], {i})]
    /\ UNCHANGED <<nextId, unicasts, unrouted, retries, broadcasts, tasks, wakes, phase, quorum,
                   routing, evidence>>

\* SendSlot::settled: the verdict also back-fills a handoff still unset.
RunSettled(t, i) ==
    /\ i \in DOMAIN owes[t] /\ ~owes[t][i].handedOff
    /\ slots' = [slots EXCEPT ![i].handedOff = IF @ = Unset THEN owes[t][i].verdict ELSE @,
                              ![i].delivered = owes[t][i].verdict]
    /\ owes' = [owes EXCEPT ![t] = Without(owes[t], {i})]
    /\ UNCHANGED <<nextId, unicasts, unrouted, retries, broadcasts, tasks, wakes, phase, quorum,
                   routing, evidence>>

RunAction(t) == \E i \in DOMAIN owes[t] : RunHandedOff(t, i) \/ RunSettled(t, i)

BugSenderNotWoken(t) ==
    /\ phase[t] # "idle" /\ DOMAIN owes[t] = {}
    /\ sendWake' = (sendWake \/ phase[t] = "pass")
    /\ timerWake' = (timerWake \/ phase[t] \in {"commit", "timer"})
    /\ phase' = [phase EXCEPT ![t] = "idle"]
    /\ UNCHANGED <<tables, tasks, owes, quorum, routing, evidence>>

\* The wakes that end run_send_actions and commit_sends.  The timer's own pass does not
\* wake the timer.
FinishCommit(t) ==
    /\ phase[t] # "idle" /\ DOMAIN owes[t] = {}
    /\ sendWake' = (sendWake \/ phase[t] \in {"commit", "pass"})
    /\ timerWake' = (timerWake \/ phase[t] \in {"commit", "timer"})
    /\ phase' = [phase EXCEPT ![t] = "idle"]
    /\ UNCHANGED <<tables, tasks, owes, quorum, routing, evidence>>

Elapse ==
    /\ unicasts' = [i \in DOMAIN unicasts |->
          [unicasts[i] EXCEPT !.deadline = Dec(@), !.at = Dec(@)]]
    /\ unrouted' = [i \in DOMAIN unrouted |-> [unrouted[i] EXCEPT !.deadline = Dec(@)]]
    /\ broadcasts' = [i \in DOMAIN broadcasts |->
          [broadcasts[i] EXCEPT !.deadline = Dec(@), !.nextAttempt = Dec(@)]]
    /\ discovery' = [d \in Destinations |-> Dec(discovery[d])]
    /\ armed' = IF armed = Never THEN Never ELSE Dec(armed)
    /\ UNCHANGED <<nextId, retries, slots, sender, loan, timer, wakes, phase, owes, quorum,
                   routes, evidence>>

-----------------------------------------------------------------------------
SenderStep == SenderDequeues \/ SenderParks \/ SenderWakes
TimerStep  == DriveSends \/ TimerWakes

HandlerStep(h) ==
    \/ \E r \in UnicastRequests : EnqueueUnicast(h, r)
    \/ \E r \in UnroutedRequests : SendUnrouted(h, r)
    \/ \E r \in BroadcastRequests : EnqueueBroadcast(h, r)
    \/ \E device \in Devices : Poll(h, device) \/ DropIndirect(h, device)
    \/ \E key \in AckKeys : AckReceived(h, key)
    \/ \E i \in Allocated : CancelUnicast(h, i) \/ CancelUnrouted(h, i) \/ CancelBroadcast(h, i)
    \/ \E i \in Allocated : RelayHeard(h, i)
    \/ \E d \in Destinations : RouteEstablished(h, d)
    \/ Shutdown(h)

Next ==
    \/ SenderStep
    \/ \E result \in {"Ok", RadioError} : SenderReports(result)
    \/ TimerStep
    \/ \E h \in Handlers : HandlerStep(h)
    \/ \E t \in Tasks : RunAction(t) \/ FinishCommit(t)
    \/ \E d \in Destinations : RouteLost(d)
    \/ Elapse

Spec == Init /\ [][Next]_vars

\* The executor runs every task that is ready, the radio reports within its own timeout,
\* a task that released the lock finishes its batch, and time goes on.
Fairness ==
    /\ WF_vars(SenderStep)
    /\ WF_vars(\E result \in {"Ok", RadioError} : SenderReports(result))
    /\ WF_vars(TimerStep)
    /\ \A t \in Tasks : WF_vars(RunAction(t) \/ FinishCommit(t))
    /\ WF_vars(Elapse)

FairSpec == Spec /\ Fairness

-----------------------------------------------------------------------------
(* Properties *)

\* The sends whose waiters have their verdict, and those still in the tables.
Settled     == {i \in DOMAIN slots : slots[i].delivered # Unset}
LiveSends   == DOMAIN unicasts \cup DOMAIN unrouted \cup DOMAIN broadcasts

TablesOK ==
    /\ nextId \in Nat
    /\ DOMAIN unicasts \subseteq Allocated /\ unicasts \in [DOMAIN unicasts -> UnicastRecord]
    /\ DOMAIN unrouted \subseteq Allocated /\ unrouted \in [DOMAIN unrouted -> UnroutedRecord]
    /\ DOMAIN broadcasts \subseteq Allocated
    /\ broadcasts \in [DOMAIN broadcasts -> BroadcastRecord]
    /\ DOMAIN retries \subseteq Destinations /\ retries \in [DOMAIN retries -> 0 .. 255]
    /\ slots \in [Allocated -> Slot]

TasksOK ==
    /\ sender \in {"ready", "radio", "parked", "stopped"}
    /\ loan \in [id : Nat \cup {NoSend}, transmit : {"None", "Unicast", "Broadcast"}]
    /\ timer \in {"ready", "parked", "stopped"}
    /\ armed \in Nat \cup {Never}
    /\ sendWake \in BOOLEAN /\ timerWake \in BOOLEAN

BatchesOK ==
    /\ phase \in [Tasks -> {"idle", "commit", "pass", "timer", "drain"}]
    /\ owes = [t \in Tasks |-> owes[t]]
    /\ \A t \in Tasks : /\ DOMAIN owes[t] \subseteq Allocated
                       /\ owes[t] \in [DOMAIN owes[t] -> Owed]

EnvironmentOK ==
    /\ quorum \subseteq Allocated
    /\ routes \subseteq Destinations
    /\ discovery \in [Destinations -> Nat]
    /\ evidence \subseteq Allocated

\* Ids are allocated, records are of their type, counts fit a u8: the attempts and copies
\* the tables count down never underflow.
TypeOK == TablesOK /\ TasksOK /\ BatchesOK /\ EnvironmentOK

\* The frame on loan to the radio is that of exactly one record, still in its table and
\* marked transmitting, and every other record holds its frame: what the expect and
\* unreachable of transmitted, and the expect of settle, take for granted while acks,
\* polls, cancellations and the timer run beside the transmit.
LoanIntact ==
    /\ \A i \in DOMAIN unicasts :
          /\ unicasts[i].stage = "Transmitting" <=> loan = [id |-> i, transmit |-> "Unicast"]
          /\ unicasts[i].frame <=> unicasts[i].stage # "Transmitting"
    /\ \A i \in DOMAIN broadcasts :
          /\ broadcasts[i].copy = "Transmitting" <=> loan = [id |-> i, transmit |-> "Broadcast"]
          /\ broadcasts[i].frame <=> broadcasts[i].copy # "Transmitting"
    /\ sender = "radio" => \/ loan.transmit = "Unicast" /\ loan.id \in DOMAIN unicasts
                           \/ loan.transmit = "Broadcast" /\ loan.id \in DOMAIN broadcasts
    /\ sender # "radio" => loan = NoLoan

\* What a waiter reads as its handoff agrees with what the table learnt: it says Ok if and
\* only if a copy went on air or the destination acked.  The handoff and the verdict can
\* be in the batches of two tasks, so settle repeats the handoff.
HandoffTruthful ==
    \A i \in DOMAIN slots :
       slots[i].handedOff # Unset => (slots[i].handedOff = "Ok" <=> i \in evidence)

\* The sender never sleeps while a frame is ready, unless a task is about to wake it.
SenderNeverSleepsOnWork ==
    sender = "parked" /\ Ready # {}
       => sendWake \/ \E t \in Tasks : phase[t] \in {"commit", "pass"}

\* Whatever a pass of the timer would do right now: retries, copies, deadlines, quorums,
\* routes and lapsed discoveries.
DueNow ==
    \/ \E i \in DOMAIN unicasts : \/ UnicastTickVerdict(unicasts[i]) # Unset
                                  \/ UnicastTickRecord(unicasts[i]) # unicasts[i]
    \/ \E i \in DOMAIN broadcasts : \/ BroadcastVerdict(i) # Unset
                                    \/ BroadcastTickRecord(Heard(i)) # broadcasts[i]
    \/ \E i \in DOMAIN unrouted : unrouted[i].deadline = 0
    \/ RoutedDests \cup LapsedDests # {}

\* The timer never sleeps while a pass has something to do, unless its own timeout is due
\* or a task is about to wake it: no deadline, copy, quorum, route or discovery is missed
\* because next_wake left it out or moved without a wake.
TimerNeverOversleeps ==
    /\ timer = "parked" /\ ~timerWake
    /\ \A t \in Tasks : phase[t] \notin {"commit", "timer"}
    /\ DueNow
    => armed = 0

\* A held send always has a destination the timer watches: otherwise no route and no
\* lapsed discovery would ever release it.
HeldSendsAreWatched ==
    \A i \in DOMAIN unrouted : unrouted[i].destination \in DOMAIN retries

\* A cancelled broadcast takes its sleepy children's copies with it: none is left to be
\* transmitted at the child's next poll.
CancelTakesCopies ==
    \A i \in DOMAIN unicasts :
       unicasts[i].copyOf # NoSend =>
          /\ slots[unicasts[i].copyOf].delivered # "Cancelled"
          /\ \A t \in Tasks : unicasts[i].copyOf \in DOMAIN owes[t] =>
                owes[t][unicasts[i].copyOf].verdict # "Cancelled"

\* "Every record carries a deadline, so no send can be stranded": every admitted send is
\* settled in the end, the copies and route requests it brought along too.
EverySendSettles ==
    \A i \in 0 .. MaxSends + 1 : (nextId > i) ~> (i \in Settled)

\* Seen through its slots, the stack is the contract its callers rely on: whichever tasks
\* race to report, a handoff is written before or with the delivery, and a verdict a
\* waiter may have read is never overwritten.
Contract == INSTANCE SendContract WITH slots <- slots
ImplementsContract == Contract!Spec
=============================================================================
