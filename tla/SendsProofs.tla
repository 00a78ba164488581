---------------------------- MODULE SendsProofs ----------------------------
(* Theorems about Sends, for every number of tasks, sends, devices, routes and *)
(* every value of the tunables.                                               *)
EXTENDS Sends, FiniteSetTheorems, TLAPS

-----------------------------------------------------------------------------
(* The helpers that build records *)

\* Unicasts::enqueue builds a well-formed record.
LEMMA NewUnicastType ==
    ASSUME NEW r \in UnicastRequest, NEW admitted \in Nat \cup {Never}, NEW c \in Int
    PROVE  NewUnicast(r, admitted, c) \in UnicastRecord
  BY DurationsAssumption, CountsAssumption
     DEF NewUnicast, UnicastRequest, UnicastRecord, Stages, Never, Lesser

\* Broadcasts::enqueue builds a well-formed record: the count of copies fits a u8.
LEMMA NewBroadcastType ==
    ASSUME NEW r, r.priority \in Priorities, r.schedule \in Schedules, r.delay \in Nat
    PROVE  NewBroadcast(r) \in BroadcastRecord
  <1>1. InitialCopies(r.schedule) \in 0 .. 255
    BY CountsAssumption DEF InitialCopies, Schedules
  <1> QED
    BY <1>1, DurationsAssumption DEF NewBroadcast, BroadcastRecord, Schedules, Copies, Unset

LEMMA RouteRequestType == RouteRequest \in BroadcastRecord
  BY NewBroadcastType DEF RouteRequest, Priorities, UserNormal, Schedules

\* A send that goes on after a report keeps a well-formed record: its attempts do not
\* underflow.
LEMMA UnicastReportType ==
    ASSUME NEW u \in UnicastRecord, NEW result, NEW delay \in Nat, GoesOn(u, result)
    PROVE  UnicastReportRecord(u, result, delay) \in UnicastRecord
  <1>1. CASE result = "Ok"
    BY <1>1, DurationsAssumption DEF UnicastReportRecord, UnicastRecord, Stages
  <1>2. CASE result # "Ok" /\ u.poll # NoPoll
    BY <1>2 DEF UnicastReportRecord, UnicastRecord, Stages
  <1>3. CASE result # "Ok" /\ u.poll = NoPoll
    <2>1. u.attempts - 1 \in 0 .. 255
      BY <1>3 DEF GoesOn, GotThrough, UnicastRecord
    <2> QED BY <1>3, <2>1 DEF UnicastReportRecord, UnicastRecord, Stages
  <1> QED BY <1>1, <1>2, <1>3

LEMMA BroadcastReportType ==
    ASSUME NEW b \in BroadcastRecord, NEW result \in {"Ok", RadioError}, NEW interval \in Nat
    PROVE  BroadcastReportRecord(b, result, interval) \in BroadcastRecord
  BY DEF BroadcastReportRecord, BroadcastRecord, Copies

\* A timer pass keeps every record well formed and settles only with a verdict.
LEMMA UnicastTickType ==
    ASSUME NEW u \in UnicastRecord
    PROVE  /\ UnicastTickRecord(u) \in UnicastRecord
           /\ UnicastTickVerdict(u) \in Verdicts \cup {Unset}
  BY DEF UnicastTickRecord, UnicastTickVerdict, UnicastRecord, Stages, Verdicts

LEMMA BroadcastTickType ==
    ASSUME NEW b \in BroadcastRecord
    PROVE  /\ BroadcastTickRecord(b) \in BroadcastRecord
           /\ BroadcastTickVerdict(b) \in Verdicts \cup {Unset}
  <1>1. BroadcastTickRecord(b) \in BroadcastRecord
    <2>1. CASE CopyDue(b)
      <3>1. b.copies - 1 \in 0 .. 255
        BY <2>1 DEF CopyDue, BroadcastRecord
      <3> QED BY <2>1, <3>1 DEF BroadcastTickRecord, BroadcastRecord, Copies
    <2>2. CASE ~CopyDue(b)
      BY <2>2 DEF BroadcastTickRecord
    <2> QED BY <2>1, <2>2
  <1>2. BroadcastTickVerdict(b) \in Verdicts \cup {Unset}
    BY DEF BroadcastTickVerdict, HandedOffVerdict, BroadcastRecord, Verdicts
  <1> QED BY <1>1, <1>2

LEMMA HeardType ==
    ASSUME TypeOK, NEW i \in DOMAIN broadcasts
    PROVE  /\ Heard(i) \in BroadcastRecord
           /\ BroadcastVerdict(i) \in Verdicts \cup {Unset}
  <1>1. broadcasts[i] \in BroadcastRecord
    BY DEF TypeOK, TablesOK
  <1>2. Heard(i) \in BroadcastRecord
    BY <1>1 DEF Heard, BroadcastRecord
  <1> QED BY <1>2, BroadcastTickType DEF BroadcastVerdict, Verdicts

-----------------------------------------------------------------------------
(* Type correctness *)

\* The records a task still has to report, of whatever kind, are well formed.
LEMMA SettledType ==
    ASSUME NEW v \in Verdicts \cup {Unset}
    PROVE  /\ \A u \in UnicastRecord : UnicastSettled(u, v) \in Owed
           /\ \A b \in BroadcastRecord : BroadcastSettled(b, v) \in Owed
           /\ [handedOff |-> FALSE, verdict |-> v] \in Owed
           /\ HandoffOnly \in Owed
  BY DEF UnicastSettled, BroadcastSettled, Owed, HandoffOnly, BroadcastRecord

LEMMA InitType == Init => TypeOK
  <1> SUFFICES ASSUME Init PROVE TypeOK
    OBVIOUS
  <1>1. TablesOK
    BY DEF Init, TablesOK, Allocated
  <1>2. TasksOK
    BY DEF Init, TasksOK, NoLoan, NoSend, Never
  <1>3. BatchesOK
    BY DEF Init, BatchesOK, NoActions
  <1>4. EnvironmentOK
    BY DEF Init, EnvironmentOK
  <1> QED BY <1>1, <1>2, <1>3, <1>4 DEF TypeOK

\* next_id only grows, and every new id comes with a slot.
LEMMA AllocateType ==
    ASSUME TablesOK, NEW n \in Nat, Allocate(n)
    PROVE  /\ nextId' \in Nat
           /\ Allocated \subseteq Allocated'
           /\ Allocated' = Allocated \cup (nextId .. nextId + n - 1)
           /\ slots' \in [Allocated' -> Slot]
  <1>1. FreshSlot \in Slot
    BY DEF FreshSlot, Slot
  <1> QED BY <1>1 DEF TablesOK, Allocate, Allocated

LEMMA NoActionsType == DOMAIN NoActions = {} /\ NoActions \in [{} -> Owed]
  BY DEF NoActions

\* A batch of well-formed actions about allocated ids keeps the batches well formed.
LEMMA CommitType ==
    ASSUME BatchesOK, NEW t \in Tasks, NEW kind \in {"commit", "pass", "timer", "drain"},
           NEW acts, acts \in [DOMAIN acts -> Owed], DOMAIN acts \subseteq Allocated',
           Allocated \subseteq Allocated', Commit(t, kind, acts)
    PROVE  BatchesOK'
  BY DEF BatchesOK, Commit

\* The variables a step leaves alone stay well formed as ids are allocated.
LEMMA EnvironmentFrame ==
    ASSUME EnvironmentOK, Allocated \subseteq Allocated',
           quorum' = quorum, routes' = routes, discovery' = discovery, evidence' = evidence
    PROVE  EnvironmentOK'
  BY DEF EnvironmentOK

LEMMA TasksFrame ==
    ASSUME TasksOK, UNCHANGED <<tasks, wakes>>
    PROVE  TasksOK'
  BY DEF TasksOK, tasks, wakes

LEMMA HandlerIsTask == \A h \in Handlers : h \in Tasks
  BY DEF Tasks

-----------------------------------------------------------------------------
LEMMA EnqueueUnicastType ==
    ASSUME TypeOK, NEW h \in Handlers, NEW r \in UnicastRequests, EnqueueUnicast(h, r)
    PROVE  TypeOK'
  <1> USE DEF EnqueueUnicast
  <1>1. NewUnicast(r, Never, NoSend) \in UnicastRecord
    BY NewUnicastType, RequestsAssumption DEF Never, NoSend
  <1>2. /\ nextId' \in Nat /\ slots' \in [Allocated' -> Slot]
        /\ Allocated \subseteq Allocated' /\ nextId \in Allocated'
    BY AllocateType DEF TypeOK, TablesOK
  <1>3. TablesOK'
    BY <1>1, <1>2 DEF TypeOK, TablesOK, Put
  <1>4. BatchesOK'
    BY <1>2, CommitType, NoActionsType, HandlerIsTask DEF TypeOK
  <1>5. TasksOK' /\ EnvironmentOK'
    BY <1>2, TasksFrame, EnvironmentFrame DEF TypeOK, routing
  <1> QED BY <1>3, <1>4, <1>5 DEF TypeOK

LEMMA SendUnroutedType ==
    ASSUME TypeOK, NEW h \in Handlers, NEW r \in UnroutedRequests, SendUnrouted(h, r)
    PROVE  TypeOK'
  <1> DEFINE held == [priority |-> r.priority, confirm |-> r.confirm,
                      destination |-> r.destination, deadline |-> HandoffTimeout]
  <1>1. r \in UnroutedRequest
    BY RequestsAssumption
  <1>2. held \in UnroutedRecord
    BY <1>1, DurationsAssumption DEF UnroutedRequest, UnroutedRecord
  <1>3. r.destination \in Destinations
    BY <1>1 DEF UnroutedRequest
  <1>4. Dec(RouteDiscoveryAttempts) \in 0 .. 255
    BY CountsAssumption DEF Dec
  <1>5. unrouted' = Put(unrouted, nextId, held)
    BY DEF SendUnrouted
  <1>6. /\ nextId' \in Nat /\ slots' \in [Allocated' -> Slot]
        /\ Allocated \subseteq Allocated' /\ nextId \in Allocated'
    BY AllocateType DEF TypeOK, TablesOK, SendUnrouted
  <1>7. TablesOK' /\ discovery' \in [Destinations -> Nat]
    <2>1. CASE r.destination \in DOMAIN retries
      BY <1>2, <1>5, <1>6, <2>1 DEF TypeOK, TablesOK, EnvironmentOK, SendUnrouted, Put
    <2>2. CASE r.destination \notin DOMAIN retries
      <3>1. nextId + 1 \in Allocated'
        BY <2>2, AllocateType DEF TypeOK, TablesOK, SendUnrouted
      <3>2. broadcasts' \in [DOMAIN broadcasts' -> BroadcastRecord]
            /\ DOMAIN broadcasts' \subseteq Allocated'
        BY <2>2, <3>1, <1>6, RouteRequestType DEF TypeOK, TablesOK, SendUnrouted, Put
      <3>3. retries' \in [DOMAIN retries' -> 0 .. 255] /\ DOMAIN retries' \subseteq Destinations
        BY <2>2, <1>3, <1>4 DEF TypeOK, TablesOK, SendUnrouted, Put
      <3>4. discovery' \in [Destinations -> Nat]
        BY <2>2, DurationsAssumption DEF TypeOK, EnvironmentOK, SendUnrouted
      <3> HIDE DEF held
      <3> QED BY <1>2, <1>5, <1>6, <3>2, <3>3, <3>4
              DEF TypeOK, TablesOK, SendUnrouted, Put
    <2> QED BY <2>1, <2>2
  <1>8. BatchesOK'
    BY <1>6, CommitType, NoActionsType, HandlerIsTask DEF TypeOK, SendUnrouted
  <1>9. TasksOK' /\ EnvironmentOK'
    BY <1>6, <1>7, TasksFrame DEF TypeOK, SendUnrouted, EnvironmentOK
  <1> QED BY <1>7, <1>8, <1>9 DEF TypeOK

LEMMA EnqueueBroadcastType ==
    ASSUME TypeOK, NEW h \in Handlers, NEW r \in BroadcastRequests, EnqueueBroadcast(h, r)
    PROVE  TypeOK'
  <1> DEFINE n == Len(r.children)
             copyIds == nextId + 1 .. nextId + n
             copy(i) == NewUnicast([priority |-> UserNormal, confirm |-> OnHandoff,
                                    poll |-> r.children[i - nextId]], Never, nextId)
  <1>1. r \in BroadcastRequest
    BY RequestsAssumption
  <1>2. n \in Nat /\ \A k \in 1 .. n : r.children[k] \in Devices
    BY <1>1 DEF BroadcastRequest
  <1>3. /\ nextId \in Nat /\ nextId' \in Nat /\ slots' \in [Allocated' -> Slot]
        /\ Allocated \subseteq Allocated' /\ nextId \in Allocated' /\ copyIds \subseteq Allocated'
    <2>1. Allocate(n + 1)
      BY DEF EnqueueBroadcast
    <2>2. n + 1 \in Nat
      BY <1>2
    <2> QED BY <1>2, <2>1, <2>2, AllocateType DEF TypeOK, TablesOK
  <1>4. \A i \in copyIds : copy(i) \in UnicastRecord
    <2> TAKE i \in copyIds
    <2>1. r.children[i - nextId] \in Devices
      BY <1>2, <1>3
    <2>2. [priority |-> UserNormal, confirm |-> OnHandoff,
           poll |-> r.children[i - nextId]] \in UnicastRequest
      BY <2>1 DEF UnicastRequest, Priorities, UserNormal, Confirms, Polls
    <2> QED BY <1>3, <2>2, NewUnicastType DEF Never
  <1>5. NewBroadcast(r) \in BroadcastRecord
    BY <1>1, NewBroadcastType DEF BroadcastRequest
  <1>6. unicasts' = [i \in DOMAIN unicasts \cup copyIds |->
                        IF i \in copyIds THEN copy(i) ELSE unicasts[i]]
    BY DEF EnqueueBroadcast
  <1>7. DOMAIN unicasts' \subseteq Allocated' /\ unicasts' \in [DOMAIN unicasts' -> UnicastRecord]
    <2> HIDE DEF copyIds, copy
    <2> QED BY <1>3, <1>4, <1>6 DEF TypeOK, TablesOK
  <1>8. DOMAIN broadcasts' \subseteq Allocated'
        /\ broadcasts' \in [DOMAIN broadcasts' -> BroadcastRecord]
    BY <1>3, <1>5 DEF TypeOK, TablesOK, EnqueueBroadcast, Put
  <1>9. TablesOK'
    BY <1>3, <1>7, <1>8 DEF TypeOK, TablesOK, EnqueueBroadcast
  <1>10. BatchesOK'
    BY <1>3, CommitType, NoActionsType, HandlerIsTask DEF TypeOK, EnqueueBroadcast
  <1>11. TasksOK' /\ EnvironmentOK'
    BY <1>3, TasksFrame DEF TypeOK, EnqueueBroadcast, EnvironmentOK, routing
  <1> QED BY <1>9, <1>10, <1>11 DEF TypeOK

\* Steps that allocate nothing.
LEMMA SameIds ==
    ASSUME nextId' = nextId
    PROVE  Allocated' = Allocated
  BY DEF Allocated

LEMMA TablesFrame ==
    ASSUME TablesOK, BatchesOK, EnvironmentOK, UNCHANGED <<tables, quorum>>
    PROVE  /\ TablesOK'
           /\ UNCHANGED <<phase, owes>> => BatchesOK'
           /\ UNCHANGED <<routes, discovery, evidence>> => EnvironmentOK'
  BY DEF TablesOK, BatchesOK, EnvironmentOK, tables, Allocated

LEMMA SenderStepType ==
    ASSUME TypeOK, SenderStep
    PROVE  TypeOK'
  <1>1. CASE SenderDequeues
    <2> PICK i \in Ready : LendUnicast(i) \/ LendBroadcast(i)
      BY <1>1 DEF SenderDequeues
    <2>1. Allocated' = Allocated
      BY <1>1, SameIds DEF SenderDequeues
    <2>2. CASE LendUnicast(i)
      <3>1. i \in DOMAIN unicasts /\ unicasts[i] \in UnicastRecord
        BY <2>2 DEF LendUnicast, ReadyUnicasts, TypeOK, TablesOK
      <3>2. unicasts' \in [DOMAIN unicasts -> UnicastRecord]
        BY <2>2, <3>1 DEF LendUnicast, TypeOK, TablesOK, UnicastRecord, Stages
      <3>3. i \in Nat
        BY <3>1 DEF TypeOK, TablesOK, Allocated
      <3> QED BY <1>1, <2>1, <2>2, <3>2, <3>3
              DEF SenderDequeues, LendUnicast, TypeOK, TablesOK, TasksOK, BatchesOK,
                  EnvironmentOK, wakes, routing
    <2>3. CASE LendBroadcast(i)
      <3>1. i \in DOMAIN broadcasts /\ broadcasts[i] \in BroadcastRecord
        BY <2>3 DEF LendBroadcast, ReadyBroadcasts, TypeOK, TablesOK
      <3>2. broadcasts' \in [DOMAIN broadcasts -> BroadcastRecord]
        BY <2>3, <3>1 DEF LendBroadcast, TypeOK, TablesOK, BroadcastRecord, Copies
      <3>3. i \in Nat
        BY <3>1 DEF TypeOK, TablesOK, Allocated
      <3> QED BY <1>1, <2>1, <2>3, <3>2, <3>3
              DEF SenderDequeues, LendBroadcast, TypeOK, TablesOK, TasksOK, BatchesOK,
                  EnvironmentOK, wakes, routing
    <2> QED BY <2>2, <2>3
  <1>2. CASE SenderParks
    BY <1>2, TablesFrame DEF SenderParks, TypeOK, TasksOK, wakes, routing
  <1>3. CASE SenderWakes
    BY <1>3, TablesFrame DEF SenderWakes, TypeOK, TasksOK, routing
  <1> QED BY <1>1, <1>2, <1>3 DEF SenderStep

LEMMA SenderReportsType ==
    ASSUME TypeOK, LoanIntact, NEW result \in {"Ok", RadioError}, SenderReports(result)
    PROVE  TypeOK'
  <1>1. Allocated' = Allocated
    BY SameIds DEF SenderReports
  <1>2. TasksOK'
    BY DEF SenderReports, TypeOK, TasksOK, NoLoan, NoSend, wakes
  <1>3. "sender" \in Tasks
    BY DEF Tasks
  <1>4. CASE loan.transmit = "Unicast"
    <2>1. PICK delay \in UnicastRetryDelay .. 2 * UnicastRetryDelay :
             ReportUnicast(loan.id, result, delay)
      BY <1>4 DEF SenderReports
    <2> DEFINE i == loan.id
               u == unicasts[i]
               verdict == IF GotThrough(u, result) THEN "Ok" ELSE result
    <2>2. i \in DOMAIN unicasts /\ u \in UnicastRecord /\ i \in Allocated
      BY <1>4 DEF LoanIntact, SenderReports, TypeOK, TablesOK
    <2>3. verdict \in Verdicts /\ delay \in Nat
      BY DurationsAssumption DEF Verdicts
    <2>4. DOMAIN unicasts' \subseteq Allocated /\ unicasts' \in [DOMAIN unicasts' -> UnicastRecord]
      <3>1. CASE ~GoesOn(u, result)
        BY <2>1, <2>2, <3>1 DEF ReportUnicast, Without, TypeOK, TablesOK
      <3>2. CASE GoesOn(u, result)
        <4>1. UnicastReportRecord(u, result, delay) \in UnicastRecord
          BY <2>2, <2>3, <3>2, UnicastReportType
        <4> QED BY <2>1, <2>2, <3>2, <4>1 DEF ReportUnicast, Put, TypeOK, TablesOK
      <3> QED BY <3>1, <3>2
    <2>5. BatchesOK'
      <3>1. \A a \in Owed : /\ DOMAIN Put(NoActions, i, a) \subseteq Allocated'
                            /\ Put(NoActions, i, a) \in [DOMAIN Put(NoActions, i, a) -> Owed]
        BY <1>1, <2>2, NoActionsType DEF Put
      <3>2. UnicastSettled(u, verdict) \in Owed /\ HandoffOnly \in Owed
        BY <2>2, <2>3, SettledType
      <3>3. \E acts : /\ Commit("sender", "commit", acts)
                      /\ acts \in {NoActions, Put(NoActions, i, UnicastSettled(u, verdict)),
                                   Put(NoActions, i, HandoffOnly)}
        BY <2>1 DEF ReportUnicast
      <3> QED BY <1>1, <1>3, <3>1, <3>2, <3>3, CommitType, NoActionsType DEF TypeOK
    <2>6. TablesOK' /\ EnvironmentOK'
      BY <1>1, <2>1, <2>2, <2>4 DEF ReportUnicast, SenderReports, TypeOK, TablesOK, EnvironmentOK, routing
    <2> QED BY <1>2, <2>5, <2>6 DEF TypeOK
  <1>5. CASE loan.transmit = "Broadcast"
    <2>1. PICK interval \in Intervals(broadcasts[loan.id].schedule) :
             ReportBroadcast(loan.id, result, interval)
      BY <1>5 DEF SenderReports
    <2> DEFINE i == loan.id
               b == broadcasts[i]
               c == BroadcastReportRecord(b, result, interval)
    <2>2. i \in DOMAIN broadcasts /\ b \in BroadcastRecord /\ i \in Allocated
      BY <1>5 DEF LoanIntact, SenderReports, TypeOK, TablesOK
    <2>3. interval \in Nat
      BY DurationsAssumption DEF Intervals
    <2>4. c \in BroadcastRecord
      BY <2>2, <2>3, BroadcastReportType
    <2>5. DOMAIN broadcasts' \subseteq Allocated
          /\ broadcasts' \in [DOMAIN broadcasts' -> BroadcastRecord]
      <3> HIDE DEF c
      <3> QED BY <2>1, <2>2, <2>4 DEF ReportBroadcast, Without, Put, TypeOK, TablesOK, c
    <2>6. BatchesOK'
      <3>1. \A a \in Owed : /\ DOMAIN Put(NoActions, i, a) \subseteq Allocated'
                            /\ Put(NoActions, i, a) \in [DOMAIN Put(NoActions, i, a) -> Owed]
        BY <1>1, <2>2, NoActionsType DEF Put
      <3>2. /\ BroadcastSettled(b, result) \in Owed /\ BroadcastSettled(c, "Ok") \in Owed
            /\ HandoffOnly \in Owed
        BY <2>2, <2>4, SettledType DEF Verdicts
      <3>3. \E acts : /\ Commit("sender", "commit", acts)
                      /\ acts \in {NoActions, Put(NoActions, i, BroadcastSettled(b, result)),
                                   Put(NoActions, i, BroadcastSettled(c, "Ok")),
                                   Put(NoActions, i, HandoffOnly)}
        BY <2>1 DEF ReportBroadcast
      <3> QED BY <1>1, <1>3, <3>1, <3>2, <3>3, CommitType, NoActionsType DEF TypeOK
    <2>7. TablesOK' /\ EnvironmentOK'
      BY <1>1, <2>1, <2>2, <2>5 DEF ReportBroadcast, SenderReports, TypeOK, TablesOK, EnvironmentOK, routing
    <2> QED BY <1>2, <2>6, <2>7 DEF TypeOK
  <1> QED BY <1>4, <1>5 DEF SenderReports

\* Every moment the timer is armed for is one it can wait out.
LEMMA WakeTimesType == TablesOK /\ EnvironmentOK => WakeTimes \subseteq Nat
  <1> SUFFICES ASSUME TablesOK, EnvironmentOK
               PROVE  WakeTimes \subseteq Nat
    OBVIOUS
  <1>1. \A i \in DOMAIN unicasts : UnicastWake(unicasts[i]) \in Nat
    <2> TAKE i \in DOMAIN unicasts
    <2>1. unicasts[i] \in UnicastRecord
      BY DEF TablesOK
    <2> QED BY <2>1 DEF UnicastWake, UnicastRecord, Lesser
  <1>2. \A i \in DOMAIN broadcasts : BroadcastWake(broadcasts[i]) \in Nat
    <2> TAKE i \in DOMAIN broadcasts
    <2>1. broadcasts[i] \in BroadcastRecord
      BY DEF TablesOK
    <2> QED BY <2>1 DEF BroadcastWake, BroadcastRecord, Lesser
  <1>3. \A i \in DOMAIN unrouted : unrouted[i].deadline \in Nat
    BY DEF TablesOK, UnroutedRecord
  <1>4. \A d \in DOMAIN retries : discovery[d] \in Nat
    BY DEF TablesOK, EnvironmentOK
  <1> QED BY <1>1, <1>2, <1>3, <1>4 DEF WakeTimes

\* One pass finds a finite number of discoveries to restart.
LEMMA RestartedCount ==
    ASSUME TypeOK
    PROVE  /\ Cardinality(RestartedDests) \in Nat
           /\ RestartedDests \subseteq DOMAIN retries
           /\ RestartedDests \subseteq Destinations
  <1>1. RestartedDests \subseteq DOMAIN retries /\ RestartedDests \subseteq Destinations
    BY DEF RestartedDests, LapsedDests, TypeOK, TablesOK
  <1> QED BY <1>1, RequestsAssumption, FS_Subset, FS_CardinalityType

\* A send a pass routes or ticks has a well-formed record.
LEMMA UnicastPassType ==
    ASSUME TypeOK, NEW polls \in [RoutedDests -> RoutedPolls],
           NEW i \in DOMAIN unicasts \cup RoutedSends
    PROVE  UnicastPass(i, polls) \in UnicastRecord
  <1>1. CASE i \in DOMAIN unicasts
    BY <1>1 DEF UnicastPass, TypeOK, TablesOK
  <1>2. CASE i \notin DOMAIN unicasts
    <2>1. i \in DOMAIN unrouted /\ unrouted[i].destination \in RoutedDests
          /\ unrouted[i] \in UnroutedRecord
      BY <1>2 DEF RoutedSends, TypeOK, TablesOK
    <2>2. polls[unrouted[i].destination] \in Polls
      BY <2>1, RequestsAssumption
    <2>3. [priority |-> unrouted[i].priority, confirm |-> unrouted[i].confirm,
           poll |-> polls[unrouted[i].destination]] \in UnicastRequest
      BY <2>1, <2>2 DEF UnicastRequest, UnroutedRecord
    <2>4. unrouted[i].deadline \in Nat
      BY <2>1 DEF UnroutedRecord
    <2> QED BY <1>2, <2>3, <2>4, NewUnicastType DEF UnicastPass, Routed, NoSend
  <1> QED BY <1>1, <1>2

LEMMA PassActionsType ==
    ASSUME TypeOK, NEW polls \in [RoutedDests -> RoutedPolls]
    PROVE  /\ DOMAIN PassActions(polls) \subseteq Allocated
           /\ PassActions(polls) \in [DOMAIN PassActions(polls) -> Owed]
  <1>1. \A i \in PassSends :
           UnicastSettled(UnicastPass(i, polls), UnicastTickVerdict(UnicastPass(i, polls))) \in Owed
    BY UnicastPassType, UnicastTickType, SettledType DEF PassSends
  <1>2. \A i \in DOMAIN unrouted : [handedOff |-> FALSE, verdict |-> UnroutedVerdict(i)] \in Owed
    BY DEF UnroutedVerdict, Owed, Verdicts
  <1>3. \A i \in DOMAIN broadcasts : BroadcastSettled(broadcasts[i], BroadcastVerdict(i)) \in Owed
    BY HeardType, SettledType DEF TypeOK, TablesOK
  <1>4. Lapsing(polls) \subseteq PassSends /\ Failing \subseteq DOMAIN unrouted
        /\ Ending \subseteq DOMAIN broadcasts
    BY DEF Lapsing, Failing, Ending
  <1>5. PassSends \cup DOMAIN unrouted \cup DOMAIN broadcasts \subseteq Allocated
    BY DEF PassSends, RoutedSends, TypeOK, TablesOK
  <1> QED BY <1>1, <1>2, <1>3, <1>4, <1>5 DEF PassActions

LEMMA DriveSendsType ==
    ASSUME TypeOK, DriveSends
    PROVE  TypeOK'
  <1>1. PICK polls \in [RoutedDests -> RoutedPolls] :
          /\ unicasts' = [i \in PassSends \ Lapsing(polls) |->
                             UnicastTickRecord(UnicastPass(i, polls))]
          /\ Commit("timer", "pass", PassActions(polls))
    BY DEF DriveSends
  <1> DEFINE count == Cardinality(RestartedDests)
  <1>2. /\ nextId' \in Nat /\ slots' \in [Allocated' -> Slot]
        /\ Allocated \subseteq Allocated' /\ nextId .. nextId + count - 1 \subseteq Allocated'
    BY RestartedCount, AllocateType DEF TypeOK, DriveSends
  <1>3. DOMAIN unicasts' \subseteq Allocated' /\ unicasts' \in [DOMAIN unicasts' -> UnicastRecord]
    <2>1. PassSends \subseteq Allocated
      BY DEF PassSends, RoutedSends, TypeOK, TablesOK
    <2>2. \A i \in PassSends : UnicastTickRecord(UnicastPass(i, polls)) \in UnicastRecord
      BY UnicastPassType, UnicastTickType DEF PassSends
    <2> QED BY <1>1, <1>2, <2>1, <2>2
  <1>4. DOMAIN unrouted' \subseteq Allocated' /\ unrouted' \in [DOMAIN unrouted' -> UnroutedRecord]
    BY <1>2 DEF DriveSends, Without, TypeOK, TablesOK
  <1>5. DOMAIN broadcasts' \subseteq Allocated'
        /\ broadcasts' \in [DOMAIN broadcasts' -> BroadcastRecord]
    <2>1. \A i \in DOMAIN broadcasts : BroadcastTickRecord(Heard(i)) \in BroadcastRecord
      BY HeardType, BroadcastTickType
    <2>2. DOMAIN broadcasts \subseteq Allocated
      BY DEF TypeOK, TablesOK
    <2> QED BY <1>2, <2>1, <2>2, RouteRequestType DEF DriveSends
  <1>6. DOMAIN retries' \subseteq Destinations /\ retries' \in [DOMAIN retries' -> 0 .. 255]
    <2>1. \A d \in RestartedDests : retries[d] - 1 \in 0 .. 255
      BY DEF RestartedDests, LapsedDests, TypeOK, TablesOK
    <2>2. DOMAIN retries \subseteq Destinations /\ \A d \in DOMAIN retries : retries[d] \in 0 .. 255
      BY DEF TypeOK, TablesOK
    <2> QED BY <2>1, <2>2 DEF DriveSends
  <1>7. TablesOK'
    BY <1>2, <1>3, <1>4, <1>5, <1>6 DEF TablesOK
  <1>8. EnvironmentOK'
    BY <1>2, DurationsAssumption DEF DriveSends, TypeOK, EnvironmentOK
  <1>9. TasksOK'
    <2>1. (WakeTimes \subseteq Nat)'
      <3>1. (TablesOK /\ EnvironmentOK => WakeTimes \subseteq Nat)'
        BY WakeTimesType, PTL
      <3> QED BY <1>7, <1>8, <3>1
    <2>2. armed' \in Nat \cup {Never}
      BY <2>1 DEF DriveSends, ArmedFor
    <2> QED BY <2>2 DEF DriveSends, TypeOK, TasksOK, wakes
  <1>10. BatchesOK'
    <2>1. "timer" \in Tasks
      BY DEF Tasks
    <2> QED BY <1>1, <1>2, <2>1, PassActionsType, CommitType DEF TypeOK
  <1> QED BY <1>7, <1>8, <1>9, <1>10 DEF TypeOK

LEMMA TimerWakesType ==
    ASSUME TypeOK, TimerWakes
    PROVE  TypeOK'
  BY TablesFrame DEF TimerWakes, TypeOK, TasksOK, Never, routing

\* A handler's step that allocates nothing and leaves the tasks alone is well typed if the
\* unicasts and broadcasts it leaves are restrictions or well-formed updates.
LEMMA HandlerType ==
    ASSUME TypeOK, NEW h \in Handlers, NEW acts, NEW kind \in {"commit", "timer"},
           nextId' = nextId, slots' = slots, UNCHANGED <<tasks, wakes>>,
           DOMAIN unicasts' \subseteq DOMAIN unicasts,
           unicasts' \in [DOMAIN unicasts' -> UnicastRecord],
           DOMAIN unrouted' \subseteq DOMAIN unrouted,
           unrouted' \in [DOMAIN unrouted' -> UnroutedRecord],
           DOMAIN broadcasts' \subseteq DOMAIN broadcasts,
           broadcasts' \in [DOMAIN broadcasts' -> BroadcastRecord],
           retries' = retries, EnvironmentOK',
           DOMAIN acts \subseteq Allocated, acts \in [DOMAIN acts -> Owed],
           Commit(h, kind, acts)
    PROVE  TypeOK'
  <1>1. Allocated' = Allocated
    BY SameIds
  <1>2. TablesOK'
    BY <1>1 DEF TypeOK, TablesOK
  <1>3. BatchesOK'
    BY <1>1, CommitType, HandlerIsTask DEF TypeOK
  <1> QED BY <1>2, <1>3, TasksFrame DEF TypeOK

LEMMA PollType ==
    ASSUME TypeOK, NEW h \in Handlers, NEW device \in Devices, Poll(h, device)
    PROVE  TypeOK'
  <1>1. DOMAIN unicasts' = DOMAIN unicasts /\ unicasts' \in [DOMAIN unicasts -> UnicastRecord]
    <2>1. \A i \in DOMAIN unicasts :
             [unicasts[i] EXCEPT !.stage = "Queued", !.priority = StackCritical] \in UnicastRecord
      <3> TAKE i \in DOMAIN unicasts
      <3>1. unicasts[i] \in UnicastRecord
        BY DEF TypeOK, TablesOK
      <3>2. StackCritical \in Priorities
        BY DEF Priorities, StackCritical
      <3> QED BY <3>1, <3>2 DEF UnicastRecord, Stages
    <2> DEFINE due == {i \in DOMAIN unicasts :
                         /\ unicasts[i].poll = device /\ unicasts[i].stage = "AwaitingPoll"
                         /\ unicasts[i].deadline > 0}
               first == {i \in due : \A j \in due : i <= j}
    <2>2. unicasts' = [i \in DOMAIN unicasts |->
             IF i \in first
             THEN [unicasts[i] EXCEPT !.stage = "Queued", !.priority = StackCritical]
             ELSE unicasts[i]]
      BY Zenon DEF Poll
    <2> HIDE DEF first
    <2> QED BY <2>1, <2>2 DEF TypeOK, TablesOK
  <1>2. EnvironmentOK'
    BY SameIds, EnvironmentFrame DEF Poll, TypeOK, routing
  <1> QED BY <1>1, <1>2, HandlerType, NoActionsType DEF Poll, TypeOK, TablesOK

LEMMA AckReceivedType ==
    ASSUME TypeOK, NEW h \in Handlers, NEW key \in AckKeys, AckReceived(h, key)
    PROVE  TypeOK'
  <1> DEFINE waiting == {i \in DOMAIN unicasts : unicasts[i].confirm = key}
             oldest  == {i \in waiting : \A j \in waiting : i <= j}
             flying  == {i \in oldest : unicasts[i].stage = "Transmitting"}
             settled == oldest \ flying
             acts    == [i \in settled |-> UnicastSettled(unicasts[i], "Ok")]
  <1>1. settled \subseteq DOMAIN unicasts /\ settled \subseteq Allocated
    BY DEF TypeOK, TablesOK
  <1>2. /\ unicasts' = [i \in DOMAIN unicasts \ settled |->
                          IF i \in flying THEN [unicasts[i] EXCEPT !.acked = TRUE] ELSE unicasts[i]]
        /\ Commit(h, "commit", acts)
        /\ evidence' = evidence \cup settled
    BY DEF AckReceived
  <1>3. DOMAIN unicasts' \subseteq DOMAIN unicasts /\ unicasts' \in [DOMAIN unicasts' -> UnicastRecord]
    <2>1. \A i \in DOMAIN unicasts : [unicasts[i] EXCEPT !.acked = TRUE] \in UnicastRecord
      <3> TAKE i \in DOMAIN unicasts
      <3>1. unicasts[i] \in UnicastRecord
        BY DEF TypeOK, TablesOK
      <3> QED BY <3>1 DEF UnicastRecord
    <2> HIDE DEF settled, flying
    <2> QED BY <1>2, <2>1 DEF TypeOK, TablesOK
  <1>4. DOMAIN acts \subseteq Allocated /\ acts \in [DOMAIN acts -> Owed]
    BY <1>1, SettledType DEF TypeOK, TablesOK, Verdicts
  <1>5. EnvironmentOK'
    BY <1>1, <1>2, SameIds DEF AckReceived, TypeOK, EnvironmentOK, routing
  <1>6. /\ nextId' = nextId /\ slots' = slots /\ UNCHANGED <<tasks, wakes>>
        /\ unrouted' = unrouted /\ retries' = retries /\ broadcasts' = broadcasts
    BY DEF AckReceived
  <1> HIDE DEF acts, settled
  <1> QED BY <1>2, <1>3, <1>4, <1>5, <1>6, HandlerType DEF TypeOK, TablesOK

LEMMA DropIndirectType ==
    ASSUME TypeOK, NEW h \in Handlers, NEW device \in Devices, DropIndirect(h, device)
    PROVE  TypeOK'
  <1> DEFINE dropped == {i \in DOMAIN unicasts :
                           unicasts[i].poll = device /\ unicasts[i].stage = "AwaitingPoll"}
             acts    == [i \in dropped |-> UnicastSettled(unicasts[i], "IndirectExpired")]
  <1>1. DOMAIN acts \subseteq Allocated /\ acts \in [DOMAIN acts -> Owed]
    BY SettledType DEF TypeOK, TablesOK, Verdicts
  <1>2. DOMAIN unicasts' \subseteq DOMAIN unicasts /\ unicasts' \in [DOMAIN unicasts' -> UnicastRecord]
    BY DEF DropIndirect, Without, TypeOK, TablesOK
  <1>3. EnvironmentOK'
    BY SameIds, EnvironmentFrame DEF DropIndirect, TypeOK, routing
  <1>4. Commit(h, "commit", acts)
    BY DEF DropIndirect
  <1> HIDE DEF acts
  <1> QED BY <1>1, <1>2, <1>3, <1>4, HandlerType DEF DropIndirect, TypeOK, TablesOK

LEMMA CancelUnicastType ==
    ASSUME TypeOK, NEW h \in Handlers, NEW i, CancelUnicast(h, i)
    PROVE  TypeOK'
  <1> DEFINE acts == Put(NoActions, i, UnicastSettled(unicasts[i], "Cancelled"))
  <1>1. UnicastSettled(unicasts[i], "Cancelled") \in Owed /\ i \in Allocated
    BY SettledType DEF CancelUnicast, TypeOK, TablesOK, Verdicts
  <1>2. DOMAIN acts \subseteq Allocated /\ acts \in [DOMAIN acts -> Owed]
    BY <1>1, NoActionsType DEF Put
  <1>3. DOMAIN unicasts' \subseteq DOMAIN unicasts /\ unicasts' \in [DOMAIN unicasts' -> UnicastRecord]
    BY DEF CancelUnicast, Without, TypeOK, TablesOK
  <1>4. EnvironmentOK'
    BY SameIds, EnvironmentFrame DEF CancelUnicast, TypeOK, routing
  <1>5. Commit(h, "commit", acts)
    BY DEF CancelUnicast
  <1> HIDE DEF acts
  <1> QED BY <1>2, <1>3, <1>4, <1>5, HandlerType DEF CancelUnicast, TypeOK, TablesOK

LEMMA CancelUnroutedType ==
    ASSUME TypeOK, NEW h \in Handlers, NEW i, CancelUnrouted(h, i)
    PROVE  TypeOK'
  <1> DEFINE acts == Put(NoActions, i, [handedOff |-> FALSE, verdict |-> "Cancelled"])
  <1>1. [handedOff |-> FALSE, verdict |-> "Cancelled"] \in Owed /\ i \in Allocated
    BY SettledType DEF CancelUnrouted, TypeOK, TablesOK, Verdicts
  <1>2. DOMAIN acts \subseteq Allocated /\ acts \in [DOMAIN acts -> Owed]
    BY <1>1, NoActionsType DEF Put
  <1>3. DOMAIN unrouted' \subseteq DOMAIN unrouted
        /\ unrouted' \in [DOMAIN unrouted' -> UnroutedRecord]
    BY DEF CancelUnrouted, Without, TypeOK, TablesOK
  <1>4. EnvironmentOK'
    BY SameIds, EnvironmentFrame DEF CancelUnrouted, TypeOK, routing
  <1>5. Commit(h, "commit", acts)
    BY DEF CancelUnrouted
  <1> HIDE DEF acts
  <1> QED BY <1>2, <1>3, <1>4, <1>5, HandlerType DEF CancelUnrouted, TypeOK, TablesOK

LEMMA CancelBroadcastType ==
    ASSUME TypeOK, NEW h \in Handlers, NEW i, CancelBroadcast(h, i)
    PROVE  TypeOK'
  <1> DEFINE copies == CopiesOf(i)
             acts == [j \in copies \cup {i} |->
                        IF j = i THEN BroadcastSettled(broadcasts[i], "Cancelled")
                        ELSE UnicastSettled(unicasts[j], "Cancelled")]
  <1>1. copies \subseteq DOMAIN unicasts /\ i \in DOMAIN broadcasts
    BY DEF CopiesOf, CancelBroadcast
  <1>2. DOMAIN acts \subseteq Allocated /\ acts \in [DOMAIN acts -> Owed]
    BY <1>1, SettledType DEF TypeOK, TablesOK, Verdicts
  <1>3. DOMAIN unicasts' \subseteq DOMAIN unicasts /\ unicasts' \in [DOMAIN unicasts' -> UnicastRecord]
    BY DEF CancelBroadcast, Without, TypeOK, TablesOK
  <1>4. DOMAIN broadcasts' \subseteq DOMAIN broadcasts
        /\ broadcasts' \in [DOMAIN broadcasts' -> BroadcastRecord]
    BY DEF CancelBroadcast, Without, TypeOK, TablesOK
  <1>5. EnvironmentOK'
    BY SameIds, EnvironmentFrame DEF CancelBroadcast, TypeOK, routing
  <1>6. Commit(h, "commit", acts)
    BY DEF CancelBroadcast
  <1> HIDE DEF acts
  <1> QED BY <1>2, <1>3, <1>4, <1>5, <1>6, HandlerType DEF CancelBroadcast, TypeOK, TablesOK

LEMMA EventType ==
    ASSUME TypeOK, NEW h \in Handlers,
           \/ \E i \in Allocated : RelayHeard(h, i)
           \/ \E d \in Destinations : RouteEstablished(h, d)
    PROVE  TypeOK'
  <1>1. Commit(h, "timer", NoActions) /\ UNCHANGED <<tables, tasks, wakes>>
    BY DEF RelayHeard, RouteEstablished
  <1>2. EnvironmentOK'
    BY DurationsAssumption DEF RelayHeard, RouteEstablished, TypeOK, EnvironmentOK, Allocated,
                               tables, routing
  <1> QED BY <1>1, <1>2, HandlerType, NoActionsType DEF TypeOK, TablesOK, tables

LEMMA ShutdownType ==
    ASSUME TypeOK, NEW h \in Handlers, Shutdown(h)
    PROVE  TypeOK'
  <1> DEFINE acts == [i \in LiveSends |-> [handedOff |-> FALSE, verdict |-> "Cancelled"]]
  <1>1. Allocated' = Allocated
    BY SameIds DEF Shutdown
  <1>2. DOMAIN acts \subseteq Allocated /\ acts \in [DOMAIN acts -> Owed]
    BY SettledType DEF LiveSends, TypeOK, TablesOK, Verdicts
  <1>3. Commit(h, "drain", acts)
    BY DEF Shutdown, LiveSends
  <1>4. BatchesOK'
    <2> HIDE DEF acts
    <2> QED BY <1>1, <1>2, <1>3, CommitType, HandlerIsTask DEF TypeOK
  <1>5. TablesOK'
    BY <1>1 DEF Shutdown, Without, TypeOK, TablesOK
  <1>6. TasksOK' /\ EnvironmentOK'
    BY <1>1, EnvironmentFrame
       DEF Shutdown, TypeOK, TasksOK, NoLoan, NoSend, Never, wakes, routing
  <1> QED BY <1>4, <1>5, <1>6 DEF TypeOK

LEMMA RunActionType ==
    ASSUME TypeOK, NEW t \in Tasks, NEW i \in DOMAIN owes[t],
           RunHandedOff(t, i) \/ RunSettled(t, i)
    PROVE  TypeOK'
  <1>1. Allocated' = Allocated
    BY SameIds DEF RunHandedOff, RunSettled
  <1>2. i \in Allocated /\ slots[i] \in Slot /\ owes[t][i] \in Owed
    BY DEF TypeOK, TablesOK, BatchesOK
  <1>3. slots' \in [Allocated -> Slot]
    <2>1. CASE RunHandedOff(t, i)
      BY <1>2, <2>1 DEF RunHandedOff, TypeOK, TablesOK, Slot, Verdicts
    <2>2. CASE RunSettled(t, i)
      BY <1>2, <2>2 DEF RunSettled, TypeOK, TablesOK, Slot, Owed
    <2> QED BY <2>1, <2>2
  <1>4. \E acts : /\ owes' = [owes EXCEPT ![t] = acts] /\ phase' = phase
                  /\ DOMAIN acts \subseteq Allocated /\ acts \in [DOMAIN acts -> Owed]
    <2>1. DOMAIN Without(owes[t], {i}) \subseteq Allocated
          /\ Without(owes[t], {i}) \in [DOMAIN Without(owes[t], {i}) -> Owed]
      BY DEF Without, TypeOK, BatchesOK
    <2>2. [handedOff |-> FALSE, verdict |-> owes[t][i].verdict] \in Owed
      BY <1>2 DEF Owed
    <2>3. \A a \in Owed : /\ DOMAIN Put(owes[t], i, a) \subseteq Allocated
                          /\ Put(owes[t], i, a) \in [DOMAIN Put(owes[t], i, a) -> Owed]
      BY <1>2 DEF Put, TypeOK, BatchesOK
    <2> QED BY <2>1, <2>2, <2>3 DEF RunHandedOff, RunSettled
  <1>5. BatchesOK'
    BY <1>1, <1>4 DEF TypeOK, BatchesOK
  <1>6. TablesOK' /\ TasksOK' /\ EnvironmentOK'
    BY <1>1, <1>3, TasksFrame, EnvironmentFrame
       DEF RunHandedOff, RunSettled, TypeOK, TablesOK, routing
  <1> QED BY <1>5, <1>6 DEF TypeOK

LEMMA FinishCommitType ==
    ASSUME TypeOK, NEW t \in Tasks, FinishCommit(t)
    PROVE  TypeOK'
  <1>1. sendWake' \in BOOLEAN /\ timerWake' \in BOOLEAN
    BY Zenon DEF FinishCommit, TypeOK, TasksOK
  <1>2. TasksOK'
    BY <1>1 DEF FinishCommit, TypeOK, TasksOK, tasks
  <1>3. TablesOK' /\ EnvironmentOK'
    BY TablesFrame DEF FinishCommit, TypeOK, routing
  <1>4. BatchesOK'
    BY SameIds DEF FinishCommit, TypeOK, BatchesOK, tables
  <1> QED BY <1>2, <1>3, <1>4 DEF TypeOK

LEMMA ElapseType ==
    ASSUME TypeOK, Elapse
    PROVE  TypeOK'
  <1>1. Allocated' = Allocated
    BY SameIds DEF Elapse
  <1>2. \A n \in Nat : Dec(n) \in Nat
    BY DEF Dec
  <1>3. unicasts' \in [DOMAIN unicasts -> UnicastRecord]
    <2>1. \A i \in DOMAIN unicasts :
             [unicasts[i] EXCEPT !.deadline = Dec(@), !.at = Dec(@)] \in UnicastRecord
      <3> TAKE i \in DOMAIN unicasts
      <3>1. unicasts[i] \in UnicastRecord
        BY DEF TypeOK, TablesOK
      <3> QED BY <1>2, <3>1 DEF UnicastRecord
    <2> QED BY <2>1 DEF Elapse
  <1>4. unrouted' \in [DOMAIN unrouted -> UnroutedRecord]
    <2>1. \A i \in DOMAIN unrouted : [unrouted[i] EXCEPT !.deadline = Dec(@)] \in UnroutedRecord
      <3> TAKE i \in DOMAIN unrouted
      <3>1. unrouted[i] \in UnroutedRecord
        BY DEF TypeOK, TablesOK
      <3> QED BY <1>2, <3>1 DEF UnroutedRecord
    <2> QED BY <2>1 DEF Elapse
  <1>5. broadcasts' \in [DOMAIN broadcasts -> BroadcastRecord]
    <2>1. \A i \in DOMAIN broadcasts :
             [broadcasts[i] EXCEPT !.deadline = Dec(@), !.nextAttempt = Dec(@)] \in BroadcastRecord
      <3> TAKE i \in DOMAIN broadcasts
      <3>1. broadcasts[i] \in BroadcastRecord
        BY DEF TypeOK, TablesOK
      <3> QED BY <1>2, <3>1 DEF BroadcastRecord
    <2> QED BY <2>1 DEF Elapse
  <1>6. TablesOK'
    BY <1>1, <1>3, <1>4, <1>5 DEF Elapse, TypeOK, TablesOK
  <1>7. armed' \in Nat \cup {Never}
    BY <1>2 DEF Elapse, TypeOK, TasksOK, Never
  <1>8. TasksOK'
    BY <1>7 DEF Elapse, TypeOK, TasksOK, wakes
  <1>9. EnvironmentOK'
    BY <1>1, <1>2 DEF Elapse, TypeOK, EnvironmentOK
  <1>10. BatchesOK'
    BY <1>1 DEF Elapse, TypeOK, BatchesOK
  <1> QED BY <1>6, <1>8, <1>9, <1>10 DEF TypeOK

\* TypeOK is preserved by every step; a report needs LoanIntact, for the record whose
\* frame it returns.
LEMMA TypeStep == TypeOK /\ LoanIntact /\ [Next]_vars => TypeOK'
  <1> SUFFICES ASSUME TypeOK, LoanIntact, [Next]_vars
               PROVE  TypeOK'
    OBVIOUS
  <1>1. CASE SenderStep
    BY <1>1, SenderStepType
  <1>2. CASE \E result \in {"Ok", RadioError} : SenderReports(result)
    BY <1>2, SenderReportsType
  <1>3. CASE TimerStep
    BY <1>3, DriveSendsType, TimerWakesType DEF TimerStep
  <1>4. ASSUME NEW h \in Handlers, HandlerStep(h)
        PROVE  TypeOK'
    BY <1>4, EnqueueUnicastType, SendUnroutedType, EnqueueBroadcastType, PollType,
       DropIndirectType, AckReceivedType, CancelUnicastType, CancelUnroutedType,
       CancelBroadcastType, EventType, ShutdownType DEF HandlerStep
  <1>5. ASSUME NEW t \in Tasks, RunAction(t) \/ FinishCommit(t)
        PROVE  TypeOK'
    BY <1>5, RunActionType, FinishCommitType DEF RunAction
  <1>6. CASE \E d \in Destinations : RouteLost(d)
    BY <1>6, TablesFrame, TasksFrame DEF RouteLost, TypeOK, EnvironmentOK, tables, Allocated
  <1>7. CASE Elapse
    BY <1>7, ElapseType
  <1>8. CASE UNCHANGED vars
    BY <1>8 DEF vars, TypeOK, TablesOK, TasksOK, BatchesOK, EnvironmentOK, Allocated
  <1> QED BY <1>1, <1>2, <1>3, <1>4, <1>5, <1>6, <1>7, <1>8 DEF Next

-----------------------------------------------------------------------------
(* The frame on loan to the radio *)

\* A step that leaves the loan alone keeps it intact if the records in the radio stay
\* where they are, no other record claims to be there, and every frame is accounted for.
LEMMA LoanFrame ==
    ASSUME TypeOK, LoanIntact, loan' = loan, sender' = sender,
           \A i \in DOMAIN unicasts' :
              /\ unicasts'[i].frame <=> unicasts'[i].stage # "Transmitting"
              /\ unicasts'[i].stage = "Transmitting"
                    => i \in DOMAIN unicasts /\ unicasts[i].stage = "Transmitting",
           \A i \in DOMAIN unicasts : unicasts[i].stage = "Transmitting"
              => i \in DOMAIN unicasts' /\ unicasts'[i].stage = "Transmitting",
           \A i \in DOMAIN broadcasts' :
              /\ broadcasts'[i].frame <=> broadcasts'[i].copy # "Transmitting"
              /\ broadcasts'[i].copy = "Transmitting"
                    => i \in DOMAIN broadcasts /\ broadcasts[i].copy = "Transmitting",
           \A i \in DOMAIN broadcasts : broadcasts[i].copy = "Transmitting"
              => i \in DOMAIN broadcasts' /\ broadcasts'[i].copy = "Transmitting"
    PROVE  LoanIntact'
  <1>1. \A i \in DOMAIN unicasts' :
           unicasts'[i].stage = "Transmitting" <=> loan = [id |-> i, transmit |-> "Unicast"]
    <2> SUFFICES ASSUME NEW i \in DOMAIN unicasts', loan = [id |-> i, transmit |-> "Unicast"]
                 PROVE  unicasts'[i].stage = "Transmitting"
      BY DEF LoanIntact
    <2> QED BY DEF LoanIntact, NoLoan
  <1>2. \A i \in DOMAIN broadcasts' :
           broadcasts'[i].copy = "Transmitting" <=> loan = [id |-> i, transmit |-> "Broadcast"]
    <2> SUFFICES ASSUME NEW i \in DOMAIN broadcasts', loan = [id |-> i, transmit |-> "Broadcast"]
                 PROVE  broadcasts'[i].copy = "Transmitting"
      BY DEF LoanIntact
    <2> QED BY DEF LoanIntact, NoLoan
  <1>3. sender = "radio" => \/ loan.transmit = "Unicast" /\ loan.id \in DOMAIN unicasts'
                            \/ loan.transmit = "Broadcast" /\ loan.id \in DOMAIN broadcasts'
    <2> SUFFICES ASSUME sender = "radio"
                 PROVE  \/ loan.transmit = "Unicast" /\ loan.id \in DOMAIN unicasts'
                        \/ loan.transmit = "Broadcast" /\ loan.id \in DOMAIN broadcasts'
      OBVIOUS
    <2>0. loan = [id |-> loan.id, transmit |-> loan.transmit]
      BY DEF TypeOK, TasksOK
    <2>1. CASE loan.transmit = "Unicast" /\ loan.id \in DOMAIN unicasts
      BY <2>0, <2>1 DEF LoanIntact
    <2>2. CASE loan.transmit = "Broadcast" /\ loan.id \in DOMAIN broadcasts
      BY <2>0, <2>2 DEF LoanIntact
    <2> QED BY <2>1, <2>2 DEF LoanIntact
  <1> QED BY <1>1, <1>2, <1>3 DEF LoanIntact

\* A record fresh from an enqueue holds its frame.
LEMMA NewRecordsAtHome ==
    /\ \A r, a, c : LET u == NewUnicast(r, a, c) IN u.frame /\ u.stage # "Transmitting"
    /\ \A r : LET b == NewBroadcast(r) IN b.frame /\ b.copy # "Transmitting"
  BY DEF NewUnicast, NewBroadcast

LEMMA AdmissionKeepsLoan ==
    ASSUME TypeOK, LoanIntact, NEW h \in Handlers,
           \/ \E r \in UnicastRequests : EnqueueUnicast(h, r)
           \/ \E r \in UnroutedRequests : SendUnrouted(h, r)
           \/ \E r \in BroadcastRequests : EnqueueBroadcast(h, r)
    PROVE  LoanIntact'
  <1>1. loan' = loan /\ sender' = sender
    BY DEF EnqueueUnicast, SendUnrouted, EnqueueBroadcast, tasks
  <1>2. nextId \notin DOMAIN unicasts /\ nextId \notin DOMAIN broadcasts
        /\ nextId + 1 \notin DOMAIN broadcasts
    BY DEF TypeOK, TablesOK, Allocated
  <1>3. CASE \E r \in UnicastRequests : EnqueueUnicast(h, r)
    <2> PICK r \in UnicastRequests : EnqueueUnicast(h, r)
      BY <1>3
    <2>1. /\ unicasts' = Put(unicasts, nextId, NewUnicast(r, Never, NoSend))
          /\ broadcasts' = broadcasts
      BY DEF EnqueueUnicast
    <2> QED BY <1>1, <1>2, <2>1, NewRecordsAtHome, LoanFrame DEF Put, LoanIntact
  <1>4. CASE \E r \in UnroutedRequests : SendUnrouted(h, r)
    <2>1. /\ unicasts' = unicasts
          /\ \/ broadcasts' = broadcasts
             \/ broadcasts' = Put(broadcasts, nextId + 1, RouteRequest)
      BY <1>4 DEF SendUnrouted
    <2>2. RouteRequest.frame /\ RouteRequest.copy # "Transmitting"
      BY NewRecordsAtHome DEF RouteRequest
    <2> QED BY <1>1, <1>2, <2>1, <2>2, LoanFrame DEF Put, LoanIntact
  <1>5. CASE \E r \in BroadcastRequests : EnqueueBroadcast(h, r)
    <2> PICK r \in BroadcastRequests : EnqueueBroadcast(h, r)
      BY <1>5
    <2> DEFINE copyIds == nextId + 1 .. nextId + Len(r.children)
               copy(i) == NewUnicast([priority |-> UserNormal, confirm |-> OnHandoff,
                                      poll |-> r.children[i - nextId]], Never, nextId)
    <2>1. /\ unicasts' = [i \in DOMAIN unicasts \cup copyIds |->
                             IF i \in copyIds THEN copy(i) ELSE unicasts[i]]
          /\ broadcasts' = Put(broadcasts, nextId, NewBroadcast(r))
      BY DEF EnqueueBroadcast
    <2>2. copyIds \cap DOMAIN unicasts = {}
      BY DEF TypeOK, TablesOK, Allocated
    <2>3. \A i : copy(i).frame /\ copy(i).stage # "Transmitting"
      BY NewRecordsAtHome
    <2>4. NewBroadcast(r).frame /\ NewBroadcast(r).copy # "Transmitting"
      BY NewRecordsAtHome
    <2> HIDE DEF copyIds, copy
    <2> QED BY <1>1, <1>2, <2>1, <2>2, <2>3, <2>4, LoanFrame DEF Put, LoanIntact
  <1> QED BY <1>3, <1>4, <1>5

LEMMA SenderStepKeepsLoan ==
    ASSUME TypeOK, LoanIntact, SenderStep
    PROVE  LoanIntact'
  <1>1. CASE SenderDequeues
    <2>1. PICK i \in Ready : LendUnicast(i) \/ LendBroadcast(i)
      BY <1>1 DEF SenderDequeues
    <2>2. loan = NoLoan /\ sender' = "radio"
      BY <1>1 DEF SenderDequeues, LoanIntact
    <2>3. /\ \A j \in DOMAIN unicasts : unicasts[j].stage # "Transmitting" /\ unicasts[j].frame
          /\ \A j \in DOMAIN broadcasts : broadcasts[j].copy # "Transmitting" /\ broadcasts[j].frame
      BY <2>2 DEF LoanIntact, NoLoan
    <2>4. CASE LendUnicast(i)
      <3>1. /\ i \in DOMAIN unicasts /\ unicasts[i] \in UnicastRecord
            /\ loan' = [id |-> i, transmit |-> "Unicast"] /\ broadcasts' = broadcasts
            /\ DOMAIN unicasts' = DOMAIN unicasts
            /\ \A j \in DOMAIN unicasts : j # i => unicasts'[j] = unicasts[j]
        BY <2>4 DEF LendUnicast, ReadyUnicasts, TypeOK, TablesOK
      <3>2. unicasts'[i].stage = "Transmitting" /\ ~unicasts'[i].frame
        BY <2>4, <3>1 DEF LendUnicast, UnicastRecord
      <3> QED BY <2>2, <2>3, <3>1, <3>2 DEF LoanIntact
    <2>5. CASE LendBroadcast(i)
      <3>1. /\ i \in DOMAIN broadcasts /\ broadcasts[i] \in BroadcastRecord
            /\ loan' = [id |-> i, transmit |-> "Broadcast"] /\ unicasts' = unicasts
            /\ DOMAIN broadcasts' = DOMAIN broadcasts
            /\ \A j \in DOMAIN broadcasts : j # i => broadcasts'[j] = broadcasts[j]
        BY <2>5 DEF LendBroadcast, ReadyBroadcasts, TypeOK, TablesOK
      <3>2. broadcasts'[i].copy = "Transmitting" /\ ~broadcasts'[i].frame
        BY <2>5, <3>1 DEF LendBroadcast, BroadcastRecord
      <3> QED BY <2>2, <2>3, <3>1, <3>2 DEF LoanIntact
    <2> QED BY <2>1, <2>4, <2>5
  <1>2. CASE SenderParks \/ SenderWakes
    BY <1>2 DEF SenderParks, SenderWakes, LoanIntact, tables
  <1> QED BY <1>1, <1>2 DEF SenderStep

\* The report returns the frame: the record is gone, or holds it again.
LEMMA SenderReportsKeepsLoan ==
    ASSUME TypeOK, LoanIntact, NEW result \in {"Ok", RadioError}, SenderReports(result)
    PROVE  LoanIntact'
  <1> DEFINE i == loan.id
  <1>1. loan' = NoLoan /\ sender' = "ready" /\ sender = "radio"
    BY DEF SenderReports
  <1>2. loan = [id |-> i, transmit |-> loan.transmit]
    BY DEF TypeOK, TasksOK
  <1>3. CASE loan.transmit = "Unicast"
    <2>1. PICK delay : ReportUnicast(i, result, delay)
      BY <1>3 DEF SenderReports
    <2>2. i \in DOMAIN unicasts /\ unicasts[i] \in UnicastRecord
      BY <1>1, <1>3 DEF LoanIntact, TypeOK, TablesOK
    <2>3. /\ broadcasts' = broadcasts
          /\ DOMAIN unicasts' \subseteq DOMAIN unicasts
          /\ \A j \in DOMAIN unicasts' : j # i => unicasts'[j] = unicasts[j]
      BY <2>1, <2>2 DEF ReportUnicast, Without, Put
    <2>4. i \in DOMAIN unicasts' => unicasts'[i].frame /\ unicasts'[i].stage # "Transmitting"
      <3>1. i \in DOMAIN unicasts' => unicasts'[i] = UnicastReportRecord(unicasts[i], result, delay)
        BY <2>1, <2>2 DEF ReportUnicast, Without, Put
      <3>2. LET v == UnicastReportRecord(unicasts[i], result, delay)
            IN  v.frame /\ v.stage # "Transmitting"
        BY <2>2 DEF UnicastReportRecord, UnicastRecord
      <3> QED BY <3>1, <3>2
    <2> QED BY <1>1, <1>2, <1>3, <2>3, <2>4 DEF LoanIntact, NoLoan
  <1>4. CASE loan.transmit = "Broadcast"
    <2>1. PICK interval : ReportBroadcast(i, result, interval)
      BY <1>4 DEF SenderReports
    <2>2. i \in DOMAIN broadcasts /\ broadcasts[i] \in BroadcastRecord
      BY <1>1, <1>4 DEF LoanIntact, TypeOK, TablesOK
    <2>3. /\ unicasts' = unicasts
          /\ DOMAIN broadcasts' \subseteq DOMAIN broadcasts
          /\ \A j \in DOMAIN broadcasts' : j # i => broadcasts'[j] = broadcasts[j]
      BY <2>1, <2>2 DEF ReportBroadcast, Without, Put
    <2>4. i \in DOMAIN broadcasts' =>
             broadcasts'[i].frame /\ broadcasts'[i].copy # "Transmitting"
      <3>1. i \in DOMAIN broadcasts' =>
               broadcasts'[i] = BroadcastReportRecord(broadcasts[i], result, interval)
        BY <2>1, <2>2 DEF ReportBroadcast, Without, Put
      <3>2. LET c == BroadcastReportRecord(broadcasts[i], result, interval)
            IN  c.frame /\ c.copy # "Transmitting"
        BY <2>2 DEF BroadcastReportRecord, BroadcastRecord
      <3> QED BY <3>1, <3>2
    <2> QED BY <1>1, <1>2, <1>4, <2>3, <2>4 DEF LoanIntact, NoLoan
  <1> QED BY <1>3, <1>4 DEF SenderReports

\* A pass neither settles nor moves a record in the radio.
LEMMA PassLeavesRadio ==
    ASSUME TypeOK, NEW polls \in [RoutedDests -> RoutedPolls]
    PROVE  /\ \A i \in DOMAIN unicasts :
                 /\ unicasts[i].stage = "Transmitting" => i \notin Lapsing(polls)
                 /\ UnicastTickRecord(UnicastPass(i, polls)).stage = "Transmitting"
                       <=> unicasts[i].stage = "Transmitting"
                 /\ UnicastTickRecord(UnicastPass(i, polls)).frame = unicasts[i].frame
           /\ \A i \in DOMAIN broadcasts :
                 /\ broadcasts[i].copy = "Transmitting" => i \notin Ending
                 /\ BroadcastTickRecord(Heard(i)).copy = "Transmitting"
                       <=> broadcasts[i].copy = "Transmitting"
                 /\ BroadcastTickRecord(Heard(i)).frame = broadcasts[i].frame
  <1>1. ASSUME NEW i \in DOMAIN unicasts
        PROVE  /\ unicasts[i].stage = "Transmitting" => i \notin Lapsing(polls)
               /\ UnicastTickRecord(UnicastPass(i, polls)).stage = "Transmitting"
                     <=> unicasts[i].stage = "Transmitting"
               /\ UnicastTickRecord(UnicastPass(i, polls)).frame = unicasts[i].frame
    <2>1. unicasts[i] \in UnicastRecord /\ UnicastPass(i, polls) = unicasts[i]
      BY DEF TypeOK, TablesOK, UnicastPass
    <2> QED BY <2>1 DEF Lapsing, UnicastTickVerdict, UnicastTickRecord, UnicastRecord
  <1>2. ASSUME NEW i \in DOMAIN broadcasts
        PROVE  /\ broadcasts[i].copy = "Transmitting" => i \notin Ending
               /\ BroadcastTickRecord(Heard(i)).copy = "Transmitting"
                     <=> broadcasts[i].copy = "Transmitting"
               /\ BroadcastTickRecord(Heard(i)).frame = broadcasts[i].frame
    <2>1. broadcasts[i] \in BroadcastRecord
      BY DEF TypeOK, TablesOK
    <2>2. /\ Heard(i) \in BroadcastRecord
          /\ Heard(i).copy = broadcasts[i].copy /\ Heard(i).frame = broadcasts[i].frame
      BY <2>1 DEF Heard, BroadcastRecord
    <2>3. /\ BroadcastTickRecord(Heard(i)).copy = "Transmitting" <=> Heard(i).copy = "Transmitting"
          /\ BroadcastTickRecord(Heard(i)).frame = Heard(i).frame
      BY <2>2 DEF BroadcastTickRecord, CopyDue, BroadcastRecord
    <2>4. broadcasts[i].copy = "Transmitting" => BroadcastVerdict(i) = Unset
      BY <2>2 DEF BroadcastVerdict, DeliveredNow, BroadcastTickVerdict, ScheduleOver
    <2> QED BY <2>2, <2>3, <2>4 DEF Ending
  <1> QED BY <1>1, <1>2

LEMMA DriveSendsKeepsLoan ==
    ASSUME TypeOK, LoanIntact, DriveSends
    PROVE  LoanIntact'
  <1>1. PICK polls \in [RoutedDests -> RoutedPolls] :
          unicasts' = [i \in PassSends \ Lapsing(polls) |-> UnicastTickRecord(UnicastPass(i, polls))]
    BY DEF DriveSends
  <1>2. PICK ids \in [RestartedDests -> nextId .. nextId + Cardinality(RestartedDests) - 1] :
          broadcasts' = [i \in (DOMAIN broadcasts \ Ending) \cup {ids[d] : d \in RestartedDests} |->
                            IF i \in DOMAIN broadcasts THEN BroadcastTickRecord(Heard(i))
                            ELSE RouteRequest]
    BY DEF DriveSends
  <1>3. loan' = loan /\ sender' = sender
    BY DEF DriveSends
  <1>4. \A i \in PassSends \ DOMAIN unicasts :
           LET u == UnicastTickRecord(UnicastPass(i, polls))
           IN  u.frame /\ u.stage # "Transmitting"
    <2> TAKE i \in PassSends \ DOMAIN unicasts
    <2>1. UnicastPass(i, polls) \in UnicastRecord
      BY UnicastPassType DEF PassSends
    <2>2. UnicastPass(i, polls).frame /\ UnicastPass(i, polls).stage # "Transmitting"
      BY NewRecordsAtHome DEF UnicastPass, Routed
    <2> QED BY <2>1, <2>2 DEF UnicastTickRecord, UnicastRecord
  <1>5. RouteRequest.frame /\ RouteRequest.copy # "Transmitting"
    BY NewRecordsAtHome DEF RouteRequest
  <1>6. \A i \in DOMAIN unicasts' :
           /\ unicasts'[i].frame <=> unicasts'[i].stage # "Transmitting"
           /\ unicasts'[i].stage = "Transmitting"
                 => i \in DOMAIN unicasts /\ unicasts[i].stage = "Transmitting"
    BY <1>1, <1>4, PassLeavesRadio DEF LoanIntact
  <1>7. \A i \in DOMAIN unicasts : unicasts[i].stage = "Transmitting"
           => i \in DOMAIN unicasts' /\ unicasts'[i].stage = "Transmitting"
    BY <1>1, PassLeavesRadio DEF PassSends
  <1>8. \A i \in DOMAIN broadcasts' :
           /\ broadcasts'[i].frame <=> broadcasts'[i].copy # "Transmitting"
           /\ broadcasts'[i].copy = "Transmitting"
                 => i \in DOMAIN broadcasts /\ broadcasts[i].copy = "Transmitting"
    BY <1>2, <1>5, PassLeavesRadio DEF LoanIntact
  <1>9. \A i \in DOMAIN broadcasts : broadcasts[i].copy = "Transmitting"
           => i \in DOMAIN broadcasts' /\ broadcasts'[i].copy = "Transmitting"
    BY <1>1, <1>2, PassLeavesRadio
  <1> QED BY <1>3, <1>6, <1>7, <1>8, <1>9, LoanFrame

\* Acks, polls, cancellations and evictions never touch a record in the radio.
LEMMA HandlerKeepsLoan ==
    ASSUME TypeOK, LoanIntact, NEW h \in Handlers, HandlerStep(h)
    PROVE  LoanIntact'
  <1>1. ASSUME NEW device \in Devices, Poll(h, device)
        PROVE  LoanIntact'
    <2>1. DOMAIN unicasts' = DOMAIN unicasts /\ broadcasts' = broadcasts
          /\ loan' = loan /\ sender' = sender
      BY <1>1 DEF Poll, tasks
    <2>2. \A i \in DOMAIN unicasts :
             /\ unicasts'[i].stage = "Transmitting" <=> unicasts[i].stage = "Transmitting"
             /\ unicasts'[i].frame = unicasts[i].frame
      <3> TAKE i \in DOMAIN unicasts
      <3>1. unicasts[i] \in UnicastRecord
        BY DEF TypeOK, TablesOK
      <3>2. \/ unicasts'[i] = unicasts[i]
            \/ /\ unicasts[i].stage = "AwaitingPoll"
               /\ unicasts'[i] = [unicasts[i] EXCEPT !.stage = "Queued", !.priority = StackCritical]
        BY <1>1 DEF Poll
      <3> QED BY <3>1, <3>2 DEF UnicastRecord
    <2> QED BY <2>1, <2>2, LoanFrame DEF LoanIntact
  <1>2. ASSUME NEW key \in AckKeys, AckReceived(h, key)
        PROVE  LoanIntact'
    <2>1. broadcasts' = broadcasts /\ loan' = loan /\ sender' = sender
      BY <1>2 DEF AckReceived, tasks
    <2>2. /\ DOMAIN unicasts' \subseteq DOMAIN unicasts
          /\ \A i \in DOMAIN unicasts : unicasts[i].stage = "Transmitting" => i \in DOMAIN unicasts'
      BY <1>2 DEF AckReceived
    <2>3. \A i \in DOMAIN unicasts' :
             unicasts'[i].stage = unicasts[i].stage /\ unicasts'[i].frame = unicasts[i].frame
      <3> TAKE i \in DOMAIN unicasts'
      <3>1. unicasts[i] \in UnicastRecord
        BY <2>2 DEF TypeOK, TablesOK
      <3>2. unicasts'[i] = unicasts[i] \/ unicasts'[i] = [unicasts[i] EXCEPT !.acked = TRUE]
        BY <1>2 DEF AckReceived
      <3> QED BY <3>1, <3>2 DEF UnicastRecord
    <2> QED BY <2>1, <2>2, <2>3, LoanFrame DEF LoanIntact
  <1>3. ASSUME NEW device \in Devices, DropIndirect(h, device)
        PROVE  LoanIntact'
    BY <1>3, LoanFrame DEF DropIndirect, Without, tasks, LoanIntact
  <1>4. ASSUME NEW i, CancelUnicast(h, i)
        PROVE  LoanIntact'
    BY <1>4, LoanFrame DEF CancelUnicast, Without, tasks, LoanIntact
  <1>5. ASSUME NEW i, CancelUnrouted(h, i)
        PROVE  LoanIntact'
    BY <1>5 DEF CancelUnrouted, tasks, LoanIntact
  <1>6. ASSUME NEW i, CancelBroadcast(h, i)
        PROVE  LoanIntact'
    BY <1>6, LoanFrame DEF CancelBroadcast, CopiesOf, Without, tasks, LoanIntact
  <1>7. ASSUME \/ \E i \in Allocated : RelayHeard(h, i)
               \/ \E d \in Destinations : RouteEstablished(h, d)
        PROVE  LoanIntact'
    BY <1>7 DEF RelayHeard, RouteEstablished, tables, tasks, LoanIntact
  <1>8. CASE Shutdown(h)
    BY <1>8 DEF Shutdown, Without, LoanIntact
  <1> QED BY <1>1, <1>2, <1>3, <1>4, <1>5, <1>6, <1>7, <1>8, AdmissionKeepsLoan DEF HandlerStep

LEMMA ElapseKeepsLoan ==
    ASSUME TypeOK, LoanIntact, Elapse
    PROVE  LoanIntact'
  <1>1. /\ DOMAIN unicasts' = DOMAIN unicasts /\ DOMAIN broadcasts' = DOMAIN broadcasts
        /\ loan' = loan /\ sender' = sender
    BY DEF Elapse
  <1>2. \A i \in DOMAIN unicasts :
           unicasts'[i].stage = unicasts[i].stage /\ unicasts'[i].frame = unicasts[i].frame
    <2> TAKE i \in DOMAIN unicasts
    <2>1. unicasts[i] \in UnicastRecord
      BY DEF TypeOK, TablesOK
    <2> QED BY <2>1 DEF Elapse, UnicastRecord
  <1>3. \A i \in DOMAIN broadcasts :
           broadcasts'[i].copy = broadcasts[i].copy /\ broadcasts'[i].frame = broadcasts[i].frame
    <2> TAKE i \in DOMAIN broadcasts
    <2>1. broadcasts[i] \in BroadcastRecord
      BY DEF TypeOK, TablesOK
    <2> QED BY <2>1 DEF Elapse, BroadcastRecord
  <1> QED BY <1>1, <1>2, <1>3, LoanFrame DEF LoanIntact

LEMMA LoanStep == TypeOK /\ LoanIntact /\ [Next]_vars => LoanIntact'
  <1> SUFFICES ASSUME TypeOK, LoanIntact, [Next]_vars
               PROVE  LoanIntact'
    OBVIOUS
  <1>1. CASE SenderStep
    BY <1>1, SenderStepKeepsLoan
  <1>2. CASE \E result \in {"Ok", RadioError} : SenderReports(result)
    BY <1>2, SenderReportsKeepsLoan
  <1>3. CASE DriveSends
    BY <1>3, DriveSendsKeepsLoan
  <1>4. CASE TimerWakes
    BY <1>4 DEF TimerWakes, tables, LoanIntact
  <1>5. ASSUME NEW h \in Handlers, HandlerStep(h)
        PROVE  LoanIntact'
    BY <1>5, HandlerKeepsLoan
  <1>6. ASSUME NEW t \in Tasks, RunAction(t) \/ FinishCommit(t)
        PROVE  LoanIntact'
    BY <1>6 DEF RunAction, RunHandedOff, RunSettled, FinishCommit, tables, tasks, LoanIntact
  <1>7. CASE \E d \in Destinations : RouteLost(d)
    BY <1>7 DEF RouteLost, tables, tasks, LoanIntact
  <1>8. CASE Elapse
    BY <1>8, ElapseKeepsLoan
  <1>9. CASE UNCHANGED vars
    BY <1>9 DEF vars, LoanIntact
  <1> QED BY <1>1, <1>2, <1>3, <1>4, <1>5, <1>6, <1>7, <1>8, <1>9 DEF Next, TimerStep

-----------------------------------------------------------------------------
(* The destinations of held sends *)

\* One pass of the timer that leaves a send unrouted leaves its destination awaited: had the route
\* come, the send would be routed or timed out; had the discovery been given up, it would fail.
LEMMA PassKeepsWatch ==
    ASSUME TypeOK, HeldSendsAreWatched, DriveSends
    PROVE  HeldSendsAreWatched'
  <1>1. /\ DOMAIN unrouted' = DOMAIN unrouted \ (RoutedSends \cup Failing)
        /\ \A i \in DOMAIN unrouted' : unrouted'[i] = unrouted[i]
        /\ DOMAIN retries' = DOMAIN retries \ (RoutedDests \cup FailedDests)
    BY DEF DriveSends, Without
  <1> SUFFICES ASSUME NEW i \in DOMAIN unrouted \ (RoutedSends \cup Failing)
               PROVE  unrouted[i].destination \notin RoutedDests \cup FailedDests
    BY <1>1 DEF HeldSendsAreWatched
  <1>2. UnroutedVerdict(i) = Unset
    BY DEF Failing
  <1>3. unrouted[i].deadline > 0
    <2>1. unrouted[i].deadline \in Nat /\ unrouted[i].deadline # 0
      BY <1>2 DEF UnroutedVerdict, Unset, TypeOK, TablesOK, UnroutedRecord
    <2> QED BY <2>1
  <1>4. unrouted[i].destination \notin RoutedDests
    BY <1>3 DEF RoutedSends
  <1>5. unrouted[i].destination \notin FailedDests
    <2>1. ~ \E d \in FailedDests : WaitsFor(i, d)
      BY <1>2 DEF UnroutedVerdict, Unset
    <2> QED BY <1>3, <2>1 DEF WaitsFor
  <1> QED BY <1>4, <1>5

LEMMA AdmissionKeepsWatch ==
    ASSUME HeldSendsAreWatched, NEW h, NEW request, SendUnrouted(h, request)
    PROVE  HeldSendsAreWatched'
  <1>1. /\ DOMAIN unrouted' = DOMAIN unrouted \cup {nextId}
        /\ unrouted'[nextId].destination = request.destination
        /\ \A i \in DOMAIN unrouted \ {nextId} : unrouted'[i] = unrouted[i]
    BY DEF SendUnrouted, Put
  <1>2. DOMAIN retries \cup {request.destination} \subseteq DOMAIN retries'
    BY DEF SendUnrouted, Put
  <1> QED BY <1>1, <1>2 DEF HeldSendsAreWatched

LEMMA HandlerKeepsWatch ==
    ASSUME HeldSendsAreWatched, NEW h \in Handlers, HandlerStep(h)
    PROVE  HeldSendsAreWatched'
  <1>1. ASSUME NEW request, EnqueueUnicast(h, request) \/ EnqueueBroadcast(h, request)
        PROVE  HeldSendsAreWatched'
    BY <1>1 DEF EnqueueUnicast, EnqueueBroadcast, HeldSendsAreWatched
  <1>2. ASSUME NEW request, SendUnrouted(h, request)
        PROVE  HeldSendsAreWatched'
    BY <1>2, AdmissionKeepsWatch
  <1>3. ASSUME \/ \E device \in Devices : Poll(h, device) \/ DropIndirect(h, device)
               \/ \E key \in AckKeys : AckReceived(h, key)
               \/ \E i \in Allocated : CancelUnicast(h, i) \/ CancelBroadcast(h, i)
               \/ \E i \in Allocated : RelayHeard(h, i)
               \/ \E d \in Destinations : RouteEstablished(h, d)
        PROVE  HeldSendsAreWatched'
    BY <1>3 DEF Poll, AckReceived, DropIndirect, CancelUnicast, CancelBroadcast, RelayHeard,
                RouteEstablished, tables, HeldSendsAreWatched
  <1>4. ASSUME NEW i, CancelUnrouted(h, i)
        PROVE  HeldSendsAreWatched'
    BY <1>4 DEF CancelUnrouted, Without, HeldSendsAreWatched
  <1>5. CASE Shutdown(h)
    BY <1>5 DEF Shutdown, Without, HeldSendsAreWatched
  <1> QED BY <1>1, <1>2, <1>3, <1>4, <1>5 DEF HandlerStep

LEMMA WatchStep == TypeOK /\ HeldSendsAreWatched /\ [Next]_vars => HeldSendsAreWatched'
  <1> SUFFICES ASSUME TypeOK, HeldSendsAreWatched, [Next]_vars
               PROVE  HeldSendsAreWatched'
    OBVIOUS
  <1>1. CASE SenderStep \/ \E result \in {"Ok", RadioError} : SenderReports(result)
    BY <1>1 DEF SenderStep, SenderDequeues, SenderParks, SenderWakes, SenderReports, tables,
                HeldSendsAreWatched
  <1>2. CASE DriveSends
    BY <1>2, PassKeepsWatch
  <1>3. CASE TimerWakes
    BY <1>3 DEF TimerWakes, tables, HeldSendsAreWatched
  <1>4. ASSUME NEW h \in Handlers, HandlerStep(h)
        PROVE  HeldSendsAreWatched'
    BY <1>4, HandlerKeepsWatch
  <1>5. ASSUME NEW t \in Tasks, RunAction(t) \/ FinishCommit(t)
        PROVE  HeldSendsAreWatched'
    BY <1>5 DEF RunAction, RunHandedOff, RunSettled, FinishCommit, tables, HeldSendsAreWatched
  <1>6. CASE \E d \in Destinations : RouteLost(d)
    BY <1>6 DEF RouteLost, tables, HeldSendsAreWatched
  <1>7. CASE Elapse
    <2>1. \A i \in DOMAIN unrouted : unrouted[i] \in UnroutedRecord
      BY DEF TypeOK, TablesOK
    <2>2. /\ DOMAIN unrouted' = DOMAIN unrouted /\ retries' = retries
          /\ \A i \in DOMAIN unrouted : unrouted'[i].destination = unrouted[i].destination
      BY <1>7, <2>1 DEF Elapse, UnroutedRecord
    <2> QED BY <2>2 DEF HeldSendsAreWatched
  <1>8. CASE UNCHANGED vars
    BY <1>8 DEF vars, HeldSendsAreWatched
  <1> QED BY <1>1, <1>2, <1>3, <1>4, <1>5, <1>6, <1>7, <1>8 DEF Next, TimerStep

-----------------------------------------------------------------------------
(* The wakes *)

\* What the timer slept on: every wake time of the tables, no quorum or route it has not seen, and
\* no lapsed discovery unless it is about to wake.
Armed ==
    /\ \A w \in WakeTimes : armed # Never /\ armed <= w
    /\ \A i \in DOMAIN broadcasts : ~QuorumDue(i)
    /\ RoutedDests = {}
    /\ LapsedDests # {} => armed = 0

Undisturbed == timer = "parked" /\ ~timerWake /\ \A t \in Tasks : phase[t] \notin {"commit", "timer"}

TimerArmed == Undisturbed => Armed

\* The handlers' steps that leave the tables to the sender commit what they changed; the two that
\* wake the timer alone change no table.
LEMMA HandlerWakes ==
    ASSUME TypeOK, NEW h \in Handlers, HandlerStep(h)
    PROVE  \/ phase' = [phase EXCEPT ![h] = "commit"] /\ UNCHANGED <<tasks, wakes>>
           \/ phase' = [phase EXCEPT ![h] = "timer"] /\ phase[h] = "idle"
                 /\ UNCHANGED <<tables, tasks, wakes>>
           \/ sender' = "stopped" /\ timer' = "stopped"
  BY DEF HandlerStep, EnqueueUnicast, SendUnrouted, EnqueueBroadcast, Poll, DropIndirect, AckReceived,
         CancelUnicast, CancelUnrouted, CancelBroadcast, RelayHeard, RouteEstablished, Shutdown, Commit

LEMMA TaskNames == "sender" \in Tasks /\ "timer" \in Tasks /\ \A h \in Handlers : h \in Tasks
  BY DEF Tasks

LEMMA ElapseReady ==
    ASSUME TypeOK, Elapse PROVE Ready' \subseteq Ready
  <1>1. \A n \in Nat : Dec(n) > 0 => n > 0
    BY DEF Dec
  <1>2. ASSUME NEW i \in ReadyUnicasts' PROVE i \in ReadyUnicasts
    <2>1. i \in DOMAIN unicasts /\ unicasts[i] \in UnicastRecord
      BY DEF ReadyUnicasts, Elapse, TypeOK, TablesOK
    <2>2. unicasts'[i].stage = unicasts[i].stage /\ unicasts'[i].deadline = Dec(unicasts[i].deadline)
      BY <2>1 DEF Elapse, UnicastRecord
    <2>3. unicasts[i].deadline \in Nat /\ unicasts'[i].deadline > 0 /\ unicasts'[i].stage = "Queued"
      BY <2>1 DEF ReadyUnicasts, UnicastRecord
    <2> QED BY <1>1, <2>1, <2>2, <2>3 DEF ReadyUnicasts
  <1>3. ASSUME NEW i \in ReadyBroadcasts' PROVE i \in ReadyBroadcasts
    <2>1. i \in DOMAIN broadcasts /\ broadcasts[i] \in BroadcastRecord
      BY DEF ReadyBroadcasts, Elapse, TypeOK, TablesOK
    <2>2. broadcasts'[i].copy = broadcasts[i].copy /\ broadcasts'[i].deadline = Dec(broadcasts[i].deadline)
      BY <2>1 DEF Elapse, BroadcastRecord
    <2>3. broadcasts[i].deadline \in Nat /\ broadcasts'[i].deadline > 0 /\ broadcasts'[i].copy = "Queued"
      BY <2>1 DEF ReadyBroadcasts, BroadcastRecord
    <2> QED BY <1>1, <2>1, <2>2, <2>3 DEF ReadyBroadcasts
  <1> QED BY <1>2, <1>3 DEF Ready

LEMMA ReadyFrame ==
    ASSUME UNCHANGED <<unicasts, broadcasts>> PROVE Ready' = Ready
  BY DEF Ready, ReadyUnicasts, ReadyBroadcasts

LEMMA SenderWakeStep ==
    TypeOK /\ SenderNeverSleepsOnWork /\ [Next]_vars => SenderNeverSleepsOnWork'
  <1> SUFFICES ASSUME TypeOK, SenderNeverSleepsOnWork, [Next]_vars, sender' = "parked", Ready' # {}
               PROVE  sendWake' \/ \E t \in Tasks : phase'[t] \in {"commit", "pass"}
    BY DEF SenderNeverSleepsOnWork
  <1>0. phase \in [Tasks -> {"idle", "commit", "pass", "timer", "drain"}]
    BY DEF TypeOK, BatchesOK
  <1>a. ASSUME sender = "parked", Ready' \subseteq Ready, UNCHANGED <<sendWake, phase>>
        PROVE  sendWake' \/ \E t \in Tasks : phase'[t] \in {"commit", "pass"}
    BY <1>a DEF SenderNeverSleepsOnWork
  <1>1. CASE SenderStep \/ \E result \in {"Ok", RadioError} : SenderReports(result)
    BY <1>1, ReadyFrame DEF SenderStep, SenderDequeues, SenderParks, SenderWakes, SenderReports, tables
  <1>2. CASE DriveSends
    BY <1>0, <1>2, TaskNames DEF DriveSends, Commit
  <1>3. CASE TimerWakes
    BY <1>3, <1>a, ReadyFrame DEF TimerWakes, tables
  <1>4. ASSUME NEW h \in Handlers, HandlerStep(h)
        PROVE  sendWake' \/ \E t \in Tasks : phase'[t] \in {"commit", "pass"}
    <2>1. CASE phase' = [phase EXCEPT ![h] = "commit"]
      BY <2>1, <1>0, TaskNames
    <2>2. CASE phase' = [phase EXCEPT ![h] = "timer"] /\ phase[h] = "idle" /\ UNCHANGED <<tables, tasks, wakes>>
      <3>1. sender = "parked" /\ Ready # {} /\ sendWake' = sendWake
        BY <2>2, ReadyFrame DEF tables, tasks, wakes
      <3> QED BY <3>1, <2>2, <1>0, TaskNames DEF SenderNeverSleepsOnWork
    <2> QED BY <1>4, <2>1, <2>2, HandlerWakes
  <1>5. ASSUME NEW t \in Tasks, RunAction(t)
        PROVE  sendWake' \/ \E u \in Tasks : phase'[u] \in {"commit", "pass"}
    BY <1>5, <1>a, ReadyFrame DEF RunAction, RunHandedOff, RunSettled, tasks, wakes
  <1>6. ASSUME NEW t \in Tasks, FinishCommit(t)
        PROVE  sendWake' \/ \E u \in Tasks : phase'[u] \in {"commit", "pass"}
    <2>1. sender = "parked" /\ Ready # {} /\ phase' = [phase EXCEPT ![t] = "idle"]
      BY <1>6, ReadyFrame DEF FinishCommit, tables, tasks
    <2>2. sendWake \/ phase[t] \in {"commit", "pass"} => sendWake'
      BY <1>6 DEF FinishCommit
    <2> QED BY <2>1, <2>2, <1>0 DEF SenderNeverSleepsOnWork
  <1>7. CASE \E d \in Destinations : RouteLost(d)
    BY <1>7, <1>a, ReadyFrame DEF RouteLost, tables, tasks, wakes
  <1>8. CASE Elapse
    BY <1>8, <1>a, ElapseReady DEF Elapse, wakes
  <1>9. CASE UNCHANGED vars
    BY <1>9, <1>a, ReadyFrame DEF vars
  <1> QED BY <1>1, <1>2, <1>3, <1>4, <1>5, <1>6, <1>7, <1>8, <1>9 DEF Next, TimerStep

\* The wake times in the tables, one table at a time.
LEMMA WakeTimesParts ==
    \A w : w \in WakeTimes <=>
       \/ \E i \in DOMAIN unicasts : unicasts[i].stage # "Transmitting" /\ w = UnicastWake(unicasts[i])
       \/ \E i \in DOMAIN broadcasts :
             broadcasts[i].copy # "Transmitting" /\ w = BroadcastWake(broadcasts[i])
       \/ \E i \in DOMAIN unrouted : w = unrouted[i].deadline
       \/ \E d \in DOMAIN retries : discovery[d] > 0 /\ w = discovery[d]
  BY DEF WakeTimes

LEMMA WakeTimesPartsNext ==
    \A w : w \in WakeTimes' <=>
       \/ \E i \in DOMAIN unicasts' : unicasts'[i].stage # "Transmitting" /\ w = UnicastWake(unicasts'[i])
       \/ \E i \in DOMAIN broadcasts' :
             broadcasts'[i].copy # "Transmitting" /\ w = BroadcastWake(broadcasts'[i])
       \/ \E i \in DOMAIN unrouted' : w = unrouted'[i].deadline
       \/ \E d \in DOMAIN retries' : discovery'[d] > 0 /\ w = discovery'[d]
  BY DEF WakeTimes

\* A timer that armed for the tables misses nothing.
LEMMA ArmedMeansCovered == TypeOK /\ TimerArmed => TimerNeverOversleeps
  <1> SUFFICES ASSUME TypeOK, TimerArmed, Undisturbed, DueNow
               PROVE  armed = 0
    BY DEF TimerNeverOversleeps, Undisturbed
  <1>1. Armed /\ armed \in Nat \cup {Never}
    BY DEF TimerArmed, TypeOK, TasksOK
  <1>2. 0 \in WakeTimes => armed = 0
    BY <1>1 DEF Armed, Never
  <1>3. ASSUME NEW i \in DOMAIN unicasts,
               \/ UnicastTickVerdict(unicasts[i]) # Unset
               \/ UnicastTickRecord(unicasts[i]) # unicasts[i]
        PROVE  0 \in WakeTimes
    <2>1. unicasts[i] \in UnicastRecord
      BY DEF TypeOK, TablesOK
    <2>2. unicasts[i].stage # "Transmitting" /\ UnicastWake(unicasts[i]) = 0
      BY <1>3, <2>1 DEF UnicastTickVerdict, UnicastTickRecord, UnicastWake, Lesser, UnicastRecord
    <2> QED BY <2>2, WakeTimesParts
  <1>4. ASSUME NEW i \in DOMAIN broadcasts,
               \/ BroadcastVerdict(i) # Unset \/ BroadcastTickRecord(Heard(i)) # broadcasts[i]
        PROVE  0 \in WakeTimes
    <2>1. broadcasts[i] \in BroadcastRecord /\ ~QuorumDue(i)
      BY <1>1 DEF TypeOK, TablesOK, Armed
    <2>2. \/ BroadcastTickVerdict(broadcasts[i]) # Unset
          \/ BroadcastTickRecord(broadcasts[i]) # broadcasts[i]
      BY <1>4, <2>1 DEF BroadcastVerdict, DeliveredNow, Heard
    <2>3. broadcasts[i].copy # "Transmitting" /\ BroadcastWake(broadcasts[i]) = 0
      BY <2>1, <2>2 DEF BroadcastTickVerdict, BroadcastTickRecord, ScheduleOver, CopyDue, BroadcastWake,
                        Lesser, BroadcastRecord
    <2> QED BY <2>3, WakeTimesParts
  <1>5. ASSUME NEW i \in DOMAIN unrouted, unrouted[i].deadline = 0
        PROVE  0 \in WakeTimes
    BY <1>5, WakeTimesParts
  <1>6. ASSUME RoutedDests \cup LapsedDests # {} PROVE armed = 0
    BY <1>1, <1>6 DEF Armed
  <1> QED BY <1>2, <1>3, <1>4, <1>5, <1>6 DEF DueNow

\* A pass of the timer leaves nothing it did not arm for.
LEMMA PassArms ==
    ASSUME TypeOK, TypeOK', DriveSends PROVE Armed'
  <1>1. PICK ids \in [RestartedDests -> nextId .. nextId + Cardinality(RestartedDests) - 1] :
          broadcasts' = [i \in (DOMAIN broadcasts \ Ending) \cup {ids[d] : d \in RestartedDests} |->
                            IF i \in DOMAIN broadcasts THEN BroadcastTickRecord(Heard(i))
                            ELSE RouteRequest]
    BY DEF DriveSends
  <1>2. armed' \in ArmedFor(WakeTimes') /\ WakeTimes' \subseteq Nat
    <2>1. (TablesOK /\ EnvironmentOK => WakeTimes \subseteq Nat)'
      BY WakeTimesType, PTL
    <2> QED BY <2>1 DEF DriveSends, TypeOK
  <1>3. \A w \in WakeTimes' : armed' # Never /\ armed' <= w
    BY <1>2 DEF ArmedFor, Never
  <1>4. \A i \in DOMAIN broadcasts' : ~QuorumDue(i)'
    <2> SUFFICES ASSUME NEW i \in DOMAIN broadcasts' PROVE ~QuorumDue(i)'
      OBVIOUS
    <2>1. quorum' = quorum
      BY DEF DriveSends
    <2>2. CASE i \in DOMAIN broadcasts
      <3>1. broadcasts[i] \in BroadcastRecord /\ broadcasts'[i] = BroadcastTickRecord(Heard(i))
        BY <1>1, <2>2 DEF TypeOK, TablesOK
      <3>2. /\ Heard(i) \in BroadcastRecord /\ Heard(i).schedule = broadcasts[i].schedule
            /\ Heard(i).quorumHeard = (broadcasts[i].quorumHeard \/ QuorumDue(i))
        BY <3>1 DEF Heard, BroadcastRecord, QuorumDue
      <3>3. /\ broadcasts'[i].schedule = Heard(i).schedule
            /\ broadcasts'[i].quorumHeard = Heard(i).quorumHeard
        BY <3>1, <3>2 DEF BroadcastTickRecord, BroadcastRecord
      <3> QED BY <2>1, <3>2, <3>3 DEF QuorumDue
    <2>3. CASE i \notin DOMAIN broadcasts
      BY <1>1, <2>3 DEF QuorumDue, RouteRequest, NewBroadcast
    <2> QED BY <2>2, <2>3
  <1>5. RoutedDests' = {}
    BY DEF DriveSends, RoutedDests
  <1>6. ASSUME NEW d \in LapsedDests' PROVE armed' = 0
    <2>1. d \in DOMAIN retries /\ d \notin RoutedDests \cup FailedDests /\ discovery'[d] = 0 /\ d \notin routes
      BY DEF LapsedDests, DriveSends
    <2>2. d \in Destinations /\ discovery[d] \in Nat
      BY <2>1 DEF TypeOK, TablesOK, EnvironmentOK
    <2>3. d \in RestartedDests
      BY <2>1, <2>2 DEF DriveSends, LapsedDests, FailedDests
    <2>4. ids[d] \in DOMAIN broadcasts' /\ ids[d] \notin DOMAIN broadcasts
      BY <1>1, <2>3, RestartedCount DEF TypeOK, TablesOK, Allocated
    <2>5. broadcasts'[ids[d]] = RouteRequest
      BY <1>1, <2>4
    <2>6. RouteRequest.copy # "Transmitting" /\ BroadcastWake(RouteRequest) = 0
      BY DurationsAssumption DEF RouteRequest, NewBroadcast, BroadcastWake, Lesser
    <2>7. 0 \in WakeTimes'
      BY <2>4, <2>5, <2>6, WakeTimesPartsNext
    <2>8. armed' \in Nat \cup {Never}
      BY DEF TypeOK, TasksOK
    <2> QED BY <2>7, <2>8, <1>3 DEF Never
  <1> QED BY <1>3, <1>4, <1>5, <1>6 DEF Armed

LEMMA LendingKeepsArmed ==
    ASSUME TypeOK, Armed, SenderDequeues PROVE Armed'
  <1>1. PICK i \in Ready : LendUnicast(i) \/ LendBroadcast(i)
    BY DEF SenderDequeues
  <1>2. UNCHANGED <<unrouted, retries, armed, quorum, routes, discovery>>
    BY DEF SenderDequeues, routing
  <1>3. RoutedDests' = RoutedDests /\ LapsedDests' = LapsedDests
    BY <1>2 DEF RoutedDests, LapsedDests
  <1>4. CASE LendUnicast(i)
    <2>1. /\ i \in DOMAIN unicasts /\ unicasts[i] \in UnicastRecord /\ broadcasts' = broadcasts
          /\ unicasts' = [unicasts EXCEPT ![i].stage = "Transmitting", ![i].acked = FALSE, ![i].frame = FALSE]
      BY <1>4 DEF LendUnicast, ReadyUnicasts, TypeOK, TablesOK
    <2>2. /\ DOMAIN unicasts' = DOMAIN unicasts /\ unicasts'[i].stage = "Transmitting"
          /\ \A j \in DOMAIN unicasts \ {i} : unicasts'[j] = unicasts[j]
      BY <2>1 DEF UnicastRecord
    <2>3. WakeTimes' \subseteq WakeTimes
      BY <1>2, <2>1, <2>2, WakeTimesParts, WakeTimesPartsNext
    <2> QED BY <1>2, <1>3, <2>1, <2>3 DEF Armed, QuorumDue
  <1>5. CASE LendBroadcast(i)
    <2>1. /\ i \in DOMAIN broadcasts /\ broadcasts[i] \in BroadcastRecord /\ unicasts' = unicasts
          /\ broadcasts' = [broadcasts EXCEPT ![i].copy = "Transmitting", ![i].frame = FALSE]
      BY <1>5 DEF LendBroadcast, ReadyBroadcasts, TypeOK, TablesOK
    <2>2. /\ DOMAIN broadcasts' = DOMAIN broadcasts /\ broadcasts'[i].copy = "Transmitting"
          /\ \A j \in DOMAIN broadcasts \ {i} : broadcasts'[j] = broadcasts[j]
          /\ broadcasts'[i].schedule = broadcasts[i].schedule
          /\ broadcasts'[i].quorumHeard = broadcasts[i].quorumHeard
      BY <2>1 DEF BroadcastRecord
    <2>3. WakeTimes' \subseteq WakeTimes
      BY <1>2, <2>1, <2>2, WakeTimesParts, WakeTimesPartsNext
    <2>4. \A j \in DOMAIN broadcasts' : ~QuorumDue(j)'
      BY <1>2, <2>2 DEF Armed, QuorumDue
    <2> QED BY <1>2, <1>3, <2>3, <2>4 DEF Armed
  <1> QED BY <1>1, <1>4, <1>5

\* As time passes, the timer and everything it waits for come closer alike.
LEMMA ElapseKeepsArmed ==
    ASSUME TypeOK, Armed, Elapse PROVE Armed'
  <1>1. \A m, n \in Nat : Dec(n) \in Nat /\ Lesser(Dec(m), Dec(n)) = Dec(Lesser(m, n))
                         /\ (m <= n => Dec(m) <= Dec(n)) /\ (Dec(n) > 0 => n > 0)
    BY DEF Dec, Lesser
  <1>2. /\ armed \in Nat \cup {Never} /\ armed' = IF armed = Never THEN Never ELSE Dec(armed)
        /\ UNCHANGED <<retries, quorum, routes>> /\ \A n \in Nat : n # Never
    <2>1. armed \in Nat \cup {Never} /\ \A n \in Nat : n # Never
      BY DEF TypeOK, TasksOK, Never
    <2> QED BY <2>1 DEF Elapse
  <1>3. /\ DOMAIN unicasts' = DOMAIN unicasts
        /\ \A i \in DOMAIN unicasts : /\ unicasts'[i].stage = unicasts[i].stage
                                      /\ UnicastWake(unicasts[i]) \in Nat
                                      /\ UnicastWake(unicasts'[i]) = Dec(UnicastWake(unicasts[i]))
    <2>1. ASSUME NEW i \in DOMAIN unicasts
          PROVE  /\ unicasts'[i].stage = unicasts[i].stage /\ UnicastWake(unicasts[i]) \in Nat
                 /\ UnicastWake(unicasts'[i]) = Dec(UnicastWake(unicasts[i]))
      <3>1. unicasts[i] \in UnicastRecord
        BY DEF TypeOK, TablesOK
      <3>2. /\ unicasts'[i].stage = unicasts[i].stage
            /\ unicasts'[i].deadline = Dec(unicasts[i].deadline) /\ unicasts'[i].at = Dec(unicasts[i].at)
            /\ unicasts[i].deadline \in Nat /\ unicasts[i].at \in Nat
        BY <3>1 DEF Elapse, UnicastRecord
      <3> QED BY <3>2, <1>1 DEF UnicastWake, Lesser
    <2> QED BY <2>1 DEF Elapse
  <1>4. /\ DOMAIN broadcasts' = DOMAIN broadcasts
        /\ \A i \in DOMAIN broadcasts :
              /\ broadcasts'[i].copy = broadcasts[i].copy /\ BroadcastWake(broadcasts[i]) \in Nat
              /\ BroadcastWake(broadcasts'[i]) = Dec(BroadcastWake(broadcasts[i]))
              /\ QuorumDue(i)' = QuorumDue(i)
    <2>1. ASSUME NEW i \in DOMAIN broadcasts
          PROVE  /\ broadcasts'[i].copy = broadcasts[i].copy /\ BroadcastWake(broadcasts[i]) \in Nat
                 /\ BroadcastWake(broadcasts'[i]) = Dec(BroadcastWake(broadcasts[i]))
                 /\ QuorumDue(i)' = QuorumDue(i)
      <3>1. broadcasts[i] \in BroadcastRecord
        BY DEF TypeOK, TablesOK
      <3>2. /\ broadcasts'[i].copy = broadcasts[i].copy /\ broadcasts'[i].schedule = broadcasts[i].schedule
            /\ broadcasts'[i].quorumHeard = broadcasts[i].quorumHeard
            /\ broadcasts'[i].deadline = Dec(broadcasts[i].deadline)
            /\ broadcasts'[i].nextAttempt = Dec(broadcasts[i].nextAttempt)
            /\ broadcasts[i].deadline \in Nat /\ broadcasts[i].nextAttempt \in Nat
        BY <3>1 DEF Elapse, BroadcastRecord
      <3>3. /\ BroadcastWake(broadcasts[i]) \in Nat
            /\ BroadcastWake(broadcasts'[i]) = Dec(BroadcastWake(broadcasts[i]))
        BY <3>2, <1>1 DEF BroadcastWake, Lesser
      <3> QED BY <3>2, <3>3, <1>2 DEF QuorumDue
    <2> QED BY <2>1 DEF Elapse
  <1>5. /\ DOMAIN unrouted' = DOMAIN unrouted
        /\ \A i \in DOMAIN unrouted : /\ unrouted[i].deadline \in Nat
                                      /\ unrouted'[i].deadline = Dec(unrouted[i].deadline)
    <2>1. \A i \in DOMAIN unrouted : unrouted[i] \in UnroutedRecord
      BY DEF TypeOK, TablesOK
    <2> QED BY <2>1 DEF Elapse, UnroutedRecord
  <1>6. \A d \in DOMAIN retries : discovery[d] \in Nat /\ discovery'[d] = Dec(discovery[d])
    BY DEF Elapse, TypeOK, TablesOK, EnvironmentOK
  <1>7. ASSUME NEW w \in WakeTimes' PROVE \E x \in WakeTimes : x \in Nat /\ w = Dec(x)
    <2>1. CASE \E i \in DOMAIN unicasts' : unicasts'[i].stage # "Transmitting" /\ w = UnicastWake(unicasts'[i])
      BY <2>1, <1>3, WakeTimesParts
    <2>2. CASE \E i \in DOMAIN broadcasts' :
                  broadcasts'[i].copy # "Transmitting" /\ w = BroadcastWake(broadcasts'[i])
      BY <2>2, <1>4, WakeTimesParts
    <2>3. CASE \E i \in DOMAIN unrouted' : w = unrouted'[i].deadline
      BY <2>3, <1>5, WakeTimesParts
    <2>4. CASE \E d \in DOMAIN retries' : discovery'[d] > 0 /\ w = discovery'[d]
      BY <2>4, <1>1, <1>2, <1>6, WakeTimesParts
    <2> QED BY <2>1, <2>2, <2>3, <2>4, WakeTimesPartsNext
  <1>8. \A w \in WakeTimes' : armed' # Never /\ armed' <= w
    BY <1>1, <1>2, <1>7 DEF Armed
  <1>9. RoutedDests' = {} /\ \A i \in DOMAIN broadcasts' : ~QuorumDue(i)'
    BY <1>2, <1>4 DEF Armed, RoutedDests
  <1>10. ASSUME NEW d \in LapsedDests' PROVE armed' = 0
    <2>1. d \in DOMAIN retries \ routes /\ Dec(discovery[d]) = 0 /\ discovery[d] \in Nat
      BY <1>2, <1>6 DEF LapsedDests
    <2>2. CASE discovery[d] = 0
      <3>1. armed = 0
        BY <2>1, <2>2 DEF Armed, LapsedDests
      <3> QED BY <3>1, <1>2 DEF Dec, Never
    <2>3. CASE discovery[d] # 0
      <3>1. discovery[d] = 1 /\ discovery[d] \in WakeTimes
        BY <2>1, <2>3, WakeTimesParts DEF Dec
      <3>2. armed # Never /\ armed <= 1
        BY <3>1 DEF Armed
      <3> QED BY <3>2, <1>2 DEF Dec
    <2> QED BY <2>2, <2>3
  <1> QED BY <1>8, <1>9, <1>10 DEF Armed

LEMMA ArmedFrame ==
    ASSUME Armed, UNCHANGED <<unicasts, unrouted, retries, broadcasts, armed, quorum, routing>>
    PROVE  Armed'
  BY DEF Armed, WakeTimes, QuorumDue, RoutedDests, LapsedDests, routing

LEMMA TimerArmedStep ==
    TypeOK /\ TypeOK' /\ TimerArmed /\ [Next]_vars => TimerArmed'
  <1> SUFFICES ASSUME TypeOK, TypeOK', TimerArmed, [Next]_vars, Undisturbed' PROVE Armed'
    BY DEF TimerArmed
  <1>0. phase \in [Tasks -> {"idle", "commit", "pass", "timer", "drain"}]
    BY DEF TypeOK, BatchesOK
  <1>a. ASSUME UNCHANGED <<timer, timerWake, phase>> PROVE Armed
    BY <1>a DEF Undisturbed, TimerArmed
  <1>1. CASE SenderDequeues
    BY <1>1, <1>a, LendingKeepsArmed DEF SenderDequeues, wakes
  <1>2. CASE SenderParks \/ SenderWakes
    BY <1>2, <1>a, ArmedFrame DEF SenderParks, SenderWakes, tables, wakes
  <1>3. ASSUME NEW result, SenderReports(result) PROVE FALSE
    <2>1. phase' = [phase EXCEPT !["sender"] = "commit"]
      BY <1>3 DEF SenderReports, ReportUnicast, ReportBroadcast, Commit
    <2> QED BY <2>1, <1>0, TaskNames DEF Undisturbed
  <1>4. CASE DriveSends
    BY <1>4, PassArms
  <1>5. CASE TimerWakes
    BY <1>5 DEF TimerWakes, Undisturbed
  <1>6. ASSUME NEW h \in Handlers, HandlerStep(h) PROVE FALSE
    <2>1. \/ phase' = [phase EXCEPT ![h] = "commit"] \/ phase' = [phase EXCEPT ![h] = "timer"]
          \/ timer' = "stopped"
      BY <1>6, HandlerWakes
    <2> QED BY <2>1, <1>0, TaskNames DEF Undisturbed
  <1>7. ASSUME NEW t \in Tasks, RunAction(t) PROVE Armed'
    BY <1>7, <1>a, ArmedFrame DEF RunAction, RunHandedOff, RunSettled, tasks, wakes
  <1>8. ASSUME NEW t \in Tasks, FinishCommit(t) PROVE Armed'
    <2>1. /\ phase' = [phase EXCEPT ![t] = "idle"] /\ timer' = timer
          /\ timerWake' = (timerWake \/ phase[t] \in {"commit", "timer"})
          /\ UNCHANGED <<unicasts, unrouted, retries, broadcasts, armed, quorum, routing>>
      BY <1>8 DEF FinishCommit, tables, tasks
    <2>2. ~timerWake /\ phase[t] \notin {"commit", "timer"}
      BY <2>1 DEF Undisturbed
    <2>3. \A u \in Tasks : phase[u] \notin {"commit", "timer"}
      BY <2>1, <2>2, <1>0 DEF Undisturbed
    <2>4. Armed
      BY <2>1, <2>2, <2>3 DEF Undisturbed, TimerArmed
    <2> QED BY <2>1, <2>4, ArmedFrame
  <1>9. ASSUME NEW d \in Destinations, RouteLost(d) PROVE Armed'
    <2>1. /\ Armed /\ UNCHANGED <<unicasts, unrouted, retries, broadcasts, armed, quorum, discovery>>
          /\ routes' = routes \ {d} /\ d \in routes
      BY <1>9, <1>a DEF RouteLost, tables, tasks, wakes
    <2>2. RoutedDests' = {} /\ LapsedDests' = LapsedDests /\ WakeTimes' = WakeTimes
      BY <2>1 DEF Armed, RoutedDests, LapsedDests, WakeTimes
    <2> QED BY <2>1, <2>2 DEF Armed, QuorumDue
  <1>10. CASE Elapse
    BY <1>10, <1>a, ElapseKeepsArmed DEF Elapse, wakes
  <1>11. CASE UNCHANGED vars
    BY <1>11, <1>a, ArmedFrame DEF vars, routing
  <1> QED BY <1>1, <1>2, <1>3, <1>4, <1>5, <1>6, <1>7, <1>8, <1>9, <1>10, <1>11
          DEF Next, SenderStep, TimerStep

-----------------------------------------------------------------------------
(* One verdict for every send *)

Disjoint ==
    /\ DOMAIN unicasts \cap DOMAIN unrouted = {} /\ DOMAIN unicasts \cap DOMAIN broadcasts = {}
    /\ DOMAIN unrouted \cap DOMAIN broadcasts = {}

\* A send is in a table, or one task owes its waiter the verdict, or the verdict is written.
OneVerdict ==
    /\ \A t \in Tasks : phase[t] = "idle" => DOMAIN owes[t] = {}
    /\ \A i \in LiveSends : slots[i].delivered = Unset
    /\ \A t \in Tasks : \A i \in DOMAIN owes[t] :
          /\ owes[t][i].verdict = Unset => owes[t][i].handedOff
          /\ owes[t][i].verdict # Unset =>
                /\ i \notin LiveSends /\ slots[i].delivered = Unset
                /\ \A u \in Tasks \ {t} : i \in DOMAIN owes[u] => owes[u][i].verdict = Unset
    /\ \A i \in Allocated : slots[i].delivered # Unset => slots[i].handedOff # Unset

\* What the tables know of the sends the mesh accepted.
Known ==
    /\ \A i \in DOMAIN unicasts : i \in evidence <=> unicasts[i].stage = "AwaitingApsAck"
    /\ \A i \in DOMAIN broadcasts : i \in evidence <=> broadcasts[i].handedOff
    /\ \A i \in DOMAIN unrouted : i \notin evidence

\* A batch reports a handoff or a success only of a send that was accepted, and a failure of an
\* accepted send comes after its handoff.
Told ==
    /\ HandoffTruthful
    /\ \A i \in Allocated : slots[i].delivered = Unset => slots[i].handedOff \in {Unset, "Ok"}
    /\ \A t \in Tasks : \A i \in DOMAIN owes[t] :
          /\ owes[t][i].handedOff => i \in evidence
          /\ owes[t][i].verdict = "Ok" => i \in evidence
          /\ owes[t][i].verdict \notin {Unset, "Ok"} /\ i \in evidence
                => owes[t][i].handedOff \/ slots[i].handedOff = "Ok"
    /\ \A i \in LiveSends \cap evidence :
          \/ slots[i].handedOff = "Ok"
          \/ i \in DOMAIN owes["sender"] /\ owes["sender"][i].handedOff

\* The broadcast a sleepy child's copy came with is no unicast, and is not cancelled.
CopiesKnown ==
    \A i \in DOMAIN unicasts : unicasts[i].copyOf # NoSend =>
       unicasts[i].copyOf \in Allocated \ (DOMAIN unicasts \cup DOMAIN unrouted)

-----------------------------------------------------------------------------
(* What every batch has in common *)

Fresh == Allocated' \ Allocated

\* The task takes on a batch: the verdicts in it are of sends that leave the tables.
Batch(t, acts) ==
    /\ phase[t] = "idle" /\ phase' # phase /\ owes' = [owes EXCEPT ![t] = acts]
    /\ phase' = [phase EXCEPT ![t] = phase'[t]]
    /\ Allocated \subseteq Allocated' /\ \A i \in Allocated : slots'[i] = slots[i]
    /\ \A i \in Fresh : slots'[i] = FreshSlot
    /\ LiveSends' \subseteq LiveSends \cup Fresh
    /\ \A i \in DOMAIN acts : /\ acts[i].verdict = Unset => acts[i].handedOff
                              /\ acts[i].verdict # Unset => i \in LiveSends \ LiveSends'

\* Handoffs and successes in the batch are of sends known to be accepted, and a send newly known
\* to be accepted leaves the tables or is reported by the sender.
Truthful(t, acts) ==
    /\ evidence \subseteq evidence' /\ evidence' \subseteq evidence \cup LiveSends
    /\ \A i \in DOMAIN acts :
          /\ acts[i].handedOff => i \in evidence'
          /\ acts[i].verdict = "Ok" => i \in evidence'
          /\ acts[i].verdict \notin {Unset, "Ok"} /\ i \in evidence'
                => acts[i].handedOff \/ slots[i].handedOff = "Ok"
    /\ \A i \in (evidence' \ evidence) \cap LiveSends' :
          t = "sender" /\ i \in DOMAIN acts /\ acts[i].handedOff

LEMMA LiveAllocated ==
    ASSUME TypeOK PROVE LiveSends \subseteq Allocated /\ evidence \subseteq Allocated
                        /\ \A t \in Tasks : DOMAIN owes[t] \subseteq Allocated
  BY DEF TypeOK, TablesOK, BatchesOK, EnvironmentOK, LiveSends

LEMMA BatchOwes ==
    ASSUME TypeOK, NEW t \in Tasks, NEW acts, Batch(t, acts)
    PROVE  owes'[t] = acts /\ (\A u \in Tasks \ {t} : owes'[u] = owes[u] /\ phase'[u] = phase[u])
           /\ phase'[t] # "idle"
  <1>1. phase = [u \in Tasks |-> phase[u]] /\ owes = [u \in Tasks |-> owes[u]]
    BY DEF TypeOK, BatchesOK
  <1>2. phase' = [phase EXCEPT ![t] = phase'[t]] /\ owes' = [owes EXCEPT ![t] = acts]
    BY DEF Batch
  <1>3. owes'[t] = acts /\ \A u \in Tasks \ {t} : owes'[u] = owes[u] /\ phase'[u] = phase[u]
    BY <1>1, <1>2
  <1>4. phase'[t] # "idle"
    <2> SUFFICES ASSUME phase'[t] = "idle" PROVE FALSE
      OBVIOUS
    <2>1. phase' = phase
      BY <1>1, <1>2 DEF Batch
    <2> QED BY <2>1 DEF Batch
  <1> QED BY <1>3, <1>4

LEMMA BatchKeepsOneVerdict ==
    ASSUME TypeOK, OneVerdict, NEW t \in Tasks, NEW acts, Batch(t, acts)
    PROVE  OneVerdict'
  <1>1. /\ owes'[t] = acts /\ phase'[t] # "idle"
        /\ \A u \in Tasks \ {t} : owes'[u] = owes[u] /\ phase'[u] = phase[u]
    BY BatchOwes
  <1>2. /\ LiveSends \subseteq Allocated /\ \A u \in Tasks : DOMAIN owes[u] \subseteq Allocated
        /\ FreshSlot.delivered = Unset
    BY LiveAllocated DEF FreshSlot
  <1>3. \A u \in Tasks : phase'[u] = "idle" => DOMAIN owes'[u] = {}
    BY <1>1 DEF OneVerdict
  <1>4. \A i \in LiveSends' : slots'[i].delivered = Unset
    BY <1>2 DEF OneVerdict, Batch, Fresh
  <1>5. ASSUME NEW u \in Tasks, NEW i \in DOMAIN owes'[u]
        PROVE  /\ owes'[u][i].verdict = Unset => owes'[u][i].handedOff
               /\ owes'[u][i].verdict # Unset =>
                     /\ i \notin LiveSends' /\ slots'[i].delivered = Unset
                     /\ \A w \in Tasks \ {u} : i \in DOMAIN owes'[w] => owes'[w][i].verdict = Unset
    <2>1. CASE u = t
      <3>1. ASSUME acts[i].verdict # Unset, NEW w \in Tasks \ {t}, i \in DOMAIN owes'[w]
            PROVE  owes'[w][i].verdict = Unset
        <4>1. i \in LiveSends /\ owes'[w] = owes[w]
          BY <1>1, <2>1, <3>1 DEF Batch
        <4> QED BY <4>1, <3>1 DEF OneVerdict
      <3>2. acts[i].verdict # Unset => i \notin LiveSends' /\ slots'[i].delivered = Unset
        BY <1>1, <1>2, <2>1 DEF Batch, OneVerdict
      <3> QED BY <1>1, <2>1, <3>1, <3>2 DEF Batch
    <2>2. CASE u # t
      <3>1. owes'[u] = owes[u] /\ i \in DOMAIN owes[u] /\ i \in Allocated /\ i \notin Fresh
        BY <1>1, <1>2, <2>2 DEF Fresh
      <3>2. owes[u][i].verdict # Unset => i \notin LiveSends' /\ slots'[i].delivered = Unset
        BY <3>1 DEF OneVerdict, Batch
      <3>3. ASSUME owes[u][i].verdict # Unset, NEW w \in Tasks \ {u}, i \in DOMAIN owes'[w]
            PROVE  owes'[w][i].verdict = Unset
        <4>1. CASE w = t
          <5>1. i \notin LiveSends /\ owes'[w] = acts
            BY <1>1, <3>1, <3>3, <4>1 DEF OneVerdict
          <5> QED BY <5>1, <3>3 DEF Batch
        <4>2. CASE w # t
          BY <1>1, <3>1, <3>3, <4>2 DEF OneVerdict
        <4> QED BY <4>1, <4>2
      <3> QED BY <3>1, <3>2, <3>3 DEF OneVerdict
    <2> QED BY <2>1, <2>2
  <1>6. \A i \in Allocated' : slots'[i].delivered # Unset => slots'[i].handedOff # Unset
    BY <1>2 DEF OneVerdict, Batch, Fresh
  <1> QED BY <1>3, <1>4, <1>5, <1>6 DEF OneVerdict

LEMMA BatchKeepsTold ==
    ASSUME TypeOK, TypeOK', OneVerdict, Told, NEW t \in Tasks, NEW acts, Batch(t, acts), Truthful(t, acts)
    PROVE  Told'
  <1>1. owes'[t] = acts /\ \A u \in Tasks \ {t} : owes'[u] = owes[u]
    BY BatchOwes
  <1>2. /\ LiveSends \subseteq Allocated /\ evidence \subseteq Allocated
        /\ \A u \in Tasks : DOMAIN owes[u] \subseteq Allocated
        /\ FreshSlot.delivered = Unset /\ FreshSlot.handedOff = Unset /\ Unset # "Ok"
        /\ DOMAIN slots = Allocated /\ DOMAIN slots' = Allocated'
    BY LiveAllocated DEF FreshSlot, TypeOK, TablesOK, Unset
  <1>3. \A i \in Allocated' : slots'[i].delivered = Unset => slots'[i].handedOff \in {Unset, "Ok"}
    BY <1>2 DEF Told, Batch, Fresh
  <1>4. HandoffTruthful'
    <2> SUFFICES ASSUME NEW i \in Allocated', slots'[i].handedOff # Unset
                 PROVE  slots'[i].handedOff = "Ok" <=> i \in evidence'
      BY <1>2 DEF HandoffTruthful
    <2>1. i \in Allocated /\ slots'[i] = slots[i]
      BY <1>2 DEF Batch, Fresh
    <2>2. slots[i].handedOff = "Ok" <=> i \in evidence
      BY <1>2, <2>1 DEF Told, HandoffTruthful
    <2>3. i \in evidence' \ evidence => slots[i].handedOff = "Ok"
      BY <2>1 DEF Truthful, OneVerdict, Told
    <2> QED BY <2>1, <2>2, <2>3 DEF Truthful
  <1>5. ASSUME NEW u \in Tasks, NEW i \in DOMAIN owes'[u]
        PROVE  /\ owes'[u][i].handedOff => i \in evidence'
               /\ owes'[u][i].verdict = "Ok" => i \in evidence'
               /\ owes'[u][i].verdict \notin {Unset, "Ok"} /\ i \in evidence'
                     => owes'[u][i].handedOff \/ slots'[i].handedOff = "Ok"
    <2>1. CASE u = t
      <3>1. acts[i].verdict # Unset => slots'[i] = slots[i]
        BY <1>1, <1>2, <2>1 DEF Batch
      <3> QED BY <1>1, <2>1, <3>1 DEF Truthful
    <2>2. CASE u # t
      <3>1. owes'[u] = owes[u] /\ i \in DOMAIN owes[u] /\ slots'[i] = slots[i]
        BY <1>1, <1>2, <2>2 DEF Batch
      <3>2. owes[u][i].verdict # Unset => i \notin LiveSends
        BY <3>1 DEF OneVerdict
      <3> QED BY <3>1, <3>2 DEF Told, Truthful
    <2> QED BY <2>1, <2>2
  <1>6. ASSUME NEW i \in LiveSends' \cap evidence'
        PROVE  slots'[i].handedOff = "Ok" \/ (i \in DOMAIN owes'["sender"] /\ owes'["sender"][i].handedOff)
    <2>1. CASE i \in evidence
      <3>1. i \in LiveSends /\ slots'[i] = slots[i]
        BY <1>2, <2>1 DEF Batch, Fresh
      <3>2. \/ slots[i].handedOff = "Ok"
            \/ i \in DOMAIN owes["sender"] /\ owes["sender"][i].handedOff
        BY <3>1, <2>1 DEF Told
      <3>3. CASE t = "sender"
        <4>1. DOMAIN owes["sender"] = {}
          BY <3>3 DEF OneVerdict, Batch
        <4> QED BY <3>1, <3>2, <4>1
      <3>4. CASE t # "sender"
        BY <1>1, <3>1, <3>2, <3>4, TaskNames
      <3> QED BY <3>3, <3>4
    <2>2. CASE i \notin evidence
      BY <2>2, <1>1 DEF Truthful
    <2> QED BY <2>1, <2>2
  <1> QED BY <1>3, <1>4, <1>5, <1>6 DEF Told

\* A step that reports nothing and leaves every send where it is.
LEMMA QuietStep ==
    ASSUME TypeOK, OneVerdict, Told, UNCHANGED <<nextId, slots, owes, phase, evidence>>, LiveSends' = LiveSends
    PROVE  OneVerdict' /\ Told'
  <1>1. Allocated' = Allocated
    BY SameIds
  <1>2. OneVerdict'
    BY <1>1 DEF OneVerdict
  <1>3. Told'
    BY <1>1 DEF Told, HandoffTruthful
  <1> QED BY <1>2, <1>3

LEMMA FinishKeepsVerdicts ==
    ASSUME TypeOK, OneVerdict, Told, NEW t \in Tasks, FinishCommit(t)
    PROVE  OneVerdict' /\ Told'
  <1>1. /\ UNCHANGED <<nextId, slots, owes, evidence>> /\ phase' = [phase EXCEPT ![t] = "idle"]
        /\ DOMAIN owes[t] = {} /\ LiveSends' = LiveSends
    BY DEF FinishCommit, tables, LiveSends
  <1>2. Allocated' = Allocated
    BY <1>1, SameIds
  <1>3. phase \in [Tasks -> {"idle", "commit", "pass", "timer", "drain"}]
    BY DEF TypeOK, BatchesOK
  <1>4. \A u \in Tasks : phase'[u] = "idle" => DOMAIN owes'[u] = {}
    BY <1>1, <1>3 DEF OneVerdict
  <1>5. OneVerdict'
    BY <1>1, <1>2, <1>4 DEF OneVerdict
  <1>6. Told'
    BY <1>1, <1>2 DEF Told, HandoffTruthful
  <1> QED BY <1>5, <1>6

\* What running one action of a batch changes.
LEMMA RunShape ==
    ASSUME TypeOK, NEW t \in Tasks, NEW i \in DOMAIN owes[t], RunHandedOff(t, i) \/ RunSettled(t, i)
    PROVE  /\ UNCHANGED <<nextId, phase, evidence>> /\ LiveSends' = LiveSends /\ Allocated' = Allocated
           /\ i \in Allocated /\ DOMAIN slots = Allocated /\ DOMAIN slots' = Allocated
           /\ \A j \in Allocated \ {i} : slots'[j] = slots[j]
           /\ \A u \in Tasks \ {t} : owes'[u] = owes[u]
           /\ \A j \in DOMAIN owes'[t] \ {i} : j \in DOMAIN owes[t] /\ owes'[t][j] = owes[t][j]
  <1>1. /\ UNCHANGED <<nextId, phase, evidence, unicasts, unrouted, broadcasts>>
        /\ Allocated' = Allocated /\ LiveSends' = LiveSends
    BY SameIds DEF RunHandedOff, RunSettled, LiveSends
  <1>2. /\ i \in Allocated /\ slots \in [Allocated -> Slot] /\ slots[i] \in Slot
        /\ owes = [u \in Tasks |-> owes[u]]
    BY DEF TypeOK, TablesOK, BatchesOK
  <1>3. /\ DOMAIN slots = Allocated /\ DOMAIN slots' = Allocated
        /\ \A j \in Allocated \ {i} : slots'[j] = slots[j]
    BY <1>2 DEF RunHandedOff, RunSettled
  <1>4. \E a : owes' = [owes EXCEPT ![t] = a]
                /\ \A j \in DOMAIN a \ {i} : j \in DOMAIN owes[t] /\ a[j] = owes[t][j]
    BY DEF RunHandedOff, RunSettled, Without, Put
  <1>5. /\ \A u \in Tasks \ {t} : owes'[u] = owes[u]
        /\ \A j \in DOMAIN owes'[t] \ {i} : j \in DOMAIN owes[t] /\ owes'[t][j] = owes[t][j]
    BY <1>2, <1>4
  <1> QED BY <1>1, <1>2, <1>3, <1>5

LEMMA HandedOffEffect ==
    ASSUME TypeOK, NEW t \in Tasks, NEW i \in DOMAIN owes[t], RunHandedOff(t, i)
    PROVE  /\ owes[t][i].handedOff
           /\ slots'[i].handedOff = IF slots[i].handedOff = Unset THEN "Ok" ELSE slots[i].handedOff
           /\ slots'[i].delivered = slots[i].delivered
           /\ i \in DOMAIN owes'[t] => /\ ~owes'[t][i].handedOff /\ owes'[t][i].verdict = owes[t][i].verdict
                                       /\ owes[t][i].verdict # Unset
  <1>1. slots \in [Allocated -> Slot] /\ i \in Allocated /\ owes = [u \in Tasks |-> owes[u]]
    BY DEF TypeOK, TablesOK, BatchesOK
  <1>2. /\ slots'[i].handedOff = IF slots[i].handedOff = Unset THEN "Ok" ELSE slots[i].handedOff
        /\ slots'[i].delivered = slots[i].delivered
    BY <1>1 DEF RunHandedOff, Slot
  <1>3. i \in DOMAIN owes'[t] => /\ owes[t][i].verdict # Unset
                                 /\ owes'[t][i] = [handedOff |-> FALSE, verdict |-> owes[t][i].verdict]
    BY <1>1 DEF RunHandedOff, Without, Put
  <1> QED BY <1>2, <1>3 DEF RunHandedOff

LEMMA SettledEffect ==
    ASSUME TypeOK, NEW t \in Tasks, NEW i \in DOMAIN owes[t], RunSettled(t, i)
    PROVE  /\ ~owes[t][i].handedOff /\ i \notin DOMAIN owes'[t]
           /\ slots'[i].handedOff = IF slots[i].handedOff = Unset THEN owes[t][i].verdict ELSE slots[i].handedOff
           /\ slots'[i].delivered = owes[t][i].verdict
  <1>1. slots \in [Allocated -> Slot] /\ i \in Allocated /\ owes = [u \in Tasks |-> owes[u]]
    BY DEF TypeOK, TablesOK, BatchesOK
  <1>2. /\ slots'[i].handedOff = IF slots[i].handedOff = Unset THEN owes[t][i].verdict ELSE slots[i].handedOff
        /\ slots'[i].delivered = owes[t][i].verdict
    BY <1>1 DEF RunSettled, Slot
  <1>3. i \notin DOMAIN owes'[t]
    BY <1>1 DEF RunSettled, Without
  <1> QED BY <1>2, <1>3 DEF RunSettled

LEMMA HandedOffKeepsVerdicts ==
    ASSUME TypeOK, OneVerdict, Told, NEW t \in Tasks, NEW i \in DOMAIN owes[t], RunHandedOff(t, i)
    PROVE  OneVerdict' /\ Told'
  <1>1. /\ UNCHANGED <<nextId, phase, evidence>> /\ LiveSends' = LiveSends /\ Allocated' = Allocated
        /\ i \in Allocated /\ DOMAIN slots = Allocated /\ DOMAIN slots' = Allocated
        /\ \A j \in Allocated \ {i} : slots'[j] = slots[j]
        /\ \A u \in Tasks \ {t} : owes'[u] = owes[u]
        /\ \A j \in DOMAIN owes'[t] \ {i} : j \in DOMAIN owes[t] /\ owes'[t][j] = owes[t][j]
    BY RunShape
  <1>2. /\ owes[t][i].handedOff
        /\ slots'[i].handedOff = IF slots[i].handedOff = Unset THEN "Ok" ELSE slots[i].handedOff
        /\ slots'[i].delivered = slots[i].delivered
        /\ i \in DOMAIN owes'[t] => /\ ~owes'[t][i].handedOff /\ owes'[t][i].verdict = owes[t][i].verdict
                                    /\ owes[t][i].verdict # Unset
    BY HandedOffEffect
  <1>3. i \in evidence /\ (slots[i].handedOff # Unset => slots[i].handedOff = "Ok") /\ Unset # "Ok"
    BY <1>1, <1>2 DEF Told, HandoffTruthful, Unset
  <1>4. slots'[i].handedOff = "Ok"
    BY <1>2, <1>3
  <1>5. \A u \in Tasks : \A j \in DOMAIN owes'[u] :
           j \in DOMAIN owes[u] /\ owes'[u][j].verdict = owes[u][j].verdict
    BY <1>1, <1>2
  <1>6. \A j \in Allocated : slots'[j].delivered = slots[j].delivered
    BY <1>1, <1>2
  <1>7. \A u \in Tasks : phase'[u] = "idle" => DOMAIN owes'[u] = {}
    BY <1>1, <1>5 DEF OneVerdict
  <1>8. \A u \in Tasks : DOMAIN owes[u] \subseteq Allocated
    BY LiveAllocated
  <1>9. ASSUME NEW u \in Tasks, NEW j \in DOMAIN owes'[u]
        PROVE  /\ owes'[u][j].verdict = Unset => owes'[u][j].handedOff
               /\ owes'[u][j].verdict # Unset =>
                     /\ j \notin LiveSends' /\ slots'[j].delivered = Unset
                     /\ \A w \in Tasks \ {u} : j \in DOMAIN owes'[w] => owes'[w][j].verdict = Unset
    <2>1. j \in DOMAIN owes[u] /\ owes'[u][j].verdict = owes[u][j].verdict /\ j \in Allocated
      BY <1>5, <1>8
    <2>2. owes'[u][j].verdict = Unset => owes'[u][j].handedOff
      BY <1>1, <1>2, <2>1 DEF OneVerdict
    <2> QED BY <1>1, <1>5, <1>6, <2>1, <2>2 DEF OneVerdict
  <1>10. OneVerdict'
    <2>1. \A j \in LiveSends : j \in Allocated
      BY LiveAllocated
    <2>2. \A j \in LiveSends' : slots'[j].delivered = Unset
      BY <1>1, <1>6, <2>1 DEF OneVerdict
    <2>3. \A j \in Allocated' : slots'[j].delivered # Unset => slots'[j].handedOff # Unset
      BY <1>1, <1>3, <1>4, <1>6 DEF OneVerdict
    <2> QED BY <1>7, <1>9, <2>2, <2>3 DEF OneVerdict
  <1>11. Told'
    <2>1. HandoffTruthful'
      BY <1>1, <1>3, <1>4 DEF Told, HandoffTruthful
    <2>2. \A j \in Allocated' : slots'[j].delivered = Unset => slots'[j].handedOff \in {Unset, "Ok"}
      BY <1>1, <1>4, <1>6 DEF Told
    <2>3. ASSUME NEW u \in Tasks, NEW j \in DOMAIN owes'[u]
          PROVE  /\ owes'[u][j].handedOff => j \in evidence'
                 /\ owes'[u][j].verdict = "Ok" => j \in evidence'
                 /\ owes'[u][j].verdict \notin {Unset, "Ok"} /\ j \in evidence'
                       => owes'[u][j].handedOff \/ slots'[j].handedOff = "Ok"
      <3>1. CASE j = i
        BY <3>1, <1>1, <1>3, <1>4
      <3>2. CASE j # i
        <4>1. j \in DOMAIN owes[u] /\ owes'[u][j] = owes[u][j] /\ slots'[j] = slots[j]
          BY <3>2, <1>1, <1>5, <1>8
        <4> QED BY <4>1, <1>1 DEF Told
      <3> QED BY <3>1, <3>2
    <2>4. ASSUME NEW j \in LiveSends' \cap evidence'
          PROVE  slots'[j].handedOff = "Ok" \/ (j \in DOMAIN owes'["sender"] /\ owes'["sender"][j].handedOff)
      <3>1. CASE j = i
        BY <3>1, <1>4
      <3>2. CASE j # i
        <4>1. j \in Allocated /\ slots'[j] = slots[j]
          BY <3>2, <1>1, LiveAllocated
        <4>2. j \in DOMAIN owes["sender"] => j \in DOMAIN owes'["sender"] /\ owes'["sender"][j] = owes["sender"][j]
          <5>1. CASE t = "sender"
            BY <5>1, <3>2, TaskNames DEF RunHandedOff, Without, Put, TypeOK, BatchesOK
          <5>2. CASE t # "sender"
            BY <5>2, <1>1, TaskNames
          <5> QED BY <5>1, <5>2
        <4> QED BY <4>1, <4>2, <1>1 DEF Told
      <3> QED BY <3>1, <3>2
    <2> QED BY <2>1, <2>2, <2>3, <2>4 DEF Told
  <1> QED BY <1>10, <1>11

LEMMA SettledKeepsVerdicts ==
    ASSUME TypeOK, OneVerdict, Told, NEW t \in Tasks, NEW i \in DOMAIN owes[t], RunSettled(t, i)
    PROVE  OneVerdict' /\ Told'
  <1>1. /\ UNCHANGED <<nextId, phase, evidence>> /\ LiveSends' = LiveSends /\ Allocated' = Allocated
        /\ i \in Allocated /\ DOMAIN slots = Allocated /\ DOMAIN slots' = Allocated
        /\ \A j \in Allocated \ {i} : slots'[j] = slots[j]
        /\ \A u \in Tasks \ {t} : owes'[u] = owes[u]
        /\ \A j \in DOMAIN owes'[t] \ {i} : j \in DOMAIN owes[t] /\ owes'[t][j] = owes[t][j]
    BY RunShape
  <1>2. /\ ~owes[t][i].handedOff /\ i \notin DOMAIN owes'[t]
        /\ slots'[i].handedOff = IF slots[i].handedOff = Unset THEN owes[t][i].verdict ELSE slots[i].handedOff
        /\ slots'[i].delivered = owes[t][i].verdict
    BY SettledEffect
  <1>3. /\ owes[t][i].verdict # Unset /\ i \notin LiveSends /\ slots[i].delivered = Unset
        /\ \A u \in Tasks \ {t} : i \in DOMAIN owes[u] => owes[u][i].verdict = Unset
    BY <1>2 DEF OneVerdict
  <1>4. \A u \in Tasks : \A j \in DOMAIN owes'[u] :
           /\ j \in DOMAIN owes[u] /\ owes'[u][j] = owes[u][j] /\ j \in Allocated
           /\ j = i => u # t /\ owes[u][j].verdict = Unset
    BY <1>1, <1>2, <1>3, LiveAllocated
  <1>5. slots'[i].handedOff # Unset /\ (slots'[i].handedOff = "Ok" <=> i \in evidence)
    <2>1. CASE slots[i].handedOff = Unset
      <3>1. /\ owes[t][i].verdict = "Ok" => i \in evidence
            /\ owes[t][i].verdict # "Ok" /\ i \in evidence => slots[i].handedOff = "Ok"
        BY <1>2, <1>3 DEF Told
      <3> QED BY <1>2, <1>3, <2>1, <3>1 DEF Unset
    <2>2. CASE slots[i].handedOff # Unset
      <3>1. slots[i].handedOff = "Ok" <=> i \in evidence
        BY <1>1, <2>2 DEF Told, HandoffTruthful
      <3> QED BY <1>2, <2>2, <3>1
    <2> QED BY <2>1, <2>2
  <1>6. OneVerdict'
    <2>1. \A u \in Tasks : phase'[u] = "idle" => DOMAIN owes'[u] = {}
      BY <1>1, <1>4 DEF OneVerdict
    <2>2. \A j \in LiveSends' : slots'[j].delivered = Unset
      BY <1>1, <1>3, LiveAllocated DEF OneVerdict
    <2>3. ASSUME NEW u \in Tasks, NEW j \in DOMAIN owes'[u]
          PROVE  /\ owes'[u][j].verdict = Unset => owes'[u][j].handedOff
                 /\ owes'[u][j].verdict # Unset =>
                       /\ j \notin LiveSends' /\ slots'[j].delivered = Unset
                       /\ \A w \in Tasks \ {u} : j \in DOMAIN owes'[w] => owes'[w][j].verdict = Unset
      <3>1. CASE j = i
        BY <3>1, <1>4 DEF OneVerdict
      <3>2. CASE j # i
        BY <3>2, <1>1, <1>4 DEF OneVerdict
      <3> QED BY <3>1, <3>2
    <2>4. \A j \in Allocated' : slots'[j].delivered # Unset => slots'[j].handedOff # Unset
      BY <1>1, <1>5 DEF OneVerdict
    <2> QED BY <2>1, <2>2, <2>3, <2>4 DEF OneVerdict
  <1>7. Told'
    <2>1. HandoffTruthful'
      BY <1>1, <1>5 DEF Told, HandoffTruthful
    <2>2. \A j \in Allocated' : slots'[j].delivered = Unset => slots'[j].handedOff \in {Unset, "Ok"}
      BY <1>1, <1>2, <1>3 DEF Told
    <2>3. ASSUME NEW u \in Tasks, NEW j \in DOMAIN owes'[u]
          PROVE  /\ owes'[u][j].handedOff => j \in evidence'
                 /\ owes'[u][j].verdict = "Ok" => j \in evidence'
                 /\ owes'[u][j].verdict \notin {Unset, "Ok"} /\ j \in evidence'
                       => owes'[u][j].handedOff \/ slots'[j].handedOff = "Ok"
      BY <1>1, <1>4 DEF Told
    <2>4. ASSUME NEW j \in LiveSends' \cap evidence'
          PROVE  slots'[j].handedOff = "Ok" \/ (j \in DOMAIN owes'["sender"] /\ owes'["sender"][j].handedOff)
      <3>1. j # i /\ j \in Allocated /\ slots'[j] = slots[j]
        BY <1>1, <1>3, LiveAllocated
      <3>2. j \in DOMAIN owes["sender"] => j \in DOMAIN owes'["sender"] /\ owes'["sender"][j] = owes["sender"][j]
        <4>1. CASE t = "sender"
          BY <4>1, <3>1, TaskNames DEF RunSettled, Without, TypeOK, BatchesOK
        <4>2. CASE t # "sender"
          BY <4>2, <1>1, TaskNames
        <4> QED BY <4>1, <4>2
      <3> QED BY <3>1, <3>2, <1>1 DEF Told
    <2> QED BY <2>1, <2>2, <2>3, <2>4 DEF Told
  <1> QED BY <1>6, <1>7

-----------------------------------------------------------------------------
(* The steps that take on a batch *)

VerdictInv == Disjoint /\ OneVerdict /\ Known /\ Told /\ CopiesKnown /\ CancelTakesCopies

\* A unicast keeps the broadcast it is a copy of; a new one is no copy, or that of a broadcast
\* admitted with it.  A batch that cancels a broadcast leaves none of its copies.
CopyStep(acts) ==
    /\ DOMAIN unicasts' \cup DOMAIN unrouted' \subseteq DOMAIN unicasts \cup DOMAIN unrouted \cup Fresh
    /\ \A j \in DOMAIN unicasts' :
          \/ unicasts'[j].copyOf = NoSend
          \/ j \in DOMAIN unicasts /\ unicasts'[j].copyOf = unicasts[j].copyOf
          \/ unicasts'[j].copyOf \in Fresh \ (DOMAIN unicasts' \cup DOMAIN unrouted')
    /\ \A i \in DOMAIN acts : acts[i].verdict = "Cancelled"
          => \A j \in DOMAIN unicasts' : unicasts'[j].copyOf # i

LEMMA BatchKeepsCopies ==
    ASSUME TypeOK, CopiesKnown, CancelTakesCopies, NEW t \in Tasks, NEW acts, Batch(t, acts), CopyStep(acts)
    PROVE  CopiesKnown' /\ CancelTakesCopies'
  <1>1. owes'[t] = acts /\ \A u \in Tasks \ {t} : owes'[u] = owes[u]
    BY BatchOwes
  <1>2. LiveSends \subseteq Allocated /\ (\A u \in Tasks : DOMAIN owes[u] \subseteq Allocated)
        /\ FreshSlot.delivered # "Cancelled" /\ Unset # "Cancelled"
    BY LiveAllocated DEF FreshSlot, Unset
  <1>3. ASSUME NEW j \in DOMAIN unicasts', unicasts'[j].copyOf # NoSend
        PROVE  LET p == unicasts'[j].copyOf IN
               /\ p \in Allocated' \ (DOMAIN unicasts' \cup DOMAIN unrouted')
               /\ slots'[p].delivered # "Cancelled"
               /\ \A u \in Tasks : p \in DOMAIN owes'[u] => owes'[u][p].verdict # "Cancelled"
    <2> DEFINE p == unicasts'[j].copyOf
    <2>1. CASE p \in Fresh \ (DOMAIN unicasts' \cup DOMAIN unrouted')
      <3>1. p \in Allocated' /\ p \notin Allocated /\ slots'[p].delivered # "Cancelled"
        BY <1>2, <2>1 DEF Batch, Fresh
      <3>2. \A u \in Tasks : p \in DOMAIN owes'[u] => owes'[u][p].verdict # "Cancelled"
        BY <1>1, <1>2, <3>1 DEF Batch
      <3> QED BY <2>1, <3>1, <3>2
    <2>2. CASE j \in DOMAIN unicasts /\ p = unicasts[j].copyOf
      <3>1. p \in Allocated \ (DOMAIN unicasts \cup DOMAIN unrouted)
        BY <1>3, <2>2 DEF CopiesKnown
      <3>2. p \in Allocated' \ (DOMAIN unicasts' \cup DOMAIN unrouted') /\ slots'[p] = slots[p]
        BY <3>1 DEF CopyStep, Batch, Fresh
      <3>3. slots[p].delivered # "Cancelled" /\ \A u \in Tasks : p \in DOMAIN owes[u] => owes[u][p].verdict # "Cancelled"
        BY <1>3, <2>2 DEF CancelTakesCopies
      <3>4. \A u \in Tasks : p \in DOMAIN owes'[u] => owes'[u][p].verdict # "Cancelled"
        BY <1>1, <3>3 DEF CopyStep
      <3> QED BY <3>2, <3>3, <3>4
    <2> QED BY <1>3, <2>1, <2>2 DEF CopyStep
  <1> QED BY <1>3 DEF CopiesKnown, CancelTakesCopies

LEMMA BatchStep ==
    ASSUME TypeOK, TypeOK', VerdictInv, NEW t \in Tasks, NEW acts,
           Batch(t, acts), Truthful(t, acts), CopyStep(acts), Disjoint', Known'
    PROVE  VerdictInv'
  <1>1. OneVerdict' /\ Told'
    BY BatchKeepsOneVerdict, BatchKeepsTold DEF VerdictInv
  <1>2. CopiesKnown' /\ CancelTakesCopies'
    BY BatchKeepsCopies DEF VerdictInv
  <1> QED BY <1>1, <1>2 DEF VerdictInv

\* commit_sends as a batch.
LEMMA CommitBatch ==
    ASSUME TypeOK, NEW t \in Tasks, NEW kind \in {"commit", "pass", "timer", "drain"}, NEW acts,
           phase[t] = "idle", Commit(t, kind, acts)
    PROVE  /\ phase' # phase /\ phase' = [phase EXCEPT ![t] = phase'[t]]
           /\ owes' = [owes EXCEPT ![t] = acts]
  <1>1. phase \in [Tasks -> {"idle", "commit", "pass", "timer", "drain"}]
    BY DEF TypeOK, BatchesOK
  <1>2. phase' = [phase EXCEPT ![t] = kind] /\ owes' = [owes EXCEPT ![t] = acts]
    BY DEF Commit
  <1>3. phase'[t] = kind
    BY <1>1, <1>2
  <1> QED BY <1>2, <1>3

LEMMA AllocateSlots ==
    ASSUME TypeOK, NEW n \in Nat, Allocate(n)
    PROVE  /\ Allocated \subseteq Allocated' /\ Fresh = nextId .. nextId + n - 1
           /\ \A i \in Allocated : slots'[i] = slots[i]
           /\ \A i \in Fresh : slots'[i] = FreshSlot
  BY DEF TypeOK, TablesOK, Allocate, Allocated, Fresh

LEMMA SameSlots ==
    ASSUME nextId' = nextId, slots' = slots
    PROVE  /\ Allocated \subseteq Allocated' /\ Fresh = {} /\ Allocated' = Allocated
           /\ \A i \in Allocated : slots'[i] = slots[i]
           /\ \A i \in Fresh : slots'[i] = FreshSlot
  BY DEF Allocated, Fresh

\* Sends that are admitted, and none that leaves: the tables gain ids that are all new.
Admits(n, U, R, B) ==
    /\ Allocate(n) /\ evidence' = evidence
    /\ U \cup R \cup B \subseteq Fresh
    /\ U \cap R = {} /\ U \cap B = {} /\ R \cap B = {}
    /\ DOMAIN unicasts' = DOMAIN unicasts \cup U /\ \A i \in DOMAIN unicasts : unicasts'[i] = unicasts[i]
    /\ DOMAIN unrouted' = DOMAIN unrouted \cup R
    /\ DOMAIN broadcasts' = DOMAIN broadcasts \cup B
    /\ \A i \in DOMAIN broadcasts : broadcasts'[i] = broadcasts[i]
    /\ \A i \in U : unicasts'[i].stage # "AwaitingApsAck" /\ unicasts'[i].copyOf \in {NoSend} \cup B
    /\ \A i \in B : broadcasts'[i].handedOff = FALSE

LEMMA AdmissionStep ==
    ASSUME TypeOK, TypeOK', VerdictInv, NEW h \in Handlers, phase[h] = "idle", Commit(h, "commit", NoActions),
           NEW n \in Nat, NEW U, NEW R, NEW B, Admits(n, U, R, B)
    PROVE  VerdictInv'
  <1>1. /\ Allocated \subseteq Allocated' /\ \A i \in Allocated : slots'[i] = slots[i]
        /\ \A i \in Fresh : slots'[i] = FreshSlot
    BY AllocateSlots DEF Admits
  <1>2. h \in Tasks /\ DOMAIN NoActions = {}
    BY TaskNames, NoActionsType
  <1>3. LiveSends \subseteq Allocated /\ evidence \subseteq Allocated /\ Fresh \cap Allocated = {}
    BY LiveAllocated DEF Fresh
  <1>4. LiveSends' = LiveSends \cup U \cup R \cup B
    BY DEF LiveSends, Admits
  <1>5. Batch(h, NoActions)
    BY <1>1, <1>2, <1>4, CommitBatch DEF Batch, Admits
  <1>6. Truthful(h, NoActions)
    BY <1>2 DEF Truthful, Admits
  <1>7. CopyStep(NoActions)
    <2>1. B \cap (DOMAIN unicasts' \cup DOMAIN unrouted') = {}
      BY <1>3 DEF LiveSends, Admits
    <2> QED BY <1>2, <2>1 DEF CopyStep, Admits
  <1>8. Disjoint'
    BY <1>3 DEF VerdictInv, Disjoint, LiveSends, Admits
  <1>9. Known'
    BY <1>3 DEF VerdictInv, Known, LiveSends, Admits
  <1> QED BY <1>2, <1>5, <1>6, <1>7, <1>8, <1>9, BatchStep

LEMMA NewUnicastUnknown ==
    ASSUME NEW r, NEW admitted, NEW c
    PROVE  /\ NewUnicast(r, admitted, c).stage # "AwaitingApsAck"
           /\ NewUnicast(r, admitted, c).stage # "Transmitting"
           /\ NewUnicast(r, admitted, c).copyOf = c
  BY DEF NewUnicast

LEMMA NewBroadcastUnknown ==
    (\A r : NewBroadcast(r).handedOff = FALSE) /\ RouteRequest.handedOff = FALSE
  BY DEF NewBroadcast, RouteRequest

LEMMA EnqueueUnicastVerdicts ==
    ASSUME TypeOK, TypeOK', VerdictInv, NEW h \in Handlers, NEW r, EnqueueUnicast(h, r)
    PROVE  VerdictInv'
  <1>1. nextId \in Nat /\ Allocate(1) /\ nextId \notin DOMAIN unicasts
    BY DEF EnqueueUnicast, TypeOK, TablesOK, Allocated
  <1>2. Fresh = nextId .. nextId + 1 - 1
    BY <1>1, AllocateSlots
  <1>3. nextId \in Fresh
    BY <1>1, <1>2
  <1>4. /\ DOMAIN unicasts' = DOMAIN unicasts \cup {nextId}
        /\ \A i \in DOMAIN unicasts : unicasts'[i] = unicasts[i]
        /\ unicasts'[nextId] = NewUnicast(r, Never, NoSend)
    BY <1>1 DEF EnqueueUnicast, Put
  <1>5. /\ phase[h] = "idle" /\ Commit(h, "commit", NoActions) /\ evidence' = evidence
        /\ unrouted' = unrouted /\ broadcasts' = broadcasts
    BY DEF EnqueueUnicast
  <1>6. unicasts'[nextId].stage # "AwaitingApsAck" /\ unicasts'[nextId].copyOf = NoSend
    BY <1>4, NewUnicastUnknown
  <1>7. Admits(1, {nextId}, {}, {})
    BY <1>1, <1>3, <1>4, <1>5, <1>6 DEF Admits
  <1> QED BY <1>5, <1>7, AdmissionStep

LEMMA SendUnroutedVerdicts ==
    ASSUME TypeOK, TypeOK', VerdictInv, NEW h \in Handlers, NEW r, SendUnrouted(h, r)
    PROVE  VerdictInv'
  <1>1. /\ phase[h] = "idle" /\ Commit(h, "commit", NoActions) /\ evidence' = evidence
        /\ unicasts' = unicasts /\ DOMAIN unrouted' = DOMAIN unrouted \cup {nextId}
    BY DEF SendUnrouted, Put
  <1>2. nextId \in Nat
    BY DEF TypeOK, TablesOK
  <1>3. CASE Allocate(1) /\ broadcasts' = broadcasts
    <2>1. Fresh = nextId .. nextId + 1 - 1
      BY <1>3, AllocateSlots
    <2>2. nextId \in Fresh
      BY <1>2, <2>1
    <2>3. Admits(1, {}, {nextId}, {})
      BY <1>1, <1>3, <2>2 DEF Admits
    <2> QED BY <1>1, <2>3, AdmissionStep
  <1>4. CASE Allocate(2) /\ broadcasts' = Put(broadcasts, nextId + 1, RouteRequest)
    <2>1. Fresh = nextId .. nextId + 2 - 1
      BY <1>4, AllocateSlots
    <2>2. nextId \in Fresh /\ nextId + 1 \in Fresh /\ nextId # nextId + 1
      BY <1>2, <2>1
    <2>3. nextId + 1 \notin DOMAIN broadcasts
      BY DEF TypeOK, TablesOK, Allocated
    <2>4. /\ DOMAIN broadcasts' = DOMAIN broadcasts \cup {nextId + 1}
          /\ \A i \in DOMAIN broadcasts : broadcasts'[i] = broadcasts[i]
          /\ broadcasts'[nextId + 1] = RouteRequest
      BY <1>4, <2>3 DEF Put
    <2>5. broadcasts'[nextId + 1].handedOff = FALSE
      BY <2>4, NewBroadcastUnknown
    <2>6. Admits(2, {}, {nextId}, {nextId + 1})
      BY <1>1, <1>4, <2>2, <2>4, <2>5 DEF Admits
    <2> QED BY <1>1, <2>6, AdmissionStep
  <1> QED BY <1>3, <1>4 DEF SendUnrouted

LEMMA EnqueueBroadcastVerdicts ==
    ASSUME TypeOK, TypeOK', VerdictInv, NEW h \in Handlers, NEW r \in BroadcastRequests, EnqueueBroadcast(h, r)
    PROVE  VerdictInv'
  <1> PICK n : n = Len(r.children)
    OBVIOUS
  <1> PICK C : C = nextId + 1 .. nextId + n
    OBVIOUS
  <1>1. n \in Nat /\ n + 1 \in Nat /\ nextId \in Nat
    <2>1. r.children \in Seq(Devices)
      BY RequestsAssumption DEF BroadcastRequest
    <2> QED BY <2>1 DEF TypeOK, TablesOK
  <1>2. /\ phase[h] = "idle" /\ Commit(h, "commit", NoActions) /\ evidence' = evidence
        /\ unrouted' = unrouted /\ Allocate(n + 1)
        /\ broadcasts' = Put(broadcasts, nextId, NewBroadcast(r))
    BY DEF EnqueueBroadcast
  <1>3. Fresh = nextId .. nextId + (n + 1) - 1
    BY <1>1, <1>2, AllocateSlots
  <1>4. nextId \in Fresh /\ C \subseteq Fresh /\ nextId \notin C
    BY <1>1, <1>3
  <1>5. nextId \notin DOMAIN broadcasts /\ C \cap DOMAIN unicasts = {}
    BY <1>1 DEF TypeOK, TablesOK, Allocated
  <1>6. /\ DOMAIN unicasts' = DOMAIN unicasts \cup C
        /\ \A i \in DOMAIN unicasts : unicasts'[i] = unicasts[i]
        /\ \A i \in C : unicasts'[i] =
              NewUnicast([priority |-> UserNormal, confirm |-> OnHandoff,
                          poll |-> r.children[i - nextId]], Never, nextId)
    BY <1>5 DEF EnqueueBroadcast
  <1>7. ASSUME NEW i \in C
        PROVE  unicasts'[i].stage # "AwaitingApsAck" /\ unicasts'[i].copyOf = nextId
    <2> DEFINE q == [priority |-> UserNormal, confirm |-> OnHandoff, poll |-> r.children[i - nextId]]
    <2>1. unicasts'[i] = NewUnicast(q, Never, nextId)
      BY <1>6
    <2> HIDE DEF q
    <2> QED BY <2>1, NewUnicastUnknown
  <1>8. /\ DOMAIN broadcasts' = DOMAIN broadcasts \cup {nextId}
        /\ \A i \in DOMAIN broadcasts : broadcasts'[i] = broadcasts[i]
        /\ broadcasts'[nextId].handedOff = FALSE
    BY <1>2, <1>5, NewBroadcastUnknown DEF Put
  <1>9. Admits(n + 1, C, {}, {nextId})
    BY <1>2, <1>4, <1>6, <1>7, <1>8 DEF Admits
  <1> QED BY <1>1, <1>2, <1>9, AdmissionStep

\* Sends that leave the tables with a verdict, and none that is admitted.
Releases(acts) ==
    /\ UNCHANGED <<nextId, slots>>
    /\ DOMAIN unicasts' \subseteq DOMAIN unicasts /\ DOMAIN unrouted' \subseteq DOMAIN unrouted
    /\ DOMAIN broadcasts' \subseteq DOMAIN broadcasts
    /\ \A i \in DOMAIN unicasts' : /\ unicasts'[i].copyOf = unicasts[i].copyOf
                                   /\ unicasts'[i].stage = "AwaitingApsAck" <=> unicasts[i].stage = "AwaitingApsAck"
    /\ \A i \in DOMAIN broadcasts' : broadcasts'[i].handedOff = broadcasts[i].handedOff
    /\ evidence \subseteq evidence' /\ evidence' \ evidence \subseteq LiveSends \ LiveSends'
    /\ \A i \in DOMAIN acts :
          /\ acts[i].verdict # Unset /\ i \in LiveSends \ LiveSends'
          /\ acts[i].handedOff => i \in evidence'
          /\ acts[i].verdict = "Ok" => i \in evidence'
          /\ acts[i].verdict # "Ok" /\ i \in evidence' => acts[i].handedOff \/ slots[i].handedOff = "Ok"
          /\ acts[i].verdict = "Cancelled" => \A j \in DOMAIN unicasts' : unicasts[j].copyOf # i

LEMMA ReleaseStep ==
    ASSUME TypeOK, TypeOK', VerdictInv, NEW h \in Tasks, phase[h] = "idle",
           NEW kind \in {"commit", "pass", "timer", "drain"}, NEW acts, Commit(h, kind, acts), Releases(acts)
    PROVE  VerdictInv'
  <1>1. /\ Allocated' = Allocated /\ Fresh = {} /\ \A i \in Allocated : slots'[i] = slots[i]
        /\ UNCHANGED <<nextId, slots>>
    BY SameSlots DEF Releases
  <1>2. LiveSends' \subseteq LiveSends
    BY DEF LiveSends, Releases
  <1>3. Batch(h, acts)
    BY <1>1, <1>2, CommitBatch DEF Batch, Releases
  <1>4. Truthful(h, acts)
    BY DEF Truthful, Releases
  <1>5. CopyStep(acts)
    BY DEF CopyStep, Releases
  <1>6. Disjoint'
    BY DEF VerdictInv, Disjoint, Releases
  <1>7. Known'
    <2>1. \A i \in LiveSends' : i \in evidence' <=> i \in evidence
      BY <1>2 DEF Releases
    <2>2. \A i \in DOMAIN unicasts' : i \in LiveSends' /\ i \in DOMAIN unicasts
      BY DEF LiveSends, Releases
    <2>3. \A i \in DOMAIN broadcasts' : i \in LiveSends' /\ i \in DOMAIN broadcasts
      BY DEF LiveSends, Releases
    <2>4. \A i \in DOMAIN unrouted' : i \in LiveSends' /\ i \in DOMAIN unrouted
      BY DEF LiveSends, Releases
    <2> QED BY <2>1, <2>2, <2>3, <2>4 DEF VerdictInv, Known, Releases
  <1> QED BY <1>3, <1>4, <1>5, <1>6, <1>7, BatchStep

\* Steps of the handlers that report nothing.
LEMMA EventVerdicts ==
    ASSUME TypeOK, TypeOK', VerdictInv, NEW h \in Handlers,
           (\E device \in Devices : Poll(h, device)) \/ (\E i \in Allocated : RelayHeard(h, i))
              \/ (\E d \in Destinations : RouteEstablished(h, d))
    PROVE  VerdictInv'
  <1>1. h \in Tasks /\ DOMAIN NoActions = {} /\ phase[h] = "idle"
    BY TaskNames, NoActionsType DEF Poll, RelayHeard, RouteEstablished
  <1>2. Commit(h, "commit", NoActions) \/ Commit(h, "timer", NoActions)
    BY DEF Poll, RelayHeard, RouteEstablished
  <1>3. /\ UNCHANGED <<nextId, slots, unrouted, broadcasts, evidence>> /\ DOMAIN unicasts' = DOMAIN unicasts
        /\ \A i \in DOMAIN unicasts : /\ unicasts'[i].copyOf = unicasts[i].copyOf
                                      /\ unicasts'[i].stage = "AwaitingApsAck" <=> unicasts[i].stage = "AwaitingApsAck"
    <2>1. CASE \E device \in Devices : Poll(h, device)
      <3>1. PICK device \in Devices : Poll(h, device)
        BY <2>1
      <3>2. UNCHANGED <<nextId, slots, unrouted, broadcasts, evidence>> /\ DOMAIN unicasts' = DOMAIN unicasts
        BY <3>1 DEF Poll
      <3>3. ASSUME NEW i \in DOMAIN unicasts
            PROVE  /\ unicasts'[i].copyOf = unicasts[i].copyOf
                   /\ unicasts'[i].stage = "AwaitingApsAck" <=> unicasts[i].stage = "AwaitingApsAck"
        <4>1. \/ unicasts'[i] = unicasts[i]
              \/ /\ unicasts[i].stage = "AwaitingPoll"
                 /\ unicasts'[i] = [unicasts[i] EXCEPT !.stage = "Queued", !.priority = StackCritical]
          BY <3>1 DEF Poll
        <4>2. unicasts[i] \in UnicastRecord
          BY DEF TypeOK, TablesOK
        <4> QED BY <4>1, <4>2 DEF UnicastRecord
      <3> QED BY <3>2, <3>3
    <2>2. CASE ~\E device \in Devices : Poll(h, device)
      BY <2>2 DEF RelayHeard, RouteEstablished, tables
    <2> QED BY <2>1, <2>2
  <1>4. Releases(NoActions)
    BY <1>1, <1>3 DEF Releases
  <1> QED BY <1>1, <1>2, <1>4, ReleaseStep

LEMMA LiveUnicast ==
    ASSUME TypeOK, VerdictInv, NEW i \in DOMAIN unicasts, NEW v
    PROVE  /\ i \in LiveSends /\ i \notin DOMAIN unrouted /\ i \notin DOMAIN broadcasts
           /\ i \in evidence <=> unicasts[i].stage = "AwaitingApsAck"
           /\ UnicastSettled(unicasts[i], v).handedOff <=> i \in evidence
           /\ UnicastSettled(unicasts[i], v).verdict = v
  BY DEF LiveSends, VerdictInv, Disjoint, Known, UnicastSettled

LEMMA NoCopyOf ==
    ASSUME TypeOK, VerdictInv, NEW i \in DOMAIN unicasts \cup DOMAIN unrouted
    PROVE  \A j \in DOMAIN unicasts : unicasts[j].copyOf # i
  <1>1. i # NoSend
    BY DEF TypeOK, TablesOK, Allocated, NoSend
  <1> QED BY <1>1 DEF VerdictInv, CopiesKnown

LEMMA AckReceivedVerdicts ==
    ASSUME TypeOK, TypeOK', VerdictInv, NEW h \in Handlers, NEW key, AckReceived(h, key)
    PROVE  VerdictInv'
  <1>1. PICK S \in SUBSET DOMAIN unicasts :
           /\ DOMAIN unicasts' = DOMAIN unicasts \ S
           /\ \A i \in DOMAIN unicasts' : unicasts'[i] = unicasts[i] \/ unicasts'[i] = [unicasts[i] EXCEPT !.acked = TRUE]
           /\ Commit(h, "commit", [i \in S |-> UnicastSettled(unicasts[i], "Ok")])
           /\ evidence' = evidence \cup S
    BY DEF AckReceived
  <1> DEFINE acts == [i \in S |-> UnicastSettled(unicasts[i], "Ok")]
  <1>2. /\ UNCHANGED <<nextId, slots, unrouted, broadcasts>> /\ phase[h] = "idle" /\ h \in Tasks
    BY TaskNames DEF AckReceived
  <1>3. \A i \in DOMAIN unicasts' : unicasts'[i].copyOf = unicasts[i].copyOf /\ unicasts'[i].stage = unicasts[i].stage
    BY <1>1 DEF TypeOK, TablesOK, UnicastRecord
  <1>4. \A i \in S : i \in LiveSends \ LiveSends'
    BY <1>1, <1>2, LiveUnicast DEF LiveSends
  <1>5. /\ DOMAIN acts = S
        /\ \A i \in DOMAIN acts : acts[i].verdict = "Ok"
    BY DEF UnicastSettled
  <1>6. Commit(h, "commit", acts)
    BY <1>1
  <1> HIDE DEF acts
  <1>7. Releases(acts)
    BY <1>1, <1>2, <1>3, <1>4, <1>5 DEF Releases, Unset
  <1> QED BY <1>2, <1>6, <1>7, ReleaseStep

LEMMA DropIndirectVerdicts ==
    ASSUME TypeOK, TypeOK', VerdictInv, NEW h \in Handlers, NEW device, DropIndirect(h, device)
    PROVE  VerdictInv'
  <1>1. PICK S \in SUBSET DOMAIN unicasts :
           /\ unicasts' = Without(unicasts, S)
           /\ Commit(h, "commit", [i \in S |-> UnicastSettled(unicasts[i], "IndirectExpired")])
    BY DEF DropIndirect
  <1> DEFINE acts == [i \in S |-> UnicastSettled(unicasts[i], "IndirectExpired")]
  <1>2. /\ UNCHANGED <<nextId, slots, unrouted, broadcasts, evidence>> /\ phase[h] = "idle" /\ h \in Tasks
    BY TaskNames DEF DropIndirect
  <1>3. DOMAIN unicasts' = DOMAIN unicasts \ S /\ \A i \in DOMAIN unicasts' : unicasts'[i] = unicasts[i]
    BY <1>1 DEF Without
  <1>4. \A i \in S : i \in LiveSends \ LiveSends'
    BY <1>2, <1>3, LiveUnicast DEF LiveSends
  <1>5. /\ DOMAIN acts = S
        /\ \A i \in DOMAIN acts : acts[i].verdict = "IndirectExpired" /\ (acts[i].handedOff <=> i \in evidence)
    BY LiveUnicast
  <1>6. Commit(h, "commit", acts)
    BY <1>1
  <1> HIDE DEF acts
  <1>7. Releases(acts)
    BY <1>2, <1>3, <1>4, <1>5 DEF Releases, Unset
  <1> QED BY <1>2, <1>6, <1>7, ReleaseStep

LEMMA CancelUnicastVerdicts ==
    ASSUME TypeOK, TypeOK', VerdictInv, NEW h \in Handlers, NEW i, CancelUnicast(h, i)
    PROVE  VerdictInv'
  <1>1. i \in DOMAIN unicasts
    BY DEF CancelUnicast
  <1> DEFINE acts == Put(NoActions, i, UnicastSettled(unicasts[i], "Cancelled"))
  <1>2. /\ UNCHANGED <<nextId, slots, unrouted, broadcasts, evidence>> /\ phase[h] = "idle" /\ h \in Tasks
        /\ Commit(h, "commit", acts)
    BY TaskNames DEF CancelUnicast
  <1>3. DOMAIN unicasts' = DOMAIN unicasts \ {i} /\ \A j \in DOMAIN unicasts' : unicasts'[j] = unicasts[j]
    BY DEF CancelUnicast, Without
  <1>4. i \in LiveSends \ LiveSends'
    BY <1>1, <1>2, <1>3, LiveUnicast DEF LiveSends
  <1>5. /\ DOMAIN acts = {i} /\ acts[i].verdict = "Cancelled" /\ (acts[i].handedOff <=> i \in evidence)
    BY <1>1, LiveUnicast, NoActionsType DEF Put
  <1>6. \A j \in DOMAIN unicasts : unicasts[j].copyOf # i
    BY <1>1, NoCopyOf
  <1> HIDE DEF acts
  <1>7. Releases(acts)
    BY <1>2, <1>3, <1>4, <1>5, <1>6 DEF Releases, Unset
  <1> QED BY <1>2, <1>7, ReleaseStep

LEMMA CancelUnroutedVerdicts ==
    ASSUME TypeOK, TypeOK', VerdictInv, NEW h \in Handlers, NEW i, CancelUnrouted(h, i)
    PROVE  VerdictInv'
  <1>1. i \in DOMAIN unrouted
    BY DEF CancelUnrouted
  <1> DEFINE acts == Put(NoActions, i, [handedOff |-> FALSE, verdict |-> "Cancelled"])
  <1>2. /\ UNCHANGED <<nextId, slots, unicasts, broadcasts, evidence>> /\ phase[h] = "idle" /\ h \in Tasks
        /\ Commit(h, "commit", acts)
    BY TaskNames DEF CancelUnrouted
  <1>3. DOMAIN unrouted' = DOMAIN unrouted \ {i}
    BY DEF CancelUnrouted, Without
  <1>4. i \in LiveSends \ LiveSends' /\ i \notin evidence
    BY <1>1, <1>2, <1>3 DEF LiveSends, VerdictInv, Disjoint, Known
  <1>5. DOMAIN acts = {i} /\ acts[i].verdict = "Cancelled" /\ ~acts[i].handedOff
    BY NoActionsType DEF Put
  <1>6. \A j \in DOMAIN unicasts : unicasts[j].copyOf # i
    BY <1>1, NoCopyOf
  <1> HIDE DEF acts
  <1>7. Releases(acts)
    BY <1>2, <1>3, <1>4, <1>5, <1>6 DEF Releases, Unset
  <1> QED BY <1>2, <1>7, ReleaseStep

LEMMA CancelBroadcastVerdicts ==
    ASSUME TypeOK, TypeOK', VerdictInv, NEW h \in Handlers, NEW i, CancelBroadcast(h, i)
    PROVE  VerdictInv'
  <1>1. i \in DOMAIN broadcasts
    BY DEF CancelBroadcast
  <1> DEFINE acts == [j \in CopiesOf(i) \cup {i} |->
                         IF j = i THEN BroadcastSettled(broadcasts[i], "Cancelled")
                         ELSE UnicastSettled(unicasts[j], "Cancelled")]
  <1>2. /\ UNCHANGED <<nextId, slots, unrouted, evidence>> /\ phase[h] = "idle" /\ h \in Tasks
        /\ Commit(h, "commit", acts)
    BY TaskNames DEF CancelBroadcast
  <1>3. /\ DOMAIN unicasts' = DOMAIN unicasts \ CopiesOf(i) /\ \A j \in DOMAIN unicasts' : unicasts'[j] = unicasts[j]
        /\ DOMAIN broadcasts' = DOMAIN broadcasts \ {i} /\ \A j \in DOMAIN broadcasts' : broadcasts'[j] = broadcasts[j]
    BY DEF CancelBroadcast, Without
  <1>4. CopiesOf(i) \subseteq DOMAIN unicasts /\ \A j \in DOMAIN unicasts' : unicasts[j].copyOf # i
    BY <1>3 DEF CopiesOf
  <1>5. ASSUME NEW j \in CopiesOf(i) \cup {i}
        PROVE  j \in LiveSends \ LiveSends' /\ acts[j].verdict = "Cancelled" /\ (acts[j].handedOff <=> j \in evidence)
    <2>1. CASE j = i
      BY <2>1, <1>1, <1>2, <1>3 DEF LiveSends, VerdictInv, Disjoint, Known, BroadcastSettled
    <2>2. CASE j # i /\ j \in CopiesOf(i)
      <3>1. j \in DOMAIN unicasts /\ acts[j] = UnicastSettled(unicasts[j], "Cancelled")
        BY <2>2, <1>4
      <3>2. j \in LiveSends /\ j \notin DOMAIN unrouted /\ j \notin DOMAIN broadcasts
        BY <3>1, LiveUnicast
      <3>3. j \notin LiveSends'
        BY <2>2, <3>2, <1>2, <1>3 DEF LiveSends
      <3> QED BY <3>1, <3>2, <3>3, LiveUnicast
    <2> QED BY <2>1, <2>2
  <1>6. ASSUME NEW j \in CopiesOf(i) PROVE \A k \in DOMAIN unicasts : unicasts[k].copyOf # j
    BY <1>4, NoCopyOf
  <1>7. DOMAIN acts = CopiesOf(i) \cup {i}
    OBVIOUS
  <1> HIDE DEF acts
  <1>8. Releases(acts)
    BY <1>2, <1>3, <1>4, <1>5, <1>6, <1>7 DEF Releases, Unset
  <1> QED BY <1>2, <1>8, ReleaseStep

LEMMA ShutdownVerdicts ==
    ASSUME TypeOK, TypeOK', VerdictInv, NEW h \in Handlers, Shutdown(h)
    PROVE  VerdictInv'
  <1> DEFINE acts == [i \in LiveSends |-> [handedOff |-> FALSE, verdict |-> "Cancelled"]]
  <1>1. /\ UNCHANGED <<nextId, slots, evidence>> /\ phase[h] = "idle" /\ h \in Tasks
        /\ Commit(h, "drain", acts) /\ phase["sender"] = "idle"
    BY TaskNames DEF Shutdown, LiveSends
  <1>2. DOMAIN unicasts' = {} /\ DOMAIN unrouted' = {} /\ DOMAIN broadcasts' = {}
    BY DEF Shutdown, Without
  <1>3. DOMAIN acts = LiveSends /\ (\A i \in DOMAIN acts : acts[i].verdict = "Cancelled" /\ ~acts[i].handedOff)
        /\ LiveSends' = {}
    BY <1>2 DEF LiveSends
  <1>4. \A i \in LiveSends : i \in evidence => slots[i].handedOff = "Ok"
    BY <1>1, TaskNames DEF VerdictInv, OneVerdict, Told
  <1> HIDE DEF acts
  <1>5. Releases(acts)
    BY <1>1, <1>2, <1>3, <1>4 DEF Releases, Unset
  <1> QED BY <1>1, <1>5, ReleaseStep

\* What the sender reports of the send it had on loan.  got: whether the mesh accepted it just now.
ReportsOf(i, acts, got) ==
    /\ UNCHANGED <<nextId, slots, unrouted>> /\ i \in LiveSends \ DOMAIN unrouted
    /\ evidence' = IF got THEN evidence \cup {i} ELSE evidence
    /\ DOMAIN acts \subseteq {i}
    /\ DOMAIN unicasts' \subseteq DOMAIN unicasts /\ DOMAIN broadcasts' \subseteq DOMAIN broadcasts
    /\ \A j \in DOMAIN unicasts' :
          /\ unicasts'[j].copyOf = unicasts[j].copyOf /\ (j # i => unicasts'[j] = unicasts[j])
          /\ j = i => (unicasts'[j].stage = "AwaitingApsAck" <=> i \in evidence')
    /\ \A j \in DOMAIN broadcasts' : /\ j # i => broadcasts'[j] = broadcasts[j]
                                     /\ j = i => (broadcasts'[j].handedOff <=> i \in evidence')
    /\ i \in DOMAIN acts =>
          /\ acts[i].verdict # "Cancelled" /\ (acts[i].handedOff => i \in evidence')
          /\ acts[i].verdict = Unset => acts[i].handedOff
          /\ acts[i].verdict # Unset => i \notin LiveSends'
          /\ acts[i].verdict = "Ok" => i \in evidence'
          /\ acts[i].verdict \notin {Unset, "Ok"} /\ i \in evidence' => acts[i].handedOff \/ slots[i].handedOff = "Ok"
    /\ i \in evidence' \ evidence /\ i \in LiveSends' => i \in DOMAIN acts /\ acts[i].handedOff

LEMMA ReportStep ==
    ASSUME TypeOK, TypeOK', VerdictInv, phase["sender"] = "idle", NEW acts, Commit("sender", "commit", acts),
           NEW i, NEW got, ReportsOf(i, acts, got)
    PROVE  VerdictInv'
  <1>1. /\ Allocated' = Allocated /\ Fresh = {} /\ \A j \in Allocated : slots'[j] = slots[j]
        /\ "sender" \in Tasks
    BY SameSlots, TaskNames DEF ReportsOf
  <1>2. LiveSends' \subseteq LiveSends
    BY DEF LiveSends, ReportsOf
  <1>3. Batch("sender", acts)
    <2>1. /\ phase' # phase /\ phase' = [phase EXCEPT !["sender"] = phase'["sender"]]
          /\ owes' = [owes EXCEPT !["sender"] = acts]
      BY <1>1, CommitBatch
    <2> QED BY <1>1, <1>2, <2>1 DEF Batch, ReportsOf
  <1>4. Truthful("sender", acts)
    BY DEF Truthful, ReportsOf
  <1>5. CopyStep(acts)
    BY DEF CopyStep, ReportsOf
  <1>6. Disjoint'
    BY DEF VerdictInv, Disjoint, ReportsOf
  <1>7. Known'
    <2>1. \A j : j # i => (j \in evidence' <=> j \in evidence)
      BY DEF ReportsOf
    <2>2. \A j \in DOMAIN unicasts' : j \in evidence' <=> unicasts'[j].stage = "AwaitingApsAck"
      BY <2>1 DEF VerdictInv, Known, ReportsOf
    <2>3. \A j \in DOMAIN broadcasts' : j \in evidence' <=> broadcasts'[j].handedOff
      BY <2>1 DEF VerdictInv, Known, ReportsOf
    <2>4. \A j \in DOMAIN unrouted' : j \notin evidence'
      BY <2>1 DEF VerdictInv, Known, ReportsOf
    <2> QED BY <2>2, <2>3, <2>4 DEF Known
  <1> QED BY <1>1, <1>3, <1>4, <1>5, <1>6, <1>7, BatchStep

LEMMA ReportUnicastVerdicts ==
    ASSUME TypeOK, TypeOK', VerdictInv, phase["sender"] = "idle", NEW result \in {"Ok", RadioError}, NEW delay,
           NEW i \in DOMAIN unicasts, unicasts[i].stage = "Transmitting", ReportUnicast(i, result, delay),
           UNCHANGED <<nextId, unrouted, slots>>
    PROVE  VerdictInv'
  <1>1. PICK u : u = unicasts[i]
    OBVIOUS
  <1>2. u \in UnicastRecord /\ u.stage = "Transmitting" /\ i \notin evidence /\ result # "Cancelled" /\ result # Unset
    BY <1>1 DEF TypeOK, TablesOK, VerdictInv, Known, Unset, RadioError
  <1>3. /\ i \in LiveSends /\ i \notin DOMAIN unrouted /\ i \notin DOMAIN broadcasts
    BY LiveUnicast
  <1>4. /\ evidence' = IF GotThrough(u, result) THEN evidence \cup {i} ELSE evidence
        /\ UNCHANGED broadcasts
    BY <1>1 DEF ReportUnicast
  <1>5. CASE ~GoesOn(u, result)
    <2> DEFINE v == IF GotThrough(u, result) THEN "Ok" ELSE result
               acts == Put(NoActions, i, UnicastSettled(u, v))
    <2>1. unicasts' = Without(unicasts, {i}) /\ Commit("sender", "commit", acts)
      BY <1>1, <1>5 DEF ReportUnicast
    <2>2. DOMAIN unicasts' = DOMAIN unicasts \ {i} /\ \A j \in DOMAIN unicasts' : unicasts'[j] = unicasts[j]
      BY <2>1 DEF Without
    <2>3. DOMAIN acts = {i} /\ acts[i].verdict = v /\ acts[i].handedOff = FALSE
      BY <1>2, NoActionsType DEF Put, UnicastSettled
    <2>4. v # "Cancelled" /\ v # Unset /\ (v = "Ok" <=> GotThrough(u, result))
      BY <1>2 DEF GotThrough, Unset
    <2>5. i \notin LiveSends'
      BY <1>3, <1>4, <2>2 DEF LiveSends
    <2> HIDE DEF acts, v
    <2>6. ReportsOf(i, acts, GotThrough(u, result))
      BY <1>2, <1>3, <1>4, <2>2, <2>3, <2>4, <2>5 DEF ReportsOf
    <2> QED BY <2>1, <2>6, ReportStep
  <1>6. CASE GoesOn(u, result)
    <2> DEFINE acts == IF result = "Ok" THEN Put(NoActions, i, HandoffOnly) ELSE NoActions
    <2>1. /\ unicasts' = Put(unicasts, i, UnicastReportRecord(u, result, delay))
          /\ Commit("sender", "commit", acts)
      BY <1>1, <1>6 DEF ReportUnicast
    <2>2. /\ DOMAIN unicasts' = DOMAIN unicasts /\ \A j \in DOMAIN unicasts \ {i} : unicasts'[j] = unicasts[j]
          /\ unicasts'[i] = UnicastReportRecord(u, result, delay)
      BY <2>1 DEF Put
    <2>3. GotThrough(u, result) <=> result = "Ok"
      BY <1>6 DEF GoesOn, GotThrough
    <2>4. /\ UnicastReportRecord(u, result, delay).copyOf = u.copyOf
          /\ UnicastReportRecord(u, result, delay).stage = "AwaitingApsAck" <=> result = "Ok"
      BY <1>2 DEF UnicastReportRecord, UnicastRecord
    <2>5. /\ DOMAIN acts = IF result = "Ok" THEN {i} ELSE {}
          /\ result = "Ok" => acts[i] = HandoffOnly
      BY NoActionsType DEF Put
    <2>6. HandoffOnly.handedOff /\ HandoffOnly.verdict = Unset /\ Unset # "Cancelled" /\ Unset # "Ok"
      BY DEF HandoffOnly, Unset
    <2> HIDE DEF acts
    <2>7. ReportsOf(i, acts, GotThrough(u, result))
      BY <1>1, <1>2, <1>3, <1>4, <2>2, <2>3, <2>4, <2>5, <2>6 DEF ReportsOf
    <2> QED BY <2>1, <2>7, ReportStep
  <1> QED BY <1>5, <1>6

LEMMA ReportBroadcastVerdicts ==
    ASSUME TypeOK, TypeOK', VerdictInv, phase["sender"] = "idle", NEW result \in {"Ok", RadioError}, NEW interval,
           NEW i \in DOMAIN broadcasts, ReportBroadcast(i, result, interval), UNCHANGED <<nextId, unrouted, slots>>
    PROVE  VerdictInv'
  <1>1. PICK b : b = broadcasts[i]
    OBVIOUS
  <1>2. PICK c : c = BroadcastReportRecord(b, result, interval)
    OBVIOUS
  <1>3. /\ b \in BroadcastRecord /\ (b.handedOff <=> i \in evidence)
        /\ result # "Cancelled" /\ result # Unset /\ "Ok" # Unset
    BY <1>1 DEF TypeOK, TablesOK, VerdictInv, Known, Unset, RadioError
  <1>4. c.handedOff <=> b.handedOff \/ result = "Ok"
    BY <1>2, <1>3 DEF BroadcastReportRecord, BroadcastRecord
  <1>5. i \in LiveSends /\ i \notin DOMAIN unrouted /\ i \notin DOMAIN unicasts
    BY DEF LiveSends, VerdictInv, Disjoint
  <1>6. /\ evidence' = IF result = "Ok" THEN evidence \cup {i} ELSE evidence
        /\ UNCHANGED unicasts
    BY DEF ReportBroadcast
  <1>7. c.handedOff <=> i \in evidence'
    BY <1>3, <1>4, <1>6
  <1>8. ASSUME NEW r, NEW v, broadcasts' = Without(broadcasts, {i}),
               Commit("sender", "commit", Put(NoActions, i, BroadcastSettled(r, v))),
               v \notin {"Cancelled", Unset}, r.handedOff => i \in evidence', v = "Ok" => i \in evidence',
               v # "Ok" /\ i \in evidence' => r.handedOff
        PROVE  VerdictInv'
    <2> DEFINE acts == Put(NoActions, i, BroadcastSettled(r, v))
    <2>1. DOMAIN broadcasts' = DOMAIN broadcasts \ {i} /\ \A j \in DOMAIN broadcasts' : broadcasts'[j] = broadcasts[j]
      BY <1>8 DEF Without
    <2>2. DOMAIN acts = {i} /\ acts[i].verdict = v /\ acts[i].handedOff = r.handedOff
      BY NoActionsType DEF Put, BroadcastSettled
    <2>3. i \notin LiveSends'
      BY <1>5, <1>6, <2>1 DEF LiveSends
    <2>4. Commit("sender", "commit", acts)
      BY <1>8
    <2> HIDE DEF acts
    <2>5. ReportsOf(i, acts, result = "Ok")
      BY <1>5, <1>6, <1>8, <2>1, <2>2, <2>3 DEF ReportsOf
    <2> QED BY <2>4, <2>5, ReportStep
  <1>9. CASE b.schedule = "Once"
    <2>1. /\ broadcasts' = Without(broadcasts, {i})
          /\ Commit("sender", "commit", Put(NoActions, i, BroadcastSettled(b, result)))
      BY <1>1, <1>9 DEF ReportBroadcast
    <2>2. result = "Ok" => i \in evidence'
      BY <1>6
    <2> QED BY <1>3, <1>4, <1>6, <1>7, <1>8, <2>1, <2>2
  <1>10. CASE b.schedule # "Once" /\ c.quorumHeard /\ c.handedOff
    <2>1. /\ broadcasts' = Without(broadcasts, {i})
          /\ Commit("sender", "commit", Put(NoActions, i, BroadcastSettled(c, "Ok")))
      BY <1>1, <1>2, <1>10 DEF ReportBroadcast
    <2> QED BY <1>3, <1>7, <1>8, <1>10, <2>1
  <1>11. CASE b.schedule # "Once" /\ ~(c.quorumHeard /\ c.handedOff)
    <2> DEFINE acts == IF result = "Ok" /\ ~b.handedOff THEN Put(NoActions, i, HandoffOnly) ELSE NoActions
    <2>1. /\ broadcasts' = Put(broadcasts, i, c) /\ Commit("sender", "commit", acts)
      BY <1>1, <1>2, <1>11 DEF ReportBroadcast
    <2>2. /\ DOMAIN broadcasts' = DOMAIN broadcasts /\ \A j \in DOMAIN broadcasts \ {i} : broadcasts'[j] = broadcasts[j]
          /\ broadcasts'[i] = c
      BY <2>1 DEF Put
    <2>3. /\ DOMAIN acts = IF result = "Ok" /\ ~b.handedOff THEN {i} ELSE {}
          /\ result = "Ok" /\ ~b.handedOff => acts[i] = HandoffOnly
      BY NoActionsType DEF Put
    <2>4. HandoffOnly.handedOff /\ HandoffOnly.verdict = Unset /\ Unset # "Cancelled" /\ Unset # "Ok"
      BY DEF HandoffOnly, Unset
    <2> HIDE DEF acts
    <2>5. ReportsOf(i, acts, result = "Ok")
      BY <1>3, <1>5, <1>6, <1>7, <2>2, <2>3, <2>4 DEF ReportsOf
    <2> QED BY <2>1, <2>5, ReportStep
  <1> QED BY <1>9, <1>10, <1>11

LEMMA SenderReportsVerdicts ==
    ASSUME TypeOK, TypeOK', LoanIntact, VerdictInv, NEW result \in {"Ok", RadioError}, SenderReports(result)
    PROVE  VerdictInv'
  <1>1. phase["sender"] = "idle" /\ sender = "radio" /\ UNCHANGED <<nextId, unrouted, slots>>
    BY DEF SenderReports
  <1>2. CASE loan.transmit = "Unicast"
    <2>1. PICK delay : ReportUnicast(loan.id, result, delay)
      BY <1>2 DEF SenderReports
    <2>2. loan.id \in DOMAIN unicasts
      BY <1>1, <1>2 DEF LoanIntact
    <2>3. loan = [id |-> loan.id, transmit |-> "Unicast"]
      BY <1>2 DEF TypeOK, TasksOK
    <2>4. unicasts[loan.id].stage = "Transmitting"
      BY <2>2, <2>3 DEF LoanIntact
    <2> QED BY <1>1, <2>1, <2>2, <2>4, ReportUnicastVerdicts
  <1>3. CASE loan.transmit = "Broadcast"
    <2>1. PICK interval : ReportBroadcast(loan.id, result, interval)
      BY <1>3 DEF SenderReports
    <2>2. loan.id \in DOMAIN broadcasts
      BY <1>1, <1>3 DEF LoanIntact
    <2> QED BY <1>1, <2>1, <2>2, ReportBroadcastVerdicts
  <1> QED BY <1>2, <1>3 DEF SenderReports

-----------------------------------------------------------------------------
(* A pass of the timer *)

\* The sends a pass settles: each has a verdict, none is Cancelled, and it is a success only of a
\* send known to be accepted.
LEMMA PassSettles ==
    ASSUME TypeOK, VerdictInv, NEW polls, NEW i \in DOMAIN PassActions(polls)
    PROVE  /\ PassActions(polls)[i].verdict \notin {Unset, "Cancelled"}
           /\ PassActions(polls)[i].handedOff <=> i \in evidence
           /\ PassActions(polls)[i].verdict = "Ok" => i \in evidence
  <1>1. PICK a : a = PassActions(polls)[i]
    OBVIOUS
  <1>2. CASE i \in Lapsing(polls)
    <2>1. PICK u : u = UnicastPass(i, polls)
      OBVIOUS
    <2>2. a = UnicastSettled(u, UnicastTickVerdict(u)) /\ UnicastTickVerdict(u) # Unset
      BY <1>1, <1>2, <2>1 DEF PassActions, Lapsing
    <2>3. UnicastTickVerdict(u) \notin {"Ok", "Cancelled"}
      BY DEF UnicastTickVerdict, Unset
    <2>4. i \in evidence <=> u.stage = "AwaitingApsAck"
      <3>1. CASE i \in DOMAIN unicasts
        BY <3>1, <2>1 DEF UnicastPass, VerdictInv, Known
      <3>2. CASE i \notin DOMAIN unicasts
        <4>1. i \in DOMAIN unrouted
          BY <3>2, <1>2 DEF Lapsing, PassSends, RoutedSends
        <4>2. u.stage # "AwaitingApsAck"
          BY <3>2, <2>1, NewUnicastUnknown DEF UnicastPass, Routed
        <4> QED BY <4>1, <4>2 DEF VerdictInv, Known
      <3> QED BY <3>1, <3>2
    <2>5. a.verdict = UnicastTickVerdict(u) /\ (a.handedOff <=> u.stage = "AwaitingApsAck")
      BY <2>2 DEF UnicastSettled
    <2> QED BY <1>1, <2>2, <2>3, <2>4, <2>5
  <1>3. CASE i \notin Lapsing(polls) /\ i \in Failing
    <2>1. a = [handedOff |-> FALSE, verdict |-> UnroutedVerdict(i)] /\ UnroutedVerdict(i) # Unset
      BY <1>1, <1>3 DEF PassActions, Failing
    <2>2. UnroutedVerdict(i) \notin {"Ok", "Cancelled"}
      BY DEF UnroutedVerdict, Unset
    <2>3. i \notin evidence
      BY <1>3 DEF Failing, VerdictInv, Known
    <2> QED BY <1>1, <2>1, <2>2, <2>3
  <1>4. CASE i \notin Lapsing(polls) /\ i \notin Failing
    <2>1. i \in Ending /\ i \in DOMAIN broadcasts
      BY <1>4 DEF PassActions, Ending
    <2>2. PICK b : b = broadcasts[i]
      OBVIOUS
    <2>3. a = BroadcastSettled(b, BroadcastVerdict(i)) /\ BroadcastVerdict(i) # Unset
      BY <1>1, <1>4, <2>1, <2>2 DEF PassActions, Ending
    <2>4. b \in BroadcastRecord /\ (b.handedOff <=> i \in evidence)
      BY <2>1, <2>2 DEF TypeOK, TablesOK, VerdictInv, Known
    <2>5. /\ Heard(i).handedOff = b.handedOff /\ Heard(i).lastError \in {RadioError, Unset}
      BY <2>2, <2>4 DEF Heard, BroadcastRecord
    <2>6. /\ BroadcastVerdict(i) = "Ok" => b.handedOff
          /\ BroadcastVerdict(i) # "Cancelled"
      <3>1. CASE DeliveredNow(i)
        BY <3>1, <2>2 DEF DeliveredNow, BroadcastVerdict
      <3>2. CASE ~DeliveredNow(i)
        <4>1. BroadcastVerdict(i) = BroadcastTickVerdict(Heard(i))
          BY <3>2 DEF BroadcastVerdict
        <4>2. /\ BroadcastTickVerdict(Heard(i)) = "Ok" => Heard(i).handedOff
              /\ BroadcastTickVerdict(Heard(i)) # "Cancelled"
          BY <2>5 DEF BroadcastTickVerdict, HandedOffVerdict, Unset, RadioError
        <4> QED BY <4>1, <4>2, <2>5
      <3> QED BY <3>1, <3>2
    <2> QED BY <1>1, <2>3, <2>4, <2>6 DEF BroadcastSettled
  <1> QED BY <1>2, <1>3, <1>4

\* A routed destination is no failed one, so no send is both moved and failed.
LEMMA RoutedNotFailing == TypeOK => RoutedSends \cap Failing = {}
  <1> SUFFICES ASSUME TypeOK, NEW i \in RoutedSends PROVE i \notin Failing
    OBVIOUS
  <1>1. unrouted[i].destination \in routes /\ unrouted[i].deadline # 0
    BY DEF RoutedSends, RoutedDests, TypeOK, TablesOK, UnroutedRecord
  <1>2. \A d \in FailedDests : ~WaitsFor(i, d)
    BY <1>1 DEF FailedDests, LapsedDests, WaitsFor
  <1> QED BY <1>1, <1>2 DEF Failing, UnroutedVerdict

LEMMA DriveSendsVerdicts ==
    ASSUME TypeOK, TypeOK', VerdictInv, DriveSends
    PROVE  VerdictInv'
  <1>1. PICK polls \in [RoutedDests -> RoutedPolls] :
           /\ unicasts' = [i \in PassSends \ Lapsing(polls) |-> UnicastTickRecord(UnicastPass(i, polls))]
           /\ Commit("timer", "pass", PassActions(polls))
    BY DEF DriveSends
  <1>2. PICK n \in Nat : n = Cardinality(RestartedDests)
    BY RestartedCount
  <1>3. PICK N : /\ N \subseteq nextId .. nextId + n - 1
                 /\ broadcasts' = [i \in (DOMAIN broadcasts \ Ending) \cup N |->
                        IF i \in DOMAIN broadcasts THEN BroadcastTickRecord(Heard(i)) ELSE RouteRequest]
    <2>1. PICK ids \in [RestartedDests -> nextId .. nextId + Cardinality(RestartedDests) - 1] :
             broadcasts' = [i \in (DOMAIN broadcasts \ Ending) \cup {ids[d] : d \in RestartedDests} |->
                              IF i \in DOMAIN broadcasts THEN BroadcastTickRecord(Heard(i)) ELSE RouteRequest]
      BY DEF DriveSends
    <2>2. {ids[d] : d \in RestartedDests} \subseteq nextId .. nextId + n - 1
      BY <1>2
    <2> QED BY <2>1, <2>2
  <1>4. /\ Allocate(n) /\ unrouted' = Without(unrouted, RoutedSends \cup Failing) /\ evidence' = evidence
        /\ phase["timer"] = "idle"
    BY <1>2 DEF DriveSends
  <1>5. /\ Allocated \subseteq Allocated' /\ N \subseteq Fresh /\ (\A i \in Allocated : slots'[i] = slots[i])
        /\ \A i \in Fresh : slots'[i] = FreshSlot
    BY <1>3, <1>4, AllocateSlots
  <1>6. /\ LiveSends \subseteq Allocated /\ evidence \subseteq Allocated /\ Fresh \cap Allocated = {}
    BY LiveAllocated DEF Fresh
  <1>7. /\ DOMAIN unicasts' = PassSends \ Lapsing(polls)
        /\ DOMAIN unrouted' = DOMAIN unrouted \ (RoutedSends \cup Failing)
        /\ DOMAIN broadcasts' = (DOMAIN broadcasts \ Ending) \cup N
    BY <1>1, <1>3, <1>4 DEF Without
  <1>8. /\ PassSends = DOMAIN unicasts \cup RoutedSends /\ RoutedSends \subseteq DOMAIN unrouted
        /\ Failing \subseteq DOMAIN unrouted /\ Ending \subseteq DOMAIN broadcasts
        /\ Lapsing(polls) \subseteq PassSends /\ RoutedSends \cap Failing = {}
    BY RoutedNotFailing DEF PassSends, RoutedSends, Failing, Ending, Lapsing
  <1>9. Disjoint
    BY DEF VerdictInv
  <1>10. Disjoint'
    BY <1>5, <1>6, <1>7, <1>8, <1>9 DEF Disjoint, LiveSends
  <1>11. LiveSends' \subseteq LiveSends \cup Fresh
    BY <1>5, <1>7, <1>8 DEF LiveSends
  <1> DEFINE acts == PassActions(polls)
  <1>12. DOMAIN acts = Lapsing(polls) \cup Failing \cup Ending
    BY DEF PassActions
  <1>13. DOMAIN acts \subseteq LiveSends \ LiveSends'
    BY <1>5, <1>6, <1>7, <1>8, <1>9, <1>12 DEF Disjoint, LiveSends
  <1>14. \A i \in DOMAIN acts :
            /\ acts[i].verdict \notin {Unset, "Cancelled"}
            /\ acts[i].handedOff <=> i \in evidence
            /\ acts[i].verdict = "Ok" => i \in evidence
    BY PassSettles
  <1>15. Commit("timer", "pass", acts) /\ "timer" \in Tasks
    BY <1>1, TaskNames
  <1> HIDE DEF acts
  <1>16. Batch("timer", acts)
    <2>1. /\ phase' # phase /\ phase' = [phase EXCEPT !["timer"] = phase'["timer"]]
          /\ owes' = [owes EXCEPT !["timer"] = acts]
      BY <1>4, <1>15, CommitBatch
    <2> QED BY <1>4, <1>5, <1>11, <1>13, <1>14, <2>1 DEF Batch
  <1>17. Truthful("timer", acts)
    BY <1>4, <1>14 DEF Truthful
  <1>18. ASSUME NEW i \in DOMAIN unicasts'
         PROVE  /\ i \in evidence <=> unicasts'[i].stage = "AwaitingApsAck"
                /\ unicasts'[i].copyOf = NoSend \/ (i \in DOMAIN unicasts /\ unicasts'[i].copyOf = unicasts[i].copyOf)
    <2>1. PICK u : u = UnicastPass(i, polls)
      OBVIOUS
    <2>2. unicasts'[i] = UnicastTickRecord(u)
      BY <1>1, <1>7, <2>1
    <2>3. u \in UnicastRecord
      BY <1>7, <1>8, <2>1, UnicastPassType
    <2>4. UnicastTickRecord(u).copyOf = u.copyOf /\ (UnicastTickRecord(u).stage = "AwaitingApsAck" <=> u.stage = "AwaitingApsAck")
      BY <2>3 DEF UnicastTickRecord, UnicastRecord
    <2>5. CASE i \in DOMAIN unicasts
      BY <2>1, <2>2, <2>4, <2>5 DEF UnicastPass, VerdictInv, Known
    <2>6. CASE i \notin DOMAIN unicasts
      <3>1. i \in DOMAIN unrouted
        BY <2>6, <1>7, <1>8
      <3>2. u.stage # "AwaitingApsAck" /\ u.copyOf = NoSend
        BY <2>6, <2>1, NewUnicastUnknown DEF UnicastPass, Routed
      <3> QED BY <2>2, <2>4, <3>1, <3>2 DEF VerdictInv, Known
    <2> QED BY <2>5, <2>6
  <1>19. CopyStep(acts)
    <2>1. DOMAIN unicasts' \cup DOMAIN unrouted' \subseteq DOMAIN unicasts \cup DOMAIN unrouted
      BY <1>7, <1>8
    <2> QED BY <1>14, <1>18, <2>1 DEF CopyStep
  <1>20. ASSUME NEW i \in DOMAIN broadcasts' PROVE i \in evidence <=> broadcasts'[i].handedOff
    <2>1. CASE i \in DOMAIN broadcasts
      <3>1. broadcasts'[i] = BroadcastTickRecord(Heard(i)) /\ broadcasts[i] \in BroadcastRecord
        BY <1>3, <1>7, <2>1 DEF TypeOK, TablesOK
      <3>2. Heard(i) \in BroadcastRecord /\ Heard(i).handedOff = broadcasts[i].handedOff
        BY <3>1 DEF Heard, BroadcastRecord
      <3>3. BroadcastTickRecord(Heard(i)).handedOff = Heard(i).handedOff
        BY <3>2 DEF BroadcastTickRecord, BroadcastRecord
      <3> QED BY <2>1, <3>1, <3>2, <3>3 DEF VerdictInv, Known
    <2>2. CASE i \notin DOMAIN broadcasts
      BY <1>3, <1>5, <1>6, <1>7, <2>2, NewBroadcastUnknown
    <2> QED BY <2>1, <2>2
  <1>21. Known'
    BY <1>4, <1>7, <1>18, <1>20 DEF Known, VerdictInv
  <1> QED BY <1>10, <1>15, <1>16, <1>17, <1>19, <1>21, BatchStep

-----------------------------------------------------------------------------
(* The other steps *)

\* A step that reports nothing, and keeps every record's stage of acceptance and parent.
LEMMA StillStep ==
    ASSUME TypeOK, VerdictInv, UNCHANGED <<nextId, slots, owes, phase, evidence>>,
           DOMAIN unicasts' = DOMAIN unicasts, DOMAIN unrouted' = DOMAIN unrouted,
           DOMAIN broadcasts' = DOMAIN broadcasts,
           \A i \in DOMAIN unicasts : /\ unicasts'[i].copyOf = unicasts[i].copyOf
                                      /\ unicasts'[i].stage = "AwaitingApsAck" <=> unicasts[i].stage = "AwaitingApsAck",
           \A i \in DOMAIN broadcasts : broadcasts'[i].handedOff = broadcasts[i].handedOff
    PROVE  VerdictInv'
  <1>1. LiveSends' = LiveSends /\ Allocated' = Allocated
    BY SameIds DEF LiveSends
  <1>2. OneVerdict' /\ Told'
    BY <1>1, QuietStep DEF VerdictInv
  <1>3. Disjoint' /\ Known'
    BY DEF VerdictInv, Disjoint, Known
  <1>4. CopiesKnown' /\ CancelTakesCopies'
    BY <1>1 DEF VerdictInv, CopiesKnown, CancelTakesCopies
  <1> QED BY <1>2, <1>3, <1>4 DEF VerdictInv

LEMMA QuietVerdicts ==
    ASSUME TypeOK, VerdictInv,
           SenderStep \/ TimerWakes \/ (\E d \in Destinations : RouteLost(d)) \/ Elapse \/ UNCHANGED vars
    PROVE  VerdictInv'
  <1>1. CASE SenderDequeues
    <2>1. PICK i \in Ready : LendUnicast(i) \/ LendBroadcast(i)
      BY <1>1 DEF SenderDequeues
    <2>2. UNCHANGED <<nextId, unrouted, slots, phase, owes, evidence>>
      BY <1>1 DEF SenderDequeues
    <2>3. CASE LendUnicast(i)
      <3>1. /\ i \in DOMAIN unicasts /\ unicasts[i] \in UnicastRecord /\ unicasts[i].stage = "Queued"
            /\ broadcasts' = broadcasts
        BY <2>3 DEF LendUnicast, ReadyUnicasts, TypeOK, TablesOK
      <3>2. /\ DOMAIN unicasts' = DOMAIN unicasts
            /\ \A j \in DOMAIN unicasts : j # i => unicasts'[j] = unicasts[j]
            /\ unicasts'[i] = [unicasts[i] EXCEPT !.stage = "Transmitting", !.acked = FALSE, !.frame = FALSE]
        BY <2>3, <3>1 DEF LendUnicast
      <3>3. unicasts'[i].copyOf = unicasts[i].copyOf /\ unicasts'[i].stage = "Transmitting"
        BY <3>1, <3>2 DEF UnicastRecord
      <3> QED BY <2>2, <3>1, <3>2, <3>3, StillStep
    <2>4. CASE LendBroadcast(i)
      <3>1. i \in DOMAIN broadcasts /\ broadcasts[i] \in BroadcastRecord /\ unicasts' = unicasts
        BY <2>4 DEF LendBroadcast, ReadyBroadcasts, TypeOK, TablesOK
      <3>2. /\ DOMAIN broadcasts' = DOMAIN broadcasts
            /\ \A j \in DOMAIN broadcasts : j # i => broadcasts'[j] = broadcasts[j]
            /\ broadcasts'[i] = [broadcasts[i] EXCEPT !.copy = "Transmitting", !.frame = FALSE]
        BY <2>4, <3>1 DEF LendBroadcast
      <3>3. broadcasts'[i].handedOff = broadcasts[i].handedOff
        BY <3>1, <3>2 DEF BroadcastRecord
      <3> QED BY <2>2, <3>1, <3>2, <3>3, StillStep
    <2> QED BY <2>1, <2>3, <2>4
  <1>2. CASE Elapse
    <2>1. /\ UNCHANGED <<nextId, slots, phase, owes, evidence>> /\ DOMAIN unicasts' = DOMAIN unicasts
          /\ DOMAIN unrouted' = DOMAIN unrouted /\ DOMAIN broadcasts' = DOMAIN broadcasts
      BY <1>2 DEF Elapse
    <2>2. ASSUME NEW i \in DOMAIN unicasts
          PROVE  unicasts'[i].copyOf = unicasts[i].copyOf /\ unicasts'[i].stage = unicasts[i].stage
      <3>1. unicasts[i] \in UnicastRecord
        BY DEF TypeOK, TablesOK
      <3>2. unicasts'[i] = [unicasts[i] EXCEPT !.deadline = Dec(@), !.at = Dec(@)]
        BY <1>2 DEF Elapse
      <3> QED BY <3>1, <3>2 DEF UnicastRecord
    <2>3. ASSUME NEW i \in DOMAIN broadcasts PROVE broadcasts'[i].handedOff = broadcasts[i].handedOff
      <3>1. broadcasts[i] \in BroadcastRecord
        BY DEF TypeOK, TablesOK
      <3>2. broadcasts'[i] = [broadcasts[i] EXCEPT !.deadline = Dec(@), !.nextAttempt = Dec(@)]
        BY <1>2 DEF Elapse
      <3> QED BY <3>1, <3>2 DEF BroadcastRecord
    <2> QED BY <2>1, <2>2, <2>3, StillStep
  <1>3. CASE SenderParks \/ SenderWakes \/ TimerWakes \/ (\E d \in Destinations : RouteLost(d)) \/ UNCHANGED vars
    <2>1. UNCHANGED <<nextId, slots, phase, owes, evidence, unicasts, unrouted, broadcasts>>
      BY <1>3 DEF SenderParks, SenderWakes, TimerWakes, RouteLost, vars, tables
    <2> QED BY <2>1, StillStep
  <1> QED BY <1>1, <1>2, <1>3 DEF SenderStep

LEMMA TaskStepVerdicts ==
    ASSUME TypeOK, VerdictInv, NEW t \in Tasks, RunAction(t) \/ FinishCommit(t)
    PROVE  VerdictInv'
  <1>1. UNCHANGED <<unicasts, unrouted, broadcasts, nextId, evidence>> /\ Allocated' = Allocated
    BY SameIds DEF RunAction, RunHandedOff, RunSettled, FinishCommit, tables
  <1>2. Disjoint' /\ Known' /\ CopiesKnown'
    BY <1>1 DEF VerdictInv, Disjoint, Known, CopiesKnown
  <1>3. CASE FinishCommit(t)
    <2>1. CancelTakesCopies'
      BY <1>3 DEF FinishCommit, tables, VerdictInv, CancelTakesCopies
    <2> QED BY <1>2, <1>3, <2>1, FinishKeepsVerdicts DEF VerdictInv
  <1>4. ASSUME NEW i \in DOMAIN owes[t], RunHandedOff(t, i) \/ RunSettled(t, i) PROVE VerdictInv'
    <2>1. OneVerdict' /\ Told'
      BY <1>4, HandedOffKeepsVerdicts, SettledKeepsVerdicts DEF VerdictInv
    <2>2. /\ \A j \in Allocated \ {i} : slots'[j] = slots[j]
          /\ \A u \in Tasks \ {t} : owes'[u] = owes[u]
          /\ \A j \in DOMAIN owes'[t] \ {i} : j \in DOMAIN owes[t] /\ owes'[t][j] = owes[t][j]
      BY <1>4, RunShape
    <2>3. /\ slots'[i].delivered \in {slots[i].delivered, owes[t][i].verdict}
          /\ i \in DOMAIN owes'[t] => owes'[t][i].verdict = owes[t][i].verdict
      BY <1>4, HandedOffEffect, SettledEffect
    <2>4. ASSUME NEW j \in DOMAIN unicasts, unicasts[j].copyOf # NoSend
          PROVE  LET p == unicasts[j].copyOf IN
                 /\ slots'[p].delivered # "Cancelled"
                 /\ \A u \in Tasks : p \in DOMAIN owes'[u] => owes'[u][p].verdict # "Cancelled"
      <3>1. PICK p : p = unicasts[j].copyOf
        OBVIOUS
      <3>2. /\ p \in Allocated /\ slots[p].delivered # "Cancelled"
            /\ \A u \in Tasks : p \in DOMAIN owes[u] => owes[u][p].verdict # "Cancelled"
        BY <2>4, <3>1 DEF VerdictInv, CopiesKnown, CancelTakesCopies
      <3>3. slots'[p].delivered # "Cancelled"
        BY <2>2, <2>3, <3>2
      <3>4. ASSUME NEW u \in Tasks, p \in DOMAIN owes'[u] PROVE owes'[u][p].verdict # "Cancelled"
        BY <2>2, <2>3, <3>2, <3>4
      <3> QED BY <3>1, <3>3, <3>4
    <2>5. CancelTakesCopies'
      BY <1>1, <2>4 DEF CancelTakesCopies
    <2> QED BY <1>2, <2>1, <2>5 DEF VerdictInv
  <1> QED BY <1>3, <1>4 DEF RunAction

LEMMA InitVerdicts == Init => VerdictInv
  <1> SUFFICES ASSUME Init PROVE VerdictInv
    OBVIOUS
  <1>1. /\ DOMAIN unicasts = {} /\ DOMAIN unrouted = {} /\ DOMAIN broadcasts = {} /\ DOMAIN slots = {}
        /\ Allocated = {} /\ \A t \in Tasks : DOMAIN owes[t] = {}
    BY NoActionsType DEF Init, Allocated
  <1> QED BY <1>1 DEF VerdictInv, Disjoint, OneVerdict, Known, Told, HandoffTruthful, CopiesKnown,
                      CancelTakesCopies, LiveSends

LEMMA VerdictStep ==
    ASSUME TypeOK, TypeOK', LoanIntact, VerdictInv, [Next]_vars
    PROVE  VerdictInv'
  <1>1. CASE SenderStep \/ TimerWakes \/ (\E d \in Destinations : RouteLost(d)) \/ Elapse \/ UNCHANGED vars
    BY <1>1, QuietVerdicts
  <1>2. ASSUME NEW result \in {"Ok", RadioError}, SenderReports(result) PROVE VerdictInv'
    BY <1>2, SenderReportsVerdicts
  <1>3. CASE DriveSends
    BY <1>3, DriveSendsVerdicts
  <1>4. ASSUME NEW h \in Handlers, HandlerStep(h) PROVE VerdictInv'
    <2>1. ASSUME NEW r \in UnicastRequests, EnqueueUnicast(h, r) PROVE VerdictInv'
      BY <2>1, EnqueueUnicastVerdicts
    <2>2. ASSUME NEW r \in UnroutedRequests, SendUnrouted(h, r) PROVE VerdictInv'
      BY <2>2, SendUnroutedVerdicts
    <2>3. ASSUME NEW r \in BroadcastRequests, EnqueueBroadcast(h, r) PROVE VerdictInv'
      BY <2>3, EnqueueBroadcastVerdicts
    <2>4. CASE (\E device \in Devices : Poll(h, device)) \/ (\E i \in Allocated : RelayHeard(h, i))
                  \/ (\E d \in Destinations : RouteEstablished(h, d))
      BY <2>4, EventVerdicts
    <2>5. ASSUME NEW device \in Devices, DropIndirect(h, device) PROVE VerdictInv'
      BY <2>5, DropIndirectVerdicts
    <2>6. ASSUME NEW key \in AckKeys, AckReceived(h, key) PROVE VerdictInv'
      BY <2>6, AckReceivedVerdicts
    <2>7. ASSUME NEW i \in Allocated, CancelUnicast(h, i) PROVE VerdictInv'
      BY <2>7, CancelUnicastVerdicts
    <2>8. ASSUME NEW i \in Allocated, CancelUnrouted(h, i) PROVE VerdictInv'
      BY <2>8, CancelUnroutedVerdicts
    <2>9. ASSUME NEW i \in Allocated, CancelBroadcast(h, i) PROVE VerdictInv'
      BY <2>9, CancelBroadcastVerdicts
    <2>10. CASE Shutdown(h)
      BY <2>10, ShutdownVerdicts
    <2> QED BY <1>4, <2>1, <2>2, <2>3, <2>4, <2>5, <2>6, <2>7, <2>8, <2>9, <2>10 DEF HandlerStep
  <1>5. ASSUME NEW t \in Tasks, RunAction(t) \/ FinishCommit(t) PROVE VerdictInv'
    BY <1>5, TaskStepVerdicts
  <1> QED BY <1>1, <1>2, <1>3, <1>4, <1>5 DEF Next, TimerStep

-----------------------------------------------------------------------------
(* The contract of the handles *)

LEMMA AllocateAdmits ==
    ASSUME TypeOK, NEW n \in Nat, Allocate(n)
    PROVE  Contract!Admit(DOMAIN slots' \ DOMAIN slots) \/ slots' = slots
  <1>1. nextId \in Nat /\ slots \in [0 .. nextId - 1 -> Slot]
    BY DEF TypeOK, TablesOK, Allocated
  <1>2. slots' = [i \in 0 .. nextId + n - 1 |-> IF i < nextId THEN slots[i] ELSE FreshSlot]
    BY DEF Allocate
  <1>3. Contract!Open = FreshSlot
    BY DEF Contract!Open, FreshSlot, Contract!NotYet, Unset
  <1>4. DOMAIN slots = 0 .. nextId - 1 /\ DOMAIN slots' = 0 .. nextId + n - 1
    BY <1>1, <1>2
  <1>5. PICK S : S = nextId .. nextId + n - 1
    OBVIOUS
  <1>6. DOMAIN slots' \ DOMAIN slots = S /\ DOMAIN slots' = DOMAIN slots \cup S
    BY <1>1, <1>4, <1>5
  <1>7. \A i \in DOMAIN slots' : i < nextId <=> i \notin S
    BY <1>1, <1>4, <1>5
  <1>8. slots' = [i \in DOMAIN slots \cup S |-> IF i \in S THEN Contract!Open ELSE slots[i]]
    BY <1>2, <1>3, <1>4, <1>6, <1>7
  <1>9. CASE S = {}
    <2>1. DOMAIN slots' = DOMAIN slots /\ \A i \in DOMAIN slots : slots'[i] = slots[i]
      BY <1>6, <1>8, <1>9
    <2>2. slots' = [i \in DOMAIN slots |-> slots[i]]
      BY <1>6, <1>8, <1>9
    <2> QED BY <1>1, <2>2
  <1>10. CASE S # {}
    BY <1>6, <1>8, <1>10 DEF Contract!Admit
  <1> QED BY <1>9, <1>10

LEMMA RunMeetsContract ==
    ASSUME TypeOK, VerdictInv, NEW t \in Tasks, NEW i \in DOMAIN owes[t], RunHandedOff(t, i) \/ RunSettled(t, i)
    PROVE  Contract!Next \/ slots' = slots
  <1>1. /\ slots \in [Allocated -> Slot] /\ i \in Allocated /\ slots[i] \in Slot /\ owes[t][i] \in Owed
        /\ DOMAIN slots = Allocated
    BY DEF TypeOK, TablesOK, BatchesOK
  <1>2. CASE RunHandedOff(t, i)
    <2>1. slots' = [slots EXCEPT ![i].handedOff = IF @ = Unset THEN "Ok" ELSE @]
      BY <1>2 DEF RunHandedOff
    <2>2. CASE slots[i].handedOff = Unset
      <3>1. slots[i].delivered = Unset
        BY <1>1, <2>2 DEF VerdictInv, OneVerdict
      <3>2. slots[i] = Contract!Open
        BY <1>1, <2>2, <3>1 DEF Slot, Contract!Open, Contract!NotYet, Unset
      <3>3. slots' = [slots EXCEPT ![i].handedOff = "Ok"]
        BY <2>1, <2>2
      <3> QED BY <1>1, <3>2, <3>3 DEF Contract!HandOff, Contract!Next
    <2>3. CASE slots[i].handedOff # Unset
      <3>1. slots' = [slots EXCEPT ![i].handedOff = slots[i].handedOff]
        BY <2>1, <2>3
      <3>2. [slots[i] EXCEPT !.handedOff = slots[i].handedOff] = slots[i]
        BY <1>1 DEF Slot
      <3>3. slots' = [slots EXCEPT ![i] = slots[i]]
        BY <3>1, <3>2
      <3> QED BY <1>1, <3>3
    <2> QED BY <2>2, <2>3
  <1>3. CASE RunSettled(t, i)
    <2>1. /\ ~owes[t][i].handedOff
          /\ slots' = [slots EXCEPT ![i].handedOff = IF @ = Unset THEN owes[t][i].verdict ELSE @,
                                    ![i].delivered = owes[t][i].verdict]
      BY <1>3 DEF RunSettled
    <2>2. owes[t][i].verdict # Unset /\ slots[i].delivered = Unset
      BY <2>1 DEF VerdictInv, OneVerdict
    <2>3. owes[t][i].verdict \in Contract!Results
      BY <1>1, <2>2 DEF Owed, Verdicts, RadioError, Contract!Results, Contract!Failures
    <2>4. Contract!NotYet = Unset
      BY DEF Contract!NotYet, Unset
    <2>5. Contract!Settle(i, owes[t][i].verdict)
      BY <1>1, <2>1, <2>2, <2>4 DEF Contract!Settle
    <2> QED BY <1>1, <2>3, <2>5 DEF Contract!Next
  <1> QED BY <1>2, <1>3

LEMMA ContractStep ==
    ASSUME TypeOK, VerdictInv, [Next]_vars
    PROVE  [Contract!Next]_slots
  <1>1. ASSUME NEW n \in Nat, Allocate(n) PROVE [Contract!Next]_slots
    BY <1>1, AllocateAdmits DEF Contract!Next
  <1>2. CASE DriveSends
    BY <1>1, <1>2, RestartedCount DEF DriveSends
  <1>3. ASSUME NEW h \in Handlers, HandlerStep(h) PROVE [Contract!Next]_slots
    <2>1. ASSUME NEW r \in UnicastRequests, EnqueueUnicast(h, r) PROVE [Contract!Next]_slots
      BY <1>1, <2>1 DEF EnqueueUnicast
    <2>2. ASSUME NEW r \in UnroutedRequests, SendUnrouted(h, r) PROVE [Contract!Next]_slots
      BY <1>1, <2>2 DEF SendUnrouted
    <2>3. ASSUME NEW r \in BroadcastRequests, EnqueueBroadcast(h, r) PROVE [Contract!Next]_slots
      <3>1. r.children \in Seq(Devices)
        BY RequestsAssumption DEF BroadcastRequest
      <3>2. Len(r.children) + 1 \in Nat
        BY <3>1
      <3>3. Allocate(Len(r.children) + 1)
        BY <2>3 DEF EnqueueBroadcast
      <3> QED BY <1>1, <3>2, <3>3
    <2>4. CASE slots' = slots
      BY <2>4
    <2>5. \/ (\E r \in UnicastRequests : EnqueueUnicast(h, r)) \/ (\E r \in UnroutedRequests : SendUnrouted(h, r))
          \/ (\E r \in BroadcastRequests : EnqueueBroadcast(h, r)) \/ slots' = slots
      BY <1>3 DEF HandlerStep, Poll, DropIndirect, AckReceived, CancelUnicast, CancelUnrouted, CancelBroadcast,
                  RelayHeard, RouteEstablished, Shutdown, tables
    <2> QED BY <2>1, <2>2, <2>3, <2>4, <2>5
  <1>4. ASSUME NEW t \in Tasks, RunAction(t) PROVE [Contract!Next]_slots
    BY <1>4, RunMeetsContract DEF RunAction
  <1>5. CASE \/ SenderStep \/ (\E result \in {"Ok", RadioError} : SenderReports(result)) \/ TimerWakes
             \/ (\E t \in Tasks : FinishCommit(t)) \/ (\E d \in Destinations : RouteLost(d)) \/ Elapse
             \/ UNCHANGED vars
    <2>1. slots' = slots
      BY <1>5 DEF SenderStep, SenderDequeues, SenderParks, SenderWakes, SenderReports, TimerWakes, FinishCommit,
                  RouteLost, Elapse, vars, tables
    <2> QED BY <2>1
  <1> QED BY <1>2, <1>3, <1>4, <1>5 DEF Next, TimerStep

-----------------------------------------------------------------------------
\* For any number of tasks, devices and sends and any tunables: types are kept, and the
\* frame in the radio always belongs to exactly one record that nobody else settles or
\* moves, so no expect or unreachable of the send tables can fire.
THEOREM TypeAndLoan == Spec => [](TypeOK /\ LoanIntact)
  <1>1. Init => TypeOK /\ LoanIntact
    BY InitType DEF Init, LoanIntact
  <1>2. TypeOK /\ LoanIntact /\ [Next]_vars => (TypeOK /\ LoanIntact)'
    BY TypeStep, LoanStep
  <1> QED BY <1>1, <1>2, PTL DEF Spec

\* The types of the send tables, for every instance.
THEOREM TypeCorrect == Spec => []TypeOK
  BY TypeAndLoan, PTL

\* The frame on loan to the radio, for every instance.
THEOREM LoanCorrect == Spec => []LoanIntact
  BY TypeAndLoan, PTL

\* drive_sends and send_unicast: a send held for a route always waits for a destination the timer
\* watches, so a route that comes or a discovery that lapses always releases it.
THEOREM NoHeldSendUnwatched == Spec => []HeldSendsAreWatched
  <1>1. Init => HeldSendsAreWatched
    BY DEF Init, HeldSendsAreWatched
  <1>2. TypeOK /\ HeldSendsAreWatched /\ [Next]_vars => HeldSendsAreWatched'
    BY WatchStep
  <1> QED BY <1>1, <1>2, TypeCorrect, PTL DEF Spec

\* sender_task and commit_sends: the permit stored in send_wake, or a task that is still to store
\* one, covers every frame that is ready while the sender sleeps.
THEOREM NoReadyFrameForgotten == Spec => []SenderNeverSleepsOnWork
  <1>1. Init => SenderNeverSleepsOnWork
    BY DEF Init, SenderNeverSleepsOnWork
  <1>2. TypeOK /\ SenderNeverSleepsOnWork /\ [Next]_vars => SenderNeverSleepsOnWork'
    BY SenderWakeStep
  <1> QED BY <1>1, <1>2, TypeCorrect, PTL DEF Spec

\* send_timer_task: whatever a pass would do now, the timer is awake, woken or due.  The inductive
\* invariant says what it slept on: no wake time of the tables is earlier than its own timeout.
THEOREM NothingDueForgotten == Spec => []TimerNeverOversleeps
  <1>1. Init => TimerArmed
    BY DEF Init, TimerArmed, Undisturbed
  <1>2. TypeOK /\ TypeOK' /\ TimerArmed /\ [Next]_vars => TimerArmed'
    BY TimerArmedStep
  <1>3. TypeOK /\ TimerArmed => TimerNeverOversleeps
    BY ArmedMeansCovered
  <1> QED BY <1>1, <1>2, <1>3, TypeCorrect, PTL DEF Spec

\* One verdict for every send, and what each part of it was made of.
THEOREM VerdictsAccounted == Spec => []VerdictInv
  <1>1. Init => VerdictInv
    BY InitVerdicts
  <1>2. TypeOK /\ TypeOK' /\ LoanIntact /\ VerdictInv /\ [Next]_vars => VerdictInv'
    BY VerdictStep
  <1> QED BY <1>1, <1>2, TypeAndLoan, PTL DEF Spec

\* SendSlot: a waiter reads a handoff of Ok if and only if a copy went on air or the destination
\* acked, whichever of the tasks that race to report was first.
THEOREM HandoffsTruthful == Spec => []HandoffTruthful
  <1>1. VerdictInv => HandoffTruthful
    BY DEF VerdictInv, Told
  <1> QED BY <1>1, VerdictsAccounted, PTL

\* Sends::cancel: no sleepy child's copy outlives a cancelled broadcast.
THEOREM CancelledCopiesGone == Spec => []CancelTakesCopies
  <1>1. VerdictInv => CancelTakesCopies
    BY DEF VerdictInv
  <1> QED BY <1>1, VerdictsAccounted, PTL

\* The stack implements the contract its callers rely on: every step writes the slots the way the
\* contract allows, or not at all.
THEOREM ContractKept == Spec => ImplementsContract
  <1>1. Init => Contract!Init
    <2> SUFFICES ASSUME Init PROVE Contract!Init
      OBVIOUS
    <2>1. Contract!Open = FreshSlot
      BY DEF Contract!Open, FreshSlot, Contract!NotYet, Unset
    <2> QED BY <2>1 DEF Init, Contract!Init
  <1>2. TypeOK /\ VerdictInv /\ [Next]_vars => [Contract!Next]_slots
    BY ContractStep
  <1> QED BY <1>1, <1>2, TypeCorrect, VerdictsAccounted, PTL DEF Spec, ImplementsContract, Contract!Spec
=============================================================================
