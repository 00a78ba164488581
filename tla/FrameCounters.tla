---------------------------- MODULE FrameCounters ----------------------------
(***************************************************************************)
(* The outgoing security frame counters and how they survive a restart.     *)
(* The stack keeps one counter for frames under the network key and one for *)
(* frames under link keys, and tells the client of them now and then        *)
(* through the bounded notification queue.  The client stores what it is    *)
(* told; after a restart (a crash, a reset, a new configure request) it     *)
(* configures the stack with what it stored and a margin.                   *)
(*                                                                          *)
(* Under the network key only the sender task secures frames.  Data frames  *)
(* and acknowledgements under link keys are secured by callers on several   *)
(* threads, each of which then looks, without a lock held throughout,       *)
(* whether the client is due an update; commands under link keys (key       *)
(* transports, Confirm-Key) advance the same counter and look at nothing.   *)
(***************************************************************************)
EXTENDS Integers, Sequences, FiniteSets

CONSTANTS
    Callers,       \* the threads that secure frames under link keys
    Interval,      \* FRAME_COUNTER_NOTIFY_INTERVAL
    Cap,           \* NOTIFICATION_QUEUE_CAP
    Margin,        \* per stream: what the client adds to a stored counter when it configures the stack
    MaxUnheard,    \* per stream: updates the client may have missed when the stack is lost
    MaxSilent,     \* link-key commands between two looks at the counter
    MaxOvertaken,  \* link-key frames secured while a caller is between its look and its update
    MaxFrames,     \* bound, per stream: the frames secured
    MaxOther,      \* bound: the other events notified
    MaxRestarts    \* bound: the restarts

ASSUME CountersAssumption ==
    /\ Interval \in Nat \ {0} /\ Cap \in Nat \ {0}
    /\ MaxUnheard \in [{"nwk", "aps"} -> Nat] /\ MaxSilent \in Nat /\ MaxOvertaken \in Nat
    /\ MaxFrames \in [{"nwk", "aps"} -> Nat] /\ MaxOther \in Nat /\ MaxRestarts \in Nat
    /\ Margin \in [{"nwk", "aps"} -> Nat] /\ IsFiniteSet(Callers)

Larger(m, n) == IF m >= n THEN m ELSE n

\* How far the link-key counter can run ahead of the last update a caller notified: a frame whose
\* counter was not due, or one secured while an update was on its way, then the frames nobody
\* has looked at, then those secured while a caller acts on what it read.
AtRest == Larger(Interval - 1, MaxOvertaken) + MaxOvertaken
Unseen == Larger(MaxSilent + Cardinality(Callers), MaxOvertaken)
ApsLag == AtRest + Unseen + MaxOvertaken

\* The client's margins, external to this repository, cover what it can miss.
ASSUME MarginAssumption ==
    /\ Margin["nwk"] >= Interval * (MaxUnheard["nwk"] + 1) - 1
    /\ Margin["aps"] >= ApsLag * (MaxUnheard["aps"] + 1)

VARIABLES
    counter,       \* per stream: outgoing_frame_counter
    lastPersisted, \* last_persisted_aps_counter
    queue,         \* notifications
    caller,        \* per caller: where it is in maybe_notify_aps_frame_counter, what it has read
    stored,        \* per stream: the counter in the client's storage
    air,           \* history, per stream: the frames secured and the last one's counter
    unheard,       \* history, per stream: updates notified since the client last stored one
    silent,        \* history: link-key commands since a caller last looked at the counter
    bounds         \* what the bounds count

stack == <<counter, lastPersisted, queue, caller>>
vars  == <<stack, stored, air, unheard, silent, bounds>>

Streams == {"nwk", "aps"}
Other   == [kind |-> "other", value |-> 0]
Idle    == [at |-> "idle", read |-> 0]

Init ==
    /\ counter = [s \in Streams |-> 0] /\ lastPersisted = 0
    /\ queue = << >>
    /\ caller = [c \in Callers |-> Idle]
    /\ stored = [s \in Streams |-> 0]
    /\ air = [s \in Streams |-> [frames |-> 0, last |-> 0]]
    /\ unheard = [s \in Streams |-> 0] /\ silent = 0
    /\ bounds = [other |-> 0, restarts |-> 0]

-----------------------------------------------------------------------------
(* Notifications *)

BugPushed(event) == IF Len(queue) < Cap THEN Append(queue, event) ELSE queue

\* push_notification: a full queue loses its oldest events.
Pushed(event) == Append(SubSeq(queue, Larger(1, Len(queue) - Cap + 2), Len(queue)), event)

Update(s, value) == [kind |-> s, value |-> value]

Notify(s, value) ==
    /\ queue' = Pushed(Update(s, value))
    /\ unheard' = [unheard EXCEPT ![s] = @ + 1]

PushOther ==
    /\ bounds.other < MaxOther
    /\ bounds' = [bounds EXCEPT !.other = @ + 1]
    /\ queue' = Pushed(Other)
    /\ UNCHANGED <<counter, lastPersisted, caller, stored, air, unheard, silent>>

\* Where the last update of a stream is in the queue, if there is one.
LastTold(s) == {i \in 1 .. Len(queue) :
                   queue[i].kind = s /\ \A j \in i + 1 .. Len(queue) : queue[j].kind # s}

\* next_notifications, and the client storing the batch in its order.
Drain ==
    /\ queue # << >>
    /\ queue' = << >>
    /\ stored' = [s \in Streams |-> IF LastTold(s) = {} THEN stored[s]
                                    ELSE queue[CHOOSE i \in LastTold(s) : TRUE].value]
    /\ unheard' = [s \in Streams |-> IF LastTold(s) = {} THEN unheard[s] ELSE 0]
    /\ UNCHANGED <<counter, lastPersisted, caller, air, silent, bounds>>

\* network_info: the client reads both counters from the stack.
ReadNetworkInfo ==
    /\ stored' = counter
    /\ unheard' = [s \in Streams |-> 0]
    /\ UNCHANGED <<stack, air, silent, bounds>>

-----------------------------------------------------------------------------
(* Securing a frame *)

\* next_outgoing_frame_counter.  The counters' last value, at which checked_add panics instead
\* of wrapping, is beyond the bound.
Advance(s) ==
    /\ air[s].frames < MaxFrames[s]
    /\ counter' = [counter EXCEPT ![s] = @ + 1]
    /\ air' = [air EXCEPT ![s] = [frames |-> @.frames + 1, last |-> counter[s] + 1]]

ShouldPersist(value) == value % Interval = 0

\* encrypt_nwk_frame: the sender task secures a frame under the network key.
SecureNwk ==
    /\ Advance("nwk")
    /\ IF ShouldPersist(counter'["nwk"])
       THEN Notify("nwk", counter'["nwk"])
       ELSE UNCHANGED <<queue, unheard>>
    /\ UNCHANGED <<lastPersisted, caller, stored, silent, bounds>>

\* No caller is suspended for long between reading the counter and telling the client.
Timely ==
    \A c \in Callers : caller[c].at \in {"load", "store", "push"} =>
        counter["aps"] - caller[c].read < MaxOvertaken

\* encrypt_command and its variants: a key transport or a Confirm-Key.
SecureCommand ==
    /\ silent < MaxSilent /\ Timely
    /\ Advance("aps")
    /\ silent' = silent + 1
    /\ UNCHANGED <<lastPersisted, queue, caller, stored, unheard, bounds>>

\* encrypt_data, encrypt_ack: the frame is secured, and the counter looked at afterwards.
SecureData(c) ==
    /\ caller[c].at = "idle" /\ Timely
    /\ Advance("aps")
    /\ caller' = [caller EXCEPT ![c].at = "read"]
    /\ UNCHANGED <<lastPersisted, queue, stored, unheard, silent, bounds>>

ReadCounter(c) ==
    /\ caller[c].at = "read"
    /\ caller' = [caller EXCEPT ![c] = [at |-> "load", read |-> counter["aps"]]]
    /\ silent' = 0
    /\ UNCHANGED <<counter, lastPersisted, queue, stored, air, unheard, bounds>>

\* wrapping_sub: a counter read behind lastPersisted is far past it.
Due(read, last) == read - last >= Interval \/ read < last

LoadLast(c) ==
    /\ caller[c].at = "load"
    /\ IF Due(caller[c].read, lastPersisted)
       THEN caller' = [caller EXCEPT ![c].at = "store"]
       ELSE caller' = [caller EXCEPT ![c] = Idle]
    /\ UNCHANGED <<counter, lastPersisted, queue, stored, air, unheard, silent, bounds>>

StoreLast(c) ==
    /\ caller[c].at = "store"
    /\ lastPersisted' = caller[c].read
    /\ caller' = [caller EXCEPT ![c].at = "push"]
    /\ UNCHANGED <<counter, queue, stored, air, unheard, silent, bounds>>

PushUpdate(c) ==
    /\ caller[c].at = "push"
    /\ Notify("aps", caller[c].read)
    /\ caller' = [caller EXCEPT ![c] = Idle]
    /\ UNCHANGED <<counter, lastPersisted, stored, air, silent, bounds>>

-----------------------------------------------------------------------------
(* Restart *)

BugRestored == [s \in Streams |-> IF s = "aps" THEN 0 ELSE stored[s] + Margin[s]]

\* NwkSecurity::new and restore_outgoing_frame_counter on a new stack, whose counter is 0.
Restored == [s \in Streams |-> Larger(0, stored[s] + Margin[s])]

\* The stack is lost at any point, the client having missed a few updates at most, and is
\* configured again.  The client stores what it configures:
\* a second restart before the first update would otherwise begin at the same counter.
Restart ==
    /\ bounds.restarts < MaxRestarts
    /\ \A s \in Streams : unheard[s] <= MaxUnheard[s]
    /\ bounds' = [bounds EXCEPT !.restarts = @ + 1]
    /\ counter' = Restored
    /\ stored' = [s \in Streams |-> stored[s] + Margin[s]]
    /\ lastPersisted' = 0
    /\ queue' = << >>
    /\ caller' = [c \in Callers |-> Idle]
    /\ unheard' = [s \in Streams |-> 0] /\ silent' = 0
    /\ UNCHANGED air

-----------------------------------------------------------------------------
CallerStep(c) ==
    \/ SecureData(c) \/ ReadCounter(c) \/ LoadLast(c) \/ StoreLast(c) \/ PushUpdate(c)

Next ==
    \/ SecureNwk \/ SecureCommand
    \/ PushOther \/ Drain \/ ReadNetworkInfo
    \/ Restart
    \/ \E c \in Callers : CallerStep(c)

Spec == Init /\ [][Next]_vars

-----------------------------------------------------------------------------
(* Properties *)

\* NwkLagBounded (CounterAdvance: "a rollback after a restart would make every device silently
\* reject our frames"): the client's copy of the network-key counter lags by at most the updates
\* it has yet to store, dropped ones included, and one more interval.
NwkLagBounded ==
    counter["nwk"] < stored["nwk"] + Interval * (unheard["nwk"] + 1)

\* FreshAfterRestart: with a margin above what the client can miss, every frame secured after a
\* crash at any point, or after several in a row, still has a counter above all before it.
Promise == INSTANCE FreshCounters
    WITH ether <- [s \in Streams |-> [frames |-> air[s].frames, highest |-> air[s].last]]

FreshAfterRestart == Promise!Spec

=============================================================================
