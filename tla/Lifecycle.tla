----------------------------- MODULE Lifecycle -----------------------------
(***************************************************************************)
(* The life of the server's Zigbee stacks: configure, start_network,        *)
(* shutdown and packet_capture, each request on a task of its own, and the  *)
(* tracked tasks of the stacks they make.  All stacks share one radio,      *)
(* whose receive and reset streams go to whoever subscribed last.           *)
(*                                                                          *)
(* A handler's steps are the accesses to the server's shared fields and the *)
(* awaits between them.  A panic ends the process (the release profile      *)
(* aborts), after which nothing happens here.                               *)
(***************************************************************************)
EXTENDS Integers, FiniteSets

CONSTANTS
    Handlers,        \* request handlers that may be in flight together
    Kinds,           \* the requests the clients make
    MaxStacks,       \* bound: the stacks ever configured
    MaxRequests,     \* bound: the requests the clients make
    MaxUnruly        \* bound: those of clients that do not wait, or capture

ASSUME LifecycleAssumption ==
    /\ Kinds \subseteq {"configure", "start", "shutdown", "capture"}
    /\ MaxStacks \in Nat /\ MaxRequests \in Nat /\ MaxUnruly \in Nat

VARIABLES
    stack,         \* ZigguratServer.stack: the current stack, None (0) or its number
    started,       \* ZigguratServer.started
    forwarder,     \* ZigguratServer.notification_forwarder: its task, or NoForwarder
    forwarding,    \* the notification forwarders that run
    made,          \* the stacks made so far
    registered,    \* the tasks in the cancels of their stacks
    notified,      \* the tasks told to stop
    alive,         \* the tasks the executor holds
    polled,        \* those that ran up to their first await, and hold the lock they took there
    rxOwner,       \* who is subscribed to received frames: a stack, or Capture
    resetOwner,    \* who is subscribed to resets: a stack
    subscribing,   \* captures that answered and have still to subscribe
    requests,      \* the requests made so far
    req,           \* per handler: the request, where it is and the stack it holds
    orderly,       \* the clients have waited for every answer, and captured nothing (a history variable)
    crashed        \* the process has panicked

server == <<stack, started, forwarder, forwarding>>
tasks  == <<registered, notified, alive, polled>>
radio  == <<rxOwner, resetOwner, subscribing>>
clients == <<requests, orderly, crashed>>
vars   == <<server, made, tasks, radio, req, clients>>

None        == 0
Capture     == -1
NoForwarder == [stack |-> None, by |-> None]
Idle        == [kind |-> "none", at |-> "idle", held |-> None, handedOff |-> FALSE]
Stacks      == 1 .. made
TaskNames   == {"sender", "background", "recovery", "run"}
Task(q, name) == [stack |-> req[q].held, name |-> name, by |-> q]

Init ==
    /\ stack = None /\ started = FALSE
    /\ forwarder = NoForwarder /\ forwarding = {}
    /\ made = 0
    /\ registered = {} /\ notified = {} /\ alive = {} /\ polled = {}
    /\ rxOwner = None /\ resetOwner = None /\ subscribing = {}
    /\ requests = 0
    /\ req = [q \in Handlers |-> Idle]
    /\ orderly = TRUE /\ crashed = FALSE

-----------------------------------------------------------------------------
(* Requests *)

At(q, where) == req[q].at = where
Goto(q, where) == req' = [req EXCEPT ![q].at = where]
Answer(q) == req' = [req EXCEPT ![q] = Idle]
TasksOf(s, S) == {t \in S : t.stack = s}

FirstStep(kind) ==
    CASE kind = "configure" -> "take" [] kind = "shutdown" -> "take"
      [] kind = "start" -> "load" [] kind = "capture" -> "capture"

\* dispatch spawns a task for every request.
Request(q, kind) ==
    /\ At(q, "idle") /\ requests < MaxRequests
    /\ requests' = requests + 1
    /\ orderly' = (orderly /\ kind # "capture" /\ \A p \in Handlers : At(p, "idle"))
    /\ orderly' \/ requests < MaxUnruly
    /\ kind = "configure" => made < MaxStacks
    /\ req' = [req EXCEPT ![q] = [Idle EXCEPT !.kind = kind, !.at = FirstStep(kind)]]
    /\ UNCHANGED <<server, made, tasks, radio, crashed>>

-----------------------------------------------------------------------------
(* teardown_stack, the first part of configure and shutdown *)

BugStackBorrowed(q) ==
    /\ At(q, "take")
    /\ req' = [req EXCEPT ![q].held = stack,
                          ![q].at = IF stack = None THEN "forwarder" ELSE "cancel"]
    /\ UNCHANGED <<server, made, tasks, radio, clients>>

TakeStack(q) ==
    /\ At(q, "take")
    /\ stack' = None
    /\ req' = [req EXCEPT ![q].held = stack,
                          ![q].at = IF stack = None THEN "forwarder" ELSE "cancel"]
    /\ UNCHANGED <<started, forwarder, forwarding, made, tasks, radio, clients>>

\* ZigbeeStack::shutdown: notify the tasks registered now ...
CancelTasks(q) ==
    /\ At(q, "cancel")
    /\ notified' = notified \cup TasksOf(req[q].held, registered)
    /\ Goto(q, "drain")
    /\ UNCHANGED <<server, made, registered, alive, polled, radio, clients>>

BugDrainUnchecked(q) ==
    /\ At(q, "drain")
    /\ Goto(q, "forwarder")
    /\ UNCHANGED <<server, made, tasks, radio, clients>>

\* ... wait until none is registered ...
Drained(q) ==
    /\ At(q, "drain")
    /\ TasksOf(req[q].held, registered) = {}
    /\ Goto(q, "abort")
    /\ UNCHANGED <<server, made, tasks, radio, clients>>

\* ... abort what the executor still holds, and settle every send of the stack.
AbortTasks(q) ==
    /\ At(q, "abort")
    /\ alive' = alive \ TasksOf(req[q].held, alive)
    /\ polled' = polled \ TasksOf(req[q].held, polled)
    /\ req' = [p \in Handlers |->
                  IF p = q THEN [req[q] EXCEPT !.at = "forwarder"]
                  ELSE IF req[p].held = req[q].held /\ At(p, "handoff")
                       THEN [req[p] EXCEPT !.handedOff = TRUE] ELSE req[p]]
    /\ UNCHANGED <<server, made, registered, notified, radio, clients>>

TakeForwarder(q) ==
    /\ At(q, "forwarder")
    /\ forwarding' = forwarding \ {forwarder} /\ forwarder' = NoForwarder
    /\ Goto(q, "clear")
    /\ UNCHANGED <<stack, started, made, tasks, radio, clients>>

BugStartedKept(q) ==
    /\ At(q, "clear")
    /\ Goto(q, "phy")
    /\ UNCHANGED <<server, made, tasks, radio, clients>>

ClearStarted(q) ==
    /\ At(q, "clear")
    /\ started' = FALSE
    /\ Goto(q, "phy")
    /\ UNCHANGED <<stack, forwarder, forwarding, made, tasks, radio, clients>>

-----------------------------------------------------------------------------
(* configure and shutdown, from there on *)

\* The radio does not open, or refuses the cleared source-match table.
RadioRefuses(q) ==
    /\ At(q, "phy")
    /\ Answer(q)
    /\ UNCHANGED <<server, made, tasks, radio, clients>>

ClearTable(q) ==
    /\ At(q, "phy") /\ req[q].kind = "shutdown"
    /\ Answer(q)
    /\ UNCHANGED <<server, made, tasks, radio, clients>>

\* A new subscriber to a stream of the radio takes it over: the old one's hangs up.
SubscribeRx(who) == rxOwner' = who
SubscribeReset(who) == resetOwner' = who

\* ZigbeeStack::new subscribes to both streams.
NewStack(q) ==
    /\ At(q, "phy") /\ req[q].kind = "configure"
    /\ made' = made + 1
    /\ SubscribeRx(made + 1) /\ SubscribeReset(made + 1)
    /\ req' = [req EXCEPT ![q].held = made + 1, ![q].at = "store"]
    /\ UNCHANGED <<server, tasks, subscribing, clients>>

StoreStack(q) ==
    /\ At(q, "store")
    /\ stack' = req[q].held
    /\ Goto(q, "unstarted")
    /\ UNCHANGED <<started, forwarder, forwarding, made, tasks, radio, clients>>

Configured(q) ==
    /\ At(q, "unstarted")
    /\ started' = FALSE
    /\ Answer(q)
    /\ UNCHANGED <<stack, forwarder, forwarding, made, tasks, radio, clients>>

-----------------------------------------------------------------------------
(* start_network *)

LoadStack(q) ==
    /\ At(q, "load")
    /\ IF stack = None THEN Answer(q)
       ELSE req' = [req EXCEPT ![q].held = stack, ![q].at = "check"]
    /\ UNCHANGED <<server, made, tasks, radio, clients>>

BugStartsAgain(q) ==
    /\ At(q, "check")
    /\ Goto(q, "lock")
    /\ UNCHANGED <<server, made, tasks, radio, clients>>

CheckStarted(q) ==
    /\ At(q, "check")
    /\ IF started THEN Answer(q) ELSE Goto(q, "lock")
    /\ UNCHANGED <<server, made, tasks, radio, clients>>

\* Holders of a stack's reset receiver, and of its frame receiver.
ResetHeld(s) ==
    \/ \E p \in Handlers : At(p, "resetting") /\ req[p].held = s
    \/ \E t \in polled : t.stack = s /\ t.name = "recovery"
RxHeld(s) == \E t \in polled : t.stack = s /\ t.name = "run"

\* reset_radio expects the receiver to be free.
LockReset(q) ==
    /\ At(q, "lock")
    /\ IF ResetHeld(req[q].held) THEN crashed' = TRUE /\ UNCHANGED req
       ELSE Goto(q, "resetting") /\ UNCHANGED crashed
    /\ UNCHANGED <<server, made, tasks, radio, requests, orderly>>

\* The radio fails to reset or to take its configuration; or another stack subscribed.
StartFails(q) ==
    /\ At(q, "resetting") \/ At(q, "program")
    /\ Answer(q)
    /\ UNCHANGED <<server, made, tasks, radio, clients>>

ResetComplete(q) ==
    /\ At(q, "resetting") /\ resetOwner = req[q].held
    /\ Goto(q, "program")
    /\ UNCHANGED <<server, made, tasks, radio, clients>>

\* spawn_tracked
Spawn(q, names) ==
    /\ registered' = registered \cup {Task(q, n) : n \in names}
    /\ alive' = alive \cup {Task(q, n) : n \in names}
    /\ UNCHANGED <<notified, polled>>

\* The radio is programmed; the sender, the send timer and the beacon task are spawned.
SpawnSender(q) ==
    /\ At(q, "program")
    /\ Spawn(q, {"sender"})
    /\ Goto(q, "linkStatus")
    /\ UNCHANGED <<server, made, radio, clients>>

EnqueueLinkStatus(q) ==
    /\ At(q, "linkStatus")
    /\ Goto(q, "handoff")
    /\ UNCHANGED <<server, made, tasks, radio, clients>>

\* The initial link status was handed to the radio, or abandoned.
HandedOff(q) ==
    /\ At(q, "handoff")
    /\ req[q].handedOff \/ \E t \in alive : t.stack = req[q].held /\ t.name = "sender"
    /\ Goto(q, "background")
    /\ UNCHANGED <<server, made, tasks, radio, clients>>

SpawnBackground(q) ==
    /\ At(q, "background")
    /\ Spawn(q, {"background", "recovery"})
    /\ Goto(q, "run")
    /\ UNCHANGED <<server, made, radio, clients>>

SpawnRun(q) ==
    /\ At(q, "run")
    /\ Spawn(q, {"run"})
    /\ Goto(q, "forward")
    /\ UNCHANGED <<server, made, radio, clients>>

StoreForwarder(q) ==
    LET f == [stack |-> req[q].held, by |-> q] IN
    /\ At(q, "forward")
    /\ forwarder' = f /\ forwarding' = forwarding \cup {f}
    /\ Goto(q, "publish")
    /\ UNCHANGED <<stack, started, made, tasks, radio, clients>>

Started(q) ==
    /\ At(q, "publish")
    /\ started' = TRUE
    /\ Answer(q)
    /\ UNCHANGED <<stack, forwarder, forwarding, made, tasks, radio, clients>>

-----------------------------------------------------------------------------
(* packet_capture *)

CaptureAnswers(q) ==
    /\ At(q, "capture")
    /\ \/ subscribing' = subscribing \cup {q}       \* the radio is reprogrammed
       \/ UNCHANGED subscribing                     \* or refuses
    /\ Answer(q)
    /\ UNCHANGED <<server, made, tasks, rxOwner, resetOwner, clients>>

CaptureSubscribes(q) ==
    /\ q \in subscribing
    /\ subscribing' = subscribing \ {q}
    /\ SubscribeRx(Capture)
    /\ UNCHANGED <<server, made, tasks, resetOwner, req, clients>>

-----------------------------------------------------------------------------
(* The tasks *)

\* A task's first poll: recovery and run expect the receiver they lock to be free.
TaskPolled(t) ==
    /\ t \in alive \ polled
    /\ IF (t.name = "recovery" /\ ResetHeld(t.stack)) \/ (t.name = "run" /\ RxHeld(t.stack))
       THEN crashed' = TRUE /\ UNCHANGED polled
       ELSE polled' = polled \cup {t} /\ UNCHANGED crashed
    /\ UNCHANGED <<server, made, registered, notified, alive, radio, req, requests, orderly>>

BugIgnoresCancel(t) == t \in polled \cap notified /\ UNCHANGED vars

\* A task that is told to stop does at its next await, and deregisters.
TaskStops(t) ==
    /\ t \in polled \cap notified
    /\ alive' = alive \ {t} /\ polled' = polled \ {t} /\ registered' = registered \ {t}
    /\ UNCHANGED <<server, made, notified, radio, req, clients>>

\* The receiver a task waits on hangs up, another one having subscribed: it panics.
StreamEnds(t) ==
    /\ t \in polled
    /\ \/ t.name = "run" /\ rxOwner # t.stack
       \/ t.name = "recovery" /\ resetOwner # t.stack
    /\ crashed' = TRUE
    /\ UNCHANGED <<server, made, tasks, radio, req, requests, orderly>>

-----------------------------------------------------------------------------
Teardown(q) ==
    TakeStack(q) \/ CancelTasks(q) \/ Drained(q) \/ AbortTasks(q) \/ TakeForwarder(q) \/ ClearStarted(q)

Configures(q) == RadioRefuses(q) \/ ClearTable(q) \/ NewStack(q) \/ StoreStack(q) \/ Configured(q)

Starts(q) ==
    \/ LoadStack(q) \/ CheckStarted(q) \/ LockReset(q) \/ StartFails(q) \/ ResetComplete(q)
    \/ SpawnSender(q) \/ EnqueueLinkStatus(q) \/ HandedOff(q) \/ SpawnBackground(q)
    \/ SpawnRun(q) \/ StoreForwarder(q) \/ Started(q)

Handles(q) == Teardown(q) \/ Configures(q) \/ Starts(q) \/ CaptureAnswers(q)

Runs(t) == TaskPolled(t) \/ TaskStops(t) \/ StreamEnds(t)

Next ==
    /\ ~crashed
    /\ \/ \E q \in Handlers, kind \in Kinds : Request(q, kind)
       \/ \E q \in Handlers : Handles(q) \/ CaptureSubscribes(q)
       \/ \E t \in alive : Runs(t)

Spec == Init /\ [][Next]_vars

AllTasks == [stack : 1 .. MaxStacks, name : TaskNames, by : Handlers]

\* The executor runs what is ready, and a radio operation ends within its timeouts.
Fairness ==
    /\ \A q \in Handlers : WF_vars(~crashed /\ Handles(q)) /\ WF_vars(~crashed /\ CaptureSubscribes(q))
    /\ \A t \in AllTasks : WF_vars(~crashed /\ Runs(t))

FairSpec == Spec /\ Fairness

-----------------------------------------------------------------------------
(* Properties *)

InFlight == {q \in Handlers : ~At(q, "idle")}

\* A replaced stack stops processing frames and transmitting before its successor takes
\* over the radio: as long as the clients wait for their answers, no two stacks ever have a
\* task alive, and a task alive is of the last stack that subscribed.
OneStackOnAir == orderly => \A t \in alive : t.stack = made

\* When nothing is in flight, started says whether the current stack runs, which send
\* requests are admitted on, and its notifications are the ones forwarded: no task and no
\* forwarder of a stack outlives it.
StartedIsRunning ==
    InFlight = {} /\ orderly /\ ~crashed
    => IF started
       THEN /\ stack # None /\ {t.name : t \in TasksOf(stack, alive)} = TaskNames
            /\ forwarding = {forwarder} /\ forwarder.stack = stack
       ELSE alive = {} /\ forwarding = {}

\* No sequence of requests, each made once the last was answered, makes an expect of the
\* stack fail, which would end the process.
ServerSurvives == orderly => ~crashed

\* shutdown waits on a notification that wakes a single waiter: however the requests race,
\* no two of them ever tear down the same stack.
OneTeardownPerStack ==
    \A p, q \in Handlers :
       /\ req[p].at \in {"cancel", "drain", "abort"} /\ req[q].at \in {"cancel", "drain", "abort"}
       /\ req[p].held = req[q].held
       => p = q

\* Every request of clients that wait for their answers is answered, unless the process
\* ends: a teardown waits for tasks that all do stop, and a start for a link status that is
\* sent or abandoned.
EveryRequestAnswered ==
    \A q \in Handlers : ~At(q, "idle") ~> At(q, "idle") \/ crashed \/ ~orderly
=============================================================================
