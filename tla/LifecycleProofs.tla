-------------------------- MODULE LifecycleProofs --------------------------
(* Theorems about Lifecycle, for any number of handlers, stacks and requests. *)
EXTENDS Lifecycle, TLAPS

Places ==
    {"idle", "take", "cancel", "drain", "abort", "forwarder", "clear", "phy", "store", "unstarted",
     "load", "check", "lock", "resetting", "program", "linkStatus", "handoff", "background", "run",
     "forward", "publish", "capture"}

\* The places of start_network past its check.
Starting ==
    {"lock", "resetting", "program", "linkStatus", "handoff", "background", "run", "forward", "publish"}

\* The places of a handler that owns the stack it holds: nobody else has it.
Owning == {"cancel", "drain", "abort", "store"}

ReqType ==
    [kind : Kinds \cup {"none"}, at : Places, held : Nat, handedOff : BOOLEAN]

LifecycleTypes ==
    /\ stack \in 0 .. made /\ made \in Nat /\ started \in BOOLEAN
    /\ req \in [Handlers -> ReqType]
    /\ orderly \in BOOLEAN /\ crashed \in BOOLEAN

\* A stack that is torn down or not stored yet is that of one handler, and of no other.
OwnersDiffer ==
    /\ \A q \in Handlers : req[q].at \in Owning => req[q].held \in 1 .. made /\ req[q].held # stack
    /\ \A p, q \in Handlers :
          req[p].at \in Owning /\ req[q].at \in Owning /\ req[p].held = req[q].held => p = q

-----------------------------------------------------------------------------
(* While the clients wait for their answers *)

Names == {t.name : t \in alive}

\* At most one request is in flight, and the streams of the radio are the last stack's.
Solo ==
    /\ \A p, q \in Handlers : req[p].at # "idle" /\ req[q].at # "idle" => p = q
    /\ rxOwner = made /\ resetOwner = made /\ subscribing = {}

\* The tasks alive are the registered ones, one of a name, all of the last stack.
TasksInv ==
    /\ registered = alive /\ polled \subseteq alive
    /\ \A t \in alive : t.stack = made
    /\ \A t, u \in alive : t.name = u.name => t = u

\* A task that was told to stop is of a stack that is gone.
NotifiedInv ==
    \A t \in notified :
       /\ t.stack \in 0 .. made
       /\ stack # None \/ (\E q \in Handlers : req[q].at = "store") => t.stack # made

Running ==
    /\ stack # None /\ Names = TaskNames
    /\ forwarding = {forwarder} /\ forwarder.stack = stack
Stopped == alive = {} /\ forwarding = {}

Resting == {"idle", "take", "load", "check"}

RestInv ==
    /\ stack \in {None, made}
    /\ (\A q \in Handlers : req[q].at \in Resting) => IF started THEN Running ELSE Stopped

\* What holds where a handler is.
TeardownInv(q) ==
    /\ req[q].at \in {"cancel", "drain", "abort", "forwarder"} => stack = None /\ forwarding \subseteq {forwarder}
    /\ req[q].at \in {"cancel", "drain", "abort"} => req[q].held = made
    /\ req[q].at \in {"abort", "forwarder"} => alive = {}
    /\ req[q].at \in {"clear", "phy", "store", "unstarted"} => Stopped
    /\ req[q].at \in {"clear", "phy", "store"} => stack = None
    /\ req[q].at \in {"phy", "store", "unstarted"} => ~started
    /\ req[q].at \in {"store", "unstarted"} => req[q].held = made /\ made # 0
    /\ req[q].at = "unstarted" => stack = made

StartInv(q) ==
    /\ req[q].at = "check" => req[q].held = stack /\ stack # None
    /\ req[q].at \in Starting => stack = made /\ req[q].held = made /\ made # 0 /\ ~started
    /\ req[q].at \in {"lock", "resetting", "program"} => alive = {}
    /\ req[q].at \in {"linkStatus", "handoff", "background"} => Names = {"sender"}
    /\ req[q].at = "run" => Names = {"sender", "background", "recovery"}
    /\ req[q].at \in {"forward", "publish"} => Names = TaskNames
    /\ req[q].at \in Starting \ {"publish"} => forwarding = {}
    /\ req[q].at = "publish" => forwarding = {forwarder} /\ forwarder.stack = stack

OrderlyInv ==
    /\ ~crashed
    /\ Solo /\ TasksInv /\ NotifiedInv /\ RestInv
    /\ \A q \in Handlers : req[q].at # "capture" /\ TeardownInv(q) /\ StartInv(q)

LifecycleInv == LifecycleTypes /\ OwnersDiffer /\ (orderly => OrderlyInv)

-----------------------------------------------------------------------------
(* How a step moves its handler *)

\* A step of handler q leaves it at a place, holding a stack; the others stay where they are.
Moves(q, at, held) ==
    /\ req'[q].at = at /\ req'[q].held = held
    /\ \A p \in Handlers \ {q} : req'[p].at = req[p].at /\ req'[p].held = req[p].held
    /\ req' \in [Handlers -> ReqType]

LEMMA GotoMoves ==
    ASSUME LifecycleTypes, NEW q \in Handlers, NEW at \in Places, Goto(q, at)
    PROVE  Moves(q, at, req[q].held)
  <1>1. req[q] \in ReqType
    BY DEF LifecycleTypes
  <1>2. /\ req' \in [Handlers -> ReqType]
        /\ req'[q].at = at /\ req'[q].held = req[q].held
    BY <1>1 DEF Goto, LifecycleTypes, ReqType
  <1> QED BY <1>2 DEF Goto, Moves, LifecycleTypes

LEMMA AnswerMoves ==
    ASSUME LifecycleTypes, NEW q \in Handlers, Answer(q)
    PROVE  Moves(q, "idle", None)
  <1>1. Idle \in ReqType /\ Idle.at = "idle" /\ Idle.held = None
    BY DEF Idle, ReqType, Places, None
  <1> QED BY <1>1 DEF Answer, Moves, LifecycleTypes

LEMMA HoldMoves ==
    ASSUME LifecycleTypes, NEW q \in Handlers, NEW at \in Places, NEW s \in Nat,
           req' = [req EXCEPT ![q].held = s, ![q].at = at]
    PROVE  Moves(q, at, s)
  <1>1. req[q] \in ReqType
    BY DEF LifecycleTypes
  <1>2. /\ req' \in [Handlers -> ReqType]
        /\ req'[q].at = at /\ req'[q].held = s
    BY <1>1 DEF LifecycleTypes, ReqType
  <1> QED BY <1>2 DEF Moves, LifecycleTypes

LEMMA RequestMoves ==
    ASSUME LifecycleTypes, NEW q \in Handlers, NEW kind \in Kinds, Request(q, kind)
    PROVE  /\ Moves(q, FirstStep(kind), None)
           /\ FirstStep(kind) \in {"take", "load", "capture"}
           /\ FirstStep(kind) = "capture" => kind = "capture"
  <1>1. FirstStep(kind) \in {"take", "load", "capture"} /\ (FirstStep(kind) = "capture" => kind = "capture")
    BY LifecycleAssumption DEF FirstStep
  <1>2. FirstStep(kind) \in Places
    BY <1>1 DEF Places
  <1> DEFINE v == [Idle EXCEPT !.kind = kind, !.at = FirstStep(kind)]
  <1>3. v \in ReqType /\ v.at = FirstStep(kind) /\ v.held = None
    BY <1>2 DEF Idle, ReqType, None
  <1>4. req' = [req EXCEPT ![q] = v]
    BY DEF Request
  <1> HIDE DEF v
  <1> QED BY <1>1, <1>3, <1>4 DEF Moves, LifecycleTypes

LEMMA AbortMoves ==
    ASSUME LifecycleTypes, NEW q \in Handlers, AbortTasks(q)
    PROVE  Moves(q, "forwarder", req[q].held)
  <1>1. \A p \in Handlers : req[p] \in ReqType
    BY DEF LifecycleTypes
  <1>2. req'[q] \in ReqType /\ req'[q].at = "forwarder" /\ req'[q].held = req[q].held
    BY <1>1 DEF AbortTasks, ReqType, Places
  <1>3. \A p \in Handlers \ {q} :
           req'[p] \in ReqType /\ req'[p].at = req[p].at /\ req'[p].held = req[p].held
    BY <1>1 DEF AbortTasks, ReqType
  <1>4. DOMAIN req' = Handlers /\ req' = [p \in Handlers |-> req'[p]]
    BY DEF AbortTasks
  <1> QED BY <1>2, <1>3, <1>4 DEF Moves

-----------------------------------------------------------------------------
(* Types, and owners that differ, whatever the clients do *)

Safe == LifecycleTypes /\ OwnersDiffer

\* A step that does not touch the server's stack, and makes its handler no new owner.
LEMMA OwnersKept ==
    ASSUME Safe, NEW q \in Handlers, NEW at, NEW held, Moves(q, at, held),
           UNCHANGED <<stack, made>>,
           at \in Owning => req[q].at \in Owning /\ held = req[q].held,
           started' \in BOOLEAN, orderly' \in BOOLEAN, crashed' \in BOOLEAN
    PROVE  Safe'
  <1>1. LifecycleTypes'
    BY DEF Safe, LifecycleTypes, Moves
  <1>2. \A p \in Handlers : req'[p].at \in Owning => req[p].at \in Owning /\ req'[p].held = req[p].held
    BY DEF Moves
  <1>3. OwnersDiffer'
    BY <1>2 DEF Safe, OwnersDiffer
  <1> QED BY <1>1, <1>3 DEF Safe

\* A step of no handler.
LEMMA OwnersStay ==
    ASSUME Safe, UNCHANGED <<stack, made, started, req, orderly>>, crashed' \in BOOLEAN
    PROVE  Safe'
  BY DEF Safe, LifecycleTypes, OwnersDiffer

LEMMA TakeStackSafe ==
    ASSUME Safe, NEW q \in Handlers, TakeStack(q)
    PROVE  /\ Moves(q, IF stack = None THEN "forwarder" ELSE "cancel", stack)
           /\ Safe'
  <1>1. stack \in Nat /\ stack \in 0 .. made /\ made \in Nat
    BY DEF Safe, LifecycleTypes
  <1>2. Moves(q, IF stack = None THEN "forwarder" ELSE "cancel", stack)
    BY <1>1, HoldMoves DEF TakeStack, Places, Safe
  <1>3. LifecycleTypes'
    BY <1>1, <1>2 DEF Safe, LifecycleTypes, Moves, TakeStack, None, clients
  <1>4. req'[q].at \in Owning => stack # None /\ req'[q].held = stack
    BY <1>2 DEF Moves, Owning
  <1>5. \A p \in Handlers : req'[p].at \in Owning => req'[p].held \in 1 .. made /\ req'[p].held # None
    BY <1>1, <1>2, <1>4 DEF Moves, Safe, OwnersDiffer, None
  <1>6. \A p \in Handlers \ {q} : req'[p].at \in Owning => req'[p].held # stack
    BY <1>2 DEF Moves, Safe, OwnersDiffer
  <1>7. OwnersDiffer'
    BY <1>2, <1>4, <1>5, <1>6 DEF Moves, Safe, OwnersDiffer, TakeStack
  <1> QED BY <1>2, <1>3, <1>7 DEF Safe

LEMMA NewStackSafe ==
    ASSUME Safe, NEW q \in Handlers, NewStack(q)
    PROVE  Moves(q, "store", made + 1) /\ Safe'
  <1>1. stack \in Nat /\ stack \in 0 .. made /\ made \in Nat
    BY DEF Safe, LifecycleTypes
  <1>2. Moves(q, "store", made + 1)
    <2>1. made + 1 \in Nat /\ "store" \in Places
      BY <1>1 DEF Places
    <2>2. req' = [req EXCEPT ![q].held = made + 1, ![q].at = "store"]
      BY DEF NewStack
    <2> HIDE DEF NewStack
    <2> DEFINE s == made + 1
    <2>3. LifecycleTypes /\ s \in Nat /\ req' = [req EXCEPT ![q].held = s, ![q].at = "store"]
      BY <2>1, <2>2 DEF Safe
    <2> HIDE DEF s
    <2>4. Moves(q, "store", s)
      BY <2>1, <2>3, HoldMoves
    <2> QED BY <2>4 DEF s
  <1>3. LifecycleTypes'
    BY <1>1, <1>2 DEF Safe, LifecycleTypes, Moves, NewStack, clients, server
  <1>4. \A p \in Handlers \ {q} : req'[p].at \in Owning => req'[p].held \in 1 .. made /\ req'[p].held # stack
    BY <1>2 DEF Moves, Safe, OwnersDiffer
  <1>5. OwnersDiffer'
    BY <1>1, <1>2, <1>4 DEF Moves, Safe, OwnersDiffer, NewStack, server
  <1> QED BY <1>2, <1>3, <1>5 DEF Safe

LEMMA StoreStackSafe ==
    ASSUME Safe, NEW q \in Handlers, StoreStack(q)
    PROVE  Moves(q, "unstarted", req[q].held) /\ Safe'
  <1>1. req[q].held \in 1 .. made /\ made \in Nat
    BY DEF Safe, OwnersDiffer, LifecycleTypes, StoreStack, At, Owning
  <1>2. Moves(q, "unstarted", req[q].held)
    BY GotoMoves DEF StoreStack, Places, Safe
  <1>3. LifecycleTypes'
    BY <1>1, <1>2 DEF Safe, LifecycleTypes, Moves, StoreStack, clients
  <1>4. \A p \in Handlers : req'[p].at \in Owning =>
            p # q /\ req[p].at \in Owning /\ req'[p].held = req[p].held
    BY <1>2 DEF Moves, Owning
  <1>5. \A p \in Handlers : req'[p].at \in Owning => req[p].held # req[q].held
    BY <1>4 DEF Safe, OwnersDiffer, StoreStack, At, Owning
  <1>6. OwnersDiffer'
    BY <1>4, <1>5 DEF Safe, OwnersDiffer, StoreStack
  <1> QED BY <1>2, <1>3, <1>6 DEF Safe

\* The steps that go on to the next place, with the stack they hold.
LEMMA StepsMove ==
    ASSUME LifecycleTypes, NEW q \in Handlers
    PROVE  /\ CancelTasks(q) => Moves(q, "drain", req[q].held)
           /\ Drained(q) => Moves(q, "abort", req[q].held)
           /\ TakeForwarder(q) => Moves(q, "clear", req[q].held)
           /\ ClearStarted(q) => Moves(q, "phy", req[q].held)
           /\ ResetComplete(q) => Moves(q, "program", req[q].held)
           /\ SpawnSender(q) => Moves(q, "linkStatus", req[q].held)
           /\ EnqueueLinkStatus(q) => Moves(q, "handoff", req[q].held)
           /\ HandedOff(q) => Moves(q, "background", req[q].held)
           /\ SpawnBackground(q) => Moves(q, "run", req[q].held)
           /\ SpawnRun(q) => Moves(q, "forward", req[q].held)
           /\ StoreForwarder(q) => Moves(q, "publish", req[q].held)
  <1>1. \A at \in Places : Goto(q, at) => Moves(q, at, req[q].held)
    BY GotoMoves
  <1>2. {"drain", "abort", "clear", "phy", "program", "linkStatus", "handoff", "background", "run",
         "forward", "publish"} \subseteq Places
    BY DEF Places
  <1> QED BY <1>1, <1>2 DEF CancelTasks, Drained, TakeForwarder, ClearStarted, ResetComplete, SpawnSender,
        EnqueueLinkStatus, HandedOff, SpawnBackground, SpawnRun, StoreForwarder

\* The steps that answer the request.
LEMMA AnswersMove ==
    ASSUME LifecycleTypes, NEW q \in Handlers,
           \/ RadioRefuses(q) \/ ClearTable(q) \/ Configured(q) \/ StartFails(q) \/ Started(q) \/ CaptureAnswers(q)
    PROVE  Moves(q, "idle", None)
  BY AnswerMoves DEF RadioRefuses, ClearTable, Configured, StartFails, Started, CaptureAnswers

LEMMA LoadMoves ==
    ASSUME LifecycleTypes, NEW q \in Handlers, LoadStack(q)
    PROVE  IF stack = None THEN Moves(q, "idle", None) ELSE Moves(q, "check", stack)
  <1>1. stack \in Nat /\ "check" \in Places
    BY DEF LifecycleTypes, Places
  <1> QED BY <1>1, AnswerMoves, HoldMoves DEF LoadStack

LEMMA CheckMoves ==
    ASSUME LifecycleTypes, NEW q \in Handlers, CheckStarted(q)
    PROVE  IF started THEN Moves(q, "idle", None) ELSE Moves(q, "lock", req[q].held)
  <1>1. "lock" \in Places
    BY DEF Places
  <1> QED BY <1>1, AnswerMoves, GotoMoves DEF CheckStarted

LEMMA LockMoves ==
    ASSUME LifecycleTypes, NEW q \in Handlers, LockReset(q), ~ResetHeld(req[q].held)
    PROVE  Moves(q, "resetting", req[q].held)
  <1>1. "resetting" \in Places
    BY DEF Places
  <1> QED BY <1>1, GotoMoves DEF LockReset

LEMMA SafeStep ==
    ASSUME Safe, Next
    PROVE  Safe'
  <1>0. LifecycleTypes /\ started \in BOOLEAN /\ orderly \in BOOLEAN /\ crashed \in BOOLEAN
    BY DEF Safe, LifecycleTypes
  <1>1. ASSUME NEW q \in Handlers, NEW kind \in Kinds, Request(q, kind) PROVE Safe'
    <2>1. Moves(q, FirstStep(kind), None) /\ FirstStep(kind) \notin Owning
      BY <1>0, <1>1, RequestMoves DEF Owning
    <2>2. UNCHANGED <<stack, made, started, crashed>> /\ orderly' \in BOOLEAN
      BY <1>1 DEF Request, server
    <2> QED BY <1>0, <2>1, <2>2, OwnersKept
  <1>2. ASSUME NEW q \in Handlers, CancelTasks(q) PROVE Safe'
    <2>1. UNCHANGED <<stack, made, started, orderly, crashed>> /\ req[q].at \in Owning
      BY <1>2 DEF CancelTasks, server, clients, At, Owning
    <2> QED BY <1>0, <1>2, <2>1, StepsMove, OwnersKept
  <1>3. ASSUME NEW q \in Handlers, Drained(q) PROVE Safe'
    <2>1. UNCHANGED <<stack, made, started, orderly, crashed>> /\ req[q].at \in Owning
      BY <1>3 DEF Drained, server, clients, At, Owning
    <2> QED BY <1>0, <1>3, <2>1, StepsMove, OwnersKept
  <1>4. ASSUME NEW q \in Handlers, AbortTasks(q) PROVE Safe'
    <2>1. UNCHANGED <<stack, made, started, orderly, crashed>> /\ "forwarder" \notin Owning
      BY <1>4 DEF AbortTasks, server, clients, Owning
    <2> QED BY <1>0, <1>4, <2>1, AbortMoves, OwnersKept
  <1>5. ASSUME NEW q \in Handlers, TakeForwarder(q) \/ ClearStarted(q) PROVE Safe'
    <2>1. UNCHANGED <<stack, made, orderly, crashed>> /\ started' \in BOOLEAN
      BY <1>0, <1>5 DEF TakeForwarder, ClearStarted, clients
    <2>2. "clear" \notin Owning /\ "phy" \notin Owning
      BY DEF Owning
    <2> QED BY <1>0, <1>5, <2>1, <2>2, StepsMove, OwnersKept
  <1>6. ASSUME NEW q \in Handlers,
               \/ RadioRefuses(q) \/ ClearTable(q) \/ Configured(q) \/ StartFails(q) \/ Started(q)
               \/ CaptureAnswers(q)
        PROVE Safe'
    <2>1. UNCHANGED <<stack, made, orderly, crashed>> /\ started' \in BOOLEAN
      BY <1>0, <1>6 DEF RadioRefuses, ClearTable, Configured, StartFails, Started, CaptureAnswers, clients, server
    <2>2. "idle" \notin Owning
      BY DEF Owning
    <2> QED BY <1>0, <1>6, <2>1, <2>2, AnswersMove, OwnersKept
  <1>7. ASSUME NEW q \in Handlers, TakeStack(q) \/ NewStack(q) \/ StoreStack(q) PROVE Safe'
    BY <1>7, TakeStackSafe, NewStackSafe, StoreStackSafe
  <1>8. ASSUME NEW q \in Handlers, LoadStack(q) \/ CheckStarted(q) \/ LockReset(q) PROVE Safe'
    <2>1. UNCHANGED <<stack, made, started, orderly>> /\ crashed' \in BOOLEAN
      BY <1>0, <1>8 DEF LoadStack, CheckStarted, LockReset, server, clients
    <2>2. {"idle", "check", "lock", "resetting"} \cap Owning = {}
      BY DEF Owning
    <2>3. CASE LoadStack(q)
      BY <1>0, <2>1, <2>2, <2>3, LoadMoves, OwnersKept
    <2>4. CASE CheckStarted(q)
      BY <1>0, <2>1, <2>2, <2>4, CheckMoves, OwnersKept
    <2>5. CASE LockReset(q) /\ ~ResetHeld(req[q].held)
      BY <1>0, <2>1, <2>2, <2>5, LockMoves, OwnersKept
    <2>6. CASE LockReset(q) /\ ResetHeld(req[q].held)
      <3>1. UNCHANGED req
        BY <2>6 DEF LockReset
      <3> QED BY <2>1, <3>1, OwnersStay
    <2> QED BY <1>8, <2>3, <2>4, <2>5, <2>6
  <1>9. ASSUME NEW q \in Handlers,
               \/ ResetComplete(q) \/ SpawnSender(q) \/ EnqueueLinkStatus(q) \/ HandedOff(q)
               \/ SpawnBackground(q) \/ SpawnRun(q) \/ StoreForwarder(q)
        PROVE Safe'
    <2>1. UNCHANGED <<stack, made, started, orderly, crashed>>
      BY <1>9 DEF ResetComplete, SpawnSender, EnqueueLinkStatus, HandedOff, SpawnBackground, SpawnRun,
         StoreForwarder, server, clients
    <2>2. {"program", "linkStatus", "handoff", "background", "run", "forward", "publish"} \cap Owning = {}
      BY DEF Owning
    <2> QED BY <1>0, <1>9, <2>1, <2>2, StepsMove, OwnersKept
  <1>10. ASSUME NEW q \in Handlers, CaptureSubscribes(q) PROVE Safe'
    <2>1. UNCHANGED <<stack, made, started, req, orderly, crashed>>
      BY <1>10 DEF CaptureSubscribes, server, clients
    <2> QED BY <1>0, <2>1, OwnersStay
  <1>11. ASSUME NEW t \in alive, Runs(t) PROVE Safe'
    <2>1. UNCHANGED <<stack, made, started, req, orderly>> /\ crashed' \in BOOLEAN
      BY <1>0, <1>11 DEF Runs, TaskPolled, TaskStops, StreamEnds, server, clients
    <2> QED BY <2>1, OwnersStay
  <1> QED BY <1>1, <1>2, <1>3, <1>4, <1>5, <1>6, <1>7, <1>8, <1>9, <1>10, <1>11
          DEF Next, Handles, Teardown, Configures, Starts

-----------------------------------------------------------------------------
(* The steps, while the clients wait for their answers *)

Alone(q) == \A p \in Handlers \ {q} : req[p].at = "idle"

\* A handler that is not idle is the only one.
LEMMA AloneInFlight ==
    ASSUME OrderlyInv, NEW q \in Handlers, req[q].at # "idle"
    PROVE  Alone(q) /\ (req[q].at \in Resting => \A p \in Handlers : req[p].at \in Resting)
  BY DEF OrderlyInv, Solo, Alone, Resting

\* ... and its step need only show what holds where it comes to.
LEMMA Assemble ==
    ASSUME NEW q \in Handlers, NEW at, NEW held, Alone(q), Moves(q, at, held), at # "capture", ~crashed',
           (rxOwner = made /\ resetOwner = made /\ subscribing = {})',
           TasksInv', NotifiedInv', RestInv', TeardownInv(q)', StartInv(q)'
    PROVE  OrderlyInv'
  <1>1. \A p \in Handlers \ {q} : req'[p].at = "idle"
    BY DEF Alone, Moves
  <1>2. Solo'
    BY <1>1 DEF Solo
  <1>3. \A p \in Handlers \ {q} : TeardownInv(p)'
    BY <1>1 DEF TeardownInv
  <1>4. \A p \in Handlers \ {q} : StartInv(p)'
    BY <1>1 DEF StartInv, Starting
  <1>5. \A p \in Handlers : req'[p].at # "capture"
    BY <1>1 DEF Moves
  <1> QED BY <1>2, <1>3, <1>4, <1>5 DEF OrderlyInv

\* A step that leaves the tasks and the radio alone.
LEMMA Quiet ==
    ASSUME OrderlyInv, UNCHANGED <<made, tasks, radio, crashed>>
    PROVE  /\ TasksInv'
           /\ (rxOwner = made /\ resetOwner = made /\ subscribing = {})'
           /\ ~crashed'
  BY DEF OrderlyInv, Solo, TasksInv, tasks, radio

\* ... nor stores a stack.
LEMMA StillNotified ==
    ASSUME OrderlyInv, NEW q \in Handlers, NEW at, NEW held, Moves(q, at, held), at # "store", Alone(q),
           stack' = stack \/ stack' = None, UNCHANGED <<made, notified>>
    PROVE  NotifiedInv'
  <1>1. \A p \in Handlers : req'[p].at # "store"
    BY DEF Moves, Alone
  <1> QED BY <1>1 DEF OrderlyInv, NotifiedInv

\* A handler in the middle of its request is at no resting place.
LEMMA NotAtRest ==
    ASSUME OrderlyInv, NEW q \in Handlers, NEW at, NEW held, Moves(q, at, held), at \notin Resting,
           stack' \in {None, made'}
    PROVE  RestInv'
  BY DEF Moves, RestInv

LEMMA RequestOrderly ==
    ASSUME LifecycleInv, orderly', NEW q \in Handlers, NEW kind \in Kinds, Request(q, kind)
    PROVE  OrderlyInv'
  <1>1. orderly /\ OrderlyInv /\ LifecycleTypes /\ kind # "capture" /\ \A p \in Handlers : req[p].at = "idle"
    BY DEF LifecycleInv, Request, At
  <1>2. PICK at \in {"take", "load"} : Moves(q, at, None)
    BY <1>1, RequestMoves
  <1>3. UNCHANGED <<stack, started, forwarder, forwarding, made, tasks, radio, crashed>>
    BY DEF Request, server
  <1>4. Alone(q)
    BY <1>1 DEF Alone
  <1>5. NotifiedInv'
    BY <1>1, <1>2, <1>3, <1>4, StillNotified DEF tasks
  <1>6. IF started THEN Running ELSE Stopped
    BY <1>1 DEF OrderlyInv, RestInv, Resting
  <1>7. (IF started THEN Running ELSE Stopped)'
    BY <1>3, <1>6 DEF Running, Stopped, Names, tasks
  <1>8. RestInv'
    BY <1>1, <1>3, <1>7 DEF OrderlyInv, RestInv
  <1>9. TeardownInv(q)' /\ StartInv(q)'
    BY <1>2 DEF Moves, TeardownInv, StartInv, Starting
  <1> QED BY <1>1, <1>2, <1>3, <1>4, <1>5, <1>8, <1>9, Quiet, Assemble

LEMMA TakeStackOrderly ==
    ASSUME Safe, OrderlyInv, NEW q \in Handlers, TakeStack(q)
    PROVE  OrderlyInv'
  <1> DEFINE at == IF stack = None THEN "forwarder" ELSE "cancel"
  <1>1. Moves(q, at, stack)
    BY TakeStackSafe
  <1>2. stack' = None /\ UNCHANGED <<started, forwarder, forwarding, made, tasks, radio, crashed>>
    BY DEF TakeStack, clients
  <1>3. Alone(q) /\ (IF started THEN Running ELSE Stopped)
    BY AloneInFlight DEF TakeStack, At, Resting, OrderlyInv, RestInv
  <1>4. NotifiedInv'
    BY <1>1, <1>2, <1>3, StillNotified DEF tasks
  <1>5. RestInv'
    BY <1>1, <1>2, NotAtRest DEF Resting
  <1>6. forwarding \subseteq {forwarder} /\ (stack = None => alive = {}) /\ stack \in {None, made}
    BY <1>3 DEF Running, Stopped, OrderlyInv, RestInv
  <1>7. TeardownInv(q)'
    BY <1>1, <1>2, <1>6 DEF Moves, TeardownInv, tasks
  <1>8. StartInv(q)'
    BY <1>1 DEF Moves, StartInv, Starting
  <1> QED BY <1>1, <1>2, <1>3, <1>4, <1>5, <1>7, <1>8, Quiet, Assemble

LEMMA CancelTasksOrderly ==
    ASSUME Safe, OrderlyInv, NEW q \in Handlers, CancelTasks(q)
    PROVE  OrderlyInv'
  <1>1. Moves(q, "drain", req[q].held)
    BY StepsMove DEF Safe
  <1>2. UNCHANGED <<stack, started, forwarder, forwarding, made, registered, alive, polled, radio, crashed>>
    BY DEF CancelTasks, server, clients
  <1>3. Alone(q) /\ stack = None /\ forwarding \subseteq {forwarder} /\ req[q].held = made
    BY AloneInFlight DEF CancelTasks, At, OrderlyInv, TeardownInv
  <1>4. NotifiedInv'
    <2>1. \A p \in Handlers : req'[p].at # "store"
      BY <1>1, <1>3 DEF Moves, Alone
    <2>2. made \in 0 .. made
      BY DEF Safe, LifecycleTypes
    <2>3. \A t \in notified' : t.stack \in 0 .. made
      BY <1>3, <2>2 DEF CancelTasks, TasksOf, OrderlyInv, NotifiedInv
    <2> QED BY <1>2, <1>3, <2>1, <2>3 DEF NotifiedInv
  <1>5. RestInv'
    BY <1>1, <1>2, <1>3, NotAtRest DEF Resting
  <1>6. TeardownInv(q)'
    BY <1>1, <1>2, <1>3 DEF Moves, TeardownInv
  <1>7. StartInv(q)'
    BY <1>1 DEF Moves, StartInv, Starting
  <1>8. TasksInv' /\ ~crashed' /\ (rxOwner = made /\ resetOwner = made /\ subscribing = {})'
    BY <1>2 DEF OrderlyInv, TasksInv, Solo, radio
  <1> QED BY <1>1, <1>3, <1>4, <1>5, <1>6, <1>7, <1>8, Assemble

LEMMA DrainedOrderly ==
    ASSUME Safe, OrderlyInv, NEW q \in Handlers, Drained(q)
    PROVE  OrderlyInv'
  <1>1. Moves(q, "abort", req[q].held)
    BY StepsMove DEF Safe
  <1>2. UNCHANGED <<stack, started, forwarder, forwarding, made, tasks, radio, crashed>>
    BY DEF Drained, server, clients
  <1>3. Alone(q) /\ stack = None /\ forwarding \subseteq {forwarder} /\ req[q].held = made
    BY AloneInFlight DEF Drained, At, OrderlyInv, TeardownInv
  <1>4. alive = {}
    BY <1>3 DEF Drained, TasksOf, OrderlyInv, TasksInv
  <1>5. NotifiedInv'
    BY <1>1, <1>2, <1>3, StillNotified DEF tasks
  <1>6. RestInv'
    BY <1>1, <1>2, <1>3, NotAtRest DEF Resting
  <1>7. TeardownInv(q)'
    BY <1>1, <1>2, <1>3, <1>4 DEF Moves, TeardownInv, tasks
  <1>8. StartInv(q)'
    BY <1>1 DEF Moves, StartInv, Starting
  <1> QED BY <1>1, <1>2, <1>3, <1>5, <1>6, <1>7, <1>8, Quiet, Assemble

LEMMA AbortTasksOrderly ==
    ASSUME Safe, OrderlyInv, NEW q \in Handlers, AbortTasks(q)
    PROVE  OrderlyInv'
  <1>1. Moves(q, "forwarder", req[q].held)
    BY AbortMoves DEF Safe
  <1>2. UNCHANGED <<stack, started, forwarder, forwarding, made, registered, notified, radio, crashed>>
    BY DEF AbortTasks, server, clients
  <1>3. /\ Alone(q) /\ stack = None /\ forwarding \subseteq {forwarder} /\ alive = {}
    BY AloneInFlight DEF AbortTasks, At, OrderlyInv, TeardownInv
  <1>4. alive' = {} /\ polled' = {} /\ registered' = {}
    BY <1>2, <1>3 DEF AbortTasks, OrderlyInv, TasksInv
  <1>5. NotifiedInv'
    BY <1>1, <1>2, <1>3, StillNotified
  <1>6. RestInv'
    BY <1>1, <1>2, <1>3, NotAtRest DEF Resting
  <1>7. TeardownInv(q)'
    BY <1>1, <1>2, <1>3, <1>4 DEF Moves, TeardownInv
  <1>8. StartInv(q)'
    BY <1>1 DEF Moves, StartInv, Starting
  <1>9. TasksInv' /\ ~crashed' /\ (rxOwner = made /\ resetOwner = made /\ subscribing = {})'
    BY <1>2, <1>4 DEF OrderlyInv, TasksInv, Solo, radio
  <1> QED BY <1>1, <1>3, <1>5, <1>6, <1>7, <1>8, <1>9, Assemble

LEMMA TakeForwarderOrderly ==
    ASSUME Safe, OrderlyInv, NEW q \in Handlers, TakeForwarder(q)
    PROVE  OrderlyInv'
  <1>1. Moves(q, "clear", req[q].held)
    BY StepsMove DEF Safe
  <1>2. UNCHANGED <<stack, started, made, tasks, radio, crashed>>
    BY DEF TakeForwarder, clients
  <1>3. Alone(q) /\ stack = None /\ forwarding \subseteq {forwarder} /\ alive = {}
    BY AloneInFlight DEF TakeForwarder, At, OrderlyInv, TeardownInv
  <1>4. Stopped'
    BY <1>2, <1>3 DEF TakeForwarder, Stopped, tasks
  <1>5. NotifiedInv'
    BY <1>1, <1>2, <1>3, StillNotified DEF tasks
  <1>6. RestInv'
    BY <1>1, <1>2, <1>3, NotAtRest DEF Resting
  <1>7. TeardownInv(q)'
    BY <1>1, <1>2, <1>3, <1>4 DEF Moves, TeardownInv
  <1>8. StartInv(q)'
    BY <1>1 DEF Moves, StartInv, Starting
  <1> QED BY <1>1, <1>2, <1>3, <1>5, <1>6, <1>7, <1>8, Quiet, Assemble

LEMMA ClearStartedOrderly ==
    ASSUME Safe, OrderlyInv, NEW q \in Handlers, ClearStarted(q)
    PROVE  OrderlyInv'
  <1>1. Moves(q, "phy", req[q].held)
    BY StepsMove DEF Safe
  <1>2. UNCHANGED <<stack, forwarder, forwarding, made, tasks, radio, crashed>> /\ ~started'
    BY DEF ClearStarted, clients
  <1>3. Alone(q) /\ stack = None /\ Stopped
    BY AloneInFlight DEF ClearStarted, At, OrderlyInv, TeardownInv
  <1>4. Stopped'
    BY <1>2, <1>3 DEF Stopped, tasks
  <1>5. NotifiedInv'
    BY <1>1, <1>2, <1>3, StillNotified DEF tasks
  <1>6. RestInv'
    BY <1>1, <1>2, <1>3, NotAtRest DEF Resting
  <1>7. TeardownInv(q)'
    BY <1>1, <1>2, <1>3, <1>4 DEF Moves, TeardownInv
  <1>8. StartInv(q)'
    BY <1>1 DEF Moves, StartInv, Starting
  <1> QED BY <1>1, <1>2, <1>3, <1>5, <1>6, <1>7, <1>8, Quiet, Assemble

\* A request is answered: the server is at rest, as started says.
LEMMA AnswerOrderly ==
    ASSUME OrderlyInv, NEW q \in Handlers, Alone(q), Moves(q, "idle", None),
           UNCHANGED <<stack, forwarder, forwarding, made, tasks, radio, crashed>>,
           IF started' THEN Running ELSE Stopped
    PROVE  OrderlyInv'
  <1>1. NotifiedInv'
    BY StillNotified DEF tasks
  <1>2. (IF started THEN Running ELSE Stopped)'
    BY DEF Running, Stopped, Names, tasks
  <1>3. RestInv'
    BY <1>2 DEF OrderlyInv, RestInv
  <1>4. TeardownInv(q)' /\ StartInv(q)'
    BY DEF Moves, TeardownInv, StartInv, Starting
  <1> QED BY <1>1, <1>3, <1>4, Quiet, Assemble

LEMMA AnswersOrderly ==
    ASSUME Safe, OrderlyInv, NEW q \in Handlers,
           \/ RadioRefuses(q) \/ ClearTable(q) \/ Configured(q) \/ StartFails(q) \/ Started(q) \/ CaptureAnswers(q)
    PROVE  OrderlyInv'
  <1>1. Moves(q, "idle", None)
    BY AnswersMove DEF Safe
  <1>2. req[q].at \in {"phy", "unstarted", "resetting", "program", "publish", "capture"}
    BY DEF RadioRefuses, ClearTable, Configured, StartFails, Started, CaptureAnswers, At
  <1>3. Alone(q) /\ req[q].at # "capture" /\ TeardownInv(q) /\ StartInv(q)
    BY <1>2, AloneInFlight DEF OrderlyInv
  <1>4. UNCHANGED <<stack, forwarder, forwarding, made, tasks, radio, crashed>>
    BY <1>3 DEF RadioRefuses, ClearTable, Configured, StartFails, Started, CaptureAnswers, At, server, clients
  <1>5. CASE Started(q)
    <2>1. stack # None /\ Names = TaskNames /\ forwarding = {forwarder} /\ forwarder.stack = stack
      BY <1>3, <1>5 DEF Started, At, StartInv, Starting, None
    <2>2. IF started' THEN Running ELSE Stopped
      BY <1>5, <2>1 DEF Started, Running
    <2> QED BY <1>1, <1>3, <1>4, <2>2, AnswerOrderly
  <1>6. CASE RadioRefuses(q) \/ ClearTable(q) \/ Configured(q)
    <2>1. Stopped /\ ~started'
      BY <1>3, <1>6 DEF RadioRefuses, ClearTable, Configured, At, TeardownInv, server
    <2> QED BY <1>1, <1>3, <1>4, <2>1, AnswerOrderly
  <1>7. CASE StartFails(q)
    <2>1. Stopped /\ ~started'
      BY <1>3, <1>7 DEF StartFails, At, StartInv, Starting, server, Stopped
    <2> QED BY <1>1, <1>3, <1>4, <2>1, AnswerOrderly
  <1> QED BY <1>3, <1>5, <1>6, <1>7 DEF CaptureAnswers, At

LEMMA NewStackOrderly ==
    ASSUME Safe, OrderlyInv, NEW q \in Handlers, NewStack(q)
    PROVE  OrderlyInv'
  <1>1. Moves(q, "store", made + 1)
    BY NewStackSafe
  <1>2. UNCHANGED <<stack, started, forwarder, forwarding, tasks, subscribing, crashed>>
    BY DEF NewStack, clients, server
  <1>3. made \in Nat /\ made' = made + 1 /\ rxOwner' = made + 1 /\ resetOwner' = made + 1
    BY DEF NewStack, SubscribeRx, SubscribeReset, Safe, LifecycleTypes
  <1>4. Alone(q) /\ stack = None /\ Stopped /\ ~started
    BY AloneInFlight DEF NewStack, At, OrderlyInv, TeardownInv
  <1>5. Stopped'
    BY <1>2, <1>4 DEF Stopped, tasks
  <1>6. \A t \in notified' : t.stack \in 0 .. made
    BY <1>2 DEF OrderlyInv, NotifiedInv, tasks
  <1>7. NotifiedInv'
    BY <1>3, <1>6 DEF NotifiedInv
  <1>8. RestInv'
    BY <1>1, <1>2, <1>4, NotAtRest DEF Resting
  <1>9. TeardownInv(q)'
    BY <1>1, <1>2, <1>3, <1>4, <1>5 DEF Moves, TeardownInv
  <1>10. StartInv(q)'
    BY <1>1 DEF Moves, StartInv, Starting
  <1>11. registered' = {} /\ alive' = {} /\ polled' = {}
    BY <1>2, <1>4 DEF Stopped, OrderlyInv, TasksInv, tasks
  <1>12. TasksInv' /\ ~crashed' /\ (rxOwner = made /\ resetOwner = made /\ subscribing = {})'
    BY <1>2, <1>3, <1>11 DEF OrderlyInv, TasksInv, Solo
  <1> QED BY <1>1, <1>4, <1>7, <1>8, <1>9, <1>10, <1>12, Assemble

LEMMA StoreStackOrderly ==
    ASSUME Safe, OrderlyInv, NEW q \in Handlers, StoreStack(q)
    PROVE  OrderlyInv'
  <1>1. Moves(q, "unstarted", req[q].held)
    BY StoreStackSafe
  <1>2. UNCHANGED <<started, forwarder, forwarding, made, tasks, radio, crashed>> /\ stack' = req[q].held
    BY DEF StoreStack, clients
  <1>3. Alone(q) /\ Stopped /\ ~started /\ req[q].held = made /\ made # 0 /\ req[q].at = "store"
    BY AloneInFlight DEF StoreStack, At, OrderlyInv, TeardownInv
  <1>4. Stopped'
    BY <1>2, <1>3 DEF Stopped, tasks
  <1>5. NotifiedInv'
    BY <1>2, <1>3 DEF OrderlyInv, NotifiedInv, tasks
  <1>6. RestInv'
    BY <1>1, <1>2, <1>3, NotAtRest DEF Resting
  <1>7. TeardownInv(q)'
    BY <1>1, <1>2, <1>3, <1>4 DEF Moves, TeardownInv
  <1>8. StartInv(q)'
    BY <1>1 DEF Moves, StartInv, Starting
  <1> QED BY <1>1, <1>2, <1>3, <1>5, <1>6, <1>7, <1>8, Quiet, Assemble

LEMMA LoadStackOrderly ==
    ASSUME Safe, OrderlyInv, NEW q \in Handlers, LoadStack(q)
    PROVE  OrderlyInv'
  <1>1. IF stack = None THEN Moves(q, "idle", None) ELSE Moves(q, "check", stack)
    BY LoadMoves DEF Safe
  <1>2. UNCHANGED <<stack, started, forwarder, forwarding, made, tasks, radio, crashed>>
    BY DEF LoadStack, server, clients
  <1>3. Alone(q) /\ (IF started THEN Running ELSE Stopped)
    BY AloneInFlight DEF LoadStack, At, Resting, OrderlyInv, RestInv
  <1>4. CASE stack = None
    BY <1>1, <1>2, <1>3, <1>4, AnswerOrderly
  <1>5. CASE stack # None
    <2>1. Moves(q, "check", stack)
      BY <1>1, <1>5
    <2>2. NotifiedInv'
      BY <1>2, <1>3, <2>1, StillNotified DEF tasks
    <2>3. (IF started THEN Running ELSE Stopped)'
      BY <1>2, <1>3 DEF Running, Stopped, Names, tasks
    <2>4. RestInv'
      BY <1>2, <2>3 DEF OrderlyInv, RestInv
    <2>5. TeardownInv(q)' /\ StartInv(q)'
      BY <1>2, <1>5, <2>1 DEF Moves, TeardownInv, StartInv, Starting
    <2> QED BY <1>2, <1>3, <2>1, <2>2, <2>4, <2>5, Quiet, Assemble
  <1> QED BY <1>4, <1>5

\* A step of start_network that changes no task.
LEMMA StartGoesOn ==
    ASSUME OrderlyInv, NEW q \in Handlers, NEW at \in Starting, Moves(q, at, req[q].held), Alone(q),
           UNCHANGED <<stack, started, forwarder, forwarding, made, tasks, radio, crashed>>,
           StartInv(q)'
    PROVE  OrderlyInv'
  <1>1. at \notin {"store", "capture"} /\ at \notin Resting /\ at # "forwarder"
    BY DEF Starting, Resting
  <1>2. NotifiedInv'
    BY <1>1, StillNotified DEF tasks
  <1>3. RestInv'
    BY <1>1, NotAtRest DEF OrderlyInv, RestInv
  <1>4. TeardownInv(q)'
    BY DEF Moves, TeardownInv, Starting
  <1> QED BY <1>1, <1>2, <1>3, <1>4, Quiet, Assemble

LEMMA CheckStartedOrderly ==
    ASSUME Safe, OrderlyInv, NEW q \in Handlers, CheckStarted(q)
    PROVE  OrderlyInv'
  <1>1. IF started THEN Moves(q, "idle", None) ELSE Moves(q, "lock", req[q].held)
    BY CheckMoves DEF Safe
  <1>2. UNCHANGED <<stack, started, forwarder, forwarding, made, tasks, radio, crashed>>
    BY DEF CheckStarted, server, clients
  <1>3. /\ Alone(q) /\ (IF started THEN Running ELSE Stopped)
        /\ req[q].held = stack /\ stack # None /\ stack = made
    BY AloneInFlight DEF CheckStarted, At, Resting, OrderlyInv, RestInv, StartInv
  <1>4. CASE started
    BY <1>1, <1>2, <1>3, <1>4, AnswerOrderly
  <1>5. CASE ~started
    <2>1. Moves(q, "lock", req[q].held) /\ "lock" \in Starting
      BY <1>1, <1>5 DEF Starting
    <2>2. alive = {} /\ forwarding = {}
      BY <1>3, <1>5 DEF Stopped
    <2>3. StartInv(q)'
      BY <1>2, <1>3, <1>5, <2>1, <2>2 DEF Moves, StartInv, None, tasks
    <2> QED BY <1>2, <1>3, <2>1, <2>3, StartGoesOn
  <1> QED BY <1>4, <1>5

LEMMA LockResetOrderly ==
    ASSUME Safe, OrderlyInv, NEW q \in Handlers, LockReset(q)
    PROVE  OrderlyInv'
  <1>1. Alone(q) /\ StartInv(q) /\ req[q].at = "lock" /\ alive = {}
    BY AloneInFlight DEF LockReset, At, OrderlyInv, StartInv
  <1>2. ~ResetHeld(req[q].held)
    BY <1>1 DEF ResetHeld, At, Alone, OrderlyInv, TasksInv
  <1>3. UNCHANGED <<stack, started, forwarder, forwarding, made, tasks, radio, crashed>>
    BY <1>2 DEF LockReset, server
  <1>4. Moves(q, "resetting", req[q].held) /\ "resetting" \in Starting
    BY <1>2, LockMoves DEF Safe, Starting
  <1>5. StartInv(q)'
    BY <1>1, <1>3, <1>4 DEF Moves, StartInv, Starting, tasks
  <1> QED BY <1>1, <1>3, <1>4, <1>5, StartGoesOn

LEMMA ResetCompleteOrderly ==
    ASSUME Safe, OrderlyInv, NEW q \in Handlers, ResetComplete(q)
    PROVE  OrderlyInv'
  <1>1. Alone(q) /\ StartInv(q) /\ req[q].at = "resetting"
    BY AloneInFlight DEF ResetComplete, At, OrderlyInv
  <1>2. UNCHANGED <<stack, started, forwarder, forwarding, made, tasks, radio, crashed>>
    BY DEF ResetComplete, server, clients
  <1>3. Moves(q, "program", req[q].held) /\ "program" \in Starting
    BY StepsMove DEF Safe, Starting
  <1>4. StartInv(q)'
    BY <1>1, <1>2, <1>3 DEF Moves, StartInv, Starting, tasks
  <1> QED BY <1>1, <1>2, <1>3, <1>4, StartGoesOn

LEMMA EnqueueLinkStatusOrderly ==
    ASSUME Safe, OrderlyInv, NEW q \in Handlers, EnqueueLinkStatus(q)
    PROVE  OrderlyInv'
  <1>1. Alone(q) /\ StartInv(q) /\ req[q].at = "linkStatus"
    BY AloneInFlight DEF EnqueueLinkStatus, At, OrderlyInv
  <1>2. UNCHANGED <<stack, started, forwarder, forwarding, made, tasks, radio, crashed>>
    BY DEF EnqueueLinkStatus, server, clients
  <1>3. Moves(q, "handoff", req[q].held) /\ "handoff" \in Starting
    BY StepsMove DEF Safe, Starting
  <1>4. StartInv(q)'
    BY <1>1, <1>2, <1>3 DEF Moves, StartInv, Starting, Names, tasks
  <1> QED BY <1>1, <1>2, <1>3, <1>4, StartGoesOn

LEMMA HandedOffOrderly ==
    ASSUME Safe, OrderlyInv, NEW q \in Handlers, HandedOff(q)
    PROVE  OrderlyInv'
  <1>1. Alone(q) /\ StartInv(q) /\ req[q].at = "handoff"
    BY AloneInFlight DEF HandedOff, At, OrderlyInv
  <1>2. UNCHANGED <<stack, started, forwarder, forwarding, made, tasks, radio, crashed>>
    BY DEF HandedOff, server, clients
  <1>3. Moves(q, "background", req[q].held) /\ "background" \in Starting
    BY StepsMove DEF Safe, Starting
  <1>4. StartInv(q)'
    BY <1>1, <1>2, <1>3 DEF Moves, StartInv, Starting, Names, tasks
  <1> QED BY <1>1, <1>2, <1>3, <1>4, StartGoesOn

\* New tasks of names not alive yet.
LEMMA SpawnTasks ==
    ASSUME TasksInv, NEW q \in Handlers, NEW names, Spawn(q, names), names \cap Names = {},
           req[q].held = made, made' = made
    PROVE  TasksInv' /\ Names' = Names \cup names /\ notified' = notified
  <1> DEFINE new == {Task(q, n) : n \in names}
  <1>1. \A t \in new : t.stack = made /\ t.name \in names /\ t = Task(q, t.name)
    BY DEF Task
  <1>2. \A n \in names : Task(q, n) \in new /\ Task(q, n).name = n
    BY DEF Task
  <1>3. registered' = registered \cup new /\ alive' = alive \cup new /\ polled' = polled /\ notified' = notified
    BY DEF Spawn
  <1> HIDE DEF new
  <1>4. \A t \in alive : t.name \in Names
    BY DEF Names
  <1>5. \A t, u \in alive' : t.name = u.name => t = u
    BY <1>1, <1>3, <1>4 DEF TasksInv
  <1>6. TasksInv'
    BY <1>1, <1>3, <1>5 DEF TasksInv
  <1>7. Names' = Names \cup names
    BY <1>1, <1>2, <1>3 DEF Names
  <1> QED BY <1>3, <1>6, <1>7

LEMMA SpawnOrderly ==
    ASSUME Safe, OrderlyInv, NEW q \in Handlers, SpawnSender(q) \/ SpawnBackground(q) \/ SpawnRun(q)
    PROVE  OrderlyInv'
  <1>1. req[q].at \in {"program", "background", "run"}
    BY DEF SpawnSender, SpawnBackground, SpawnRun, At
  <1>2. /\ Alone(q) /\ StartInv(q) /\ TasksInv
        /\ stack = made /\ req[q].held = made /\ made # 0 /\ ~started /\ forwarding = {}
    BY <1>1, AloneInFlight DEF OrderlyInv, StartInv, Starting
  <1>3. UNCHANGED <<stack, started, forwarder, forwarding, made, radio, crashed>>
    BY DEF SpawnSender, SpawnBackground, SpawnRun, server, clients
  <1>4. PICK at \in {"linkStatus", "run", "forward"} :
          /\ Moves(q, at, req[q].held)
          /\ TasksInv' /\ notified' = notified
          /\ at = "linkStatus" => Names' = {"sender"}
          /\ at = "run" => Names' = {"sender", "background", "recovery"}
          /\ at = "forward" => Names' = TaskNames
    <2>1. CASE SpawnSender(q)
      <3>1. Moves(q, "linkStatus", req[q].held) /\ Spawn(q, {"sender"})
        BY <2>1, StepsMove DEF Safe, SpawnSender
      <3>2. Names = {}
        BY <1>2, <2>1 DEF SpawnSender, At, StartInv, Names
      <3>3. TasksInv' /\ Names' = Names \cup {"sender"} /\ notified' = notified
        BY <1>2, <1>3, <3>1, <3>2, SpawnTasks
      <3>4. Names' = {"sender"}
        BY <3>2, <3>3
      <3> QED BY <3>1, <3>3, <3>4
    <2>2. CASE SpawnBackground(q)
      <3>1. Moves(q, "run", req[q].held) /\ Spawn(q, {"background", "recovery"})
        BY <2>2, StepsMove DEF Safe, SpawnBackground
      <3>2. Names = {"sender"}
        BY <1>2, <2>2 DEF SpawnBackground, At, StartInv
      <3>3. {"background", "recovery"} \cap Names = {}
        BY <3>2
      <3>4. TasksInv' /\ Names' = Names \cup {"background", "recovery"} /\ notified' = notified
        BY <1>2, <1>3, <3>1, <3>3, SpawnTasks
      <3>5. Names' = {"sender", "background", "recovery"}
        BY <3>2, <3>4
      <3> QED BY <3>1, <3>4, <3>5
    <2>3. CASE SpawnRun(q)
      <3>1. Moves(q, "forward", req[q].held) /\ Spawn(q, {"run"})
        BY <2>3, StepsMove DEF Safe, SpawnRun
      <3>2. Names = {"sender", "background", "recovery"}
        BY <1>2, <2>3 DEF SpawnRun, At, StartInv
      <3>3. {"run"} \cap Names = {}
        BY <3>2
      <3>4. TasksInv' /\ Names' = Names \cup {"run"} /\ notified' = notified
        BY <1>2, <1>3, <3>1, <3>3, SpawnTasks
      <3>5. Names' = TaskNames
        BY <3>2, <3>4 DEF TaskNames
      <3> QED BY <3>1, <3>4, <3>5
    <2> QED BY <2>1, <2>2, <2>3
  <1>5. NotifiedInv'
    BY <1>2, <1>3, <1>4, StillNotified
  <1>6. RestInv'
    BY <1>2, <1>3, <1>4, NotAtRest DEF Resting
  <1>7. TeardownInv(q)'
    BY <1>4 DEF Moves, TeardownInv
  <1>8. StartInv(q)'
    BY <1>2, <1>3, <1>4 DEF Moves, StartInv, Starting
  <1>9. ~crashed' /\ (rxOwner = made /\ resetOwner = made /\ subscribing = {})'
    BY <1>3 DEF OrderlyInv, Solo, radio
  <1> QED BY <1>2, <1>4, <1>5, <1>6, <1>7, <1>8, <1>9, Assemble

LEMMA StoreForwarderOrderly ==
    ASSUME Safe, OrderlyInv, NEW q \in Handlers, StoreForwarder(q)
    PROVE  OrderlyInv'
  <1>1. req[q].at = "forward"
    BY DEF StoreForwarder, At
  <1>2. /\ Alone(q) /\ stack = made /\ req[q].held = made /\ made # 0 /\ ~started /\ forwarding = {}
        /\ Names = TaskNames
    BY <1>1, AloneInFlight DEF OrderlyInv, StartInv, Starting
  <1>3. UNCHANGED <<stack, started, made, tasks, radio, crashed>>
    BY DEF StoreForwarder, clients
  <1>4. forwarding' = {forwarder'} /\ forwarder'.stack = made
    BY <1>2 DEF StoreForwarder
  <1>5. Moves(q, "publish", req[q].held)
    BY StepsMove DEF Safe
  <1>6. NotifiedInv'
    BY <1>2, <1>3, <1>5, StillNotified DEF tasks
  <1>7. RestInv'
    BY <1>2, <1>3, <1>5, NotAtRest DEF Resting
  <1>8. TeardownInv(q)'
    BY <1>5 DEF Moves, TeardownInv
  <1>9. StartInv(q)'
    BY <1>2, <1>3, <1>4, <1>5 DEF Moves, StartInv, Starting, Names, tasks
  <1> QED BY <1>2, <1>3, <1>5, <1>6, <1>7, <1>8, <1>9, Quiet, Assemble

\* A task's first poll finds the receiver it locks free.
LEMMA TaskPolledOrderly ==
    ASSUME OrderlyInv, NEW t \in alive, TaskPolled(t)
    PROVE  OrderlyInv'
  <1>1. ~(t.name = "recovery" /\ ResetHeld(t.stack))
    <2>1. \A p \in Handlers : req[p].at # "resetting"
      BY DEF OrderlyInv, StartInv
    <2>2. \A u \in polled : u.name # t.name
      BY DEF OrderlyInv, TasksInv, TaskPolled
    <2> QED BY <2>1, <2>2 DEF ResetHeld, At
  <1>2. ~(t.name = "run" /\ RxHeld(t.stack))
    BY DEF OrderlyInv, TasksInv, TaskPolled, RxHeld
  <1>3. /\ polled' = polled \cup {t} /\ ~crashed'
        /\ UNCHANGED <<stack, started, forwarder, forwarding, made, registered, notified, alive, radio, req>>
    BY <1>1, <1>2 DEF TaskPolled, OrderlyInv, server
  <1>4. Solo' /\ TasksInv' /\ NotifiedInv'
    BY <1>3 DEF OrderlyInv, Solo, TasksInv, NotifiedInv, radio
  <1>5. RestInv'
    BY <1>3 DEF OrderlyInv, RestInv, Running, Stopped, Names
  <1>6. \A q \in Handlers : TeardownInv(q)'
    BY <1>3 DEF OrderlyInv, TeardownInv, Stopped
  <1>7. \A q \in Handlers : StartInv(q)'
    BY <1>3 DEF OrderlyInv, StartInv, Names
  <1> QED BY <1>3, <1>4, <1>5, <1>6, <1>7 DEF OrderlyInv

\* Only the tasks of a stack that is torn down stop.
LEMMA TaskStopsOrderly ==
    ASSUME Safe, OrderlyInv, NEW t \in alive, TaskStops(t)
    PROVE  OrderlyInv'
  <1>1. t.stack = made /\ stack = None /\ \A q \in Handlers : req[q].at # "store"
    BY DEF OrderlyInv, TasksInv, TaskStops, NotifiedInv
  <1>2. ~\A q \in Handlers : req[q].at \in Resting
    BY <1>1 DEF OrderlyInv, RestInv, Running, Stopped
  <1>3. /\ UNCHANGED <<stack, started, forwarder, forwarding, made, notified, radio, req, crashed>>
        /\ alive' = alive \ {t} /\ polled' = polled \ {t} /\ registered' = registered \ {t}
    BY DEF TaskStops, server, clients
  <1>4. Solo' /\ TasksInv' /\ NotifiedInv'
    BY <1>3 DEF OrderlyInv, Solo, TasksInv, NotifiedInv, radio
  <1>5. RestInv'
    BY <1>2, <1>3 DEF OrderlyInv, RestInv
  <1>6. \A q \in Handlers : TeardownInv(q)'
    BY <1>3 DEF OrderlyInv, TeardownInv, Stopped
  <1>7. \A q \in Handlers : req[q].at \notin Starting
    BY <1>1 DEF OrderlyInv, StartInv, None
  <1>8. \A q \in Handlers : StartInv(q)'
    BY <1>3, <1>7 DEF OrderlyInv, StartInv, Starting
  <1> QED BY <1>3, <1>4, <1>5, <1>6, <1>8 DEF OrderlyInv

-----------------------------------------------------------------------------
LEMMA OrderlyStep ==
    ASSUME LifecycleInv, Next, orderly'
    PROVE  OrderlyInv'
  <1>1. ASSUME NEW q \in Handlers, NEW kind \in Kinds, Request(q, kind) PROVE OrderlyInv'
    BY <1>1, RequestOrderly
  <1>2. ASSUME NEW q \in Handlers, Handles(q) PROVE OrderlyInv'
    <2>1. orderly
      BY <1>2 DEF Handles, Teardown, Configures, Starts, TakeStack, CancelTasks, Drained, AbortTasks, TakeForwarder,
         ClearStarted, RadioRefuses, ClearTable, NewStack, StoreStack, Configured, LoadStack, CheckStarted,
         LockReset, StartFails, ResetComplete, SpawnSender, EnqueueLinkStatus, HandedOff, SpawnBackground,
         SpawnRun, StoreForwarder, Started, CaptureAnswers, clients
    <2>2. Safe /\ OrderlyInv
      BY <2>1 DEF LifecycleInv, Safe
    <2>3. CASE Teardown(q)
      BY <2>2, <2>3, TakeStackOrderly, CancelTasksOrderly, DrainedOrderly, AbortTasksOrderly,
         TakeForwarderOrderly, ClearStartedOrderly DEF Teardown
    <2>4. CASE Configures(q) \/ CaptureAnswers(q)
      BY <2>2, <2>4, AnswersOrderly, NewStackOrderly, StoreStackOrderly DEF Configures
    <2>5. CASE Starts(q)
      BY <2>2, <2>5, LoadStackOrderly, CheckStartedOrderly, LockResetOrderly, AnswersOrderly,
         ResetCompleteOrderly, SpawnOrderly, EnqueueLinkStatusOrderly, HandedOffOrderly,
         StoreForwarderOrderly DEF Starts
    <2> QED BY <1>2, <2>3, <2>4, <2>5 DEF Handles
  <1>3. ASSUME NEW q \in Handlers, CaptureSubscribes(q) PROVE OrderlyInv'
    BY <1>3 DEF CaptureSubscribes, LifecycleInv, OrderlyInv, Solo, clients
  <1>4. ASSUME NEW t \in alive, Runs(t) PROVE OrderlyInv'
    <2>1. orderly
      BY <1>4 DEF Runs, TaskPolled, TaskStops, StreamEnds, clients
    <2>2. Safe /\ OrderlyInv
      BY <2>1 DEF LifecycleInv, Safe
    <2>3. ~StreamEnds(t)
      BY <2>2 DEF StreamEnds, OrderlyInv, TasksInv, Solo
    <2> QED BY <1>4, <2>2, <2>3, TaskPolledOrderly, TaskStopsOrderly DEF Runs
  <1> QED BY <1>1, <1>2, <1>3, <1>4 DEF Next

LEMMA LifecycleInitial ==
    Init => LifecycleInv
  <1> SUFFICES ASSUME Init PROVE LifecycleInv
    OBVIOUS
  <1>1. Idle \in ReqType /\ Idle.at = "idle"
    BY DEF Idle, ReqType, Places, None
  <1>2. \A q \in Handlers : req[q] = Idle
    BY DEF Init
  <1>3. LifecycleTypes
    <2>1. stack \in 0 .. made /\ made \in Nat
      BY DEF Init, None
    <2>2. req \in [Handlers -> ReqType]
      <3>1. req = [q \in Handlers |-> Idle]
        BY DEF Init
      <3> QED BY <1>1, <3>1
    <2>3. started \in BOOLEAN /\ orderly \in BOOLEAN /\ crashed \in BOOLEAN
      BY DEF Init
    <2> QED BY <2>1, <2>2, <2>3 DEF LifecycleTypes
  <1>4. OwnersDiffer
    BY <1>1, <1>2 DEF OwnersDiffer, Owning
  <1>5. Solo /\ TasksInv /\ NotifiedInv
    BY <1>1, <1>2 DEF Init, Solo, TasksInv, NotifiedInv, None
  <1>6. RestInv
    BY DEF Init, RestInv, Stopped
  <1>7. \A q \in Handlers : req[q].at # "capture" /\ TeardownInv(q) /\ StartInv(q)
    BY <1>1, <1>2 DEF TeardownInv, StartInv, Starting
  <1> QED BY <1>3, <1>4, <1>5, <1>6, <1>7 DEF Init, LifecycleInv, OrderlyInv

LEMMA LifecycleStep ==
    LifecycleInv /\ [Next]_vars => LifecycleInv'
  <1> SUFFICES ASSUME LifecycleInv, [Next]_vars PROVE LifecycleInv'
    OBVIOUS
  <1>1. CASE Next
    BY <1>1, SafeStep, OrderlyStep DEF LifecycleInv, Safe
  <1>2. CASE UNCHANGED vars
    <2>1. LifecycleTypes' /\ OwnersDiffer'
      BY <1>2 DEF LifecycleInv, LifecycleTypes, OwnersDiffer, vars, server, tasks, radio, clients
    <2>2. ASSUME orderly' PROVE Solo' /\ TasksInv' /\ NotifiedInv' /\ RestInv' /\ ~crashed'
      BY <1>2, <2>2 DEF LifecycleInv, OrderlyInv, Solo, TasksInv, NotifiedInv, RestInv, Running, Stopped, Names,
         vars, server, tasks, radio, clients
    <2>3. ASSUME orderly', NEW q \in Handlers
          PROVE  req'[q].at # "capture" /\ TeardownInv(q)' /\ StartInv(q)'
      BY <1>2, <2>3 DEF LifecycleInv, OrderlyInv, TeardownInv, StartInv, Stopped, Names,
         vars, server, tasks, radio, clients
    <2> QED BY <2>1, <2>2, <2>3 DEF LifecycleInv, OrderlyInv
  <1> QED BY <1>1, <1>2

\* The invariant of the server: whatever the clients do, a stack that is torn down, or made
\* and not stored yet, is its handler's alone; while the clients wait for their answers, the
\* tasks, the streams of the radio, the forwarder and started agree with the place the one
\* handler in flight has come to.
THEOREM LifecycleInvariant == Spec => []LifecycleInv
  BY LifecycleInitial, LifecycleStep, PTL DEF Spec

\* However many requests of configure, shutdown and start race, no two of them ever run
\* ZigbeeStack::shutdown for the same stack, whose drain wakes a single waiter.
THEOREM TeardownsDiffer == Spec => []OneTeardownPerStack
  <1>1. LifecycleInv => OneTeardownPerStack
    BY DEF LifecycleInv, OwnersDiffer, Owning, OneTeardownPerStack
  <1> QED BY <1>1, LifecycleInvariant, PTL

\* For clients that wait for their answers, no task of a stack that was replaced outlives its
\* teardown: every task alive belongs to the stack that subscribed to the radio last.
THEOREM LastStackOnAir == Spec => []OneStackOnAir
  <1>1. LifecycleInv => OneStackOnAir
    BY DEF LifecycleInv, OrderlyInv, TasksInv, OneStackOnAir
  <1> QED BY <1>1, LifecycleInvariant, PTL

\* For clients that wait for their answers, started is truthful when nothing is in flight: the
\* current stack has all its tasks and the one forwarder, or there is no task and no forwarder.
THEOREM StartedIsTruthful == Spec => []StartedIsRunning
  <1>1. ASSUME LifecycleInv, InFlight = {}, orderly
        PROVE  IF started
               THEN /\ stack # None /\ {t.name : t \in TasksOf(stack, alive)} = TaskNames
                    /\ forwarding = {forwarder} /\ forwarder.stack = stack
               ELSE alive = {} /\ forwarding = {}
    <2>1. \A q \in Handlers : req[q].at \in Resting
      BY <1>1 DEF InFlight, At, Resting
    <2>2. IF started THEN Running ELSE Stopped
      BY <1>1, <2>1 DEF LifecycleInv, OrderlyInv, RestInv
    <2>3. stack # None => TasksOf(stack, alive) = alive
      BY <1>1 DEF LifecycleInv, OrderlyInv, RestInv, TasksInv, TasksOf
    <2> QED BY <2>2, <2>3 DEF Running, Stopped, Names
  <1>2. LifecycleInv => StartedIsRunning
    BY <1>1 DEF StartedIsRunning
  <1> QED BY <1>2, LifecycleInvariant, PTL

\* For clients that wait for their answers, no expect fails: the receiver reset_radio, recovery
\* and run lock is free, and no stream of a task that runs hangs up.
THEOREM ServerNeverPanics == Spec => []ServerSurvives
  <1>1. LifecycleInv => ServerSurvives
    BY DEF LifecycleInv, OrderlyInv, ServerSurvives
  <1> QED BY <1>1, LifecycleInvariant, PTL
=============================================================================
