------------------------------- MODULE Radio -------------------------------
(***************************************************************************)
(* What the radio co-processor (RCP) is programmed with, and the tasks that *)
(* program it while the stack runs: the recovery task after a reset, the    *)
(* sync of the source-match table, and the requests that retune the radio   *)
(* (set_channel, network scan, energy scan).  reconfigure, set_channel and  *)
(* the scans take the client's exclusive lock, the source-match writes and  *)
(* the end of an energy scan do not.                                        *)
(*                                                                          *)
(* A command to the RCP and its answer are one step.  The RCP takes         *)
(* commands in order, so one that times out has either been carried out     *)
(* before every later one or not at all.  The model starts where            *)
(* start_network has programmed the radio.                                  *)
(***************************************************************************)
EXTENDS Integers, FiniteSets

CONSTANTS
    Channels,        \* the channels in use
    Configured,      \* the one the network was configured with
    Short, Extended, \* the addresses sleepy children poll under
    Handlers,        \* request handlers
    Requests,        \* the requests the client makes
    Pipelined,       \* whether a request may be sent while another is in flight
    ResetQueue,      \* how many reset notifications are queued before one is dropped
    MaxRequests,     \* bound: the requests the client makes
    MaxChanges,      \* bound: the changes of the set of devices with frames queued
    MaxResets,       \* bound: the resets of the RCP
    MaxFaults        \* bound: the commands the RCP leaves unanswered

Addresses == Short \cup Extended
Wiped     == 0
Free      == "free"
Tasks     == {"recovery", "sync"} \cup Handlers

ASSUME RadioAssumption ==
    /\ Channels \subseteq Nat \ {Wiped} /\ Configured \in Channels
    /\ Handlers \cap {"recovery", "sync", Free} = {}
    /\ Requests \subseteq {"setChannel", "scan", "energy"} /\ Pipelined \in BOOLEAN
    /\ ResetQueue \in Nat \ {0} /\ MaxRequests \in Nat /\ MaxChanges \in Nat /\ MaxResets \in Nat /\ MaxFaults \in Nat

VARIABLES
    rcp,          \* the radio: its channel, its source-match table, whether it has the rest
    home,         \* SpinelPhy.home_channel
    mac,          \* core.mac.channel
    wanted,       \* the addresses with a frame awaiting their poll
    written,      \* src_match_written
    notifying,    \* a change of wanted whose src_match_sync is still to be notified
    permit,       \* the permit stored in src_match_sync
    resets,       \* the reset notifications queued for the recovery task
    timeouts,     \* SpinelClient.consecutive_timeouts
    lock,         \* who holds SpinelClient.exclusive_lock
    energyLock,   \* who holds SpinelPhy.energy_rx
    task,         \* per task: what it does, where it is and what it has read
    bounds,       \* what the bounds count
    raced,        \* history: two tasks retuned the radio at the same time
    overlapped,   \* history: two tasks wrote the source-match table at the same time
    failed        \* history: a command of a task that does not retry failed

state  == <<home, mac, wanted, written, notifying, permit>>
locks  == <<lock, energyLock>>
link   == <<rcp, resets, timeouts>>
vars   == <<state, link, locks, task, bounds, raced, overlapped, failed>>

MaxConsecutiveTimeouts == 4
Idle == [doing |-> "none", at |-> "idle", channels |-> {}, channel |-> Wiped, table |-> {}]

Init ==
    /\ mac = Configured /\ home = Configured
    /\ rcp = [channel |-> Configured, table |-> {}, programmed |-> TRUE]
    /\ wanted = {} /\ written = {} /\ notifying = FALSE /\ permit = FALSE
    /\ resets = 0 /\ timeouts = 0
    /\ lock = Free /\ energyLock = Free
    /\ task = [p \in Tasks |-> Idle]
    /\ bounds = [requests |-> 0, changes |-> 0, resets |-> 0, faults |-> 0]
    /\ raced = FALSE /\ overlapped = FALSE /\ failed = FALSE

-----------------------------------------------------------------------------
At(p, where) == task[p].at = where
Goto(p, where) == task' = [task EXCEPT ![p].at = where]
Done(p) == task' = [task EXCEPT ![p] = Idle]
Count(bound) == bounds' = [bounds EXCEPT ![bound] = @ + 1]

\* try_send: a full queue drops the event.
Announced(n) == IF n < ResetQueue THEN n + 1 ELSE n

\* The RCP answers a command: the row of timeouts ends.
Answered(new) ==
    /\ rcp' = new
    /\ timeouts' = 0
    /\ UNCHANGED <<resets, bounds>>

\* n tries of a command time out, the RCP having carried it out or not.
Unanswered(new, n) ==
    /\ bounds.faults < MaxFaults /\ Count("faults")
    /\ rcp' \in {rcp, new}
    /\ timeouts' = timeouts + n
    /\ UNCHANGED resets

-----------------------------------------------------------------------------
(* apply_radio_configuration and the task that repeats it until it succeeds *)

RecvReset ==
    /\ At("recovery", "idle") /\ resets > 0
    /\ resets' = resets - 1
    /\ task' = [task EXCEPT !["recovery"].at = "read", !["recovery"].doing = "recovery"]
    /\ UNCHANGED <<state, rcp, timeouts, locks, bounds, failed>>

\* The configuration and the table are read under the core lock, before the radio's.
ReadConfiguration ==
    /\ At("recovery", "read")
    /\ task' = [task EXCEPT !["recovery"].at = "lock", !["recovery"].channel = mac,
                            !["recovery"].table = wanted]
    /\ UNCHANGED <<state, link, locks, bounds, failed>>

LockRadio(p, next) ==
    /\ At(p, "lock") /\ lock = Free
    /\ lock' = p
    /\ Goto(p, next)
    /\ UNCHANGED <<state, link, energyLock, bounds, failed>>

\* Replace the addresses of one kind in the RCP's table.
Replaced(kind, table) == [rcp EXCEPT !.table = (@ \ kind) \cup (table \cap kind)]

\* What each command makes of the RCP; the ones of apply_config in their order.
Effect(p) ==
    CASE task[p].at \in {"channel", "restore", "goHome"} -> [rcp EXCEPT !.channel = task[p].channel]
      [] At(p, "rest") -> [rcp EXCEPT !.programmed = TRUE]
      [] At(p, "short") -> Replaced(Short, task[p].table)
      [] At(p, "extended") -> Replaced(Extended, task[p].table)
      [] OTHER -> rcp
After(p) ==
    CASE At(p, "channel") -> "rest" [] At(p, "rest") -> "short"
      [] At(p, "short") -> "extended" [] At(p, "extended") -> "store"

Configure ==
    /\ task["recovery"].at \in {"channel", "rest", "short"}
    /\ Answered(Effect("recovery"))
    /\ Goto("recovery", After("recovery"))
    /\ UNCHANGED <<state, locks, failed>>

Reconfigured ==
    /\ At("recovery", "extended")
    /\ Answered(Effect("recovery"))
    /\ home' = task["recovery"].channel
    /\ lock' = Free
    /\ Goto("recovery", "store")
    /\ UNCHANGED <<mac, wanted, written, notifying, permit, energyLock, failed>>

BugTableNotNoted ==
    /\ At("recovery", "store")
    /\ Done("recovery")
    /\ UNCHANGED <<state, link, locks, bounds, failed>>

NoteTable ==
    /\ At("recovery", "store")
    /\ written' = task["recovery"].table
    /\ Done("recovery")
    /\ UNCHANGED <<home, mac, wanted, notifying, permit, link, locks, bounds, failed>>

BugGivesUp ==
    /\ task["recovery"].at \in {"channel", "rest", "short", "extended"}
    /\ Unanswered(Effect("recovery"), 2)
    /\ lock' = Free
    /\ Done("recovery")
    /\ UNCHANGED <<state, energyLock, failed>>

\* A failed attempt is made again, from a fresh reading.
ConfigureFails ==
    /\ task["recovery"].at \in {"channel", "rest", "short", "extended"}
    /\ Unanswered(Effect("recovery"), 2)
    /\ lock' = Free
    /\ Goto("recovery", "read")
    /\ UNCHANGED <<state, energyLock, failed>>

-----------------------------------------------------------------------------
(* The source-match table *)

\* A mutation of the send tables changes the set of devices with frames queued ...
ChangeWanted(a) ==
    /\ bounds.changes < MaxChanges /\ Count("changes")
    /\ wanted' = IF a \in wanted THEN wanted \ {a} ELSE wanted \cup {a}
    /\ notifying' = TRUE
    /\ UNCHANGED <<home, mac, written, permit, link, locks, task, failed>>

\* ... and notifies the sync once the core is unlocked.
NotifySync ==
    /\ notifying
    /\ notifying' = FALSE /\ permit' = TRUE
    /\ UNCHANGED <<home, mac, wanted, written, link, locks, task, bounds, failed>>

SyncWakes ==
    /\ At("sync", "idle") /\ permit
    /\ permit' = FALSE
    /\ task' = [task EXCEPT !["sync"].at = "read", !["sync"].doing = "sync"]
    /\ UNCHANGED <<home, mac, wanted, written, notifying, link, locks, bounds, failed>>

ReadTable ==
    /\ At("sync", "read")
    /\ task' = [task EXCEPT !["sync"].at = "compare", !["sync"].table = wanted]
    /\ UNCHANGED <<state, link, locks, bounds, failed>>

CompareTable ==
    /\ At("sync", "compare")
    /\ IF written = task["sync"].table THEN Done("sync") ELSE Goto("sync", "short")
    /\ UNCHANGED <<state, link, locks, bounds, failed>>

WriteTable ==
    /\ task["sync"].at \in {"short", "extended"}
    /\ Answered(Effect("sync"))
    /\ Goto("sync", After("sync"))
    /\ UNCHANGED <<state, locks, failed>>

TableWritten ==
    /\ At("sync", "store")
    /\ written' = task["sync"].table
    /\ Done("sync")
    /\ UNCHANGED <<home, mac, wanted, notifying, permit, link, locks, bounds, failed>>

\* A failed write is not repeated.
WriteFails ==
    /\ task["sync"].at \in {"short", "extended"}
    /\ Unanswered(Effect("sync"), 2)
    /\ Done("sync")
    /\ failed' = TRUE
    /\ UNCHANGED <<state, locks>>

-----------------------------------------------------------------------------
(* Requests that retune the radio *)

\* The channels a request names: one, or the ones to scan.
Payloads(kind) ==
    {C \in SUBSET Channels : IF kind = "scan" THEN C # {} ELSE Cardinality(C) = 1}

Request(h, kind, C) ==
    /\ At(h, "idle") /\ bounds.requests < MaxRequests /\ Count("requests")
    /\ Pipelined \/ \A g \in Handlers : At(g, "idle")
    /\ task' = [task EXCEPT ![h] = [Idle EXCEPT !.doing = kind, !.at = "begin", !.channels = C]]
    /\ UNCHANGED <<state, link, locks, failed>>

\* A scan reads the channel to come back to before it takes the radio; an energy scan
\* takes the receiver of the results first.
Begin(h) ==
    /\ At(h, "begin")
    /\ task[h].doing = "energy" => energyLock = Free
    /\ energyLock' = IF task[h].doing = "energy" THEN h ELSE energyLock
    /\ task' = [task EXCEPT ![h].at = "lock",
                            ![h].channel = IF task[h].doing = "scan" THEN mac ELSE Wiped]
    /\ UNCHANGED <<state, link, lock, bounds, failed>>

Release(h) ==
    /\ lock' = IF lock = h THEN Free ELSE lock
    /\ energyLock' = IF energyLock = h THEN Free ELSE energyLock

\* A step of a request that fails ends it, whatever the RCP made of the command.
RequestFails(h, new, tries) ==
    /\ Unanswered(new, tries)
    /\ Release(h)
    /\ Done(h)
    /\ failed' = TRUE
    /\ UNCHANGED state

\* set_channel: retune, then record the channel once the radio is unlocked.
Retune(h, c) ==
    /\ At(h, "retune") /\ c \in task[h].channels
    /\ \/ /\ Answered([rcp EXCEPT !.channel = c])
          /\ home' = c
          /\ task' = [task EXCEPT ![h].at = "record", ![h].channel = c]
          /\ Release(h)
          /\ UNCHANGED <<mac, wanted, written, notifying, permit, failed>>
       \/ Answered(rcp) /\ Release(h) /\ Done(h) /\ UNCHANGED <<state, failed>>  \* rejected
       \/ RequestFails(h, [rcp EXCEPT !.channel = c], 2)

BugChannelNotRecorded(h) ==
    /\ At(h, "record")
    /\ Done(h)
    /\ UNCHANGED <<state, link, locks, bounds, failed>>

RecordChannel(h) ==
    /\ At(h, "record")
    /\ mac' = task[h].channel
    /\ Done(h)
    /\ UNCHANGED <<home, wanted, written, notifying, permit, link, locks, bounds, failed>>

\* The network scan's next channel: a channel the RCP refuses ends the sweep.
Sweep(h, c) ==
    /\ At(h, "sweep") /\ c \in task[h].channels
    /\ \/ /\ Answered([rcp EXCEPT !.channel = c])
          /\ home' = c
          /\ task' = [task EXCEPT ![h].at = "transmit", ![h].channels = @ \ {c}]
          /\ UNCHANGED <<mac, wanted, written, notifying, permit, locks, failed>>
       \/ Answered(rcp) /\ Goto(h, "restore") /\ UNCHANGED <<state, locks, failed>>
       \/ /\ Unanswered([rcp EXCEPT !.channel = c], 2)
          /\ Goto(h, "restore")
          /\ UNCHANGED <<state, locks, failed>>

\* The beacon request is transmitted on it; the sweep goes on, or ends.
Beacon(h) ==
    /\ At(h, "transmit")
    /\ \/ Answered(rcp) /\ Goto(h, IF task[h].channels = {} THEN "restore" ELSE "sweep")
       \/ Unanswered(rcp, 1) /\ Goto(h, "restore")
    /\ UNCHANGED <<state, locks, failed>>

\* The scan's own channel is set again before the radio is unlocked.
Restore(h) ==
    /\ At(h, "restore")
    /\ \/ /\ Answered([rcp EXCEPT !.channel = task[h].channel])
          /\ home' = task[h].channel
          /\ Release(h) /\ Done(h)
          /\ UNCHANGED <<mac, wanted, written, notifying, permit, failed>>
       \/ RequestFails(h, [rcp EXCEPT !.channel = task[h].channel], 2)

\* energy_detect: the scan leaves the RCP on its channel; a refused one does not start.
Detect(h, c) ==
    /\ At(h, "detect") /\ c \in task[h].channels
    /\ \/ /\ Answered([rcp EXCEPT !.channel = c])
          /\ lock' = Free
          /\ Goto(h, "home")
          /\ UNCHANGED <<state, energyLock, failed>>
       \/ Answered(rcp) /\ Release(h) /\ Done(h) /\ UNCHANGED <<state, failed>>
       \/ RequestFails(h, [rcp EXCEPT !.channel = c], 2)

\* It goes home after it has unlocked the radio.
ReadHome(h) ==
    /\ At(h, "home")
    /\ task' = [task EXCEPT ![h].at = "goHome", ![h].channel = home]
    /\ UNCHANGED <<state, link, locks, bounds, failed>>

GoHome(h) ==
    /\ At(h, "goHome")
    /\ \/ /\ Answered([rcp EXCEPT !.channel = task[h].channel])
          /\ Release(h) /\ Done(h)
          /\ UNCHANGED <<state, failed>>
       \/ RequestFails(h, [rcp EXCEPT !.channel = task[h].channel], 2)

FirstCommand(h) ==
    CASE task[h].doing = "setChannel" -> "retune"
      [] task[h].doing = "scan" -> "sweep"
      [] task[h].doing = "energy" -> "detect"

-----------------------------------------------------------------------------
(* The RCP resets, on its own or because a client asked for a hard reset *)

Commanding == {"channel", "rest", "short", "extended",
               "retune", "sweep", "transmit", "restore", "detect", "goHome"}

\* What becomes of a task whose command in flight is failed by a reset.
Interrupted(p) ==
    CASE p = "recovery" -> [task[p] EXCEPT !.at = "read"]
      [] task[p].at \in {"sweep", "transmit"} -> [task[p] EXCEPT !.at = "restore"]
      [] OTHER -> Idle

\* notify_reset fails every command in flight and tells the recovery task.
NotifyReset(S) ==
    /\ S \subseteq {p \in Tasks : task[p].at \in Commanding}
    /\ resets' = Announced(resets)
    /\ task' = [p \in Tasks |-> IF p \in S THEN Interrupted(p) ELSE task[p]]
    /\ lock' = IF lock \in S /\ task'[lock].at # "restore" THEN Free ELSE lock
    /\ energyLock' = IF energyLock \in S THEN Free ELSE energyLock
    /\ failed' = (failed \/ "sync" \in S)
    /\ UNCHANGED state

\* The RCP loses its configuration and announces it.
RadioResets(S) ==
    /\ bounds.resets < MaxResets /\ Count("resets")
    /\ rcp' = [channel |-> Wiped, table |-> {}, programmed |-> FALSE]
    /\ NotifyReset(S)
    /\ UNCHANGED timeouts

\* The RCP states a task's command in flight may lead to.
CarriedOut(p) ==
    IF task[p].at \in {"retune", "sweep", "detect"}
    THEN {[rcp EXCEPT !.channel = c] : c \in task[p].channels} ELSE {Effect(p)}

\* Timeouts in a row are taken for a reset the RCP has not announced: a command they fail
\* may have been the last one carried out.
PresumeReset(S) ==
    /\ timeouts >= MaxConsecutiveTimeouts
    /\ timeouts' = timeouts - MaxConsecutiveTimeouts
    /\ rcp' \in {rcp} \cup UNION {CarriedOut(p) : p \in S}
    /\ NotifyReset(S)
    /\ UNCHANGED bounds

-----------------------------------------------------------------------------
Recovers ==
    \/ RecvReset \/ ReadConfiguration \/ LockRadio("recovery", "channel") \/ Configure
    \/ Reconfigured \/ NoteTable \/ ConfigureFails

Syncs == SyncWakes \/ ReadTable \/ CompareTable \/ WriteTable \/ TableWritten \/ WriteFails

Handles(h) ==
    \/ Begin(h) \/ LockRadio(h, FirstCommand(h))
    \/ \E c \in Channels : Retune(h, c) \/ Sweep(h, c) \/ Detect(h, c)
    \/ RecordChannel(h) \/ Beacon(h) \/ Restore(h) \/ ReadHome(h) \/ GoHome(h)

Step ==
    \/ Recovers \/ Syncs
    \/ \E a \in Addresses : ChangeWanted(a)
    \/ NotifySync
    \/ \E h \in Handlers, kind \in Requests : \E C \in Payloads(kind) : Request(h, kind, C)
    \/ \E h \in Handlers : Handles(h)
    \/ \E S \in SUBSET Tasks : RadioResets(S)

\* Two tasks that set or restore the channel at once, unless each does all of it under the
\* radio's lock with a channel nobody changes.
Retuning(p, kinds) == task[p].doing \in kinds
Racing ==
    \E p, q \in Tasks :
       /\ p # q
       /\ \/ Retuning(p, {"setChannel"}) /\ Retuning(q, {"setChannel", "scan", "energy", "recovery"})
          \/ Retuning(p, {"energy"}) /\ Retuning(q, {"scan", "recovery"})
Overlapping == ~At("recovery", "idle") /\ ~At("sync", "idle")

\* The command whose timeout is one too many presumes the reset before anything else.
Next ==
    /\ IF timeouts >= MaxConsecutiveTimeouts THEN \E S \in SUBSET Tasks : PresumeReset(S) ELSE Step
    /\ raced' = (raced \/ Racing')
    /\ overlapped' = (overlapped \/ Overlapping')

Spec == Init /\ [][Next]_vars

\* The executor runs what is ready, and a command is answered or times out.
Fairness ==
    /\ \A S \in SUBSET Tasks : WF_vars(PresumeReset(S) /\ Next)
    /\ WF_vars(Recovers /\ Next) /\ WF_vars(Syncs /\ Next) /\ WF_vars(NotifySync /\ Next)
    /\ \A h \in Handlers : WF_vars(Handles(h) /\ Next)

FairSpec == Spec /\ Fairness

-----------------------------------------------------------------------------
(* Properties *)

Recovered == At("recovery", "idle") /\ resets = 0
Quiet == Recovered /\ ~permit /\ ~notifying /\ \A p \in Tasks : At(p, "idle")

\* "Subsequent resets and energy scans return to the new channel": when nothing is under
\* way, the radio is on the channel the stack believes it is on, as long as no request
\* failed and no two tasks retuned the radio at once.
ChannelAgrees ==
    Quiet /\ ~failed /\ ~raced => rcp.channel = mac /\ home = mac

\* src_match_written is what the RCP's table holds whenever no task is writing it and no
\* reset is unhandled, and at rest it is what is wanted: a device with a frame queued is
\* told to stay awake, as long as no write of the sync failed or met a recovery.
TableAgrees ==
    ~failed /\ ~overlapped =>
       /\ Recovered /\ At("sync", "idle") => written = rcp.table
       /\ Quiet => written = wanted

\* "A radio reset wipes all of this, so it must be re-applied after every reset": however
\* resets, failing commands and requests interleave, the RCP ends up programmed.
Reprogrammed == <>[](rcp.programmed /\ rcp.channel # Wiped)
=============================================================================
