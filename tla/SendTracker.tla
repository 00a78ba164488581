---------------------------- MODULE SendTracker ----------------------------
(***************************************************************************)
(* From verdicts to confirm frames: the SendTracker of ziggurat-protocol    *)
(* and the wake-and-sweep reactor around it, for one connection of the      *)
(* server or for the NCP.                                                   *)
(*                                                                          *)
(* The stack is SendContract: it writes the two verdicts of a slot in its   *)
(* own time, then notifies the wake that was registered on the slot when it *)
(* wrote, if any.  A request's handler admits the send, registers it and    *)
(* notifies; the reactor sweeps the table and queues the frames.            *)
(***************************************************************************)
EXTENDS Integers, Sequences

CONSTANTS
    RequestIds,       \* the request ids of the client
    MaxSends,         \* bound: the sends the client issues
    Requested,        \* the kinds of sends the client asks for
    Outcomes,         \* the verdicts the stack settles sends with on its own
    Depth,            \* the capacity of the outbound queue
    DropOldest        \* what a full queue does: drop its oldest frame (the NCP), or wait

VARIABLES
    slots,       \* per send: the verdicts written so far
    nextId,      \* the sends issued
    issued,      \* per send: its request id, the confirms it owes and its handler's progress
    watched,     \* the sends with a completion wake
    notifying,   \* the verdicts whose writer has still to notify the wake
    entries,     \* SendTracker.entries, by request id
    permit,      \* the permit stored in the shared wake
    sweeper,     \* the reactor: waiting, woken or emitting
    outbox,      \* per request id: the frames of the last sweep not queued yet
    outbound,    \* the outbound queue
    received,    \* per send: the confirms the client got
    cancelled    \* the sends the client was told were cancelled

Stack == INSTANCE SendContract WITH slots <- slots

Kinds  == {"UnicastNoAck", "UnicastApsAck", "Broadcast"}

ASSUME TrackerAssumption ==
    /\ MaxSends \in Nat /\ Requested \subseteq Kinds /\ Outcomes \subseteq Stack!Results
    /\ Depth \in Nat \ {0} /\ DropOldest \in BOOLEAN

client == <<nextId, issued, received, cancelled>>
vars   == <<slots, nextId, issued, watched, notifying, entries, permit, sweeper, outbox,
            outbound, received, cancelled>>

Sends  == 0 .. nextId - 1
NotYet == Stack!NotYet

Put(f, i, r) == [j \in DOMAIN f \cup {i} |-> IF j = i THEN r ELSE f[j]]

Init ==
    /\ Stack!Init
    /\ nextId = 0
    /\ issued = [i \in {} |-> 0]
    /\ watched = {} /\ notifying = {}
    /\ entries = [r \in {} |-> 0]
    /\ permit = FALSE /\ sweeper = "waiting"
    /\ outbox = [r \in RequestIds |-> <<>>]
    /\ outbound = <<>>
    /\ received = [i \in {} |-> <<>>]
    /\ cancelled = {}

-----------------------------------------------------------------------------
(* The client's requests *)

\* Whether a list of confirms is all that a send of this kind ever gets.
Complete(kind, confirms) ==
    /\ confirms # <<>>
    /\ kind = "UnicastApsAck" /\ Len(confirms) = 1 => confirms[1].status # "Ok"

\* A request handler hands a send to the stack.  The client reuses a request id only when
\* it got the last confirm of the send it last used it for.
Issue(r, kind) ==
    /\ nextId < MaxSends
    /\ \A i \in Sends : issued[i].request = r => Complete(issued[i].kind, received[i])
    /\ Stack!Admit({nextId})
    /\ nextId' = nextId + 1
    /\ issued' = Put(issued, nextId, [request |-> r, kind |-> kind, at |-> "admitted"])
    /\ received' = Put(received, nextId, <<>>)
    /\ UNCHANGED <<watched, notifying, entries, permit, sweeper, outbox, outbound, cancelled>>

\* SendTracker::insert, under the tracker's lock.
Insert(i) ==
    /\ i \in Sends /\ issued[i].at = "admitted"
    /\ watched' = watched \cup {i}
    /\ entries' = Put(entries, issued[i].request,
                      [send |-> i, kind |-> issued[i].kind, sendConfirmed |-> FALSE])
    /\ issued' = [issued EXCEPT ![i].at = "inserted"]
    /\ UNCHANGED <<slots, nextId, notifying, permit, sweeper, outbox, outbound, received, cancelled>>

BugNoSelfNotify(i) ==
    /\ i \in Sends /\ issued[i].at = "inserted"
    /\ issued' = [issued EXCEPT ![i].at = "tracked"]
    /\ UNCHANGED <<slots, nextId, watched, notifying, entries, permit, sweeper, outbox, outbound,
                   received, cancelled>>

\* register_send notifies once: the slot may have resolved before the wake was set.
SelfNotify(i) ==
    /\ i \in Sends /\ issued[i].at = "inserted"
    /\ permit' = TRUE
    /\ issued' = [issued EXCEPT ![i].at = "tracked"]
    /\ UNCHANGED <<slots, nextId, watched, notifying, entries, sweeper, outbox, outbound, received,
                   cancelled>>

-----------------------------------------------------------------------------
(* The stack *)

\* Whoever writes a verdict notifies the wake it found on the slot.
Wrote(i, stage) ==
    /\ notifying' = IF i \in watched THEN notifying \cup {<<i, stage>>} ELSE notifying
    /\ UNCHANGED <<nextId, issued, watched, entries, permit, sweeper, outbox, outbound, received>>

HandsOff(i) == Stack!HandOff(i) /\ Wrote(i, "handedOff") /\ UNCHANGED cancelled

Settles(i, result) == Stack!Settle(i, result) /\ Wrote(i, "delivered") /\ UNCHANGED cancelled

Notifies(n) ==
    /\ n \in notifying
    /\ notifying' = notifying \ {n}
    /\ permit' = TRUE
    /\ UNCHANGED <<slots, watched, entries, sweeper, outbox, outbound, client>>

BugCancelUnchecked(r) ==
    /\ r \in DOMAIN entries
    /\ cancelled' = cancelled \cup {entries[r].send}
    /\ UNCHANGED <<slots, nextId, issued, watched, notifying, entries, permit, sweeper, outbox,
                   outbound, received>>

\* cancel_request that succeeds: the tracker, locked, names the send and the stack settles
\* it.  One that finds no entry, or a send in the radio or settled, changes nothing.
CancelRequest(r) ==
    /\ r \in DOMAIN entries
    /\ Stack!Settle(entries[r].send, "Cancelled")
    /\ Wrote(entries[r].send, "delivered")
    /\ cancelled' = cancelled \cup {entries[r].send}

-----------------------------------------------------------------------------
(* The reactor *)

Confirm(i, frame, status) == [send |-> i, frame |-> frame, status |-> status]

\* What sweep owes an entry: the SendConfirm of an acked unicast as soon as it is handed
\* off, its ApsAckConfirm unless the handoff failed; any other send one frame at the end.
HandoffFrames(e) ==
    IF e.kind = "UnicastApsAck" /\ ~e.sendConfirmed /\ slots[e.send].handedOff # NotYet
    THEN <<Confirm(e.send, "SendConfirm", slots[e.send].handedOff)>> ELSE <<>>
FailedNow(e) == HandoffFrames(e) # <<>> /\ slots[e.send].handedOff # "Ok"
BugSendConfirmedNow(e) == e.sendConfirmed
SendConfirmedNow(e) == e.sendConfirmed \/ HandoffFrames(e) # <<>>
FinalFrame(kind) ==
    CASE kind = "UnicastNoAck" -> "SendConfirm"
      [] kind = "UnicastApsAck" -> "ApsAckConfirm"
      [] kind = "Broadcast" -> "BroadcastConfirm"
FinalFrames(e) ==
    IF /\ slots[e.send].delivered # NotYet
       /\ e.kind = "UnicastApsAck" => SendConfirmedNow(e) /\ ~FailedNow(e)
    THEN <<Confirm(e.send, FinalFrame(e.kind), slots[e.send].delivered)>> ELSE <<>>
Owes(e) == HandoffFrames(e) \o FinalFrames(e)
Done(e) == FailedNow(e) \/ FinalFrames(e) # <<>>

Wakes ==
    /\ sweeper = "waiting" /\ permit
    /\ permit' = FALSE /\ sweeper' = "woken"
    /\ UNCHANGED <<slots, watched, notifying, entries, outbox, outbound, client>>

\* SendTracker::sweep.  Frames of different requests are queued in any order.
Sweep ==
    LET left == {r \in DOMAIN entries : ~Done(entries[r])} IN
    /\ sweeper = "woken"
    /\ outbox' = [r \in RequestIds |-> IF r \in DOMAIN entries THEN Owes(entries[r]) ELSE <<>>]
    /\ entries' = [r \in left |->
                      [entries[r] EXCEPT !.sendConfirmed = SendConfirmedNow(entries[r])]]
    /\ sweeper' = "emitting"
    /\ UNCHANGED <<slots, watched, notifying, permit, outbound, client>>

\* push_outbound of the NCP: when the queue is full its oldest frame makes room.
Pushed(queue, frame) == Append(IF Len(queue) < Depth THEN queue ELSE Tail(queue), frame)

\* The server waits for room in the queue instead.
Emit(r) ==
    /\ sweeper = "emitting" /\ outbox[r] # <<>>
    /\ Len(outbound) < Depth \/ DropOldest
    /\ outbound' = Pushed(outbound, Head(outbox[r]))
    /\ outbox' = [outbox EXCEPT ![r] = Tail(@)]
    /\ UNCHANGED <<slots, watched, notifying, entries, permit, sweeper, client>>

Rests ==
    /\ sweeper = "emitting" /\ \A r \in RequestIds : outbox[r] = <<>>
    /\ sweeper' = "waiting"
    /\ UNCHANGED <<slots, watched, notifying, entries, permit, outbox, outbound, client>>

\* The connection's writer, and the client at the other end.
Delivers ==
    /\ outbound # <<>>
    /\ received' = [received EXCEPT ![Head(outbound).send] = Append(@, Head(outbound))]
    /\ outbound' = Tail(outbound)
    /\ UNCHANGED <<slots, nextId, issued, watched, notifying, entries, permit, sweeper, outbox,
                   cancelled>>

-----------------------------------------------------------------------------
Handles(i) == Insert(i) \/ SelfNotify(i)
Resolves(i) == HandsOff(i) \/ \E result \in Outcomes : Settles(i, result)
Reacts == Wakes \/ Sweep \/ (\E r \in RequestIds : Emit(r)) \/ Rests

Next ==
    \/ \E r \in RequestIds, kind \in Requested : Issue(r, kind)
    \/ \E i \in Sends : Handles(i)
    \/ \E i \in Sends : Resolves(i)
    \/ \E n \in notifying : Notifies(n)
    \/ \E r \in RequestIds : CancelRequest(r)
    \/ Reacts
    \/ Delivers

Spec == Init /\ [][Next]_vars

\* Handlers run to their end, the stack settles every send (EverySendSettles of Sends) and
\* notifies, the reactor runs when woken and the client reads what it is sent.
Fairness ==
    /\ \A i \in 0 .. MaxSends - 1 : WF_vars(Handles(i))
    /\ \A i \in 0 .. MaxSends - 1 : WF_vars(\E result \in Outcomes : Settles(i, result))
    /\ \A i \in 0 .. MaxSends - 1, stage \in {"handedOff", "delivered"} : WF_vars(Notifies(<<i, stage>>))
    /\ WF_vars(Reacts) /\ WF_vars(Delivers)

FairSpec == Spec /\ Fairness

-----------------------------------------------------------------------------
(* Properties *)

ConfirmFrame == [send : Nat, frame : {"SendConfirm", "ApsAckConfirm", "BroadcastConfirm"},
                 status : Stack!Results]
Verdict == Stack!Results \cup {NotYet}

Entry == [send : Sends, kind : Kinds, sendConfirmed : BOOLEAN]

TrackerOK ==
    /\ nextId \in Nat
    /\ slots \in [Sends -> [handedOff : Verdict, delivered : Verdict]]
    /\ issued \in [Sends -> [request : RequestIds, kind : Kinds,
                             at : {"admitted", "inserted", "tracked"}]]
    /\ watched \subseteq Sends
    /\ notifying \subseteq Sends \X {"handedOff", "delivered"}
    /\ DOMAIN entries \subseteq RequestIds
    /\ entries \in [DOMAIN entries -> Entry]
    /\ permit \in BOOLEAN /\ sweeper \in {"waiting", "woken", "emitting"}
    /\ cancelled \subseteq Sends

FramesOK ==
    /\ outbox \in [RequestIds -> Seq(ConfirmFrame)]
    /\ outbound \in Seq(ConfirmFrame)
    /\ \A k \in 1 .. Len(outbound) : outbound[k].send \in Sends
    /\ \A r \in RequestIds : \A k \in 1 .. Len(outbox[r]) : outbox[r][k].send \in Sends
    /\ received \in [Sends -> Seq(ConfirmFrame)]

\* Every frame on its way is a confirm of a send that was issued and carries a verdict,
\* never the status of a slot that is not resolved.
TypeOK == TrackerOK /\ FramesOK

\* The frames on their way to a send's client, in the order it gets them: received, queued
\* and swept.
OnTheWay(i) == received[i] \o outbound \o outbox[issued[i].request]

\* The confirms of send i among the frames q are some of those of s, in their order and none
\* twice; they are those of s.
Draws(q, i, s) ==
    /\ \A p \in DOMAIN q : q[p].send = i => \E k \in DOMAIN s : q[p] = s[k]
    /\ \A p1, p2 \in DOMAIN q, k1, k2 \in DOMAIN s :
          q[p1] = s[k1] /\ q[p2] = s[k2] /\ p1 < p2 => k1 < k2
Lists(q, i, s) == Draws(q, i, s) /\ \A k \in DOMAIN s : \E p \in DOMAIN q : q[p] = s[k]

\* What the verdicts written so far entitle a send's client to, in order.
Entitled(i) ==
    LET s == slots[i] IN
    IF issued[i].kind = "UnicastApsAck"
    THEN (IF s.handedOff = NotYet THEN <<>> ELSE <<Confirm(i, "SendConfirm", s.handedOff)>>)
         \o (IF s.delivered = NotYet \/ s.handedOff # "Ok" THEN <<>>
             ELSE <<Confirm(i, "ApsAckConfirm", s.delivered)>>)
    ELSE IF s.delivered = NotYet THEN <<>>
         ELSE <<Confirm(i, FinalFrame(issued[i].kind), s.delivered)>>

\* Every send's confirms reach the client exactly once, in order and with the verdicts of
\* its slot, however the sweeps coalesce the wakes; a failed handoff ends them.
ConfirmsExact ==
    \A i \in Sends : \E n \in 0 .. Len(Entitled(i)) :
       Lists(OnTheWay(i), i, SubSeq(Entitled(i), 1, n))

\* The reactor never rests while an entry owes a frame, unless a wake is on its way: a
\* verdict written before the wake was registered is not missed.
NoConfirmForgotten ==
    /\ sweeper # "woken" /\ ~permit /\ notifying = {}
    /\ \A i \in Sends : issued[i].at # "inserted"
    => \A r \in DOMAIN entries : Owes(entries[r]) = <<>>

\* A client that was told its send is cancelled gets no other final status, whatever the
\* stack and the reactor were doing when the cancel came in.
CancelIsFinal ==
    \A i \in cancelled :
       Complete(issued[i].kind, received[i]) => received[i][Len(received[i])].status = "Cancelled"

\* Every tracked send's client gets its last confirm.
EverySendConfirmed ==
    \A i \in 0 .. MaxSends - 1 :
       (nextId > i) ~> (i \in DOMAIN received /\ Complete(issued[i].kind, received[i]))
=============================================================================
