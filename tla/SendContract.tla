---------------------------- MODULE SendContract ----------------------------
(***************************************************************************)
(* What the stack promises whoever holds a SendHandle                       *)
(* (ziggurat-driver/src/zigbee_stack/send_handle.rs): every admitted send   *)
(* has a slot with two verdicts.  The handoff is written once, before or    *)
(* together with the delivery; a failed handoff is also the delivery; a     *)
(* verdict is never taken back.                                             *)
(***************************************************************************)
EXTENDS Naturals

VARIABLE slots           \* per admitted send: the verdicts its waiter can read

NotYet   == "Unset"
Failures == {"HandoffTimeout", "ApsAckTimeout", "IndirectExpired", "RouteDiscoveryTimeout",
             "BroadcastQuorumNotReached", "Cancelled", "NwkNoAck"}
Results  == {"Ok"} \cup Failures

Open == [handedOff |-> NotYet, delivered |-> NotYet]

Init == slots = [i \in {} |-> Open]

\* Sends are admitted, one or several at once, each with an open slot.
Admit(S) ==
    /\ S # {} /\ S \cap DOMAIN slots = {}
    /\ slots' = [i \in DOMAIN slots \cup S |-> IF i \in S THEN Open ELSE slots[i]]

\* A copy is on its way and the final verdict is still to come.
HandOff(i) ==
    /\ i \in DOMAIN slots /\ slots[i] = Open
    /\ slots' = [slots EXCEPT ![i].handedOff = "Ok"]

\* The final verdict, which is also the handoff's if there was none.
Settle(i, result) ==
    /\ i \in DOMAIN slots /\ slots[i].delivered = NotYet
    /\ slots' = [slots EXCEPT ![i].handedOff = IF @ = NotYet THEN result ELSE @,
                              ![i].delivered = result]

Next ==
    \/ Admit(DOMAIN slots' \ DOMAIN slots)
    \/ \E i \in DOMAIN slots : HandOff(i) \/ \E result \in Results : Settle(i, result)

Spec == Init /\ [][Next]_slots
=============================================================================
