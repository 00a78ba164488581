------------------------------ MODULE MCSends ------------------------------
(* Request sets and types of traffic for the runs of Sends. *)
EXTENDS Sends, TLC

CONSTANTS h1, h2, c1, k1

None == {}

\* Handlers differ in name only.
HandlerSymmetry == Permutations(Handlers)

\* A unicast awaiting its APS ack, one to a sleepy child, one that is both.
Acked  == [priority |-> 3, confirm |-> k1, poll |-> NoPoll]
Sleepy == [priority |-> 2, confirm |-> OnHandoff, poll |-> c1]
SleepyAcked == [priority |-> 2, confirm |-> k1, poll |-> c1]

Unicasts   == {Acked, Sleepy, SleepyAcked}
Awaiting   == {Acked, SleepyAcked}

\* One of our own broadcasts, with a sleepy child; a route request we relay; a one-shot.
OwnFan   == [priority |-> 2, schedule |-> "PassiveAck", delay |-> 0, children |-> <<c1>>]
Relayed  == [priority |-> 2, schedule |-> "FixedInterval", delay |-> 1, children |-> <<>>]
OneShot  == [priority |-> 2, schedule |-> "Once", delay |-> 0, children |-> <<>>]

Broadcasts == {OwnFan, Relayed, OneShot}

Held     == [priority |-> 2, confirm |-> OnHandoff, destination |-> 1]
OnlyHeld == {Held}

NotSleepy == {NoPoll}
=============================================================================
