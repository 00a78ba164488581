---------------------------- MODULE FreshCounters ----------------------------
(***************************************************************************)
(* What the outgoing security frame counters promise to the devices of the  *)
(* network.  A device remembers the highest counter it has accepted in each *)
(* stream (frames under the network key, frames under a link key) and       *)
(* silently rejects a frame that is not above it: every frame secured, in   *)
(* this session or a later one, must carry a counter above all before it.   *)
(***************************************************************************)
EXTENDS Integers

CONSTANT Streams   \* the streams of secured frames, one counter each

VARIABLE ether     \* per stream: the frames secured and the highest counter among them

Init == ether = [s \in Streams |-> [frames |-> 0, highest |-> 0]]

\* A frame is secured with a counter no frame before it carried.
Secure(s) ==
    /\ ether'[s].highest > ether[s].highest
    /\ ether' = [ether EXCEPT ![s] = [frames |-> @.frames + 1, highest |-> ether'[s].highest]]

Next == \E s \in Streams : Secure(s)

Spec == Init /\ [][Next]_ether
=============================================================================
