------------------------- MODULE MCBroadcastBudget -------------------------
(* Settings of the broadcast budget's tunables for TLC. *)
EXTENDS BroadcastBudget

Setting(cap, crit, fwd) == [capacity |-> cap, critical |-> crit, forwarding |-> fwd]

\* A client that raises and lowers the capacity, to below the host's floor too.
Tuned == {Setting(4, 1, 2), Setting(1, 1, 0), Setting(3, 0, 1)}
=============================================================================
