----------------------------- MODULE MCChildren -----------------------------
(* The devices and addresses of the run of Children. *)
EXTENDS Children

CONSTANTS us, a, b, r, own, n, m, none

\* Devices, and addresses, are interchangeable.
Symmetry ==
    {[x \in {a, b, n, m} |-> IF x \in End THEN p[x] ELSE q[x]] :
        p \in {f \in [End -> End] : f[a] # f[b]}, q \in {f \in [Addresses -> Addresses] : f[n] # f[m]}}
=============================================================================
