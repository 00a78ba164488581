------------------------------ MODULE MCMesh ------------------------------
(* Three routers in a triangle, a fourth behind one of them with an end device, and what they *)
(* send.                                                                                      *)
EXTENDS Mesh

CONSTANTS a, b, c, far, kid

\* a and c are two cheap hops or one expensive hop apart; far hears a only.
Kite == [p \in Nodes \X Nodes |->
    CASE {p[1], p[2]} \in {{a, b}, {b, c}, {a, far}} -> 1
      [] {p[1], p[2]} = {a, c} -> 3
      [] OTHER -> 0]

ParentOf  == [k \in Kids |-> far]
Sending   == {<<c, kid>>, <<b, kid>>}
Reporting == {<<kid, c>>}
BadLinks  == {{a, far}}

\* Bound: the messages in flight at once.
MaxInFlight == 5
FewInFlight == Cardinality(air) <= MaxInFlight
=============================================================================
