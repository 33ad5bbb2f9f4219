--------------------------- MODULE MCSessionCache ---------------------------
(* Two gateway sessions that can follow one another on an address, and two *)
(* sessions of an enforcement point that are linked to them.               *)
EXTENDS SessionCache, TLC

CONSTANTS u1, u2, e1, e2, a1, a2, x1, x2

Cores == {u1, u2}
Edges == {e1, e2}
OneEdge == {e1}
Addresses == {a1}
Subscribers == {x1, x2}


Symmetry == Permutations(Cores) \cup Permutations(Edges) \cup Permutations(Subscribers)

=============================================================================
