------------------------------ MODULE MCDBPool ------------------------------
(* Four threads compete for the three connections of a small pool: one of  *)
(* them is always turned away or waits, and the others walk a list long    *)
(* enough for connections to be freed behind and ahead of them.            *)
EXTENDS DBPool

CONSTANTS c1, c2, c3, c4

Clients == {c1, c2, c3, c4}

=============================================================================
