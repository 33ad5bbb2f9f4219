--------------------------- MODULE MCReplication ---------------------------
(* Two handlers, one session with one rule, two operators.  With two       *)
(* datagrams an operation can follow another one, overtake it on the way,  *)
(* or be delivered twice; both operators may be busy when the node is      *)
(* unloaded.                                                               *)
EXTENDS Replication

=============================================================================
