--------------------------- MODULE MCRefreshQueue ---------------------------
(* A subscriber with two gateway sessions that follow one another on an    *)
(* address and are held by two peers; or with a gateway session and one of *)
(* Procera beside it.                                                      *)
EXTENDS RefreshQueue

CONSTANTS u1, u2, x1, a1, p1, p2

Sessions == {u1, u2}
OneSession == {u1}
Gateway == {u1}
Beside == {u2}
Owner == [s \in Session |-> x1]
AddressMap == [s \in Session |-> a1]
PeerMap == [s \in Session |-> IF s = u1 THEN p1 ELSE p2]
RefreshRow == [type |-> "subscriber_id", id |-> x1, action |-> "none"]
AbortRow == [type |-> "session_id", id |-> u1, action |-> "abort_session"]
RefreshRows == {RefreshRow}
BothRows == {RefreshRow, AbortRow}

=============================================================================
