---------------------------- MODULE MCTimedOper ----------------------------
(* Two calls with one place for a waiting handler and two connections, so  *)
(* that a handler is turned away and a worker finds the pool empty.        *)
EXTENDS TimedOper

CONSTANTS c1, c2

Calls == {c1, c2}

(* The start of a session, an update and the end of a session, each of the *)
(* last two with a usage report.                                           *)
Requests ==
  { [type |-> "initial", quota |-> FALSE, rule |-> TRUE],
    [type |-> "update", quota |-> TRUE, rule |-> FALSE],
    [type |-> "termination", quota |-> TRUE, rule |-> FALSE] }

=============================================================================
