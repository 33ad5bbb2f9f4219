---------------------------- MODULE MCSqlQueue ----------------------------
(* Two queues, a thread or two that enqueue, one session; batches of two,  *)
(* so that four statements fill a batch and start another one.             *)
EXTENDS SqlQueue

CONSTANTS t1, t2, s1

OneThread == {t1}
TwoThreads == {t1, t2}
Sessions == {s1}
Numbers == [s \in Sessions |-> 3]

=============================================================================
