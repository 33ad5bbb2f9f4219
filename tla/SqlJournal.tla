----------------------------- MODULE SqlJournal -----------------------------
(***************************************************************************)
(* What a queue of SQL statements promises, without connections, batches   *)
(* and retries.  The statements offered to a lane are numbered.  They are  *)
(* decided in that order, each once: applied, or refused by the database.  *)
(* Applied statements become durable together, or are lost together when   *)
(* the connection that applied them breaks.                                *)
(***************************************************************************)
EXTENDS Naturals

CONSTANT Lane       \* the queues

VARIABLES offered,  \* how many statements a lane was given
          decided,  \* how many of them were applied or refused
          open,     \* the applied ones that are not durable yet
          durable,  \* the ones that are
          refused   \* the ones the database did not accept

vars == <<offered, decided, open, durable, refused>>

Init ==
  /\ offered = [i \in Lane |-> 0]
  /\ decided = [i \in Lane |-> 0]
  /\ open = [i \in Lane |-> {}]
  /\ durable = [i \in Lane |-> {}]
  /\ refused = [i \in Lane |-> {}]

Offer(i) ==
  /\ offered' = [offered EXCEPT ![i] = @ + 1]
  /\ UNCHANGED <<decided, open, durable, refused>>

(* The first undecided statement is decided. *)
Decide(i) ==
  /\ decided[i] < offered[i]
  /\ decided' = [decided EXCEPT ![i] = @ + 1]
  /\ UNCHANGED <<offered, durable>>

Apply(i) ==
  /\ Decide(i)
  /\ open' = [open EXCEPT ![i] = @ \cup {decided[i] + 1}]
  /\ UNCHANGED refused

Refuse(i) ==
  /\ Decide(i)
  /\ refused' = [refused EXCEPT ![i] = @ \cup {decided[i] + 1}]
  /\ UNCHANGED open

(* All of the open statements, or none of them. *)
Store(i) ==
  /\ durable' = [durable EXCEPT ![i] = @ \cup open[i]]
  /\ open' = [open EXCEPT ![i] = {}]
  /\ UNCHANGED <<offered, decided, refused>>

Lose(i) ==
  /\ open' = [open EXCEPT ![i] = {}]
  /\ UNCHANGED <<offered, decided, durable, refused>>

Next == \E i \in Lane : Offer(i) \/ Apply(i) \/ Refuse(i) \/ Store(i) \/ Lose(i)

Spec == Init /\ [][Next]_vars

=============================================================================
