------------------------------ MODULE ConnPool ------------------------------
(***************************************************************************)
(* What the pool of database connections promises its clients.             *)
(*                                                                         *)
(* A client asks for a connection.  It is admitted as long as fewer than   *)
(* NConn clients are in the pool, and refused only when the pool is full.  *)
(* An admitted client is certain to be given a connection that nobody else *)
(* has; there is no third outcome.  Module DBPool says how the code does   *)
(* it: a counting semaphore for the admission, a list of mutexes for the   *)
(* connections.                                                            *)
(***************************************************************************)
EXTENDS Naturals, FiniteSets

CONSTANTS Client,   \* the threads that use the pool
          NConn     \* how many connections it has

VARIABLES asking,   \* clients waiting for admission
          admitted, \* clients in the pool
          given     \* the connection each client has, or 0

vars == <<asking, admitted, given>>

Conn == 1 .. NConn

Init ==
  /\ asking = {}
  /\ admitted = {}
  /\ given = [c \in Client |-> 0]

Ask(c) ==
  /\ c \notin asking \cup admitted
  /\ asking' = asking \cup {c}
  /\ UNCHANGED <<admitted, given>>

Admit(c) ==
  /\ c \in asking
  /\ Cardinality(admitted) < NConn
  /\ asking' = asking \ {c}
  /\ admitted' = admitted \cup {c}
  /\ UNCHANGED given

Refuse(c) ==
  /\ c \in asking
  /\ Cardinality(admitted) = NConn
  /\ asking' = asking \ {c}
  /\ UNCHANGED <<admitted, given>>

Give(c, i) ==
  /\ c \in admitted
  /\ given[c] = 0
  /\ \A d \in Client : given[d] # i
  /\ given' = [given EXCEPT ![c] = i]
  /\ UNCHANGED <<asking, admitted>>

TakeBack(c) ==
  /\ given[c] # 0
  /\ given' = [given EXCEPT ![c] = 0]
  /\ UNCHANGED <<asking, admitted>>

Leave(c) ==
  /\ c \in admitted
  /\ given[c] = 0
  /\ admitted' = admitted \ {c}
  /\ UNCHANGED <<asking, given>>

Next ==
  \E c \in Client :
    \/ Ask(c)
    \/ Admit(c)
    \/ Refuse(c)
    \/ \E i \in Conn : Give(c, i)
    \/ TakeBack(c)
    \/ Leave(c)

Spec == Init /\ [][Next]_vars

=============================================================================
