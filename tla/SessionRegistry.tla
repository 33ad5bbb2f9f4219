-------------------------- MODULE SessionRegistry --------------------------
(***************************************************************************)
(* What the session cache promises about sessions and links, without its   *)
(* maps: a set of live sessions and a relation between the sessions of an  *)
(* enforcement point (SCE, Procera) and the core session of the same       *)
(* subscriber.  A link is made only when its child session comes to life   *)
(* and disappears as soon as either end is removed.                        *)
(***************************************************************************)
CONSTANTS Core,    \* Session-Ids of gateways (UGW, Ericsson)
          Edge     \* Session-Ids of enforcement points (SCE, Procera)

VARIABLES live,    \* the sessions the cache knows
          link     \* pairs <<child, core session>>

vars == <<live, link>>

Party == Core \cup Edge

Init == live = {} /\ link = {}

(* A session appears; a session of an enforcement point may be linked. *)
Open(s, new) ==
  /\ s \notin live
  /\ new \subseteq ({s} \cap Edge) \X Core
  /\ \A x, y \in new : x = y
  /\ live' = live \cup {s}
  /\ link' = link \cup new

(* A session goes, known or not, and every link that touches it with it. *)
Close(s) ==
  /\ live' = live \ {s}
  /\ link' = {l \in link : s \notin {l[1], l[2]}}

Next == \E s \in Party :
          \/ \E new \in SUBSET (Edge \X Core) : Open(s, new)
          \/ Close(s)

Spec == Init /\ [][Next]_vars

=============================================================================
