------------------------- MODULE ReplicationProofs -------------------------
(***************************************************************************)
(* The handover of datagrams in module Replication, for any number of      *)
(* sessions, rules, threads and operators: what is received is applied at  *)
(* most once, and is never overwritten before.  And the agreement of the   *)
(* nodes that it leads to, where neither the threads nor the network stand *)
(* in the way.                                                             *)
(***************************************************************************)
EXTENDS Replication, TLAPS

(* What a step does to the caches is defined for the command it belongs to. *)
Fits(step, c) ==
  /\ c.type # "cut"
  /\ step = "session" => c.type \in {"insert_session", "remove_session"}
  /\ step = "rules" => c.type \in {"insert_rule", "remove_rule", "remove_session"}

ThreadInv ==
  \A t \in Thread :
    \A i \in 1 .. Len(todo[t]) : command[t] # NoTask /\ Fits(todo[t][i], command[t])

OperInv ==
  \A k \in Oper :
    opc[k] \in {"session", "rules"} => slot[k] # NoTask /\ Fits(opc[k], slot[k].command)

(* As long as the receiver lives, an operator is free, has work waiting,   *)
(* or is at work; only then its slot may be full.                          *)
TokenInv ==
  rpc # "ended" =>
    \A k \in Oper :
      /\ setData[k] => ~operData[k] /\ opc[k] \notin {"session", "rules", "unlock"}
      /\ operData[k] => opc[k] \notin {"session", "rules", "unlock"}
      /\ setData[k] \/ opc[k] = "unlock" => slot[k] = NoTask

(* The operators are destroyed after the receiver has ended. *)
OrderInv == fpc \notin {"run", "clear"} => rpc = "ended"

Waiting(n) ==
  \/ hand # NoTask /\ n = hand.n
  \/ \E k \in Oper : slot[k] # NoTask /\ n = slot[k].n

(* Datagrams have numbers of their own, and each is in one place. *)
NetInv ==
  /\ taken \subseteq 1 .. sent
  /\ \A d \in net : d.n \in 1 .. sent /\ d.n \notin taken
  /\ \A d, e \in net : d.n = e.n => d = e

PlaceInv ==
  /\ applied \subseteq taken
  /\ \A n \in taken : n \in applied \/ Waiting(n)
  /\ hand # NoTask => hand.n \in taken /\ hand.n \notin applied
  /\ \A k \in Oper :
       slot[k] # NoTask =>
         /\ slot[k].n \in taken /\ slot[k].n \notin applied
         /\ hand # NoTask => slot[k].n # hand.n
  /\ \A j, k \in Oper : slot[j] # NoTask /\ slot[k] # NoTask /\ slot[j].n = slot[k].n => j = k

IInv == TypeOK /\ ThreadInv /\ OperInv /\ TokenInv /\ OrderInv /\ NetInv /\ PlaceInv

-----------------------------------------------------------------------------
(* Data: what the operators on commands return.                            *)

LEMMA SessionsTyped ==
  ASSUME NEW c \in Command, c.type \in {"insert_session", "remove_session"},
         NEW S \in SUBSET Session
  PROVE AfterSession(c, S) \in SUBSET Session
<1>1. c.id \in Session
  BY DEF Command
<1> QED BY <1>1 DEF AfterSession

LEMMA RulesTyped ==
  ASSUME NEW c \in Command, c.type \in {"insert_rule", "remove_rule", "remove_session"},
         NEW R \in [Session -> [Rule -> Nat]]
  PROVE AfterRules(c, R) \in [Session -> [Rule -> Nat]]
<1>1. c.id \in Session
  BY DEF Command
<1>2. CASE c.type = "insert_rule"
  <2>1. c.rule \in Rule
    BY <1>2 DEF Command
  <2>2. [R[c.id] EXCEPT ![c.rule] = @ + 1] \in [Rule -> Nat]
    BY <1>1, <2>1
  <2> QED BY <1>1, <1>2, <2>2 DEF AfterRules
<1>3. CASE c.type # "insert_rule"
  <2>1. [r \in Rule |-> IF c.type = "remove_rule" /\ r # c.rule THEN R[c.id][r] ELSE 0]
          \in [Rule -> Nat]
    BY <1>1
  <2> QED BY <1>1, <1>3, <2>1 DEF AfterRules
<1> QED BY <1>2, <1>3

(* The steps of a command fit it. *)
LEMMA CourseFits ==
  ASSUME NEW c \in Command, c.type # "cut"
  PROVE /\ Course(c) \in Seq({"session", "rules", "send"})
        /\ \A i \in 1 .. Len(Course(c)) : Fits(Course(c)[i], c)
<1>1. c.type \in {"insert_session", "remove_session", "insert_rule", "remove_rule"}
  BY DEF Command
<1>2. CASE c.type = "insert_session"
  <2>1. Course(c) = <<"send", "session">>
    BY <1>2 DEF Course
  <2> QED BY <1>2, <2>1 DEF Fits
<1>3. CASE c.type = "remove_session"
  <2>1. Course(c) = <<"session", "rules", "send">>
    BY <1>3 DEF Course
  <2> QED BY <1>3, <2>1 DEF Fits
<1>4. CASE c.type \in {"insert_rule", "remove_rule"}
  <2>1. Course(c) = <<"rules", "send">>
    BY <1>4 DEF Course
  <2> QED BY <1>4, <2>1 DEF Fits
<1> QED BY <1>1, <1>2, <1>3, <1>4

(* A packet is a command of the same session. *)
LEMMA PacketsTyped ==
  ASSUME NEW c \in Command, NEW p \in Packets(c)
  PROVE p \in Command /\ p.id = c.id /\ c.id \in Session
BY DEF Packets, Cut, Command

(* The place an operator goes to fits the task it takes. *)
LEMMA FirstPartFits ==
  ASSUME NEW task \in Datagram \cup {NoTask}
  PROVE /\ FirstPart(task) \in {"session", "rules", "unlock"}
        /\ task = NoTask => FirstPart(task) = "unlock"
        /\ FirstPart(task) # "unlock" => task # NoTask /\ Fits(FirstPart(task), task.command)
<1>1. CASE task = NoTask
  BY <1>1 DEF FirstPart
<1>2. CASE task # NoTask
  <2>1. task.command.type \in {"insert_session", "remove_session", "cut", "insert_rule",
                               "remove_rule"}
    BY <1>2 DEF Datagram, Command
  <2>2. CASE task.command.type = "cut"
    BY <1>2, <2>2 DEF FirstPart
  <2>3. CASE task.command.type \in {"insert_session", "remove_session"}
    <3>1. FirstPart(task) = "session"
      BY <1>2, <2>3 DEF FirstPart
    <3> QED BY <1>2, <2>3, <3>1 DEF Fits
  <2>4. CASE task.command.type \in {"insert_rule", "remove_rule"}
    <3>1. FirstPart(task) = "rules"
      BY <1>2, <2>4 DEF FirstPart
    <3> QED BY <1>2, <2>4, <3>1 DEF Fits
  <2> QED BY <2>1, <2>2, <2>3, <2>4
<1> QED BY <1>1, <1>2

(* The ring is closed. *)
LEMMA RingClosed ==
  ASSUME NEW i \in Oper
  PROVE NextOper(i + 1) \in Oper
<1>1. OperCount \in Nat /\ OperCount > 0 /\ i \in Nat /\ i < OperCount
  BY OperAssumption DEF Oper
<1>2. CASE i + 1 < OperCount
  BY <1>1, <1>2 DEF NextOper, Oper
<1>3. CASE i + 1 = OperCount
  <2>1. OperCount % OperCount = 0
    BY <1>1
  <2> QED BY <1>1, <1>3, <2>1 DEF NextOper, Oper
<1> QED BY <1>1, <1>2, <1>3

-----------------------------------------------------------------------------
(* Every step keeps the types. *)
LEMMA TypeStep ==
  ASSUME IInv, [Next]_vars
  PROVE TypeOK'
<1> USE DEF IInv
<1>1. ASSUME NEW t \in Thread, NEW c \in Command, c.type # "cut", Begin(t, c) PROVE TypeOK'
  <2>1. Course(c) \in Seq({"session", "rules", "send"})
    BY <1>1, CourseFits
  <2> QED BY <1>1, <2>1 DEF TypeOK, Begin, senderVars, receiverVars, operVars, finiVars, historyVars
<1>2. ASSUME NEW t \in Thread, ChangeSession(t) PROVE TypeOK'
  <2>1. /\ Tail(todo[t]) \in Seq({"session", "rules", "send"})
        /\ command[t] \in Command /\ Fits(Head(todo[t]), command[t])
    BY <1>2 DEF TypeOK, ThreadInv, ChangeSession, At
  <2>2. AfterSession(command[t], sessions["here"]) \in SUBSET Session
    BY <1>2, <2>1, SessionsTyped DEF TypeOK, ChangeSession, At, Fits, Node
  <2> QED BY <1>2, <2>1, <2>2 DEF TypeOK, ChangeSession, Advance, Node, senderVars, receiverVars, operVars, finiVars, historyVars
<1>3. ASSUME NEW t \in Thread, ChangeRules(t) PROVE TypeOK'
  <2>1. /\ Tail(todo[t]) \in Seq({"session", "rules", "send"})
        /\ command[t] \in Command /\ Fits(Head(todo[t]), command[t])
    BY <1>3 DEF TypeOK, ThreadInv, ChangeRules, At
  <2>2. AfterRules(command[t], rules["here"]) \in [Session -> [Rule -> Nat]]
    BY <1>3, <2>1, RulesTyped DEF TypeOK, ChangeRules, At, Fits, Node
  <2> QED BY <1>3, <2>1, <2>2 DEF TypeOK, ChangeRules, Advance, Node, senderVars, receiverVars, operVars, finiVars, historyVars
<1>4. ASSUME NEW t \in Thread, Cmd2Remote(t) PROVE TypeOK'
  <2>1. /\ Tail(todo[t]) \in Seq({"session", "rules", "send"})
        /\ command[t] \in Command /\ Fits(Head(todo[t]), command[t])
    <3>1. todo[t] # <<>>
      BY <1>4 DEF Cmd2Remote, At
    <3> QED BY <3>1 DEF TypeOK, ThreadInv
  <2>2. PICK p \in Packets(command[t]) :
          /\ net' = net \cup {[n |-> sent + 1, command |-> p]}
          /\ clean' = [clean EXCEPT ![p.id] = @ /\ p = command[t]]
    BY <1>4 DEF Cmd2Remote
  <2>3. p \in Command
    BY <2>1, PacketsTyped
  <2>4. [n |-> sent + 1, command |-> p] \in Datagram
    BY <2>3 DEF TypeOK, Datagram
  <2>5. clean' \in [Session -> BOOLEAN]
    BY <2>2 DEF TypeOK
  <2> QED BY <1>4, <2>1, <2>2, <2>4, <2>5 DEF TypeOK, Cmd2Remote, Advance, senderVars, receiverVars, operVars, finiVars, historyVars
<1>5. ASSUME NEW d \in net, Lose(d) PROVE TypeOK'
  BY <1>5 DEF TypeOK, Lose, senderVars, receiverVars, operVars, finiVars, historyVars
<1>6. ASSUME NEW d \in net, Duplicate(d) PROVE TypeOK'
  <2>1. d \in Datagram /\ sent \in Nat
    BY DEF TypeOK
  <2>2. [d EXCEPT !.n = sent + 1] \in Datagram
    BY <2>1 DEF Datagram
  <2>3. clean' \in [Session -> BOOLEAN]
    <3>1. (clean[d.command.id] /\ d.command.type # "insert_rule") \in BOOLEAN
      OBVIOUS
    <3>2. clean' = [clean EXCEPT ![d.command.id] = @ /\ d.command.type # "insert_rule"]
      BY <1>6 DEF Duplicate
    <3> QED BY <3>1, <3>2 DEF TypeOK
  <2>4. sent' \in Nat /\ net' \in SUBSET Datagram
    <3>1. sent' = sent + 1 /\ net' = net \cup {[d EXCEPT !.n = sent + 1]}
      BY <1>6 DEF Duplicate
    <3>2. net \in SUBSET Datagram
      BY DEF TypeOK
    <3> HIDE DEF IInv
    <3> QED BY <2>1, <2>2, <3>1, <3>2
  <2>5. UNCHANGED <<senderVars, sessions, rules, receiverVars, operVars, finiVars, taken, applied>>
    BY <1>6 DEF Duplicate
  <2> QED BY <2>3, <2>4, <2>5 DEF TypeOK, senderVars, receiverVars, operVars, finiVars, historyVars
<1>7. CASE PollTimeout
  BY <1>7 DEF TypeOK, PollTimeout, AfterTest, senderVars, receiverVars, operVars, finiVars, historyVars
<1>8. ASSUME NEW d \in net, Receive(d) PROVE TypeOK'
  <2>1. d \in Datagram /\ d.n \in Nat /\ d # NoTask
    BY NoTaskAssumption DEF TypeOK, Datagram
  <2> QED BY <1>8, <2>1 DEF TypeOK, Receive, senderVars, receiverVars, operVars, finiVars, historyVars
<1>9. CASE SetTask
  <2>1. index' \in Oper
    BY <1>9, RingClosed DEF TypeOK, SetTask
  <2> QED BY <1>9, <2>1 DEF TypeOK, SetTask, AfterTest, senderVars, receiverVars, operVars, finiVars, historyVars
<1>10. ASSUME NEW k \in Oper, Test(k) PROVE TypeOK'
  BY <1>10 DEF TypeOK, Test, senderVars, receiverVars, operVars, finiVars, historyVars
<1>11. ASSUME NEW k \in Oper, TakeTask(k) PROVE TypeOK'
  <2>1. slot[k] # NoTask => slot[k].n \in Nat
    BY DEF TypeOK, Datagram
  <2>2. FirstPart(slot[k]) \in {"session", "rules", "unlock"}
    BY FirstPartFits DEF TypeOK
  <2> QED BY <1>11, <2>1, <2>2 DEF TypeOK, TakeTask, senderVars, receiverVars, operVars, finiVars, historyVars
<1>12. ASSUME NEW k \in Oper, LockFails(k) PROVE TypeOK'
  BY <1>12 DEF TypeOK, LockFails, senderVars, receiverVars, operVars, finiVars, historyVars
<1>13. ASSUME NEW k \in Oper, ProcessSession(k) PROVE TypeOK'
  <2>1. slot[k] # NoTask /\ Fits(opc[k], slot[k].command)
    BY <1>13 DEF OperInv, ProcessSession
  <2>2. slot[k].n \in Nat /\ slot[k].command \in Command
    BY <2>1 DEF TypeOK, Datagram
  <2>3. AfterSession(slot[k].command, sessions["there"]) \in SUBSET Session
    BY <1>13, <2>1, <2>2, SessionsTyped DEF TypeOK, ProcessSession, Fits, Node
  <2> QED BY <1>13, <2>2, <2>3 DEF TypeOK, ProcessSession, Node, senderVars, receiverVars, operVars, finiVars, historyVars
<1>14. ASSUME NEW k \in Oper, ProcessRules(k) PROVE TypeOK'
  <2>1. slot[k] # NoTask /\ Fits(opc[k], slot[k].command)
    BY <1>14 DEF OperInv, ProcessRules
  <2>2. slot[k].n \in Nat /\ slot[k].command \in Command
    BY <2>1 DEF TypeOK, Datagram
  <2>3. AfterRules(slot[k].command, rules["there"]) \in [Session -> [Rule -> Nat]]
    BY <1>14, <2>1, <2>2, RulesTyped DEF TypeOK, ProcessRules, Fits, Node
  <2> QED BY <1>14, <2>2, <2>3 DEF TypeOK, ProcessRules, Node, senderVars, receiverVars, operVars, finiVars, historyVars
<1>15. ASSUME NEW k \in Oper, UnlockSet(k) PROVE TypeOK'
  BY <1>15 DEF TypeOK, UnlockSet, senderVars, receiverVars, operVars, finiVars, historyVars
<1>16. CASE Stop
  BY <1>16 DEF TypeOK, Stop, senderVars, receiverVars, operVars, finiVars, historyVars
<1>17. CASE ClearWork
  BY <1>17 DEF TypeOK, ClearWork, senderVars, receiverVars, operVars, finiVars, historyVars
<1>18. CASE UnlockOper
  BY <1>18 DEF TypeOK, UnlockOper, senderVars, receiverVars, operVars, finiVars, historyVars
<1>19. CASE DestroyOper
  <2>1. PICK gone \in {operData[victim], FALSE} : destroyed' = [destroyed EXCEPT ![victim] = gone]
    BY <1>19 DEF DestroyOper
  <2>2. gone \in BOOLEAN
    BY DEF TypeOK
  <2> QED BY <1>19, <2>1, <2>2 DEF TypeOK, DestroyOper, senderVars, receiverVars, operVars, finiVars, historyVars
<1>20. CASE JoinOper
  <2>1. victim' \in Oper
    BY <1>20, OperAssumption DEF TypeOK, JoinOper, Oper
  <2> QED BY <1>20, <2>1 DEF TypeOK, JoinOper, senderVars, receiverVars, operVars, finiVars, historyVars
<1>21. CASE UNCHANGED vars
  BY <1>21 DEF TypeOK, vars, senderVars, receiverVars, operVars, finiVars, historyVars
<1> QED
  BY <1>1, <1>2, <1>3, <1>4, <1>5, <1>6, <1>7, <1>8, <1>9, <1>10, <1>11, <1>12, <1>13, <1>14, <1>15, <1>16, <1>17, <1>18, <1>19, <1>20, <1>21
     DEF Next, Handler, Network, Receiver, Operator, Fini

(* A thread that goes on has steps left that fit its command, or none. *)
LEMMA AdvanceKeeps ==
  ASSUME IInv, NEW t \in Thread, todo[t] # <<>>, Advance(t)
  PROVE ThreadInv'
<1>1. /\ todo[t] \in Seq({"session", "rules", "send"}) /\ Len(todo[t]) \in Nat
      /\ Len(todo[t]) # 0
  BY DEF IInv, TypeOK
<1>2. /\ Len(Tail(todo[t])) = Len(todo[t]) - 1
      /\ \A i \in 1 .. Len(Tail(todo[t])) : Tail(todo[t])[i] = todo[t][i + 1]
  BY <1>1
<1>3. ASSUME NEW u \in Thread, NEW i \in 1 .. Len(todo'[u])
      PROVE command'[u] # NoTask /\ Fits(todo'[u][i], command'[u])
  <2>1. CASE u = t
    <3>1. todo'[t] = Tail(todo[t])
      BY DEF IInv, TypeOK, Advance
    <3>2. i + 1 \in 1 .. Len(todo[t]) /\ Len(todo[t]) # 1
      BY <1>1, <1>2, <1>3, <2>1, <3>1
    <3>3. command' = command
      BY <3>2 DEF Advance
    <3> QED BY <1>2, <1>3, <2>1, <3>1, <3>2, <3>3 DEF IInv, ThreadInv
  <2>2. CASE u # t
    <3>1. todo'[u] = todo[u] /\ command'[u] = command[u]
      BY <2>2 DEF IInv, TypeOK, Advance
    <3> QED BY <1>3, <3>1 DEF IInv, ThreadInv
  <2> QED BY <2>1, <2>2
<1> QED BY <1>3 DEF ThreadInv

(* Every step keeps what threads, operators and their mutexes agree on. *)
LEMMA ControlStep ==
  ASSUME IInv, [Next]_vars
  PROVE (ThreadInv /\ OperInv /\ TokenInv /\ OrderInv)'
<1> USE DEF IInv
<1>1. ASSUME NEW t \in Thread, NEW c \in Command, c.type # "cut", Begin(t, c) PROVE (ThreadInv /\ OperInv /\ TokenInv /\ OrderInv)'
  <2>1. ThreadInv'
    <3>1. \A i \in 1 .. Len(Course(c)) : Fits(Course(c)[i], c)
      BY <1>1, CourseFits
    <3>2. c # NoTask
      BY NoTaskAssumption
    <3> QED BY <1>1, <3>1, <3>2 DEF TypeOK, ThreadInv, Begin
  <2>2. (OperInv /\ TokenInv /\ OrderInv)'
    BY <1>1 DEF OperInv, TokenInv, OrderInv, Begin, senderVars, receiverVars, operVars, finiVars, historyVars
  <2> QED BY <2>1, <2>2
<1>2. ASSUME NEW t \in Thread, ChangeSession(t) PROVE (ThreadInv /\ OperInv /\ TokenInv /\ OrderInv)'
  <2>1. ThreadInv'
    BY <1>2, AdvanceKeeps DEF ChangeSession, At
  <2>2. (OperInv /\ TokenInv /\ OrderInv)'
    BY <1>2 DEF OperInv, TokenInv, OrderInv, ChangeSession, senderVars, receiverVars, operVars, finiVars, historyVars
  <2> QED BY <2>1, <2>2
<1>3. ASSUME NEW t \in Thread, ChangeRules(t) PROVE (ThreadInv /\ OperInv /\ TokenInv /\ OrderInv)'
  <2>1. ThreadInv'
    BY <1>3, AdvanceKeeps DEF ChangeRules, At
  <2>2. (OperInv /\ TokenInv /\ OrderInv)'
    BY <1>3 DEF OperInv, TokenInv, OrderInv, ChangeRules, senderVars, receiverVars, operVars, finiVars, historyVars
  <2> QED BY <2>1, <2>2
<1>4. ASSUME NEW t \in Thread, Cmd2Remote(t) PROVE (ThreadInv /\ OperInv /\ TokenInv /\ OrderInv)'
  <2>1. ThreadInv'
    BY <1>4, AdvanceKeeps DEF Cmd2Remote, At
  <2>2. (OperInv /\ TokenInv /\ OrderInv)'
    BY <1>4 DEF OperInv, TokenInv, OrderInv, Cmd2Remote, senderVars, receiverVars, operVars, finiVars, historyVars
  <2> QED BY <2>1, <2>2
<1>5. ASSUME NEW d \in net, Lose(d) PROVE (ThreadInv /\ OperInv /\ TokenInv /\ OrderInv)'
  <2>2. ThreadInv'
    BY <1>5 DEF ThreadInv, Lose, senderVars, receiverVars, operVars, finiVars, historyVars
  <2>3. OperInv'
    BY <1>5 DEF TypeOK, OperInv, Lose, senderVars, receiverVars, operVars, finiVars, historyVars
  <2>4. (TokenInv /\ OrderInv)'
    BY <1>5 DEF TypeOK, OperInv, TokenInv, OrderInv, Lose, senderVars, receiverVars, operVars, finiVars, historyVars
  <2> QED BY <2>2, <2>3, <2>4
<1>6. ASSUME NEW d \in net, Duplicate(d) PROVE (ThreadInv /\ OperInv /\ TokenInv /\ OrderInv)'
  <2>2. ThreadInv'
    BY <1>6 DEF ThreadInv, Duplicate, senderVars, receiverVars, operVars, finiVars, historyVars
  <2>3. OperInv'
    BY <1>6 DEF TypeOK, OperInv, Duplicate, senderVars, receiverVars, operVars, finiVars, historyVars
  <2>4. (TokenInv /\ OrderInv)'
    BY <1>6 DEF TypeOK, OperInv, TokenInv, OrderInv, Duplicate, senderVars, receiverVars, operVars, finiVars, historyVars
  <2> QED BY <2>2, <2>3, <2>4
<1>7. CASE PollTimeout
  <2>2. ThreadInv'
    BY <1>7 DEF ThreadInv, PollTimeout, senderVars, receiverVars, operVars, finiVars, historyVars
  <2>3. OperInv'
    BY <1>7 DEF TypeOK, OperInv, PollTimeout, AfterTest, senderVars, receiverVars, operVars, finiVars, historyVars
  <2>4. (TokenInv /\ OrderInv)'
    BY <1>7 DEF TypeOK, OperInv, TokenInv, OrderInv, PollTimeout, AfterTest, senderVars, receiverVars, operVars, finiVars, historyVars
  <2> QED BY <2>2, <2>3, <2>4
<1>8. ASSUME NEW d \in net, Receive(d) PROVE (ThreadInv /\ OperInv /\ TokenInv /\ OrderInv)'
  <2>2. ThreadInv'
    BY <1>8 DEF ThreadInv, Receive, senderVars, receiverVars, operVars, finiVars, historyVars
  <2>3. OperInv'
    BY <1>8 DEF TypeOK, OperInv, Receive, senderVars, receiverVars, operVars, finiVars, historyVars
  <2>4. (TokenInv /\ OrderInv)'
    BY <1>8 DEF TypeOK, OperInv, TokenInv, OrderInv, Receive, senderVars, receiverVars, operVars, finiVars, historyVars
  <2> QED BY <2>2, <2>3, <2>4
<1>9. CASE SetTask
  <2>2. ThreadInv'
    BY <1>9 DEF ThreadInv, SetTask, senderVars, receiverVars, operVars, finiVars, historyVars
  <2>3. OperInv'
    BY <1>9 DEF TypeOK, OperInv, TokenInv, SetTask, AfterTest, senderVars, receiverVars, operVars, finiVars, historyVars
  <2>4. (TokenInv /\ OrderInv)'
    BY <1>9 DEF TypeOK, OperInv, TokenInv, OrderInv, SetTask, AfterTest, senderVars, receiverVars, operVars, finiVars, historyVars
  <2> QED BY <2>2, <2>3, <2>4
<1>10. ASSUME NEW k \in Oper, Test(k) PROVE (ThreadInv /\ OperInv /\ TokenInv /\ OrderInv)'
  <2>2. ThreadInv'
    BY <1>10 DEF ThreadInv, Test, senderVars, receiverVars, operVars, finiVars, historyVars
  <2>3. OperInv'
    BY <1>10 DEF TypeOK, OperInv, Test, senderVars, receiverVars, operVars, finiVars, historyVars
  <2>4. (TokenInv /\ OrderInv)'
    BY <1>10 DEF TypeOK, OperInv, TokenInv, OrderInv, Test, senderVars, receiverVars, operVars, finiVars, historyVars
  <2> QED BY <2>2, <2>3, <2>4
<1>11. ASSUME NEW k \in Oper, TakeTask(k) PROVE (ThreadInv /\ OperInv /\ TokenInv /\ OrderInv)'
  <2>1. /\ FirstPart(slot[k]) \in {"session", "rules", "unlock"}
        /\ FirstPart(slot[k]) # "unlock" =>
             slot[k] # NoTask /\ Fits(FirstPart(slot[k]), slot[k].command)
    BY FirstPartFits DEF TypeOK
  <2>2. ThreadInv'
    BY <1>11 DEF ThreadInv, TakeTask, senderVars, receiverVars, operVars, finiVars, historyVars
  <2>3. OperInv'
    BY <1>11, <2>1 DEF TypeOK, OperInv, TakeTask, senderVars, receiverVars, operVars, finiVars, historyVars
  <2>4. (TokenInv /\ OrderInv)'
    BY <1>11, <2>1 DEF TypeOK, OperInv, TokenInv, OrderInv, TakeTask, senderVars, receiverVars, operVars, finiVars, historyVars
  <2> QED BY <2>2, <2>3, <2>4
<1>12. ASSUME NEW k \in Oper, LockFails(k) PROVE (ThreadInv /\ OperInv /\ TokenInv /\ OrderInv)'
  <2>2. ThreadInv'
    BY <1>12 DEF ThreadInv, LockFails, senderVars, receiverVars, operVars, finiVars, historyVars
  <2>3. OperInv'
    BY <1>12 DEF TypeOK, OperInv, LockFails, senderVars, receiverVars, operVars, finiVars, historyVars
  <2>4. (TokenInv /\ OrderInv)'
    BY <1>12 DEF TypeOK, OperInv, TokenInv, OrderInv, LockFails, senderVars, receiverVars, operVars, finiVars, historyVars
  <2> QED BY <2>2, <2>3, <2>4
<1>13. ASSUME NEW k \in Oper, ProcessSession(k) PROVE (ThreadInv /\ OperInv /\ TokenInv /\ OrderInv)'
  <2>2. ThreadInv'
    BY <1>13 DEF ThreadInv, ProcessSession, senderVars, receiverVars, operVars, finiVars, historyVars
  <2>3. OperInv'
    BY <1>13 DEF TypeOK, Fits, OperInv, ProcessSession, senderVars, receiverVars, operVars, finiVars, historyVars
  <2>4. (TokenInv /\ OrderInv)'
    BY <1>13 DEF TypeOK, OperInv, TokenInv, OrderInv, ProcessSession, senderVars, receiverVars, operVars, finiVars, historyVars
  <2> QED BY <2>2, <2>3, <2>4
<1>14. ASSUME NEW k \in Oper, ProcessRules(k) PROVE (ThreadInv /\ OperInv /\ TokenInv /\ OrderInv)'
  <2>2. ThreadInv'
    BY <1>14 DEF ThreadInv, ProcessRules, senderVars, receiverVars, operVars, finiVars, historyVars
  <2>3. OperInv'
    BY <1>14 DEF TypeOK, OperInv, ProcessRules, senderVars, receiverVars, operVars, finiVars, historyVars
  <2>4. (TokenInv /\ OrderInv)'
    BY <1>14 DEF TypeOK, OperInv, TokenInv, OrderInv, ProcessRules, senderVars, receiverVars, operVars, finiVars, historyVars
  <2> QED BY <2>2, <2>3, <2>4
<1>15. ASSUME NEW k \in Oper, UnlockSet(k) PROVE (ThreadInv /\ OperInv /\ TokenInv /\ OrderInv)'
  <2>2. ThreadInv'
    BY <1>15 DEF ThreadInv, UnlockSet, senderVars, receiverVars, operVars, finiVars, historyVars
  <2>3. OperInv'
    BY <1>15 DEF TypeOK, OperInv, UnlockSet, senderVars, receiverVars, operVars, finiVars, historyVars
  <2>4. (TokenInv /\ OrderInv)'
    BY <1>15 DEF TypeOK, OperInv, TokenInv, OrderInv, UnlockSet, senderVars, receiverVars, operVars, finiVars, historyVars
  <2> QED BY <2>2, <2>3, <2>4
<1>16. CASE Stop
  <2>2. ThreadInv'
    BY <1>16 DEF ThreadInv, Stop, senderVars, receiverVars, operVars, finiVars, historyVars
  <2>3. OperInv'
    BY <1>16 DEF TypeOK, OperInv, Stop, senderVars, receiverVars, operVars, finiVars, historyVars
  <2>4. (TokenInv /\ OrderInv)'
    BY <1>16 DEF TypeOK, OperInv, TokenInv, OrderInv, Stop, senderVars, receiverVars, operVars, finiVars, historyVars
  <2> QED BY <2>2, <2>3, <2>4
<1>17. CASE ClearWork
  <2>2. ThreadInv'
    BY <1>17 DEF ThreadInv, ClearWork, senderVars, receiverVars, operVars, finiVars, historyVars
  <2>3. OperInv'
    BY <1>17 DEF TypeOK, OperInv, ClearWork, senderVars, receiverVars, operVars, finiVars, historyVars
  <2>4. (TokenInv /\ OrderInv)'
    BY <1>17 DEF TypeOK, OperInv, TokenInv, OrderInv, ClearWork, senderVars, receiverVars, operVars, finiVars, historyVars
  <2> QED BY <2>2, <2>3, <2>4
<1>18. CASE UnlockOper
  <2>2. ThreadInv'
    BY <1>18 DEF ThreadInv, UnlockOper, senderVars, receiverVars, operVars, finiVars, historyVars
  <2>3. OperInv'
    BY <1>18 DEF TypeOK, OperInv, UnlockOper, senderVars, receiverVars, operVars, finiVars, historyVars
  <2>4. (TokenInv /\ OrderInv)'
    BY <1>18 DEF TypeOK, OperInv, TokenInv, OrderInv, UnlockOper, senderVars, receiverVars, operVars, finiVars, historyVars
  <2> QED BY <2>2, <2>3, <2>4
<1>19. CASE DestroyOper
  <2>2. ThreadInv'
    BY <1>19 DEF ThreadInv, DestroyOper, senderVars, receiverVars, operVars, finiVars, historyVars
  <2>3. OperInv'
    BY <1>19 DEF TypeOK, OperInv, DestroyOper, senderVars, receiverVars, operVars, finiVars, historyVars
  <2>4. (TokenInv /\ OrderInv)'
    BY <1>19 DEF TypeOK, OperInv, TokenInv, OrderInv, DestroyOper, senderVars, receiverVars, operVars, finiVars, historyVars
  <2> QED BY <2>2, <2>3, <2>4
<1>20. CASE JoinOper
  <2>2. ThreadInv'
    BY <1>20 DEF ThreadInv, JoinOper, senderVars, receiverVars, operVars, finiVars, historyVars
  <2>3. OperInv'
    BY <1>20 DEF TypeOK, OperInv, JoinOper, senderVars, receiverVars, operVars, finiVars, historyVars
  <2>4. (TokenInv /\ OrderInv)'
    BY <1>20 DEF TypeOK, OperInv, TokenInv, OrderInv, JoinOper, senderVars, receiverVars, operVars, finiVars, historyVars
  <2> QED BY <2>2, <2>3, <2>4
<1>21. CASE UNCHANGED vars
  BY <1>21 DEF ThreadInv, OperInv, TokenInv, OrderInv, vars, senderVars, receiverVars, operVars, finiVars, historyVars
<1> QED
  BY <1>1, <1>2, <1>3, <1>4, <1>5, <1>6, <1>7, <1>8, <1>9, <1>10, <1>11, <1>12, <1>13, <1>14, <1>15, <1>16, <1>17, <1>18, <1>19, <1>20, <1>21
     DEF Next, Handler, Network, Receiver, Operator, Fini

(* A task that was applied leaves its slot. *)
LEMMA AppliedKeeps ==
  ASSUME IInv, NEW k \in Oper, slot[k] # NoTask,
         slot' = [slot EXCEPT ![k] = NoTask], applied' = applied \cup {slot[k].n},
         UNCHANGED <<hand, taken, net, sent>>
  PROVE (NetInv /\ PlaceInv)'
<1>1. slot \in [Oper -> Datagram \cup {NoTask}]
  BY DEF IInv, TypeOK
<1>2. \A j \in Oper : slot'[j] = IF j = k THEN NoTask ELSE slot[j]
  BY <1>1
<1>3. NetInv'
  BY DEF IInv, NetInv
<1>4. (applied \subseteq taken /\ \A n \in taken : n \in applied \/ Waiting(n))'
  <2>1. ASSUME NEW n \in taken, Waiting(n) PROVE n = slot[k].n \/ Waiting(n)'
    BY <1>2, <2>1 DEF Waiting
  <2> QED BY <2>1 DEF IInv, PlaceInv
<1>5. (hand # NoTask => hand.n \in taken /\ hand.n \notin applied)'
  BY DEF IInv, PlaceInv
<1>6. (\A j \in Oper :
        slot[j] # NoTask =>
          /\ slot[j].n \in taken /\ slot[j].n \notin applied
          /\ hand # NoTask => slot[j].n # hand.n)'
  BY <1>2 DEF IInv, PlaceInv
<1>7. (\A i, j \in Oper : slot[i] # NoTask /\ slot[j] # NoTask /\ slot[i].n = slot[j].n => i = j)'
  BY <1>2 DEF IInv, PlaceInv
<1> QED BY <1>3, <1>4, <1>5, <1>6, <1>7 DEF PlaceInv

(* Every step leaves each datagram in one place. *)
LEMMA PlaceStep ==
  ASSUME IInv, [Next]_vars
  PROVE (NetInv /\ PlaceInv)'
<1> USE DEF IInv
<1>1. ASSUME NEW t \in Thread, NEW c \in Command, c.type # "cut", Begin(t, c) PROVE (NetInv /\ PlaceInv)'
  BY <1>1 DEF NetInv, PlaceInv, Waiting, Begin, senderVars, receiverVars, operVars, finiVars, historyVars
<1>2. ASSUME NEW t \in Thread, ChangeSession(t) PROVE (NetInv /\ PlaceInv)'
  BY <1>2 DEF NetInv, PlaceInv, Waiting, ChangeSession, senderVars, receiverVars, operVars, finiVars, historyVars
<1>3. ASSUME NEW t \in Thread, ChangeRules(t) PROVE (NetInv /\ PlaceInv)'
  BY <1>3 DEF NetInv, PlaceInv, Waiting, ChangeRules, senderVars, receiverVars, operVars, finiVars, historyVars
<1>4. ASSUME NEW t \in Thread, Cmd2Remote(t) PROVE (NetInv /\ PlaceInv)'
  <2>1. sent \in Nat /\ sent' = sent + 1
    BY <1>4 DEF TypeOK, Cmd2Remote
  <2>2. PICK p : net' = net \cup {[n |-> sent + 1, command |-> p]}
    BY <1>4 DEF Cmd2Remote
  <2>3. NetInv'
    BY <1>4, <2>1, <2>2 DEF NetInv, Cmd2Remote
  <2>4. PlaceInv'
    BY <1>4 DEF PlaceInv, Waiting, Cmd2Remote, senderVars, receiverVars, operVars, finiVars, historyVars
  <2> QED BY <2>3, <2>4
<1>5. ASSUME NEW d \in net, Lose(d) PROVE (NetInv /\ PlaceInv)'
  BY <1>5 DEF NetInv, PlaceInv, Waiting, Lose, senderVars, receiverVars, operVars, finiVars, historyVars
<1>6. ASSUME NEW d \in net, Duplicate(d) PROVE (NetInv /\ PlaceInv)'
  <2>1. sent \in Nat /\ sent' = sent + 1
    BY <1>6 DEF TypeOK, Duplicate
  <2>2. PICK e : net' = net \cup {e} /\ e.n = sent + 1
    <3>1. d \in Datagram
      BY DEF TypeOK
    <3>2. [d EXCEPT !.n = sent + 1].n = sent + 1
      BY <3>1 DEF Datagram
    <3> QED BY <1>6, <3>2 DEF Duplicate
  <2>3. NetInv'
    BY <1>6, <2>1, <2>2 DEF NetInv, Duplicate
  <2>4. PlaceInv'
    BY <1>6 DEF PlaceInv, Waiting, Duplicate, senderVars, receiverVars, operVars, finiVars, historyVars
  <2> QED BY <2>3, <2>4
<1>7. CASE PollTimeout
  BY <1>7 DEF NetInv, PlaceInv, Waiting, PollTimeout, senderVars, receiverVars, operVars, finiVars, historyVars
<1>8. ASSUME NEW d \in net, Receive(d) PROVE (NetInv /\ PlaceInv)'
  <2>1. d.n \in 1 .. sent /\ d.n \notin taken /\ d # NoTask /\ hand = NoTask
    BY <1>8, NoTaskAssumption DEF TypeOK, NetInv, Receive
  <2>2. NetInv'
    BY <1>8, <2>1 DEF NetInv, Receive
  <2>3. PlaceInv'
    BY <1>8, <2>1 DEF PlaceInv, Waiting, Receive, operVars
  <2> QED BY <2>2, <2>3
<1>9. CASE SetTask
  <2>1. index \in Oper /\ slot[index] = NoTask /\ hand # NoTask
    BY <1>9 DEF TypeOK, TokenInv, SetTask
  <2>2. slot' = [slot EXCEPT ![index] = hand] /\ hand' = NoTask /\ slot \in [Oper -> Datagram \cup {NoTask}]
    BY <1>9 DEF TypeOK, SetTask
  <2>3. ASSUME NEW n, Waiting(n) PROVE Waiting(n)'
    BY <2>1, <2>2, <2>3 DEF Waiting
  <2>4. applied' = applied /\ taken' = taken /\ NetInv'
    BY <1>9 DEF NetInv, SetTask, historyVars
  <2>5. \A k \in Oper : slot'[k] = IF k = index THEN hand ELSE slot[k]
    BY <2>1, <2>2
  <2> QED BY <2>1, <2>2, <2>3, <2>4, <2>5 DEF PlaceInv
<1>10. ASSUME NEW k \in Oper, Test(k) PROVE (NetInv /\ PlaceInv)'
  BY <1>10 DEF NetInv, PlaceInv, Waiting, Test, senderVars, receiverVars, operVars, finiVars, historyVars
<1>11. ASSUME NEW k \in Oper, TakeTask(k) PROVE (NetInv /\ PlaceInv)'
  <2>1. slot[k] = NoTask => FirstPart(slot[k]) = "unlock"
    BY DEF FirstPart
  <2>2. CASE slot' = slot /\ applied' = applied
    <3>1. UNCHANGED <<hand, taken, net, sent>>
      BY <1>11 DEF TakeTask, receiverVars
    <3> QED BY <2>2, <3>1 DEF NetInv, PlaceInv, Waiting
  <2>3. CASE slot[k] # NoTask /\ slot' = [slot EXCEPT ![k] = NoTask] /\ applied' = applied \cup {slot[k].n}
    BY <1>11, <2>3, AppliedKeeps DEF TakeTask, receiverVars, historyVars
  <2> QED BY <1>11, <2>1, <2>2, <2>3 DEF TypeOK, TakeTask
<1>12. ASSUME NEW k \in Oper, LockFails(k) PROVE (NetInv /\ PlaceInv)'
  BY <1>12 DEF NetInv, PlaceInv, Waiting, LockFails, senderVars, receiverVars, operVars, finiVars, historyVars
<1>13. ASSUME NEW k \in Oper, ProcessSession(k) PROVE (NetInv /\ PlaceInv)'
  <2>1. slot[k] # NoTask
    BY <1>13 DEF OperInv, ProcessSession
  <2>2. CASE slot' = slot /\ applied' = applied
    BY <1>13, <2>2 DEF NetInv, PlaceInv, Waiting, ProcessSession, receiverVars, historyVars
  <2>3. CASE slot[k] # NoTask /\ slot' = [slot EXCEPT ![k] = NoTask] /\ applied' = applied \cup {slot[k].n}
    BY <1>13, <2>3, AppliedKeeps DEF ProcessSession, receiverVars, historyVars
  <2> QED BY <1>13, <2>1, <2>2, <2>3 DEF ProcessSession
<1>14. ASSUME NEW k \in Oper, ProcessRules(k) PROVE (NetInv /\ PlaceInv)'
  <2>1. slot[k] # NoTask
    BY <1>14 DEF OperInv, ProcessRules
  <2> QED BY <1>14, <2>1, AppliedKeeps DEF ProcessRules, receiverVars, historyVars
<1>15. ASSUME NEW k \in Oper, UnlockSet(k) PROVE (NetInv /\ PlaceInv)'
  BY <1>15 DEF NetInv, PlaceInv, Waiting, UnlockSet, senderVars, receiverVars, operVars, finiVars, historyVars
<1>16. CASE Stop
  BY <1>16 DEF NetInv, PlaceInv, Waiting, Stop, senderVars, receiverVars, operVars, finiVars, historyVars
<1>17. CASE ClearWork
  BY <1>17 DEF NetInv, PlaceInv, Waiting, ClearWork, senderVars, receiverVars, operVars, finiVars, historyVars
<1>18. CASE UnlockOper
  BY <1>18 DEF NetInv, PlaceInv, Waiting, UnlockOper, senderVars, receiverVars, operVars, finiVars, historyVars
<1>19. CASE DestroyOper
  BY <1>19 DEF NetInv, PlaceInv, Waiting, DestroyOper, senderVars, receiverVars, operVars, finiVars, historyVars
<1>20. CASE JoinOper
  BY <1>20 DEF NetInv, PlaceInv, Waiting, JoinOper, senderVars, receiverVars, operVars, finiVars, historyVars
<1>21. CASE UNCHANGED vars
  BY <1>21 DEF NetInv, PlaceInv, Waiting, vars, senderVars, receiverVars, operVars, finiVars, historyVars
<1> QED
  BY <1>1, <1>2, <1>3, <1>4, <1>5, <1>6, <1>7, <1>8, <1>9, <1>10, <1>11, <1>12, <1>13, <1>14, <1>15, <1>16, <1>17, <1>18, <1>19, <1>20, <1>21
     DEF Next, Handler, Network, Receiver, Operator, Fini

-----------------------------------------------------------------------------
LEMMA InitIInv ==
  ASSUME Init
  PROVE IInv
<1>1. OperCount - 1 \in Oper /\ 0 \in Oper
  BY OperAssumption DEF Oper
<1>2. TypeOK
  BY <1>1 DEF Init, TypeOK, Node
<1>3. ThreadInv /\ OperInv /\ TokenInv /\ OrderInv
  BY DEF Init, ThreadInv, OperInv, TokenInv, OrderInv
<1>4. NetInv /\ PlaceInv
  BY DEF Init, NetInv, PlaceInv
<1> QED BY <1>2, <1>3, <1>4 DEF IInv

LEMMA Invariance == Spec => []IInv
<1>1. Init => IInv
  BY InitIInv
<1>2. IInv /\ [Next]_vars => IInv'
  BY TypeStep, ControlStep, PlaceStep DEF IInv
<1> QED BY <1>1, <1>2, PTL DEF Spec

(* All variables keep their types, for any number of operators: the index  *)
(* of pcrf_ipc_select_request_operator never leaves the ring.              *)
THEOREM TypeCorrect == Spec => []TypeOK
<1>1. IInv => TypeOK
  BY DEF IInv
<1> QED BY <1>1, Invariance, PTL

(* The two mutexes of an operator hand a datagram over whole and once.     *)
THEOREM HandedOverOnce == Spec => []TakenOnce
<1>1. ASSUME IInv PROVE TakenOnce
  <2>1. Numbers(InHand) = {n \in taken : hand # NoTask /\ n = hand.n}
    BY <1>1 DEF IInv, PlaceInv, Numbers, InHand
  <2>2. Numbers(Tasks) = {n \in taken : \E k \in Oper : slot[k] # NoTask /\ n = slot[k].n}
    BY <1>1 DEF IInv, PlaceInv, Numbers, Tasks
  <2>3. taken = Numbers(InHand) \cup Numbers(Tasks) \cup applied
    BY <1>1, <2>1, <2>2 DEF IInv, PlaceInv, Waiting
  <2>4. Numbers(InHand) \cap (Numbers(Tasks) \cup applied) = {}
    BY <1>1, <2>1, <2>2 DEF IInv, PlaceInv
  <2>5. Numbers(Tasks) \cap applied = {}
    BY <1>1, <2>2 DEF IInv, PlaceInv
  <2>6. \A j, k \in Oper : slot[j] # NoTask /\ slot[j] = slot[k] => j = k
    BY <1>1 DEF IInv, PlaceInv
  <2> QED BY <2>3, <2>4, <2>5, <2>6 DEF TakenOnce
<1> QED BY <1>1, Invariance, PTL

-----------------------------------------------------------------------------
(* Agreement.  A clean session has one operation at most that is not       *)
(* through at both nodes: the one of a thread, or the one that the         *)
(* datagrams under way are about, copies of each other.                    *)
Works(t, s) == command[t] # NoTask /\ command[t].id = s

UnderWay == net \cup InHand \cup Tasks
Flying(s) == {d \in UnderWay : d.command.id = s}

(* What an operation leaves of the rules of its session *)
NextRules(c, f) ==
  IF c.type = "insert_rule" THEN [f EXCEPT ![c.rule] = @ + 1]
  ELSE [r \in Rule |-> IF c.type = "remove_rule" /\ r # c.rule THEN f[r] ELSE 0]

SameRecord(s) == s \in sessions["here"] <=> s \in sessions["there"]
SameRules(s) == rules["here"][s] = rules["there"][s]

(* How the nodes stand to each other when the first one has so many steps  *)
(* of the operation left *)
Pending(c, s, left) ==
  /\ c.type = "insert_session" =>
       /\ SameRules(s)
       /\ left = 2 => SameRecord(s)
       /\ left # 2 => s \in sessions["there"] \/ Flying(s) # {}
       /\ left = 0 => s \in sessions["here"]
  /\ c.type = "remove_session" =>
       /\ left # 3 => s \notin sessions["here"]
       /\ left \in {0, 1} => rules["here"][s] = [r \in Rule |-> 0]
  /\ c.type \in {"insert_rule", "remove_rule"} =>
       /\ SameRecord(s)
       /\ left = 2 => SameRules(s)
       /\ left # 2 => rules["here"][s] = NextRules(c, rules["there"][s])

Alone(s) == \A t, u \in Thread : Works(t, s) /\ Works(u, s) => t = u

(* A thread that works on it has sent nothing, or has a record to insert.  *)
OneOperation(s) ==
  \A d \in Flying(s) :
    /\ d.command.type # "cut"
    /\ \A t \in Thread : Works(t, s) =>
         /\ d.command = command[t] /\ Len(todo[t]) = 1
         /\ command[t].type = "insert_session"
    /\ \A e \in Flying(s) : /\ e.command = d.command
                            /\ d.command.type = "insert_rule" => e = d

(* An operator in the middle of the end of a session *)
Half(s) ==
  \A k \in Oper :
    (/\ opc[k] = "rules" /\ slot[k].command.id = s
     /\ slot[k].command.type = "remove_session") => s \notin sessions["there"]

Standing(s) ==
  /\ \A t \in Thread : Works(t, s) => Pending(command[t], s, Len(todo[t]))
  /\ (\A t \in Thread : ~Works(t, s)) =>
       /\ \A d \in Flying(s) : Pending(d.command, s, 0)
       /\ Flying(s) = {} => SameRecord(s) /\ SameRules(s)

Clean(s) == Alone(s) /\ OneOperation(s) /\ Half(s) /\ Standing(s)

(* The steps a thread has left are the last ones of its course.            *)
CourseInv ==
  \A t \in Thread :
    /\ command[t] = NoTask => todo[t] = <<>>
    /\ command[t] # NoTask =>
         /\ Len(todo[t]) \in 1 .. Len(Course(command[t]))
         /\ \A i \in 1 .. Len(todo[t]) :
              todo[t][i] = Course(command[t])[Len(Course(command[t])) - Len(todo[t]) + i]

RunInv == fpc = "run" => running /\ rpc # "ended"

CleanInv == fpc = "run" => \A s \in Session : clean[s] => Clean(s)

AgreeInv == CourseInv /\ RunInv /\ CleanInv

(* What the steps of an operation are *)
LEMMA CourseTable ==
  ASSUME NEW c \in Command, c.type # "cut"
  PROVE  /\ c.type \in {"insert_session", "remove_session", "insert_rule", "remove_rule"}
         /\ c.type = "insert_session" =>
              /\ Len(Course(c)) = 2
              /\ Course(c)[1] = "send" /\ Course(c)[2] = "session"
         /\ c.type = "remove_session" =>
              /\ Len(Course(c)) = 3
              /\ Course(c)[1] = "session" /\ Course(c)[2] = "rules" /\ Course(c)[3] = "send"
         /\ c.type \in {"insert_rule", "remove_rule"} =>
              /\ Len(Course(c)) = 2
              /\ Course(c)[1] = "rules" /\ Course(c)[2] = "send"
BY DEF Course, Command

(* The first of so many steps that are left of an operation *)
StepOf(c, left, step) ==
  /\ c.type = "insert_session" =>
       \/ left = 2 /\ step = "send"
       \/ left = 1 /\ step = "session"
  /\ c.type = "remove_session" =>
       \/ left = 3 /\ step = "session"
       \/ left = 2 /\ step = "rules"
       \/ left = 1 /\ step = "send"
  /\ c.type \in {"insert_rule", "remove_rule"} =>
       \/ left = 2 /\ step = "rules"
       \/ left = 1 /\ step = "send"

LEMMA StepsLeft ==
  ASSUME NEW c \in Command, c.type # "cut", NEW left \in 1 .. Len(Course(c))
  PROVE  StepOf(c, left, Course(c)[Len(Course(c)) - left + 1])
<1>1. CASE c.type = "insert_session"
  <2>1. left \in {1, 2} /\ Len(Course(c)) = 2
    BY <1>1, CourseTable
  <2> QED BY <1>1, <2>1, CourseTable DEF StepOf
<1>2. CASE c.type = "remove_session"
  <2>1. left \in {1, 2, 3} /\ Len(Course(c)) = 3
    BY <1>2, CourseTable
  <2> QED BY <1>2, <2>1, CourseTable DEF StepOf
<1>3. CASE c.type \in {"insert_rule", "remove_rule"}
  <2>1. left \in {1, 2} /\ Len(Course(c)) = 2
    BY <1>3, CourseTable
  <2> QED BY <1>3, <2>1, CourseTable DEF StepOf
<1> QED BY <1>1, <1>2, <1>3, CourseTable

(* The step a thread is at, by the number of those it has left *)
LEMMA StepTable ==
  ASSUME IInv, CourseInv, NEW t \in Thread, command[t] # NoTask \/ todo[t] # <<>>
  PROVE  /\ command[t] # NoTask /\ todo[t] # <<>>
         /\ command[t] \in Command /\ command[t].id \in Session
         /\ command[t].type \in {"insert_session", "remove_session", "insert_rule", "remove_rule"}
         /\ Len(todo[t]) \in Nat /\ Len(todo[t]) # 0
         /\ StepOf(command[t], Len(todo[t]), Head(todo[t]))
<1>1. /\ command[t] # NoTask /\ command[t] \in Command
      /\ todo[t] \in Seq({"session", "rules", "send"})
      /\ Len(todo[t]) \in 1 .. Len(Course(command[t]))
      /\ \A i \in 1 .. Len(todo[t]) :
           todo[t][i] = Course(command[t])[Len(Course(command[t])) - Len(todo[t]) + i]
  BY DEF IInv, TypeOK, CourseInv
<1>2. Len(todo[t]) \in Nat /\ Len(todo[t]) # 0 /\ todo[t] # <<>>
  BY <1>1
<1>3. command[t].type # "cut"
  <2>1. 1 \in 1 .. Len(todo[t])
    BY <1>2
  <2> QED BY <2>1 DEF IInv, ThreadInv, Fits
<1>4. command[t].id \in Session
  BY <1>1 DEF Command
<1>5. Head(todo[t]) = Course(command[t])[Len(Course(command[t])) - Len(todo[t]) + 1]
  <2>1. 1 \in 1 .. Len(todo[t]) /\ Head(todo[t]) = todo[t][1]
    BY <1>1, <1>2
  <2> QED BY <1>1, <2>1
<1> QED BY <1>1, <1>2, <1>3, <1>4, <1>5, StepsLeft, CourseTable

(* A thread that goes on *)
LEMMA AdvanceStep ==
  ASSUME IInv, CourseInv, NEW t \in Thread, todo[t] # <<>>, Advance(t)
  PROVE  /\ CourseInv'
         /\ \A u \in Thread \ {t} : command'[u] = command[u] /\ todo'[u] = todo[u]
         /\ Len(todo[t]) = 1 => command'[t] = NoTask
         /\ Len(todo[t]) # 1 => command'[t] = command[t]
         /\ Len(todo'[t]) = Len(todo[t]) - 1
<1>1. /\ todo[t] \in Seq({"session", "rules", "send"}) /\ Len(todo[t]) \in Nat
      /\ Len(todo[t]) # 0 /\ command[t] # NoTask
      /\ DOMAIN command = Thread /\ DOMAIN todo = Thread
  BY DEF IInv, TypeOK, CourseInv
<1>2. /\ Tail(todo[t]) \in Seq({"session", "rules", "send"})
      /\ Len(Tail(todo[t])) = Len(todo[t]) - 1
      /\ \A i \in 1 .. Len(Tail(todo[t])) : Tail(todo[t])[i] = todo[t][i + 1]
  BY <1>1
<1>3. todo' = [todo EXCEPT ![t] = Tail(todo[t])]
  BY DEF Advance
<1>4. /\ todo'[t] = Tail(todo[t])
      /\ \A u \in Thread \ {t} : command'[u] = command[u] /\ todo'[u] = todo[u]
      /\ Len(todo[t]) = 1 => command'[t] = NoTask
      /\ Len(todo[t]) # 1 => command'[t] = command[t]
  BY <1>1, <1>3 DEF Advance
<1>5. ASSUME NEW u \in Thread
      PROVE  /\ command'[u] = NoTask => todo'[u] = <<>>
             /\ command'[u] # NoTask =>
                  /\ Len(todo'[u]) \in 1 .. Len(Course(command'[u]))
                  /\ \A i \in 1 .. Len(todo'[u]) :
                       todo'[u][i] = Course(command'[u])
                         [Len(Course(command'[u])) - Len(todo'[u]) + i]
  <2>1. CASE u # t
    <3>1. command'[u] = command[u] /\ todo'[u] = todo[u]
      BY <1>4, <2>1
    <3>2. /\ command[u] = NoTask => todo[u] = <<>>
          /\ command[u] # NoTask =>
               /\ Len(todo[u]) \in 1 .. Len(Course(command[u]))
               /\ \A i \in 1 .. Len(todo[u]) :
                    todo[u][i] = Course(command[u])[Len(Course(command[u])) - Len(todo[u]) + i]
      BY DEF CourseInv
    <3> QED BY ONLY <3>1, <3>2
  <2>2. CASE u = t /\ Len(todo[t]) = 1
    <3>1. command'[u] = NoTask /\ todo'[u] = Tail(todo[t])
      BY <1>4, <2>2
    <3>2. Len(Tail(todo[t])) = 0
      BY <1>1, <1>2, <2>2
    <3> DEFINE q == Tail(todo[t])
    <3>3. q = <<>>
      <4>1. q \in Seq({"session", "rules", "send"}) /\ Len(q) = 0
        BY <1>2, <3>2
      <4> HIDE DEF q
      <4> QED BY <4>1
    <3> QED BY <3>1, <3>3
  <2>3. CASE u = t /\ Len(todo[t]) # 1
    <3> DEFINE c == command[t]
    <3>1. /\ Len(todo[t]) \in 1 .. Len(Course(c))
          /\ \A i \in 1 .. Len(todo[t]) :
               todo[t][i] = Course(c)[Len(Course(c)) - Len(todo[t]) + i]
      BY <1>1 DEF CourseInv
    <3>2. Len(Course(c)) \in Nat
      <4>1. c \in Command /\ c.type # "cut"
        BY <1>1, StepTable
      <4> QED BY <4>1, CourseTable
    <3>3. command'[t] = c /\ c # NoTask
      BY <1>1, <1>4, <2>3
    <3>4. Len(todo'[t]) \in 1 .. Len(Course(c))
      BY <1>1, <1>2, <1>4, <2>3, <3>1, <3>2
    <3>5. ASSUME NEW i \in 1 .. Len(todo'[t])
          PROVE  todo'[t][i] = Course(c)[Len(Course(c)) - Len(todo'[t]) + i]
      <4>1. i + 1 \in 1 .. Len(todo[t])
        BY <1>1, <1>2, <1>4
      <4>2. todo'[t][i] = todo[t][i + 1]
        BY <1>2, <1>4
      <4>3. Len(Course(c)) - Len(todo'[t]) + i = Len(Course(c)) - Len(todo[t]) + (i + 1)
        BY <1>1, <1>2, <1>4, <3>2
      <4> QED BY <3>1, <4>1, <4>2, <4>3
    <3> QED BY <2>3, <3>3, <3>4, <3>5
  <2> QED BY <2>1, <2>2, <2>3
<1> QED BY <1>2, <1>4, <1>5 DEF CourseInv

(* The effect of an operation on rules is one on the session it names. *)
LEMMA RulesEffect ==
  ASSUME NEW c \in Command, c.type \in {"insert_rule", "remove_rule", "remove_session"},
         NEW R \in [Session -> [Rule -> Nat]]
  PROVE  /\ AfterRules(c, R)[c.id] = NextRules(c, R[c.id])
         /\ \A s \in Session \ {c.id} : AfterRules(c, R)[s] = R[s]
         /\ c.type = "remove_session" => NextRules(c, R[c.id]) = [r \in Rule |-> 0]
         /\ c.type = "remove_rule" =>
              NextRules(c, NextRules(c, R[c.id])) = NextRules(c, R[c.id])
<1>1. c.id \in Session
  BY DEF Command
<1>2. CASE c.type = "insert_rule"
  BY <1>1, <1>2 DEF AfterRules, NextRules
<1>3. CASE c.type # "insert_rule"
  <2>1. AfterRules(c, R) =
          [R EXCEPT ![c.id] =
             [r \in Rule |-> IF c.type = "remove_rule" /\ r # c.rule THEN R[c.id][r] ELSE 0]]
    BY <1>3 DEF AfterRules
  <2> QED BY <1>1, <1>3, <2>1 DEF NextRules
<1> QED BY <1>2, <1>3

(* Nothing happens that concerns a session. *)
LEMMA Unconcerned ==
  ASSUME NEW s \in Session, Clean(s),
         \A t \in Thread : /\ Works(t, s)' = Works(t, s)
                           /\ Works(t, s) => command'[t] = command[t] /\ todo'[t] = todo[t],
         Flying(s)' = Flying(s), Half(s)',
         \A p \in Node : /\ s \in sessions'[p] <=> s \in sessions[p]
                         /\ rules'[p][s] = rules[p][s]
  PROVE  Clean(s)'
<1>1. SameRecord(s)' = SameRecord(s) /\ SameRules(s)' = SameRules(s)
  BY DEF SameRecord, SameRules, Node
<1>2. \A c, left : Pending(c, s, left)' = Pending(c, s, left)
  BY <1>1 DEF Pending, Node
<1>3. Alone(s)'
  BY DEF Alone, Clean
<1>4. OneOperation(s)'
  BY DEF OneOperation, Clean
<1>5. Standing(s)'
  BY <1>1, <1>2 DEF Standing, Clean
<1> QED BY <1>3, <1>4, <1>5 DEF Clean

LEMMA UnderWayKeeps ==
  ASSUME UNCHANGED <<net, hand, slot>>
  PROVE  /\ UnderWay' = UnderWay
         /\ \A s \in Session : Flying(s)' = Flying(s)
<1>1. UnderWay' = UnderWay
  BY DEF UnderWay, InHand, Tasks
<1> QED BY <1>1 DEF Flying

(* A task that leaves its slot is no longer under way. *)
LEMMA LeavesSlot ==
  ASSUME IInv, NEW k \in Oper, slot[k] # NoTask,
         slot' = [slot EXCEPT ![k] = NoTask], UNCHANGED <<net, hand>>
  PROVE  /\ slot[k] \in Flying(slot[k].command.id)
         /\ \A s \in Session : Flying(s)' = Flying(s) \ {slot[k]}
<1>1. \A j \in Oper : slot'[j] = IF j = k THEN NoTask ELSE slot[j]
  BY DEF IInv, TypeOK
<1>2. slot[k] \in Tasks /\ slot[k] \notin net /\ slot[k] \notin InHand
  BY DEF IInv, NetInv, PlaceInv, Tasks, InHand
<1>3. Tasks' = Tasks \ {slot[k]}
  <2>1. \A j \in Oper : slot[j] # NoTask /\ slot[j] = slot[k] => j = k
    BY DEF IInv, PlaceInv
  <2> QED BY <1>1, <2>1 DEF Tasks
<1>4. UnderWay' = UnderWay \ {slot[k]} /\ slot[k] \in UnderWay
  BY <1>2, <1>3 DEF UnderWay, InHand
<1> QED BY <1>4 DEF Flying

(* A thread that goes on does not concern the sessions of the others. *)
LEMMA AdvanceOthers ==
  ASSUME IInv, CourseInv, NEW t \in Thread, todo[t] # <<>>, Advance(t), NEW s \in Session,
         command[t].id # s
  PROVE  \A u \in Thread : /\ Works(u, s)' = Works(u, s)
                           /\ Works(u, s) => command'[u] = command[u] /\ todo'[u] = todo[u]
<1>1. /\ \A u \in Thread \ {t} : command'[u] = command[u] /\ todo'[u] = todo[u]
      /\ command'[t] \in {NoTask, command[t]}
  BY AdvanceStep
<1> QED BY <1>1 DEF Works

-----------------------------------------------------------------------------
LEMMA BeginClean ==
  ASSUME IInv, CourseInv, NEW t \in Thread, NEW c \in Command, c.type # "cut", Begin(t, c),
         NEW s \in Session, clean[s] => Clean(s), clean'[s]
  PROVE  Clean(s)'
<1>1. /\ command' = [command EXCEPT ![t] = c] /\ todo' = [todo EXCEPT ![t] = Course(c)]
      /\ command[t] = NoTask /\ UNCHANGED <<net, hand, slot, opc, sessions, rules>>
      /\ clean' = [clean EXCEPT ![c.id] = Calm(c.id) /\ (@ \/ c.type = "remove_session")]
      /\ DOMAIN command = Thread /\ DOMAIN todo = Thread /\ DOMAIN clean = Session
      /\ c # NoTask
  BY NoTaskAssumption DEF IInv, TypeOK, Begin, receiverVars, operVars
<1>2. \A u \in Thread : /\ command'[u] = IF u = t THEN c ELSE command[u]
                        /\ todo'[u] = IF u = t THEN Course(c) ELSE todo[u]
  BY <1>1
<1>3. Flying(s)' = Flying(s)
  BY <1>1, UnderWayKeeps
<1>4. CASE c.id # s
  <2>1. clean[s] /\ Clean(s)
    BY <1>1, <1>4
  <2>2. Half(s)'
    BY <1>1, <2>1 DEF Half, Clean
  <2>3. \A u \in Thread : /\ Works(u, s)' = Works(u, s)
                          /\ Works(u, s) => command'[u] = command[u] /\ todo'[u] = todo[u]
    BY <1>1, <1>2, <1>4 DEF Works
  <2> QED BY <1>1, <1>3, <2>1, <2>2, <2>3, Unconcerned
<1>5. CASE c.id = s
  <2>1. Calm(s) /\ (clean[s] \/ c.type = "remove_session")
    BY <1>1, <1>5
  <2>2. /\ \A u \in Thread : ~Works(u, s)
        /\ Flying(s) = {}
        /\ \A k \in Oper : slot[k] # NoTask => slot[k].command.id # s
    BY <2>1 DEF Calm, Works, Flying, UnderWay, InHand, Tasks
  <2>3. \A u \in Thread : Works(u, s)' <=> u = t
    BY <1>1, <1>2, <1>5, <2>2 DEF Works
  <2>4. Alone(s)' /\ OneOperation(s)'
    BY <1>3, <2>2, <2>3 DEF Alone, OneOperation
  <2>5. Half(s)'
    BY <1>1, <2>2 DEF Half, IInv, OperInv
  <2>6. clean[s] => SameRecord(s) /\ SameRules(s)
    BY <2>2 DEF Clean, Standing
  <2>7. SameRecord(s)' = SameRecord(s) /\ SameRules(s)' = SameRules(s)
    BY <1>1 DEF SameRecord, SameRules
  <2>8. Pending(c, s, Len(Course(c)))'
    BY <2>1, <2>6, <2>7, CourseTable DEF Pending
  <2>9. Standing(s)'
    BY <1>2, <2>3, <2>8 DEF Standing
  <2> QED BY <2>4, <2>5, <2>9 DEF Clean
<1> QED BY <1>4, <1>5

LEMMA ChangeSessionClean ==
  ASSUME IInv, CourseInv, NEW t \in Thread, ChangeSession(t),
         NEW s \in Session, Clean(s)
  PROVE  Clean(s)'
<1>0. PICK c, left : c = command[t] /\ left = Len(todo[t])
  OBVIOUS
<1>1. /\ todo[t] # <<>> /\ Head(todo[t]) = "session" /\ Advance(t)
      /\ UNCHANGED <<net, hand, slot, opc, rules>>
      /\ sessions' = [sessions EXCEPT !["here"] = AfterSession(c, @)]
      /\ DOMAIN sessions = Node
  BY <1>0 DEF IInv, TypeOK, ChangeSession, At, receiverVars, operVars
<1>2. /\ c # NoTask /\ c \in Command /\ left \in Nat
      /\ StepOf(c, left, "session")
      /\ c.type \in {"insert_session", "remove_session", "insert_rule", "remove_rule"}
  BY <1>0, <1>1, StepTable
<1>3. sessions'["there"] = sessions["there"] /\ sessions'["here"] = AfterSession(c, sessions["here"])
  BY <1>1 DEF Node
<1>4. Flying(s)' = Flying(s) /\ Half(s)'
  BY <1>1, <1>3, UnderWayKeeps DEF Half, Clean
<1>5. CASE c.id # s
  <2>1. s \in sessions'["here"] <=> s \in sessions["here"]
    BY <1>3, <1>5 DEF AfterSession
  <2> QED BY <1>0, <1>1, <1>3, <1>4, <1>5, <2>1, Unconcerned, AdvanceOthers DEF Node
<1>6. CASE c.id = s
  <2>1. /\ \A u \in Thread : Works(u, s) <=> u = t
        /\ Alone(s) /\ OneOperation(s) /\ Standing(s)
    BY <1>0, <1>2, <1>6 DEF Works, Alone, Clean
  <2>2. Pending(c, s, left)
    BY <1>0, <2>1 DEF Standing
  <2>3. \A u \in Thread \ {t} : ~Works(u, s)'
    BY <1>0, <1>1, <2>1, AdvanceStep DEF Works
  <2>4. Alone(s)'
    BY <2>3 DEF Alone
  <2>5. CASE c.type = "insert_session"
    <3>1. left = 1 /\ command'[t] = NoTask
      BY <1>0, <1>1, <1>2, <2>5, AdvanceStep DEF StepOf
    <3>2. \A u \in Thread : ~Works(u, s)'
      BY <1>0, <2>3, <3>1 DEF Works
    <3>3. OneOperation(s)'
      BY <1>0, <1>4, <2>1, <3>2 DEF OneOperation
    <3>4. /\ rules["here"][s] = rules["there"][s]
          /\ s \in sessions["there"] \/ Flying(s) # {}
          /\ s \in sessions'["here"]
      BY <1>3, <1>6, <2>2, <2>5, <3>1 DEF Pending, SameRules, AfterSession
    <3>5. \A d \in Flying(s) : d.command = c
      BY <1>0, <2>1 DEF OneOperation
    <3>6. Pending(c, s, 0)'
      BY <1>1, <1>3, <1>4, <2>5, <3>4 DEF Pending, SameRules
    <3>7. Flying(s) = {} => SameRecord(s)' /\ SameRules(s)'
      BY <1>1, <1>3, <3>4 DEF SameRecord, SameRules
    <3>8. Standing(s)'
      BY <1>0, <1>4, <3>2, <3>5, <3>6, <3>7 DEF Standing
    <3> QED BY <1>4, <2>4, <3>3, <3>8 DEF Clean
  <2>6. CASE c.type = "remove_session"
    <3>1. left = 3 /\ command'[t] = c /\ Len(todo'[t]) = 2
      <4>0. left = 3
        BY <1>2, <2>6 DEF StepOf
      <4>1. left = 3 /\ Len(todo[t]) = 3 /\ Len(todo[t]) # 1
        BY <1>0, <4>0
      <4>2. Len(todo'[t]) = Len(todo[t]) - 1 /\ command'[t] = command[t]
        BY <1>1, <4>1, AdvanceStep, Zenon
      <4> QED BY ONLY <1>0, <4>1, <4>2
    <3>2. Works(t, s)'
      BY <1>0, <1>2, <1>6, <3>1 DEF Works
    <3>3. Flying(s) = {}
      BY <1>0, <2>1, <2>6 DEF OneOperation
    <3>4. OneOperation(s)'
      BY <1>0, <1>4, <3>3 DEF OneOperation
    <3>5. s \notin sessions'["here"]
      BY <1>3, <1>6, <2>6 DEF AfterSession
    <3>6. Pending(c, s, 2)'
      BY <2>6, <3>5 DEF Pending
    <3>7. Standing(s)'
      BY <1>0, <2>3, <3>1, <3>2, <3>6 DEF Standing
    <3> QED BY <1>4, <2>4, <3>4, <3>7 DEF Clean
  <2> QED BY <1>2, <2>5, <2>6 DEF StepOf
<1> QED BY <1>5, <1>6

LEMMA ChangeRulesClean ==
  ASSUME IInv, CourseInv, NEW t \in Thread, ChangeRules(t),
         NEW s \in Session, Clean(s)
  PROVE  Clean(s)'
<1>0. PICK c, left : c = command[t] /\ left = Len(todo[t])
  OBVIOUS
<1>1. /\ todo[t] # <<>> /\ Head(todo[t]) = "rules" /\ Advance(t)
      /\ UNCHANGED <<net, hand, slot, opc, sessions>>
      /\ rules' = [rules EXCEPT !["here"] = AfterRules(c, @)]
      /\ DOMAIN rules = Node /\ rules["here"] \in [Session -> [Rule -> Nat]]
  BY <1>0 DEF IInv, TypeOK, ChangeRules, At, receiverVars, operVars, Node
<1>2. /\ c # NoTask /\ c \in Command /\ left \in Nat /\ c.id \in Session
      /\ StepOf(c, left, "rules")
      /\ c.type \in {"insert_session", "remove_session", "insert_rule", "remove_rule"}
  BY <1>0, <1>1, StepTable
<1>3. rules'["there"] = rules["there"] /\ rules'["here"] = AfterRules(c, rules["here"])
  BY <1>1 DEF Node
<1>4. Flying(s)' = Flying(s) /\ Half(s)'
  BY <1>1, <1>3, UnderWayKeeps DEF Half, Clean
<1>5. c.type \in {"remove_session", "insert_rule", "remove_rule"} /\ left = 2
  BY <1>2 DEF StepOf
<1>6. CASE c.id # s
  <2>1. rules'["here"][s] = rules["here"][s]
    BY <1>0, <1>1, <1>2, <1>3, <1>5, <1>6, RulesEffect
  <2> QED BY <1>0, <1>1, <1>3, <1>4, <1>6, <2>1, Unconcerned, AdvanceOthers DEF Node
<1>7. CASE c.id = s
  <2>1. /\ \A u \in Thread : Works(u, s) <=> u = t
        /\ Alone(s) /\ OneOperation(s) /\ Standing(s)
    BY <1>0, <1>2, <1>7 DEF Works, Alone, Clean
  <2>2. Pending(c, s, 2)
    BY <1>0, <1>5, <2>1 DEF Standing
  <2>3. \A u \in Thread \ {t} : ~Works(u, s)'
    BY <1>0, <1>1, <2>1, AdvanceStep DEF Works
  <2>4. command'[t] = c /\ Len(todo'[t]) = 1 /\ Works(t, s)'
    <3>1. Len(todo[t]) = 2 /\ Len(todo[t]) # 1
      BY <1>0, <1>5
    <3>2. Len(todo'[t]) = Len(todo[t]) - 1 /\ command'[t] = command[t]
      BY <1>1, <3>1, AdvanceStep, Zenon
    <3>3. Len(todo'[t]) = 1
      BY ONLY <3>1, <3>2
    <3> QED BY <1>0, <1>2, <1>7, <3>2, <3>3 DEF Works
  <2>5. Flying(s) = {}
    BY <1>0, <1>5, <2>1 DEF OneOperation
  <2>6. Alone(s)' /\ OneOperation(s)'
    BY <1>0, <1>4, <2>3, <2>5 DEF Alone, OneOperation
  <2>7. rules'["here"][s] = NextRules(c, rules["here"][s])
    BY <1>0, <1>1, <1>2, <1>3, <1>5, <1>7, RulesEffect
  <2>8. Pending(c, s, 1)'
    <3>1. CASE c.type = "remove_session"
      BY <1>0, <1>1, <1>2, <1>7, <2>2, <2>7, <3>1, RulesEffect DEF Pending
    <3>2. CASE c.type \in {"insert_rule", "remove_rule"}
      BY <1>1, <1>3, <2>2, <2>7, <3>2 DEF Pending, SameRecord, SameRules
    <3> QED BY <1>5, <3>1, <3>2
  <2>9. Standing(s)'
    BY <1>0, <2>3, <2>4, <2>8 DEF Standing
  <2> QED BY <1>4, <2>6, <2>9 DEF Clean
<1> QED BY <1>6, <1>7

LEMMA Cmd2RemoteClean ==
  ASSUME IInv, CourseInv, NEW t \in Thread, Cmd2Remote(t),
         NEW s \in Session, clean[s] => Clean(s), clean'[s]
  PROVE  Clean(s)'
<1>0. PICK c, left : c = command[t] /\ left = Len(todo[t])
  OBVIOUS
<1>1. /\ todo[t] # <<>> /\ Head(todo[t]) = "send" /\ Advance(t)
      /\ UNCHANGED <<hand, slot, opc, sessions, rules>>
      /\ DOMAIN clean = Session
  BY DEF IInv, TypeOK, Cmd2Remote, At, receiverVars, operVars
<1>2. /\ c # NoTask /\ c \in Command /\ left \in Nat /\ c.id \in Session
      /\ StepOf(c, left, "send")
      /\ c.type \in {"insert_session", "remove_session", "insert_rule", "remove_rule"}
  BY <1>0, <1>1, StepTable
<1>3. PICK p \in Packets(c) :
        /\ net' = net \cup {[n |-> sent + 1, command |-> p]}
        /\ clean' = [clean EXCEPT ![p.id] = @ /\ p = c]
  BY <1>0 DEF Cmd2Remote
<1>4. PICK e : e = [n |-> sent + 1, command |-> p]
  OBVIOUS
<1>5. /\ p.id = c.id /\ e.command = p
      /\ Flying(s)' = IF c.id = s THEN Flying(s) \cup {e} ELSE Flying(s)
  <2>1. p.id = c.id /\ e.command = p
    BY <1>2, <1>4, PacketsTyped
  <2>2. UnderWay' = UnderWay \cup {e}
    BY <1>1, <1>3, <1>4 DEF UnderWay, InHand, Tasks
  <2> QED BY <2>1, <2>2 DEF Flying
<1>6. clean[s] /\ Clean(s) /\ (c.id = s => p = c)
  BY <1>1, <1>3, <1>5
<1>7. Half(s)'
  BY <1>1, <1>6 DEF Half, Clean
<1>8. CASE c.id # s
  BY <1>0, <1>1, <1>5, <1>6, <1>7, <1>8, Unconcerned, AdvanceOthers DEF Node
<1>9. CASE c.id = s
  <2>1. /\ \A u \in Thread : Works(u, s) <=> u = t
        /\ Alone(s) /\ OneOperation(s) /\ Standing(s)
    BY <1>0, <1>2, <1>6, <1>9 DEF Works, Alone, Clean
  <2>2. Pending(c, s, left)
    BY <1>0, <2>1 DEF Standing
  <2>3. \A u \in Thread \ {t} : ~Works(u, s)'
    BY <1>1, <2>1, AdvanceStep DEF Works
  <2>4. Flying(s) = {}
    <3>1. ~(left = 1 /\ c.type = "insert_session")
      BY <1>2 DEF StepOf
    <3> QED BY <1>0, <2>1, <3>1 DEF OneOperation
  <2>5. Flying(s)' = {e} /\ e.command = c
    BY <1>5, <1>6, <1>9, <2>4
  <2>6. Alone(s)'
    BY <2>3 DEF Alone
  <2>7. SameRecord(s)' = SameRecord(s) /\ SameRules(s)' = SameRules(s)
    BY <1>1 DEF SameRecord, SameRules
  <2>8. CASE c.type = "insert_session"
    <3>1. left = 2
      BY <1>2, <2>8 DEF StepOf
    <3>2. Len(todo[t]) = 2 /\ Len(todo[t]) # 1
      BY <1>0, <3>1
    <3>3. Len(todo'[t]) = Len(todo[t]) - 1 /\ command'[t] = command[t]
      BY <1>1, <3>2, AdvanceStep, Zenon
    <3>4. Len(todo'[t]) = 1 /\ command'[t] = c
      BY ONLY <1>0, <3>2, <3>3
    <3>5. Works(t, s)'
      BY <1>2, <1>9, <3>4 DEF Works
    <3>6. OneOperation(s)'
      BY <1>2, <2>3, <2>5, <2>8, <3>4 DEF OneOperation
    <3>7. Pending(c, s, 1)'
      BY <2>2, <2>5, <2>7, <2>8, <3>1 DEF Pending
    <3>8. Standing(s)'
      BY <2>3, <3>4, <3>5, <3>7 DEF Standing
    <3> QED BY <1>7, <2>6, <3>6, <3>8 DEF Clean
  <2>9. CASE c.type # "insert_session"
    <3>1. left = 1
      BY <1>2, <2>9 DEF StepOf
    <3>2. command'[t] = NoTask
      BY <1>0, <1>1, <3>1, AdvanceStep
    <3>3. \A u \in Thread : ~Works(u, s)'
      BY <2>3, <3>2 DEF Works
    <3>4. OneOperation(s)'
      BY <1>2, <2>5, <3>3 DEF OneOperation
    <3>5. Pending(c, s, 0)'
      BY <1>1, <1>2, <2>2, <2>7, <2>9, <3>1 DEF Pending
    <3>6. Standing(s)'
      BY <2>5, <3>3, <3>5 DEF Standing
    <3> QED BY <1>7, <2>6, <3>4, <3>6 DEF Clean
  <2> QED BY <2>8, <2>9
<1> QED BY <1>8, <1>9

LEMMA NetworkClean ==
  ASSUME IInv, NEW d \in net, Lose(d) \/ Duplicate(d),
         NEW s \in Session, clean[s] => Clean(s), clean'[s]
  PROVE  Clean(s)'
<1>1. /\ UNCHANGED <<command, todo, hand, slot, opc, sessions, rules>>
      /\ DOMAIN clean = Session
  BY DEF IInv, TypeOK, Lose, Duplicate, senderVars, receiverVars, operVars
<1>2. /\ d \in Datagram /\ d.command.id \in Session
      /\ d.n \in 1 .. sent /\ d.n \in Nat
      /\ d \notin InHand /\ d \notin Tasks
  BY DEF IInv, TypeOK, Datagram, Command, NetInv, PlaceInv, InHand, Tasks
<1>3. CASE Lose(d)
  <2>1. clean[s] /\ d.command.id # s
    BY <1>1, <1>2, <1>3 DEF Lose
  <2>2. Flying(s)' = Flying(s)
    <3>1. UnderWay' = UnderWay \ {d}
      BY <1>1, <1>2, <1>3 DEF UnderWay, InHand, Tasks, Lose
    <3> QED BY <2>1, <3>1 DEF Flying
  <2>3. Half(s)'
    BY <1>1, <2>1 DEF Half, Clean
  <2> QED BY <1>1, <2>1, <2>2, <2>3, Unconcerned DEF Works
<1>4. CASE Duplicate(d)
  <2>0. PICK e : e = [d EXCEPT !.n = sent + 1]
    OBVIOUS
  <2>1. /\ clean[s] /\ (d.command.id = s => d.command.type # "insert_rule")
        /\ net' = net \cup {e}
    BY <1>1, <1>2, <1>4, <2>0 DEF Duplicate
  <2>2. e.command = d.command
    BY <1>2, <2>0 DEF Datagram
  <2>3. Flying(s)' = IF d.command.id = s THEN Flying(s) \cup {e} ELSE Flying(s)
    <3>1. UnderWay' = UnderWay \cup {e}
      BY <1>1, <2>1 DEF UnderWay, InHand, Tasks
    <3> QED BY <2>2, <3>1 DEF Flying
  <2>4. Half(s)'
    BY <1>1, <2>1 DEF Half, Clean
  <2>5. CASE d.command.id # s
    BY <1>1, <2>1, <2>3, <2>4, <2>5, Unconcerned DEF Works
  <2>6. CASE d.command.id = s
    <3>1. d \in Flying(s) /\ Flying(s)' = Flying(s) \cup {e}
      BY <2>3, <2>6 DEF Flying, UnderWay
    <3>2. \A t \in Thread : Works(t, s)' = Works(t, s)
      BY <1>1 DEF Works
    <3>3. Alone(s)'
      BY <2>1, <3>2 DEF Alone, Clean
    <3>4. OneOperation(s)'
      BY <1>1, <2>1, <2>2, <2>6, <3>1, <3>2 DEF OneOperation, Clean
    <3>5. \A c, left : Pending(c, s, left)' = Pending(c, s, left)
      BY <1>1, <3>1 DEF Pending, SameRecord, SameRules
    <3>6. Standing(s)'
      BY <1>1, <2>1, <2>2, <3>1, <3>2, <3>5 DEF Standing, Clean
    <3> QED BY <2>4, <3>3, <3>4, <3>6 DEF Clean
  <2> QED BY <2>5, <2>6
<1> QED BY <1>3, <1>4

(* The receiver passes a datagram on. *)
LEMMA ReceiverClean ==
  ASSUME IInv, rpc # "ended", PollTimeout \/ SetTask \/ (\E d \in net : Receive(d)),
         NEW s \in Session, Clean(s)
  PROVE  Clean(s)'
<1>1. UNCHANGED <<command, todo, opc, sessions, rules>>
  BY DEF PollTimeout, SetTask, Receive, senderVars, operVars
<1>2. CASE PollTimeout
  <2>1. UNCHANGED <<net, hand, slot>>
    BY <1>2 DEF PollTimeout, operVars
  <2>2. Half(s)'
    BY <1>1, <2>1 DEF Half, Clean
  <2> QED BY <1>1, <2>1, <2>2, UnderWayKeeps, Unconcerned DEF Works
<1>3. CASE SetTask
  <2>1. /\ index \in Oper /\ slot[index] = NoTask /\ hand # NoTask /\ hand' = NoTask
        /\ slot' = [slot EXCEPT ![index] = hand] /\ net' = net
        /\ opc[index] # "rules" /\ DOMAIN slot = Oper
    BY <1>3 DEF IInv, TypeOK, TokenInv, SetTask
  <2>2. \A k \in Oper : slot'[k] = IF k = index THEN hand ELSE slot[k]
    BY <2>1
  <2>3. Tasks' = Tasks \cup {hand}
    BY <2>1, <2>2 DEF Tasks
  <2>4. Flying(s)' = Flying(s)
    BY <2>1, <2>3 DEF Flying, UnderWay, InHand
  <2>5. Half(s)'
    BY <1>1, <2>1, <2>2 DEF Half, Clean
  <2> QED BY <1>1, <2>4, <2>5, Unconcerned DEF Works
<1>4. ASSUME NEW d \in net, Receive(d) PROVE Clean(s)'
  <2>1. /\ hand = NoTask /\ hand' = d /\ net' = net \ {d} /\ slot' = slot /\ d # NoTask
    BY <1>4, NoTaskAssumption DEF IInv, TypeOK, Receive, operVars
  <2>2. UnderWay' = UnderWay
    BY <2>1 DEF UnderWay, InHand, Tasks
  <2>3. Half(s)' /\ Flying(s)' = Flying(s)
    BY <1>1, <2>1, <2>2 DEF Half, Clean, Flying
  <2> QED BY <1>1, <2>3, Unconcerned DEF Works
<1> QED BY <1>2, <1>3, <1>4

(* An operator takes its task, or goes on to the next one. *)
LEMMA OperatorWaits ==
  ASSUME IInv, NEW k \in Oper, Test(k) \/ TakeTask(k) \/ LockFails(k) \/ UnlockSet(k),
         NEW s \in Session, Clean(s)
  PROVE  Clean(s)'
<1>1. /\ UNCHANGED <<command, todo, net, hand, sessions, rules>>
      /\ DOMAIN opc = Oper /\ DOMAIN slot = Oper
  BY DEF IInv, TypeOK, Test, TakeTask, LockFails, UnlockSet, senderVars, receiverVars
<1>2. CASE slot' = slot
  <2>1. \A j \in Oper : opc'[j] = "rules" =>
          opc[j] = "rules" \/ slot[j].command.type # "remove_session"
    BY <1>1, <1>2 DEF Test, TakeTask, LockFails, UnlockSet, FirstPart
  <2>2. Half(s)'
    BY <1>1, <1>2, <2>1 DEF Half, Clean
  <2> QED BY <1>1, <1>2, <2>2, UnderWayKeeps, Unconcerned DEF Works
<1>3. CASE slot' # slot
  <2>1. /\ TakeTask(k) /\ slot[k] # NoTask /\ FirstPart(slot[k]) = "unlock"
        /\ slot' = [slot EXCEPT ![k] = NoTask] /\ opc' = [opc EXCEPT ![k] = "unlock"]
    BY <1>1, <1>3 DEF Test, TakeTask, LockFails, UnlockSet, operVars, IInv, TypeOK
  <2>2. slot[k].command.type = "cut"
    BY <2>1 DEF FirstPart
  <2>3. slot[k] \in Flying(slot[k].command.id) /\ Flying(s)' = Flying(s) \ {slot[k]}
    BY <1>1, <2>1, LeavesSlot
  <2>4. slot[k] \notin Flying(s)
    BY <2>2 DEF Clean, OneOperation
  <2>5. Half(s)'
    BY <1>1, <2>1 DEF Half, Clean
  <2> QED BY <1>1, <2>3, <2>4, <2>5, Unconcerned DEF Works
<1> QED BY <1>2, <1>3

LEMMA ProcessSessionClean ==
  ASSUME IInv, CourseInv, NEW k \in Oper, ProcessSession(k),
         NEW s \in Session, Clean(s)
  PROVE  Clean(s)'
<1>1. PICK d : d = slot[k]
  OBVIOUS
<1>2. /\ d # NoTask /\ d \in Datagram /\ d.command.id \in Session
      /\ d.command.type \in {"insert_session", "remove_session"}
      /\ opc[k] = "session"
  BY <1>1 DEF IInv, TypeOK, OperInv, Fits, Datagram, Command, ProcessSession
<1>3. /\ UNCHANGED <<command, todo, net, hand, rules>>
      /\ DOMAIN opc = Oper /\ DOMAIN slot = Oper
      /\ sessions'["here"] = sessions["here"]
      /\ sessions'["there"] = AfterSession(d.command, sessions["there"])
  BY <1>1 DEF IInv, TypeOK, ProcessSession, senderVars, receiverVars, Node
<1>4. d \in UnderWay
  BY <1>1, <1>2 DEF UnderWay, Tasks
<1>5. \A t \in Thread : Works(t, s)' = Works(t, s)
  BY <1>3 DEF Works
<1>6. Alone(s)'
  BY <1>5 DEF Alone, Clean
<1>7. \A t \in Thread : Works(t, s) => command[t] \in Command
  BY DEF Works, IInv, TypeOK
<1>8. CASE d.command.type = "remove_session"
  <2>1. slot' = slot /\ opc' = [opc EXCEPT ![k] = "rules"]
    BY <1>1, <1>8 DEF ProcessSession
  <2>2. Flying(s)' = Flying(s)
    BY <1>3, <2>1, UnderWayKeeps
  <2>3. CASE d.command.id # s
    <3>1. s \in sessions'["there"] <=> s \in sessions["there"]
      BY <1>3, <2>3 DEF AfterSession
    <3>2. Half(s)'
      BY <1>1, <1>3, <2>1, <2>3, <3>1 DEF Half, Clean
    <3> QED BY <1>3, <1>5, <2>2, <3>1, <3>2, Unconcerned DEF Node
  <2>4. CASE d.command.id = s
    <3>1. d \in Flying(s)
      BY <1>4, <2>4 DEF Flying
    <3>2. Half(s)'
      BY <1>3, <1>8, <2>4 DEF Half, AfterSession
    <3>3. \A t \in Thread : ~Works(t, s)
      BY <1>8, <3>1 DEF Clean, OneOperation
    <3>4. \A e \in Flying(s) : e.command = d.command
      BY <3>1 DEF Clean, OneOperation
    <3>5. OneOperation(s)'
      BY <1>3, <1>5, <2>2, <3>3 DEF Clean, OneOperation
    <3>6. Pending(d.command, s, 0)
      BY <3>1, <3>3 DEF Clean, Standing
    <3>7. Pending(d.command, s, 0)'
      BY <1>3, <1>8, <3>6 DEF Pending
    <3>8. Standing(s)'
      BY <1>5, <2>2, <3>1, <3>3, <3>4, <3>7 DEF Standing
    <3> QED BY <1>6, <3>2, <3>5, <3>8 DEF Clean
  <2> QED BY <2>3, <2>4
<1>9. CASE d.command.type = "insert_session"
  <2>1. slot' = [slot EXCEPT ![k] = NoTask] /\ opc' = [opc EXCEPT ![k] = "unlock"]
    BY <1>1, <1>9 DEF ProcessSession
  <2>2. d \in Flying(d.command.id) /\ Flying(s)' = Flying(s) \ {d}
    BY <1>1, <1>2, <1>3, <2>1, LeavesSlot
  <2>3. CASE d.command.id # s
    <3>1. s \in sessions'["there"] <=> s \in sessions["there"]
      BY <1>3, <2>3 DEF AfterSession
    <3>2. Half(s)'
      BY <1>1, <1>3, <2>1, <2>3, <3>1 DEF Half, Clean
    <3>3. Flying(s)' = Flying(s)
      BY <2>2, <2>3 DEF Flying
    <3> QED BY <1>3, <1>5, <3>1, <3>2, <3>3, Unconcerned DEF Node
  <2>4. CASE d.command.id = s
    <3>1. \A e \in Flying(s) : e.command = d.command
      BY <2>2, <2>4 DEF Clean, OneOperation
    <3>2. Half(s)'
      <4>1. ASSUME NEW j \in Oper, opc'[j] = "rules", slot'[j].command.id = s,
                   slot'[j].command.type = "remove_session"
            PROVE  FALSE
        <5>1. j # k /\ opc[j] = "rules" /\ slot'[j] = slot[j]
          BY <1>3, <2>1, <4>1
        <5>2. slot[j] # NoTask
          BY <5>1 DEF IInv, OperInv
        <5>3. slot[j] \in Flying(s)
          BY <4>1, <5>1, <5>2 DEF Flying, UnderWay, Tasks
        <5> QED BY <1>9, <3>1, <4>1, <5>1, <5>3
      <4> QED BY <4>1 DEF Half
    <3>3. s \in sessions'["there"]
      BY <1>3, <1>9, <2>4 DEF AfterSession
    <3>4. OneOperation(s)'
      BY <1>3, <1>5, <2>2 DEF Clean, OneOperation
    <3>5. ASSUME NEW t \in Thread, Works(t, s)
          PROVE  Pending(command[t], s, Len(todo[t]))'
      <4>1. PICK c, left : c = command[t] /\ left = Len(todo[t])
        OBVIOUS
      <4>2. c = d.command /\ left = 1
        BY <2>2, <2>4, <3>5, <4>1 DEF Clean, OneOperation
      <4>3. Pending(c, s, left)
        BY <3>5, <4>1 DEF Clean, Standing
      <4>4. Pending(c, s, left)'
        BY <1>3, <1>9, <3>3, <4>2, <4>3 DEF Pending, SameRules
      <4> QED BY <1>3, <4>1, <4>4
    <3>6. ASSUME \A t \in Thread : ~Works(t, s)
          PROVE  /\ Pending(d.command, s, 0)'
                 /\ SameRecord(s)' /\ SameRules(s)'
      <4>1. Pending(d.command, s, 0)
        BY <2>2, <2>4, <3>6 DEF Clean, Standing
      <4> QED BY <1>3, <1>9, <3>3, <4>1 DEF Pending, SameRecord, SameRules
    <3>7. Standing(s)'
      BY <1>5, <2>2, <3>1, <3>5, <3>6 DEF Standing
    <3> QED BY <1>6, <3>2, <3>4, <3>7 DEF Clean
  <2> QED BY <2>3, <2>4
<1> QED BY <1>2, <1>8, <1>9

LEMMA ProcessRulesClean ==
  ASSUME IInv, CourseInv, NEW k \in Oper, ProcessRules(k),
         NEW s \in Session, Clean(s)
  PROVE  Clean(s)'
<1>1. PICK d : d = slot[k]
  OBVIOUS
<1>2. /\ d # NoTask /\ d \in Datagram /\ d.command \in Command /\ d.command.id \in Session
      /\ d.command.type \in {"insert_rule", "remove_rule", "remove_session"}
      /\ opc[k] = "rules"
  BY <1>1 DEF IInv, TypeOK, OperInv, Fits, Datagram, Command, ProcessRules
<1>3. /\ UNCHANGED <<command, todo, net, hand, sessions>>
      /\ DOMAIN opc = Oper /\ DOMAIN slot = Oper
      /\ slot' = [slot EXCEPT ![k] = NoTask] /\ opc' = [opc EXCEPT ![k] = "unlock"]
      /\ rules'["here"] = rules["here"]
      /\ rules'["there"] = AfterRules(d.command, rules["there"])
      /\ rules["there"] \in [Session -> [Rule -> Nat]]
  BY <1>1 DEF IInv, TypeOK, ProcessRules, senderVars, receiverVars, Node
<1>4. d \in Flying(d.command.id) /\ Flying(s)' = Flying(s) \ {d}
  BY <1>1, <1>2, <1>3, LeavesSlot
<1>5. \A t \in Thread : Works(t, s)' = Works(t, s)
  BY <1>3 DEF Works
<1>6. Alone(s)'
  BY <1>5 DEF Alone, Clean
<1>7. Half(s)'
  BY <1>3 DEF Half, Clean
<1>8. CASE d.command.id # s
  <2>1. rules'["there"][s] = rules["there"][s]
    BY <1>2, <1>3, <1>8, RulesEffect
  <2>2. Flying(s)' = Flying(s)
    BY <1>4, <1>8 DEF Flying
  <2> QED BY <1>3, <1>5, <1>7, <2>1, <2>2, Unconcerned DEF Node
<1>9. CASE d.command.id = s
  <2>1. d \in Flying(s)
    BY <1>4, <1>9
  <2>2. \A e \in Flying(s) : /\ e.command = d.command
                             /\ d.command.type = "insert_rule" => e = d
    BY <2>1 DEF Clean, OneOperation
  <2>3. \A t \in Thread : ~Works(t, s)
    BY <1>2, <2>1 DEF Clean, OneOperation
  <2>4. OneOperation(s)'
    BY <1>4, <1>5, <2>3 DEF Clean, OneOperation
  <2>5. Pending(d.command, s, 0)
    BY <2>1, <2>3 DEF Clean, Standing
  <2>6. rules'["there"][s] = NextRules(d.command, rules["there"][s])
    BY <1>2, <1>3, <1>9, RulesEffect
  <2>7. /\ SameRecord(s)' /\ SameRules(s)'
        /\ Flying(s)' # {} => Pending(d.command, s, 0)'
    <3>1. CASE d.command.type = "remove_session"
      <4>1. s \notin sessions["there"]
        BY <1>1, <1>2, <1>9, <3>1 DEF Clean, Half
      <4>2. s \notin sessions["here"] /\ rules["here"][s] = [r \in Rule |-> 0]
        BY <2>5, <3>1 DEF Pending
      <4>3. rules'["there"][s] = [r \in Rule |-> 0]
        BY <1>2, <1>3, <1>9, <2>6, <3>1, RulesEffect
      <4> QED BY <1>3, <3>1, <4>1, <4>2, <4>3 DEF SameRecord, SameRules, Pending
    <3>2. CASE d.command.type = "insert_rule"
      <4>1. Flying(s)' = {}
        BY <1>4, <2>2, <3>2
      <4>2. SameRecord(s) /\ rules["here"][s] = NextRules(d.command, rules["there"][s])
        BY <2>5, <3>2 DEF Pending
      <4> QED BY <1>3, <2>6, <4>1, <4>2 DEF SameRecord, SameRules
    <3>3. CASE d.command.type = "remove_rule"
      <4>1. SameRecord(s) /\ rules["here"][s] = NextRules(d.command, rules["there"][s])
        BY <2>5, <3>3 DEF Pending
      <4>2. NextRules(d.command, rules'["there"][s]) = rules'["there"][s]
        BY <1>2, <1>3, <1>9, <2>6, <3>3, RulesEffect
      <4> QED BY <1>3, <2>6, <3>3, <4>1, <4>2 DEF SameRecord, SameRules, Pending
    <3> QED BY <1>2, <3>1, <3>2, <3>3
  <2>8. Standing(s)'
    BY <1>4, <1>5, <2>2, <2>3, <2>7 DEF Standing
  <2> QED BY <1>6, <1>7, <2>4, <2>8 DEF Clean
<1> QED BY <1>8, <1>9

-----------------------------------------------------------------------------
(* A step of a thread leaves every thread in the course of its operation. *)
LEMMA CourseStep ==
  ASSUME IInv, CourseInv, [Next]_vars
  PROVE  CourseInv'
<1>1. ASSUME NEW t \in Thread, Handler(t) PROVE CourseInv'
  BY <1>1, AdvanceStep DEF Handler, ChangeSession, ChangeRules, Cmd2Remote, At
<1>2. ASSUME NEW t \in Thread, NEW c \in Command, c.type # "cut", Begin(t, c) PROVE CourseInv'
  <2>1. \A u \in Thread : /\ command'[u] = IF u = t THEN c ELSE command[u]
                          /\ todo'[u] = IF u = t THEN Course(c) ELSE todo[u]
    BY <1>2 DEF IInv, TypeOK, Begin
  <2>2. Len(Course(c)) \in 1 .. Len(Course(c)) /\ c # NoTask
    BY <1>2, CourseTable, NoTaskAssumption
  <2>3. \A i \in 1 .. Len(Course(c)) : i = Len(Course(c)) - Len(Course(c)) + i
    BY <2>2
  <2>4. ASSUME NEW u \in Thread
        PROVE  /\ command'[u] = NoTask => todo'[u] = <<>>
               /\ command'[u] # NoTask =>
                    /\ Len(todo'[u]) \in 1 .. Len(Course(command'[u]))
                    /\ \A i \in 1 .. Len(todo'[u]) :
                         todo'[u][i] = Course(command'[u])
                           [Len(Course(command'[u])) - Len(todo'[u]) + i]
    <3>1. CASE u = t
      <4>1. command'[u] = c /\ todo'[u] = Course(c)
        BY <2>1, <3>1
      <4> QED BY <2>2, <2>3, <4>1
    <3>2. CASE u # t
      <4>1. command'[u] = command[u] /\ todo'[u] = todo[u]
        BY <2>1, <3>2
      <4>2. /\ command[u] = NoTask => todo[u] = <<>>
            /\ command[u] # NoTask =>
                 /\ Len(todo[u]) \in 1 .. Len(Course(command[u]))
                 /\ \A i \in 1 .. Len(todo[u]) :
                      todo[u][i] = Course(command[u])[Len(Course(command[u])) - Len(todo[u]) + i]
        BY DEF CourseInv
      <4> QED BY ONLY <4>1, <4>2
    <3> QED BY <3>1, <3>2
  <2> QED BY <2>4 DEF CourseInv
<1>3. CASE UNCHANGED <<command, todo>>
  BY <1>3 DEF CourseInv
<1>4. (~\E t \in Thread : Handler(t) \/ \E c \in Command : c.type # "cut" /\ Begin(t, c))
        => UNCHANGED <<command, todo>>
  BY DEF Next, Network, Lose, Duplicate, Receiver, PollTimeout, SetTask, Receive, Operator,
         Test, TakeTask, LockFails, ProcessSession, ProcessRules, UnlockSet, Stop, Fini,
         ClearWork, UnlockOper, DestroyOper, JoinOper, vars, senderVars
<1> QED BY <1>1, <1>2, <1>3, <1>4

(* Nobody leaves before the node is unloaded, and it is not loaded again. *)
LEMMA RunStep ==
  ASSUME IInv, RunInv, [Next]_vars
  PROVE  RunInv' /\ (fpc' = "run" => fpc = "run" /\ ~Stop /\ ~Fini)
<1>1. ASSUME NEW t \in Thread, Handler(t) \/ \E c \in Command : Begin(t, c)
      PROVE  UNCHANGED <<rpc, running, fpc>>
  BY <1>1 DEF Handler, ChangeSession, ChangeRules, Cmd2Remote, Begin, receiverVars, finiVars
<1>2. CASE Network
  BY <1>2 DEF RunInv, Network, Lose, Duplicate, receiverVars, finiVars, Stop, Fini, ClearWork,
              UnlockOper, DestroyOper, JoinOper
<1>3. CASE Receiver
  BY <1>3 DEF RunInv, Receiver, PollTimeout, SetTask, Receive, AfterTest, finiVars, Stop, Fini,
              ClearWork, UnlockOper, DestroyOper, JoinOper
<1>4. ASSUME NEW k \in Oper, Operator(k)
      PROVE  UNCHANGED <<rpc, running, fpc>>
  BY <1>4 DEF Operator, Test, TakeTask, LockFails, ProcessSession, ProcessRules, UnlockSet,
              receiverVars, finiVars
<1>5. CASE Stop \/ Fini
  BY <1>5 DEF RunInv, Stop, Fini, ClearWork, UnlockOper, DestroyOper, JoinOper
<1>6. ASSUME UNCHANGED <<rpc, running, fpc>>
      PROVE  RunInv' /\ (fpc' = "run" => fpc = "run" /\ ~Stop /\ ~Fini)
  BY <1>6 DEF RunInv, Stop, Fini, ClearWork, UnlockOper, DestroyOper, JoinOper
<1>7. CASE UNCHANGED vars
  BY <1>6, <1>7 DEF vars, receiverVars, finiVars
<1> QED BY <1>1, <1>2, <1>3, <1>4, <1>5, <1>6, <1>7 DEF Next

(* No step spoils a session that stays clean. *)
LEMMA CleanStep ==
  ASSUME IInv, AgreeInv, [Next]_vars
  PROVE  CleanInv'
<1> SUFFICES ASSUME fpc' = "run", NEW s \in Session, clean'[s]
             PROVE  Clean(s)'
  BY DEF CleanInv
<1>1. /\ fpc = "run" /\ rpc # "ended" /\ ~Stop /\ ~Fini
      /\ clean[s] => Clean(s)
      /\ CourseInv
  BY RunStep DEF AgreeInv, RunInv, CleanInv
<1>2. ASSUME NEW t \in Thread, Handler(t) PROVE Clean(s)'
  <2>1. CASE ChangeSession(t)
    BY <1>1, <2>1, ChangeSessionClean DEF ChangeSession, historyVars
  <2>2. CASE ChangeRules(t)
    BY <1>1, <2>2, ChangeRulesClean DEF ChangeRules, historyVars
  <2> QED BY <1>1, <1>2, <2>1, <2>2, Cmd2RemoteClean DEF Handler
<1>3. ASSUME NEW t \in Thread, NEW c \in Command, c.type # "cut", Begin(t, c) PROVE Clean(s)'
  BY <1>1, <1>3, BeginClean
<1>4. CASE Network
  BY <1>1, <1>4, NetworkClean DEF Network
<1>5. CASE Receiver
  <2>1. clean' = clean
    BY <1>5 DEF Receiver, PollTimeout, SetTask, Receive, historyVars
  <2> QED BY <1>1, <1>5, <2>1, ReceiverClean DEF Receiver
<1>6. ASSUME NEW k \in Oper, Operator(k) PROVE Clean(s)'
  <2>1. clean' = clean
    BY <1>6 DEF Operator, Test, TakeTask, LockFails, ProcessSession, ProcessRules, UnlockSet,
                historyVars
  <2> QED BY <1>1, <1>6, <2>1, OperatorWaits, ProcessSessionClean, ProcessRulesClean DEF Operator
<1>7. CASE UNCHANGED vars
  <2>1. UNCHANGED <<command, todo, net, hand, slot, opc, sessions, rules, clean>>
    BY <1>7 DEF vars, senderVars, receiverVars, operVars, historyVars
  <2>2. Clean(s) /\ Half(s)'
    BY <1>1, <2>1 DEF Clean, Half
  <2> QED BY <2>1, <2>2, UnderWayKeeps, Unconcerned DEF Works
<1> QED BY <1>1, <1>2, <1>3, <1>4, <1>5, <1>6, <1>7 DEF Next

LEMMA AgreeInvariance == Spec => []AgreeInv
<1>1. Init => AgreeInv
  <2> SUFFICES ASSUME Init PROVE AgreeInv
    OBVIOUS
  <2>1. CourseInv /\ RunInv
    BY DEF Init, CourseInv, RunInv
  <2>2. ASSUME NEW s \in Session PROVE Clean(s)
    <3>1. \A t \in Thread : ~Works(t, s)
      BY DEF Init, Works
    <3>2. Flying(s) = {} /\ Half(s)
      BY DEF Init, Flying, UnderWay, InHand, Tasks, Half
    <3>3. SameRecord(s) /\ SameRules(s)
      BY DEF Init, SameRecord, SameRules, Node
    <3> QED BY <3>1, <3>2, <3>3 DEF Clean, Alone, OneOperation, Standing
  <2> QED BY <2>1, <2>2 DEF AgreeInv, CleanInv
<1>2. IInv /\ AgreeInv /\ [Next]_vars => AgreeInv'
  BY CourseStep, RunStep, CleanStep DEF AgreeInv
<1> QED BY <1>1, <1>2, Invariance, PTL DEF Spec

(* The nodes agree about a session that nothing is under way about, for    *)
(* any number of threads, operators and datagrams, unless two operations   *)
(* on it overlapped or the network failed it since its last undisturbed    *)
(* end: what an operator applies is what the thread has done.              *)
(* (pcrf_ipc_process_request, pcrf_ipc_cmd2remote.)                        *)
THEOREM NodesAgree == Spec => []Agreement
<1>1. ASSUME AgreeInv PROVE Agreement
  <2> SUFFICES ASSUME fpc = "run", NEW s \in Session, clean[s], Calm(s)
               PROVE  SameRecord(s) /\ SameRules(s)
    BY DEF Agreement, SameRecord, SameRules
  <2>1. Standing(s)
    BY <1>1 DEF AgreeInv, CleanInv, Clean
  <2>2. (\A t \in Thread : ~Works(t, s)) /\ Flying(s) = {}
    BY DEF Calm, Works, Flying, UnderWay, InHand, Tasks
  <2> QED BY <2>1, <2>2 DEF Standing
<1> QED BY <1>1, AgreeInvariance, PTL

=============================================================================
