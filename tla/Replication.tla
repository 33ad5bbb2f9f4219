---------------------------- MODULE Replication ----------------------------
(***************************************************************************)
(* How one node tells another what it did to its sessions, pcrf_ipc.cpp.   *)
(*                                                                         *)
(* A thread that changes the session cache or the rule cache of its node   *)
(* changes the cache and sends a datagram, in an order that depends on the *)
(* operation.  At the other node one receiver deals the datagrams out to a *)
(* ring of operators, threads that have room for one datagram each and are *)
(* fed through two mutexes.  An operator applies the command with the same *)
(* functions that the threads of the first node have used.                 *)
(*                                                                         *)
(* The network loses, duplicates and reorders datagrams.  The receiving    *)
(* node may be unloaded at any moment.  Nodes are alike; one direction is  *)
(* shown.  A record is its presence in the cache, see SessionCache for the *)
(* rest; a session's rules are counted, because the cache of rules takes a *)
(* rule twice.                                                             *)
(***************************************************************************)
EXTENDS Naturals, Sequences, FiniteSets

CONSTANTS Session, Rule, Thread,
          OperCount,      \* g_iReqOperCount
          NoTask,
          MaxSent         \* bound of the model

ASSUME OperAssumption == OperCount \in Nat \ {0}
ASSUME BoundAssumption == MaxSent \in Nat

Node == {"here", "there"}
Oper == 0 .. OperCount - 1

(* PCRF_CMD_INSERT_SESSION and so on.  A packet that was cut short is not  *)
(* parsed.                                                                 *)
Command ==
  [type : {"insert_session", "remove_session", "cut"}, id : Session]
    \cup [type : {"insert_rule", "remove_rule"}, id : Session, rule : Rule]

Datagram == [n : Nat, command : Command]

ASSUME NoTaskAssumption == NoTask \notin Datagram \cup Command

VARIABLES
  command,   \* what a thread of the first node is doing ...
  todo,      \* ... and the steps it has left
  sessions,  \* the session cache of each node
  rules,     \* the rule cache of each node
  sent,      \* datagrams there ever were
  net,       \* datagrams under way
  rpc,       \* where the receiver is
  hand,      \* the datagram in its buffer
  index,     \* iOperatorIndex
  setData,   \* m_mutexIPCSetData of an operator is unlocked
  operData,  \* m_mutexIPCOperData is unlocked
  slot,      \* m_pmui8Data, NoTask if m_stDataLen is zero
  opc,       \* where the operator is
  work,      \* m_iLetsWork
  destroyed, \* m_mutexIPCOperData is destroyed
  running,   \* g_iIPCWord
  fpc,       \* where pcrf_ipc_fini is ...
  victim,    \* ... and with which operator
  taken,     \* history: datagrams the receiver has taken
  applied,   \* history: datagrams that were applied
  clean      \* history: sessions on which the nodes are bound to agree

senderVars == <<command, todo>>
receiverVars == <<rpc, hand, index>>
operVars == <<setData, operData, slot, opc>>
finiVars == <<work, destroyed, running, fpc, victim>>
historyVars == <<taken, applied, clean>>
vars == <<senderVars, sessions, rules, sent, net, receiverVars, operVars, finiVars,
          historyVars>>

TypeOK ==
  /\ command \in [Thread -> Command \cup {NoTask}]
  /\ todo \in [Thread -> Seq({"session", "rules", "send"})]
  /\ sessions \in [Node -> SUBSET Session]
  /\ rules \in [Node -> [Session -> [Rule -> Nat]]]
  /\ sent \in Nat
  /\ net \subseteq Datagram
  /\ rpc \in {"poll", "give", "ended"}
  /\ hand \in Datagram \cup {NoTask}
  /\ rpc = "give" <=> hand # NoTask
  /\ index \in Oper
  /\ setData \in [Oper -> BOOLEAN]
  /\ operData \in [Oper -> BOOLEAN]
  /\ slot \in [Oper -> Datagram \cup {NoTask}]
  /\ opc \in [Oper -> {"test", "lock", "session", "rules", "unlock", "ended"}]
  /\ work \in [Oper -> BOOLEAN]
  /\ destroyed \in [Oper -> BOOLEAN]
  /\ running \in BOOLEAN
  /\ fpc \in {"run", "clear", "oper", "destroy", "wait", "done"}
  /\ victim \in Oper
  /\ taken \subseteq Nat /\ applied \subseteq Nat
  /\ clean \in [Session -> BOOLEAN]

Init ==
  /\ command = [t \in Thread |-> NoTask]
  /\ todo = [t \in Thread |-> <<>>]
  /\ sessions = [p \in Node |-> {}]
  /\ rules = [p \in Node |-> [s \in Session |-> [r \in Rule |-> 0]]]
  /\ sent = 0 /\ net = {}
  /\ rpc = "poll" /\ hand = NoTask /\ index = 0
  /\ setData = [k \in Oper |-> TRUE]
  /\ operData = [k \in Oper |-> FALSE]
  /\ slot = [k \in Oper |-> NoTask]
  /\ opc = [k \in Oper |-> "test"]
  /\ work = [k \in Oper |-> TRUE]
  /\ destroyed = [k \in Oper |-> FALSE]
  /\ running = TRUE /\ fpc = "run" /\ victim = OperCount - 1
  /\ taken = {} /\ applied = {}
  /\ clean = [s \in Session |-> TRUE]

-----------------------------------------------------------------------------
(* What a command does to a node.  An insertion of a session that is there *)
(* replaces its record; a removal that finds nothing changes nothing.      *)
AfterSession(c, S) == IF c.type = "insert_session" THEN S \cup {c.id} ELSE S \ {c.id}

AfterRules(c, R) ==
  IF c.type = "insert_rule" THEN [R EXCEPT ![c.id][c.rule] = @ + 1]
  ELSE [R EXCEPT ![c.id] = [r \in Rule |-> IF c.type = "remove_rule" /\ r # c.rule THEN @[r] ELSE 0]]

(* A session is inserted after it was announced, everything else before.   *)
Course(c) ==
  IF c.type = "insert_session" THEN <<"send", "session">>
  ELSE IF c.type = "remove_session" THEN <<"session", "rules", "send">>
  ELSE <<"rules", "send">>

(* Nothing that concerns session s is under way. *)
Calm(s) ==
  /\ \A t \in Thread : command[t] # NoTask => command[t].id # s
  /\ \A d \in net : d.command.id # s
  /\ hand # NoTask => hand.command.id # s
  /\ \A k \in Oper : slot[k] # NoTask => slot[k].command.id # s

(* Faulty variants of the definitions below.  They are no part of the      *)
(* model: each shows that a property notices the mistake its name states.  *)

(* The index is reduced one datagram too late. *)
NextOperLate(i) == IF i < OperCount + 1 THEN i ELSE i % OperCount

(* The operator does not forget what it has applied. *)
ProcessRulesKeeps(k) ==
  /\ opc[k] = "rules"
  /\ rules' = [rules EXCEPT !["there"] = AfterRules(slot[k].command, @)]
  /\ opc' = [opc EXCEPT ![k] = "unlock"]
  /\ applied' = applied \cup {slot[k].n}
  /\ UNCHANGED <<senderVars, sessions, sent, net, receiverVars, setData, operData, slot, finiVars,
                 taken, clean>>

(* The rules of a session that the other node has ended are kept. *)
ProcessSessionOnly(k) ==
  /\ opc[k] = "session"
  /\ sessions' = [sessions EXCEPT !["there"] = AfterSession(slot[k].command, @)]
  /\ opc' = [opc EXCEPT ![k] = "unlock"]
  /\ slot' = [slot EXCEPT ![k] = NoTask]
  /\ applied' = applied \cup {slot[k].n}
  /\ UNCHANGED <<senderVars, rules, sent, net, receiverVars, setData, operData, finiVars,
                 taken, clean>>

(* The destructor does not wake the operator up. *)
UnlockOperNot ==
  /\ fpc = "oper"
  /\ fpc' = "destroy"
  /\ UNCHANGED <<senderVars, sessions, rules, sent, net, receiverVars, operVars,
                 work, destroyed, running, victim, historyVars>>

(* The receiver does not tell the operator that there is work. *)
SetTaskSilent ==
  /\ rpc = "give" /\ setData[index]
  /\ rpc' = IF running THEN "poll" ELSE "ended"
  /\ hand' = NoTask
  /\ slot' = [slot EXCEPT ![index] = hand]
  /\ setData' = [setData EXCEPT ![index] = FALSE]
  /\ index' = (index + 1) % OperCount
  /\ UNCHANGED <<senderVars, sessions, rules, sent, net, operData, opc, finiVars, historyVars>>

-----------------------------------------------------------------------------
(* The first node: handlers of CCR messages, answers, the refresh queue.   *)

(* An operation that meets no other one of its session keeps the nodes in  *)
(* agreement, and the end of the session restores it.                      *)
Begin(t, c) ==
  /\ command[t] = NoTask
  /\ sent + Cardinality({u \in Thread : command[u] # NoTask}) < MaxSent
  /\ command' = [command EXCEPT ![t] = c]
  /\ todo' = [todo EXCEPT ![t] = Course(c)]
  /\ clean' = [clean EXCEPT ![c.id] = Calm(c.id) /\ (@ \/ c.type = "remove_session")]
  /\ UNCHANGED <<sessions, rules, sent, net, receiverVars, operVars, finiVars, taken, applied>>

(* Thread t goes on; when no step is left its operation is through. *)
Advance(t) ==
  /\ todo' = [todo EXCEPT ![t] = Tail(@)]
  /\ command' = IF Len(todo[t]) = 1 THEN [command EXCEPT ![t] = NoTask] ELSE command

At(t, step) == todo[t] # <<>> /\ Head(todo[t]) = step

(* pcrf_session_cache_insert_local, pcrf_session_cache_remove_local *)
ChangeSession(t) ==
  /\ At(t, "session")
  /\ sessions' = [sessions EXCEPT !["here"] = AfterSession(command[t], @)]
  /\ Advance(t)
  /\ UNCHANGED <<rules, sent, net, receiverVars, operVars, finiVars, historyVars>>

(* pcrf_session_rule_cache_insert_local, _remove_rule_local and            *)
(* _remove_sess_local                                                      *)
ChangeRules(t) ==
  /\ At(t, "rules")
  /\ rules' = [rules EXCEPT !["here"] = AfterRules(command[t], @)]
  /\ Advance(t)
  /\ UNCHANGED <<sessions, sent, net, receiverVars, operVars, finiVars, historyVars>>

(* pcrf_ipc_cmd2remote.  When a field does not fit, CHECK_FCT returns      *)
(* EINVAL, which is greater than zero and taken for the packet's length.   *)
Cut(c) == [type |-> "cut", id |-> c.id]
Packets(c) == IF c.type = "insert_session" THEN {c, Cut(c)} ELSE {c}

Cmd2Remote(t) ==
  /\ At(t, "send")
  /\ sent' = sent + 1
  /\ \E p \in Packets(command[t]) :
       /\ net' = net \cup {[n |-> sent + 1, command |-> p]}
       /\ clean' = [clean EXCEPT ![p.id] = @ /\ p = command[t]]
  /\ Advance(t)
  /\ UNCHANGED <<sessions, rules, receiverVars, operVars, finiVars, taken, applied>>

-----------------------------------------------------------------------------
(* The network.                                                            *)

Lose(d) ==
  /\ d \in net
  /\ net' = net \ {d}
  /\ clean' = [clean EXCEPT ![d.command.id] = FALSE]
  /\ UNCHANGED <<senderVars, sessions, rules, sent, receiverVars, operVars, finiVars,
                 taken, applied>>

(* A second copy does harm only where a rule is installed. *)
Duplicate(d) ==
  /\ d \in net /\ sent + Cardinality({t \in Thread : command[t] # NoTask}) < MaxSent
  /\ sent' = sent + 1
  /\ net' = net \cup {[d EXCEPT !.n = sent + 1]}
  /\ clean' = [clean EXCEPT ![d.command.id] = @ /\ d.command.type # "insert_rule"]
  /\ UNCHANGED <<senderVars, sessions, rules, receiverVars, operVars, finiVars, taken, applied>>

-----------------------------------------------------------------------------
(* The receiver, pcrf_ipc_receiver and pcrf_ipc_select_request_operator.   *)

(* The loop's test of g_iIPCWord belongs to the step before it. *)
AfterTest == IF running THEN "poll" ELSE "ended"

PollTimeout ==
  /\ rpc = "poll"
  /\ rpc' = AfterTest
  /\ UNCHANGED <<senderVars, sessions, rules, sent, net, hand, index, operVars, finiVars,
                 historyVars>>

NextOper(i) == IF i < OperCount THEN i ELSE i % OperCount

Receive(d) ==
  /\ rpc = "poll" /\ d \in net
  /\ rpc' = "give"
  /\ net' = net \ {d}
  /\ hand' = d
  /\ taken' = taken \cup {d.n}
  /\ UNCHANGED <<senderVars, sessions, rules, sent, index, operVars, finiVars,
                 applied, clean>>

(* SIPCReqOperator::SetTask, which waits until the operator is free. *)
SetTask ==
  /\ rpc = "give" /\ setData[index]
  /\ rpc' = AfterTest
  /\ hand' = NoTask
  /\ slot' = [slot EXCEPT ![index] = hand]
  /\ setData' = [setData EXCEPT ![index] = FALSE]
  /\ operData' = [operData EXCEPT ![index] = TRUE]
  /\ index' = NextOper(index + 1)
  /\ UNCHANGED <<senderVars, sessions, rules, sent, net, opc, finiVars, historyVars>>

-----------------------------------------------------------------------------
(* An operator, pcrf_ipc_supply_processor.                                 *)

Test(k) ==
  /\ opc[k] = "test"
  /\ opc' = [opc EXCEPT ![k] = IF work[k] THEN "lock" ELSE "ended"]
  /\ UNCHANGED <<senderVars, sessions, rules, sent, net, receiverVars, setData, operData,
                 slot, finiVars, historyVars>>

(* The first thing a command changes.  An operator that is woken up by the *)
(* destructor finds nothing to do; a packet that is cut is thrown away.    *)
FirstPart(task) ==
  IF task = NoTask \/ task.command.type = "cut" THEN "unlock"
  ELSE IF task.command.type \in {"insert_session", "remove_session"} THEN "session"
  ELSE "rules"

TakeTask(k) ==
  /\ opc[k] = "lock" /\ operData[k]
  /\ operData' = [operData EXCEPT ![k] = FALSE]
  /\ opc' = [opc EXCEPT ![k] = FirstPart(slot[k])]
  /\ slot' = [slot EXCEPT ![k] = IF FirstPart(@) = "unlock" THEN NoTask ELSE @]
  /\ applied' = IF slot[k] # NoTask /\ FirstPart(slot[k]) = "unlock"
                THEN applied \cup {slot[k].n} ELSE applied
  /\ UNCHANGED <<senderVars, sessions, rules, sent, net, receiverVars, setData, finiVars,
                 taken, clean>>

(* Once the mutex is destroyed, locking it may fail or not; see TakeTask. *)
LockFails(k) ==
  /\ opc[k] = "lock" /\ destroyed[k]
  /\ opc' = [opc EXCEPT ![k] = "test"]
  /\ UNCHANGED <<senderVars, sessions, rules, sent, net, receiverVars, setData, operData,
                 slot, finiVars, historyVars>>

(* pcrf_ipc_process_request, the part under the lock of the sessions ... *)
ProcessSession(k) ==
  /\ opc[k] = "session"
  /\ sessions' = [sessions EXCEPT !["there"] = AfterSession(slot[k].command, @)]
  /\ IF slot[k].command.type = "remove_session"
     THEN /\ opc' = [opc EXCEPT ![k] = "rules"]
          /\ UNCHANGED <<slot, applied>>
     ELSE /\ opc' = [opc EXCEPT ![k] = "unlock"]
          /\ slot' = [slot EXCEPT ![k] = NoTask]
          /\ applied' = applied \cup {slot[k].n}
  /\ UNCHANGED <<senderVars, rules, sent, net, receiverVars, setData, operData, finiVars,
                 taken, clean>>

(* ... and the part under the lock of the rules. *)
ProcessRules(k) ==
  /\ opc[k] = "rules"
  /\ rules' = [rules EXCEPT !["there"] = AfterRules(slot[k].command, @)]
  /\ opc' = [opc EXCEPT ![k] = "unlock"]
  /\ slot' = [slot EXCEPT ![k] = NoTask]
  /\ applied' = applied \cup {slot[k].n}
  /\ UNCHANGED <<senderVars, sessions, sent, net, receiverVars, setData, operData, finiVars,
                 taken, clean>>

UnlockSet(k) ==
  /\ opc[k] = "unlock"
  /\ setData' = [setData EXCEPT ![k] = TRUE]
  /\ opc' = [opc EXCEPT ![k] = "test"]
  /\ UNCHANGED <<senderVars, sessions, rules, sent, net, receiverVars, operData, slot,
                 finiVars, historyVars>>

-----------------------------------------------------------------------------
(* The node is unloaded: pcrf_ipc_fini and ~SIPCReqOperator, the operators *)
(* from the last to the first.                                             *)

Stop ==
  /\ fpc = "run"
  /\ running' = FALSE
  /\ fpc' = "clear"
  /\ UNCHANGED <<senderVars, sessions, rules, sent, net, receiverVars, operVars, work,
                 destroyed, victim, historyVars>>

(* The first time the receiver has been joined.  Nobody waits for the      *)
(* mutex m_mutexIPCSetData any more: what becomes of it is left out.       *)
ClearWork ==
  /\ fpc = "clear" /\ rpc = "ended"
  /\ work' = [work EXCEPT ![victim] = FALSE]
  /\ setData' = [setData EXCEPT ![victim] = TRUE]
  /\ fpc' = "oper"
  /\ UNCHANGED <<senderVars, sessions, rules, sent, net, receiverVars, operData, slot, opc,
                 destroyed, running, victim, historyVars>>

UnlockOper ==
  /\ fpc = "oper"
  /\ operData' = [operData EXCEPT ![victim] = TRUE]
  /\ fpc' = "destroy"
  /\ UNCHANGED <<senderVars, sessions, rules, sent, net, receiverVars, setData, slot, opc,
                 work, destroyed, running, victim, historyVars>>

(* Destroying a mutex fails when its operator holds it, and may fail when  *)
(* it was unlocked once too often.                                         *)
DestroyOper ==
  /\ fpc = "destroy"
  /\ \E gone \in {operData[victim], FALSE} : destroyed' = [destroyed EXCEPT ![victim] = gone]
  /\ fpc' = "wait"
  /\ UNCHANGED <<senderVars, sessions, rules, sent, net, receiverVars, operVars, work,
                 running, victim, historyVars>>

JoinOper ==
  /\ fpc = "wait" /\ opc[victim] = "ended"
  /\ IF victim = 0 THEN fpc' = "done" /\ victim' = victim
     ELSE fpc' = "clear" /\ victim' = victim - 1
  /\ UNCHANGED <<senderVars, sessions, rules, sent, net, receiverVars, operVars, work,
                 destroyed, running, historyVars>>

-----------------------------------------------------------------------------
Handler(t) == ChangeSession(t) \/ ChangeRules(t) \/ Cmd2Remote(t)
Network == \E d \in net : Lose(d) \/ Duplicate(d)
Receiver == PollTimeout \/ SetTask \/ (\E d \in net : Receive(d))
Operator(k) ==
  \/ Test(k) \/ TakeTask(k) \/ LockFails(k)
  \/ ProcessSession(k) \/ ProcessRules(k) \/ UnlockSet(k)
Fini == ClearWork \/ UnlockOper \/ DestroyOper \/ JoinOper

Next ==
  \/ \E t \in Thread : Handler(t) \/ \E c \in Command : c.type # "cut" /\ Begin(t, c)
  \/ Network
  \/ Receiver
  \/ \E k \in Oper : Operator(k)
  \/ Stop \/ Fini

Spec == Init /\ [][Next]_vars

(* Threads run; poll returns at its limit of time at the latest.  Nothing  *)
(* is assumed of the network, and nobody has to unload the node.           *)
Fairness ==
  /\ WF_vars(Receiver)
  /\ \A k \in Oper : WF_vars(Operator(k))
  /\ WF_vars(Fini)

FairSpec == Spec /\ Fairness

-----------------------------------------------------------------------------
(* Properties                                                              *)

Tasks == {slot[k] : k \in Oper} \ {NoTask}
InHand == {hand} \ {NoTask}
Numbers(D) == {d.n : d \in D}

(* A datagram that was received is in the receiver's buffer, in the slot   *)
(* of one operator, or was applied, and in only one of these: the two      *)
(* mutexes of an operator hand it over whole.  (SetTask, l. 931, and       *)
(* pcrf_ipc_supply_processor, l. 127.)                                     *)
TakenOnce ==
  /\ taken = Numbers(InHand) \cup Numbers(Tasks) \cup applied
  /\ Numbers(InHand) \cap (Numbers(Tasks) \cup applied) = {}
  /\ Numbers(Tasks) \cap applied = {}
  /\ \A j, k \in Oper : slot[j] # NoTask /\ slot[j] = slot[k] => j = k

(* Two nodes agree about a session, its rules included, once nothing about *)
(* it is under way, if since its last undisturbed end no two operations on *)
(* it overlapped and no datagram about it was lost, cut or, when it        *)
(* installs a rule, duplicated.  (The commands of pcrf_ipc_process_request *)
(* against the callers of pcrf_ipc_cmd2remote.)                            *)
Agreement ==
  fpc = "run" =>
    \A s \in Session :
      clean[s] /\ Calm(s) =>
        /\ s \in sessions["here"] <=> s \in sessions["there"]
        /\ rules["here"][s] = rules["there"][s]

(* What was received is applied unless the node is unloaded: neither the   *)
(* receiver nor an operator waits for the other for ever.                  *)
TakenIsApplied == \A n \in 1 .. MaxSent : n \in taken ~> (n \in applied \/ ~running)

(* pcrf_ipc_fini returns, wherever the receiver and the operators are when *)
(* it is called.  (~SIPCReqOperator, l. 962-984.)                          *)
FiniReturns == ~running ~> fpc = "done"

=============================================================================
