--------------------------- MODULE SqlQueueProofs ---------------------------
(***************************************************************************)
(* The safety properties of module SqlQueue, for any number of threads,    *)
(* sessions and queues, and any size of the batches.                       *)
(*                                                                         *)
(* The invariant speaks of one queue at a time: which statements it has    *)
(* dealt with, what the transaction that is open holds, and how large it   *)
(* is.  The queues meet only in the tickets, which order the statements of *)
(* a session and say in which queue they are.                              *)
(***************************************************************************)
EXTENDS SqlQueue, FiniteSetTheorems, TLAPS

Busy == {"request", "execute", "full", "timed", "failed", "erase"}

Settled(i) == pending[i] \cup stored[i] \cup refused[i] \cup lost[i]

(* A thread works on a statement that exists; a statement that may be      *)
(* rolled back starts with an empty transaction, and a transaction needs a *)
(* connection.                                                             *)
Places(i) ==
  /\ cpc[i] \in Busy => Remaining(i)
  /\ cpc[i] = "execute" => pending[i] = {}
  /\ conn[i] # "up" => pending[i] = {}

(* Exactly the statements up to the current one are dealt with. *)
Decisions(i) == Settled(i) = 1 .. Decided(i)

(* bShouldCommit is set while something is uncommitted, and iCount counts  *)
(* at least that.                                                          *)
Batch(i) ==
  /\ IsFiniteSet(pending[i]) /\ Cardinality(pending[i]) <= count[i]
  /\ count[i] <= IF cpc[i] = "full" THEN MaxBatch + 1 ELSE MaxBatch
  /\ pending[i] # {} => should[i]
  /\ cpc[i] \in {"sleeping", "exited"} => pending[i] = {} /\ count[i] = 0

(* Tickets grow along a queue, and a session's statements share one queue. *)
Tickets ==
  \A i \in Queue : \A n \in 1 .. Len(sent[i]) :
    /\ sent[i][n].ticket < tickets
    /\ \A m \in 1 .. n - 1 : sent[i][m].ticket < sent[i][n].ticket
    /\ sent[i][n].session # NoSession => i = Number[sent[i][n].session] % QueueCount

LaneInv == \A i \in Queue : Places(i) /\ Decisions(i) /\ Batch(i)

IInv == TypeOK /\ LaneInv /\ Tickets

-----------------------------------------------------------------------------
(* A remainder is the number of a queue. *)
LEMMA RemainderIsQueue ==
  ASSUME NEW n \in Nat PROVE n % QueueCount \in Queue
BY QueueCountAssumption DEF Queue

(* A queue's set of positions may be replaced by another one. *)
LEMMA PositionsUpdate ==
  ASSUME NEW F \in [Queue -> SUBSET Nat], NEW i \in Queue, NEW S \in SUBSET Nat
  PROVE [F EXCEPT ![i] = S] \in [Queue -> SUBSET Nat]
OBVIOUS

(* A statement that is appended changes its own queue, at its end. *)
LEMMA AppendUpdate ==
  ASSUME NEW F \in [Queue -> Seq(Statement)], NEW i \in Queue, NEW e \in Statement,
         NEW G, G = [F EXCEPT ![i] = Append(F[i], e)]
  PROVE /\ G \in [Queue -> Seq(Statement)]
        /\ Len(G[i]) = Len(F[i]) + 1
        /\ \A n \in 1 .. Len(F[i]) : G[i][n] = F[i][n]
        /\ G[i][Len(F[i]) + 1] = e
        /\ \A j \in Queue : j # i => G[j] = F[j]
<1>1. F[i] \in Seq(Statement) /\ Append(F[i], e) \in Seq(Statement) /\ Len(F[i]) \in Nat
  OBVIOUS
<1>2. G[i] = Append(F[i], e)
  OBVIOUS
<1>3. Len(G[i]) = Len(F[i]) + 1 /\ G[i][Len(F[i]) + 1] = e
  BY <1>1, <1>2
<1>4. \A n \in 1 .. Len(F[i]) : G[i][n] = F[i][n]
  BY <1>1, <1>2
<1> QED BY <1>1, <1>3, <1>4

(* A commit and a restored connection change sets of positions and states  *)
(* of a connection only.                                                   *)
LEMMA CommitType ==
  ASSUME TypeOK, NEW i \in Queue, Commit(i)
  PROVE /\ pending' \in [Queue -> SUBSET Nat] /\ stored' \in [Queue -> SUBSET Nat]
        /\ refused' = refused /\ lost' = lost /\ losses' = losses
        /\ alive' \in BOOLEAN
<1> USE DEF TypeOK, Commit
<1>1. CASE conn[i] = "up"
  <2>1. pending[i] \in SUBSET Nat /\ stored[i] \in SUBSET Nat
    OBVIOUS
  <2>2. pending' \in [Queue -> SUBSET Nat]
    BY <1>1, PositionsUpdate
  <2>3. stored' \in [Queue -> SUBSET Nat]
    <3>1. stored[i] \cup pending[i] \in SUBSET Nat
      BY <2>1
    <3> DEFINE S == stored[i] \cup pending[i]
    <3>2. S \in SUBSET Nat /\ stored' = [stored EXCEPT ![i] = S]
      BY <1>1, <3>1
    <3> HIDE DEF S
    <3> QED BY <3>2, PositionsUpdate
  <2> QED BY <1>1, <2>2, <2>3
<1>2. CASE conn[i] # "up"
  BY <1>2
<1> QED BY <1>1, <1>2

LEMMA RestoredType ==
  ASSUME TypeOK, NEW i \in Queue, Restored(i)
  PROVE restore' \in [Queue -> {0, 1, -1}] /\ conn' \in [Queue -> {"none", "up", "broken"}]
<1> USE DEF TypeOK, Restored
<1>1. CASE conn[i] = "up"
  BY <1>1
<1>2. CASE conn[i] # "up"
  BY <1>2
<1> QED BY <1>1, <1>2

(* Every variable keeps its type. *)
LEMMA TypeStep == TypeOK /\ LaneInv /\ [Next]_vars => TypeOK'
<1> SUFFICES ASSUME TypeOK, LaneInv, [Next]_vars PROVE TypeOK'
    OBVIOUS
<1> USE DEF TypeOK, enqueueVars, listVars, loopVars, storeVars, Goto, Begin, CPC
<1>1. ASSUME NEW t \in Thread, NEW s \in Session, EnqueueOfSession(t, s) PROVE TypeOK'
  <2>1. Number[s] % QueueCount \in Queue
    BY SessionAssumption, RemainderIsQueue
  <2> DEFINE e == [session |-> s, undo |-> FALSE, ticket |-> tickets]
  <2>2. e \in Statement /\ sent' = [sent EXCEPT ![Number[s] % QueueCount] = Append(@, e)]
    BY <1>1 DEF EnqueueOfSession, AppendTo, Statement
  <2> HIDE DEF e
  <2>3. sent' \in [Queue -> Seq(Statement)]
    BY <2>1, <2>2, AppendUpdate
  <2>4. \A i \in Queue : erased'[i] <= Len(sent'[i])
    <3> SUFFICES ASSUME NEW i \in Queue PROVE erased[i] <= Len(sent'[i])
        BY <1>1 DEF EnqueueOfSession, AppendTo
    <3>1. Len(sent[i]) \in Nat
      OBVIOUS
    <3>2. Len(sent'[i]) \in {Len(sent[i]), Len(sent[i]) + 1}
      BY <2>1, <2>2, AppendUpdate
    <3> QED BY <3>1, <3>2
  <2>5. tickets' \in Nat
    BY <1>1 DEF EnqueueOfSession, AppendTo
  <2> QED BY <1>1, <2>3, <2>4, <2>5 DEF EnqueueOfSession, AppendTo
<1>2. ASSUME NEW t \in Thread, NEW u \in BOOLEAN, ReduceRound(t, u) PROVE TypeOK'
  <2>1. round % QueueCount \in Nat
    BY RemainderIsQueue, QueueCountAssumption DEF Queue
  <2> QED BY <1>2, <2>1 DEF ReduceRound
<1>3. ASSUME NEW t \in Thread, TakeRound(t) PROVE TypeOK'
  BY <1>3 DEF TakeRound
<1>4. ASSUME NEW t \in Thread, Push(t) PROVE TypeOK'
  <2> DEFINE e == [session |-> NoSession, undo |-> undo[t], ticket |-> tickets]
  <2>1. e \in Statement /\ sent' = [sent EXCEPT ![index[t]] = Append(@, e)]
    BY <1>4 DEF Push, AppendTo, Statement
  <2> HIDE DEF e
  <2>2. sent' \in [Queue -> Seq(Statement)]
    BY <1>4, <2>1, AppendUpdate DEF Push
  <2>3. \A i \in Queue : erased'[i] <= Len(sent'[i])
    <3> SUFFICES ASSUME NEW i \in Queue PROVE erased[i] <= Len(sent'[i])
        BY <1>4 DEF Push, AppendTo
    <3>1. Len(sent[i]) \in Nat
      OBVIOUS
    <3>2. Len(sent'[i]) \in {Len(sent[i]), Len(sent[i]) + 1}
      BY <1>4, <2>1, AppendUpdate DEF Push
    <3> QED BY <3>1, <3>2
  <2>4. tickets' \in Nat
    BY <1>4 DEF Push, AppendTo
  <2> QED BY <1>4, <2>2, <2>3, <2>4 DEF Push, AppendTo
<1>5. ASSUME NEW t \in Thread, PushOutside(t) PROVE TypeOK'
  BY <1>5 DEF PushOutside
<1>6. ASSUME NEW i \in Queue, Break(i) PROVE TypeOK'
  BY <1>6 DEF Break
<1>7. ASSUME NEW i \in Queue, GetConnection(i) \/ WakeUp(i) PROVE TypeOK'
  <2>1. CASE GetConnection(i)
    BY <2>1 DEF GetConnection
  <2>2. CASE WakeUp(i)
    BY <2>2 DEF WakeUp
  <2> QED BY <1>7, <2>1, <2>2
<1>16. ASSUME NEW i \in Queue, Reconnect(i) PROVE TypeOK'
  <2>1. restore' \in [Queue -> {0, 1, -1}] /\ conn' \in [Queue -> {"none", "up", "broken"}]
    BY <1>16, RestoredType DEF Reconnect
  <2>2. cpc' \in [Queue -> CPC]
    BY <1>16 DEF Reconnect
  <2> QED BY <1>16, <2>1, <2>2 DEF Reconnect
<1>8. ASSUME NEW i \in Queue, CommitBefore(i) PROVE TypeOK'
  BY <1>8, CommitType DEF CommitBefore
<1>17. ASSUME NEW i \in Queue, CommitBatch(i) PROVE TypeOK'
  BY <1>17, CommitType DEF CommitBatch
<1>9. ASSUME NEW i \in Queue, Execute(i) PROVE TypeOK'
  BY <1>9 DEF Execute, Current
<1>10. ASSUME NEW i \in Queue, ExecuteRefused(i) PROVE TypeOK'
  BY <1>10 DEF ExecuteRefused
<1>18. ASSUME NEW i \in Queue, ExecuteBroken(i) PROVE TypeOK'
  BY <1>18 DEF ExecuteBroken
<1>11. ASSUME NEW i \in Queue, Failed(i) PROVE TypeOK'
  <2>1. restore' \in [Queue -> {0, 1, -1}] /\ conn' \in [Queue -> {"none", "up", "broken"}]
    BY <1>11, RestoredType DEF Failed
  <2>2. CASE restore'[i] = 0
    <3>1. refused[i] \cup {Current(i)} \in SUBSET Nat
      BY DEF Current
    <3>2. refused' \in [Queue -> SUBSET Nat]
      <4> DEFINE S == refused[i] \cup {Current(i)}
      <4>1. S \in SUBSET Nat /\ refused' = [refused EXCEPT ![i] = S]
        BY <1>11, <2>2, <3>1 DEF Failed
      <4> HIDE DEF S
      <4> QED BY <4>1, PositionsUpdate
    <3>3. cpc' = [cpc EXCEPT ![i] = "erase"]
      BY <1>11, <2>2 DEF Failed
    <3> QED BY <1>11, <2>1, <3>2, <3>3 DEF Failed
  <2>3. CASE restore'[i] # 0
    <3>1. cpc' = [cpc EXCEPT ![i] = "finish"] /\ UNCHANGED refused
      BY <1>11, <2>3 DEF Failed
    <3> QED BY <1>11, <2>1, <3>1 DEF Failed
  <2> QED BY <2>2, <2>3
<1>12. ASSUME NEW i \in Queue, Erase(i) PROVE TypeOK'
  BY <1>12 DEF Erase, LaneInv, Places, Busy, Remaining
<1>13. ASSUME NEW i \in Queue, Finish(i) PROVE TypeOK'
  <2>1. CASE should[i]
    BY <1>13, <2>1, CommitType DEF Finish
  <2>2. CASE ~should[i]
    BY <1>13, <2>2 DEF Finish
  <2> QED BY <2>1, <2>2
<1>19. ASSUME NEW i \in Queue, Exit(i) PROVE TypeOK'
  BY <1>19 DEF Exit
<1>14. CASE Fini
  BY <1>14 DEF Fini
<1>15. CASE UNCHANGED vars
  BY <1>15 DEF vars
<1> QED BY <1>1, <1>2, <1>3, <1>4, <1>5, <1>6, <1>7, <1>8, <1>9, <1>10, <1>11, <1>12,
           <1>13, <1>14, <1>15, <1>16, <1>17, <1>18, <1>19 DEF Next, Enqueue, Oper

-----------------------------------------------------------------------------
(* A step that leaves a queue alone, or appends to it, keeps its part of   *)
(* the invariant.                                                          *)
SameLane(i) ==
  /\ Len(sent[i]) <= Len(sent'[i])
  /\ erased'[i] = erased[i] /\ cpc'[i] = cpc[i] /\ conn'[i] = conn[i]
  /\ count'[i] = count[i] /\ should'[i] = should[i]
  /\ pending'[i] = pending[i] /\ stored'[i] = stored[i]
  /\ refused'[i] = refused[i] /\ lost'[i] = lost[i]

LaneOk(i) == Places(i) /\ Decisions(i) /\ Batch(i)

LEMMA SameLaneOk ==
  ASSUME TypeOK, TypeOK', NEW i \in Queue, SameLane(i), LaneOk(i)
  PROVE LaneOk(i)'
<1> USE DEF SameLane, LaneOk
<1>1. Places(i)'
  <2>1. erased[i] \in Nat /\ Len(sent[i]) \in Nat /\ Len(sent'[i]) \in Nat
    BY DEF TypeOK
  <2> QED BY <2>1 DEF Places, Remaining
<1>2. Decisions(i)'
  BY DEF Decisions, Settled, Decided
<1>3. Batch(i)'
  BY DEF Batch
<1> QED BY <1>1, <1>2, <1>3

(* An empty transaction fits every batch. *)
LEMMA EmptyBatch ==
  ASSUME NEW i \in Queue, TypeOK', pending'[i] = {},
         count'[i] <= IF cpc'[i] = "full" THEN MaxBatch + 1 ELSE MaxBatch,
         cpc'[i] \in {"sleeping", "exited"} => count'[i] = 0
  PROVE Batch(i)'
<1>1. IsFiniteSet({}) /\ Cardinality({}) = 0
  BY FS_EmptySet
<1>2. count'[i] \in Nat
  BY DEF TypeOK
<1> QED BY <1>1, <1>2 DEF Batch

(* What a commit leaves behind. *)
LEMMA CommitLane ==
  ASSUME TypeOK, NEW i \in Queue, Places(i), Commit(i)
  PROVE /\ pending'[i] = {}
        /\ pending'[i] \cup stored'[i] = pending[i] \cup stored[i]
        /\ \A j \in Queue : j # i => pending'[j] = pending[j] /\ stored'[j] = stored[j]
<1> USE DEF TypeOK, Commit, Places
<1>1. CASE conn[i] = "up"
  BY <1>1
<1>2. CASE conn[i] # "up"
  BY <1>2
<1> QED BY <1>1, <1>2

LEMMA RestoredLane ==
  ASSUME TypeOK, NEW i \in Queue, Restored(i)
  PROVE /\ conn'[i] # "up" => conn[i] # "up"
        /\ \A j \in Queue : j # i => conn'[j] = conn[j]
<1> USE DEF TypeOK, Restored
<1>1. CASE conn[i] = "up"
  BY <1>1
<1>2. CASE conn[i] # "up"
  BY <1>2
<1> QED BY <1>1, <1>2

(* A step of a queue's thread, or the loss of its connection, leaves the   *)
(* other queues alone.                                                     *)
LEMMA OtherLanes ==
  ASSUME TypeOK, LaneInv, NEW i \in Queue, Oper(i) \/ Break(i), NEW j \in Queue, j # i
  PROVE SameLane(j)
<1> USE DEF TypeOK, SameLane, listVars, loopVars, storeVars, Goto, Begin
<1>0. Len(sent[j]) \in Nat /\ Places(i)
  BY DEF LaneInv
<1>1. CASE Break(i)
  BY <1>0, <1>1 DEF Break
<1>2. CASE GetConnection(i)
  BY <1>0, <1>2 DEF GetConnection
<1>3. CASE Reconnect(i)
  <2>1. cpc'[j] = cpc[j]
    BY <1>3 DEF Reconnect
  <2> QED BY <1>0, <1>3, <2>1, RestoredLane DEF Reconnect
<1>4. CASE WakeUp(i)
  BY <1>0, <1>4 DEF WakeUp
<1>5. CASE CommitBefore(i)
  BY <1>0, <1>5, CommitLane, CommitType DEF CommitBefore
<1>6. CASE Execute(i)
  BY <1>0, <1>6 DEF Execute
<1>7. CASE ExecuteRefused(i)
  BY <1>0, <1>7 DEF ExecuteRefused
<1>8. CASE ExecuteBroken(i)
  BY <1>0, <1>8 DEF ExecuteBroken
<1>9. CASE CommitBatch(i)
  BY <1>0, <1>9, CommitLane, CommitType DEF CommitBatch
<1>10. CASE Failed(i)
  <2>1. cpc'[j] = cpc[j] /\ refused'[j] = refused[j]
    <3>1. CASE restore'[i] = 0
      BY <1>10, <3>1 DEF Failed
    <3>2. CASE restore'[i] # 0
      BY <1>10, <3>2 DEF Failed
    <3> QED BY <3>1, <3>2
  <2> QED BY <1>0, <1>10, <2>1, RestoredLane DEF Failed
<1>11. CASE Erase(i)
  BY <1>0, <1>11 DEF Erase
<1>12. CASE Finish(i)
  <2>1. CASE should[i]
    BY <1>0, <1>12, <2>1, CommitLane, CommitType DEF Finish
  <2>2. CASE ~should[i]
    BY <1>0, <1>12, <2>2 DEF Finish
  <2> QED BY <2>1, <2>2
<1>13. CASE Exit(i)
  BY <1>0, <1>13 DEF Exit
<1> QED BY <1>1, <1>2, <1>3, <1>4, <1>5, <1>6, <1>7, <1>8, <1>9, <1>10, <1>11, <1>12, <1>13 DEF Oper

(* The queue whose thread runs, action by action.                          *)
LEMMA OwnLane ==
  ASSUME TypeOK, TypeOK', NEW i \in Queue, LaneOk(i), Oper(i) \/ Break(i)
  PROVE LaneOk(i)'
<1> USE DEF LaneOk, listVars, loopVars, storeVars, Goto, Begin
<1>0. /\ erased[i] \in Nat /\ Len(sent[i]) \in Nat /\ count[i] \in Nat
      /\ cpc[i] \in CPC /\ should[i] \in BOOLEAN
  BY DEF TypeOK
<1>1. CASE Break(i)
  <2>1. /\ conn'[i] = "broken" /\ pending'[i] = {} /\ lost'[i] = lost[i] \cup pending[i]
        /\ UNCHANGED <<sent, erased, cpc, count, should, stored, refused>>
    BY <1>1 DEF Break, TypeOK
  <2>2. Places(i)'
    BY <2>1 DEF Places, Remaining
  <2>3. Decisions(i)'
    BY <2>1 DEF Decisions, Settled, Decided
  <2>4. Batch(i)'
    BY <2>1, EmptyBatch DEF Batch
  <2> QED BY <2>2, <2>3, <2>4
<1>2. CASE GetConnection(i)
  <2>1. /\ conn'[i] = "up" /\ cpc'[i] = (IF Remaining(i) THEN "request" ELSE "sleeping")
        /\ cpc[i] = "sleeping" /\ conn[i] # "up"
        /\ UNCHANGED <<sent, erased, count, should, pending, stored, refused, lost>>
    BY <1>2 DEF GetConnection, TypeOK
  <2>2. Places(i)'
    BY <2>1 DEF Places, Remaining, Busy
  <2>3. Decisions(i)'
    BY <2>1 DEF Decisions, Settled, Decided
  <2>4. Batch(i)'
    BY <2>1 DEF Batch
  <2> QED BY <2>2, <2>3, <2>4
<1>3. CASE Reconnect(i)
  <2>1. cpc'[i] \in {"request", "sleeping"} /\ (cpc'[i] = "request" => Remaining(i))
    BY <1>3 DEF Reconnect, TypeOK
  <2>2. /\ cpc[i] = "sleeping" /\ (conn'[i] # "up" => conn[i] # "up")
        /\ UNCHANGED <<sent, erased, count, should, pending, stored, refused, lost>>
    BY <1>3, RestoredLane DEF Reconnect
  <2>3. Places(i)'
    BY <2>1, <2>2 DEF Places, Remaining, Busy
  <2>4. Decisions(i)'
    BY <2>1, <2>2 DEF Decisions, Settled, Decided
  <2>5. Batch(i)'
    BY <2>1, <2>2 DEF Batch
  <2> QED BY <2>3, <2>4, <2>5
<1>4. CASE WakeUp(i)
  <2>1. /\ cpc'[i] = "request" /\ Remaining(i) /\ cpc[i] = "sleeping"
        /\ UNCHANGED <<sent, erased, conn, count, should, pending, stored, refused, lost>>
    BY <1>4 DEF WakeUp, TypeOK
  <2>2. Places(i)'
    BY <2>1 DEF Places, Remaining, Busy
  <2>3. Decisions(i)'
    BY <2>1 DEF Decisions, Settled, Decided
  <2>4. Batch(i)'
    BY <2>1 DEF Batch
  <2> QED BY <2>2, <2>3, <2>4
<1>5. CASE CommitBefore(i)
  <2>1. /\ cpc[i] = "request" /\ cpc'[i] = "execute" /\ Commit(i)
        /\ UNCHANGED <<sent, erased, conn, count, should, refused, lost>>
    BY <1>5, CommitType DEF CommitBefore, TypeOK
  <2>2. pending'[i] = {} /\ pending'[i] \cup stored'[i] = pending[i] \cup stored[i]
    BY <2>1, CommitLane
  <2>3. Places(i)'
    BY <2>1, <2>2 DEF Places, Remaining, Busy
  <2>4. Decisions(i)'
    BY <2>1, <2>2 DEF Decisions, Settled, Decided
  <2>5. Batch(i)'
    BY <2>1, <2>2, EmptyBatch DEF Batch
  <2> QED BY <2>3, <2>4, <2>5
<1>6. CASE Execute(i)
  <2>1. /\ cpc[i] \in {"request", "execute"} /\ conn[i] = "up"
        /\ cpc'[i] \in {"full", "timed", "erase"}
        /\ (count[i] + 1 > MaxBatch => cpc'[i] = "full")
        /\ pending'[i] = pending[i] \cup {erased[i] + 1}
        /\ count'[i] = count[i] + 1 /\ should'[i] = TRUE
        /\ UNCHANGED <<sent, erased, conn, stored, refused, lost>>
    BY <1>6 DEF Execute, AtExecute, Current, TypeOK
  <2>2. Places(i)'
    BY <2>1 DEF Places, Remaining, Busy
  <2>3. Decisions(i)'
    BY <1>0, <2>1 DEF Decisions, Settled, Decided
  <2>4. Batch(i)'
    <3>1. IsFiniteSet(pending[i]) /\ Cardinality(pending[i]) <= count[i] /\ count[i] <= MaxBatch
      BY <2>1 DEF Batch
    <3>2. /\ IsFiniteSet(pending'[i])
          /\ Cardinality(pending'[i]) \in {Cardinality(pending[i]), Cardinality(pending[i]) + 1}
      BY <2>1, <3>1, FS_AddElement
    <3>3. Cardinality(pending[i]) \in Nat
      BY <3>1, FS_CardinalityType
    <3> QED BY <1>0, <2>1, <3>1, <3>2, <3>3, BatchAssumption DEF Batch
  <2> QED BY <2>2, <2>3, <2>4
<1>7. CASE ExecuteRefused(i)
  <2>1. /\ cpc[i] \in {"request", "execute"} /\ (cpc[i] = "request" => ~Undo(i))
        /\ conn[i] = "up" /\ cpc'[i] = "failed"
        /\ UNCHANGED <<sent, erased, conn, count, should, stored, refused, lost>>
    BY <1>7 DEF ExecuteRefused, AtExecute, TypeOK
  <2>2. pending'[i] = pending[i]
    <3>1. CASE Undo(i)
      BY <1>7, <2>1, <3>1 DEF ExecuteRefused, TypeOK, Places
    <3>2. CASE ~Undo(i)
      BY <1>7, <3>2 DEF ExecuteRefused, TypeOK
    <3> QED BY <3>1, <3>2
  <2>3. Places(i)'
    BY <2>1, <2>2 DEF Places, Remaining, Busy
  <2>4. Decisions(i)'
    BY <2>1, <2>2 DEF Decisions, Settled, Decided
  <2>5. Batch(i)'
    BY <2>1, <2>2 DEF Batch
  <2> QED BY <2>3, <2>4, <2>5
<1>8. CASE ExecuteBroken(i)
  <2>1. /\ cpc[i] \in {"request", "execute"} /\ cpc'[i] = "failed"
        /\ UNCHANGED <<sent, erased, conn, count, should, pending, stored, refused, lost>>
    BY <1>8 DEF ExecuteBroken, AtExecute, TypeOK
  <2>2. Places(i)'
    BY <2>1 DEF Places, Remaining, Busy
  <2>3. Decisions(i)'
    BY <2>1 DEF Decisions, Settled, Decided
  <2>4. Batch(i)'
    BY <2>1 DEF Batch
  <2> QED BY <2>2, <2>3, <2>4
<1>9. CASE CommitBatch(i)
  <2>1. /\ cpc[i] \in {"full", "timed"} /\ cpc'[i] = "erase" /\ Commit(i)
        /\ count'[i] = (IF cpc[i] = "full" THEN 0 ELSE count[i])
        /\ UNCHANGED <<sent, erased, conn, refused, lost>>
    BY <1>9, CommitType DEF CommitBatch, TypeOK
  <2>2. pending'[i] = {} /\ pending'[i] \cup stored'[i] = pending[i] \cup stored[i]
    BY <2>1, CommitLane
  <2>3. Places(i)'
    BY <2>1, <2>2 DEF Places, Remaining, Busy
  <2>4. Decisions(i)'
    BY <2>1, <2>2 DEF Decisions, Settled, Decided
  <2>5. Batch(i)'
    <3>1. count'[i] <= MaxBatch /\ cpc'[i] # "full" /\ (cpc'[i] = "sleeping" => count'[i] = 0)
      BY <2>1, BatchAssumption DEF Batch
    <3> QED BY <2>1, <2>2, <3>1, EmptyBatch
  <2> QED BY <2>3, <2>4, <2>5
<1>10. CASE Failed(i)
  <2>1. /\ cpc[i] = "failed" /\ (conn'[i] # "up" => conn[i] # "up")
        /\ UNCHANGED <<sent, erased, count, should, pending, stored, lost>>
    BY <1>10, RestoredLane DEF Failed
  <2>2. \/ cpc'[i] = "erase" /\ refused'[i] = refused[i] \cup {erased[i] + 1}
        \/ cpc'[i] = "finish" /\ refused'[i] = refused[i]
    <3>1. CASE restore'[i] = 0
      BY <1>10, <3>1 DEF Failed, Current, TypeOK
    <3>2. CASE restore'[i] # 0
      BY <1>10, <3>2 DEF Failed, TypeOK
    <3> QED BY <3>1, <3>2
  <2>3. Places(i)'
    BY <2>1, <2>2 DEF Places, Remaining, Busy
  <2>4. Decisions(i)'
    BY <1>0, <2>1, <2>2 DEF Decisions, Settled, Decided
  <2>5. Batch(i)'
    BY <2>1, <2>2 DEF Batch
  <2> QED BY <2>3, <2>4, <2>5
<1>11. CASE Erase(i)
  <2>1. /\ cpc[i] = "erase" /\ erased'[i] = erased[i] + 1
        /\ cpc'[i] = (IF erased[i] + 1 < Len(sent[i]) THEN "request" ELSE "finish")
        /\ UNCHANGED <<sent, conn, count, should, pending, stored, refused, lost>>
    BY <1>11 DEF Erase, TypeOK
  <2>2. Places(i)'
    BY <2>1 DEF Places, Remaining, Busy
  <2>3. Decisions(i)'
    BY <2>1 DEF Decisions, Settled, Decided
  <2>4. Batch(i)'
    BY <2>1 DEF Batch
  <2> QED BY <2>2, <2>3, <2>4
<1>12. CASE Finish(i)
  <2>1. /\ cpc[i] = "finish" /\ cpc'[i] = "sleeping" /\ count'[i] = 0
        /\ UNCHANGED <<sent, erased, conn, refused, lost>>
    <3>1. cpc[i] = "finish" /\ cpc'[i] = "sleeping" /\ count'[i] = 0 /\ UNCHANGED <<sent, erased, conn>>
      BY <1>12 DEF Finish, TypeOK
    <3>2. UNCHANGED <<refused, lost>>
      BY <1>12, CommitType DEF Finish
    <3> QED BY <3>1, <3>2
  <2>2. pending'[i] = {} /\ pending'[i] \cup stored'[i] = pending[i] \cup stored[i]
    <3>1. CASE should[i]
      BY <1>12, <3>1, CommitLane DEF Finish
    <3>2. CASE ~should[i]
      BY <1>12, <3>2 DEF Finish, Batch
    <3> QED BY <3>1, <3>2
  <2>3. Places(i)'
    BY <2>1, <2>2 DEF Places, Remaining, Busy
  <2>4. Decisions(i)'
    BY <2>1, <2>2 DEF Decisions, Settled, Decided
  <2>5. Batch(i)'
    <3>1. count'[i] <= MaxBatch /\ cpc'[i] # "full" /\ (cpc'[i] = "sleeping" => count'[i] = 0)
      BY <2>1, BatchAssumption DEF Batch
    <3> QED BY <2>1, <2>2, <3>1, EmptyBatch
  <2> QED BY <2>3, <2>4, <2>5
<1>13. CASE Exit(i)
  <2>1. /\ cpc[i] = "sleeping" /\ cpc'[i] = "exited" /\ conn'[i] = "none"
        /\ UNCHANGED <<sent, erased, count, should, pending, stored, refused, lost>>
    BY <1>13 DEF Exit, TypeOK
  <2>2. Places(i)'
    BY <2>1 DEF Places, Remaining, Busy, Batch
  <2>3. Decisions(i)'
    BY <2>1 DEF Decisions, Settled, Decided
  <2>4. Batch(i)'
    BY <2>1 DEF Batch
  <2> QED BY <2>2, <2>3, <2>4
<1> QED BY <1>1, <1>2, <1>3, <1>4, <1>5, <1>6, <1>7, <1>8, <1>9, <1>10, <1>11, <1>12, <1>13 DEF Oper

(* Threads that enqueue, and the end of the work, only append.             *)
LEMMA LaneStep == TypeOK /\ TypeOK' /\ LaneInv /\ [Next]_vars => LaneInv'
<1> SUFFICES ASSUME TypeOK, TypeOK', LaneInv, [Next]_vars, NEW j \in Queue PROVE LaneOk(j)'
    BY DEF LaneInv, LaneOk
<1>0. LaneOk(j) /\ Len(sent[j]) \in Nat
  BY DEF LaneInv, LaneOk, TypeOK
<1> SUFFICES \/ SameLane(j)
             \/ Oper(j) \/ Break(j)
    BY <1>0, SameLaneOk, OwnLane
<1> USE DEF SameLane, enqueueVars, listVars, loopVars, storeVars
<1>1. ASSUME NEW t \in Thread, NEW s \in Session, EnqueueOfSession(t, s) PROVE SameLane(j)
  <2>1. Number[s] % QueueCount \in Queue
    BY SessionAssumption, RemainderIsQueue
  <2> DEFINE e == [session |-> s, undo |-> FALSE, ticket |-> tickets]
  <2>2. e \in Statement /\ sent' = [sent EXCEPT ![Number[s] % QueueCount] = Append(@, e)]
    BY <1>1 DEF EnqueueOfSession, AppendTo, Statement, TypeOK
  <2> HIDE DEF e
  <2>3. Len(sent'[j]) \in {Len(sent[j]), Len(sent[j]) + 1}
    BY <2>1, <2>2, AppendUpdate DEF TypeOK
  <2> QED BY <1>0, <1>1, <2>3 DEF EnqueueOfSession, AppendTo
<1>2. ASSUME NEW t \in Thread, NEW u \in BOOLEAN, ReduceRound(t, u) PROVE SameLane(j)
  BY <1>0, <1>2 DEF ReduceRound
<1>3. ASSUME NEW t \in Thread, TakeRound(t) PROVE SameLane(j)
  BY <1>0, <1>3 DEF TakeRound
<1>4. ASSUME NEW t \in Thread, Push(t) PROVE SameLane(j)
  <2> DEFINE e == [session |-> NoSession, undo |-> undo[t], ticket |-> tickets]
  <2>1. e \in Statement /\ sent' = [sent EXCEPT ![index[t]] = Append(@, e)]
    BY <1>4 DEF Push, AppendTo, Statement, TypeOK
  <2> HIDE DEF e
  <2>2. Len(sent'[j]) \in {Len(sent[j]), Len(sent[j]) + 1}
    BY <1>4, <2>1, AppendUpdate DEF TypeOK, Push
  <2> QED BY <1>0, <1>4, <2>2 DEF Push, AppendTo
<1>5. ASSUME NEW t \in Thread, PushOutside(t) PROVE SameLane(j)
  BY <1>0, <1>5 DEF PushOutside
<1>6. ASSUME NEW i \in Queue, Oper(i) \/ Break(i), i # j PROVE SameLane(j)
  BY <1>6, OtherLanes
<1>7. CASE Fini
  BY <1>0, <1>7 DEF Fini
<1>8. CASE UNCHANGED vars
  BY <1>0, <1>8 DEF vars
<1> HIDE DEF SameLane
<1> QED BY <1>1, <1>2, <1>3, <1>4, <1>5, <1>6, <1>7, <1>8 DEF Next, Enqueue

(* A statement that is appended gets a new ticket.                         *)
LEMMA AppendTickets ==
  ASSUME TypeOK, Tickets, NEW i \in Queue, NEW e \in Statement, e.ticket = tickets,
         e.session # NoSession => i = Number[e.session] % QueueCount,
         sent' = [sent EXCEPT ![i] = Append(@, e)], tickets' = tickets + 1
  PROVE Tickets'
<1> SUFFICES ASSUME NEW j \in Queue, NEW n \in 1 .. Len(sent'[j])
             PROVE /\ sent'[j][n].ticket < tickets'
                   /\ \A m \in 1 .. n - 1 : sent'[j][m].ticket < sent'[j][n].ticket
                   /\ sent'[j][n].session # NoSession
                      => j = Number[sent'[j][n].session] % QueueCount
    BY DEF Tickets
<1>1. /\ tickets \in Nat /\ sent \in [Queue -> Seq(Statement)]
      /\ Len(sent[j]) \in Nat
      /\ \A m \in 1 .. Len(sent[j]) : sent[j][m] \in Statement
  BY DEF TypeOK
<1>2. \A m \in 1 .. Len(sent[j]) : sent[j][m].ticket \in Nat
  BY <1>1 DEF Statement
<1>3. CASE n \in 1 .. Len(sent[j])
  <2>1. \A m \in 1 .. n : sent'[j][m] = sent[j][m]
    BY <1>1, <1>3, AppendUpdate
  <2>2. /\ sent[j][n].ticket < tickets
        /\ \A m \in 1 .. n - 1 : sent[j][m].ticket < sent[j][n].ticket
        /\ sent[j][n].session # NoSession => j = Number[sent[j][n].session] % QueueCount
    BY <1>3 DEF Tickets
  <2>3. \A m \in 1 .. n - 1 : sent'[j][m].ticket < sent'[j][n].ticket
    BY <1>3, <2>1, <2>2
  <2>4. sent'[j][n] = sent[j][n]
    BY <1>3, <2>1
  <2> QED BY <1>1, <1>2, <1>3, <2>2, <2>3, <2>4
<1>4. CASE n \notin 1 .. Len(sent[j])
  <2>1. j = i /\ n = Len(sent[i]) + 1
    BY <1>1, <1>4, AppendUpdate
  <2>2. sent'[j][n] = e /\ \A m \in 1 .. n - 1 : sent'[j][m] = sent[j][m]
    BY <1>1, <2>1, AppendUpdate
  <2>3. \A m \in 1 .. n - 1 : sent'[j][m].ticket < sent'[j][n].ticket
    BY <1>1, <2>1, <2>2 DEF Tickets
  <2> QED BY <1>1, <2>1, <2>2, <2>3
<1> QED BY <1>3, <1>4

LEMMA TicketsStep == TypeOK /\ Tickets /\ [Next]_vars => Tickets'
<1> SUFFICES ASSUME TypeOK, Tickets, [Next]_vars PROVE Tickets'
    OBVIOUS
<1> USE DEF enqueueVars, listVars, loopVars, storeVars
<1>1. ASSUME NEW t \in Thread, NEW s \in Session, EnqueueOfSession(t, s) PROVE Tickets'
  <2>1. Number[s] % QueueCount \in Queue
    BY SessionAssumption, RemainderIsQueue
  <2> DEFINE e == [session |-> s, undo |-> FALSE, ticket |-> tickets]
  <2>2. e \in Statement /\ e.ticket = tickets /\ e.session = s
    BY DEF Statement, TypeOK
  <2>3. /\ sent' = [sent EXCEPT ![Number[s] % QueueCount] = Append(@, e)]
        /\ tickets' = tickets + 1
    BY <1>1 DEF EnqueueOfSession, AppendTo
  <2> HIDE DEF e
  <2> QED BY <2>1, <2>2, <2>3, AppendTickets
<1>2. ASSUME NEW t \in Thread, Push(t) PROVE Tickets'
  <2> DEFINE e == [session |-> NoSession, undo |-> undo[t], ticket |-> tickets]
  <2>1. e \in Statement /\ e.ticket = tickets /\ e.session = NoSession
    BY DEF Statement, TypeOK
  <2>2. /\ index[t] \in Queue /\ tickets' = tickets + 1
        /\ sent' = [sent EXCEPT ![index[t]] = Append(@, e)]
    BY <1>2 DEF Push, AppendTo
  <2> HIDE DEF e
  <2> QED BY <2>1, <2>2, AppendTickets
<1>3. ASSUME UNCHANGED <<sent, tickets>> PROVE Tickets'
  BY <1>3 DEF Tickets
<1>4. ASSUME NEW t \in Thread, NEW u \in BOOLEAN,
             ReduceRound(t, u) \/ TakeRound(t) \/ PushOutside(t)
      PROVE UNCHANGED <<sent, tickets>>
  BY <1>4 DEF ReduceRound, TakeRound, PushOutside
<1>5. ASSUME NEW i \in Queue, Oper(i) \/ Break(i) PROVE UNCHANGED <<sent, tickets>>
  BY <1>5 DEF Oper, Break, GetConnection, Reconnect, WakeUp, CommitBefore, Execute,
              ExecuteRefused, ExecuteBroken, CommitBatch, Failed, Erase, Finish, Exit
<1>6. CASE Fini \/ UNCHANGED vars
  BY <1>3, <1>6 DEF Fini, vars
<1> QED BY <1>1, <1>2, <1>3, <1>4, <1>5, <1>6 DEF Next, Enqueue

(* The initial state. *)
LEMMA InitInv == Init => IInv
<1> SUFFICES ASSUME Init PROVE IInv
    OBVIOUS
<1>1. \A i \in Queue : sent[i] = <<>> /\ Len(sent[i]) = 0
  BY DEF Init
<1>2. TypeOK
  <2>1. sent \in [Queue -> Seq(Statement)]
    BY DEF Init
  <2>2. \A i \in Queue : erased[i] <= Len(sent[i])
    BY <1>1 DEF Init
  <2> QED BY <2>1, <2>2 DEF Init, TypeOK, CPC
<1>3. LaneInv
  <2> SUFFICES ASSUME NEW i \in Queue PROVE Places(i) /\ Decisions(i) /\ Batch(i)
      BY DEF LaneInv
  <2>1. Places(i) /\ Decisions(i)
    BY DEF Init, Places, Busy, Decisions, Settled, Decided
  <2>2. Batch(i)
    BY FS_EmptySet, BatchAssumption DEF Init, Batch
  <2> QED BY <2>1, <2>2
<1>4. Tickets
  BY <1>1 DEF Tickets
<1> QED BY <1>2, <1>3, <1>4 DEF IInv

(* The invariant holds from the initial state on, through every step.      *)
THEOREM Invariance == Spec => []IInv
<1>1. IInv /\ [Next]_vars => IInv'
  BY TypeStep, LaneStep, TicketsStep DEF IInv
<1> QED BY InitInv, <1>1, PTL DEF Spec

(* All variables keep their types. *)
THEOREM TypeCorrect == Spec => []TypeOK
BY Invariance, PTL DEF IInv

(* Statements of one session are decided in the order of their tickets:    *)
(* they are in one queue, ordered by position, and the current position is *)
(* the last one that can be decided.                                       *)
THEOREM Ordered == Spec => []SessionOrder
<1>1. IInv => SessionOrder
  <2> SUFFICES ASSUME IInv, NEW i \in Queue, NEW j \in Queue,
                      NEW m \in 1 .. Len(sent[i]), NEW n \in 1 .. Len(sent[j]),
                      sent[i][m].session = sent[j][n].session,
                      sent[i][m].session # NoSession,
                      sent[i][m].ticket < sent[j][n].ticket,
                      n \in pending[j] \cup stored[j] \cup refused[j]
               PROVE m <= erased[i]
      BY DEF SessionOrder
  <2>1. i = j
    BY DEF IInv, Tickets
  <2>2. Len(sent[i]) \in Nat /\ erased[i] \in Nat
    BY DEF IInv, TypeOK
  <2>3. sent[i][m].ticket \in Nat /\ sent[i][n].ticket \in Nat
    <3>1. sent[i] \in Seq(Statement)
      BY DEF IInv, TypeOK
    <3>2. sent[i][m] \in Statement /\ sent[i][n] \in Statement
      BY <2>1, <3>1
    <3> QED BY <3>2 DEF Statement
  <2>4. m < n
    <3> SUFFICES ASSUME m >= n PROVE FALSE
        BY <2>1, <2>2
    <3>1. CASE m = n
      BY <2>1, <2>3, <3>1
    <3>2. CASE m > n
      <4>1. n \in 1 .. m - 1
        BY <2>1, <2>2, <3>2
      <4>2. sent[i][n].ticket < sent[i][m].ticket
        BY <4>1 DEF IInv, Tickets
      <4> QED BY <2>1, <2>3, <4>2
    <3> QED BY <2>1, <2>2, <3>1, <3>2
  <2>5. n <= erased[i] + 1
    BY <2>1, <2>2 DEF IInv, LaneInv, Decisions, Settled, Decided
  <2> QED BY <2>1, <2>2, <2>4, <2>5
<1> QED BY <1>1, Invariance, PTL

(* What was erased is accounted for. *)
THEOREM EverythingAccounted == Spec => []Accounted
<1>1. IInv => Accounted
  BY DEF IInv, LaneInv, Decisions, Settled, Decided, Accounted, TypeOK
<1> QED BY <1>1, Invariance, PTL

(* A thread that sleeps or has ended holds no open transaction. *)
THEOREM NothingLeftOpen == Spec => []NoTransactionLeft
<1>1. IInv => NoTransactionLeft
  BY DEF IInv, LaneInv, Batch, NoTransactionLeft
<1> QED BY <1>1, Invariance, PTL

(* A transaction never outgrows a batch. *)
THEOREM Bounded == Spec => []BatchBounded
<1>1. IInv => BatchBounded
  <2> SUFFICES ASSUME IInv, NEW i \in Queue PROVE Cardinality(pending[i]) <= MaxBatch + 1
      BY DEF BatchBounded
  <2>1. /\ IsFiniteSet(pending[i]) /\ Cardinality(pending[i]) <= count[i]
        /\ count[i] <= MaxBatch \/ count[i] <= MaxBatch + 1
    BY DEF IInv, LaneInv, Batch
  <2>2. Cardinality(pending[i]) \in Nat /\ count[i] \in Nat
    BY <2>1, FS_CardinalityType DEF IInv, TypeOK
  <2> QED BY <2>1, <2>2, BatchAssumption
<1> QED BY <1>1, Invariance, PTL

(* Executed work leaves the open transaction by a commit or with a broken  *)
(* connection only: the one rollback of a transaction meets an empty one,  *)
(* because a commit comes first.                                           *)
THEOREM Kept == Spec => OnlyBreaksLoseWork
<1> DEFINE Keeps(i) == pending[i] \subseteq pending'[i] \cup stored'[i] \cup lost'[i]
<1>1. ASSUME IInv, IInv', [Next]_vars, NEW j \in Queue PROVE Keeps(j)
  <2>1. TypeOK /\ LaneOk(j) /\ TypeOK'
    BY <1>1 DEF IInv, LaneInv, LaneOk
  <2> USE DEF enqueueVars, listVars, loopVars, storeVars
  <2>2. ASSUME UNCHANGED pending PROVE Keeps(j)
    BY <2>2
  <2>3. ASSUME NEW i \in Queue, Commit(i) PROVE Keeps(j)
    <3>1. CASE conn[i] = "up"
      <4>1. CASE i = j
        <5>1. stored'[j] = stored[j] \cup pending[j]
          BY <2>1, <2>3, <3>1, <4>1 DEF Commit, TypeOK
        <5> QED BY <5>1
      <4>2. CASE i # j
        <5>1. pending'[j] = pending[j]
          BY <2>1, <2>3, <3>1, <4>2 DEF Commit, TypeOK
        <5> QED BY <5>1
      <4> QED BY <4>1, <4>2
    <3>2. CASE conn[i] # "up"
      BY <2>3, <3>2 DEF Commit
    <3> QED BY <3>1, <3>2
  <2>4. ASSUME NEW t \in Thread, Enqueue(t) PROVE UNCHANGED pending
    BY <2>4 DEF Enqueue, EnqueueOfSession, AppendTo, ReduceRound, TakeRound, Push, PushOutside
  <2>5. ASSUME NEW i \in Queue, Break(i) PROVE Keeps(j)
    BY <2>1, <2>5 DEF Break, TypeOK
  <2>6. ASSUME NEW i \in Queue, Execute(i) PROVE Keeps(j)
    BY <2>1, <2>6 DEF Execute, TypeOK
  <2>7. ASSUME NEW i \in Queue, ExecuteRefused(i) PROVE Keeps(j)
    <3>1. CASE i = j /\ Undo(i)
      BY <2>1, <2>7, <3>1 DEF ExecuteRefused, AtExecute, LaneOk, Places
    <3>2. CASE ~(i = j /\ Undo(i))
      BY <2>1, <2>7, <3>2 DEF ExecuteRefused, TypeOK
    <3> QED BY <3>1, <3>2
  <2>8. ASSUME NEW i \in Queue,
               \/ GetConnection(i) \/ Reconnect(i) \/ WakeUp(i) \/ ExecuteBroken(i)
               \/ Failed(i) \/ Erase(i) \/ Exit(i)
        PROVE UNCHANGED pending
    BY <2>8 DEF GetConnection, Reconnect, WakeUp, ExecuteBroken, Failed, Erase, Exit
  <2>9. ASSUME NEW i \in Queue, Finish(i) PROVE UNCHANGED pending \/ Commit(i)
    BY <2>9 DEF Finish
  <2>10. ASSUME NEW i \in Queue, CommitBefore(i) \/ CommitBatch(i) PROVE Commit(i)
    BY <2>10 DEF CommitBefore, CommitBatch
  <2>11. CASE Fini \/ UNCHANGED vars
    BY <2>11 DEF Fini, vars
  <2> HIDE DEF Keeps
  <2> QED BY <1>1, <2>2, <2>3, <2>4, <2>5, <2>6, <2>7, <2>8, <2>9, <2>10, <2>11 DEF Next, Oper
<1>2. IInv /\ IInv' /\ [Next]_vars => [\A i \in Queue : Keeps(i)]_vars
  BY <1>1
<1> QED BY <1>2, Invariance, PTL DEF Spec, OnlyBreaksLoseWork

-----------------------------------------------------------------------------
(* The queues implement the journal.                                       *)

offeredMap == [i \in Queue |-> Len(sent[i])]
decidedMap == [i \in Queue |-> Decided(i)]

(* A step that neither appends nor decides leaves the journal alone, up to *)
(* its sets.                                                               *)
LEMMA MapsKept ==
  ASSUME TypeOK, TypeOK', \A i \in Queue : Decided(i)' = Decided(i), UNCHANGED sent
  PROVE UNCHANGED <<offeredMap, decidedMap>>
BY DEF offeredMap, decidedMap

(* A step that decides the current statement of one queue. *)
LEMMA MapsDecided ==
  ASSUME TypeOK, TypeOK', NEW i \in Queue, UNCHANGED sent,
         Decided(i)' = Decided(i) + 1, \A j \in Queue : j # i => Decided(j)' = Decided(j)
  PROVE /\ UNCHANGED offeredMap
        /\ decidedMap' = [decidedMap EXCEPT ![i] = @ + 1]
BY DEF offeredMap, decidedMap

(* A commit is all or nothing; one that throws changes nothing. *)
LEMMA CommitMaps ==
  ASSUME TypeOK, NEW i \in Queue, Commit(i), UNCHANGED <<offeredMap, decidedMap>>
  PROVE [Journal!Next]_<<offeredMap, decidedMap, pending, stored, refused>>
<1>1. CASE conn[i] = "up"
  <2>1. Journal!Store(i)
    BY <1>1 DEF Commit, Journal!Store, offeredMap, decidedMap
  <2> QED BY <2>1 DEF Journal!Next
<1>2. CASE conn[i] # "up"
  BY <1>2 DEF Commit
<1> QED BY <1>1, <1>2

(* An appended statement is offered. *)
LEMMA AppendMaps ==
  ASSUME TypeOK, TypeOK', NEW i \in Queue, NEW e \in Statement,
         sent' = [sent EXCEPT ![i] = Append(@, e)],
         UNCHANGED <<erased, cpc, pending, stored, refused>>
  PROVE Journal!Next
<1>1. \A j \in Queue : Len(sent'[j]) = IF j = i THEN Len(sent[j]) + 1 ELSE Len(sent[j])
  BY AppendUpdate DEF TypeOK
<1>2. offeredMap' = [offeredMap EXCEPT ![i] = @ + 1]
  BY <1>1 DEF offeredMap
<1>3. UNCHANGED decidedMap
  BY DEF decidedMap, Decided
<1>4. Journal!Offer(i)
  BY <1>2, <1>3 DEF Journal!Offer, offeredMap, decidedMap
<1> QED BY <1>4 DEF Journal!Next

(* Every step of the queues is a step of the journal or none. *)
LEMMA JournalStep ==
  ASSUME IInv, IInv', [Next]_vars
  PROVE [Journal!Next]_<<offeredMap, decidedMap, pending, stored, refused>>
<1> DEFINE Maps == <<offeredMap, decidedMap, pending, stored, refused>>
<1>0. TypeOK /\ TypeOK' /\ LaneInv
  BY DEF IInv
<1> USE DEF enqueueVars, listVars, loopVars, storeVars, Goto, Begin
<1>1. ASSUME NEW t \in Thread, NEW s \in Session, EnqueueOfSession(t, s) PROVE Journal!Next
  <2>1. Number[s] % QueueCount \in Queue
    BY SessionAssumption, RemainderIsQueue
  <2> DEFINE e == [session |-> s, undo |-> FALSE, ticket |-> tickets]
  <2>2. e \in Statement
    BY <1>0 DEF Statement, TypeOK
  <2>3. /\ sent' = [sent EXCEPT ![Number[s] % QueueCount] = Append(@, e)]
        /\ UNCHANGED <<erased, cpc, pending, stored, refused>>
    BY <1>1 DEF EnqueueOfSession, AppendTo
  <2> HIDE DEF e
  <2> QED BY <1>0, <2>1, <2>2, <2>3, AppendMaps
<1>2. ASSUME NEW t \in Thread, Push(t) PROVE Journal!Next
  <2> DEFINE e == [session |-> NoSession, undo |-> undo[t], ticket |-> tickets]
  <2>1. e \in Statement
    BY <1>0 DEF Statement, TypeOK
  <2>2. /\ index[t] \in Queue /\ sent' = [sent EXCEPT ![index[t]] = Append(@, e)]
        /\ UNCHANGED <<erased, cpc, pending, stored, refused>>
    BY <1>2 DEF Push, AppendTo
  <2> HIDE DEF e
  <2> QED BY <1>0, <2>1, <2>2, AppendMaps
<1>3. ASSUME UNCHANGED <<sent, erased, cpc, pending, stored, refused>> PROVE UNCHANGED Maps
  BY <1>3 DEF offeredMap, decidedMap, Decided
<1>4. ASSUME NEW t \in Thread, NEW u \in BOOLEAN,
             ReduceRound(t, u) \/ TakeRound(t) \/ PushOutside(t)
      PROVE UNCHANGED <<sent, erased, cpc, pending, stored, refused>>
  BY <1>4 DEF ReduceRound, TakeRound, PushOutside
<1>5. ASSUME NEW i \in Queue, Break(i) PROVE Journal!Next
  <2>1. UNCHANGED <<offeredMap, decidedMap>>
    BY <1>5 DEF Break, offeredMap, decidedMap, Decided
  <2>2. Journal!Lose(i)
    BY <1>5, <2>1 DEF Break, Journal!Lose, offeredMap, decidedMap
  <2> QED BY <2>2 DEF Journal!Next
<1>6. ASSUME NEW i \in Queue, NEW l \in CPC, UNCHANGED <<sent, erased, pending, stored, refused>>,
             cpc' = [cpc EXCEPT ![i] = l],
             cpc[i] \notin {"full", "timed", "erase"}, l \notin {"full", "timed", "erase"}
      PROVE UNCHANGED Maps
  <2>1. \A j \in Queue : Decided(j)' = Decided(j)
    BY <1>0, <1>6 DEF Decided, TypeOK
  <2> QED BY <1>0, <1>6, <2>1, MapsKept
<1>7. ASSUME NEW i \in Queue, GetConnection(i) \/ WakeUp(i) \/ ExecuteBroken(i) \/ Exit(i)
      PROVE UNCHANGED Maps
  BY <1>6, <1>7 DEF GetConnection, WakeUp, ExecuteBroken, AtExecute, Exit, CPC
<1>8. ASSUME NEW i \in Queue, Reconnect(i) PROVE UNCHANGED Maps
  BY <1>3, <1>6, <1>8 DEF Reconnect, CPC
<1>9. ASSUME NEW i \in Queue, CommitBefore(i) PROVE [Journal!Next]_Maps
  <2>1. \A j \in Queue : Decided(j)' = Decided(j)
    BY <1>0, <1>9 DEF CommitBefore, Decided, TypeOK
  <2>2. UNCHANGED <<offeredMap, decidedMap>>
    BY <1>0, <1>9, <2>1, MapsKept DEF CommitBefore
  <2> QED BY <1>0, <1>9, <2>2, CommitMaps DEF CommitBefore
<1>10. ASSUME NEW i \in Queue, CommitBatch(i) PROVE [Journal!Next]_Maps
  <2>1. \A j \in Queue : Decided(j)' = Decided(j)
    BY <1>0, <1>10 DEF CommitBatch, Decided, TypeOK
  <2>2. UNCHANGED <<offeredMap, decidedMap>>
    BY <1>0, <1>10, <2>1, MapsKept DEF CommitBatch
  <2> QED BY <1>0, <1>10, <2>2, CommitMaps DEF CommitBatch
<1>11. ASSUME NEW i \in Queue, Finish(i) PROVE [Journal!Next]_Maps
  <2>1. \A j \in Queue : Decided(j)' = Decided(j)
    BY <1>0, <1>11 DEF Finish, Decided, TypeOK
  <2>2. UNCHANGED <<offeredMap, decidedMap>>
    BY <1>0, <1>11, <2>1, MapsKept DEF Finish
  <2>3. Commit(i) \/ UNCHANGED <<pending, stored, refused>>
    BY <1>11 DEF Finish
  <2> QED BY <1>0, <2>2, <2>3, CommitMaps
<1>12. ASSUME NEW i \in Queue, Erase(i) PROVE UNCHANGED Maps
  <2>1. \A j \in Queue : Decided(j)' = Decided(j)
    BY <1>0, <1>12 DEF Erase, Decided, TypeOK
  <2> QED BY <1>0, <1>12, <2>1, MapsKept DEF Erase
<1>13. ASSUME NEW i \in Queue, Execute(i) PROVE Journal!Next
  <2>1. /\ Decided(i) = erased[i] /\ Decided(i)' = erased[i] + 1
        /\ \A j \in Queue : j # i => Decided(j)' = Decided(j)
    BY <1>0, <1>13 DEF Execute, AtExecute, Decided, TypeOK
  <2>2. Decided(i) < Len(sent[i])
    BY <1>0, <1>13, <2>1 DEF Execute, AtExecute, LaneInv, Places, Busy, Remaining
  <2>3. UNCHANGED offeredMap /\ decidedMap' = [decidedMap EXCEPT ![i] = @ + 1]
    BY <1>0, <1>13, <2>1, MapsDecided DEF Execute
  <2>4. pending' = [pending EXCEPT ![i] = @ \cup {decidedMap[i] + 1}] /\ UNCHANGED <<stored, refused>>
    BY <1>13, <2>1 DEF Execute, Current, decidedMap
  <2>5. Journal!Apply(i)
    BY <2>2, <2>3, <2>4 DEF Journal!Apply, Journal!Decide, offeredMap, decidedMap
  <2> QED BY <2>5 DEF Journal!Next
<1>14. ASSUME NEW i \in Queue, ExecuteRefused(i) PROVE [Journal!Next]_Maps
  <2>1. \A j \in Queue : Decided(j)' = Decided(j)
    BY <1>0, <1>14 DEF ExecuteRefused, AtExecute, Decided, TypeOK
  <2>2. UNCHANGED <<offeredMap, decidedMap>>
    BY <1>0, <1>14, <2>1, MapsKept DEF ExecuteRefused
  <2>3. CASE Undo(i)
    <3>1. Journal!Lose(i)
      BY <1>14, <2>2, <2>3 DEF ExecuteRefused, Journal!Lose, offeredMap, decidedMap
    <3> QED BY <3>1 DEF Journal!Next
  <2>4. CASE ~Undo(i)
    <3>1. UNCHANGED <<pending, stored, refused>>
      BY <1>0, <1>14, <2>4 DEF ExecuteRefused, TypeOK
    <3> QED BY <2>2, <3>1
  <2> QED BY <2>3, <2>4
<1>15. ASSUME NEW i \in Queue, Failed(i) PROVE [Journal!Next]_Maps
  <2>1. CASE restore'[i] = 0
    <3>1. /\ Decided(i) = erased[i] /\ Decided(i)' = erased[i] + 1
          /\ \A j \in Queue : j # i => Decided(j)' = Decided(j)
      BY <1>0, <1>15, <2>1 DEF Failed, Decided, TypeOK
    <3>2. Decided(i) < Len(sent[i])
      BY <1>0, <1>15, <3>1 DEF Failed, LaneInv, Places, Busy, Remaining
    <3>3. UNCHANGED offeredMap /\ decidedMap' = [decidedMap EXCEPT ![i] = @ + 1]
      BY <1>0, <1>15, <3>1, MapsDecided DEF Failed
    <3>4. refused' = [refused EXCEPT ![i] = @ \cup {decidedMap[i] + 1}] /\ UNCHANGED <<stored, pending>>
      BY <1>15, <2>1, <3>1 DEF Failed, Current, decidedMap
    <3>5. Journal!Refuse(i)
      BY <3>2, <3>3, <3>4 DEF Journal!Refuse, Journal!Decide, offeredMap, decidedMap
    <3> QED BY <3>5 DEF Journal!Next
  <2>2. CASE restore'[i] # 0
    <3>1. /\ cpc[i] = "failed" /\ cpc' = [cpc EXCEPT ![i] = "finish"]
          /\ UNCHANGED <<sent, erased, pending, stored, refused>>
      BY <1>15, <2>2 DEF Failed
    <3> QED BY <1>6, <3>1 DEF CPC
  <2> QED BY <2>1, <2>2
<1>16. CASE Fini \/ UNCHANGED vars
  BY <1>3, <1>16 DEF Fini, vars
<1>17. ASSUME NEW t \in Thread, Enqueue(t) PROVE [Journal!Next]_Maps
  <2>1. ASSUME NEW u \in BOOLEAN, ReduceRound(t, u) \/ TakeRound(t) \/ PushOutside(t)
        PROVE UNCHANGED Maps
    BY <1>3, <1>4, <2>1
  <2> HIDE DEF Maps
  <2> QED BY <1>1, <1>2, <1>17, <2>1 DEF Enqueue
<1>18. ASSUME NEW i \in Queue, Oper(i) PROVE [Journal!Next]_Maps
  <2> HIDE DEF Maps
  <2> QED BY <1>7, <1>8, <1>9, <1>10, <1>11, <1>12, <1>13, <1>14, <1>15, <1>18 DEF Oper
<1>19. CASE \E t \in Thread : Enqueue(t)
  BY <1>17, <1>19
<1>20. CASE \E i \in Queue : Oper(i)
  BY <1>18, <1>20
<1>21. CASE \E i \in Queue : Break(i)
  BY <1>5, <1>21
<1> QED BY <1>16, <1>19, <1>20, <1>21 DEF Next

(* Every statement is decided once and in order, and batches are atomic.   *)
THEOREM Implementation == Spec => ImplementsJournal
<1>1. Init => Journal!Init
  BY DEF Init, Journal!Init, Decided
<1>2. IInv /\ IInv' /\ [Next]_vars => [Journal!Next]_Journal!vars
  BY JournalStep DEF Journal!vars, offeredMap, decidedMap
<1> QED BY <1>1, <1>2, Invariance, PTL DEF Spec, ImplementsJournal, Journal!Spec

=============================================================================
