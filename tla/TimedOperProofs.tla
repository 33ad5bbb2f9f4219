-------------------------- MODULE TimedOperProofs --------------------------
(***************************************************************************)
(* The safety properties of module TimedOper, for any finite number of     *)
(* calls, any limit on waiting handlers and any size of the pool.          *)
(*                                                                         *)
(* A handler and its worker meet in two mutexes and one flag only, so that *)
(* almost all of the invariant is about one call: CallInv says, for each   *)
(* place of the handler and of the worker, what the other may be doing and *)
(* what the shared data look like.  The calls meet in the counter and in   *)
(* the pool, which are counted.                                            *)
(***************************************************************************)
EXTENDS TimedOper, FiniteSetTheorems, TLAPS

(* Where the handler is and what it knows decides whether a worker exists. *)
Places(c) ==
  /\ wpc[c] = "none" <=> hpc[c] \in {"idle", "counted"} \/ ret[c] \in {"busy", "failed"}
  /\ hpc[c] \in {"idle", "counted", "waiting"} => ret[c] = "none" /\ answer[c] = "none"
  /\ hpc[c] = "leaving" => ret[c] \in {"ok", "timedout"} /\ answer[c] = "none"
  /\ hpc[c] = "copying" => ret[c] = "ok"
  /\ hpc[c] = "offline" => ret[c] \in {"timedout", "busy"}
  /\ ret[c] = "failed" => hpc[c] \in {"returned", "done"}
  /\ hpc[c] = "idle" => ~mine[c]

(* What the two mutexes and the flag say about the other side. *)
Signals(c) ==
  /\ ready[c] \/ ret[c] = "ok" => wpc[c] \in {"release", "copied", "gone"}
  /\ copied[c] \/ wpc[c] = "gone" => hpc[c] \in {"returned", "done"}
  /\ offline[c] => ret[c] \in {"timedout", "busy"}

(* The list on its way from the worker to the handler: what is handed over *)
(* while the flag is down is whole, what LoadRules found will be looked at *)
(* by SelectRules and LoadKeys.                                            *)
Lists(c) ==
  /\ wpc[c] \in {"none", "start", "usage", "storing", "rules"} => list[c] = "empty"
  /\ wpc[c] = "select" /\ list[c] # "empty" => oper[c]
  /\ wpc[c] \in {"ready", "release", "copied", "gone"} /\ ~offline[c]
       => list[c] \in {"empty", "complete"}
  /\ ret[c] = "ok" => answer[c] \in {"none", "empty", "complete"}

(* The usage report on its way through the worker. *)
Usage(c) ==
  /\ Len(used[c]) <= 1
  /\ wpc[c] \in {"none", "start", "usage", "storing"} => used[c] = <<>>
  /\ wpc[c] \in {"rules", "select", "keys"} /\ req[c].quota => Len(used[c]) = 1
  /\ wpc[c] \in {"ready", "release", "copied", "gone"} /\ req[c].quota
       /\ got[c] = "connection" => Len(used[c]) = 1
  /\ wpc[c] \in {"none", "start"} => got[c] = "none"
  /\ wpc[c] \in {"usage", "storing", "rules", "select", "keys"} => got[c] = "connection"

CallInv == \A c \in Call : Places(c) /\ Signals(c) /\ Lists(c) /\ Usage(c)

(* The calls whose handler, and those whose worker, holds a connection. *)
HandlerHolds == {c \in Call : mine[c]}
WorkerHolds == {c \in Call : got[c] = "connection" /\ wpc[c] \notin {"copied", "gone"}}

(* Every connection is in the pool, with a handler or with a worker. *)
PoolExact ==
  free + Cardinality(HandlerHolds) + Cardinality(WorkerHolds) = NConn

IInv ==
  /\ TypeOK
  /\ CallInv
  /\ CounterExact
  /\ PoolExact

-----------------------------------------------------------------------------
(* A set that changes by one element. *)
LEMMA CardAdd ==
  ASSUME NEW S, NEW x, IsFiniteSet(S), x \notin S
  PROVE  Cardinality(S \cup {x}) = Cardinality(S) + 1
BY FS_AddElement, FS_CardinalityType

(* ... and one that loses an element. *)
LEMMA CardRemove ==
  ASSUME NEW S, NEW x, IsFiniteSet(S), x \in S
  PROVE  Cardinality(S \ {x}) = Cardinality(S) - 1
BY FS_RemoveElement, FS_CardinalityType

(* The sets that are counted are finite. *)
LEMMA Finiteness ==
  /\ IsFiniteSet(Counted) /\ Cardinality(Counted) \in Nat
  /\ IsFiniteSet(HandlerHolds) /\ Cardinality(HandlerHolds) \in Nat
  /\ IsFiniteSet(WorkerHolds) /\ Cardinality(WorkerHolds) \in Nat
<1>1. Counted \in SUBSET Call /\ HandlerHolds \in SUBSET Call /\ WorkerHolds \in SUBSET Call
  BY DEF Counted, HandlerHolds, WorkerHolds
<1> QED
  BY <1>1, CallAssumption, FS_Subset, FS_CardinalityType

(* Every run starts with nothing held and nothing counted. *)
LEMMA InitIInv == Init => IInv
<1> SUFFICES ASSUME Init PROVE IInv
  OBVIOUS
<1>1. TypeOK
  BY LimitAssumption, RequestAssumption DEF Init, TypeOK, HPC, WPC, List
<1>2. CallInv
  BY DEF Init, CallInv, Places, Signals, Lists, Usage
<1>3. Counted = {} /\ HandlerHolds = {} /\ WorkerHolds = {}
  BY DEF Init, Counted, HandlerHolds, WorkerHolds
<1>4. CounterExact
  BY <1>3, FS_EmptySet, LimitAssumption DEF Init, CounterExact
<1>5. PoolExact
  BY <1>3, FS_EmptySet, LimitAssumption DEF Init, PoolExact
<1> QED
  BY <1>1, <1>2, <1>4, <1>5 DEF IInv

(* A connection that is held leaves room in the pool. *)
LEMMA Room ==
  ASSUME IInv, NEW c \in Call, c \in HandlerHolds \/ c \in WorkerHolds
  PROVE  free + 1 <= NConn
<1>1. Cardinality(HandlerHolds) # 0 \/ Cardinality(WorkerHolds) # 0
  BY Finiteness, FS_EmptySet
<1> QED
  BY <1>1, Finiteness, LimitAssumption DEF IInv, TypeOK, PoolExact

-----------------------------------------------------------------------------
(* Changing one call's value keeps a variable in its type. *)
LEMMA ExceptType ==
  ASSUME NEW R, NEW f \in [Call -> R], NEW c \in Call, NEW v \in R
  PROVE  [f EXCEPT ![c] = v] \in [Call -> R]
OBVIOUS

(* Type correctness: the pool never gets more than it gave out. *)
LEMMA TypeStep ==
  ASSUME IInv, [Next]_vars
  PROVE  TypeOK'
<1> USE LimitAssumption DEF TypeOK, HPC, WPC, List, handlerVars, workerVars, sharedVars
<1>1. TypeOK
  BY DEF IInv
<1>2. ASSUME NEW c \in Call, Begin(c) PROVE TypeOK'
  <2>1. mine' \in [Call -> BOOLEAN] /\ free' \in 0 .. NConn
    <3>1. CASE free > 0 /\ mine' = [mine EXCEPT ![c] = TRUE] /\ free' = free - 1
      BY <1>1, <3>1
    <3>2. CASE mine' = mine /\ free' = free
      BY <1>1, <3>2
    <3> QED
      BY <1>2, <3>1, <3>2 DEF Begin, CallerConnection
  <2>2. /\ hpc' \in [Call -> HPC]
        /\ ret' \in [Call -> {"none", "ok", "timedout", "busy", "failed"}]
        /\ count' \in Int
    <3>1. /\ hpc \in [Call -> HPC] /\ count \in Int
          /\ ret \in [Call -> {"none", "ok", "timedout", "busy", "failed"}]
      BY <1>1
    <3>2. /\ hpc' = [hpc EXCEPT ![c] = "counted"] \/ hpc' = [hpc EXCEPT ![c] = "offline"]
          /\ ret' = ret \/ ret' = [ret EXCEPT ![c] = "busy"]
          /\ count' = count + 1 \/ count' = count
      BY <1>2 DEF Begin
    <3> HIDE DEF TypeOK
    <3> QED
      BY <3>1, <3>2
  <2>3. UNCHANGED <<req, answer, workerVars, sharedVars>>
    BY <1>2 DEF Begin
  <2> QED
    BY <1>1, <2>1, <2>2, <2>3
<1>3. ASSUME NEW c \in Call, CreateThread(c) PROVE TypeOK'
  BY <1>1, <1>3 DEF CreateThread
<1>4. ASSUME NEW c \in Call, CreateFails(c) PROVE TypeOK'
  BY <1>1, <1>4 DEF CreateFails
<1>5. ASSUME NEW c \in Call, DataReady(c) PROVE TypeOK'
  BY <1>1, <1>5 DEF DataReady
<1>6. ASSUME NEW c \in Call, TimedOut(c) PROVE TypeOK'
  BY <1>1, <1>6 DEF TimedOut
<1>7. ASSUME NEW c \in Call, Leave(c) PROVE TypeOK'
  BY <1>1, <1>7 DEF Leave
<1>8. ASSUME NEW c \in Call, CopyData(c) PROVE TypeOK'
  BY <1>1, <1>8 DEF CopyData
<1>9. ASSUME NEW c \in Call, SwitchToOffline(c) PROVE TypeOK'
  BY <1>1, <1>9 DEF SwitchToOffline
<1>10. ASSUME NEW c \in Call, UnlockCopied(c) PROVE TypeOK'
  BY <1>1, <1>10 DEF UnlockCopied
<1>11. ASSUME NEW c \in Call, Answer(c) PROVE TypeOK'
  <2>1. mine[c] => free + 1 <= NConn
    BY Room DEF HandlerHolds
  <2> QED
    BY <1>1, <1>11, <2>1 DEF Answer
<1>12. ASSUME NEW c \in Call, GetConnection(c) PROVE TypeOK'
  <2>1. /\ free' \in 0 .. NConn
        /\ got' \in [Call -> {"none", "connection", "nothing"}]
        /\ wpc' \in [Call -> WPC]
    <3>1. /\ free \in 0 .. NConn
          /\ got \in [Call -> {"none", "connection", "nothing"}]
          /\ wpc \in [Call -> WPC]
      BY <1>1
    <3>2. /\ free' = free \/ (free > 0 /\ free' = free - 1)
          /\ got' = [got EXCEPT ![c] = "connection"] \/ got' = [got EXCEPT ![c] = "nothing"]
          /\ wpc' = [wpc EXCEPT ![c] = "usage"] \/ wpc' = [wpc EXCEPT ![c] = "ready"]
      <4> HIDE DEF TypeOK, WPC, HPC, List, handlerVars, workerVars, sharedVars
      <4>1. CASE free > 0
        BY <1>12, <3>1, <4>1 DEF GetConnection
      <4>2. CASE ~ (free > 0)
        BY <1>12, <3>1, <4>2 DEF GetConnection
      <4> QED
        BY <4>1, <4>2
    <3> HIDE DEF TypeOK
    <3> QED
      BY <3>1, <3>2
  <2>2. UNCHANGED <<req, handlerVars, oper, list, used, sharedVars, mine, count>>
    BY <1>12 DEF GetConnection
  <2> QED
    BY <1>1, <2>1, <2>2
<1>13. ASSUME NEW c \in Call, StoreUsage(c) PROVE TypeOK'
  <2>1. Append(used[c], "queue") \in Seq({"database", "failed", "queue"})
    BY <1>1
  <2>2. /\ wpc' \in [Call -> WPC]
        /\ used' = used \/ used' = [used EXCEPT ![c] = Append(used[c], "queue")]
    BY <1>1, <1>13 DEF StoreUsage
  <2>3. used' \in [Call -> Seq({"database", "failed", "queue"})]
    <3>1. used \in [Call -> Seq({"database", "failed", "queue"})]
      BY <1>1
    <3> HIDE DEF TypeOK
    <3> QED
      BY <2>1, <2>2, <3>1, ExceptType
  <2>4. UNCHANGED <<req, handlerVars, oper, list, got, sharedVars, mine, free, count>>
    BY <1>13 DEF StoreUsage
  <2> QED
    BY <1>1, <2>2, <2>3, <2>4
<1>14. ASSUME NEW c \in Call, UsageStored(c) PROVE TypeOK'
  <2>1. /\ Append(used[c], "database") \in Seq({"database", "failed", "queue"})
        /\ Append(used[c], "failed") \in Seq({"database", "failed", "queue"})
    BY <1>1
  <2>2. \/ used' = [used EXCEPT ![c] = Append(used[c], "database")]
        \/ used' = [used EXCEPT ![c] = Append(used[c], "failed")]
    BY <1>14 DEF UsageStored
  <2>3. used' \in [Call -> Seq({"database", "failed", "queue"})]
    <3>1. used \in [Call -> Seq({"database", "failed", "queue"})]
      BY <1>1
    <3> HIDE DEF TypeOK
    <3> QED
      BY <2>1, <2>2, <3>1, ExceptType
  <2>4. wpc' \in [Call -> WPC] /\ oper' \in [Call -> BOOLEAN]
    BY <1>1, <1>14 DEF UsageStored
  <2>5. UNCHANGED <<req, handlerVars, list, got, sharedVars, mine, free, count>>
    BY <1>14 DEF UsageStored
  <2> QED
    BY <1>1, <2>3, <2>4, <2>5
<1>15. ASSUME NEW c \in Call, LoadRules(c) PROVE TypeOK'
  <2>1. wpc' \in [Call -> WPC] /\ list' \in [Call -> List]
    <3>1. wpc \in [Call -> WPC] /\ list \in [Call -> List]
      BY <1>1
    <3>2. /\ wpc' = [wpc EXCEPT ![c] = "ready"] \/ wpc' = [wpc EXCEPT ![c] = "select"]
          /\ \/ list' = list
             \/ \E found \in {"empty", "loaded"} : list' = [list EXCEPT ![c] = found]
      BY <1>15 DEF LoadRules
    <3> HIDE DEF TypeOK
    <3> QED
      BY <3>1, <3>2
  <2>2. UNCHANGED <<req, handlerVars, oper, got, used, sharedVars, mine, free, count>>
    BY <1>15 DEF LoadRules
  <2> QED
    BY <1>1, <2>1, <2>2
<1>16. ASSUME NEW c \in Call, SelectRules(c) PROVE TypeOK'
  BY <1>1, <1>16 DEF SelectRules
<1>17. ASSUME NEW c \in Call, LoadKeys(c) PROVE TypeOK'
  BY <1>1, <1>17 DEF LoadKeys
<1>18. ASSUME NEW c \in Call, UnlockReady(c) PROVE TypeOK'
  BY <1>1, <1>18 DEF UnlockReady
<1>19. ASSUME NEW c \in Call, ReleaseConnection(c) PROVE TypeOK'
  <2>1. got[c] = "connection" => free + 1 <= NConn
    BY <1>19, Room DEF WorkerHolds, ReleaseConnection
  <2> QED
    BY <1>1, <1>19, <2>1 DEF ReleaseConnection
<1>20. ASSUME NEW c \in Call, DeleteData(c) PROVE TypeOK'
  BY <1>1, <1>20 DEF DeleteData
<1>21. CASE UNCHANGED vars
  BY <1>1, <1>21 DEF vars
<1> QED
  BY <1>2, <1>3, <1>4, <1>5, <1>6, <1>7, <1>8, <1>9, <1>10, <1>11, <1>12, <1>13, <1>14, <1>15, <1>16, <1>17, <1>18, <1>19, <1>20, <1>21 DEF Next, Handler, Worker

(* The calls one by one: a step changes what belongs to its own call. *)
LEMMA CallStep ==
  ASSUME IInv, [Next]_vars
  PROVE  CallInv'
<1> USE DEF CallInv, Places, Signals, Lists, Usage, TypeOK, HPC, WPC, List,
            handlerVars, workerVars, sharedVars
<1>1. TypeOK /\ CallInv
  BY DEF IInv
<1>2. ASSUME NEW c \in Call, Begin(c) PROVE CallInv'
  <2>1. CASE count < MaxCCRHandlers
    BY <1>1, <1>2, <2>1 DEF Begin, CallerConnection
  <2>2. CASE ~(count < MaxCCRHandlers)
    BY <1>1, <1>2, <2>2 DEF Begin, CallerConnection
  <2> QED
    BY <2>1, <2>2
<1>3. ASSUME NEW c \in Call, CreateThread(c) PROVE CallInv'
  BY <1>1, <1>3 DEF CreateThread
<1>4. ASSUME NEW c \in Call, CreateFails(c) PROVE CallInv'
  BY <1>1, <1>4 DEF CreateFails
<1>5. ASSUME NEW c \in Call, DataReady(c) PROVE CallInv'
  BY <1>1, <1>5 DEF DataReady
<1>6. ASSUME NEW c \in Call, TimedOut(c) PROVE CallInv'
  BY <1>1, <1>6 DEF TimedOut
<1>7. ASSUME NEW c \in Call, Leave(c) PROVE CallInv'
  BY <1>1, <1>7 DEF Leave
<1>8. ASSUME NEW c \in Call, CopyData(c) PROVE CallInv'
  BY <1>1, <1>8 DEF CopyData
<1>9. ASSUME NEW c \in Call, SwitchToOffline(c) PROVE CallInv'
  BY <1>1, <1>9 DEF SwitchToOffline
<1>10. ASSUME NEW c \in Call, UnlockCopied(c) PROVE CallInv'
  BY <1>1, <1>10 DEF UnlockCopied
<1>11. ASSUME NEW c \in Call, Answer(c) PROVE CallInv'
  BY <1>1, <1>11 DEF Answer
<1>12. ASSUME NEW c \in Call, GetConnection(c) PROVE CallInv'
  <2>1. CASE free > 0
    BY <1>1, <1>12, <2>1 DEF GetConnection
  <2>2. CASE ~(free > 0)
    BY <1>1, <1>12, <2>2 DEF GetConnection
  <2> QED
    BY <2>1, <2>2
<1>13. ASSUME NEW c \in Call, StoreUsage(c) PROVE CallInv'
  <2>1. CASE ~req[c].quota
    BY <1>1, <1>13, <2>1 DEF StoreUsage
  <2>2. CASE req[c].quota /\ ~offline[c] /\ req[c].type # "termination"
    BY <1>1, <1>13, <2>2 DEF StoreUsage
  <2>3. CASE req[c].quota /\ (offline[c] \/ req[c].type = "termination")
    <3>1. used[c] = <<>> /\ Len(Append(used[c], "queue")) = 1
      BY <1>1, <1>13 DEF StoreUsage
    <3>2. /\ wpc[c] = "usage"
          /\ wpc' = [wpc EXCEPT ![c] = "rules"]
          /\ used' = [used EXCEPT ![c] = Append(used[c], "queue")]
          /\ UNCHANGED <<req, handlerVars, oper, list, got, sharedVars, mine, free, count>>
      BY <1>13, <2>3 DEF StoreUsage
    <3>3. \A d \in Call : Usage(d)'
      BY <1>1, <3>1, <3>2
    <3>4. \A d \in Call : Places(d)' /\ Signals(d)' /\ Lists(d)'
      BY <1>1, <3>2
    <3> QED
      BY <3>3, <3>4
  <2> QED
    BY <2>1, <2>2, <2>3
<1>14. ASSUME NEW c \in Call, UsageStored(c) PROVE CallInv'
  <2>1. CASE used' = [used EXCEPT ![c] = Append(@, "database")]
    BY <1>1, <1>14, <2>1 DEF UsageStored
  <2>2. CASE used' = [used EXCEPT ![c] = Append(@, "failed")]
    BY <1>1, <1>14, <2>2 DEF UsageStored
  <2> QED
    BY <2>1, <2>2, <1>14 DEF UsageStored
<1>15. ASSUME NEW c \in Call, LoadRules(c) PROVE CallInv'
  <2>1. CASE offline[c] \/ ~oper[c]
    BY <1>1, <1>15, <2>1 DEF LoadRules
  <2>2. CASE ~(offline[c] \/ ~oper[c])
    BY <1>1, <1>15, <2>2 DEF LoadRules
  <2> QED
    BY <2>1, <2>2
<1>16. ASSUME NEW c \in Call, SelectRules(c) PROVE CallInv'
  BY <1>1, <1>16 DEF SelectRules
<1>17. ASSUME NEW c \in Call, LoadKeys(c) PROVE CallInv'
  BY <1>1, <1>17 DEF LoadKeys
<1>18. ASSUME NEW c \in Call, UnlockReady(c) PROVE CallInv'
  BY <1>1, <1>18 DEF UnlockReady
<1>19. ASSUME NEW c \in Call, ReleaseConnection(c) PROVE CallInv'
  BY <1>1, <1>19 DEF ReleaseConnection
<1>20. ASSUME NEW c \in Call, DeleteData(c) PROVE CallInv'
  BY <1>1, <1>20 DEF DeleteData
<1>21. CASE UNCHANGED vars
  BY <1>1, <1>21 DEF vars
<1> QED
  BY <1>2, <1>3, <1>4, <1>5, <1>6, <1>7, <1>8, <1>9, <1>10, <1>11, <1>12, <1>13, <1>14, <1>15, <1>16, <1>17, <1>18, <1>19, <1>20, <1>21 DEF Next, Handler, Worker

-----------------------------------------------------------------------------
(* Only Begin and Leave touch the counter, and they add and take away the  *)
(* call itself; a call that fails to make its thread stays counted.        *)
LEMMA CounterStep ==
  ASSUME IInv, [Next]_vars
  PROVE  CounterExact'
<1> USE LimitAssumption DEF CounterExact, handlerVars
<1>1. /\ hpc \in [Call -> HPC] /\ count \in Int
      /\ ret \in [Call -> {"none", "ok", "timedout", "busy", "failed"}]
      /\ CallInv /\ CounterExact
      /\ IsFiniteSet(Counted) /\ Cardinality(Counted) \in Nat
  BY Finiteness DEF IInv, TypeOK
<1>2. CASE count' = count /\ Counted' = Counted
  BY <1>1, <1>2
<1>3. ASSUME NEW c \in Call, Begin(c) PROVE CounterExact'
  <2>1. hpc[c] = "idle" /\ ret[c] = "none"
    BY <1>1, <1>3 DEF Begin, CallInv, Places
  <2>2. CASE count < MaxCCRHandlers
    <3>1. c \notin Counted /\ Counted' = Counted \cup {c} /\ count' = count + 1
      BY <1>1, <1>3, <2>1, <2>2 DEF Begin, Counted
    <3> QED
      BY <1>1, <2>2, <3>1, CardAdd
  <2>3. CASE ~ (count < MaxCCRHandlers)
    BY <1>1, <1>2, <1>3, <2>1, <2>3 DEF Begin, Counted
  <2> QED
    BY <2>2, <2>3
<1>4. ASSUME NEW c \in Call, Leave(c) PROVE CounterExact'
  <2>1. hpc[c] = "leaving" /\ ret[c] # "failed"
    BY <1>1, <1>4 DEF Leave, CallInv, Places
  <2>2. c \in Counted /\ Counted' = Counted \ {c} /\ count' = count - 1
    BY <1>1, <1>4, <2>1 DEF Leave, Counted
  <2> QED
    BY <1>1, <2>2, CardRemove
<1>5. ASSUME NEW c \in Call,
             \/ CreateThread(c) \/ CreateFails(c) \/ DataReady(c) \/ TimedOut(c)
             \/ CopyData(c) \/ SwitchToOffline(c) \/ UnlockCopied(c) \/ Answer(c)
      PROVE  CounterExact'
  <2>1. ret[c] = "failed" => hpc[c] \in {"returned", "done"}
    BY <1>1 DEF CallInv, Places
  <2>2. count' = count /\ Counted' = Counted
    BY <1>1, <1>5, <2>1 DEF Counted, CreateThread, CreateFails, DataReady, TimedOut,
       CopyData, SwitchToOffline, UnlockCopied, Answer
  <2> QED
    BY <1>2, <2>2
<1>6. ASSUME NEW c \in Call, Worker(c) PROVE CounterExact'
  <2>1. UNCHANGED <<handlerVars, count>>
    BY <1>6 DEF Worker, GetConnection, StoreUsage, UsageStored, LoadRules, SelectRules,
       LoadKeys, UnlockReady, ReleaseConnection, DeleteData
  <2> QED
    BY <1>2, <2>1 DEF Counted
<1>7. CASE UNCHANGED vars
  BY <1>2, <1>7 DEF vars, Counted
<1> QED
  BY <1>3, <1>4, <1>5, <1>6, <1>7 DEF Next, Handler

(* A connection moves between the pool, a handler and a worker: both sides *)
(* of PoolExact change together.                                           *)
LEMMA PoolStep ==
  ASSUME IInv, [Next]_vars
  PROVE  PoolExact'
<1> USE LimitAssumption DEF PoolExact, handlerVars, workerVars
<1>1. /\ free \in 0 .. NConn /\ mine \in [Call -> BOOLEAN]
      /\ wpc \in [Call -> WPC]
      /\ got \in [Call -> {"none", "connection", "nothing"}]
      /\ CallInv /\ PoolExact
  BY DEF IInv, TypeOK
<1>2. /\ IsFiniteSet(HandlerHolds) /\ Cardinality(HandlerHolds) \in Nat
      /\ IsFiniteSet(WorkerHolds) /\ Cardinality(WorkerHolds) \in Nat
  BY Finiteness
<1>3. CASE free' = free /\ HandlerHolds' = HandlerHolds /\ WorkerHolds' = WorkerHolds
  BY <1>1, <1>3
<1>4. ASSUME NEW c \in Call, Begin(c) PROVE PoolExact'
  <2>1. ~mine[c] /\ WorkerHolds' = WorkerHolds
    BY <1>1, <1>4 DEF Begin, CallInv, Places, WorkerHolds
  <2>2. CASE mine' = mine /\ free' = free
    BY <1>3, <2>1, <2>2 DEF HandlerHolds
  <2>3. CASE mine' = [mine EXCEPT ![c] = TRUE] /\ free' = free - 1
    <3>1. c \notin HandlerHolds /\ HandlerHolds' = HandlerHolds \cup {c}
      BY <1>1, <2>1, <2>3 DEF HandlerHolds
    <3> QED
      BY <1>1, <1>2, <2>1, <2>3, <3>1, CardAdd
  <2> QED
    BY <1>4, <2>2, <2>3 DEF Begin, CallerConnection
<1>5. ASSUME NEW c \in Call, Answer(c) PROVE PoolExact'
  <2>1. WorkerHolds' = WorkerHolds
    BY <1>5 DEF Answer, WorkerHolds
  <2>2. CASE mine[c]
    <3>1. /\ c \in HandlerHolds /\ HandlerHolds' = HandlerHolds \ {c}
          /\ free' = free + 1
      BY <1>1, <1>5, <2>2 DEF Answer, HandlerHolds
    <3> QED
      BY <1>1, <1>2, <2>1, <3>1, CardRemove
  <2>3. CASE ~mine[c]
    BY <1>1, <1>3, <1>5, <2>1, <2>3 DEF Answer, HandlerHolds
  <2> QED
    BY <2>2, <2>3
<1>6. ASSUME NEW c \in Call, CreateThread(c) PROVE PoolExact'
  <2>1. got[c] = "none"
    BY <1>1, <1>6 DEF CreateThread, CallInv, Places, Usage
  <2> QED
    BY <1>1, <1>3, <1>6, <2>1 DEF CreateThread, HandlerHolds, WorkerHolds
<1>7. ASSUME NEW c \in Call,
             \/ CreateFails(c) \/ DataReady(c) \/ TimedOut(c) \/ Leave(c)
             \/ CopyData(c) \/ SwitchToOffline(c) \/ UnlockCopied(c)
      PROVE  PoolExact'
  <2>1. UNCHANGED <<mine, free, workerVars>>
    BY <1>7 DEF CreateFails, DataReady, TimedOut, Leave, CopyData, SwitchToOffline,
       UnlockCopied
  <2> QED
    BY <1>3, <2>1 DEF HandlerHolds, WorkerHolds
<1>8. ASSUME NEW c \in Call, GetConnection(c) PROVE PoolExact'
  <2>1. HandlerHolds' = HandlerHolds /\ got[c] = "none" /\ c \notin WorkerHolds
    BY <1>1, <1>8 DEF GetConnection, HandlerHolds, WorkerHolds, CallInv, Usage
  <2>2. CASE free > 0
    <3>1. WorkerHolds' = WorkerHolds \cup {c} /\ free' = free - 1
      BY <1>1, <1>8, <2>2 DEF GetConnection, WorkerHolds
    <3> QED
      BY <1>1, <1>2, <2>1, <3>1, CardAdd
  <2>3. CASE ~ (free > 0)
    <3>1. WorkerHolds' = WorkerHolds /\ free' = free
      BY <1>1, <1>8, <2>1, <2>3 DEF GetConnection, WorkerHolds
    <3> QED
      BY <1>3, <2>1, <3>1
  <2> QED
    BY <2>2, <2>3
<1>9. ASSUME NEW c \in Call, ReleaseConnection(c) PROVE PoolExact'
  <2>1. HandlerHolds' = HandlerHolds
    BY <1>9 DEF ReleaseConnection, HandlerHolds
  <2>2. CASE got[c] = "connection"
    <3>1. /\ c \in WorkerHolds /\ WorkerHolds' = WorkerHolds \ {c}
          /\ free' = free + 1
      BY <1>1, <1>9, <2>2 DEF ReleaseConnection, WorkerHolds
    <3> QED
      BY <1>1, <1>2, <2>1, <3>1, CardRemove
  <2>3. CASE got[c] # "connection"
    <3>1. WorkerHolds' = WorkerHolds /\ free' = free
      BY <1>1, <1>9, <2>3 DEF ReleaseConnection, WorkerHolds
    <3> QED
      BY <1>3, <2>1, <3>1
  <2> QED
    BY <2>2, <2>3
<1>10. ASSUME NEW c \in Call,
              \/ StoreUsage(c) \/ UsageStored(c) \/ LoadRules(c) \/ SelectRules(c)
              \/ LoadKeys(c) \/ UnlockReady(c) \/ DeleteData(c)
       PROVE  PoolExact'
  <2>1. UNCHANGED <<mine, got, free>>
    BY <1>10 DEF StoreUsage, UsageStored, LoadRules, SelectRules, LoadKeys,
       UnlockReady, DeleteData
  <2>2. \A d \in Call : wpc'[d] \in {"copied", "gone"} <=> wpc[d] \in {"copied", "gone"}
    BY <1>1, <1>10 DEF StoreUsage, UsageStored, LoadRules, SelectRules, LoadKeys,
       UnlockReady, DeleteData
  <2> QED
    BY <1>3, <2>1, <2>2 DEF HandlerHolds, WorkerHolds
<1>11. CASE UNCHANGED vars
  BY <1>3, <1>11 DEF vars, HandlerHolds, WorkerHolds
<1> QED
  BY <1>4, <1>5, <1>6, <1>7, <1>8, <1>9, <1>10, <1>11 DEF Next, Handler, Worker

-----------------------------------------------------------------------------
(* The theorems. *)

(* The invariant holds whatever the number of calls, the limit on handlers *)
(* and the size of the pool, and whenever a handler's time runs out.       *)
THEOREM Invariance == Spec => []IInv
<1>1. IInv /\ [Next]_vars => IInv'
  BY TypeStep, CallStep, CounterStep, PoolStep DEF IInv
<1> QED
  BY InitIInv, <1>1, PTL DEF Spec

(* Type correctness, with it that the pool never has more than NConn free. *)
THEOREM TypeCorrect == Spec => []TypeOK
<1>1. IInv => TypeOK
  BY DEF IInv
<1> QED
  BY Invariance, <1>1, PTL

(* No STimedData is deleted under its handler. *)
THEOREM DataOutliveHandler == Spec => []NoUseAfterDelete
<1>1. IInv => NoUseAfterDelete
  BY DEF IInv, CallInv, Signals, NoUseAfterDelete
<1> QED
  BY Invariance, <1>1, PTL

(* The handler copies while the worker keeps its hands off the result. *)
THEOREM ExclusiveCopy == Spec => []CopyIsExclusive
<1>1. IInv => CopyIsExclusive
  <2> SUFFICES ASSUME IInv, NEW c \in Call, hpc[c] = "copying"
               PROVE  wpc[c] \in {"release", "copied"}
    BY DEF CopyIsExclusive
  <2> QED
    BY DEF IInv, CallInv, Places, Signals
<1> QED
  BY Invariance, <1>1, PTL

(* No answer carries half a rule list. *)
THEOREM WholeAnswers == Spec => []AnswersAreWhole
<1>1. IInv => AnswersAreWhole
  BY DEF IInv, CallInv, Lists, AnswersAreWhole
<1> QED
  BY Invariance, <1>1, PTL

(* No usage report is stored twice, and none is dropped by a worker that   *)
(* was given a connection.                                                 *)
THEOREM UsageExactlyOnce == Spec => []UsageOnce
<1>1. IInv => UsageOnce
  BY DEF IInv, CallInv, Usage, UsageOnce
<1> QED
  BY Invariance, <1>1, PTL

(* The counter never drifts except by a thread that could not be made. *)
THEOREM CounterCorrect == Spec => []CounterExact
<1>1. IInv => CounterExact
  BY DEF IInv
<1> QED
  BY Invariance, <1>1, PTL

=============================================================================
