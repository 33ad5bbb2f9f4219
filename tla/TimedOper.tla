----------------------------- MODULE TimedOper -----------------------------
(***************************************************************************)
(* Reading a subscriber's data under a time limit,                         *)
(* data_proc/pcrf_timed_oper.cpp.  A CCR handler hands the work to a       *)
(* detached thread and waits for it at most m_uiCCATimeoutSec; when the    *)
(* time is up it answers with default rules and quotas, and the thread     *)
(* goes on alone to store what the request reported.                       *)
(*                                                                         *)
(* The two sides share one STimedData.  Its mutexes are created locked and *)
(* unlocked by the other thread: m_mutexDataReady lets the handler read    *)
(* the result, m_mutexDataCopied lets the worker delete the structure.     *)
(* A call of pcrf_subscriber_data_proc and its worker are named by one     *)
(* member of Call.  The database is external: a query succeeds or fails.   *)
(***************************************************************************)
EXTENDS Integers, Sequences, FiniteSets

CONSTANTS Call,            \* calls of pcrf_subscriber_data_proc
          Request,         \* the requests they serve
          MaxCCRHandlers,  \* m_uiMaxCCRHandlers
          NConn            \* connections of the pool

ASSUME CallAssumption == IsFiniteSet(Call)
ASSUME LimitAssumption == MaxCCRHandlers \in Nat /\ NConn \in Nat
ASSUME RequestAssumption ==
  Request \subseteq [type : {"initial", "update", "termination"},
                     quota : BOOLEAN,   \* ACTION_UPDATE_QUOTA
                     rule : BOOLEAN]    \* ACTION_OPERATE_RULE

VARIABLES
  req,      \* the request of each call
  hpc,      \* where its handler is
  wpc,      \* where its worker is
  ret,      \* iRetVal of the handler
  answer,   \* the rules the handler took for its answer
  ready,    \* m_mutexDataReady is unlocked
  copied,   \* m_mutexDataCopied is unlocked
  offline,  \* m_iSwitchedToOffline
  oper,     \* ACTION_OPERATE_RULE of the worker's m_uiActionSet
  list,     \* how far m_plistAbonRules and m_pmapMonitInfo are
  got,      \* what the worker's pcrf_db_pool_get returned
  used,     \* where the usage report of the request was stored, in order
  mine,     \* the handler itself holds a connection
  free,     \* connections in the pool
  count     \* g_uiThreadCount

handlerVars == <<hpc, ret, answer>>
workerVars == <<wpc, oper, list, got, used>>
sharedVars == <<ready, copied, offline>>
vars == <<req, handlerVars, workerVars, sharedVars, mine, free, count>>

HPC == {"idle", "counted", "waiting", "leaving", "copying", "offline",
        "unlocking", "returned", "done"}
WPC == {"none", "start", "usage", "storing", "rules", "select", "keys",
        "ready", "release", "copied", "gone"}
List == {"empty", "loaded", "marked", "complete"}

TypeOK ==
  /\ req \in [Call -> Request]
  /\ hpc \in [Call -> HPC]
  /\ wpc \in [Call -> WPC]
  /\ ret \in [Call -> {"none", "ok", "timedout", "busy", "failed"}]
  /\ answer \in [Call -> {"none", "default"} \cup List]
  /\ ready \in [Call -> BOOLEAN]
  /\ copied \in [Call -> BOOLEAN]
  /\ offline \in [Call -> BOOLEAN]
  /\ oper \in [Call -> BOOLEAN]
  /\ list \in [Call -> List]
  /\ got \in [Call -> {"none", "connection", "nothing"}]
  /\ used \in [Call -> Seq({"database", "failed", "queue"})]
  /\ mine \in [Call -> BOOLEAN]
  /\ free \in 0 .. NConn
  /\ count \in Int

Init ==
  /\ req \in [Call -> Request]
  /\ hpc = [c \in Call |-> "idle"]
  /\ wpc = [c \in Call |-> "none"]
  /\ ret = [c \in Call |-> "none"]
  /\ answer = [c \in Call |-> "none"]
  /\ ready = [c \in Call |-> FALSE]
  /\ copied = [c \in Call |-> FALSE]
  /\ offline = [c \in Call |-> FALSE]
  /\ oper = [c \in Call |-> req[c].rule]
  /\ list = [c \in Call |-> "empty"]
  /\ got = [c \in Call |-> "none"]
  /\ used = [c \in Call |-> <<>>]
  /\ mine = [c \in Call |-> FALSE]
  /\ free = NConn
  /\ count = 0

-----------------------------------------------------------------------------
(* Faulty variants of the actions below.  They are no part of the model:   *)
(* each shows that a property notices the mistake its name states.         *)

(* The worker may delete the data as soon as they are ready. *)
DataReadyUnlocksCopied(c) ==
  /\ hpc[c] = "waiting"
  /\ ready[c]
  /\ ready' = [ready EXCEPT ![c] = FALSE]
  /\ copied' = [copied EXCEPT ![c] = TRUE]
  /\ ret' = [ret EXCEPT ![c] = "ok"]
  /\ hpc' = [hpc EXCEPT ![c] = "leaving"]
  /\ UNCHANGED <<req, answer, workerVars, offline, mine, free, count>>

(* A handler that answers by itself returns without telling the worker. *)
SwitchToOfflineReturns(c) ==
  /\ hpc[c] = "offline"
  /\ offline' = [offline EXCEPT ![c] = TRUE]
  /\ answer' = [answer EXCEPT ![c] = "default"]
  /\ hpc' = [hpc EXCEPT ![c] = "returned"]
  /\ UNCHANGED <<req, ret, workerVars, ready, copied, mine, free, count>>

(* The worker is joined before m_mutexDataCopied is unlocked. *)
UnlockCopiedAfterJoin(c) ==
  /\ hpc[c] = "unlocking"
  /\ wpc[c] \in {"none", "gone"}
  /\ copied' = [copied EXCEPT ![c] = TRUE]
  /\ hpc' = [hpc EXCEPT ![c] = "returned"]
  /\ UNCHANGED <<req, ret, answer, workerVars, ready, offline, mine, free, count>>

(* A handler that ran into its time limit leaves the counter as it is. *)
LeaveInTimeOnly(c) ==
  /\ hpc[c] = "leaving"
  /\ count' = IF ret[c] = "ok" THEN count - 1 ELSE count
  /\ hpc' = [hpc EXCEPT ![c] = IF ret[c] = "ok" THEN "copying" ELSE "offline"]
  /\ UNCHANGED <<req, ret, answer, workerVars, sharedVars, mine, free>>

(* A report that took too long is sent to the queue as well. *)
UsageStoredTwice(c) ==
  /\ wpc[c] = "storing"
  /\ wpc' = [wpc EXCEPT ![c] = "rules"]
  /\ used' = [used EXCEPT ![c] = IF offline[c] THEN @ \o <<"database", "queue">>
                                 ELSE Append(@, "database")]
  /\ UNCHANGED <<req, handlerVars, oper, list, got, sharedVars, mine, free, count>>

(* The data are handed over before the monitoring keys are listed. *)
SelectRulesLast(c) ==
  /\ wpc[c] = "select"
  /\ wpc' = [wpc EXCEPT ![c] = "ready"]
  /\ list' = [list EXCEPT ![c] = IF @ = "loaded" THEN "marked" ELSE @]
  /\ UNCHANGED <<req, handlerVars, oper, got, used, sharedVars, mine, free, count>>

-----------------------------------------------------------------------------
(* The handler.  hpc names what it does next.                              *)

(* The caller, app_pcrf_ccr_cb, takes a connection of its own for the      *)
(* requests that read quotas or rules.  Without one it is here only for an *)
(* update of a gateway; other requests are refused before the call.        *)
CallerConnection(c) ==
  IF req[c].quota \/ req[c].rule
  THEN \/ free > 0 /\ mine' = [mine EXCEPT ![c] = TRUE] /\ free' = free - 1
       \/ free = 0 /\ req[c].type = "update" /\ UNCHANGED <<mine, free>>
  ELSE UNCHANGED <<mine, free>>

(* STimedData is made, pcrf_subscriber_data_increment_counter decides. *)
Begin(c) ==
  /\ hpc[c] = "idle"
  /\ CallerConnection(c)
  /\ IF count < MaxCCRHandlers
     THEN /\ count' = count + 1
          /\ hpc' = [hpc EXCEPT ![c] = "counted"]
          /\ UNCHANGED ret
     ELSE /\ hpc' = [hpc EXCEPT ![c] = "offline"]
          /\ ret' = [ret EXCEPT ![c] = "busy"]
          /\ UNCHANGED count
  /\ UNCHANGED <<req, answer, workerVars, sharedVars>>

(* pthread_create *)
CreateThread(c) ==
  /\ hpc[c] = "counted"
  /\ hpc' = [hpc EXCEPT ![c] = "waiting"]
  /\ wpc' = [wpc EXCEPT ![c] = "start"]
  /\ UNCHANGED <<req, ret, answer, oper, list, got, used, sharedVars, mine, free, count>>

(* pthread_create fails: CHECK_FCT returns its code at once. *)
CreateFails(c) ==
  /\ hpc[c] = "counted"
  /\ hpc' = [hpc EXCEPT ![c] = "returned"]
  /\ ret' = [ret EXCEPT ![c] = "failed"]
  /\ UNCHANGED <<req, answer, workerVars, sharedVars, mine, free, count>>

(* pthread_mutex_timedlock gets m_mutexDataReady ... *)
DataReady(c) ==
  /\ hpc[c] = "waiting"
  /\ ready[c]
  /\ ready' = [ready EXCEPT ![c] = FALSE]
  /\ ret' = [ret EXCEPT ![c] = "ok"]
  /\ hpc' = [hpc EXCEPT ![c] = "leaving"]
  /\ UNCHANGED <<req, answer, workerVars, copied, offline, mine, free, count>>

(* ... or gives up, at any moment before. *)
TimedOut(c) ==
  /\ hpc[c] = "waiting"
  /\ ~ready[c]
  /\ ret' = [ret EXCEPT ![c] = "timedout"]
  /\ hpc' = [hpc EXCEPT ![c] = "leaving"]
  /\ UNCHANGED <<req, answer, workerVars, sharedVars, mine, free, count>>

(* pcrf_subscriber_data_decrement_counter *)
Leave(c) ==
  /\ hpc[c] = "leaving"
  /\ count' = count - 1
  /\ hpc' = [hpc EXCEPT ![c] = IF ret[c] = "ok" THEN "copying" ELSE "offline"]
  /\ UNCHANGED <<req, ret, answer, workerVars, sharedVars, mine, free>>

(* The rule list, the monitoring keys and the action set are copied. *)
CopyData(c) ==
  /\ hpc[c] = "copying"
  /\ answer' = [answer EXCEPT ![c] = list[c]]
  /\ hpc' = [hpc EXCEPT ![c] = "unlocking"]
  /\ UNCHANGED <<req, ret, workerVars, sharedVars, mine, free, count>>

(* The worker is told, then the handler answers from the configuration:    *)
(* default rules for a CCR-I, default quotas for a CCR-U.                  *)
SwitchToOffline(c) ==
  /\ hpc[c] = "offline"
  /\ offline' = [offline EXCEPT ![c] = TRUE]
  /\ answer' = [answer EXCEPT ![c] = IF req[c].type = "termination"
                                     THEN "none" ELSE "default"]
  /\ hpc' = [hpc EXCEPT ![c] = "unlocking"]
  /\ UNCHANGED <<req, ret, workerVars, ready, copied, mine, free, count>>

(* m_mutexDataCopied is unlocked; STimedData is not touched after this. *)
UnlockCopied(c) ==
  /\ hpc[c] = "unlocking"
  /\ copied' = [copied EXCEPT ![c] = TRUE]
  /\ hpc' = [hpc EXCEPT ![c] = "returned"]
  /\ UNCHANGED <<req, ret, answer, workerVars, ready, offline, mine, free, count>>

(* The caller gives its connection back before it sends the answer. *)
Answer(c) ==
  /\ hpc[c] = "returned"
  /\ hpc' = [hpc EXCEPT ![c] = "done"]
  /\ mine' = [mine EXCEPT ![c] = FALSE]
  /\ free' = IF mine[c] THEN free + 1 ELSE free
  /\ UNCHANGED <<req, ret, answer, workerVars, sharedVars, count>>

-----------------------------------------------------------------------------
(* The worker, pcrf_subscriber_data_timed_oper.  Every part of its work    *)
(* looks at m_iSwitchedToOffline again; what it writes before "ready" is   *)
(* its own.                                                                *)

(* pcrf_db_pool_get waits a second and fails if no connection came free. *)
GetConnection(c) ==
  /\ wpc[c] = "start"
  /\ IF free > 0
     THEN /\ free' = free - 1
          /\ got' = [got EXCEPT ![c] = "connection"]
          /\ wpc' = [wpc EXCEPT ![c] = "usage"]
     ELSE /\ got' = [got EXCEPT ![c] = "nothing"]
          /\ wpc' = [wpc EXCEPT ![c] = "ready"]
          /\ UNCHANGED free
  /\ UNCHANGED <<req, handlerVars, oper, list, used, sharedVars, mine, count>>

(* A usage report goes to the database while the handler waits for the     *)
(* remaining quota; otherwise, and always at the end of a session, it goes *)
(* to the SQL queue, pcrf_db_sessionUsage_offline.                         *)
StoreUsage(c) ==
  /\ wpc[c] = "usage"
  /\ IF ~req[c].quota
     THEN /\ wpc' = [wpc EXCEPT ![c] = "rules"]
          /\ UNCHANGED used
     ELSE IF ~offline[c] /\ req[c].type # "termination"
     THEN /\ wpc' = [wpc EXCEPT ![c] = "storing"]
          /\ UNCHANGED used
     ELSE /\ wpc' = [wpc EXCEPT ![c] = "rules"]
          /\ used' = [used EXCEPT ![c] = Append(@, "queue")]
  /\ UNCHANGED <<req, handlerVars, oper, list, got, sharedVars, mine, free, count>>

(* pcrf_db_session_usage returns: what it read may call for a new choice   *)
(* of rules, even if it failed afterwards; an error is only logged.        *)
UsageStored(c) ==
  /\ wpc[c] = "storing"
  /\ wpc' = [wpc EXCEPT ![c] = "rules"]
  /\ \E outcome \in {"database", "failed"} : used' = [used EXCEPT ![c] = Append(@, outcome)]
  /\ \E update \in BOOLEAN : oper' = [oper EXCEPT ![c] = @ \/ update]
  /\ UNCHANGED <<req, handlerVars, list, got, sharedVars, mine, free, count>>

(* pcrf_server_create_abon_rule_list finds rules or leaves the list empty. *)
LoadRules(c) ==
  /\ wpc[c] = "rules"
  /\ wpc' = [wpc EXCEPT ![c] = IF offline[c] THEN "ready" ELSE "select"]
  /\ IF offline[c] \/ ~oper[c]
     THEN UNCHANGED list
     ELSE \E found \in {"empty", "loaded"} : list' = [list EXCEPT ![c] = found]
  /\ UNCHANGED <<req, handlerVars, oper, got, used, sharedVars, mine, free, count>>

(* The rules that are active already are marked, except for a CCR-I. *)
SelectRules(c) ==
  /\ wpc[c] = "select"
  /\ wpc' = [wpc EXCEPT ![c] = IF offline[c] \/ ~oper[c] THEN "ready" ELSE "keys"]
  /\ list' = [list EXCEPT ![c] =
                IF @ = "loaded" /\ ~offline[c] /\ oper[c] /\ req[c].type # "initial"
                THEN "marked" ELSE @]
  /\ UNCHANGED <<req, handlerVars, oper, got, used, sharedVars, mine, free, count>>

(* The monitoring keys of the rules are listed and their quotas read. *)
LoadKeys(c) ==
  /\ wpc[c] = "keys"
  /\ wpc' = [wpc EXCEPT ![c] = "ready"]
  /\ list' = [list EXCEPT ![c] = IF @ = "empty" \/ offline[c] THEN @ ELSE "complete"]
  /\ UNCHANGED <<req, handlerVars, oper, got, used, sharedVars, mine, free, count>>

(* m_mutexDataReady is unlocked, with or without data. *)
UnlockReady(c) ==
  /\ wpc[c] = "ready"
  /\ ready' = [ready EXCEPT ![c] = TRUE]
  /\ wpc' = [wpc EXCEPT ![c] = "release"]
  /\ UNCHANGED <<req, handlerVars, oper, list, got, used, copied, offline, mine, free, count>>

(* pcrf_db_pool_rel *)
ReleaseConnection(c) ==
  /\ wpc[c] = "release"
  /\ free' = IF got[c] = "connection" THEN free + 1 ELSE free
  /\ wpc' = [wpc EXCEPT ![c] = "copied"]
  /\ UNCHANGED <<req, handlerVars, oper, list, got, used, sharedVars, mine, count>>

(* The worker takes m_mutexDataCopied and deletes STimedData. *)
DeleteData(c) ==
  /\ wpc[c] = "copied"
  /\ copied[c]
  /\ copied' = [copied EXCEPT ![c] = FALSE]
  /\ wpc' = [wpc EXCEPT ![c] = "gone"]
  /\ UNCHANGED <<req, handlerVars, oper, list, got, used, ready, offline, mine, free, count>>

-----------------------------------------------------------------------------
Handler(c) ==
  \/ CreateThread(c) \/ CreateFails(c) \/ DataReady(c) \/ TimedOut(c) \/ Leave(c)
  \/ CopyData(c) \/ SwitchToOffline(c) \/ UnlockCopied(c) \/ Answer(c)

Worker(c) ==
  \/ GetConnection(c) \/ StoreUsage(c) \/ UsageStored(c) \/ LoadRules(c)
  \/ SelectRules(c) \/ LoadKeys(c) \/ UnlockReady(c) \/ ReleaseConnection(c)
  \/ DeleteData(c)

Next == \E c \in Call : Begin(c) \/ Handler(c) \/ Worker(c)

Spec == Init /\ [][Next]_vars

(* A handler's own wait ends by the clock; a worker's queries return. *)
Fairness == \A c \in Call : WF_vars(Handler(c)) /\ WF_vars(Worker(c))

FairSpec == Spec /\ Fairness

-----------------------------------------------------------------------------
(* STimedData is deleted only when its handler has left it for good, and   *)
(* never under a handler that timed out and still reads the request in it. *)
NoUseAfterDelete ==
  \A c \in Call : wpc[c] = "gone" => hpc[c] \in {"returned", "done"}

(* While the handler copies the result, the worker has stopped writing it. *)
CopyIsExclusive ==
  \A c \in Call : hpc[c] = "copying" => wpc[c] \in {"release", "copied"}

(* A handler that was in time answers with all of the rules or none: the   *)
(* worker never hands over a list it abandoned between two checks of       *)
(* m_iSwitchedToOffline, however late that flag was raised.                *)
AnswersAreWhole ==
  \A c \in Call :
    ret[c] = "ok" => answer[c] \in {"none", "empty", "complete"}

(* A usage report that a worker with a connection was given is stored once *)
(* and once only, whichever side of the time limit it is on.               *)
UsageOnce ==
  \A c \in Call :
    /\ Len(used[c]) <= 1
    /\ wpc[c] \in {"ready", "release", "copied", "gone"}
       /\ req[c].quota /\ got[c] = "connection" => Len(used[c]) = 1

(* The calls that g_uiThreadCount counts. *)
Counted == {c \in Call : hpc[c] \in {"counted", "waiting", "leaving"} \/ ret[c] = "failed"}

(* The counter is the number of handlers between its two updates, plus the *)
(* calls that left through CHECK_FCT when no thread could be made: it is   *)
(* never decremented twice, and never goes below zero.                     *)
CounterExact ==
  /\ count = Cardinality(Counted)
  /\ count <= MaxCCRHandlers

(* Every call comes back to its caller, whatever its worker does. *)
CallsReturn ==
  \A c \in Call : hpc[c] # "idle" ~> hpc[c] = "done"

(* Workers that were left alone finish too: in the end every thread has    *)
(* deleted its data and every connection is in the pool, although each     *)
(* call may hold one connection and wait for a second one.                 *)
Quiesces ==
  <>[](free = NConn /\ \A c \in Call : wpc[c] \in {"none", "gone"})

=============================================================================
