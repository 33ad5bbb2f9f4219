------------------------------ MODULE SqlQueue ------------------------------
(***************************************************************************)
(* The queues of SQL statements, pcrf_sql_queue.cpp.  Threads that need no *)
(* result append a statement to one of the queues: to a fixed one if the   *)
(* statement belongs to a session, else to the next one in a round.  Each  *)
(* queue has a thread that wakes up ten times a second, executes what is   *)
(* there over a connection it took from the pool once and for all, and     *)
(* commits in batches.                                                     *)
(*                                                                         *)
(* A list is what was ever appended to it and the number of elements that  *)
(* were erased from its front; its iterator always stands on the first of  *)
(* the remaining ones.  A statement is known by its position in the list.  *)
(* Parameters and texts of the statements are left out.  The database is   *)
(* external: it executes or refuses a statement, and breaks a connection   *)
(* at any time, with the transaction that is open on it; a commit throws   *)
(* on a broken connection, a rollback may.                                 *)
(***************************************************************************)
EXTENDS Integers, Sequences, FiniteSets

CONSTANTS Thread,       \* threads that append statements
          Session,      \* Session-Ids that end in ";<number>"
          NoSession,    \* no Session-Id, or one without a number
          QueueCount,   \* g_uiQueueCount
          Number,       \* the number a Session-Id ends in
          MaxBatch,     \* 100, the executed statements that force a commit
          MinBatch,     \* 10, those after which the clock is looked at
          MaxTickets,   \* a bound of the model on the statements
          MaxLosses     \* a bound of the model on the broken connections

ASSUME SessionAssumption == NoSession \notin Session /\ Number \in [Session -> Nat]
ASSUME QueueCountAssumption == QueueCount \in Nat \ {0}
ASSUME BatchAssumption == MaxBatch \in Nat /\ MinBatch \in Nat
ASSUME BoundsAssumption == MaxTickets \in Nat /\ MaxLosses \in Nat

VARIABLES
  round,    \* uiRoundIndex
  epc,      \* where each thread is in pcrf_sql_queue_enqueue
  undo,     \* its p_bRollbackOnFail
  index,    \* its uiThreadIndex
  sent,     \* the statements ever appended to each queue
  erased,   \* how many were erased
  cpc,      \* where the thread of each queue is
  conn,     \* its pcoDBConn
  restore,  \* its iRestoreConnection
  count,    \* its iCount
  should,   \* its bShouldCommit
  pending,  \* positions executed in the transaction that is open
  stored,   \* positions that were committed
  refused,  \* positions the database refused
  lost,     \* positions that were executed on a connection that broke
  tickets,  \* how many statements were appended to any queue
  losses,   \* how many connections broke
  work,     \* g_iWork
  alive     \* the process has not been terminated

enqueueVars == <<round, epc, undo, index>>
listVars == <<sent, erased, tickets>>
loopVars == <<conn, restore, count, should>>
storeVars == <<pending, stored, refused, lost, losses>>
vars == <<enqueueVars, listVars, cpc, loopVars, storeVars, work, alive>>

Queue == 0 .. QueueCount - 1
Statement == [session : Session \cup {NoSession}, undo : BOOLEAN, ticket : Nat]
CPC == {"sleeping", "request", "execute", "full", "timed", "failed",
        "erase", "finish", "exited"}

TypeOK ==
  /\ round \in Nat
  /\ epc \in [Thread -> {"idle", "take", "push"}]
  /\ undo \in [Thread -> BOOLEAN]
  /\ index \in [Thread -> Nat]
  /\ sent \in [Queue -> Seq(Statement)]
  /\ erased \in [Queue -> Nat]
  /\ \A i \in Queue : erased[i] <= Len(sent[i])
  /\ cpc \in [Queue -> CPC]
  /\ conn \in [Queue -> {"none", "up", "broken"}]
  /\ restore \in [Queue -> {0, 1, -1}]
  /\ count \in [Queue -> Nat]
  /\ should \in [Queue -> BOOLEAN]
  /\ pending \in [Queue -> SUBSET Nat]
  /\ stored \in [Queue -> SUBSET Nat]
  /\ refused \in [Queue -> SUBSET Nat]
  /\ lost \in [Queue -> SUBSET Nat]
  /\ tickets \in Nat /\ losses \in Nat
  /\ work \in BOOLEAN /\ alive \in BOOLEAN

(* pcrf_sql_queue_init *)
Init ==
  /\ round = 0
  /\ epc = [t \in Thread |-> "idle"]
  /\ undo = [t \in Thread |-> FALSE]
  /\ index = [t \in Thread |-> 0]
  /\ sent = [i \in Queue |-> <<>>]
  /\ erased = [i \in Queue |-> 0]
  /\ cpc = [i \in Queue |-> "sleeping"]
  /\ conn = [i \in Queue |-> "none"]
  /\ restore = [i \in Queue |-> 0]
  /\ count = [i \in Queue |-> 0]
  /\ should = [i \in Queue |-> FALSE]
  /\ pending = [i \in Queue |-> {}]
  /\ stored = [i \in Queue |-> {}]
  /\ refused = [i \in Queue |-> {}]
  /\ lost = [i \in Queue |-> {}]
  /\ tickets = 0 /\ losses = 0
  /\ work = TRUE /\ alive = TRUE

Remaining(i) == erased[i] < Len(sent[i])
Current(i) == erased[i] + 1       \* the position of the iterator
Undo(i) == sent[i][Current(i)].undo

-----------------------------------------------------------------------------
(* pcrf_sql_queue_enqueue *)

AppendTo(i, s, u) ==
  /\ tickets < MaxTickets
  /\ sent' = [sent EXCEPT ![i] = Append(@, [session |-> s, undo |-> u, ticket |-> tickets])]
  /\ tickets' = tickets + 1
  /\ UNCHANGED <<erased, cpc, loopVars, storeVars, work, alive>>

(* Faulty, no part of the model: a session's statement joins the round. *)
EnqueueAnywhere(t, s) ==
  /\ epc[t] = "idle"
  /\ AppendTo(round % QueueCount, s, FALSE)
  /\ round' = (round % QueueCount) + 1
  /\ UNCHANGED <<epc, undo, index>>

(* The number after the last ';' selects the queue of a session's statement. *)
EnqueueOfSession(t, s) ==
  /\ epc[t] = "idle"
  /\ AppendTo(Number[s] % QueueCount, s, FALSE)
  /\ UNCHANGED enqueueVars

(* uiRoundIndex %= g_uiQueueCount, without a lock.  Only usage reports ask *)
(* for a rollback, and they name no session.                               *)
ReduceRound(t, u) ==
  /\ epc[t] = "idle"
  /\ round' = round % QueueCount
  /\ undo' = [undo EXCEPT ![t] = u]
  /\ epc' = [epc EXCEPT ![t] = "take"]
  /\ UNCHANGED <<index, listVars, cpc, loopVars, storeVars, work, alive>>

(* uiThreadIndex = uiRoundIndex++ *)
TakeRound(t) ==
  /\ epc[t] = "take"
  /\ index' = [index EXCEPT ![t] = round]
  /\ round' = round + 1
  /\ epc' = [epc EXCEPT ![t] = "push"]
  /\ UNCHANGED <<undo, listVars, cpc, loopVars, storeVars, work, alive>>

Push(t) ==
  /\ epc[t] = "push"
  /\ index[t] \in Queue
  /\ AppendTo(index[t], NoSession, undo[t])
  /\ epc' = [epc EXCEPT ![t] = "idle"]
  /\ undo' = [undo EXCEPT ![t] = FALSE]    \* arguments and locals are gone
  /\ index' = [index EXCEPT ![t] = 0]
  /\ UNCHANGED round

(* Beyond the array of queues anything may happen: the process ends. *)
PushOutside(t) ==
  /\ epc[t] = "push"
  /\ index[t] \notin Queue
  /\ alive' = FALSE
  /\ UNCHANGED <<enqueueVars, listVars, cpc, loopVars, storeVars, work>>

-----------------------------------------------------------------------------
(* The database *)

(* A connection breaks, and the transaction that is open on it with it. *)
Break(i) ==
  /\ conn[i] = "up"
  /\ losses < MaxLosses
  /\ conn' = [conn EXCEPT ![i] = "broken"]
  /\ pending' = [pending EXCEPT ![i] = {}]
  /\ lost' = [lost EXCEPT ![i] = @ \cup pending[i]]
  /\ losses' = losses + 1
  /\ UNCHANGED <<enqueueVars, listVars, cpc, restore, count, should, stored, refused, work, alive>>

(* commit: on a broken connection it throws, which nobody catches. *)
Commit(i) ==
  /\ IF conn[i] = "up"
     THEN /\ stored' = [stored EXCEPT ![i] = @ \cup pending[i]]
          /\ pending' = [pending EXCEPT ![i] = {}]
          /\ UNCHANGED alive
     ELSE /\ alive' = FALSE
          /\ UNCHANGED <<stored, pending>>
  /\ UNCHANGED <<refused, lost, losses>>

(* pcrf_db_pool_restore: 0 if the connection works, 1 if it does again, or -1. *)
Restored(i) ==
  IF conn[i] = "up"
  THEN restore' = [restore EXCEPT ![i] = 0] /\ UNCHANGED conn
  ELSE \/ /\ restore' = [restore EXCEPT ![i] = 1]
          /\ conn' = [conn EXCEPT ![i] = "up"]
       \/ /\ restore' = [restore EXCEPT ![i] = -1]
          /\ UNCHANGED conn

-----------------------------------------------------------------------------
(* pcrf_sql_queue_oper.  cpc names what the thread of queue i does next.   *)

Goto(i, l) == cpc' = [cpc EXCEPT ![i] = l]

(* A thread that wakes up without a connection asks the pool for one, and  *)
(* with one that could not be restored tries again; if that fails it goes  *)
(* back to sleep.  Otherwise a new portion begins.                         *)
Begin(i) == Goto(i, IF Remaining(i) THEN "request" ELSE "sleeping")

WakeUp(i) ==
  /\ cpc[i] = "sleeping" /\ work
  /\ conn[i] # "none" /\ restore[i] # -1
  /\ Remaining(i)
  /\ Begin(i)
  /\ UNCHANGED <<enqueueVars, listVars, loopVars, storeVars, work, alive>>

GetConnection(i) ==
  /\ cpc[i] = "sleeping" /\ work
  /\ conn[i] = "none"
  /\ conn' = [conn EXCEPT ![i] = "up"]
  /\ Begin(i)
  /\ UNCHANGED <<enqueueVars, listVars, restore, count, should, storeVars, work, alive>>

Reconnect(i) ==
  /\ cpc[i] = "sleeping" /\ work
  /\ restore[i] = -1
  /\ Restored(i)
  /\ IF restore'[i] = -1 THEN UNCHANGED cpc ELSE Begin(i)
  /\ UNCHANGED <<enqueueVars, listVars, count, should, storeVars, work, alive>>

(* Faulty, no part of the model: the work done so far is not committed     *)
(* before a statement whose failure will be rolled back.                   *)
CommitBeforeForgotten(i) ==
  /\ cpc[i] = "request"
  /\ Undo(i)
  /\ Goto(i, "execute")
  /\ UNCHANGED <<enqueueVars, listVars, loopVars, storeVars, work, alive>>

(* What was executed so far is committed before a statement whose failure  *)
(* will be rolled back.                                                    *)
CommitBefore(i) ==
  /\ cpc[i] = "request"
  /\ Undo(i)
  /\ Commit(i)
  /\ Goto(i, "execute")
  /\ UNCHANGED <<enqueueVars, listVars, loopVars, work>>

(* pcrf_sql_queue_oper_single may run. *)
AtExecute(i) == cpc[i] = "execute" \/ (cpc[i] = "request" /\ ~Undo(i))

(* The statement is executed.  Too many of them force a commit, and from a *)
(* number on the clock may call for one.                                   *)
Execute(i) ==
  /\ AtExecute(i)
  /\ conn[i] = "up"
  /\ pending' = [pending EXCEPT ![i] = @ \cup {Current(i)}]
  /\ count' = [count EXCEPT ![i] = @ + 1]
  /\ should' = [should EXCEPT ![i] = TRUE]
  /\ \E l \in IF count[i] + 1 > MaxBatch THEN {"full"}
              ELSE IF count[i] + 1 > MinBatch THEN {"timed", "erase"} ELSE {"erase"} :
       Goto(i, l)
  /\ UNCHANGED <<enqueueVars, listVars, conn, restore, stored, refused, lost, losses, work, alive>>

(* The database refuses the statement; its own effects are undone, and if  *)
(* the statement asks for it those of the whole transaction.               *)
ExecuteRefused(i) ==
  /\ AtExecute(i)
  /\ conn[i] = "up"
  /\ pending' = [pending EXCEPT ![i] = IF Undo(i) THEN {} ELSE @]
  /\ Goto(i, "failed")
  /\ UNCHANGED <<enqueueVars, listVars, loopVars, stored, refused, lost, losses, work, alive>>

(* The connection is broken; a rollback that is due may throw as well. *)
ExecuteBroken(i) ==
  /\ AtExecute(i)
  /\ conn[i] = "broken"
  /\ \E thrown \in BOOLEAN : alive' = ~(thrown /\ Undo(i))
  /\ Goto(i, "failed")
  /\ UNCHANGED <<enqueueVars, listVars, loopVars, storeVars, work>>

CommitBatch(i) ==
  /\ cpc[i] \in {"full", "timed"}
  /\ Commit(i)
  /\ should' = [should EXCEPT ![i] = FALSE]
  /\ count' = [count EXCEPT ![i] = IF cpc[i] = "full" THEN 0 ELSE @]
  /\ Goto(i, "erase")
  /\ UNCHANGED <<enqueueVars, listVars, conn, restore, work>>

(* Faulty, no part of the model: a statement that failed is dropped even   *)
(* if the connection was to blame.                                         *)
DropFailed(i) ==
  /\ cpc[i] = "failed"
  /\ Restored(i)
  /\ IF restore'[i] = -1
     THEN Goto(i, "finish") /\ UNCHANGED refused
     ELSE Goto(i, "erase") /\ UNCHANGED refused
  /\ UNCHANGED <<enqueueVars, listVars, count, should, pending, stored, lost, losses, work, alive>>

(* A failed statement is dropped if the connection works; if it had to be  *)
(* restored, or could not be, the statement stays for the next time.       *)
Failed(i) ==
  /\ cpc[i] = "failed"
  /\ Restored(i)
  /\ IF restore'[i] = 0
     THEN /\ refused' = [refused EXCEPT ![i] = @ \cup {Current(i)}]
          /\ Goto(i, "erase")
     ELSE /\ Goto(i, "finish")
          /\ UNCHANGED refused
  /\ UNCHANGED <<enqueueVars, listVars, count, should, pending, stored, lost, losses, work, alive>>

(* The element is erased; the iterator moves to the next one, if there is  *)
(* one by now.                                                             *)
Erase(i) ==
  /\ cpc[i] = "erase"
  /\ erased' = [erased EXCEPT ![i] = @ + 1]
  /\ Goto(i, IF erased[i] + 1 < Len(sent[i]) THEN "request" ELSE "finish")
  /\ UNCHANGED <<enqueueVars, sent, tickets, loopVars, storeVars, work, alive>>

(* Faulty, no part of the model: the last commit of a portion is missing. *)
FinishUncommitted(i) ==
  /\ cpc[i] = "finish"
  /\ count' = [count EXCEPT ![i] = 0]
  /\ should' = [should EXCEPT ![i] = FALSE]
  /\ Goto(i, "sleeping")
  /\ UNCHANGED <<enqueueVars, listVars, conn, restore, storeVars, work, alive>>

(* Faulty, no part of the model: a thread with a broken connection ends. *)
FinishForGood(i) ==
  /\ cpc[i] = "finish"
  /\ IF should[i] THEN Commit(i) ELSE UNCHANGED <<storeVars, alive>>
  /\ count' = [count EXCEPT ![i] = 0]
  /\ should' = [should EXCEPT ![i] = FALSE]
  /\ Goto(i, IF restore[i] = -1 THEN "exited" ELSE "sleeping")
  /\ UNCHANGED <<enqueueVars, listVars, conn, restore, work>>

(* The rest is committed; iCount and bShouldCommit start anew with the     *)
(* next portion.                                                           *)
Finish(i) ==
  /\ cpc[i] = "finish"
  /\ IF should[i] THEN Commit(i) ELSE UNCHANGED <<storeVars, alive>>
  /\ count' = [count EXCEPT ![i] = 0]
  /\ should' = [should EXCEPT ![i] = FALSE]
  /\ Goto(i, "sleeping")
  /\ UNCHANGED <<enqueueVars, listVars, conn, restore, work>>

(* The thread ends; pcrf_db_pool_rel takes its connection. *)
Exit(i) ==
  /\ cpc[i] = "sleeping" /\ ~work
  /\ conn' = [conn EXCEPT ![i] = "none"]
  /\ Goto(i, "exited")
  /\ UNCHANGED <<enqueueVars, listVars, restore, count, should, storeVars, work, alive>>

(* pcrf_sql_queue_fini *)
Fini ==
  /\ work
  /\ work' = FALSE
  /\ UNCHANGED <<enqueueVars, listVars, cpc, loopVars, storeVars, alive>>

-----------------------------------------------------------------------------
Enqueue(t) ==
  \/ \E s \in Session : EnqueueOfSession(t, s)
  \/ \E u \in BOOLEAN : ReduceRound(t, u)
  \/ TakeRound(t) \/ Push(t) \/ PushOutside(t)

Oper(i) ==
  \/ GetConnection(i) \/ Reconnect(i) \/ WakeUp(i)
  \/ CommitBefore(i) \/ Execute(i) \/ ExecuteRefused(i) \/ ExecuteBroken(i)
  \/ CommitBatch(i) \/ Failed(i) \/ Erase(i) \/ Finish(i) \/ Exit(i)

Next ==
  /\ alive
  /\ \/ \E t \in Thread : Enqueue(t)
     \/ \E i \in Queue : Oper(i) \/ Break(i)
     \/ Fini

Spec == Init /\ [][Next]_vars

(* The threads of the queues run.  Attempts to get a connection or to      *)
(* restore one that fail change nothing, so that this says of the pool and *)
(* of the database that such attempts do not fail for ever.                *)
FairSpec == Spec /\ \A i \in Queue : WF_vars(alive /\ Oper(i))

-----------------------------------------------------------------------------
(* Properties *)

(* Statements of one session take effect in the order they were enqueued,  *)
(* whichever threads enqueued them: none is decided while an earlier one   *)
(* is still in a queue.                                                    *)
SessionOrder ==
  \A i, j \in Queue : \A m \in 1 .. Len(sent[i]), n \in 1 .. Len(sent[j]) :
    /\ sent[i][m].session = sent[j][n].session
    /\ sent[i][m].session # NoSession
    /\ sent[i][m].ticket < sent[j][n].ticket
    /\ n \in pending[j] \cup stored[j] \cup refused[j]
    => m <= erased[i]

(* An erased statement was executed or refused: what disappears in between *)
(* disappeared with a broken connection, and nothing is skipped because a  *)
(* connection had to be restored.                                          *)
Accounted ==
  \A i \in Queue :
    1 .. erased[i] \subseteq pending[i] \cup stored[i] \cup refused[i] \cup lost[i]

(* A statement that fails and is rolled back takes nothing with it: work   *)
(* that was executed leaves the open transaction by a commit or with a     *)
(* broken connection ("in order not to lose the data of the previous       *)
(* requests").                                                             *)
OnlyBreaksLoseWork ==
  [][\A i \in Queue : pending[i] \subseteq pending'[i] \cup stored'[i] \cup lost'[i]]_vars

(* However errors, restored connections and commits follow one another, a  *)
(* sleeping or ended thread leaves no transaction open: the locks of its   *)
(* rows are not held, and the next owner of its connection inherits none.  *)
NoTransactionLeft ==
  \A i \in Queue : cpc[i] \in {"sleeping", "exited"} => pending[i] = {}

(* A broken connection never costs more than one batch. *)
BatchBounded == \A i \in Queue : Cardinality(pending[i]) <= MaxBatch + 1

(* Whatever is in a queue gets out of it, even past statements that are    *)
(* refused and connections that break, while the process goes on.          *)
Drains ==
  \A i \in Queue : \A n \in 1 .. MaxTickets :
    Len(sent[i]) >= n ~> (erased[i] >= n \/ ~work \/ ~alive)

-----------------------------------------------------------------------------
(* The journal the queues implement: the current statement is decided once *)
(* it was executed or dropped, though it is still in the list.             *)
Decided(i) == IF cpc[i] \in {"full", "timed", "erase"} THEN erased[i] + 1 ELSE erased[i]

Journal == INSTANCE SqlJournal
             WITH Lane    <- Queue,
                  offered <- [i \in Queue |-> Len(sent[i])],
                  decided <- [i \in Queue |-> Decided(i)],
                  open    <- pending,
                  durable <- stored

(* Every statement is decided once and in order, and batches are atomic.   *)
ImplementsJournal == Journal!Spec

=============================================================================
