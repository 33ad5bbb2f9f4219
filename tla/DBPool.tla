------------------------------- MODULE DBPool -------------------------------
(***************************************************************************)
(* The pool of database connections, pcrf_db_pool.cpp.                     *)
(*                                                                         *)
(* A list of connections, each with a mutex, and one semaphore that starts *)
(* at the length of the list.  pcrf_db_pool_get waits for the semaphore,   *)
(* then walks the list from its head and keeps the first connection whose  *)
(* mutex it can take with trylock.  The walk is not protected: connections *)
(* are taken and given back behind and ahead of the walker.                *)
(* pcrf_db_pool_rel unlocks the mutex and only then posts the semaphore.   *)
(***************************************************************************)
EXTENDS Naturals, FiniteSets

CONSTANTS Client,  \* threads: CCR handlers, their workers, SQL queues, refresh
          NConn,   \* m_iDBPoolSize of the configuration, or its default
          NoOne    \* the owner of an unlocked mutex

ASSUME ClientAssumption == IsFiniteSet(Client) /\ NoOne \notin Client
ASSUME NConnAssumption  == NConn \in Nat \ {0}

VARIABLES sem,     \* g_tDBPoolSem
          lock,    \* who locked the m_mutexLock of each connection
          pc,      \* where each client is in get and rel
          pos,     \* the connection a walking client tries next
          held,    \* the client's p_pcoDBConn, 0 for NULL
          ret      \* what its last get returned

vars == <<sem, lock, pc, pos, held, ret>>

Conn == 1 .. NConn
PC == {"idle", "waiting", "scanning", "holding", "posting"}
Ret == {"none", "ok", "timedout", "notfound"}

TypeOK ==
  /\ sem \in Nat
  /\ lock \in [Conn -> Client \cup {NoOne}]
  /\ pc \in [Client -> PC]
  /\ pos \in [Client -> Conn]
  /\ held \in [Client -> Conn \cup {0}]
  /\ ret \in [Client -> Ret]

(* pcrf_db_pool_init succeeded: every connection is in the list, unlocked. *)
Init ==
  /\ sem = NConn
  /\ lock = [i \in Conn |-> NoOne]
  /\ pc = [c \in Client |-> "idle"]
  /\ pos = [c \in Client |-> 1]
  /\ held = [c \in Client |-> 0]
  /\ ret = [c \in Client |-> "none"]

-----------------------------------------------------------------------------
(* Faulty variants of the actions below.  They are no part of the model:   *)
(* each shows that a property notices the mistake its name states.         *)

(* The result of sem_timedwait is not looked at: the walk starts anyway. *)
SemTimeoutIgnored(c) ==
  /\ pc[c] = "waiting"
  /\ sem = 0
  /\ pc' = [pc EXCEPT ![c] = "scanning"]
  /\ pos' = [pos EXCEPT ![c] = 1]
  /\ UNCHANGED <<sem, lock, held, ret>>

(* A wait that is interrupted while tokens are left is reported as a failure. *)
SemInterrupted(c) ==
  /\ pc[c] = "waiting"
  /\ pc' = [pc EXCEPT ![c] = "idle"]
  /\ ret' = [ret EXCEPT ![c] = "timedout"]
  /\ UNCHANGED <<sem, lock, pos, held>>

(* The mutex is not asked whether it is taken. *)
TryLockTaken(c) ==
  /\ pc[c] = "scanning"
  /\ lock' = [lock EXCEPT ![pos[c]] = c]
  /\ held' = [held EXCEPT ![c] = pos[c]]
  /\ pc' = [pc EXCEPT ![c] = "holding"]
  /\ ret' = [ret EXCEPT ![c] = "ok"]
  /\ UNCHANGED <<sem, pos>>

(* lock in place of trylock: the walk waits at the first busy connection. *)
LockWaits(c) ==
  /\ pc[c] = "scanning"
  /\ lock[pos[c]] # NoOne
  /\ UNCHANGED vars

(* rel forgets the semaphore. *)
RelWithoutPost(c) ==
  /\ pc[c] = "posting"
  /\ pc' = [pc EXCEPT ![c] = "idle"]
  /\ UNCHANGED <<sem, lock, pos, held, ret>>

-----------------------------------------------------------------------------
(* pcrf_db_pool_get *)

GetCall(c) ==
  /\ pc[c] = "idle"
  /\ pc' = [pc EXCEPT ![c] = "waiting"]
  /\ ret' = [ret EXCEPT ![c] = "none"]
  /\ UNCHANGED <<sem, lock, pos, held>>

(* sem_timedwait takes a token; the walk starts at the head of the list. *)
SemWait(c) ==
  /\ pc[c] = "waiting"
  /\ sem > 0
  /\ sem' = sem - 1
  /\ pc' = [pc EXCEPT ![c] = "scanning"]
  /\ pos' = [pos EXCEPT ![c] = 1]
  /\ UNCHANGED <<lock, held, ret>>

(* The wait ends without a token, which it does only when there is none. *)
SemTimeout(c) ==
  /\ pc[c] = "waiting"
  /\ sem = 0
  /\ pc' = [pc EXCEPT ![c] = "idle"]
  /\ ret' = [ret EXCEPT ![c] = "timedout"]
  /\ UNCHANGED <<sem, lock, pos, held>>

TryLockFree(c) ==
  /\ pc[c] = "scanning"
  /\ lock[pos[c]] = NoOne
  /\ lock' = [lock EXCEPT ![pos[c]] = c]
  /\ held' = [held EXCEPT ![c] = pos[c]]
  /\ pc' = [pc EXCEPT ![c] = "holding"]
  /\ ret' = [ret EXCEPT ![c] = "ok"]
  /\ UNCHANGED <<sem, pos>>

(* The connection is taken: go on to the next one, and past the last one   *)
(* give up with -2222, the semaphore's token not given back.               *)
TryLockBusy(c) ==
  /\ pc[c] = "scanning"
  /\ lock[pos[c]] # NoOne
  /\ IF pos[c] = NConn
       THEN /\ pc' = [pc EXCEPT ![c] = "idle"]
            /\ ret' = [ret EXCEPT ![c] = "notfound"]
            /\ UNCHANGED pos
       ELSE /\ pos' = [pos EXCEPT ![c] = @ + 1]
            /\ UNCHANGED <<pc, ret>>
  /\ UNCHANGED <<sem, lock, held>>

-----------------------------------------------------------------------------
(* pcrf_db_pool_rel, called with the connection get returned *)

RelUnlock(c) ==
  /\ pc[c] = "holding"
  /\ lock' = [lock EXCEPT ![held[c]] = NoOne]
  /\ held' = [held EXCEPT ![c] = 0]
  /\ pc' = [pc EXCEPT ![c] = "posting"]
  /\ UNCHANGED <<sem, pos, ret>>

RelPost(c) ==
  /\ pc[c] = "posting"
  /\ sem' = sem + 1
  /\ pc' = [pc EXCEPT ![c] = "idle"]
  /\ UNCHANGED <<lock, pos, held, ret>>

Next ==
  \E c \in Client :
    \/ GetCall(c)
    \/ SemWait(c)
    \/ SemTimeout(c)
    \/ TryLockFree(c)
    \/ TryLockBusy(c)
    \/ RelUnlock(c)
    \/ RelPost(c)

Spec == Init /\ [][Next]_vars

(* A client inside get or rel goes on running; how long it keeps the       *)
(* connection in between is the client's own affair.                       *)
FairSpec ==
  /\ Spec
  /\ \A c \in Client : WF_vars(TryLockFree(c) \/ TryLockBusy(c) \/ RelPost(c))

-----------------------------------------------------------------------------
(* Properties *)

Scanning == {c \in Client : pc[c] = "scanning"}
Posting == {c \in Client : pc[c] = "posting"}

(* The walkers that still have connection k or a later one to try, and the *)
(* unlocked connections among those.                                       *)
ScanningFrom(k) == {c \in Scanning : pos[c] >= k}
FreeFrom(k) == {i \in Conn : i >= k /\ lock[i] = NoOne}

(* A get that was granted a token finds a connection.  The code calls the  *)
(* other outcome, -2222, an unexpected error; it would also lose the token *)
(* for good, and the pool would be one connection smaller.                 *)
AlwaysFound == \A c \in Client : ret[c] # "notfound"

(* The tokens of the semaphore and the clients on their way in or out add  *)
(* up to the unlocked connections: no sequence of gets and releases leaks  *)
(* a connection or a token.                                                *)
TokensMatchFree ==
  sem + Cardinality(Scanning) + Cardinality(Posting) = Cardinality(FreeFrom(1))

(* However the walks overlap, the walkers that have passed k - 1           *)
(* connections never outnumber the free connections they have left to try: *)
(* a connection freed behind a walker is never the only one there was.     *)
WalkersHaveRoom ==
  \A k \in Conn : Cardinality(ScanningFrom(k)) <= Cardinality(FreeFrom(k))

(* A connection belongs to the client that locked it and to no other: two  *)
(* threads never share one otl_connect.                                    *)
OwnersAgree ==
  /\ \A c \in Client : pc[c] = "holding" <=> held[c] # 0
  /\ \A c \in Client : held[c] # 0 => lock[held[c]] = c
  /\ \A i \in Conn : lock[i] # NoOne => held[lock[i]] = i

(* The walk ends with a connection in hand even if no client that holds    *)
(* one ever gives it back.                                                 *)
ScanEnds == \A c \in Client : pc[c] = "scanning" ~> pc[c] = "holding"

-----------------------------------------------------------------------------
(* The pool the clients see: the ones with a token are admitted. *)

CP == INSTANCE ConnPool WITH
        asking   <- {c \in Client : pc[c] = "waiting"},
        admitted <- {c \in Client : pc[c] \in {"scanning", "holding", "posting"}},
        given    <- held

(* The semaphore and the unprotected walk implement the promise of module  *)
(* ConnPool: refused only when the pool is full, and never let in for      *)
(* nothing.                                                                *)
ImplementsConnPool == CP!Spec

=============================================================================
