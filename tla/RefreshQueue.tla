---------------------------- MODULE RefreshQueue ----------------------------
(***************************************************************************)
(* The queue of sessions to look at again, pcrf_client.cpp.                *)
(*                                                                         *)
(* Requests to end a session or to refresh the rules of a subscriber come  *)
(* from two places: the local queue, filled by the handlers of CCR         *)
(* messages, and the table ps.refreshQueue, filled by other programs.  One *)
(* thread wakes up at an interval, lists both and turns every request into *)
(* Re-Auth messages to the gateways that hold the sessions.                *)
(*                                                                         *)
(* The thread works from the session cache, which the handlers, the        *)
(* answers and the other node change under it, and from a database that    *)
(* may fail at every query.  Times are abstracted: a request of the table  *)
(* is there when it is due, and the ones of the local queue are due at     *)
(* once (time zero to end a session, the configured seconds after the      *)
(* epoch to refresh), so they differ in order only.                        *)
(***************************************************************************)
EXTENDS Naturals, Sequences, SequencesExt, FiniteSets

CONSTANTS Session, Subscriber, Address, Peer,
          Core,                \* sessions of UGW and Ericsson gateways
          Procera,             \* sessions of Procera
          OwnerOf,             \* m_strSubscriberId
          AddressOf,           \* Framed-IP-Address
          PeerOf,              \* Origin-Host and Origin-Realm
          Listed,              \* peers of g_vectPeerList
          Entitled,            \* subscribers with rules in the database
          NoSession,
          Look4StalledSession, \* m_iLook4StalledSession
          OperateRefreshQueue, \* m_iOperateRefreshQueue
          RowRequest,          \* what other programs ask for
          MaxAsked, MaxRows, MaxRestarts  \* bounds of the model

ASSUME SessionAssumption ==
  /\ IsFiniteSet(Session) /\ NoSession \notin Session
  /\ Core \subseteq Session /\ Procera \subseteq Session \ Core
  /\ OwnerOf \in [Session -> Subscriber]
  /\ AddressOf \in [Session -> Address]
  /\ PeerOf \in [Session -> Peer]
  /\ Listed \subseteq Peer /\ Entitled \subseteq Subscriber
ASSUME OptionAssumption ==
  Look4StalledSession \in BOOLEAN /\ OperateRefreshQueue \in BOOLEAN
ASSUME BoundAssumption ==
  MaxAsked \in Nat /\ MaxRows \in Nat /\ MaxRestarts \in Nat

Action == {"abort_session", "none"}

(* SRefQueue: m_strIdentifierType, m_strIdentifier and m_coAction *)
Request == [type : {"session_id"}, id : Session, action : Action]
             \cup [type : {"subscriber_id"}, id : Subscriber, action : Action]

ASSUME RowAssumption == RowRequest \subseteq Request

(* A request in a queue.  n numbers the requests of its source, row tells  *)
(* the ones that have an m_strRowId.                                       *)
Entry == [n : Nat, row : BOOLEAN, request : Request]

VARIABLES
  held,       \* what the gateway of a session knows of it
  ccr,        \* where the handler of a session's CCR is
  cache,      \* sessions in the session cache
  named,      \* ... those with a subscriber, as in the index by subscriber
  known,      \* subscribers that have a key in that index
  connected,  \* peers with m_iIsConnected
  aborts,     \* g_mmapLocalRefreshQueue at time zero ...
  refreshes,  \* ... and later
  asked,      \* requests the local queue has taken
  rows,       \* the table ps.refreshQueue
  added,      \* rows it ever had
  pc,         \* where the thread is
  conn,       \* it holds a connection
  list,       \* listQueue, from the request in hand on
  left,       \* vectSessionList, sessions to come
  at,         \* the session whose rules are being loaded
  failed,     \* iRetVal of pcrf_client_operate_refqueue_record
  rar,        \* Re-Auth messages that wait for their answer
  stop,       \* g_iStop
  restarts,   \* restarts of the process
  owed,       \* history: cached sessions the request in hand is about
  handled     \* history: local requests the thread is done with

gatewayVars == <<held, ccr>>
cacheVars == <<cache, named, known>>
localVars == <<aborts, refreshes, asked>>
tableVars == <<rows, added>>
recordVars == <<left, at, failed, owed>>
threadVars == <<pc, conn, list, handled, recordVars>>
vars == <<gatewayVars, cacheVars, connected, localVars, tableVars, threadVars,
          rar, stop, restarts>>

PC == {"waiting", "rows", "local", "next", "session", "rules", "ended"}

TypeOK ==
  /\ held \in [Session -> {"new", "open", "closed"}]
  /\ ccr \in [Session -> {"none", "initial", "unknown"}]
  /\ cache \subseteq Session
  /\ named \subseteq cache
  /\ {OwnerOf[s] : s \in named} \subseteq known
  /\ known \subseteq Subscriber
  /\ connected \subseteq Listed
  /\ aborts \in Seq(Entry)
  /\ refreshes \in Seq(Entry)
  /\ asked \in Nat
  /\ rows \subseteq Entry
  /\ added \in Nat
  /\ pc \in PC
  /\ conn \in BOOLEAN
  /\ list \in Seq(Entry)
  /\ left \subseteq Session
  /\ at \in Session \cup {NoSession}
  /\ failed \in BOOLEAN
  /\ rar \subseteq Session \X {"release", "rules"}
  /\ stop \in BOOLEAN
  /\ restarts \in Nat
  /\ owed \subseteq Session
  /\ handled \subseteq Nat
  /\ pc \in {"session", "rules"} => list # <<>>
  /\ pc = "rules" <=> at # NoSession

Init ==
  /\ held = [s \in Session |-> "new"]
  /\ ccr = [s \in Session |-> "none"]
  /\ cache = {} /\ named = {} /\ known = {} /\ connected = {}
  /\ aborts = <<>> /\ refreshes = <<>> /\ asked = 0
  /\ rows = {} /\ added = 0
  /\ pc = "waiting" /\ conn = FALSE /\ list = <<>>
  /\ left = {} /\ at = NoSession /\ failed = FALSE
  /\ rar = {} /\ stop = FALSE /\ restarts = 0
  /\ owed = {} /\ handled = {}

(* pcrf_local_refresh_queue_add.  Several requests of one handler arrive   *)
(* in the order of q.                                                      *)
AddAborts(q) ==
  /\ asked + Len(q) <= MaxAsked
  /\ aborts' = aborts \o [i \in DOMAIN q |->
       [n |-> asked + i, row |-> FALSE,
        request |-> [type |-> "session_id", id |-> q[i], action |-> "abort_session"]]]
  /\ asked' = asked + Len(q)
  /\ UNCHANGED refreshes

AddRefresh(x) ==
  /\ asked < MaxAsked
  /\ refreshes' = Append(refreshes,
       [n |-> asked + 1, row |-> FALSE,
        request |-> [type |-> "subscriber_id", id |-> x, action |-> "none"]])
  /\ asked' = asked + 1
  /\ UNCHANGED aborts

(* pcrf_session_cache_insert of a session whose subscriber is known.  The  *)
(* session is indexed when its entry is new.                               *)
Insert(s) ==
  /\ cache' = cache \cup {s}
  /\ named' = named \cup {s}
  /\ known' = known \cup {OwnerOf[s]}

(* Faulty variant of Forget: the key goes with any session of its          *)
(* subscriber.                                                             *)
ForgetKey(s) ==
  /\ cache' = cache \ {s}
  /\ named' = named \ {s}
  /\ known' = known \ {OwnerOf[s]}

(* pcrf_session_cache_remove_local.  The key of a subscriber stays in the  *)
(* index when its last session goes.                                       *)
Forget(s) ==
  /\ cache' = cache \ {s}
  /\ named' = named \ {s}
  /\ UNCHANGED known

Goto(s, step) == ccr' = [ccr EXCEPT ![s] = step]

(* Sessions a request is about, as far as this process knows them. *)
About(request) ==
  IF request.type = "session_id" THEN cache \cap {request.id}
  ELSE {s \in named : OwnerOf[s] = request.id}

-----------------------------------------------------------------------------
(* Faulty variants of the actions below.  They are no part of the model:   *)
(* each shows that a property notices the mistake its name states.         *)

(* The local queue was emptied before the table was asked. *)
LoadRowsFailsLate ==
  /\ pc = "rows"
  /\ aborts' = <<>> /\ refreshes' = <<>>
  /\ list' = <<>>
  /\ conn' = FALSE
  /\ pc' = "waiting"
  /\ UNCHANGED <<gatewayVars, cacheVars, connected, asked, tableVars,
                 handled, recordVars, rar, stop, restarts>>

(* A request that failed ends the pass, and not only its own turn. *)
FromNowhereEndsPass(x) ==
  /\ pc = "next" /\ list # <<>> /\ ~stop
  /\ Head(list).request.id = x /\ x \notin known
  /\ list' = <<>>
  /\ conn' = FALSE
  /\ pc' = "waiting"
  /\ UNCHANGED <<gatewayVars, cacheVars, connected, localVars, tableVars,
                 handled, recordVars, rar, stop, restarts>>

(* A row is deleted whatever the sending came to. *)
DeleteRowAnyway ==
  /\ pc = "session" /\ (left = {} \/ failed)
  /\ pc' = "next"
  /\ rows' = rows \ {Head(list)}
  /\ list' = Tail(list)
  /\ handled' = IF Head(list).row THEN handled ELSE handled \cup {Head(list).n}
  /\ left' = {} /\ failed' = FALSE /\ owed' = {}
  /\ UNCHANGED <<gatewayVars, cacheVars, connected, localVars, added, conn, at,
                 rar, stop, restarts>>

(* iRetVal is not reset for the next request. *)
FinishFailing ==
  /\ pc = "session" /\ (left = {} \/ failed)
  /\ pc' = "next"
  /\ list' = Tail(list)
  /\ handled' = IF Head(list).row THEN handled ELSE handled \cup {Head(list).n}
  /\ left' = {} /\ owed' = {}
  /\ UNCHANGED <<gatewayVars, cacheVars, connected, localVars, added, conn, at, failed,
                 rar, stop, restarts>>

-----------------------------------------------------------------------------
(* The gateways and the handlers of their messages.                        *)

(* CCR-I, or its repetition while no answer has come.  The handler asks to *)
(* end the gateway sessions listed under the address, then the session     *)
(* enters the cache; its rules are looked for afterwards.  What other      *)
(* handlers may do between the two is not a matter of this queue.          *)
Initial(s) ==
  /\ held[s] = "new" \/ (held[s] = "open" /\ ccr[s] = "initial")
  /\ PeerOf[s] \in connected
  /\ held' = [held EXCEPT ![s] = "open"]
  /\ Goto(s, "initial")
  /\ IF Look4StalledSession
     THEN \E q \in SetToSeqs({t \in cache \cap Core : AddressOf[t] = AddressOf[s]}) : AddAborts(q)
     ELSE UNCHANGED localVars
  /\ Insert(s)
  /\ UNCHANGED <<connected, tableVars, threadVars, rar, stop, restarts>>

(* pcrf_subscriber_data_proc delivers, or the subscriber is to be looked   *)
(* at again; then the answer is sent.                                      *)
Operate(s) ==
  /\ ccr[s] = "initial"
  /\ AddRefresh(OwnerOf[s]) \/ UNCHANGED localVars
  /\ Goto(s, "none")
  /\ UNCHANGED <<held, cacheVars, connected, tableVars, threadVars, rar, stop, restarts>>

(* CCR-U of a session with a subscriber, whose rules could not be loaded. *)
Update(s) ==
  /\ held[s] = "open" /\ ccr[s] = "none" /\ PeerOf[s] \in connected
  /\ s \in named
  /\ AddRefresh(OwnerOf[s])
  /\ UNCHANGED <<gatewayVars, cacheVars, connected, tableVars, threadVars, rar, stop, restarts>>

(* CCR-U of a gateway session the cache does not know: there is no         *)
(* subscriber to refresh ...                                               *)
UpdateUnknown(s) ==
  /\ held[s] = "open" /\ ccr[s] = "none" /\ PeerOf[s] \in connected
  /\ s \in Core \ cache
  /\ Goto(s, "unknown")
  /\ UNCHANGED <<held, cacheVars, connected, localVars, tableVars, threadVars, rar, stop, restarts>>

(* ... ACTION_UPDATE_SESSIONCACHE may put the session into the cache, and  *)
(* in any case its end is asked for when the answer is sent.               *)
AskUnknown(s) ==
  /\ ccr[s] = "unknown"
  /\ AddAborts(<<s>>)
  /\ \E updated \in BOOLEAN : cache' = IF updated THEN cache \cup {s} ELSE cache
  /\ Goto(s, "none")
  /\ UNCHANGED <<held, named, known, connected, tableVars, threadVars, rar, stop, restarts>>

(* CCR-T.  The end of a gateway session asks for the end of the Procera    *)
(* sessions the database lists under its address; then it is forgotten.    *)
Terminate(s) ==
  /\ held[s] = "open" /\ ccr[s] = "none" /\ PeerOf[s] \in connected
  /\ held' = [held EXCEPT ![s] = "closed"]
  /\ \E T \in SUBSET {t \in Procera : s \in Core /\ AddressOf[t] = AddressOf[s] /\ held[t] # "new"} :
       \E q \in SetToSeqs(T) : AddAborts(q)
  /\ Forget(s)
  /\ UNCHANGED <<ccr, connected, tableVars, threadVars, rar, stop, restarts>>

(* The other node opened a session, or ended one. *)
Replicate(s) ==
  /\ held[s] \in {"new", "open"} /\ ccr[s] = "none" /\ s \notin cache
  /\ held' = [held EXCEPT ![s] = "open"]
  /\ Insert(s)
  /\ UNCHANGED <<ccr, connected, localVars, tableVars, threadVars, rar, stop, restarts>>

ReplicateRemoval(s) ==
  /\ held[s] = "open"
  /\ held' = [held EXCEPT ![s] = "closed"]
  /\ Forget(s)
  /\ UNCHANGED <<ccr, connected, localVars, tableVars, threadVars, rar, stop, restarts>>

(* app_pcrf_peer_validate.  Nothing takes the mark away again. *)
Validate(p) ==
  /\ p \in Listed \ connected
  /\ connected' = connected \cup {p}
  /\ UNCHANGED <<gatewayVars, cacheVars, localVars, tableVars, threadVars, rar, stop, restarts>>

(* pcrf_client_gx_raa.  Result-Code 5002 of a gateway that has lost the    *)
(* session, or ended it meanwhile, removes it from the cache; other        *)
(* answers, a lost one among them, change nothing.                         *)
Answered(m) ==
  /\ m \in rar
  /\ rar' = rar \ {m}
  /\ \/ /\ held' = [held EXCEPT ![m[1]] = "closed"]
        /\ Forget(m[1])
     \/ UNCHANGED <<held, cacheVars>>
  /\ UNCHANGED <<ccr, connected, localVars, tableVars, threadVars, stop, restarts>>

(* Another program writes a row, or its row falls due. *)
AddRow(request) ==
  /\ added < MaxRows
  /\ added' = added + 1
  /\ rows' = rows \cup {[n |-> added + 1, row |-> TRUE, request |-> request]}
  /\ UNCHANGED <<gatewayVars, cacheVars, connected, localVars, threadVars, rar, stop, restarts>>

-----------------------------------------------------------------------------
(* The thread, pcrf_client_operate_refreshqueue.                           *)

(* pthread_mutex_timedlock runs into its time; the pool has a connection   *)
(* within a second, or has none.                                           *)
TakeConnection ==
  /\ pc = "waiting" /\ ~stop /\ OperateRefreshQueue
  /\ conn' = TRUE
  /\ pc' = "rows"
  /\ UNCHANGED <<gatewayVars, cacheVars, connected, localVars, tableVars, list,
                 handled, recordVars, rar, stop, restarts>>

GoWithout ==
  /\ pc = "waiting" /\ ~stop
  /\ pc' = "local"
  /\ UNCHANGED <<gatewayVars, cacheVars, connected, localVars, tableVars, conn, list,
                 handled, recordVars, rar, stop, restarts>>

(* pcrf_client_db_load_refqueue_data.  A query repeated on a restored      *)
(* connection lists the first rows again.                                  *)
LoadRows ==
  /\ pc = "rows"
  /\ \E q \in SetToSeqs(rows) : \E k \in 0 .. Len(q) : list' = SubSeq(q, 1, k) \o q
  /\ pc' = "local"
  /\ UNCHANGED <<gatewayVars, cacheVars, connected, localVars, tableVars, conn,
                 handled, recordVars, rar, stop, restarts>>

(* The pass ends: listQueue.clear and pcrf_db_pool_rel. *)
EndPass ==
  /\ list' = <<>>
  /\ conn' = FALSE
  /\ pc' = "waiting"
  /\ UNCHANGED <<gatewayVars, cacheVars, connected, localVars, tableVars,
                 handled, recordVars, rar, stop, restarts>>

LoadRowsFails == pc = "rows" /\ EndPass

(* pcrf_client_load_localQueue_data: all that is due, in order of time. *)
LoadLocal ==
  /\ pc = "local"
  /\ list' = list \o aborts \o refreshes
  /\ aborts' = <<>> /\ refreshes' = <<>>
  /\ pc' = "next"
  /\ UNCHANGED <<gatewayVars, cacheVars, connected, asked, tableVars, conn,
                 handled, recordVars, rar, stop, restarts>>

(* pcrf_client_db_load_session_list takes the sessions of a subscriber     *)
(* from the index as soon as the index has its key, even without sessions. *)
Begin(sessions) ==
  /\ pc = "next" /\ list # <<>> /\ ~stop
  /\ left' = sessions
  /\ owed' = About(Head(list).request)
  /\ UNCHANGED <<gatewayVars, cacheVars, connected, localVars, tableVars, conn, list,
                 handled, at, rar, stop, restarts>>

FromCache ==
  /\ list # <<>>
  /\ LET request == Head(list).request
     IN  /\ request.type = "subscriber_id" => request.id \in known
         /\ Begin(IF request.type = "session_id" THEN {request.id} ELSE About(request))
  /\ pc' = "session"
  /\ UNCHANGED failed

(* Otherwise the database is asked.  What it has of the subscriber is not  *)
(* modelled: any of the sessions there ever were.                          *)
AskDatabase(x) ==
  /\ list # <<>>
  /\ Head(list).request.type = "subscriber_id" /\ Head(list).request.id = x
  /\ x \notin known

FromDatabase(x) ==
  /\ conn /\ AskDatabase(x)
  /\ \E S \in SUBSET {s \in Session : OwnerOf[s] = x /\ held[s] # "new"} : Begin(S)
  /\ pc' = "session"
  /\ UNCHANGED failed

FromNowhere(x) ==
  /\ AskDatabase(x)
  /\ Begin({})
  /\ pc' = "session"
  /\ failed' = TRUE

(* The session is done with; the others of the request come next. *)
Treated(s) ==
  /\ left' = left \ {s}
  /\ owed' = owed \ {s}
  /\ UNCHANGED <<gatewayVars, cacheVars, connected, localVars, tableVars, conn, list,
                 handled, failed, stop, restarts>>

NextSession(s) == pc = "session" /\ s \in left /\ ~failed

(* The cache has no such session, or its peer has no dialect. *)
SkipSession(s) ==
  /\ NextSession(s)
  /\ s \notin cache \/ PeerOf[s] \notin Listed
  /\ Treated(s)
  /\ UNCHANGED <<pc, at, rar>>

(* A peer that never connected fails the request, and the sessions that    *)
(* remain are not looked at.                                               *)
NotConnected(s) ==
  /\ NextSession(s)
  /\ s \in cache /\ PeerOf[s] \in Listed \ connected
  /\ failed' = TRUE
  /\ UNCHANGED <<gatewayVars, cacheVars, connected, localVars, tableVars, pc, conn, list,
                 handled, left, at, owed, rar, stop, restarts>>

(* pcrf_client_gx_rar_w_SRCause *)
AbortSession(s) ==
  /\ NextSession(s)
  /\ s \in cache /\ PeerOf[s] \in connected
  /\ Head(list).request.action = "abort_session"
  /\ rar' = rar \cup {<<s, "release">>}
  /\ Treated(s)
  /\ UNCHANGED <<pc, at>>

RefreshSession(s) ==
  /\ NextSession(s)
  /\ s \in cache /\ PeerOf[s] \in connected
  /\ Head(list).request.action # "abort_session"
  /\ pc' = "rules"
  /\ at' = s
  /\ UNCHANGED <<gatewayVars, cacheVars, connected, localVars, tableVars, conn, list,
                 handled, left, failed, owed, rar, stop, restarts>>

(* pcrf_server_create_abon_rule_list returns an empty list for a           *)
(* subscriber without rules, and without an error also when there is no    *)
(* connection or the query fails.  For a session without a subscriber the  *)
(* query finds the rules of nobody, or some.                               *)
Rules(loaded) == loaded /\ conn /\ OwnerOf[at] \in Entitled

(* Without rules the session is to end.  Otherwise its gateway is told     *)
(* what is to change, if anything is.                                      *)
OperateRules ==
  /\ pc = "rules"
  /\ \E loaded, changed \in BOOLEAN :
       rar' = IF ~Rules(loaded) THEN rar \cup {<<at, "release">>}
              ELSE IF changed THEN rar \cup {<<at, "rules">>} ELSE rar
  /\ Treated(at)
  /\ at' = NoSession
  /\ pc' = "session"

(* The next request.  One of the local queue is gone in any case. *)
Finish ==
  /\ pc = "session" /\ (left = {} \/ failed)
  /\ pc' = "next"
  /\ list' = Tail(list)
  /\ handled' = IF Head(list).row THEN handled ELSE handled \cup {Head(list).n}
  /\ left' = {} /\ failed' = FALSE /\ owed' = {}
  /\ UNCHANGED <<gatewayVars, cacheVars, connected, localVars, added, conn, at,
                 rar, stop, restarts>>

(* pcrf_client_db_delete_refqueue, for a request that did not fail. *)
DeleteRow ==
  /\ ~failed
  /\ Finish
  /\ rows' = rows \ {Head(list)}

(* A request that failed, or whose deletion fails, stays in the table. *)
KeepRow ==
  /\ Finish
  /\ UNCHANGED rows

ListDone == pc = "next" /\ (list = <<>> \/ stop) /\ EndPass

(* The mutex is free: pcrf_cli_fini unlocked it. *)
End ==
  /\ pc = "waiting" /\ stop
  /\ pc' = "ended"
  /\ UNCHANGED <<gatewayVars, cacheVars, connected, localVars, tableVars, conn, list,
                 handled, recordVars, rar, stop, restarts>>

-----------------------------------------------------------------------------
(* pcrf_cli_fini *)
Stop ==
  /\ ~stop
  /\ stop' = TRUE
  /\ UNCHANGED <<gatewayVars, cacheVars, connected, localVars, tableVars, threadVars,
                 rar, restarts>>

(* The process dies and starts again with an empty cache: the load of the  *)
(* session list at start is switched off.  Table and gateways remain.      *)
Restart ==
  /\ restarts < MaxRestarts
  /\ restarts' = restarts + 1
  /\ ccr' = [s \in Session |-> "none"]
  /\ cache' = {} /\ named' = {} /\ known' = {} /\ connected' = {}
  /\ aborts' = <<>> /\ refreshes' = <<>> /\ asked' = 0
  /\ pc' = "waiting" /\ conn' = FALSE /\ list' = <<>>
  /\ left' = {} /\ at' = NoSession /\ failed' = FALSE
  /\ rar' = {} /\ stop' = FALSE
  /\ owed' = {} /\ handled' = {}
  /\ UNCHANGED <<held, tableVars>>

Handler(s) ==
  \/ Initial(s) \/ Operate(s) \/ Update(s) \/ UpdateUnknown(s) \/ AskUnknown(s)
  \/ Terminate(s) \/ Replicate(s) \/ ReplicateRemoval(s)

Thread ==
  \/ TakeConnection \/ GoWithout \/ LoadRows \/ LoadRowsFails \/ LoadLocal
  \/ FromCache \/ OperateRules
  \/ \E x \in Subscriber : FromDatabase(x) \/ FromNowhere(x)
  \/ \E s \in Session : SkipSession(s) \/ NotConnected(s) \/ AbortSession(s) \/ RefreshSession(s)
  \/ DeleteRow \/ KeepRow \/ ListDone \/ End

(* Messages are not handled any more when the extension is unloaded. *)
Surroundings ==
  \/ \E s \in Session : Handler(s)
  \/ \E p \in Peer : Validate(p)
  \/ \E m \in rar : Answered(m)
  \/ \E request \in RowRequest : AddRow(request)

Next == Thread \/ (~stop /\ Surroundings) \/ Stop \/ Restart

(* The thread is scheduled, and peers that are listed connect some day.    *)
(* The database does not fail for ever where it is asked again and again.  *)
Fairness ==
  /\ WF_vars(Thread)
  /\ \A p \in Peer : WF_vars(~stop /\ Validate(p))
  /\ SF_vars(TakeConnection)
  /\ SF_vars(LoadRows)
  /\ \A x \in Subscriber : SF_vars(FromDatabase(x))
  /\ SF_vars(DeleteRow)

Spec == Init /\ [][Next]_vars
FairSpec == Spec /\ Fairness

-----------------------------------------------------------------------------
(* Numbers of the local requests in a queue. *)
Numbers(q) == {q[i].n : i \in {j \in DOMAIN q : ~q[j].row}}

NoneTwice(q) == \A i, j \in DOMAIN q : ~q[i].row /\ ~q[j].row /\ q[i].n = q[j].n => i = j

(* A request the handlers placed in the local queue is in one place: it    *)
(* waits, or the thread has it in its list, or the thread is done with it. *)
(* None is processed twice, and none is lost by a pass that fails half way *)
(* (the local queue is read after the table, pcrf_client.cpp:608); only    *)
(* the end of the thread leaves some behind.                               *)
AskedOnce ==
  /\ stop \/ 1 .. asked = Numbers(aborts) \cup Numbers(refreshes) \cup Numbers(list) \cup handled
  /\ NoneTwice(aborts \o refreshes \o list)
  /\ (Numbers(aborts) \cup Numbers(refreshes) \cup Numbers(list)) \cap handled = {}

(* A row leaves the table only when every session it was about, as the     *)
(* cache had them when its turn came, got its message, needed none, or was *)
(* gone: a failure half way, or a list of sessions that could not be read, *)
(* keeps the row for the next pass (pcrf_client.cpp:612-614).              *)
RowServed ==
  [][restarts' = restarts /\ ~(rows \subseteq rows') => owed = {}]_vars

(* The gateway of a session that is to be ended is told so, or the session *)
(* leaves the cache by itself, whatever else the thread has to do before.  *)
AbortReaches ==
  \A s \in Session :
    (/\ \E i \in DOMAIN aborts : aborts[i].request.id = s
     /\ s \in cache /\ PeerOf[s] \in connected)
      ~> (<<s, "release">> \in rar \/ s \notin cache \/ stop)

(* A row is tried again until it is served: peers that are not connected   *)
(* yet, and queries that fail, delay it but do not keep it for ever.       *)
RowsDrain ==
  OperateRefreshQueue =>
    \A request \in RowRequest : \A n \in 1 .. MaxRows :
      LET row == [n |-> n, row |-> TRUE, request |-> request]
      IN  row \in rows ~> (row \notin rows \/ stop)

=============================================================================
