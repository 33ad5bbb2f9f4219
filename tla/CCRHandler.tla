----------------------------- MODULE CCRHandler -----------------------------
(***************************************************************************)
(* The course of a CCR through the server, app_pcrf_ccr_cb of              *)
(* pcrf_server.cpp, with what it meets on its way: other handlers, the     *)
(* thread that refreshes and aborts sessions (pcrf_client.cpp), the        *)
(* Procera sessions of the same subscriber, the statements that wait in    *)
(* the SQL queue, and the gateways, which keep the rules they are sent.    *)
(*                                                                         *)
(* One subscriber has all the sessions, under one Framed-IP-Address.  What *)
(* other modules are about is taken as they show it: the session cache is  *)
(* the registry of SessionRegistry with the data of a session, the SQL     *)
(* queue keeps the order of a session's statements (SqlJournal), and       *)
(* pcrf_subscriber_data_proc returns what the database gave, all or a      *)
(* part of it, or in time nothing (TimedOper).  Peers are connected.       *)
(***************************************************************************)
EXTENDS GxAnswer, RuleSelector, Lists, FiniteSets

CONSTANTS Thread,       \* threads that freeDiameter runs handlers in
          Session, NoSession,
          DialectOf,    \* of the peer of a session
          Message,      \* the requests there are, sequences of AVPs
          Profiles,     \* m_listRuleList: lists the subscriber may have
          DefaultRule,  \* the default rules of the configuration, in order
          Known,        \* the rule cache
          Quota,        \* what ps.qm.ProcessQuota grants
          Opened,       \* core sessions that may be open before the start
          MaxRequests, MaxChanges, MaxWaiting  \* bounds of the model

Core == {s \in Session : DialectOf[s] \in CoreDialect}
Procera == {s \in Session : DialectOf[s] = "Procera"}

(* pcrf_peer_is_dialect_used *)
ProceraUsed == Procera # {}

ASSUME SessionAssumption ==
  /\ IsFiniteSet(Session) /\ NoSession \notin Session \cup Thread
  /\ DialectOf \in [Session -> Dialect]
  /\ Opened \subseteq Core
ASSUME ProfileAssumption ==
  /\ 1 \in DOMAIN Profiles
  /\ \A p \in DOMAIN Profiles : IsList(Profiles[p])
ASSUME RuleAssumption ==    \* the rule cache finds rules by their names,
                            \* relevant ones that are not active
  /\ \A n \in DOMAIN Known :
       /\ DOMAIN Known[n] = DOMAIN NamedRule(n, FALSE, TRUE)
       /\ Known[n].name = n /\ ~Known[n].active /\ Known[n].relevant
       /\ IsList(Known[n].flows)
  /\ IsList(DefaultRule)
  /\ IsFiniteSet(DOMAIN Quota)
ASSUME BoundAssumption ==
  MaxRequests \in Nat /\ MaxChanges \in Nat /\ MaxWaiting \in Nat

(* What a message says, extracted once *)
Request == [m \in DOMAIN Message |-> RequestInfo(Message[m])]
Info == [m \in DOMAIN Message |-> SessionInfo(Message[m])]
SessionOf == [m \in DOMAIN Message |-> Head(Info[m].sessionId)]
Type == [m \in DOMAIN Message |-> The(Request[m].type)]
Actions == [m \in DOMAIN Message |->
              ActionSet(DialectOf[SessionOf[m]], Request[m], ProceraUsed)]

ASSUME MessageAssumption ==
  \A m \in DOMAIN Message :
    /\ m # 0    \* the number of no message
    /\ IsList(Message[m])
    /\ SessionOf[m] \in Session
    /\ Request[m].type = {Type[m]}
    /\ Type[m] \in {"INITIAL", "UPDATE", "TERMINATION"}

-----------------------------------------------------------------------------
(* SSessionCache, and the same fields of a request: owner is TRUE for the  *)
(* subscriber, FALSE for an empty Subscriber-Id.                           *)
NoPlace == [cgi |-> {}, ecgi |-> {}, tai |-> {}]

DataOf == [m \in DOMAIN Message |->
  LET info == Info[m]
      env == Request[m].environment
      ids == CorrectSubscription(DialectOf[SessionOf[m]], info.subscription)
  IN  [owner |-> FALSE, calledStation |-> info.calledStation,
       imei |-> info.imei, imsi |-> ids.imsi, e164 |-> ids.e164,
       ipcan |-> env.ipcan, network |-> env.network, rat |-> env.rat,
       operator |-> env.operator, sgsn |-> env.sgsn,
       location |-> [cgi |-> env.location.cgi, ecgi |-> env.location.ecgi,
                     tai |-> env.location.tai]]]

(* pcrf_session_cache_get fills the fields that are null; the subscriber   *)
(* and m_iIPCANType are always the cached ones, a location is one field.   *)
Fill(own, cached) ==
  [f \in DOMAIN own |->
     IF \/ f \in {"owner", "network"}
        \/ own[f] = IF f = "location" THEN NoPlace ELSE {}
     THEN cached[f] ELSE own[f]]

(* pcrf_session_cache_update_some_values: the other way round, for the     *)
(* sessions linked to one that is replaced                                 *)
Updated(old, new) ==
  [f \in DOMAIN old |->
     IF f \in {"owner", "network"} THEN new[f]
     ELSE IF \/ f \in {"imei", "imsi", "e164"}
             \/ new[f] = IF f = "location" THEN NoPlace ELSE {}
     THEN old[f] ELSE new[f]]

-----------------------------------------------------------------------------
VARIABLES
  gw,        \* where the gateway of a session is with it
  held,      \* rules it has installed, each under the kind of its name
  told,      \* sessions it was asked to release
  unknown,   \* sessions it answered a RAR with 5002 for
  cache,     \* g_umapSessionCache: no record or one
  order,     \* the list of the address in the index
  parent,    \* g_mapChild
  rulesOf,   \* g_mapSessRuleLst
  tethering, \* g_pmapTethering
  row,       \* ps.sessionList
  located,   \* open location rules in ps.sessionRule
  queue,     \* statements that wait, by session
  aborts,    \* sessions to end in the refresh queue
  refresh,   \* it holds the subscriber, too
  profile,   \* which of the lists the subscriber has
  changes,   \* changes of it
  alive,     \* the process runs
  hand,      \* the handlers
  client,    \* the thread of the refresh queue
  sent,      \* requests so far
  crossed,   \* history: sessions whose rules two threads changed at a time
  raced,     \* history: sessions ended while another request was handled
  owed       \* history: sessions that have to be told

gateways == <<gw, held, told, unknown>>
registry == <<cache, order, parent>>
ruleVars == <<rulesOf, tethering>>
database == <<row, located, queue>>
requests == <<aborts, refresh>>
outside == <<profile, changes>>
vars == <<gateways, registry, ruleVars, database, requests, outside, alive,
          hand, client, sent, crossed, raced, owed>>

PC == {"idle", "find", "look", "fill", "insert", "linked", "ending", "remove",
       "get", "store", "active", "load", "update", "uli", "rar", "rules", "send"}

Idle == [pc |-> "idle", msg |-> 0, conn |-> FALSE, code |-> 2001,
         actions |-> {}, data |-> NoSession, core |-> NoSession,
         todo |-> {}, dialect |-> {}, ask |-> FALSE, active |-> <<>>,
         rules |-> <<>>, quotas |-> <<>>, old |-> <<>>, answer |-> <<>>]

Resting == [pc |-> "idle", abort |-> FALSE, todo |-> {}, at |-> NoSession,
            rules |-> <<>>, active |-> <<>>, keys |-> FALSE]

Cached == {s \in Session : cache[s] # {}}
Children(s) == {c \in Session : parent[c] = s}
Profile == Profiles[profile]

Init ==
  /\ gw \in {[s \in Session |-> IF s \in opened THEN "open" ELSE "new"] :
              opened \in SUBSET Opened}
  /\ held = [s \in Session |-> {}]
  /\ told = {} /\ unknown = {}
  /\ cache = [s \in Session |-> {}]
  /\ order = <<>>
  /\ parent = [s \in Session |-> NoSession]
  /\ rulesOf = [s \in Session |-> {}]
  /\ tethering = [s \in Session |-> {}]
  /\ row = [s \in Session |-> IF gw[s] = "open" THEN "live" ELSE "none"]
  /\ located = [s \in Session |-> {}]
  /\ queue = [s \in Session |-> <<>>]
  /\ aborts = {} /\ refresh = FALSE
  /\ profile = 1 /\ changes = 0
  /\ alive = TRUE
  /\ hand = [t \in Thread |-> Idle]
  /\ client = Resting
  /\ sent = 0
  /\ crossed = {s \in Session : gw[s] = "open"}
  /\ raced = {} /\ owed = {}

(* The session a handler works for, and whether it handles one *)
At(t) == SessionOf[hand[t].msg]
Handles(t, s) == hand[t].pc # "idle" /\ At(t) = s

Go(t, h) == hand' = [hand EXCEPT ![t] = h]
Then(t, pc) == Go(t, [hand[t] EXCEPT !.pc = pc])

TypeOK ==
  /\ gw \in [Session -> {"new", "opening", "open", "closed"}]
  /\ told \subseteq Session /\ unknown \subseteq Session
  /\ \A s \in Session : \A d \in cache[s] : d.owner \in BOOLEAN
  /\ order \in Seq(Core)
  /\ parent \in [Session -> Core \cup {NoSession}]
  /\ row \in [Session -> {"none", "live", "ended"}]
  /\ aborts \subseteq Session /\ refresh \in BOOLEAN
  /\ profile \in DOMAIN Profiles
  /\ alive \in BOOLEAN
  /\ \A t \in Thread :
       /\ hand[t].pc \in PC
       /\ hand[t].msg \in DOMAIN Message \cup {0}
       /\ hand[t].pc # "idle" => hand[t].msg # 0
       /\ hand[t].todo \subseteq Session
       /\ hand[t].core \in Core \cup {NoSession}
  /\ client.pc \in {"idle", "next", "send"}
  /\ client.todo \subseteq Session

-----------------------------------------------------------------------------
(* The gateways.  The rules a message removes go before those it installs. *)

RuleKinds == {"Charging-Rule-Name", "Charging-Rule-Base-Name"}

(* <<kind, name>> of the rules inside a grouped AVP *)
RulesIn(avps, group) ==
  LET named(a) == IF a.name = "Charging-Rule-Definition"
                  THEN <<"Charging-Rule-Name", Head(a.value).value>>
                  ELSE <<a.name, a.value>>
      inside(list) ==
        {named(list[i]) :
           i \in {j \in DOMAIN list :
                    list[j].name \in RuleKinds \cup {"Charging-Rule-Definition"}}}
  IN  UNION {inside(avps[k].value) :
               k \in {j \in DOMAIN avps : avps[j].name = group}}

Applied(rules, avps) ==
  (rules \ RulesIn(avps, "Charging-Rule-Remove"))
     \cup RulesIn(avps, "Charging-Rule-Install")

(* The rules that a request reports as failed *)
Reported(m) == {The(Request[m].reports[i].ruleName) :
                  i \in DOMAIN Request[m].reports}

(* The failed rules that a request reports are out of the gateway when it  *)
(* sends the report and out of the cache when the handler stores it.       *)
Reporting(u) ==
  /\ hand[u].pc \in {"get", "find", "look", "fill", "store"}
  /\ Reported(hand[u].msg) # {}

(* Two threads change the rules of a session at a time if a message about  *)
(* them is on its way while a handler holds an answer with others or a     *)
(* report of failed ones, or has not opened the session yet.               *)
Crossing(s, t) ==
  IF \E u \in Thread \ {t} :
       /\ Handles(u, s)
       /\ hand[u].pc = "send" \/ gw[s] = "opening" \/ Reporting(u)
  THEN {s} ELSE {}

(* pcrf_client_gx_rar has no answer of its own: an unknown session shows   *)
(* later, in pcrf_client_gx_raa.                                           *)
ReAuth(s, avps, t) ==
  /\ held' = IF gw[s] = "open" THEN [held EXCEPT ![s] = Applied(@, avps)]
                               ELSE held
  /\ unknown' = IF gw[s] = "open" THEN unknown ELSE unknown \cup {s}
  /\ crossed' = crossed \cup Crossing(s, t)
                  \cup (IF t \in Thread /\ client.at = s THEN {s} ELSE {})
  /\ UNCHANGED <<gw, told>>

-----------------------------------------------------------------------------
(* The database gets the statements of one step of a handler together.     *)

NoStatement == [row |-> "keep", all |-> FALSE, closed |-> {}, opened |-> {}]

IsPlace(name) == name # <<>> /\ Head(name) = "User-Location"

Enqueue(s, statement) ==
  IF statement = NoStatement THEN UNCHANGED queue
  ELSE /\ Len(queue[s]) < MaxWaiting
       /\ queue' = [queue EXCEPT ![s] = Append(@, statement)]

(* pcrf_db_insert_session, pcrf_db_update_session and the rules of a       *)
(* session: an update of a row that is not there changes nothing.          *)
Apply(s) ==
  /\ alive
  /\ queue[s] # <<>>
  /\ LET q == Head(queue[s])
     IN  /\ row' = [row EXCEPT ![s] =
                      IF q.row = "keep" \/ (@ = "none" /\ q.row # "insert")
                      THEN @
                      ELSE IF q.row = "end" THEN "ended" ELSE "live"]
         /\ located' = [located EXCEPT ![s] =
                      IF q.all THEN {} ELSE (@ \ q.closed) \cup q.opened]
  /\ queue' = [queue EXCEPT ![s] = Tail(@)]
  /\ UNCHANGED <<gateways, registry, ruleVars, requests, outside, alive, hand,
                 client, sent, crossed, raced, owed>>

(* The cache of session rules: rules taken out and put in, and a session   *)
(* forgotten                                                               *)
Exchanged(s, gone, added) ==
  [rulesOf EXCEPT ![s] = (@ \ gone) \cup added]
Forgotten(s) == [rulesOf EXCEPT ![s] = {}]

(* What is closed and opened by pcrf_make_CRR and pcrf_make_CRI: a rule    *)
(* without a name gets no entry in the cache.                              *)
Closed(active) == Names(NotRelevant(active))
New(rules) == Names(NotActive(rules)) \ {<<>>}

(* A faulty OperateRules, no part of the model: the rules that are removed *)
(* stay in the cache of the session.                                       *)
OperateRulesKeepsClosed(s, active, rules) ==
  /\ rulesOf' = Exchanged(s, {}, New(rules))
  /\ Enqueue(s, [NoStatement EXCEPT
                   !.closed = {n \in Closed(active) : IsPlace(n)},
                   !.opened = {n \in New(rules) : IsPlace(n)}])

OperateRules(s, active, rules) ==
  /\ rulesOf' = Exchanged(s, Closed(active), New(rules))
  /\ Enqueue(s, [NoStatement EXCEPT
                   !.closed = {n \in Closed(active) : IsPlace(n)},
                   !.opened = {n \in New(rules) : IsPlace(n)}])

-----------------------------------------------------------------------------
(* A request arrives.  A gateway sends one request of a session at a time, *)
(* but the end of the session may cut in.  The connection is asked for     *)
(* when the actions call for the database; a gateway's CCR-U goes on       *)
(* without one.                                                            *)
CanSend(s, type) ==
  \/ type = "INITIAL" /\ gw[s] = "new"
  \/ type = "UPDATE" /\ gw[s] = "open" /\ ~\E t \in Thread : Handles(t, s)
  \/ type = "TERMINATION" /\ gw[s] = "open"

FirstStep(dialect, type) ==
  IF type = "UPDATE" THEN "get"
  ELSE IF type = "INITIAL"
  THEN IF dialect \in CoreDialect THEN "insert" ELSE "find"
  ELSE IF dialect \in CoreDialect THEN "linked" ELSE "remove"

NeedsDatabase(m) == Actions[m] \cap {"OPERATE_RULE", "UPDATE_QUOTA"} # {}

Receive(t, m, conn) ==
  LET s == SessionOf[m]
      core == DialectOf[s] \in CoreDialect
      busy == NeedsDatabase(m) /\ ~conn /\ ~(core /\ Type[m] = "UPDATE")
  IN  /\ alive
      /\ hand[t].pc = "idle"
      /\ sent < MaxRequests
      /\ CanSend(s, Type[m])
      /\ conn => NeedsDatabase(m)
      /\ Go(t, [Idle EXCEPT
                  !.pc = FirstStep(DialectOf[s], Type[m]), !.msg = m,
                  !.conn = conn, !.code = IF busy THEN 3004 ELSE 2001,
                  !.actions = Actions[m],
                  !.data = [DataOf[m] EXCEPT !.owner =
                    Type[m] = "INITIAL" /\ DialectOf[s] # "Procera"]])
      /\ gw' = [gw EXCEPT ![s] = IF Type[m] = "INITIAL" THEN "opening"
                                 ELSE IF Type[m] = "UPDATE" THEN @
                                 ELSE "closed"]
      /\ held' = [held EXCEPT ![s] =
           IF Type[m] = "TERMINATION" THEN {}
           ELSE {r \in @ : r[2] \notin Reported(m)}]
      /\ raced' = raced \cup (IF \E u \in Thread : Handles(u, s)
                              THEN {s} ELSE {})
      /\ sent' = sent + 1
  /\ UNCHANGED <<told, unknown, registry, ruleVars, database, requests, outside,
                 alive, client, crossed, owed>>

-----------------------------------------------------------------------------
(* pcrf_server_find_core_sess_byframedip and pcrf_server_find_core_session *)
(* copy the list of the address, look its last session up and hand it to   *)
(* pcrf_session_cache_get: the cache is locked three times.                *)

Inserts(m) == IF Type[m] = "INITIAL" THEN "insert" ELSE "store"

NoCore(t) ==
  LET h == hand[t]
      type == Type[h.msg]
      fatal == IF type = "INITIAL" THEN "Procera" ELSE "SCE"
  IN  Go(t, [h EXCEPT !.pc = Inserts(h.msg), !.core = NoSession,
                      !.code = IF DialectOf[At(t)] = fatal THEN 5030 ELSE @])

Unmoved == <<gateways, ruleVars, database, requests, outside, alive, client, sent>>

Find(t) ==
  /\ alive
  /\ hand[t].pc = "find"
  /\ IF order = <<>> THEN NoCore(t)
     ELSE Go(t, [hand[t] EXCEPT !.pc = "look", !.core = Last(order)])
  /\ UNCHANGED <<Unmoved, registry, crossed, raced, owed>>

Look(t) ==
  LET h == hand[t]
  IN  /\ alive
      /\ h.pc = "look"
      /\ IF \E d \in cache[h.core] :
              DialectOf[At(t)] = "SCE" => d.owner = h.data.owner
         THEN Then(t, "fill") ELSE NoCore(t)
  /\ UNCHANGED <<Unmoved, registry, crossed, raced, owed>>

FilledFrom(data, s) ==
  IF cache[s] = {} THEN data ELSE Fill(data, The(cache[s]))

Adopt(t) ==
  LET h == hand[t]
  IN  /\ alive
      /\ h.pc = "fill"
      /\ Go(t, [h EXCEPT !.pc = Inserts(h.msg),
                         !.data = FilledFrom(@, h.core)])
  /\ UNCHANGED <<Unmoved, registry, crossed, raced, owed>>

-----------------------------------------------------------------------------
(* A faulty InsertSession, no part of the model: every session is indexed. *)
InsertSessionIndexed(s, data, p) ==
  /\ cache' = [cache EXCEPT ![s] = {data}]
  /\ order' = IF cache[s] = {} THEN Append(order, s) ELSE order
  /\ parent' = IF p = NoSession THEN parent ELSE [parent EXCEPT ![s] = p]

(* pcrf_session_cache_insert: a new record is indexed and linked, and one  *)
(* that is replaced hands its data to the sessions linked to it.           *)
InsertSession(s, data, p) ==
  IF cache[s] = {}
  THEN /\ cache' = [cache EXCEPT ![s] = {data}]
       /\ order' = IF s \in Core THEN Append(order, s) ELSE order
       /\ parent' = IF p = NoSession THEN parent ELSE [parent EXCEPT ![s] = p]
  ELSE /\ cache' = [c \in Session |->
                      IF c = s THEN {data}
                      ELSE IF parent[c] = s
                      THEN {Updated(d, data) : d \in cache[c]}
                      ELSE cache[c]]
       /\ UNCHANGED <<order, parent>>

Insert(t) ==
  /\ alive
  /\ hand[t].pc = "insert"
  /\ InsertSession(At(t), hand[t].data, hand[t].core)
  /\ Then(t, "store")
  /\ UNCHANGED <<Unmoved, crossed, raced, owed>>

(* A faulty RemoveSession, no part of the model: the rules of a session    *)
(* that is not cached stay.                                                *)
RemoveSessionIfCached(s) ==
  /\ cache' = [cache EXCEPT ![s] = {}]
  /\ order' = Without(order, s)
  /\ parent' = [c \in Session |->
                  IF s \in {c, parent[c]} THEN NoSession ELSE parent[c]]
  /\ rulesOf' = IF cache[s] = {} THEN rulesOf ELSE Forgotten(s)
  /\ UNCHANGED tethering

(* Another one: the sessions linked to it keep the link. *)
RemoveSessionKeepsLinks(s) ==
  /\ cache' = [cache EXCEPT ![s] = {}]
  /\ order' = Without(order, s)
  /\ parent' = [parent EXCEPT ![s] = NoSession]
  /\ rulesOf' = Forgotten(s)
  /\ UNCHANGED tethering

(* pcrf_session_cache_remove *)
RemoveSession(s) ==
  /\ cache' = [cache EXCEPT ![s] = {}]
  /\ order' = Without(order, s)
  /\ parent' = [c \in Session |->
                  IF s \in {c, parent[c]} THEN NoSession ELSE parent[c]]
  /\ rulesOf' = Forgotten(s)
  /\ UNCHANGED tethering

-----------------------------------------------------------------------------
(* The end of a core session.  pcrf_linked_session_terminate copies the    *)
(* list of the linked sessions and looks each one up.  All of them are     *)
(* looked up into one record: the dialect is that of the first one that is *)
(* still cached.                                                           *)

(* A row stays live until a statement that ends it is applied. *)
StaysLive(c) ==
  row[c] = "live" /\ \A i \in DOMAIN queue[c] : queue[c][i].row # "end"

(* The sessions that the end of s promises to end: those the database      *)
(* knows and is not about to end, unless a session of an SCE is among      *)
(* them, whose dialect may then be taken for theirs                        *)
MustBeTold(s) ==
  IF Children(s) \subseteq Procera
  THEN {c \in Children(s) \cap Cached : StaysLive(c)} ELSE {}

Linked(t) ==
  /\ alive
  /\ hand[t].pc = "linked"
  /\ Go(t, [hand[t] EXCEPT
              !.pc = IF Children(At(t)) = {} THEN "remove" ELSE "ending",
              !.todo = Children(At(t))])
  /\ owed' = owed \cup MustBeTold(At(t))
  /\ UNCHANGED <<Unmoved, registry, crossed, raced>>

(* pcrf_procera_db_load_sess_list: the live Procera sessions that have the *)
(* address of a session the database knows *)
ProceraRows(s) ==
  IF row[s] = "none" THEN {} ELSE {p \in Procera : row[p] = "live"}

(* A faulty EndChild, no part of the model: the address is taken from the  *)
(* row of the core session.                                                *)
EndChildByCore(t, c, served) ==
  LET h == hand[t]
      left == h.todo \ {c}
      ends == cache[c] # {} /\ DialectOf[c] = "Procera"
  IN  /\ alive
      /\ h.pc = "ending" /\ c \in h.todo
      /\ ~served => ends
      /\ Go(t, [h EXCEPT !.todo = left,
                         !.pc = IF left = {} THEN "remove" ELSE @])
      /\ aborts' = aborts \cup (IF ends /\ served THEN ProceraRows(At(t))
                                ELSE {})
      /\ owed' = IF served THEN owed ELSE owed \ {c}
  /\ UNCHANGED <<gateways, registry, ruleVars, database, refresh, outside,
                 alive, client, sent, crossed, raced>>

(* One of the list; served is FALSE when the database does not answer, and *)
(* then nothing is promised to the session.                                *)
EndChild(t, c, served) ==
  LET h == hand[t]
      dialect == IF h.dialect # {} THEN h.dialect ELSE {DialectOf[c]}
      left == h.todo \ {c}
      ends == cache[c] # {} /\ dialect = {"Procera"}
  IN  /\ alive
      /\ h.pc = "ending" /\ c \in h.todo
      /\ ~served => ends
      /\ Go(t, [h EXCEPT !.todo = left,
                         !.pc = IF left = {} THEN "remove" ELSE @,
                         !.dialect = IF left = {} THEN {}
                                     ELSE IF cache[c] = {} THEN @
                                     ELSE dialect])
      /\ aborts' = aborts \cup (IF ends /\ served THEN ProceraRows(c) ELSE {})
      /\ owed' = IF served THEN owed ELSE owed \ {c}
  /\ UNCHANGED <<gateways, registry, ruleVars, database, refresh, outside,
                 alive, client, sent, crossed, raced>>

End(t) ==
  /\ alive
  /\ hand[t].pc = "remove"
  /\ RemoveSession(At(t))
  /\ Then(t, "store")
  /\ UNCHANGED <<gateways, database, requests, outside, alive, client, sent,
                 crossed, raced, owed>>

-----------------------------------------------------------------------------
(* An update: a core session that is not cached will be aborted after the  *)
(* answer, any other goes on to look for the core session.                 *)
Get(t) ==
  LET h == hand[t]
      core == At(t) \in Core
  IN  /\ alive
      /\ h.pc = "get"
      /\ Go(t, [h EXCEPT !.pc = IF core THEN "store" ELSE "find",
                         !.data = FilledFrom(@, At(t)),
                         !.ask = core /\ cache[At(t)] = {}])
  /\ UNCHANGED <<Unmoved, registry, crossed, raced, owed>>

(* pcrf_server_req_db_store *)
Statement(type, closed) ==
  IF type = "INITIAL" THEN [NoStatement EXCEPT !.row = "insert"]
  ELSE IF type = "UPDATE"
  THEN [NoStatement EXCEPT !.row = "open",
                           !.closed = {n \in closed : IsPlace(n)}]
  ELSE [NoStatement EXCEPT !.row = "end", !.all = TRUE]

(* What follows what in an update, by the actions *)
AfterCacheUpdate(actions) ==
  IF "PROCERA_CHANGE_ULI" \in actions THEN "uli" ELSE "rules"
AfterLoad(type, actions) ==
  IF type = "UPDATE" /\ "UPDATE_SESSIONCACHE" \in actions THEN "update"
  ELSE IF type = "UPDATE" THEN AfterCacheUpdate(actions)
  ELSE "rules"

Store(t) ==
  LET h == hand[t]
      s == At(t)
      type == Type[h.msg]
      closed == IF type = "INITIAL" THEN {} ELSE Reported(h.msg)
  IN  /\ alive
      /\ h.pc = "store"
      /\ Enqueue(s, Statement(type, closed))
      /\ rulesOf' = Exchanged(s, closed, {})
      /\ crossed' = crossed \cup (IF client.at = s /\ closed # {}
                                  THEN {s} ELSE {})
      /\ Then(t, IF h.code # 2001 THEN AfterLoad(type, h.actions)
                 ELSE IF type = "UPDATE" /\ "OPERATE_RULE" \in h.actions
                 THEN "active" ELSE "load")
  /\ UNCHANGED <<gateways, registry, tethering, row, located, requests, outside,
                 alive, client, sent, raced, owed>>

(* pcrf_session_rule_cache_get *)
ActiveRules(s) ==
  LET names == SetToSeq(rulesOf[s])
  IN  [i \in DOMAIN names |-> ActiveRule(names[i])]

Active(t) ==
  /\ alive
  /\ hand[t].pc = "active"
  /\ Go(t, [hand[t] EXCEPT !.pc = "load", !.active = ActiveRules(At(t))])
  /\ UNCHANGED <<Unmoved, registry, crossed, raced, owed>>

-----------------------------------------------------------------------------
(* pcrf_db_load_abon_rule_list: a query that fails on the way leaves what  *)
(* it has read in the list and may be repeated once, onto that list; an    *)
(* empty Subscriber-Id has no rules.                                       *)
Part(list) == {SubSeq(list, 1, i) : i \in 0..Len(list)}

Reads(owner) ==
  LET list == IF owner THEN Profile ELSE <<>>
  IN  {a \o b : a \in Part(list), b \in Part(list)}

(* The rules Procera gets whatever the profile is *)
Additional(h) ==
  IF DialectOf[SessionOf[h.msg]] = "Procera"
  THEN AdditionalRules(h.data.imei, h.data.calledStation, h.data.location)
  ELSE <<>>

(* pcrf_db_session_usage, pcrf_make_mk_list and pcrf_server_db_monit_key:  *)
(* the keys of the usage reported and of the rules to be installed         *)
ReportedKeys(h) ==
  LET usages == Request[h.msg].usages
  IN  IF "UPDATE_QUOTA" \in h.actions
      THEN {The(usages[i].key) :
              i \in {j \in DOMAIN usages : UsedSomething(<<usages[j]>>)}}
      ELSE {}

Granted(reported, keys) ==
  [k \in reported \cup (keys \cap DOMAIN Quota) |->
     [Quota[k] EXCEPT !.reported = k \in reported]]

(* pcrf_subscriber_data_load_def_quota: the default is granted in the      *)
(* units the gateway counts.                                               *)
DefaultQuota(usages) ==
  [k \in {The(usages[i].key) : i \in DOMAIN usages} |->
     LET u == usages[Min({i \in DOMAIN usages : usages[i].key = {k}})]
         unit(field) == IF field = {} THEN {} ELSE {"default"}
     IN  [total |-> unit(u.total), output |-> unit(u.output),
          input |-> unit(u.input), reported |-> TRUE]]

(* The worker answers in time.  A report of usage may make the database    *)
(* ask for the rules, after the active ones were not loaded.               *)
Gathered(t, names, asked) ==
  LET h == hand[t]
      type == Type[h.msg]
      actions == IF asked THEN h.actions \cup {"OPERATE_RULE"} ELSE h.actions
      loaded == LoadRuleInfo(Known, names, DialectOf[At(t)], <<>>)
      marked == IF type = "INITIAL" THEN loaded
                ELSE SelectActive(loaded, h.active)
  IN  IF type = "TERMINATION" \/ "OPERATE_RULE" \notin actions
      THEN [h EXCEPT !.quotas = Granted(ReportedKeys(h), {})]
      ELSE [h EXCEPT !.rules = Additional(h) \o marked, !.actions = actions,
                     !.quotas = Granted(ReportedKeys(h), MonitoringKeys(marked))]

DefaultRules(h) ==
  DefaultRuleList(Configured(DefaultRule), h.data.rat, h.data.sgsn,
                  h.data.ipcan, DialectOf[SessionOf[h.msg]])

(* No answer in time, or no thread to wait for: the rules by default for   *)
(* an initial request, the quota by default for an update.                 *)
Defaults(t) ==
  LET h == hand[t]
      first == IF "OPERATE_RULE" \in h.actions THEN Additional(h) ELSE <<>>
  IN  IF Type[h.msg] = "INITIAL"
      THEN [h EXCEPT !.rules = LoadRuleInfo(Known, DefaultRules(h),
                                            DialectOf[At(t)], first)]
      ELSE IF Type[h.msg] = "UPDATE"
      THEN [h EXCEPT !.rules = first,
                     !.quotas = DefaultQuota(Request[h.msg].usages)]
      ELSE h

Loaded(t, h) == Go(t, [h EXCEPT !.pc = AfterLoad(Type[h.msg], h.actions)])

Load(t) ==
  LET h == hand[t]
      reads == IF "OPERATE_RULE" \in h.actions \/ ReportedKeys(h) # {}
               THEN Reads(h.data.owner) ELSE {<<>>}
  IN  /\ alive
      /\ h.pc = "load"
      /\ \/ \E names \in reads,
               asked \in IF ReportedKeys(h) = {} THEN {FALSE} ELSE BOOLEAN :
              /\ Loaded(t, Gathered(t, names, asked))
              /\ UNCHANGED refresh
         \/ /\ Loaded(t, Defaults(t))
            /\ refresh' = (refresh \/ h.data.owner)
  /\ UNCHANGED <<gateways, registry, ruleVars, database, aborts, outside, alive,
                 client, sent, crossed, raced, owed>>

-----------------------------------------------------------------------------
(* The answer to an update: first the session is cached again, known or    *)
(* not ...                                                                 *)
CacheUpdate(t) ==
  LET h == hand[t]
  IN  /\ alive
      /\ h.pc = "update"
      /\ InsertSession(At(t), h.data, h.core)
      /\ Then(t, AfterCacheUpdate(h.actions))
      /\ owed' = owed \cup (IF h.ask THEN {At(t)} ELSE {})
  /\ UNCHANGED <<Unmoved, crossed, raced>>

(* ... then Procera learns where the subscriber is, pcrf_procera_change_uli. *)
(* The sessions are listed over a connection of their own, their location  *)
(* rules over the one of the handler, which may have none: the null        *)
(* pointer it has instead takes the process down.                          *)
ListProcera(t, served) ==
  LET h == hand[t]
      listed == IF served THEN ProceraRows(At(t)) ELSE {}
  IN  /\ alive
      /\ h.pc = "uli"
      /\ Go(t, [h EXCEPT !.pc = IF listed = {} THEN "rules" ELSE "rar",
                         !.todo = listed])
  /\ UNCHANGED <<Unmoved, registry, crossed, raced, owed>>

EmptyRequest == RequestInfo(<<>>)

PlaceRules(s) ==
  LET names == SetToSeq(located[s])
  IN  [i \in DOMAIN names |-> [ActiveRule(names[i]) EXCEPT !.dynamic = {0},
                                                           !.group = {0}]]

(* One session of the list; the rules of those before it are still in the  *)
(* vector.                                                                 *)
ChangeUli(t, p, served) ==
  LET h == hand[t]
      left == IF served THEN h.todo \ {p} ELSE {}
      old == h.old \o PlaceRules(p)
      new == <<ProceraRule(UliRule(Cell(h.data.location), <<>>))>>
  IN  /\ alive
      /\ h.pc = "rar" /\ p \in h.todo
      /\ h.conn
      /\ Go(t, [h EXCEPT !.todo = left,
                         !.pc = IF left = {} THEN "rules" ELSE @,
                         !.old = IF left = {} THEN <<>> ELSE old])
      /\ IF served
         THEN /\ OperateRules(p, old, new)
              /\ ReAuth(p, MakeCRR("Procera", old)
                             \o MakeCRI("Procera", {}, EmptyRequest, new), t)
         ELSE UNCHANGED <<gateways, rulesOf, queue, crossed>>
  /\ UNCHANGED <<registry, tethering, row, located, requests, outside, alive,
                 client, sent, raced, owed>>

NullConnection(t) ==
  /\ alive
  /\ hand[t].pc = "rar" /\ ~hand[t].conn
  /\ alive' = FALSE
  /\ UNCHANGED <<gateways, registry, ruleVars, database, requests, outside,
                 hand, client, sent, crossed, raced, owed>>

-----------------------------------------------------------------------------
(* ... then the rules are removed and installed, in the message and in the *)
(* cache.  The tethering report of Procera adds its rule after that: it    *)
(* only counts when the triggers are set.                                  *)
Operates(h) == "OPERATE_RULE" \in h.actions

Tethers(h) == Type[h.msg] = "UPDATE" /\ "PROCERA_STORE_THET_INFO" \in h.actions

InitialAnswer(h, dialect) ==
  LET r == Request[h.msg]
  IN  MakeSF(Info[h.msg].features)
        \o (IF dialect = "Procera"
            THEN EventTriggers(<<777>>) \o MakeSubscriptionId(h.data)
            ELSE <<>>)
        \o MakeDefaultEPSBearerQoS(r) \o MakeQoSInformation(r)
        \o MakeUMI(h.quotas, FALSE)
        \o MakeCRI(dialect, h.data.network, r, h.rules)
        \o <<AVP("Bearer-Control-Mode", "UE_NW")>>

UpdateAnswer(h, dialect) ==
  LET r == Request[h.msg]
  IN  (IF "COPY_DEFBEARER" \in h.actions
       THEN MakeDefaultEPSBearerQoS(r) \o MakeQoSInformation(r) ELSE <<>>)
        \o (IF Operates(h)
            THEN MakeCRR(dialect, h.active)
                   \o MakeCRI(dialect, h.data.network, r, h.rules)
            ELSE <<>>)
        \o MakeUMI(h.quotas, FALSE)

AnswerRules(t) ==
  LET h == hand[t]
  IN  IF Type[h.msg] = "INITIAL" THEN InitialAnswer(h, DialectOf[At(t)])
      ELSE IF Type[h.msg] = "UPDATE" THEN UpdateAnswer(h, DialectOf[At(t)])
      ELSE <<>>

AnswerTail(t) ==
  LET h == hand[t]
      flag == Request[h.msg].tethering
      all == h.rules \o (IF Tethers(h)
                         THEN TetheringRules(tethering[At(t)], flag) ELSE <<>>)
      keys == Operates(h) /\ KeysInstalled(all)
  IN  IF \/ Type[h.msg] = "INITIAL"
         \/ Type[h.msg] = "UPDATE" /\ Operates(h) /\ RulesChanged(all)
      THEN EventTriggers(AnswerTriggers(DialectOf[At(t)], keys))
      ELSE <<>>

Rules(t) ==
  LET h == hand[t]
      s == At(t)
      operates == Operates(h) /\ Type[h.msg] # "TERMINATION"
  IN  /\ alive
      /\ h.pc = "rules"
      /\ Go(t, [Idle EXCEPT
                  !.pc = "send", !.msg = h.msg, !.code = h.code, !.ask = h.ask,
                  !.rules = h.rules,
                  !.answer = <<AVP("Result-Code", h.code)>>
                               \o AnswerRules(t) \o AnswerTail(t)])
      /\ IF operates THEN OperateRules(s, h.active, h.rules)
         ELSE UNCHANGED <<rulesOf, queue>>
      /\ tethering' = IF Tethers(h)
                      THEN [tethering EXCEPT ![s] =
                              TetheringEntry(@, Request[h.msg].tethering)]
                      ELSE tethering
      /\ crossed' = crossed \cup (IF operates /\ client.at = s THEN {s} ELSE {})
  /\ UNCHANGED <<gateways, registry, row, located, requests, outside, alive,
                 client, sent, raced, owed>>

(* A faulty Send, no part of the model: a session that is cached by now is *)
(* not asked to end.                                                       *)
SendAsks(t) ==
  LET h == hand[t]
      s == At(t)
      opens == gw[s] = "opening" /\ Type[h.msg] = "INITIAL"
  IN  /\ alive
      /\ h.pc = "send"
      /\ gw' = [gw EXCEPT ![s] = IF ~opens THEN @
                                 ELSE IF h.code = 2001 THEN "open" ELSE "new"]
      /\ held' = [held EXCEPT ![s] =
                    IF gw'[s] = "open" THEN Applied(@, h.answer) ELSE @]
      /\ aborts' = aborts \cup (IF h.ask /\ cache[s] = {} THEN {s} ELSE {})
      /\ crossed' = crossed \cup Crossing(s, t)
                      \cup (IF opens THEN {s} \cap unknown ELSE {})
      /\ Go(t, Idle)
  /\ UNCHANGED <<told, unknown, registry, ruleVars, database, refresh, outside,
                 alive, client, sent, raced, owed>>

(* The connection goes back to the pool, the answer to the gateway and the *)
(* unknown session into the refresh queue.                                 *)
Send(t) ==
  LET h == hand[t]
      s == At(t)
      opens == gw[s] = "opening" /\ Type[h.msg] = "INITIAL"
  IN  /\ alive
      /\ h.pc = "send"
      /\ gw' = [gw EXCEPT ![s] = IF ~opens THEN @
                                 ELSE IF h.code = 2001 THEN "open" ELSE "new"]
      /\ held' = [held EXCEPT ![s] =
                    IF gw'[s] = "open" THEN Applied(@, h.answer) ELSE @]
      /\ aborts' = aborts \cup (IF h.ask THEN {s} ELSE {})
      /\ crossed' = crossed \cup Crossing(s, t)
                      \cup (IF opens THEN {s} \cap unknown ELSE {})
      /\ Go(t, Idle)
  /\ UNCHANGED <<told, unknown, registry, ruleVars, database, refresh, outside,
                 alive, client, sent, raced, owed>>

-----------------------------------------------------------------------------
(* pcrf_client_gx_raa: a session its gateway does not know is ended, open  *)
(* again or not, and nobody asks for its end any more.                     *)
Raa(s) ==
  /\ alive
  /\ s \in unknown
  /\ unknown' = unknown \ {s}
  /\ Enqueue(s, [NoStatement EXCEPT !.row = "end"])
  /\ RemoveSession(s)
  /\ crossed' = crossed \cup (IF gw[s] \in {"opening", "open"}
                              THEN {s} ELSE {})
  /\ owed' = owed \ {s}
  /\ UNCHANGED <<gw, held, told, row, located, requests, outside, alive, hand,
                 client, sent, raced>>

(* pcrf_client_operate_refqueue_record with the queue that feeds it.  The  *)
(* sessions of the subscriber are those of the index, or else those of the *)
(* database.                                                               *)
TakeAbort(s) ==
  /\ alive
  /\ client.pc = "idle" /\ s \in aborts
  /\ aborts' = aborts \ {s}
  /\ client' = [Resting EXCEPT !.pc = "next", !.abort = TRUE, !.todo = {s}]
  /\ UNCHANGED <<gateways, registry, ruleVars, database, refresh, outside,
                 alive, hand, sent, crossed, raced, owed>>

TakeRefresh ==
  LET indexed == {s \in Session : \E d \in cache[s] : d.owner}
      listed == IF indexed # {} THEN indexed
                ELSE {s \in Session : row[s] = "live"}
  IN  /\ alive
      /\ client.pc = "idle" /\ refresh
      /\ refresh' = FALSE
      /\ client' = IF listed = {} THEN Resting
                   ELSE [Resting EXCEPT !.pc = "next", !.todo = listed]
  /\ UNCHANGED <<gateways, registry, ruleVars, database, aborts, outside, alive,
                 hand, sent, crossed, raced, owed>>

Past(s) ==
  IF client.todo = {s} THEN Resting
  ELSE [client EXCEPT !.pc = "next", !.todo = @ \ {s}, !.at = NoSession,
                      !.rules = <<>>, !.active = <<>>]

(* pcrf_client_gx_rar_w_SRCause *)
Release(s) ==
  /\ told' = told \cup {s}
  /\ unknown' = IF gw[s] = "open" THEN unknown ELSE unknown \cup {s}
  /\ crossed' = crossed \cup Crossing(s, NoSession)
  /\ client' = Past(s)
  /\ UNCHANGED <<gw, held>>

Skip(s) == client' = Past(s) /\ UNCHANGED <<gateways, crossed>>

(* A faulty Marked, no part of the model: the active rules are marked in a *)
(* copy.                                                                   *)
MarkedInCopy(active, loaded) == active

Marked(active, loaded) == SelectRelevant(loaded, active)

(* The rules are loaded over what Procera gets anyway, which is lost, and  *)
(* compared with the active ones.                                          *)
Compare(s, names) ==
  LET loaded == LoadRuleInfo(Known, names, DialectOf[s], <<>>)
      active == Marked(ActiveRules(s), loaded)
      marked == SelectActive(loaded, ActiveRules(s))
      keys == client.keys \/ \E i \in DOMAIN marked : marked[i].keys # <<>>
  IN  IF loaded = <<>> THEN Release(s)
      ELSE IF ~IsAnyChanges(marked, active) THEN Skip(s)
      ELSE /\ client' = [client EXCEPT !.pc = "send", !.at = s, !.keys = keys,
                                       !.rules = marked, !.active = active]
           /\ UNCHANGED <<gateways, crossed>>

Visit(s) ==
  /\ alive
  /\ client.pc = "next" /\ s \in client.todo
  /\ IF cache[s] = {} THEN Skip(s)
     ELSE IF client.abort THEN Release(s)
     ELSE \E names \in Reads(The(cache[s]).owner) : Compare(s, names)
  /\ UNCHANGED <<registry, ruleVars, database, requests, outside, alive, hand,
                 sent, raced, owed>>

Refresh ==
  LET s == client.at
      dialect == DialectOf[s]
  IN  /\ alive
      /\ client.pc = "send"
      /\ OperateRules(s, client.active, client.rules)
      /\ ReAuth(s, EventTriggers(RefreshTriggers(dialect, client.keys))
                     \o MakeCRR(dialect, client.active)
                     \o MakeUMI(Granted({}, MonitoringKeys(client.rules)), FALSE)
                     \o MakeCRI(dialect, {}, EmptyRequest, client.rules), NoSession)
      /\ client' = Past(s)
  /\ UNCHANGED <<registry, tethering, row, located, requests, outside, alive,
                 hand, sent, raced, owed>>

(* Another program changes the rules of the subscriber and asks for them   *)
(* to be refreshed.                                                        *)
ChangeProfile(p) ==
  /\ changes < MaxChanges
  /\ p # profile
  /\ profile' = p /\ changes' = changes + 1
  /\ refresh' = TRUE
  /\ UNCHANGED <<gateways, registry, ruleVars, database, aborts, alive, hand,
                 client, sent, crossed, raced, owed>>

-----------------------------------------------------------------------------
Handle(t) ==
  \/ \E m \in DOMAIN Message, conn \in BOOLEAN : Receive(t, m, conn)
  \/ Find(t) \/ Look(t) \/ Adopt(t) \/ Insert(t)
  \/ Linked(t) \/ End(t) \/ Get(t) \/ Store(t) \/ Active(t) \/ Load(t)
  \/ \E c \in Session, served \in BOOLEAN : EndChild(t, c, served)
  \/ CacheUpdate(t) \/ NullConnection(t)
  \/ \E served \in BOOLEAN : ListProcera(t, served)
  \/ \E p \in Session, served \in BOOLEAN : ChangeUli(t, p, served)
  \/ Rules(t) \/ Send(t)

Next ==
  \/ \E t \in Thread : Handle(t)
  \/ \E s \in Session : Apply(s) \/ Raa(s) \/ TakeAbort(s) \/ Visit(s)
  \/ TakeRefresh \/ Refresh
  \/ \E p \in DOMAIN Profiles : ChangeProfile(p)

Spec == Init /\ [][Next]_vars

-----------------------------------------------------------------------------
Handled(s) == \E t \in Thread : Handles(t, s)

(* Nobody works on anything. *)
Quiet ==
  /\ alive
  /\ \A t \in Thread : hand[t].pc = "idle"
  /\ client.pc = "idle" /\ aborts = {} /\ unknown = {}

(* The rules the gateway has under their own names *)
Plain(rules) == {r[2] : r \in {q \in rules : q = <<"Charging-Rule-Name", q[2]>>}}
Grouped == {n \in DOMAIN Known : IsSet(Known[n].group)}

(* What is not accounted for: a group is installed under another name than *)
(* it is removed under, and stays; a rule without a name is installed, but *)
(* gets no entry in the cache.                                             *)
Unaccounted == Grouped \cup {<<>>}

(* The cache of session rules, from which the rules to remove are taken,   *)
(* has what the gateway has installed, whatever answers, refreshes, late   *)
(* databases and reports of failed rules made of it, unless two threads    *)
(* changed the rules at a time.                                            *)
RulesAgree ==
  \A s \in Core \cup Procera :
    (alive /\ gw[s] = "open" /\ s \notin crossed /\ ~Handled(s))
      => Plain(held[s]) \ Unaccounted = rulesOf[s] \ Unaccounted

(* A session that its gateway has ended, with no other request under way,  *)
(* leaves nothing in the caches, even if a refresh or a change of location *)
(* put rules there after its CCR-T: the answer to that RAR takes them out. *)
EndLeavesNothing ==
  \A s \in Session :
    (Quiet /\ gw[s] = "closed" /\ s \notin raced)
      => /\ cache[s] = {} /\ rulesOf[s] = {}
         /\ s \notin Range(order) /\ parent[s] = NoSession

(* The Procera sessions linked to a core session are asked to end when it  *)
(* ends ("for Procera we initiate the end of the session when the session  *)
(* on the UGW is over", pcrf_server.cpp), if the database knows them: by   *)
(* the time nobody works on anything they are told or over.                *)
TerminationReaches ==
  Quiet => \A s \in owed \cap Procera : s \in told \/ gw[s] = "closed"

(* "If the session is not found we ask to end it" (pcrf_server.cpp): an    *)
(* unknown core session whose update is cached has been told to end by the *)
(* time nobody works on anything, unless the late answer to a RAR took it  *)
(* out of the cache again.                                                 *)
StrangersAreTold ==
  Quiet => \A s \in owed \cap Core : s \in told \/ gw[s] = "closed"

(* The handlers, which look up, fill and insert in three steps while others *)
(* remove, and the late answers to RARs use the session cache so that it   *)
(* stays the registry of SessionRegistry: a session is linked only as it   *)
(* comes to life, and a link goes with either of its ends.                 *)
Registry == INSTANCE SessionRegistry
              WITH Edge <- Session \ Core,
                   live <- Cached,
                   link <- {l \in Session \X Core : parent[l[1]] = l[2]}

KeepsRegistry == Registry!Spec

(* A refresh leaves the gateway with the rules that were loaded for it and *)
(* no others, if nobody else changed the rules since they were compared.   *)
RefreshConverges ==
  [][LET s == client.at
     IN  (/\ client.pc = "send" /\ client'.pc # "send"
          /\ s \in Core \cup Procera
          /\ gw[s] = "open" /\ s \notin crossed' /\ ~Handled(s))
           => Plain(held'[s]) \ Unaccounted
                = Names(client.rules) \ Unaccounted]_vars

(* An active rule that has the name of a rule of the subscriber is         *)
(* relevant and stays: pcrf_server.cpp says so where it compares them and  *)
(* where it removes the others.                                            *)
RelevantStay ==
  \A t \in Thread :
    (hand[t].pc = "send" /\ Type[hand[t].msg] = "UPDATE")
      => RulesIn(hand[t].answer, "Charging-Rule-Remove")
           \cap {<<"Charging-Rule-Name", n>> : n \in Names(hand[t].rules)} = {}

(* The database is only needed by the requests that a connection is asked  *)
(* for, so the process never meets a null connection.                      *)
Survives == alive
=============================================================================
