# PCRF in TLA+

This directory specifies the core of the Policy and Charging Rules Function in
`src/`: a freeDiameter extension, written in C++, that answers the Gx requests
(CCR) of gateways and enforcement points, keeps their sessions in memory, shares
them with other nodes, and stores what they report in an Oracle database.

`PROJECT.json` lists the components, the model-checking runs, the mutants, the
map from definitions to source lines, the hazards and the theorems. Paths below
are relative to `src/src/`.

## 1. The system

### Threads

| thread | code | what it does |
|---|---|---|
| CCR handlers | `pcrf_server.cpp:68`, called by freeDiameter's dispatch threads | answer one CCR each, many at a time |
| data workers | `data_proc/pcrf_timed_oper.cpp:166`, one detached thread per CCR | read a subscriber's rules and quotas under a time limit |
| SQL queues | `pcrf_sql_queue.cpp:164`, `m_iDBPoolSize / 4` of them | execute statements nobody waits for |
| refresh queue | `pcrf_client.cpp` | send RAR when rules or quotas change, abort sessions |
| IPC receiver and operators | `pcrf_ipc.cpp`, `4 * nodes + 1` operators | apply what other nodes did to their sessions |
| cache reloaders | `cache/` | reload rules and subscribers from the database |

### Components, their state, and what makes each correct

| component | state | operations | correct when |
|---|---|---|---|
| **Connection pool** `pcrf_db_pool.cpp` | a list of connections with a mutex each, a counting semaphore | `get`, `rel`, `restore`, `init`, `fin` | a token is worth a connection, whatever the walks over the list overlap with; nothing leaks; no connection has two owners |
| **Session cache** `pcrf_session_cache.cpp`, `pcrf_session_cache_index.cpp` | the records, an index by address, an index by subscriber, two link maps; one mutex | insert or replace, remove, get, the lookups | the five maps agree; a session that is gone is gone everywhere; a lookup finds the session that is meant |
| **Timed data processing** `data_proc/pcrf_timed_oper.cpp` | one `STimedData` per call with two hand-over mutexes, a counter of waiting handlers | `pcrf_subscriber_data_proc`, its worker | the answer is whole or the default; usage is stored once; the data outlive both threads' use; both threads end |
| **CCR handler** `pcrf_server.cpp` | none of its own; calls all the others | CCR-I, CCR-U, CCR-T | gateway and caches agree about a session's rules; an ended session leaves nothing behind; an unknown one is told to end |
| **SQL queues** `pcrf_sql_queue.cpp` | a list, a mutex and a thread per queue; an unprotected round-robin index | `enqueue`, the consumer loop | statements of a session are executed in order, once; a failing one loses no other |
| **Replication** `pcrf_ipc.cpp` | a socket, a ring of operators with a one-message slot each | send and receive session and rule commands | nodes agree about a session that no two operations changed at once, or differ by what was lost |
| **Rule cache** `pcrf_session_rule_cache.cpp` | session to list of active rules | insert, remove, remove of a session | lists what was installed and not removed |
| **Refresh queue** `pcrf_client.cpp` | an in-memory multimap by time and a database queue | add, load, operate, answer callback | a due entry leads to a RAR or stays |
| **Linked sessions, Procera, peers** `pcrf_linked_session.cpp`, `procera/`, `pcrf_peer.cpp` | the table of peers, the tethering map | terminate and report to linked sessions | the end of a gateway's session ends its linked sessions |
| **Requests and answers** `pcrf_server.cpp` from 575, `pcrf_ULI.cpp` | none | extraction of the AVPs of a CCR, choice of its actions, the AVPs of CCA and RAR | the rules to remove are those that are no longer relevant, the ones to install those that are not active yet |
| **Default rules** `data_proc/pcrf_defaultRuleSelector.cpp` | the rules of the configuration | selection by access network, node and peer | a subscriber whose rules could not be loaded gets the ones for his network |
| **Database operations** `pcrf_server_db_oper.cpp`, `pcrf_client_db_oper.cpp` | rows of sessions, location rules, usage | statements and queries of the above | modelled by what they do to the rows others read |
| Rule and subscriber caches `cache/` | maps swapped as a whole at reload | get, reload | not modelled beyond a look-up |
| Tracer, CDR, dictionary, configuration, start-up, AVP helpers | files, tables loaded once | | not modelled: wording, layout, byte formats, sequential start-up |

Interaction: a CCR handler takes a connection from the pool, looks sessions up in
the session cache and changes it, calls the timed processing (whose worker takes
a second connection and may send usage to the SQL queues), answers, and gives the
connection back. The cache sends each change to the other nodes; their operators
apply it with the same `_local` functions. The refresh queue reads the cache and
the peers' table and sends RARs.

### What is hard

* the pool walks its list without a lock (`pcrf_db_pool.cpp:150`);
* two threads share a structure and either may be the last one to use it
  (`pcrf_timed_oper.cpp:138`, `286`), while a flag is raised at any moment;
* a handler holds one connection while it waits for a worker that needs another;
* five maps are kept in step by hand, by keys that a record may lose;
* handlers look up, release the lock, and act on what they saw: another handler, the
  refresh thread or a late answer changes the session in between;
* the rules of a session live at the gateway, in the cache of session rules, in the
  vectors of a handler and in the copies of its worker;
* statements are erased from their queue before they are committed;
* replication is by datagrams and applied by several threads.

`PROJECT.json` lists each of these as a hazard with the line where it bites and
the properties that cover it, or says which part of the plan will.

## 2. The modules

| module | what it is |
|---|---|
| `ConnPool` | abstract: what the pool promises. Admitted while it is not full, refused only when it is full, an admitted client always gets a connection of its own |
| `DBPool` | `pcrf_db_pool_get` and `pcrf_db_pool_rel`, step by step |
| `DBPoolProofs` | its theorems |
| `SessionRegistry` | abstract: live sessions and the links between them |
| `SessionCache` | insert, replace and remove over the five maps |
| `SessionCacheProofs` | its theorems |
| `Lists` | pure: what a loop that erases entries leaves of a list |
| `ListProofs` | lemmas about it |
| `TimedOper` | a handler and its worker, several pairs over one pool and one counter |
| `TimedOperProofs` | its theorems |
| `SqlJournal` | abstract: statements of a lane are decided once and in order, batches are atomic |
| `SqlQueue` | enqueue, the loop of a queue's thread, reconnection |
| `SqlQueueProofs` | its theorems |
| `RefreshQueue` | the two sources of requests, the thread that turns them into RARs, what gateways, answers, peers and the other node change meanwhile |
| `RefreshQueueProofs` | its theorems |
| `Replication` | from a handler's change of its caches to the same change at another node, and the unloading of that node |
| `ReplicationProofs` | its theorems |
| `UserLocation` | pure: the parser of User-Location-Info, byte by byte, and the names Procera's rules get from it |
| `GxRequest` | pure: what a CCR says (`RequestInfo`, `SessionInfo`) and which actions it calls for (`ActionSet`) |
| `GxAnswer` | pure: the rule lists, which rules are relevant or active, and the AVPs of an answer or a RAR |
| `RuleSelector` | pure: the default rules |
| `CCRHandler` | the composition: handlers, refresh thread, Procera, SQL queue and gateways around the sessions of one subscriber |
| `CCRHandlerProofs` | its theorems |
| `MCDBPool`, `MCSessionCache`, `MCTimedOper`, `MCSqlQueue`, `MCRefreshQueue`, `MCReplication`, `MCCCRHandler` | the instances TLC checks |

### DBPool

`sem` is `g_tDBPoolSem`, `lock[i]` the owner of the i-th connection's mutex,
`pos[c]` the connection client `c` tries next, `held[c]` what it holds. A `get` is
`GetCall` (line 127), then `SemWait` or `SemTimeout` (139), then one
`TryLockFree` or `TryLockBusy` per connection (150-158), the last of which is
"not found" past the end (168). A `rel` is `RelUnlock` (198) and `RelPost` (209),
in that order and as two steps. Every client may be any thread of the process.
`SemTimeout` is enabled only while the semaphore is zero: an interrupted wait
(`EINTR`), which the code reports as a failure too, is left out because no
handler in this program returns to a waiting thread; the mutant
`SemInterrupted` shows what it would break.

### SessionCache

Every operation takes `g_mutexSessionCache` once and is one action.
`Create` and `Replace` are the two branches of
`pcrf_session_cache_insert_local` (`pcrf_session_cache.cpp:94`), `RemoveLocal` is
`pcrf_session_cache_remove_local` (248). `RemoveLink` and `MkLink` are the link
helpers of `pcrf_session_cache_index.cpp` (188, 156). Of a record only the two
fields that are keys of an index are kept. `framedIP` is a list because the order
matters (the last entry is taken); `parent` counts how often a list holds a
session, because the order of those lists is never used but a second occurrence
would be. The dialect of a peer is its set: `Core` sessions have an address index
and may be parents, `Edge` sessions may be children. Commands of other nodes and
Diameter handlers call the same functions, so one `Next` stands for both.

### TimedOper

A member of `Call` is one call of `pcrf_subscriber_data_proc` together with the
worker it starts. `hpc` and `wpc` name the next step of each. The mutexes
`m_mutexDataReady` and `m_mutexDataCopied` are created locked and unlocked by the
other thread, so each is a flag that one side raises and the other consumes. Each
of the worker's parts (usage 191, rules 221, selection 245, monitoring keys 257)
reads `m_iSwitchedToOffline` again, and is an action that reads `offline` once.
A query of the database is external: it succeeds or fails. `mine` and `free` model
the pool as `ConnPool` promises it. `used` records where the usage report went;
`list` is how far the rule list is: `empty`, `loaded`, `marked` with the rules that
are active already, `complete` with monitoring keys.

`pcrf_db_sessionUsage_offline` (`pcrf_server_db_oper.cpp:193`) does not compile as
written (`.` on an iterator to const); it is modelled by what its statements
intend, one entry in the SQL queue.

### SqlQueue

A queue's list is `sent[i]`, everything that was ever appended, and `erased[i]`, how
much was erased from its front: `pcrf_sql_queue_oper` erases the first element only,
so its iterator is always `erased[i] + 1`. `round` is `uiRoundIndex`, which is reduced
and read in two statements without a lock (`ReduceRound`, `TakeRound`,
`pcrf_sql_queue.cpp:312-313`); a thread that indexes past the array ends the process
(`PushOutside`). `cpc[i]` is where a queue's thread is: it wakes (`WakeUp`,
`GetConnection`, `Reconnect`, 182-211), commits before a statement that may be rolled
back (`CommitBefore`, 217), executes (`Execute`, `ExecuteRefused`, `ExecuteBroken`,
`pcrf_sql_queue_oper_single`), commits a full or an old batch (`CommitBatch`, 220-241),
decides what to do with a failed statement (`Failed`, 242-253), erases, commits the
rest (`Finish`, 263). `pending`, `stored`, `refused` and `lost` say what became of each
position; the first is the transaction that is open. The database breaks a connection
at any moment (`Break`) and with it that transaction. An uncaught exception makes
`alive` false, after which nothing happens any more.

### RefreshQueue

`aborts` and `refreshes` are `g_mmapLocalRefreshQueue`, a multimap by time: requests
to end a session are entered at time zero, requests to refresh at the configured
number of seconds (`pcrf_server.cpp:341` calls `time_t(NULL)`, which is zero, where
`time(NULL)` is meant, so they too are due at once). `rows` is the table
`ps.refreshQueue`, which other programs fill (`AddRow`). A pass of
`pcrf_client_operate_refreshqueue` (`pcrf_client.cpp:577`) is `TakeConnection` or
`GoWithout`, then `LoadRows` or `LoadRowsFails` if there is a connection, then
`LoadLocal`, then for each request of `list`: where its sessions come from
(`FromCache`, `FromDatabase`, `FromNowhere`), one action per session and exit of
`pcrf_client_operate_refqueue_record` (`SkipSession`, `NotConnected`, `AbortSession`,
`RefreshSession` and `OperateRules`), and `DeleteRow` or `KeepRow`. `rar` has the
messages that wait for an answer; `Answered` is `pcrf_client_gx_raa`. The cache is
kept as far as the thread reads it: the sessions, those that have a subscriber, and
the subscribers with a key in the index, which stays when the last session goes.
Handlers appear with what they do to the cache and to the local queue; the look at
stalled sessions and the insertion into the cache (`pcrf_server.cpp:99`, `218`) are one
step here, because two handlers that overlap there are not a matter of this queue.
`SkipSession`, `NotConnected` and the messages take the sessions of a request in
any order, as the list is that of a multimap.

### Replication

`Course` is the order in which a handler changes its own caches and sends: a session is
announced before it is inserted (`pcrf_session_cache.cpp:176`), everything else changes
first. `net` has the datagrams under way; the network loses, repeats and reorders them
(external). The parser of packets (`utils/pspacket`) is external too; it is assumed to
refuse a packet that is shorter than its header says, which is what the code sends when
a field does not fit into an attribute (`CHECK_FCT` in a function whose result is a
length, `Packets`). `setData[k]` and `operData[k]` say that the two mutexes of operator
`k` are unlocked; both are locked by one thread and unlocked by another. `SetTask` is
the receiver's side (931), `Test`, `TakeTask`, `ProcessSession`, `ProcessRules`,
`UnlockSet` the operator's (123), with the sessions and the rules changed in two steps
because each has a mutex of its own. `Stop` to `JoinOper` are `pcrf_ipc_fini` and the
destructor (95, 962), whose use of the mutexes is undefined behaviour: an operator that
waits for the mutex that is destroyed gets it or gets an error (`TakeTask`,
`LockFails`), and destroying it may fail. A record is its presence, a session's rules
are counted. Commands of administrators and the node list are left out.

### UserLocation, GxRequest, GxAnswer, RuleSelector

These four have no state. An AVP is a name and a value, where a grouped one has a
sequence of AVPs for a value, and a missing field is the empty set. `RequestInfo` and
`SessionInfo` are `pcrf_extract_req_data` (`pcrf_server.cpp:1413`) with its grouped
AVPs; the last of several AVPs of a name counts, as the switch there overwrites.
`ParseUserLocation` is `pcrf_parse_user_location` (`pcrf_ULI.cpp:85`): lengths are
checked against the sizes of the packed structs, digits are swapped by nibbles. A
value that ends before the octet a type needs makes the code read one more from the
stack; the parser takes the length test only (`IsLocation`). `ActionSet` is
`pcrf_server_determine_action_set` (2158). `SelectActive` and `SelectRelevant` are
the two marks `pcrf_server_select_notrelevant_active` (615) sets; `MakeQoSI` with its
helpers limits bitrates by the aggregate of the request, with the inverted null test
that leaves the guaranteed downlink rate alone (707); `MakeCRR`, `MakeCRI`, `MakeUMI`
are the functions of these names. `DefaultRuleList` is
`pcrf_drs_get_defaultRuleList`; `Configured` is what the lines of the configuration leave in
its list, one rule for each name, at the place of the first line that gives it a condition.
Loops that pick entries are written with `Picked` of `Lists`, so that proofs can use them.
A text is a tuple of its parts.

### CCRHandler

The sessions of one subscriber, all under one Framed-IP-Address: those of gateways
(`Core`) and those of Procera. `hand[t]` is a dispatch thread in
`app_pcrf_ccr_cb` (`pcrf_server.cpp:65`), its `pc` the next call that touches what
others see:

| action | code |
|---|---|
| `Receive` | extraction, the action set, the connection if the actions call for one (65-176) |
| `Find`, `Look`, `Adopt` | the core session of the address: list, last session of it, its data, under three locks (190-215, 254-285, 2284) |
| `Insert` | `pcrf_session_cache_insert` of a CCR-I (218) |
| `Linked`, `EndChild`, `End` | CCR-T: the copied list of children, each of them in turn, the removal (220-236) |
| `Get` | CCR-U: its cached data, or the mark that the session has to be ended (237-286) |
| `Store` | `pcrf_server_req_db_store` (287), statements and reported rules |
| `Active`, `Load` | the active rules, then `pcrf_subscriber_data_proc` with its three results: all of it, part of it, or the defaults and a request for a refresh (290-344) |
| `CacheUpdate` | a CCR-U caches its session again (435) |
| `ListProcera`, `ChangeUli`, `NullConnection` | `pcrf_procera_change_uli` (444): the list, one RAR per Procera session, and the way out when there is no connection |
| `Rules` | the AVPs of the answer with what they change in the caches (345-539) |
| `Send` | the answer, the connection, the request to end an unknown session (541-571) |

`TakeAbort`, `TakeRefresh`, `Visit`, `Refresh` are the thread of
`pcrf_client_operate_refqueue_record`, `Raa` is `pcrf_client_gx_raa`, `Apply` one
statement of the SQL queue. The gateway keeps what it is sent: `gw`, `held` (the rules
it has installed, under the kind of name they were installed by), `told`, `unknown`.

It takes from the other modules what they show: the session cache is one step per call
(`SessionCache`, `SessionRegistry`), the statements of a session stay in order
(`SqlJournal`), a gathering of data ends with the whole, a part or the defaults
(`TimedOper`, which shows why a part is possible: a worker without a connection).
Three history variables name the races the properties exclude: `crossed` (two threads
changed the rules of a session at a time, so that which message reaches the gateway
last is open, or a report of failed rules was on its way to the cache while one of them did,
or a thread changed them between the comparison and the RAR of a refresh), `raced` (a session was ended while another request of it was handled), and
`owed` (sessions somebody promised to end). What the end of a core session promises is
`MustBeTold`: the children in the cache whose row is live and stays live (`StaysLive`: no
statement that ends it is waiting), because `pcrf_procera_db_load_sess_list` reads the rows; and
nothing if a child is an SCE's, because the one record of `pcrf_linked_session_terminate` keeps
the dialect of the first child it finds and takes the next ones for that. `KeepsRegistry` says that
this cache, filled and emptied by steps of several threads, is still the `SessionRegistry` that
`SessionCache` implements. `RulesAgree` and `RefreshConverges` leave two
kinds of rules out (`Unaccounted`): a group is installed under one name and removed under
another and stays, and a rule without a name is installed and gets no entry in the cache. Without the first two `RulesAgree` and
`EndLeavesNothing` are false, and the hazards at `pcrf_server.cpp:435` and
`pcrf_client.cpp:118` say how.

## 3. The runs

| run | instance | question |
|---|---|---|
| `db_pool` | 4 clients, 3 connections | can a walk miss, a token leak, a connection have two owners; does a walk end even if no holder ever releases; is it the pool of `ConnPool` |
| `session_cache` | 2 gateway sessions, 1 linked session, 1 address and null, 2 subscribers, lists of at most 2 | do the maps stay consistent, is a removed session forgotten, is it `SessionRegistry` |
| `timed_oper` | 2 calls (CCR-I with rules, CCR-U and CCR-T with usage), 1 handler slot, 2 connections | sharing, hand-over, exactly-once usage, termination |
| `sql_queue` | 2 threads, 2 queues, batches of 2, 2 statements, 1 broken connection | is a session's order kept when its statements come from two threads; is each queue the journal of `SqlJournal` |
| `sql_batches` | 1 queue, 3 statements, batches of 2, 2 broken connections | is anything skipped, does a rollback take the work of others, is a transaction left open, how much can a broken connection cost, does the queue drain |
| `refresh_queue` | a gateway session and a Procera session of one subscriber, 2 local requests, 1 row, 1 restart | is a local request lost or processed twice, does a row go before it is served |
| `refresh_live` | 1 session, 1 local request, 1 row of each kind, 1 restart | is a session that is to end told so, does the table drain |
| `replication` | 2 handlers, 1 session with 1 rule, 2 operators, 2 datagrams | is a datagram handed over whole and once, do nodes agree when nothing interferes, is everything received applied, does unloading end |
| `ccr` | 2 handler threads, 1 gateway session, possibly open at the start, 3 requests, 1 change of the rules, 1 waiting statement | do gateway and cache agree about the rules, does an ended session leave nothing, is an unknown one told, does a refresh converge |
| `linked` | the same with a Procera session beside it, no rules but Procera's | do changes of location and the end of the gateway's session reach Procera; is the cache a `SessionRegistry` in the hands of handlers, refreshes and late answers |
| `rules_lost` | as `ccr` | **violated**: does a rule the subscriber still has stay installed |
| `null_connection` | as `linked`, changes of location only | **violated**: does a request without a connection get by without one |

Bounds, and why they are enough. Four clients on three connections are the
smallest instance in which one walker is passed by a second while a third frees
what lies behind both, with a client left to wait. Two core sessions on one address
are what it takes for lists with another session before and after; a second
subscriber lets a record leave its index key; `MaxListed` cuts only how often a
session is created again without being found under its old address. In
`timed_oper` one slot makes the second handler be turned away, and two connections
are what one call needs: with both calls holding one, both workers find the pool
empty. `MaxBatch = 1` and
`MinBatch = 0` stand for 100 and 10: a batch is full with its second statement, and
the clock may end it with the first, so three statements fill a batch, start the next
one, and let each of the ways a statement can fail come before, in and after it. Two
broken connections let the second attempt fail as the first one did. Queues do not
touch each other but for the round, so one is enough for the questions about batches.
In `refresh_queue` two sessions of one subscriber on two peers let a request fail half
way, and their common address lets the end of the one ask for the end of the other; two
local requests let one wait while the other is in the list, and beside the row they
make a list of mixed origin. A restart meets every point of a pass. In `replication` two datagrams are an operation and
the one that overtakes it, or one and its repetition; each operator has one, and the node
may be unloaded at any point.
In `ccr` and `linked` three requests are a whole life (CCR-I, CCR-U, CCR-T), or an update
and what it meets; two threads let the CCR-T cut in anywhere, a third could only repeat one of
them. They are interchangeable, so the runs use symmetry. With one statement waiting, one
step of a handler may run ahead of the database and the next has to wait; that is the order
that matters, since only a look at the rows between two statements of a session shows a
difference. `ccr` has 827,705 distinct states and `linked` 646,751, which takes one to two minutes
each. With four requests `ccr` takes about five minutes and holds too. `EndLeavesNothing` is asked
in `ccr` only, since the theorem covers linked sessions.
The theorems hold for every value of these constants.

Deadlock is checked in `db_pool` and `session_cache`. A system of
finitely many calls ends, so the `timed_oper` runs do not check it; `Quiesces`
says how it ends. The `sql_*` runs end with the statements, the broken connections and
the process; `Drains` says what must have happened by then. The `refresh_*` runs may end
because `pcrf_cli_fini` ends the thread, and `replication` because `pcrf_ipc_fini` unloads the
node and the datagrams are limited. The four runs of `CCRHandler` end with the requests
(`MaxRequests`) or with the process.

### Fairness

`DBPool`: weak fairness of the steps inside `get`'s walk and `rel`'s post. They are
plain code without waits; nothing is assumed of a client that holds a connection or
of the semaphore, and `ScanEnds` holds although no holder need ever release.
`TimedOper`: weak fairness of each handler and each worker. A handler's wait is
limited by the clock (`pthread_mutex_timedlock`), a worker's wait for a connection
by one second, and a query is assumed to return. `DeleteData` waits without a limit,
for a handler that is itself fair. `SqlQueue`: weak fairness of each queue's thread. A failed attempt to get or to restore
a connection changes nothing in the model, so this also says that such attempts do not
fail for ever; without that the code does wait for ever, by intent.
`RefreshQueue`: weak fairness of the thread, which wakes up at an interval; of
`Validate`, as listed peers connect some day; and strong fairness of what the thread
asks of the database again and again (`TakeConnection`, `LoadRows`, `FromDatabase`,
`DeleteRow`): it may fail any number of times, but not each time for ever. Requests of
the local queue rest on this as well, because a pass whose rows cannot be listed does
not reach them (`pcrf_client.cpp:603`). Nothing is assumed of gateways and answers.
`Replication`: weak fairness of the receiver (`poll` returns after 100 ms at the latest),
of each operator, and of `pcrf_ipc_fini` once it was called; nothing of the network.
`SessionCache` has no liveness property: its
operations are single steps. `CCRHandler` states no fairness either. Its questions are about what
is true when everybody has come to rest (`Quiet`); that each part comes to rest is asked where
the part is modelled in detail (`CallsReturn`, `Drains`, `AbortReaches`), and of a gateway that
never answers nothing can be asked.

### Findings

* `rules_lost`: `pcrf_server_select_notrelevant_active` marks an active rule as relevant so
  that it stays (`pcrf_server.cpp:624, 783`). In a CCR-U the worker does this in its own copy
  of the active rules (`pcrf_timed_oper.cpp:254`, copied at 388); `pcrf_make_CRR` then reads
  the handler's vector, in which nothing is marked, and removes all of them, while
  `pcrf_make_CRI` leaves out those that were active. A refresh marks in place and does it right.
* `null_connection`: the connection is only taken when rules or quotas are asked for
  (`pcrf_server.cpp:148`), but a change of location without either ends in
  `pcrf_procera_change_uli`, whose query of the location rules dereferences the connection
  (`pcrf_server_db_oper.cpp:810`). It takes a live Procera session, and the process.

Other divergences were met while modelling and are part of the model as the code has them:
a group of rules is removed under Charging-Rule-Name and so stays at the gateway
(`Grouped` in the properties); an answer 5002 that comes late removes a session that was opened
again; a refused CCR-I leaves its session in the cache; a default rule without conditions is
never offered; `pcrf_procera_change_uli` collects the old rules of all sessions in one vector;
`pcrf_linked_session_terminate` keeps the dialect of the first child, so that Procera sessions
behind an SCE's are not told (`MustBeTold` leaves them out); a subscriber whose rules
cannot be loaded for a refresh is taken for one without rules, and ended; a broken connection
at one of the commits of the SQL queue (`pcrf_sql_queue.cpp:217, 224, 236, 263`) ends the process;
a replaced session keeps its entry under its old address (`pcrf_session_cache.cpp:104`);
`time_t(NULL)` where `time(NULL)` is meant makes every refresh due at once
(`pcrf_server.cpp:341`).

## 4. What is proved

TLAPS proves these for every finite set of clients or calls, any number of
connections, any sets of sessions, addresses and subscribers. Some of what is proved needs no
run of its own: the type invariants of `DBPool`, `TimedOper` and `SqlQueue`,
`WalkersHaveRoom`, `ChildrenAreCached`, `CopyIsExclusive` and `BatchBounded` are conjuncts of
the inductive invariants.

**DBPool** (`DBPoolProofs`). The property to prove is that a walk never misses. It
is not inductive, and neither is the obvious counting of tokens: a walker may be
past all the free connections there are. The invariant adds `WalkersHaveRoom`: from
every position k on, there are at least as many free connections as there are
walkers at k or later. A walker that steps over a busy connection leaves the count
at k and there was no free connection at k, so the inequality at k + 1 is the one
at k; a connection freed behind a walker only adds to the left parts; a new walker
starts at 1, where the semaphore pays for it (`TokensMatchFree`). Taking a
connection at position i removes one walker and one connection from the same
counts. The lemmas are about cardinalities of these sets. From the invariant follow
`AlwaysFound`, `OwnersAgree`, and the refinement of `ConnPool`, whose guard "fewer
than NConn are admitted" is the same count read backwards.

**SessionCache** (`SessionCacheProofs`). `LinksAgree` and `ChildrenAreCached` are proved
inductively together with the typing of the link maps, and `TypeOK` and `IndexesCover` with
what is known of the two indexes: a cached session is listed under an address and a
subscriber, and under the ones its record holds, so that `RemovalForgets` follows for a
session that is listed more than once. What the erase loop leaves of a list is written
without recursion (`Lists`): the entries are picked by the rank of their positions.
`ListProofs` shows that the picked list is one, and has exactly those entries. The proof of
the refinement needs `LinksAgree` to know that
removing a parent removes exactly the links that touch it.

**TimedOper** (`TimedOperProofs`). The invariant is a conjunction, per call, of `Places`
(which pairs of positions of handler and worker are possible), `Signals` (when each
of the two mutexes is unlocked), `Lists` (how far the list is at each position of
the worker, and that a list that is less than complete while the worker is past its
work means that the handler was late), and `Usage` (how often usage was stored),
plus two counts, `CounterExact` and `PoolExact`. `Signals` is why neither thread uses
the data after the other is through; `Lists` is why an abandoned list is never
answered with: it is abandoned only after `offline` was raised, and a handler that
raised it does not copy.

**SqlQueue** (`SqlQueueProofs`). The invariant speaks of one queue at a time. `Decisions`
says that the positions with a fate are exactly those up to the current one; it gives
`Accounted`, and is why the journal's next statement is the one at the iterator.
`Places` says that a statement that may be rolled back meets an empty transaction,
which is what `OnlyBreaksLoseWork` needs, and that a thread is at work only on a
statement that exists. `Batch` bounds the transaction by `iCount`, and ties
`bShouldCommit` to there being something to commit. `Tickets` joins the queues: tickets
grow along a queue and a session has one queue, so that of two statements of a session
the earlier one has the smaller position, and no position beyond the current one is
decided. All safety properties of the runs and the refinement of `SqlJournal` follow,
for any number of threads and queues and any size of the batches.

**RefreshQueue** (`RefreshQueueProofs`). The local requests are numbered as they are
asked for. `Apart` and `Once` say that the numbers in the two parts of the local queue,
in the thread's list and among those it is done with are disjoint and without
repetition, `Places` that together they are all that were given; `ListInv` says that the
list is empty whenever a pass may be abandoned before the local queue was read, and this
is what makes abandoning it harmless. `AskedOnce` follows for queues of any length; the
lemmas are about the numbers of a concatenation, of a tail and of an order of a set.
`RowServed` needs `OwedInv`: what the request in hand still owes is among the sessions to
come or the one whose rules are being loaded, so nothing is owed when both are gone; a
request that failed does not delete its row. When the subscriber has no key in the index
nothing was owed, because every session with a subscriber has its key (`TypeOK`).

**Replication** (`ReplicationProofs`). `TokenInv`: while the receiver lives, an operator is
free (`setData`), has work waiting (`operData`), or is at work, and in the first case its
slot is empty; so `SetTask` overwrites nothing. The destructor breaks this rule when it
unlocks both mutexes, but only after the receiver was joined (`OrderInv`), when nobody
fills a slot any more. `PlaceInv` and `NetInv` say that each datagram has a number of its
own and is in one place, from which `TakenOnce` follows; `OperInv` says that an operator
at work has a task, so that the operator whom the destructor wakes up applies nothing a
second time. The number of operators and threads is arbitrary.
`Agreement` speaks of a session that nothing is under way about. `Clean` says for every moment
what a session without accidents looks like: one operation on it at most is not yet through
(`Alone`, `OneOperation`), that of a thread or the one whose datagram, or whose copies, are
under way; `Pending` says how the nodes stand to each other by the number of steps the
thread has left (`CourseInv` ties them to the order of `Course`). That a session is announced
before it is inserted makes one case its own: thread and datagram are at it together. `Half` is
the moment in which an operator has removed the record of a session and not yet its rules.
Copies do no harm because a removal repeated is the removal (`RulesEffect`), and an
insertion of a rule, which is not, has no copy while the session is clean. TLC checked the
invariant with one session, one rule, two threads and two operators (5,855,599 states) first.

**CCRHandler** (`CCRHandlerProofs`). `StrangersAreTold` speaks of the moment when everybody
is at rest; the invariant says for every moment in whose hands the promise is (`OwedInv`): a
core session that is owed its end is closed, told, or still cached and about to be named by a
handler (`Asks`), in the refresh queue, or visited by its thread (`Visits`). The cache is part
of it because the thread skips sessions it does not find there. Who removes a session must
therefore be known to end it (`EndInv`: the handlers in `linked`, `ending` and `remove` are
those of a closed session), and a late answer 5002 takes the promise back with the session.
A handler's marks survive from `CacheUpdate` to `Send` through every step between. The proof
has one lemma per step over three general ones (`HandlerStep`, `OwnStep`, `ClientStep`), and
holds for any number of threads, sessions and requests, any messages and any rules.
TLC checked the invariant on the instances of `ccr` and `linked` first.
`TypeOK` is proved with `TypeInv`, which adds the data of a handler and of the cache
(a request's data are filled from the cache and cached again) and the session whose rules
the refresh thread is about to send.
`EndLeavesNothing` speaks of rest, too. In between, the rules of a session that is over may
come back: a refresh that compared them before, or a change of location that listed the
session, puts them into the cache after the removal. `ClosedInv` says for every moment what
is left to happen: a session that is over (`Over`: closed, and not raced) is gone from the
caches, or a handler is on the way to remove it (`Removes`), or a RAR was sent whose answer
5002 will (`unknown`). It needs to know that only handlers of CCR-Ts are at such a session,
and only in steps that install nothing (`Ending`). The proof has a lemma per step over
`ClosedStep`, for what a handler does, and `ClosedKept`, for the rest.

`RulesAgree` speaks of a session that no handler is at. Its invariant `RulesInv` has, beside
the types, four parts:

* `AgreeInv` says for every moment how gateway and cache stand to each other (`Rightly`):
  while a session opens the cache is empty until the answer is made, and then has what that
  answer will install; while it is updated both agree, but for the failed rules reported, which
  the gateway has given up already and the cache gives up in `Store`; once an answer is made
  the cache has what the answer will make of the gateway's rules.
* `DataInv` says what the handlers, the refresh thread and the stores hold: lists of rules that
  are installed under their names, lists of active rules that are removed under their names
  (a copy out of the cache has no more than a name), finite stores, which is why a set can be
  listed, and that the handler of a CCR-I installs rules only if it succeeds (`Initiates`).
* `TurnInv` says whose turn it is: the handler of a CCR-I is at a session that opens, that of a
  CCR-U at one that is open or over, and two are at one session only if it is over.
* `HeldInv`: a gateway without a session has no rules of it.

The first half of the proof is about the messages: what an AVP list says of the rules it
removes and installs (`RulesIn`, `Says`), which AVPs say nothing (`Silent`), and that
`MakeCRR` and `MakeCRI` say exactly what `OperateRules` does to the cache (`Conveys`):
the answers and RARs are put together out of parts that are silent and one that conveys.
The second half has a lemma per step and part. The steps that a second thread may take in
between are the reason for `crossed`: `ReAuthAgrees` goes through what a handler of the session
may be at when a RAR passes it, and finds that only those before their `Store` with a report of
failed rules, those before the opening answer and those with an answer made are disturbed.

`RefreshConverges` is an action property of the refresh thread. `ComparedInv` says what it can
count on between comparing and sending: closing and opening makes the loaded rules out of the
active ones (`Separates`: the marks of both lists are complementary), and the active ones are
those of the cache, unless another thread crossed it, while the session is open or its answer
is about to open it (`Ready`). With `AgreeInv` after the step the gateway has the loaded rules.
Its counterpart is `SkipIsRight`: a refresh that passes over a cached session, because what it
loaded shows no changes, has compared names with the cache of session rules; as that agrees with
the gateway (`AgreeInv`), the gateway has the loaded rules already (`NoChanges`,
`RefreshPassesRightly`). TLC checked it on the instance of `ccr`.

`TerminationReaches` speaks of rest once more. `ReachInv` says for every moment where the promise
is: a session that has to be told is closed, told, or still cached, and then a handler is about to
list it (`ListsNext`), it waits in the refresh queue or its thread is about to visit it (`Named`).
While a handler is about to list it, its row has to stay live, or the list would leave it out: so
the statements that wait in the queue are part of the invariant (`StaysLive`), and that only the
session's own CCR-T, after which it is closed, or the answer to a RAR, which takes the promise
back, enters one that ends it. `FreshInv` keeps apart what handlers of gateways and of the others
find: only those of gateways ask for the end of a session, only the others look for a core session,
and a handler starts its list with no dialect. There is one lemma for each part of the state that
carries the promise, each about any step (`OverAndTold`, `CachedStays`, `LiveStays`, `NamedStays`,
`ListingGoesOn`), and one for where it begins (`PromisedIsListed`). TLC checked the invariant on
the instance of `linked`, also with two statements waiting, with a session of an SCE and with two
Procera sessions (up to 3.9 million states).

`KeepsRegistry` is a refinement: a new record is `Open`, with its link if it gets one, a replaced
one is a stutter, and a removal is `Close`, known or not. That a record is new is decided in
`pcrf_session_cache_insert`, so what a handler saw before does not matter; what does is that a
session that is not cached has no link left (`LinkInv`), and that a handler brings a core session
only to a session of an enforcement point (`FreshInv`).

`OnlyMovesKill` bounds what the finding `null_connection` can do: if the process has died, it was
over the update of a core session without a connection, with Procera sessions in the list
(`DeathInv`). Without Procera sessions the process survives whatever is sent to it.

TLC checked these invariants before they were proved, on the instances of `ccr` (827,705
states), `linked` (646,751), `null_connection` and `rules_lost`. Two cases came to light on the way.
A change of location between the comparison of a refresh and its RAR makes the comparison
stale (the RAR removes what is gone already or installs what is there), so it is counted as
crossing; and a rule without a name is the difference that `Unaccounted` now names.

Assumptions: every message names a session and one of the three request types
(`MessageAssumption`), messages, profiles and default rules are lists, the rule cache finds a
rule under its name and hands it out inactive and relevant (`pcrf_rule_cache.cpp:136`), with the
fields of a rule (`RuleAssumption`),
a quota is granted for finitely many keys, the sets of clients, calls and sessions are finite, the constants that stand for
"none" are different from what they stand in for, and there is at least one
connection in `DBPool`, one queue in `SqlQueue` and one operator in `Replication`, and a Session-Id's number is a
natural number.

## 5. What is only model-checked

* Liveness: `ScanEnds`, `CallsReturn`, `Quiesces`, `Drains`, `AbortReaches`, `RowsDrain`,
  `TakenIsApplied`, `FiniReturns`.
* The pure modules (`UserLocation`, `GxRequest`, `RuleSelector`, and of `GxAnswer` what is not
  about the names of rules), through the messages of `MCCCRHandler`.

## 6. Not modelled

* Rule and subscriber caches (`cache/`): a look-up is the constant `Known`. Their periodic
  reload swaps a map under a read-write lock, and no other component notices. (A return between
  lock and unlock on a failed look-up is a matter of one function.)
* Shutdown of the pool (`pcrf_db_pool_fin`), which frees what detached threads may use: which
  threads are left depends on how freeDiameter stops its own.
* The parser of datagrams and the commands of administrators (`pcrf_ipc.cpp`), the listing of the
  session cache, statistics, CDRs, tracer: formats and output.
* Dictionary, configuration, start-up, declarations: read once, in sequence. Of the configuration
  the default rules are modelled (`Configured`).
* Rx sessions: `app_rx` is not in the repository. `pcrf_make_SI` and `pcrf_make_HWUR` are never
  called. `pcrf_umi_rar.cpp` is started by hand.
* Inside a query: it answers as a whole, in part where the code keeps a part, or not at all. What a
  close that throws after a commit does (`pcrf_server_db_oper.cpp:324`) depends on the client
  library.
* More than one subscriber and more than one address in `CCRHandler`: what they change is in
  `SessionCache` and `RefreshQueue`. The other node is in `Replication`.
* The missing `return` of `pcrf_session_cache_lock` (`pcrf_session_cache.cpp:533`) makes every
  test of its result undefined; the models take the outcome that the operation goes on with the
  mutex held.

What would come next: a run with a session of an SCE beside Procera's, with a property that says
which of the children are told; and the sessions that are linked while their core session ends
(`pcrf_server.cpp:226`), which nothing tells.
